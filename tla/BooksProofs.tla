----------------------------- MODULE BooksProofs -----------------------------
(***************************************************************************)
(* Proofs about the household application: the tables of its server        *)
(* (Ledger) for any finite number of handlers in flight, any files and any *)
(* bounds; its pages (Household) for any tabs, rows and bounds; and the    *)
(* sums of its dashboard (Dashboard) for any tables.                       *)
(***************************************************************************)
EXTENDS Ledger, Household, Dashboard, SequenceTheorems, Sums

-----------------------------------------------------------------------------
(* The tables.  DuplicatesBounded is nearly inductive: a handler comes to  *)
(* wait for its INSERT of a hash only while no row has it, so that the     *)
(* rows and the handlers that wait are then among the handlers; an INSERT  *)
(* turns one that waits into one row.  What is missing is that a handler   *)
(* that waits has a line, and that rows can be counted: HandlersReady,     *)
(* IsFiniteSet.                                                            *)

Inserting == {"create", "import_insert"}

Locals == [pc : {"idle", "create", "import", "import_insert", "update"},
           account : 0..MaxAccounts, todo : Seq(Line),
           row : AccountRow \cup {Idle.row}]

\* What HandlersReady says of one handler.
Ready(r) ==
    /\ r.pc \in Inserting => r.todo # <<>> /\ ValidDate(Head(r.todo))
    /\ r.pc = "update" => r.row \in AccountRow /\ r.row.id = r.account

-----------------------------------------------------------------------------
(* Handlers                                                                *)

\* What the invariant says of the shapes of the handlers and the counters.
LEMMA Types ==
    ASSUME LedgerInv
    PROVE  /\ \A p \in Requests : req[p] \in Locals /\ Ready(req[p])
           /\ drawn \in [account : 0..MaxAccounts, row : Nat, write : 0..MaxWrites,
                         abort : 0..MaxAborts]
           /\ IsFiniteSet(Requests) /\ IsFiniteSet(transactions)
           /\ MaxAccounts \in Nat /\ MaxWrites \in Nat /\ MaxAborts \in Nat
           /\ AccountIds \subseteq 1..MaxAccounts
  BY LedgerAssumption
     DEF LedgerInv, TypeOK, HandlersReady, Locals, Ready, Inserting, Current, AccountIds,
         AccountRow

\* A handler at rest fits, and inserts nothing.
LEMMA IdleTyped == Idle \in Locals /\ Ready(Idle) /\ Idle.pc \notin Inserting
  BY LedgerAssumption, EmptySeq DEF Idle, Locals, Ready, Inserting

\* One handler moves: its locals change and those of the others do not.
LEMMA SetOne ==
    ASSUME LedgerInv, NEW p \in Requests, NEW r \in Locals, Ready(r), Set(p, r)
    PROVE  /\ req'[p] = r /\ \A q \in Requests : q # p => req'[q] = req[q]
           /\ req' \in [Requests -> Locals]
           /\ HandlersReady'
  <1>1. /\ req'[p] = r /\ \A q \in Requests : q # p => req'[q] = req[q]
        /\ req' \in [Requests -> Locals]
    BY DEF Set, LedgerInv, TypeOK, Locals
  <1>2. \A q \in Requests : Ready(req'[q])
    BY <1>1, Types
  <1>3. HandlersReady'
    BY <1>2 DEF HandlersReady, Ready, Inserting, Current
  <1> QED BY <1>1, <1>3

-----------------------------------------------------------------------------
(* Counting                                                                *)

\* What is deleted and what ends can only lower the count.
LEMMA FewerKeepsBound ==
    ASSUME LedgerInv, transactions' \subseteq transactions,
           NEW h \in HashValue, Pending(h)' \subseteq Pending(h)
    PROVE  Cardinality(RowsOf(h)') + Cardinality(Pending(h)') <= Cardinality(Requests)
  <1>1. Cardinality(RowsOf(h)) + Cardinality(Pending(h)) <= Cardinality(Requests)
    BY DEF LedgerInv, DuplicatesBounded
  <1>2. /\ IsFiniteSet(RowsOf(h)) /\ IsFiniteSet(Pending(h))
        /\ RowsOf(h)' \subseteq RowsOf(h)
    <2>1. IsFiniteSet(RowsOf(h))
      BY Types, FS_Subset DEF RowsOf
    <2>2. IsFiniteSet(Pending(h))
      BY Types, FS_Subset DEF Pending
    <2>3. RowsOf(h)' \subseteq RowsOf(h)
      BY DEF RowsOf
    <2> QED BY <2>1, <2>2, <2>3
  <1>3. /\ IsFiniteSet(RowsOf(h)') /\ Cardinality(RowsOf(h)') <= Cardinality(RowsOf(h))
        /\ IsFiniteSet(Pending(h)') /\ Cardinality(Pending(h)') <= Cardinality(Pending(h))
    BY <1>2, FS_Subset
  <1>4. /\ Cardinality(RowsOf(h)) \in Nat /\ Cardinality(RowsOf(h)') \in Nat
        /\ Cardinality(Pending(h)) \in Nat /\ Cardinality(Pending(h)') \in Nat
        /\ Cardinality(Requests) \in Nat
    BY <1>2, <1>3, FS_CardinalityType, Types
  <1> QED BY <1>1, <1>3, <1>4

\* A handler that waits for an INSERT has found no row, so every row and every
\* handler that waits for the same hash is a handler.
LEMMA CheckedKeepsBound ==
    ASSUME LedgerInv, transactions' = transactions, NEW h \in HashValue, ~Stored(h)
    PROVE  Cardinality(RowsOf(h)') + Cardinality(Pending(h)') <= Cardinality(Requests)
  <1>1. RowsOf(h)' = {}
    BY DEF RowsOf, Stored
  <1>2. Pending(h)' \subseteq Requests
    BY DEF Pending
  <1>3. Cardinality(Pending(h)') <= Cardinality(Requests) /\ IsFiniteSet(Pending(h)')
    BY <1>2, Types, FS_Subset
  <1>4. Cardinality(Pending(h)') \in Nat /\ Cardinality(Requests) \in Nat
    BY <1>3, Types, FS_CardinalityType
  <1> QED BY <1>1, <1>3, <1>4, FS_EmptySet

\* An INSERT is one row more and one handler that waits less.
LEMMA InsertKeepsBound ==
    ASSUME LedgerInv, NEW p \in Requests, req[p].pc \in Inserting, InsertRow(p),
           req'[p].pc \notin Inserting, \A q \in Requests : q # p => req'[q] = req[q],
           NEW h \in HashValue
    PROVE  Cardinality(RowsOf(h)') + Cardinality(Pending(h)') <= Cardinality(Requests)
  <1> DEFINE t == [id |-> drawn'.row, account_id |-> req[p].account, hash |-> Hash(Current(p))]
  <1>1. transactions' = transactions \cup {t} /\ t.hash = Hash(Current(p))
    BY DEF InsertRow
  <1> HIDE DEF t
  <1>2. \A q : q \in Pending(h)' <=> q \in Pending(h) /\ q # p
    BY DEF Pending, Current, Inserting
  <1>3. Pending(h)' = Pending(h) \ {p}
    BY <1>2
  <1>4. IsFiniteSet(RowsOf(h)) /\ IsFiniteSet(Pending(h))
    <2>1. RowsOf(h) \subseteq transactions /\ Pending(h) \subseteq Requests
      BY DEF RowsOf, Pending
    <2> QED BY <2>1, Types, FS_Subset
  <1>5. CASE t.hash = h
    <2>1. RowsOf(h)' = RowsOf(h) \cup {t}
      BY <1>1, <1>5 DEF RowsOf
    <2>2. p \in Pending(h)
      BY <1>1, <1>5 DEF Pending, Inserting
    <2>3. /\ IsFiniteSet(RowsOf(h)') /\ Cardinality(RowsOf(h)') <= Cardinality(RowsOf(h)) + 1
          /\ IsFiniteSet(Pending(h)') /\ Cardinality(Pending(h)') = Cardinality(Pending(h)) - 1
      <3>1. Cardinality(RowsOf(h)) \in Nat
        BY <1>4, FS_CardinalityType
      <3>2. IsFiniteSet(RowsOf(h) \cup {t})
            /\ Cardinality(RowsOf(h) \cup {t}) <= Cardinality(RowsOf(h)) + 1
        <4>1. IsFiniteSet(RowsOf(h) \cup {t})
              /\ Cardinality(RowsOf(h) \cup {t}) =
                    IF t \in RowsOf(h) THEN Cardinality(RowsOf(h)) ELSE Cardinality(RowsOf(h)) + 1
          BY <1>4, FS_AddElement
        <4> QED BY <3>1, <4>1
      <3>3. /\ IsFiniteSet(Pending(h) \ {p})
            /\ Cardinality(Pending(h) \ {p}) = Cardinality(Pending(h)) - 1
        BY <1>4, <2>2, FS_RemoveElement
      <3> QED BY <1>3, <2>1, <3>2, <3>3
    <2>4. /\ Cardinality(RowsOf(h)) \in Nat /\ Cardinality(RowsOf(h)') \in Nat
          /\ Cardinality(Pending(h)) \in Nat /\ Cardinality(Pending(h)') \in Nat
          /\ Cardinality(Requests) \in Nat
      BY <1>4, <2>3, Types, FS_CardinalityType
    <2> QED BY <2>3, <2>4 DEF LedgerInv, DuplicatesBounded
  <1>6. CASE t.hash # h
    <2>1. RowsOf(h)' = RowsOf(h)
      BY <1>1, <1>6 DEF RowsOf
    <2>2. p \notin Pending(h)
      BY <1>1, <1>6 DEF Pending
    <2>3. Pending(h)' = Pending(h)
      BY <1>3, <2>2
    <2> QED BY <2>1, <2>3 DEF LedgerInv, DuplicatesBounded
  <1> QED BY <1>5, <1>6

-----------------------------------------------------------------------------
(* One step                                                                *)

\* A handler moves and no row does.  If it comes to wait for an INSERT, it has
\* just seen that no row has its hash.
LEMMA MoveKeeps ==
    ASSUME LedgerInv, NEW p \in Requests, NEW r \in Locals, Ready(r), Set(p, r),
           r.pc \in Inserting => ~Stored(Hash(Head(r.todo))),
           UNCHANGED <<accounts, transactions>>,
           drawn' \in [account : 0..MaxAccounts, row : Nat, write : 0..MaxWrites,
                       abort : 0..MaxAborts]
    PROVE  LedgerInv'
  <1>1. TypeOK'
    <2>1. req' \in [Requests -> Locals]
      BY SetOne
    <2> QED BY <2>1 DEF LedgerInv, TypeOK, Locals, AccountIds
  <1>2. ASSUME NEW h \in HashValue
        PROVE  Cardinality(RowsOf(h)') + Cardinality(Pending(h)') <= Cardinality(Requests)
    <2>1. CASE r.pc \in Inserting /\ Hash(Head(r.todo)) = h
      BY <2>1, CheckedKeepsBound
    <2>2. CASE ~(r.pc \in Inserting /\ Hash(Head(r.todo)) = h)
      <3>1. Pending(h)' \subseteq Pending(h)
        BY <2>2, SetOne DEF Pending, Current, Inserting
      <3> QED BY <3>1, FewerKeepsBound
    <2> QED BY <2>1, <2>2
  <1>3. DuplicatesBounded'
    BY <1>2 DEF DuplicatesBounded
  <1> QED BY <1>1, <1>3, SetOne, Types DEF LedgerInv

\* A request may insert.
LEMMA BegunTyped ==
    ASSUME LedgerInv, Begun
    PROVE  drawn' \in [account : 0..MaxAccounts, row : Nat, write : 0..MaxWrites,
                       abort : 0..MaxAborts]
  BY Types DEF Begun

\* On with the next line: what remains of a file is one.
LEMMA AdvanceTyped ==
    ASSUME LedgerInv, NEW p \in Requests, req[p].todo # <<>>
    PROVE  LET r == [req[p] EXCEPT !.pc = "import", !.todo = Tail(@)]
           IN  r \in Locals /\ Ready(r) /\ r.pc = "import"
  <1> DEFINE r == [req[p] EXCEPT !.pc = "import", !.todo = Tail(@)]
  <1>1. Tail(req[p].todo) \in Seq(Line)
    BY Types, HeadTailProperties DEF Locals
  <1>2. r \in Locals /\ r.pc = "import"
    BY <1>1, Types DEF Locals
  <1> QED BY <1>2 DEF Ready, Inserting

\* A handler inserts the row it has made sure of and waits no more.
LEMMA InsertKeeps ==
    ASSUME LedgerInv, NEW p \in Requests, req[p].pc \in Inserting, InsertRow(p),
           NEW r \in Locals, Ready(r), r.pc \notin Inserting, Set(p, r), UNCHANGED accounts
    PROVE  LedgerInv'
  <1> DEFINE t == [id |-> drawn'.row, account_id |-> req[p].account, hash |-> Hash(Current(p))]
  <1>1. /\ transactions' = transactions \cup {t}
        /\ req[p].account \in AccountIds
        /\ drawn'.row = drawn.row + 1 /\ drawn'.row \in Nat \ {0}
        /\ drawn' \in [account : 0..MaxAccounts, row : Nat, write : 0..MaxWrites,
                       abort : 0..MaxAborts]
    BY Types DEF InsertRow
  <1>2. Hash(Current(p)) \in HashValue
    <2>1. Head(req[p].todo) \in Line /\ ValidDate(Head(req[p].todo))
      BY Types, HeadTailProperties DEF Locals, Ready
    <2> QED BY <2>1 DEF HashValue, Hash, Current, Line, ValidDate
  <1>3. t \in [id : Nat \ {0}, account_id : 1..MaxAccounts, hash : HashValue]
    BY <1>1, <1>2, Types
  <1>4. TypeOK'
    <2>1. req' \in [Requests -> Locals]
      BY SetOne
    <2>2. AccountIds' = AccountIds /\ t.account_id \in AccountIds
      BY <1>1 DEF AccountIds
    <2> HIDE DEF t
    <2> QED BY <1>1, <1>3, <2>1, <2>2 DEF LedgerInv, TypeOK, Locals
  <1>5. IsFiniteSet(transactions')
    BY <1>1, Types, FS_AddElement
  <1>6. DuplicatesBounded'
    BY InsertKeepsBound, SetOne DEF DuplicatesBounded
  <1> QED BY <1>4, <1>5, <1>6, SetOne DEF LedgerInv

\* The duplicate check of a line of an import keeps the invariant.
LEMMA ImportCheckKeeps ==
    ASSUME LedgerInv, NEW p \in Requests, ImportCheck(p)
    PROVE  LedgerInv'
  <1>1. UNCHANGED <<accounts, transactions, drawn>>
    BY DEF ImportCheck
  <1>2. CASE Done(p)
    BY <1>1, <1>2, MoveKeeps, IdleTyped, Types DEF Done
  <1>3. CASE req[p].todo # <<>> /\ Advance(p)
    BY <1>1, <1>3, MoveKeeps, AdvanceTyped, Types DEF Advance, Inserting
  <1>4. CASE /\ req[p].todo # <<>> /\ ~Stored(Hash(Current(p))) /\ ValidDate(Current(p))
             /\ Set(p, [req[p] EXCEPT !.pc = "import_insert"])
    <2> DEFINE r == [req[p] EXCEPT !.pc = "import_insert"]
    <2>1. r \in Locals /\ r.pc = "import_insert" /\ r.todo = req[p].todo
      BY Types DEF Locals
    <2>2. Set(p, r)
      BY <1>4
    <2> HIDE DEF r
    <2>3. Ready(r) /\ ~Stored(Hash(Head(r.todo)))
      BY <1>4, <2>1 DEF Ready, Current
    <2> QED BY <1>1, <2>1, <2>2, <2>3, MoveKeeps, Types
  <1> QED BY <1>2, <1>3, <1>4 DEF ImportCheck

\* A request begins.
LEMMA BeginKeeps ==
    ASSUME LedgerInv, NEW p \in Requests, Begin(p)
    PROVE  LedgerInv'
  <1>1. PICK a \in accounts :
           \/ \E item \in Items : CreateTransactionCheck(p, a.id, item)
           \/ \E file \in Files : ImportBegin(p, a.id, file)
           \/ \E name \in Names \cup {Keep}, active \in {"yes", "no", Keep} :
                  UpdateAccountRead(p, a, name, active)
    BY DEF Begin
  <1>2. a \in AccountRow /\ a.id \in 1..MaxAccounts /\ a.id \in 0..MaxAccounts
    BY Types DEF LedgerInv, TypeOK, AccountRow
  <1>3. ASSUME NEW item \in Items, CreateTransactionCheck(p, a.id, item)
        PROVE  LedgerInv'
    <2> DEFINE line == [date |-> "padded", item |-> item]
               r == [Idle EXCEPT !.pc = "create", !.account = a.id, !.todo = <<line>>]
    <2>1. line \in Line /\ ValidDate(line) /\ <<line>> \in Seq(Line) /\ Head(<<line>>) = line
          /\ <<line>> # <<>>
      BY DEF Line, Forms, ValidDate
    <2>2. ~Stored(Hash(line)) /\ Set(p, r) /\ Begun /\ UNCHANGED <<accounts, transactions>>
      BY <1>3 DEF CreateTransactionCheck
    <2> HIDE DEF line
    <2>3. r \in Locals /\ r.todo = <<line>> /\ r.pc = "create"
      BY <1>2, <2>1, IdleTyped DEF Locals
    <2> HIDE DEF r
    <2>4. Ready(r)
      BY <2>1, <2>3 DEF Ready
    <2> QED BY <2>1, <2>2, <2>3, <2>4, MoveKeeps, BegunTyped
  <1>4. ASSUME NEW file \in Files, ImportBegin(p, a.id, file)
        PROVE  LedgerInv'
    <2> DEFINE r == [Idle EXCEPT !.pc = "import", !.account = a.id, !.todo = file]
    <2>1. Set(p, r) /\ Begun /\ UNCHANGED <<accounts, transactions>>
      BY <1>4 DEF ImportBegin
    <2>2. r \in Locals /\ r.pc = "import"
      BY <1>2, LedgerAssumption, IdleTyped DEF Locals
    <2> HIDE DEF r
    <2>3. Ready(r) /\ r.pc \notin Inserting
      BY <2>2 DEF Ready, Inserting
    <2> QED BY <2>1, <2>2, <2>3, MoveKeeps, BegunTyped
  <1>5. ASSUME NEW name \in Names \cup {Keep}, NEW active \in {"yes", "no", Keep},
               UpdateAccountRead(p, a, name, active)
        PROVE  LedgerInv'
    <2> DEFINE w == Overlay(a, name, active)
               r == [Idle EXCEPT !.pc = "update", !.account = a.id, !.row = w]
    <2>1. Set(p, r) /\ UNCHANGED <<accounts, transactions, drawn>>
      BY <1>5 DEF UpdateAccountRead
    <2>2. w \in AccountRow /\ w.id = a.id
      BY <1>2 DEF Overlay, AccountRow, Keep
    <2> HIDE DEF w
    <2>3. r \in Locals /\ r.pc = "update" /\ r.account = a.id /\ r.row = w
      BY <1>2, <2>2, IdleTyped DEF Locals
    <2> HIDE DEF r
    <2>4. Ready(r) /\ r.pc \notin Inserting
      BY <2>2, <2>3 DEF Ready, Inserting
    <2> QED BY <2>1, <2>3, <2>4, MoveKeeps, Types
  <1> QED BY <1>1, <1>3, <1>4, <1>5

\* The UPDATE of an account writes a row of the same id, however old.
LEMMA UpdateWriteKeeps ==
    ASSUME LedgerInv, NEW p \in Requests, UpdateAccountWrite(p)
    PROVE  LedgerInv'
  <1>1. /\ req[p].row \in AccountRow /\ req[p].row.id = req[p].account
        /\ accounts' = {IF a.id = req[p].account THEN req[p].row ELSE a : a \in accounts}
        /\ UNCHANGED <<transactions, drawn>> /\ Set(p, Idle)
    BY Types DEF UpdateAccountWrite, Ready, At, Done
  <1>2. accounts' \subseteq AccountRow /\ AccountIds' = AccountIds
    BY <1>1 DEF LedgerInv, TypeOK, AccountIds
  <1>3. req' \in [Requests -> Locals] /\ HandlersReady'
    BY <1>1, SetOne, IdleTyped
  <1>4. TypeOK'
    BY <1>1, <1>2, <1>3 DEF LedgerInv, TypeOK, Locals
  <1>5. \A h \in HashValue : Pending(h)' \subseteq Pending(h)
    BY <1>1, SetOne, IdleTyped DEF Pending, Current, Inserting
  <1>6. DuplicatesBounded'
    BY <1>1, <1>5, FewerKeepsBound DEF DuplicatesBounded
  <1> QED BY <1>1, <1>3, <1>4, <1>6, Types DEF LedgerInv

\* Rows and accounts go, or an account comes; no handler moves.
LEMMA TablesKeep ==
    ASSUME LedgerInv, UNCHANGED req, transactions' \subseteq transactions,
           accounts' \subseteq AccountRow, \A t \in transactions' : t.account_id \in AccountIds',
           drawn' \in [account : 0..MaxAccounts, row : Nat, write : 0..MaxWrites,
                       abort : 0..MaxAborts]
    PROVE  LedgerInv'
  <1>1. TypeOK'
    BY DEF LedgerInv, TypeOK
  <1>2. HandlersReady'
    BY DEF LedgerInv, HandlersReady, Current
  <1>3. IsFiniteSet(transactions')
    BY Types, FS_Subset
  <1>4. \A h \in HashValue : Pending(h)' \subseteq Pending(h)
    BY DEF Pending, Current
  <1>5. DuplicatesBounded'
    BY <1>4, FewerKeepsBound DEF DuplicatesBounded
  <1> QED BY <1>1, <1>2, <1>3, <1>5 DEF LedgerInv

-----------------------------------------------------------------------------
(* Theorems                                                                *)

\* The invariant holds of empty tables and handlers at rest.
LEMMA InitLedgerInv == Init => LedgerInv
  <1> SUFFICES ASSUME Init PROVE LedgerInv
    OBVIOUS
  <1>1. \A p \in Requests : req[p] = Idle
    BY DEF Init
  <1>2. TypeOK
    <2>1. req \in [Requests -> Locals]
      BY IdleTyped DEF Init
    <2> QED BY <2>1, LedgerAssumption DEF Init, TypeOK, Locals
  <1>3. HandlersReady
    BY <1>1 DEF HandlersReady, Idle
  <1>4. IsFiniteSet(transactions)
    BY FS_EmptySet DEF Init
  <1>5. ASSUME NEW h \in HashValue
        PROVE  Cardinality(RowsOf(h)) + Cardinality(Pending(h)) <= Cardinality(Requests)
    <2>1. RowsOf(h) = {} /\ Pending(h) = {}
      BY <1>1 DEF Init, RowsOf, Pending, Idle
    <2>2. Cardinality(Requests) \in Nat
      BY LedgerAssumption, FS_CardinalityType
    <2> QED BY <2>1, <2>2, FS_EmptySet
  <1> QED BY <1>2, <1>3, <1>4, <1>5 DEF LedgerInv, DuplicatesBounded

\* Every statement of every handler keeps the invariant.
LEMMA NextLedgerInv ==
    ASSUME LedgerInv, [Next]_vars
    PROVE  LedgerInv'
  <1>1. ASSUME NEW p \in Requests, Step(p)
        PROVE  LedgerInv'
    <2>1. CASE CreateTransactionInsert(p)
      <3>1. /\ req[p].pc \in Inserting /\ Set(p, Idle) /\ UNCHANGED accounts
            /\ InsertRow(p) \/ UNCHANGED <<transactions, drawn>>
        BY <2>1 DEF CreateTransactionInsert, AccountGone, At, Inserting, Done
      <3> QED BY <3>1, InsertKeeps, MoveKeeps, IdleTyped, Types
    <2>2. CASE ImportInsert(p)
      <3>1. /\ req[p].pc \in Inserting /\ UNCHANGED accounts
            /\ \/ InsertRow(p) /\ Advance(p)
               \/ UNCHANGED <<transactions, drawn>> /\ Set(p, Idle)
        BY <2>2 DEF ImportInsert, AccountGone, At, Inserting, Done
      <3>2. CASE InsertRow(p) /\ Advance(p)
        <4>1. req[p].todo # <<>>
          BY <3>1, Types DEF Ready
        <4> QED BY <3>1, <3>2, <4>1, InsertKeeps, AdvanceTyped DEF Advance, Inserting
      <3>3. CASE UNCHANGED <<transactions, drawn>> /\ Set(p, Idle)
        BY <3>1, <3>3, MoveKeeps, IdleTyped, Types
      <3> QED BY <3>1, <3>2, <3>3
    <2> QED BY <1>1, <2>1, <2>2, ImportCheckKeeps, UpdateWriteKeeps DEF Step
  <1>2. ASSUME NEW p \in Requests, Abort(p)
        PROVE  LedgerInv'
    <2>1. drawn' \in [account : 0..MaxAccounts, row : Nat, write : 0..MaxWrites,
                      abort : 0..MaxAborts]
      BY <1>2, Types DEF Abort
    <2> QED BY <1>2, <2>1, MoveKeeps, IdleTyped DEF Abort, Done
  <1>3. ASSUME NEW t \in transactions, DeleteTransaction(t)
        PROVE  LedgerInv'
    BY <1>3, TablesKeep, Types DEF DeleteTransaction, LedgerInv, TypeOK, AccountIds
  <1>4. ASSUME NEW name \in Names, CreateAccount(name)
        PROVE  LedgerInv'
    <2> DEFINE a == [id |-> drawn'.account, name |-> name, is_active |-> TRUE]
    <2>1. /\ drawn' \in [account : 0..MaxAccounts, row : Nat, write : 0..MaxWrites,
                         abort : 0..MaxAborts]
          /\ drawn'.account \in 1..MaxAccounts
          /\ accounts' = accounts \cup {a} /\ UNCHANGED <<transactions, req>>
      BY <1>4, Types DEF CreateAccount
    <2>2. a \in AccountRow
      BY <2>1 DEF AccountRow
    <2> HIDE DEF a
    <2>3. accounts' \subseteq AccountRow
      BY <2>1, <2>2 DEF LedgerInv, TypeOK, AccountRow
    <2>4. \A t \in transactions' : t.account_id \in AccountIds'
      BY <2>1 DEF LedgerInv, TypeOK, AccountIds
    <2> QED BY <2>1, <2>3, <2>4, TablesKeep
  <1>5. ASSUME NEW a \in accounts, DeleteAccount(a)
        PROVE  LedgerInv'
    <2>1. /\ accounts' = accounts \ {a}
          /\ transactions' = {t \in transactions : t.account_id # a.id}
          /\ UNCHANGED <<req, drawn>>
      BY <1>5 DEF DeleteAccount
    <2>2. \A t \in transactions' : t.account_id \in AccountIds'
      BY <2>1 DEF LedgerInv, TypeOK, AccountIds
    <2> QED BY <2>1, <2>2, TablesKeep, Types DEF LedgerInv, TypeOK
  <1>6. CASE UNCHANGED vars
    BY <1>6, TablesKeep, Types DEF vars, LedgerInv, TypeOK, AccountIds
  <1> QED BY <1>1, <1>2, <1>3, <1>4, <1>5, <1>6, BeginKeeps DEF Next

\* The tables and the handlers are typed, every row belongs to an account, and
\* the duplicates are bounded.
THEOREM LedgerInductive == Spec => []LedgerInv
  BY InitLedgerInv, NextLedgerInv, PTL DEF Spec

\* Whatever clients upload again, enter by hand, interrupt or delete, a
\* transaction is never stored more often than there are requests at once.
THEOREM DuplicatesStayBounded == Spec => []DuplicatesBounded
  <1>1. LedgerInv => DuplicatesBounded
    BY DEF LedgerInv
  <1> QED BY <1>1, LedgerInductive, PTL

\* No row without an account, no row with a date that does not parse.
THEOREM LedgerTyped == Spec => []TypeOK
  <1>1. LedgerInv => TypeOK
    BY DEF LedgerInv
  <1> QED BY <1>1, LedgerInductive, PTL

\* A client that waits for each answer never stores a transaction twice.
THEOREM SerialClientStoresOnce ==
    ASSUME NEW c, Requests = {c}
    PROVE  Spec => []NoDuplicates
  <1>1. LedgerInv => NoDuplicates
    <2> SUFFICES ASSUME LedgerInv, NEW t \in transactions, NEW u \in transactions,
                        t.hash = u.hash, t # u
                 PROVE  FALSE
      BY DEF NoDuplicates
    <2>1. t.hash \in HashValue
      BY DEF LedgerInv, TypeOK
    <2> DEFINE h == t.hash
    <2>2. {t, u} \subseteq RowsOf(h) /\ RowsOf(h) \subseteq transactions
          /\ Pending(h) \subseteq Requests
      BY DEF RowsOf, Pending
    <2>3. IsFiniteSet(RowsOf(h)) /\ IsFiniteSet(Pending(h))
      BY <2>2, Types, FS_Subset
    <2>4. Cardinality({t, u}) = 2 /\ IsFiniteSet({t, u})
      <3>1. {t, u} = {t} \cup {u} /\ u \notin {t}
        OBVIOUS
      <3>2. IsFiniteSet({t}) /\ Cardinality({t}) = 1
        BY FS_Singleton
      <3>3. /\ IsFiniteSet({t} \cup {u})
            /\ Cardinality({t} \cup {u}) = Cardinality({t}) + 1
        BY <3>1, <3>2, FS_AddElement
      <3> QED BY <3>1, <3>2, <3>3
    <2>5. 2 <= Cardinality(RowsOf(h))
      BY <2>2, <2>3, <2>4, FS_Subset
    <2>6. Cardinality(Requests) = 1
      BY FS_Singleton
    <2>7. Cardinality(RowsOf(h)) \in Nat /\ Cardinality(Pending(h)) \in Nat
      BY <2>3, FS_CardinalityType
    <2>8. Cardinality(RowsOf(h)) + Cardinality(Pending(h)) <= 1
      BY <2>1, <2>6 DEF LedgerInv, DuplicatesBounded
    <2> QED BY <2>5, <2>7, <2>8
  <1> QED BY <1>1, LedgerInductive, PTL

\* An import goes past a line only when a row with its hash is stored.
THEOREM ImportLeavesNoLineBehind == Spec => ImportPassesOnlyStored
  <1> DEFINE Passed(p) ==
        /\ req[p].pc \in {"import", "import_insert"} /\ req'[p].pc = "import"
        /\ req'[p].todo # req[p].todo
  <1>1. ASSUME LedgerInv, [Next]_vars, NEW p \in Requests, Passed(p)
        PROVE  \E t \in transactions' : t.hash = Hash(Current(p))
    <2>1. req' # req
      BY <1>1
    <2>2. PICK q \in Requests : Begin(q) \/ Step(q) \/ Abort(q)
      BY <1>1, <2>1 DEF Next, DeleteTransaction, CreateAccount, DeleteAccount, vars
    <2>3. \E r : Set(q, r)
      BY <2>2, <2>1
         DEF Begin, CreateTransactionCheck, ImportBegin, UpdateAccountRead, Step,
             CreateTransactionInsert, ImportCheck, ImportInsert, UpdateAccountWrite, Abort,
             Done, Advance
    <2>4. q = p
      BY <1>1, <2>3 DEF Set
    <2>5. ~At(p, "idle") /\ ~At(p, "create") /\ ~At(p, "update")
      BY <1>1 DEF At
    <2>6. ~Done(p)
      BY <1>1, Types DEF Done, Set, Idle, LedgerInv, TypeOK
    <2>7. ~Set(p, [req[p] EXCEPT !.pc = "import_insert"])
      BY <1>1, Types DEF Set, LedgerInv, TypeOK, Locals
    <2>8. \/ ImportCheck(p) /\ Stored(Hash(Current(p)))
          \/ ImportInsert(p) /\ InsertRow(p)
      BY <2>2, <2>4, <2>5, <2>6, <2>7
         DEF Begin, CreateTransactionCheck, ImportBegin, UpdateAccountRead, Step,
             CreateTransactionInsert, ImportCheck, ImportInsert, UpdateAccountWrite, Abort
    <2>9. CASE ImportCheck(p) /\ Stored(Hash(Current(p)))
      BY <2>9 DEF ImportCheck, Stored
    <2>10. CASE InsertRow(p)
      <3> DEFINE t == [id |-> drawn'.row, account_id |-> req[p].account,
                       hash |-> Hash(Current(p))]
      <3>1. t \in transactions' /\ t.hash = Hash(Current(p))
        BY <2>10 DEF InsertRow
      <3> QED BY <3>1
    <2> QED BY <2>8, <2>9, <2>10
  <1>2. LedgerInv /\ [Next]_vars => [\A p \in Requests : Passed(p) =>
           \E t \in transactions' : t.hash = Hash(Current(p))]_vars
    BY <1>1
  <1> QED BY <1>2, LedgerInductive, PTL DEF Spec, ImportPassesOnlyStored

-----------------------------------------------------------------------------
(* The pages.  First the numbers of calls.                                 *)

\* A set of naturals with a member has a least one.
LEMMA Least ==
    ASSUME NEW T \in SUBSET Nat, T # {}
    PROVE  \E m \in T : \A k \in T : m <= k
  <1> DEFINE below(n) == 0..n
             B == {below(n) : n \in T}
             R == StrictSubsetOrdering(Nat)
             F == FiniteSubsetsOf(Nat)
  <1>1. IsWellFoundedOn(R, F)
    BY FS_StrictSubsetOrderingWellFounded
  <1>2. B \subseteq F /\ B # {}
    <2>1. \A n \in T : IsFiniteSet(0..n)
      BY FS_Interval
    <2>2. \A n \in T : 0..n \in SUBSET Nat
      OBVIOUS
    <2> QED BY <2>1, <2>2 DEF FiniteSubsetsOf
  <1>3. \E x \in B : \A y \in B : <<y, x>> \notin R
    <2> HIDE DEF B, R, F
    <2> QED BY <1>1, <1>2, WFMin
  <1>4. PICK m \in T : \A k \in T : <<0..k, 0..m>> \notin R
    BY <1>3
  <1>5. ASSUME NEW k \in T, k < m
        PROVE  FALSE
    <2>1. 0..k \subseteq 0..m /\ 0..k # 0..m
      <3>1. m \in 0..m /\ m \notin 0..k
        BY <1>5
      <3> QED BY <1>5, <3>1
    <2>2. <<0..k, 0..m>> \in R
      BY <2>1 DEF StrictSubsetOrdering
    <2> QED BY <1>4, <2>2
  <1> QED BY <1>4, <1>5

\* What Max chooses of a bounded set of naturals is its greatest member.
LEMMA MaxAbove ==
    ASSUME NEW N \in SUBSET Nat, N # {}, NEW b \in Nat, \A n \in N : n <= b
    PROVE  Sets!Max(N) \in N /\ \A n \in N : n <= Sets!Max(N)
  <1> DEFINE U == {u \in Nat : \A n \in N : n <= u}
  <1>1. b \in U
    OBVIOUS
  <1>2. PICK m \in U : \A u \in U : m <= u
    BY <1>1, Least
  <1>3. m \in N
    <2>1. PICK n \in N : TRUE
      OBVIOUS
    <2>2. ASSUME m \notin N
          PROVE  FALSE
      <3>1. \A k \in N : k <= m - 1
        BY <1>2, <2>2
      <3>2. m - 1 \in Nat
        BY <1>2, <2>1, <2>2, <3>1
      <3>3. m - 1 \in U
        BY <3>1, <3>2
      <3> QED BY <1>2, <3>3
    <2> QED BY <2>2
  <1>4. \E x \in N : \A y \in N : x >= y
    BY <1>2, <1>3
  <1>5. Sets!Max(N) \in N /\ \A y \in N : Sets!Max(N) >= y
    BY <1>4 DEF Sets!Max
  <1> QED BY <1>5

\* A new call has a number above those of the calls in flight.
LEMMA NextNumberAbove ==
    ASSUME NEW S \in SUBSET HttpCalls, \E b \in Nat : \A c \in S : c.n <= b
    PROVE  NextNumber(S) \in Nat /\ \A c \in S : c.n < NextNumber(S)
  <1> DEFINE N == {0} \cup {c.n : c \in S}
  <1>1. PICK b \in Nat : \A c \in S : c.n <= b
    OBVIOUS
  <1>2. \A c \in S : c.n \in Nat
    BY DEF HttpCalls
  <1>3. N \in SUBSET Nat /\ N # {}
    BY <1>2
  <1>4. \A n \in N : n <= b
    BY <1>1
  <1>5. Sets!Max(N) \in N /\ \A n \in N : n <= Sets!Max(N)
    <2> HIDE DEF N
    <2> QED BY <1>3, <1>4, MaxAbove
  <1>6. NextNumber(S) = 1 + Sets!Max(N)
    BY DEF NextNumber
  <1>7. \A c \in S : c.n \in N
    OBVIOUS
  <1>8. Sets!Max(N) \in Nat
    BY <1>3, <1>5
  <1>9. \A c \in S : c.n <= Sets!Max(N)
    <2> HIDE DEF N
    <2> QED BY <1>5, <1>7
  <1> HIDE DEF N
  <1> DEFINE top == Sets!Max(N)
  <1> QED
    <2>1. top \in Nat /\ NextNumber(S) = 1 + top /\ \A c \in S : c.n <= top
      BY <1>6, <1>8, <1>9
    <2> HIDE DEF top
    <2> QED BY <1>2, <2>1

(***************************************************************************)
(* Calls.                                                                  *)
(***************************************************************************)

\* There is an entry, and the empty list is a list.
LEMMA RowsExist == Entry # {} /\ (CHOOSE e \in Entry : TRUE) \in Entry /\ NoRows \in Lists
  <1>1. PICK l \in Labels, k \in Contents : TRUE
    BY HouseholdAssumption
  <1>2. [label |-> l, content |-> k] \in Entry
    BY DEF Entry
  <1>3. NoRows \in [{} -> Entry]
    BY DEF NoRows
  <1> QED BY <1>2, <1>3 DEF Lists

\* The form of a call that sends none is one.
LEMMA NoFormFits == NoForm \in SentForms
  BY RowsExist DEF NoForm, SentForms

\* A request for the list is a call of its own, numbered after the others.
LEMMA LoadSent ==
    ASSUME NEW S \in SUBSET HttpCalls, \E b \in Nat : \A c \in S : c.n <= b,
           NEW t \in Tabs, NEW submit \in BOOLEAN
    PROVE  LET k == Load(S, t, submit)
           IN  /\ k \in HttpCalls /\ \A c \in S : c.n < k.n
               /\ k.tab = t /\ k.op = "load" /\ k.pc = "sent" /\ k.submit = submit
  <1>1. NextNumber(S) \in Nat /\ \A c \in S : c.n < NextNumber(S)
    BY NextNumberAbove
  <1> QED BY <1>1, RowsExist, NoFormFits DEF Load, Call, HttpCalls

(***************************************************************************)
(* A step concerns one page.                                               *)
(***************************************************************************)

\* A list that has a row as the table has it, or no place for it, stays so
\* while the row stays.
LEMMA BringsKept ==
    ASSUME resource' = resource, NEW i, There(i)' = There(i)
    PROVE  \A list : Brings(list, i) => Brings(list, i)'
  BY DEF Brings, Beyond, RowOf, Date

\* So it is with the list that a page has after a step.
LEMMA PageBrings ==
    ASSUME resource' = resource, NEW i, There(i)' = There(i), NEW t, NEW list,
           page'[t].list = list, Brings(list, i)
    PROVE  Brings(page[t].list, i)'
  BY DEF Brings, Beyond, RowOf, Date

\* What a step leaves to page t: its view, its calls, and the rows it wrote.
Quiet(t) ==
    /\ page'[t] = page[t] /\ CallsOf(t)' = CallsOf(t) /\ resource' = resource
    /\ \A i \in RowIds : writer'[i] = t => writer[i] = t /\ There(i)' = There(i)

\* A page whose calls and rows nothing touches keeps its part of the invariant.
LEMMA QuietKeeps ==
    ASSUME HouseholdInv, HouseholdTypeOK', NEW t \in Tabs, Quiet(t)
    PROVE  PageInv(t)'
  <1>1. CallsOf(t)' = CallsOf(t) /\ page'[t] = page[t] /\ resource' = resource
    BY DEF Quiet
  <1>2. \A i \in RowIds : writer'[i] = t => writer[i] = t /\ There(i)' = There(i)
    BY DEF Quiet
  <1>3. PageInv(t)
    BY DEF HouseholdInv
  <1>4. \A c \in CallsOf(t) : c \in calls /\ c.tab = t
    BY DEF CallsOf
  <1>5. Loads(t)' = Loads(t)
    BY <1>1 DEF Loads
  <1>6. ASSUME NEW i \in RowIds, writer'[i] = t
        PROVE  ShownSoon(t, i)'
    <2>1. ShownSoon(t, i) /\ There(i)' = There(i)
      BY <1>2, <1>3, <1>6 DEF PageInv
    <2>2. Unheard(t, i)' = Unheard(t, i)
      BY <1>1 DEF Unheard
    <2>3. \A l \in Loads(t) : /\ Fresh(l, i) => Fresh(l, i)'
                              /\ Overtaken(l)' = Overtaken(l)
      <3>1. \A l \in Loads(t) : l.tab = t
        BY <1>4 DEF Loads
      <3>2. \A list : Brings(list, i) => Brings(list, i)'
        BY <1>1, <2>1, BringsKept
      <3> QED BY <3>1, <3>2, <1>5 DEF Fresh, Overtaken
    <2>4. Brings(page[t].list, i) => Brings(page[t].list, i)'
      BY <1>1, <2>1, PageBrings
    <2> QED BY <2>1, <2>2, <2>3, <2>4, <1>1, <1>5 DEF ShownSoon
  <1>7. \A i, row : Untouched(t, i, row) => Untouched(t, i, row)'
    <2>1. \A i \in DOMAIN table' : i \in RowIds
      BY DEF HouseholdTypeOK, Lists
    <2> QED BY <2>1, <1>2 DEF Untouched, There, RowOf
  <1>8. ASSUME NEW c \in CallsOf(t)
        PROVE  EditAlone(c)'
    <2>1. EditAlone(c) /\ c.tab = t /\ c \in HttpCalls
      BY <1>3, <1>4 DEF PageInv, HouseholdInv, CallsTyped
    <2>2. CallsOf(c.tab)' = CallsOf(c.tab) /\ page'[c.tab] = page[c.tab]
      BY <2>1, <1>1
    <2>3. Untouched(c.tab, c.id, c.form.copy) => Untouched(c.tab, c.id, c.form.copy)'
      BY <2>1, <1>7
    <2> QED BY <2>1, <2>2, <2>3 DEF EditAlone
  <1>9. FormCurrent(t)'
    <2>1. FormCurrent(t)
      BY <1>3 DEF PageInv
    <2>2. Untouched(t, page[t].dialog.id, page[t].dialog.copy)
            => Untouched(t, page[t].dialog.id, page[t].dialog.copy)'
      BY <1>1, <1>7
    <2> QED BY <1>1, <2>1, <2>2 DEF FormCurrent
  <1> QED BY <1>1, <1>6, <1>8, <1>9 DEF PageInv

\* A step keeps the invariant when it does at the page it concerns.
LEMMA OnePage ==
    ASSUME HouseholdInv, HouseholdTypeOK', CallsTyped', NEW t,
           \A u \in Tabs \ {t} : Quiet(u), t \in Tabs => PageInv(t)'
    PROVE  HouseholdInv'
  BY QuietKeeps DEF HouseholdInv

(***************************************************************************)
(* A call makes way for what becomes of it.                                *)
(***************************************************************************)

Follows(c, d) ==
    /\ d \in HttpCalls
    /\ d.n = c.n /\ d.tab = c.tab /\ d.op = c.op /\ d.form = c.form
    /\ d.submit = c.submit /\ d.late = c.late

\* A call that is answered is the same call, later.
LEMMA AnswerFollows ==
    ASSUME NEW c \in HttpCalls, NEW ok \in BOOLEAN
    PROVE  /\ Follows(c, Answered(c, ok)) /\ Answered(c, ok).id = c.id
           /\ Answered(c, ok).pc = "answered" /\ Answered(c, ok).ok = ok
  BY DEF Follows, Answered, HttpCalls

\* One call goes on: its page has the later one in its place, other pages keep
\* theirs.
LEMMA Replaced ==
    ASSUME CallsTyped, NEW c \in calls, NEW d, Follows(c, d), Replace(c, d)
    PROVE  /\ CallsTyped'
           /\ \A u \in Tabs \ {c.tab} : CallsOf(u)' = CallsOf(u)
           /\ c.tab \in Tabs => CallsOf(c.tab)' = (CallsOf(c.tab) \ {c}) \cup {d}
  <1>1. c \in HttpCalls /\ d \in HttpCalls /\ d.tab = c.tab /\ d.n = c.n /\ d.op = c.op
    BY DEF CallsTyped, Follows
  <1>2. calls' = (calls \ {c}) \cup (IF d.tab = Nobody /\ d.pc = "answered" THEN {} ELSE {d})
    BY DEF Replace
  <1>3. Nobody \notin Tabs
    BY HouseholdAssumption
  <1>4. CallsTyped'
    <2>1. PICK b \in Nat : \A e \in calls : e.n <= b
      BY DEF CallsTyped
    <2>2. \A e \in calls' : e.n <= b
      BY <1>1, <1>2, <2>1
    <2>3. \A e \in calls' : e.pc = "answered" \/ e.op = "load" => e.tab # Nobody
      <3>1. \A e \in calls : e.pc = "answered" \/ e.op = "load" => e.tab # Nobody
        BY DEF CallsTyped
      <3> QED BY <1>1, <1>2, <3>1
    <2>4. calls' \subseteq HttpCalls
      BY <1>1, <1>2 DEF CallsTyped
    <2> QED BY <2>2, <2>3, <2>4 DEF CallsTyped
  <1>5. \A u \in Tabs \ {c.tab} : CallsOf(u)' = CallsOf(u)
    BY <1>1, <1>2 DEF CallsOf
  <1>6. c.tab \in Tabs => CallsOf(c.tab)' = (CallsOf(c.tab) \ {c}) \cup {d}
    BY <1>1, <1>2, <1>3 DEF CallsOf
  <1> QED BY <1>4, <1>5, <1>6

\* The calls of one page grow by k, those of others stay.
LEMMA CallBegun ==
    ASSUME CallsTyped, NEW S \in SUBSET calls, NEW k \in HttpCalls,
           \A c \in S : c.n < k.n, k.tab # Nobody, calls' = S \cup {k}
    PROVE  /\ CallsTyped'
           /\ \A u : CallsOf(u)' = {c \in S : c.tab = u} \cup (IF u = k.tab THEN {k} ELSE {})
  <1>1. CallsTyped'
    <2>1. k.n \in Nat /\ \A e \in S : e.n \in Nat
      BY DEF CallsTyped, HttpCalls
    <2>2. \A e \in calls' : e.n <= k.n
      BY <2>1
    <2>3. \E b \in Nat : \A e \in calls' : e.n <= b
      BY <2>1, <2>2
    <2>4. calls' \subseteq HttpCalls
      BY DEF CallsTyped
    <2> QED BY <2>3, <2>4 DEF CallsTyped
  <1>2. ASSUME NEW u
        PROVE  CallsOf(u)' = {c \in S : c.tab = u} \cup (IF u = k.tab THEN {k} ELSE {})
    BY DEF CallsOf
  <1> QED BY <1>1, <1>2

(***************************************************************************)
(* What the server and the network do, at the page of the call.            *)
(***************************************************************************)

\* A page keeps its part of the invariant when a call of it goes on or is
\* answered and no row changes.
LEMMA PageAnswered ==
    ASSUME HouseholdInv, HouseholdTypeOK', NEW t \in Tabs, NEW c \in CallsOf(t), NEW d,
           Follows(c, d), d.id = c.id, CallsOf(t)' = (CallsOf(t) \ {c}) \cup {d},
           UNCHANGED <<resource, table, page>>,
           \A i \in RowIds : writer'[i] = t => writer[i] = t,
           c.op = "load" /\ d.ok => \A i : Brings(d.result, i),
           c.id \in RowIds /\ c.op # "load" /\ c.pc = "answered" /\ c.ok => writer'[c.id] # t,
           d.pc # "answered" => c.pc # "answered"
    PROVE  PageInv(t)'
  <1>1. PageInv(t)
    BY DEF HouseholdInv
  <1>2. c \in calls /\ c.tab = t /\ d.tab = t /\ d.n = c.n /\ d.op = c.op /\ d.form = c.form
        /\ d.submit = c.submit /\ d.late = c.late
    BY DEF CallsOf, Follows
  <1>3. \A i : /\ \A list : Brings(list, i) => Brings(list, i)'
               /\ Brings(page[t].list, i) => Brings(page[t].list, i)'
    <2>1. \A i : There(i)' = There(i)
      BY DEF There
    <2> QED BY <2>1, BringsKept, PageBrings
  <1>4. c.op = "load" => Loads(t)' = (Loads(t) \ {c}) \cup {d}
    BY <1>2 DEF Loads
  <1>5. c.op # "load" => Loads(t)' = Loads(t)
    BY <1>2 DEF Loads
  <1>6. \A l \in Loads(t) : l.tab = t
    BY DEF Loads, CallsOf
  <1>7. ASSUME NEW i \in RowIds, writer'[i] = t
        PROVE  ShownSoon(t, i)'
    <2>1. ShownSoon(t, i)
      BY <1>1, <1>7 DEF PageInv
    <2>2. ASSUME Unheard(t, i)
          PROVE  Unheard(t, i)'
      <3>1. PICK w \in CallsOf(t) : w.op # "load" /\ w.pc = "answered" /\ w.ok /\ w.id = i
        BY <2>2 DEF Unheard
      <3>2. w # c
        BY <1>7, <3>1
      <3> QED BY <3>1, <3>2 DEF Unheard
    <2>3. ASSUME \A l \in Loads(t) : l.late \/ Fresh(l, i) \/ Overtaken(l),
                 NEW l \in Loads(t)'
          PROVE  l.late \/ Fresh(l, i)' \/ Overtaken(l)'
      <3>1. CASE l \in Loads(t)
        <4>1. Fresh(l, i) => Fresh(l, i)'
          BY <1>3 DEF Fresh
        <4>2. Overtaken(l) => Overtaken(l)'
          BY <1>2, <1>4, <1>5, <1>6, <3>1 DEF Overtaken
        <4> QED BY <2>3, <3>1, <4>1, <4>2
      <3>2. CASE l \notin Loads(t)
        <4>1. l = d /\ d.op = "load"
          BY <1>4, <1>5, <2>3, <3>2 DEF Loads
        <4> QED BY <1>2, <4>1, <1>3 DEF Fresh
      <3> QED BY <3>1, <3>2
    <2>4. Loads(t)' = {} => Loads(t) = {}
      BY <1>4, <1>5
    <2> QED BY <1>3, <2>1, <2>2, <2>3, <2>4 DEF ShownSoon
  <1>8. DOMAIN table \subseteq RowIds
    BY DEF HouseholdInv, HouseholdTypeOK, Lists
  <1>9. \A id, row : Untouched(t, id, row) => Untouched(t, id, row)'
    BY <1>8 DEF Untouched
  <1>10. ASSUME NEW e \in CallsOf(t)'
        PROVE  EditAlone(e)'
    <2>1. ASSUME NEW o \in CallsOf(t), e = o \/ (o = c /\ e = d)
          PROVE  EditAlone(e)'
      <3>1. EditAlone(o) /\ o.tab = t
        BY <1>1 DEF PageInv, CallsOf
      <3>2. e.tab = t /\ e.op = o.op /\ e.form = o.form
        BY <1>2, <2>1, <3>1
      <3>3. ASSUME e.op = "edit", e.form.settled, t # Nobody
            PROVE  /\ page'[t].isSubmitting
                   /\ \A f \in CallsOf(t)' : f = e \/ f.op = "delete" \/ (f.op = "load" /\ ~f.submit)
                   /\ e.pc # "answered" => Untouched(t, e.id, e.form.copy)'
        <4>1. /\ page[t].isSubmitting
              /\ \A f \in CallsOf(t) : f = o \/ f.op = "delete" \/ (f.op = "load" /\ ~f.submit)
              /\ o.pc # "answered" => Untouched(t, o.id, o.form.copy)
          BY <3>1, <3>2, <3>3 DEF EditAlone
        <4>2. o = c => e = d \/ c \notin CallsOf(t)' \/ c = d
          BY <2>1, <1>10
        <4>3. \A f \in CallsOf(t)' :
                  f = e \/ f.op = "delete" \/ (f.op = "load" /\ ~f.submit)
          BY <1>2, <1>10, <2>1, <4>1, <4>2
        <4>4. e.pc # "answered" => Untouched(t, e.id, e.form.copy)'
          <5>1. e.id = o.id /\ (e.pc # "answered" => o.pc # "answered")
            BY <2>1
          <5> QED BY <1>9, <3>2, <4>1, <5>1
        <4> QED BY <4>1, <4>3, <4>4
      <3> QED BY <3>2, <3>3 DEF EditAlone
    <2>2. e \in CallsOf(t) \/ e = d
      BY <1>10
    <2> QED BY <2>1, <2>2
  <1>11. FormCurrent(t)'
    <2> DEFINE form == page[t].dialog
               Own(S) == {e \in S : e.op = "edit" /\ e.form.settled
                                       /\ e.id = form.id /\ e.form.copy = form.copy}
    <2>1. ASSUME form.op = "edit", form.settled
          PROVE  /\ CallsOf(t)' \subseteq Own(CallsOf(t)')
                 /\ \/ Untouched(t, form.id, form.copy)'
                    \/ \E e \in Own(CallsOf(t)') : e.pc = "answered" /\ e.ok
      <3>1. /\ CallsOf(t) \subseteq Own(CallsOf(t))
            /\ \/ Untouched(t, form.id, form.copy)
               \/ \E e \in Own(CallsOf(t)) : e.pc = "answered" /\ e.ok
        BY <1>1, <2>1 DEF PageInv, FormCurrent
      <3>2. CallsOf(t)' \subseteq Own(CallsOf(t)')
        BY <1>2, <3>1
      <3>3. CASE Untouched(t, form.id, form.copy)
        BY <1>9, <3>2, <3>3
      <3>4. ASSUME NEW e \in Own(CallsOf(t)), e.pc = "answered", e.ok
            PROVE  Untouched(t, form.id, form.copy)' \/ e \in Own(CallsOf(t)')
        BY <1>8, <3>4 DEF Untouched
      <3> QED BY <3>1, <3>2, <3>3, <3>4
    <2> QED BY <2>1 DEF FormCurrent
  <1> QED BY <1>2, <1>7, <1>10, <1>11 DEF PageInv

\* A page keeps its part of the invariant when a write of it is committed and
\* answered.
LEMMA PageCommitted ==
    ASSUME HouseholdInv, HouseholdTypeOK', NEW t \in Tabs, NEW c \in CallsOf(t), NEW d,
           NEW id \in RowIds,
           Follows(c, d), d.id = id, d.pc = "answered", d.ok,
           CallsOf(t)' = (CallsOf(t) \ {c}) \cup {d},
           c.op # "load", c.pc # "answered", UNCHANGED <<resource, page>>,
           \A i : i # id => There(i)' = There(i), writer' = [writer EXCEPT ![id] = t],
           c.op = "edit" => id = c.id, c.op = "delete" => id \notin DOMAIN table'
    PROVE  PageInv(t)'
  <1>1. PageInv(t)
    BY DEF HouseholdInv
  <1>2. c \in calls /\ c.tab = t /\ d.tab = t /\ d.n = c.n /\ d.op = c.op /\ d.form = c.form
        /\ d.submit = c.submit /\ d.late = c.late
    BY DEF CallsOf, Follows
  <1>3. Loads(t)' = Loads(t)
    BY <1>2 DEF Loads
  <1>4. \A l \in Loads(t) : l.tab = t
    BY DEF Loads, CallsOf
  <1>5. \A i : i # id => writer'[i] = writer[i]
    BY DEF HouseholdInv, HouseholdTypeOK
  <1>6. ASSUME NEW i \in RowIds, writer'[i] = t
        PROVE  ShownSoon(t, i)'
    <2>1. CASE i = id
      BY <1>2, <2>1 DEF ShownSoon, Unheard
    <2>2. CASE i # id
      <3>1. ShownSoon(t, i) /\ There(i)' = There(i)
        BY <1>1, <1>5, <1>6, <2>2 DEF PageInv
      <3>2. Unheard(t, i) => Unheard(t, i)'
        BY DEF Unheard
      <3>3. \A l \in Loads(t) : /\ Fresh(l, i) => Fresh(l, i)'
                                /\ Overtaken(l) => Overtaken(l)'
        <4>1. \A list : Brings(list, i) => Brings(list, i)'
          BY <3>1, BringsKept
        <4> QED BY <1>3, <1>4, <4>1 DEF Fresh, Overtaken
      <3>4. Brings(page[t].list, i) => Brings(page[t].list, i)'
        BY <3>1, PageBrings
      <3> QED BY <1>3, <3>1, <3>2, <3>3, <3>4 DEF ShownSoon
    <2> QED BY <2>1, <2>2
  <1>7. \A i, row : i # id /\ Untouched(t, i, row) => Untouched(t, i, row)'
    <2>1. \A i \in DOMAIN table' : i # id => i \in DOMAIN table /\ table'[i] = table[i]
      BY DEF There, RowOf
    <2> QED BY <1>5, <2>1 DEF Untouched
  <1>8. ASSUME NEW e \in CallsOf(t)'
        PROVE  EditAlone(e)'
    <2>1. ASSUME NEW o \in CallsOf(t), (e = o /\ o # c) \/ (o = c /\ e = d)
          PROVE  EditAlone(e)'
      <3>1. EditAlone(o) /\ o.tab = t
        BY <1>1 DEF PageInv, CallsOf
      <3>2. e.tab = t /\ e.op = o.op /\ e.form = o.form
        BY <1>2, <2>1, <3>1
      <3>3. ASSUME e.op = "edit", e.form.settled, t # Nobody
            PROVE  /\ page'[t].isSubmitting
                   /\ \A f \in CallsOf(t)' : f = e \/ f.op = "delete" \/ (f.op = "load" /\ ~f.submit)
                   /\ e.pc # "answered" => Untouched(t, e.id, e.form.copy)'
        <4>1. /\ page[t].isSubmitting
              /\ \A f \in CallsOf(t) : f = o \/ f.op = "delete" \/ (f.op = "load" /\ ~f.submit)
              /\ o.pc # "answered" => Untouched(t, o.id, o.form.copy)
          BY <3>1, <3>2, <3>3 DEF EditAlone
        <4>2. \A f \in CallsOf(t)' :
                  f = e \/ f.op = "delete" \/ (f.op = "load" /\ ~f.submit)
          BY <1>2, <1>8, <2>1, <4>1
        <4>3. ASSUME e.pc # "answered"
              PROVE  Untouched(t, e.id, e.form.copy)'
          <5>1. e = o /\ o # c
            BY <2>1, <4>3
          <5>2. c.op = "delete"
            BY <4>1, <5>1
          <5>3. CASE e.id = id
            BY <5>2, <5>3 DEF Untouched
          <5>4. CASE e.id # id
            BY <1>7, <3>2, <4>1, <4>3, <5>1, <5>4
          <5> QED BY <5>3, <5>4
        <4> QED BY <4>1, <4>2, <4>3
      <3> QED BY <3>2, <3>3 DEF EditAlone
    <2> QED BY <2>1, <1>8
  <1>9. FormCurrent(t)'
    <2> DEFINE form == page[t].dialog
               Own(S) == {e \in S : e.op = "edit" /\ e.form.settled
                                       /\ e.id = form.id /\ e.form.copy = form.copy}
    <2>1. ASSUME form.op = "edit", form.settled
          PROVE  /\ CallsOf(t)' \subseteq Own(CallsOf(t)')
                 /\ \E e \in Own(CallsOf(t)') : e.pc = "answered" /\ e.ok
      <3>1. CallsOf(t) \subseteq Own(CallsOf(t))
        BY <1>1, <2>1 DEF PageInv, FormCurrent
      <3>2. d \in Own(CallsOf(t)')
        BY <1>2, <3>1
      <3> QED BY <3>1, <3>2
    <2> QED BY <2>1 DEF FormCurrent
  <1> QED BY <1>2, <1>6, <1>8, <1>9 DEF PageInv

\* A step that changes nothing but calls, and gives rows no new writer.
LEMMA AnsweredKeeps ==
    ASSUME HouseholdInv, NEW c \in calls, NEW d, Follows(c, d), d.id = c.id,
           CallsTyped', \A u \in Tabs \ {c.tab} : CallsOf(u)' = CallsOf(u),
           c.tab \in Tabs => CallsOf(c.tab)' = (CallsOf(c.tab) \ {c}) \cup {d},
           UNCHANGED <<resource, table, page>>,
           \/ writer' = writer /\ (c.op = "load" \/ c.pc # "answered" \/ ~c.ok)
           \/ /\ writer' = IF c.ok /\ c.op # "load" /\ writer[c.id] = c.tab
                           THEN [writer EXCEPT ![c.id] = Nobody] ELSE writer
              /\ c.tab # Nobody,
           used' \in [rows : 0..MaxRowIds, clicks : 0..MaxClicks, losses : 0..MaxLosses],
           c.op = "load" /\ d.ok => \A i : Brings(d.result, i),
           d.pc # "answered" => c.pc # "answered"
    PROVE  HouseholdInv'
  <1>1. c \in HttpCalls /\ HouseholdTypeOK
    BY DEF HouseholdInv, CallsTyped
  <1>2. writer \in [RowIds -> Tabs \cup {Nobody}] /\ Nobody \notin Tabs
    BY <1>1, HouseholdAssumption DEF HouseholdTypeOK
  <1>3. writer' \in [RowIds -> Tabs \cup {Nobody}]
    BY <1>2
  <1>4. HouseholdTypeOK'
    <2>1. \A e \in calls' : /\ e.tab \in Tabs \cup {Nobody} /\ e.id \in RowIds \cup {0}
                            /\ e.pc \in {"sent", "read", "answered"} /\ e.result \in Lists
      BY DEF CallsTyped, HttpCalls
    <2> QED BY <1>1, <1>3, <2>1 DEF HouseholdTypeOK
  <1>5. \A u \in Tabs, i \in RowIds : writer'[i] = u => writer[i] = u
    BY <1>2
  <1>6. c.id \in RowIds /\ c.tab \in Tabs /\ c.op # "load" /\ c.pc = "answered" /\ c.ok
            => writer'[c.id] # c.tab
    BY <1>2
  <1>7. \A u \in Tabs \ {c.tab} : Quiet(u)
    BY <1>5 DEF Quiet, There
  <1>8. c.tab \in Tabs => PageInv(c.tab)'
    <2>1. c \in CallsOf(c.tab)
      BY DEF CallsOf
    <2> QED BY <1>4, <1>5, <1>6, <2>1, PageAnswered
  <1> QED BY <1>4, <1>7, <1>8, OnePage

\* A committed write keeps the invariant for every page.
LEMMA CommittedKeeps ==
    ASSUME HouseholdInv, NEW c \in calls, NEW id \in RowIds, NEW rows \in Lists,
           Commit(c, id, rows), c.op # "load", c.pc # "answered",
           UNCHANGED <<resource, page>>,
           used' \in [rows : 0..MaxRowIds, clicks : 0..MaxClicks, losses : 0..MaxLosses],
           \A i : i # id => RowOf(rows, i) = There(i),
           c.op = "edit" => id = c.id, c.op = "delete" => id \notin DOMAIN rows
    PROVE  HouseholdInv'
  <1> DEFINE d == Answered([c EXCEPT !.id = id], TRUE)
  <1>1. c \in HttpCalls /\ HouseholdTypeOK /\ CallsTyped
    BY DEF HouseholdInv, CallsTyped
  <1>2. Follows(c, d) /\ d.id = id /\ d.pc = "answered" /\ d.ok
    BY <1>1 DEF Follows, Answered, HttpCalls
  <1>3. table' = rows /\ writer' = [writer EXCEPT ![id] = c.tab] /\ Replace(c, d)
    BY DEF Commit
  <1>4. /\ CallsTyped'
        /\ \A u \in Tabs \ {c.tab} : CallsOf(u)' = CallsOf(u)
        /\ c.tab \in Tabs => CallsOf(c.tab)' = (CallsOf(c.tab) \ {c}) \cup {d}
    BY <1>1, <1>2, <1>3, Replaced
  <1> HIDE DEF d
  <1>5. writer \in [RowIds -> Tabs \cup {Nobody}] /\ c.tab \in Tabs \cup {Nobody}
    BY <1>1 DEF HouseholdTypeOK, HttpCalls
  <1>6. HouseholdTypeOK'
    <2>1. \A e \in calls' : /\ e.tab \in Tabs \cup {Nobody} /\ e.id \in RowIds \cup {0}
                            /\ e.pc \in {"sent", "read", "answered"} /\ e.result \in Lists
      BY <1>4 DEF CallsTyped, HttpCalls
    <2>2. writer' \in [RowIds -> Tabs \cup {Nobody}]
      BY <1>3, <1>5
    <2> QED BY <1>1, <1>3, <2>1, <2>2 DEF HouseholdTypeOK
  <1>7. \A i : i # id => There(i)' = There(i)
    BY <1>3 DEF There
  <1>8. \A u \in Tabs \ {c.tab} : Quiet(u)
    BY <1>3, <1>4, <1>5, <1>7 DEF Quiet
  <1>9. c.tab \in Tabs => PageInv(c.tab)'
    <2>1. c \in CallsOf(c.tab)
      BY DEF CallsOf
    <2> QED BY <1>2, <1>3, <1>4, <1>6, <1>7, <2>1, PageCommitted
  <1> QED BY <1>4, <1>6, <1>8, <1>9, OnePage

\* A call the server refuses keeps the invariant.
LEMMA RejectKeeps ==
    ASSUME HouseholdInv, NEW c \in calls, Reject(c), c.op # "load", c.pc # "answered",
           UNCHANGED <<resource, page>>
    PROVE  HouseholdInv'
  <1> DEFINE d == Answered(c, FALSE)
  <1>1. c \in HttpCalls /\ HouseholdTypeOK /\ CallsTyped
    BY DEF HouseholdInv, CallsTyped
  <1>2. Follows(c, d) /\ d.id = c.id /\ d.pc = "answered"
    BY <1>1, AnswerFollows
  <1>3. Replace(c, d) /\ UNCHANGED <<table, writer, used>>
    BY DEF Reject
  <1> HIDE DEF d
  <1>4. /\ CallsTyped'
        /\ \A u \in Tabs \ {c.tab} : CallsOf(u)' = CallsOf(u)
        /\ c.tab \in Tabs => CallsOf(c.tab)' = (CallsOf(c.tab) \ {c}) \cup {d}
    BY <1>1, <1>2, <1>3, Replaced
  <1>5. used' \in [rows : 0..MaxRowIds, clicks : 0..MaxClicks, losses : 0..MaxLosses]
    BY <1>1, <1>3 DEF HouseholdTypeOK
  <1> QED BY <1>2, <1>3, <1>4, <1>5, AnsweredKeeps

\* What a GET brings is a list of rows of the table: all, or so many that the
\* limit has cut it and none is older than a row it lacks.
LEMMA ListingBrings ==
    ASSUME HouseholdTypeOK, NEW list \in Listings
    PROVE  list \in Lists /\ \A i : Brings(list, i)
  <1>1. PICK S \in IF Cut THEN Latest ELSE {DOMAIN table} : list = [i \in S |-> table[i]]
    BY DEF Listings
  <1>2. S \subseteq DOMAIN table /\ DOMAIN list = S /\ \A i \in S : list[i] = table[i]
    BY <1>1 DEF Latest
  <1>3. list \in Lists
    <2>1. PICK T \in SUBSET RowIds : table \in [T -> Entry]
      BY DEF HouseholdTypeOK, Lists
    <2>2. S \in SUBSET RowIds /\ list \in [S -> Entry]
      BY <1>1, <1>2, <2>1
    <2> QED BY <2>2 DEF Lists
  <1>4. ASSUME NEW i \in DOMAIN table \ S
        PROVE  Beyond(list, i)
    <2>1. Cut /\ S \in Latest
      BY <1>1, <1>4
    <2>2. /\ resource = "transactions" /\ Cardinality(S) = MaxListed
          /\ \A j \in S : Date(table[j]) >= Date(table[i])
      BY <1>4, <2>1 DEF Cut, Latest
    <2>3. table[i] \in There(i)
      BY <1>4 DEF There, RowOf
    <2> QED BY <1>2, <1>4, <2>2, <2>3 DEF Beyond
  <1>5. ASSUME NEW i, i \notin DOMAIN table \ S
        PROVE  RowOf(list, i) = There(i)
    BY <1>2, <1>5 DEF RowOf, There
  <1> QED BY <1>3, <1>4, <1>5 DEF Brings

\* A list that is read keeps the invariant.
LEMMA ServeLoadKeeps ==
    ASSUME HouseholdInv, NEW c \in calls, ServeLoad(c), c.pc = "sent",
           UNCHANGED <<resource, page>>
    PROVE  HouseholdInv'
  <1>1. c \in HttpCalls /\ HouseholdTypeOK /\ CallsTyped
    BY DEF HouseholdInv, CallsTyped
  <1>0. PICK list \in Listings :
            /\ Replace(c, [Answered(c, TRUE) EXCEPT !.result = list])
            /\ UNCHANGED <<table, writer, used>> /\ c.op = "load"
    BY DEF ServeLoad
  <1> DEFINE d == [Answered(c, TRUE) EXCEPT !.result = list]
  <1>2. /\ Follows(c, d) /\ d.id = c.id /\ d.pc = "answered"
        /\ \A i : Brings(d.result, i)
    <2>1. Answered(c, TRUE) \in HttpCalls /\ list \in Lists /\ \A i : Brings(list, i)
      BY <1>1, AnswerFollows, ListingBrings DEF Follows
    <2>2. d.result = list
      BY <2>1 DEF HttpCalls
    <2> QED BY <1>1, <2>1, <2>2, AnswerFollows DEF Follows, HttpCalls
  <1>3. Replace(c, d) /\ UNCHANGED <<table, writer, used>> /\ c.op = "load"
    BY <1>0
  <1> HIDE DEF d
  <1>4. /\ CallsTyped'
        /\ \A u \in Tabs \ {c.tab} : CallsOf(u)' = CallsOf(u)
        /\ c.tab \in Tabs => CallsOf(c.tab)' = (CallsOf(c.tab) \ {c}) \cup {d}
    BY <1>1, <1>2, <1>3, Replaced
  <1>5. used' \in [rows : 0..MaxRowIds, clicks : 0..MaxClicks, losses : 0..MaxLosses]
    BY <1>1, <1>3 DEF HouseholdTypeOK
  <1> QED BY <1>2, <1>3, <1>4, <1>5, AnsweredKeeps

\* Rows that are written or go leave the others as they are.
LEMMA PutRow ==
    ASSUME NEW rows \in Lists, NEW id \in RowIds, NEW row \in Entry
    PROVE  Put(rows, id, row) \in Lists /\ \A i : i # id => RowOf(Put(rows, id, row), i) = RowOf(rows, i)
  <1>1. PICK S \in SUBSET RowIds : rows \in [S -> Entry]
    BY DEF Lists
  <1>2. Put(rows, id, row) \in [S \cup {id} -> Entry]
    BY <1>1 DEF Put
  <1>3. Put(rows, id, row) \in Lists
    BY <1>2 DEF Lists
  <1> QED BY <1>1, <1>3 DEF Put, RowOf

\* A list without a row of it is a list, and the other rows are as before.
LEMMA WithoutRow ==
    ASSUME NEW rows \in Lists, NEW id
    PROVE  /\ Without(rows, id) \in Lists /\ id \notin DOMAIN Without(rows, id)
           /\ \A i : i # id => RowOf(Without(rows, id), i) = RowOf(rows, i)
  <1>1. PICK S \in SUBSET RowIds : rows \in [S -> Entry]
    BY DEF Lists
  <1>2. Without(rows, id) \in [S \ {id} -> Entry]
    BY <1>1 DEF Without
  <1>3. Without(rows, id) \in Lists
    BY <1>2 DEF Lists
  <1> QED BY <1>1, <1>3 DEF Without, RowOf

\* A row that is added keeps the invariant.
LEMMA ServeAddKeeps ==
    ASSUME HouseholdInv, NEW c \in calls, ServeAdd(c), c.pc = "sent", UNCHANGED <<resource, page>>
    PROVE  HouseholdInv'
  <1> DEFINE id == used.rows + 1
             rows == Put(table, id, c.form.row)
  <1>1. c \in HttpCalls /\ HouseholdTypeOK /\ c.op = "add"
    BY DEF HouseholdInv, CallsTyped, ServeAdd
  <1>2. CASE Reject(c)
    BY <1>1, <1>2, RejectKeeps
  <1>3. CASE /\ used.rows < MaxRowIds /\ Commit(c, id, rows)
             /\ used' = [used EXCEPT !.rows = @ + 1]
    <2>1. used \in [rows : 0..MaxRowIds, clicks : 0..MaxClicks, losses : 0..MaxLosses]
          /\ MaxRowIds \in Nat /\ table \in Lists
      BY <1>1, HouseholdAssumption DEF HouseholdTypeOK
    <2>2. id \in RowIds
      BY <1>3, <2>1 DEF RowIds
    <2>3. used' \in [rows : 0..MaxRowIds, clicks : 0..MaxClicks, losses : 0..MaxLosses]
      BY <1>3, <2>1
    <2>4. c.form.row \in Entry
      BY <1>1 DEF HttpCalls, SentForms
    <2>5. rows \in Lists /\ \A i : i # id => RowOf(rows, i) = There(i)
      BY <2>1, <2>2, <2>4, PutRow DEF There
    <2> HIDE DEF id, rows
    <2> QED BY <1>1, <1>3, <2>2, <2>3, <2>5, CommittedKeeps
  <1> QED BY <1>2, <1>3 DEF ServeAdd

\* The read of a row that is to be updated keeps the invariant.
LEMMA ServeEditReadKeeps ==
    ASSUME HouseholdInv, NEW c \in calls, ServeEditRead(c), c.pc = "sent",
           UNCHANGED <<resource, page>>
    PROVE  HouseholdInv'
  <1> DEFINE d == [c EXCEPT !.pc = "read"]
  <1>1. c \in HttpCalls /\ HouseholdTypeOK /\ CallsTyped /\ c.op = "edit"
    BY DEF HouseholdInv, CallsTyped, ServeEditRead
  <1>2. CASE Reject(c)
    BY <1>1, <1>2, RejectKeeps
  <1>3. CASE Replace(c, d) /\ UNCHANGED <<table, writer, used>>
    <2>1. Follows(c, d) /\ d.id = c.id
      BY <1>1 DEF Follows, HttpCalls
    <2> HIDE DEF d
    <2>2. /\ CallsTyped'
          /\ \A u \in Tabs \ {c.tab} : CallsOf(u)' = CallsOf(u)
          /\ c.tab \in Tabs => CallsOf(c.tab)' = (CallsOf(c.tab) \ {c}) \cup {d}
      BY <1>1, <1>3, <2>1, Replaced
    <2>3. used' \in [rows : 0..MaxRowIds, clicks : 0..MaxClicks, losses : 0..MaxLosses]
      BY <1>1, <1>3 DEF HouseholdTypeOK
    <2> QED BY <1>1, <1>3, <2>1, <2>2, <2>3, AnsweredKeeps
  <1> QED BY <1>2, <1>3 DEF ServeEditRead

\* The write of a row that was read keeps the invariant.
LEMMA ServeEditWriteKeeps ==
    ASSUME HouseholdInv, NEW c \in calls, ServeEditWrite(c), c.pc = "read",
           UNCHANGED <<resource, page>>
    PROVE  HouseholdInv'
  <1> DEFINE rows == Put(table, c.id, c.form.row)
  <1>1. c \in HttpCalls /\ HouseholdTypeOK /\ c.op = "edit"
    BY DEF HouseholdInv, CallsTyped, ServeEditWrite
  <1>2. CASE Reject(c)
    BY <1>1, <1>2, RejectKeeps
  <1>3. CASE c.id \in DOMAIN table /\ Commit(c, c.id, rows) /\ UNCHANGED used
    <2>1. table \in Lists /\ c.id \in RowIds
      BY <1>1, <1>3 DEF HouseholdTypeOK, Lists
    <2>2. used' \in [rows : 0..MaxRowIds, clicks : 0..MaxClicks, losses : 0..MaxLosses]
      BY <1>1, <1>3 DEF HouseholdTypeOK
    <2>3. c.form.row \in Entry
      BY <1>1 DEF HttpCalls, SentForms
    <2>4. rows \in Lists /\ \A i : i # c.id => RowOf(rows, i) = There(i)
      BY <2>1, <2>3, PutRow DEF There
    <2> HIDE DEF rows
    <2> QED BY <1>1, <1>3, <2>1, <2>2, <2>4, CommittedKeeps
  <1> QED BY <1>2, <1>3 DEF ServeEditWrite

\* A row that is deleted keeps the invariant.
LEMMA ServeDeleteKeeps ==
    ASSUME HouseholdInv, NEW c \in calls, ServeDelete(c), c.pc = "sent",
           UNCHANGED <<resource, page>>
    PROVE  HouseholdInv'
  <1> DEFINE rows == Without(table, c.id)
  <1>1. c \in HttpCalls /\ HouseholdTypeOK /\ c.op = "delete"
    BY DEF HouseholdInv, CallsTyped, ServeDelete
  <1>2. CASE Reject(c)
    BY <1>1, <1>2, RejectKeeps
  <1>3. CASE c.id \in DOMAIN table /\ Commit(c, c.id, rows) /\ UNCHANGED used
    <2>1. table \in Lists /\ c.id \in RowIds
      BY <1>1, <1>3 DEF HouseholdTypeOK, Lists
    <2>2. used' \in [rows : 0..MaxRowIds, clicks : 0..MaxClicks, losses : 0..MaxLosses]
      BY <1>1, <1>3 DEF HouseholdTypeOK
    <2>3. /\ rows \in Lists /\ c.id \notin DOMAIN rows
          /\ \A i : i # c.id => RowOf(rows, i) = There(i)
      BY <2>1, WithoutRow DEF There
    <2> HIDE DEF rows
    <2> QED BY <1>1, <1>3, <2>1, <2>2, <2>3, CommittedKeeps
  <1> QED BY <1>2, <1>3 DEF ServeDelete

\* Whatever the server does with a call keeps the invariant.
LEMMA ServeKeeps ==
    ASSUME HouseholdInv, NEW c \in calls, Serve(c)
    PROVE  HouseholdInv'
  BY ServeLoadKeeps, ServeAddKeeps, ServeEditReadKeeps, ServeEditWriteKeeps, ServeDeleteKeeps
     DEF Serve

\* A call that is lost, or whose answer is, keeps the invariant.
LEMMA LoseKeeps ==
    ASSUME HouseholdInv, NEW c \in calls, Lose(c)
    PROVE  HouseholdInv'
  <1> DEFINE d == Answered(c, FALSE)
             ghost == [c EXCEPT !.tab = Nobody]
  <1>1. c \in HttpCalls /\ HouseholdTypeOK /\ CallsTyped
    BY DEF HouseholdInv, CallsTyped
  <1>2. Follows(c, d) /\ d.id = c.id /\ d.pc = "answered" /\ d.ok = FALSE
    BY <1>1, AnswerFollows
  <1>3. /\ ghost \in HttpCalls /\ ghost.tab = Nobody /\ ghost.n = c.n /\ ghost.pc = c.pc
        /\ ghost.op = c.op
    BY <1>1 DEF HttpCalls
  <1>4. /\ c.tab # Nobody /\ UNCHANGED <<resource, table, page>>
        /\ used.losses < MaxLosses /\ used' = [used EXCEPT !.losses = @ + 1]
        /\ writer' = IF c.ok /\ c.op # "load" /\ writer[c.id] = c.tab
                     THEN [writer EXCEPT ![c.id] = Nobody] ELSE writer
        /\ \/ Replace(c, d)
           \/ Unserved(c) /\ calls' = (calls \ {c}) \cup {d, ghost}
    BY DEF Lose
  <1> HIDE DEF d, ghost
  <1>5. /\ CallsTyped'
        /\ \A u \in Tabs \ {c.tab} : CallsOf(u)' = CallsOf(u)
        /\ c.tab \in Tabs => CallsOf(c.tab)' = (CallsOf(c.tab) \ {c}) \cup {d}
    <2>1. CASE Replace(c, d)
      BY <1>1, <1>2, <2>1, Replaced
    <2>2. CASE Unserved(c) /\ calls' = (calls \ {c}) \cup {d, ghost}
      <3>1. d \in HttpCalls /\ d.tab = c.tab /\ d.n = c.n /\ d.op = c.op
        BY <1>2 DEF Follows
      <3>2. c.op # "load" /\ c.pc # "answered" /\ Nobody \notin Tabs
        BY <2>2, HouseholdAssumption DEF Unserved
      <3>3. CallsTyped'
        <4>1. PICK b \in Nat : \A e \in calls : e.n <= b
          BY <1>1 DEF CallsTyped
        <4>2. \A e \in calls' : e.n <= b
          BY <1>3, <2>2, <3>1, <4>1
        <4>3. \A e \in calls' : e.pc = "answered" \/ e.op = "load" => e.tab # Nobody
          <5>1. \A e \in calls : e.pc = "answered" \/ e.op = "load" => e.tab # Nobody
            BY <1>1 DEF CallsTyped
          <5> QED BY <1>3, <1>4, <2>2, <3>1, <3>2, <5>1
        <4>4. calls' \subseteq HttpCalls
          BY <1>1, <1>3, <2>2, <3>1 DEF CallsTyped
        <4> QED BY <4>2, <4>3, <4>4 DEF CallsTyped
      <3>4. \A u \in Tabs \ {c.tab} : CallsOf(u)' = CallsOf(u)
        BY <1>3, <2>2, <3>1, <3>2 DEF CallsOf
      <3>5. c.tab \in Tabs => CallsOf(c.tab)' = (CallsOf(c.tab) \ {c}) \cup {d}
        BY <1>3, <2>2, <3>1, <3>2 DEF CallsOf
      <3> QED BY <3>3, <3>4, <3>5
    <2> QED BY <1>4, <2>1, <2>2
  <1>6. used' \in [rows : 0..MaxRowIds, clicks : 0..MaxClicks, losses : 0..MaxLosses]
    BY <1>1, <1>4, HouseholdAssumption DEF HouseholdTypeOK
  <1> QED BY <1>2, <1>4, <1>5, <1>6, AnsweredKeeps

(***************************************************************************)
(* What a page does with an answer.                                        *)
(***************************************************************************)

\* A step of page t that leaves the rows and their writers.
LEMMA AtPage ==
    ASSUME HouseholdInv, NEW t \in Tabs, NEW p, SetPage(t, p), UNCHANGED <<resource, table, writer>>,
           p \in [list : Lists, dialog : Dialog, isSubmitting : BOOLEAN,
                  isLoading : BOOLEAN, loaded : BOOLEAN, late : BOOLEAN],
           CallsTyped', \A u \in Tabs \ {t} : CallsOf(u)' = CallsOf(u),
           used' \in [rows : 0..MaxRowIds, clicks : 0..MaxClicks, losses : 0..MaxLosses]
    PROVE  /\ page'[t] = p
           /\ PageInv(t)' => HouseholdInv'
  <1>1. HouseholdTypeOK
    BY DEF HouseholdInv
  <1>2. page' = [page EXCEPT ![t] = p] /\ page'[t] = p
    BY <1>1 DEF SetPage, HouseholdTypeOK
  <1>3. HouseholdTypeOK'
    <2>1. \A e \in calls' : /\ e.tab \in Tabs \cup {Nobody} /\ e.id \in RowIds \cup {0}
                            /\ e.pc \in {"sent", "read", "answered"} /\ e.result \in Lists
      BY DEF CallsTyped, HttpCalls
    <2>2. page' \in [Tabs -> [list : Lists, dialog : Dialog, isSubmitting : BOOLEAN,
                              isLoading : BOOLEAN, loaded : BOOLEAN, late : BOOLEAN]]
      BY <1>1, <1>2 DEF HouseholdTypeOK
    <2> QED BY <1>1, <2>1, <2>2 DEF HouseholdTypeOK
  <1>4. \A u \in Tabs \ {t} : Quiet(u)
    BY <1>2 DEF Quiet, There
  <1> QED BY <1>2, <1>3, <1>4, OnePage

\* A load that is just begun overtakes the others.
LEMMA LoadBegun ==
    ASSUME NEW t, NEW k \in CallsOf(t)', k.op = "load", k.pc = "sent",
           \A l \in CallsOf(t)' : l = k \/ l.n < k.n
    PROVE  \A i : ShownSoon(t, i)'
  <1>1. k \in Loads(t)' /\ k.tab = t
    BY DEF Loads, CallsOf
  <1>2. \A i : Fresh(k, i)'
    BY DEF Fresh
  <1>3. \A l \in Loads(t)' : l.tab = t /\ (l = k \/ l.n < k.n)
    BY DEF Loads, CallsOf
  <1>4. \A l \in Loads(t)' : l = k \/ Overtaken(l)'
    BY <1>1, <1>3 DEF Overtaken
  <1> QED BY <1>1, <1>2, <1>4 DEF ShownSoon

\* Neither the page's list nor its loads change.
LEMMA ShownKept ==
    ASSUME NEW t \in Tabs, NEW i, ShownSoon(t, i), Loads(t)' = Loads(t),
           UNCHANGED <<resource, table>>,
           page'[t].list = page[t].list, page'[t].late = page[t].late,
           page'[t].loaded = page[t].loaded, Unheard(t, i) => Unheard(t, i)'
    PROVE  ShownSoon(t, i)'
  <1>1. There(i)' = There(i)
    BY DEF There
  <1>2. \A l \in Loads(t) : Overtaken(l)' = Overtaken(l)
    <2>1. \A l \in Loads(t) : l.tab = t
      BY DEF Loads, CallsOf
    <2> QED BY <2>1 DEF Overtaken
  <1>3. \A l : Fresh(l, i) => Fresh(l, i)'
    BY <1>1, BringsKept DEF Fresh
  <1>4. Brings(page[t].list, i) => Brings(page[t].list, i)'
    BY <1>1, PageBrings
  <1> QED BY <1>2, <1>3, <1>4 DEF ShownSoon

\* The answer of a write that went through keeps the invariant.
LEMMA WriteAnsweredKeeps ==
    ASSUME HouseholdInv, NEW c \in calls, WriteAnswered(c), c.pc = "answered",
           UNCHANGED <<resource, table, writer, used>>
    PROVE  HouseholdInv'
  <1> DEFINE t == c.tab
             S == calls \ {c}
             k == Load(S, t, c.op # "delete")
             q == [page[t] EXCEPT !.dialog = IF @.op = c.op THEN NoDialog ELSE @,
                                  !.isLoading = @ \/ resource = "transactions"]
  <1>1. c \in HttpCalls /\ HouseholdTypeOK /\ CallsTyped
    BY DEF HouseholdInv, CallsTyped
  <1>2. t \in Tabs /\ Nobody \notin Tabs
    BY <1>1, HouseholdAssumption DEF CallsTyped, HttpCalls
  <1>3. c.op # "load" /\ SetPage(t, q) /\ calls' = S \cup {k}
    BY DEF WriteAnswered
  <1>4. S \in SUBSET HttpCalls /\ S \in SUBSET calls /\ \E b \in Nat : \A e \in S : e.n <= b
    BY <1>1 DEF CallsTyped
  <1>5. /\ k \in HttpCalls /\ \A e \in S : e.n < k.n
        /\ k.tab = t /\ k.op = "load" /\ k.pc = "sent" /\ k.submit = (c.op # "delete")
    <2> DEFINE submit == c.op # "delete"
    <2>1. submit \in BOOLEAN
      OBVIOUS
    <2> HIDE DEF S, submit
    <2>2. LET l == Load(S, t, submit)
          IN  /\ l \in HttpCalls /\ \A e \in S : e.n < l.n
              /\ l.tab = t /\ l.op = "load" /\ l.pc = "sent" /\ l.submit = submit
      BY <1>2, <1>4, <2>1, LoadSent
    <2> QED BY <2>2 DEF submit
  <1>6. /\ q \in [list : Lists, dialog : Dialog, isSubmitting : BOOLEAN,
                  isLoading : BOOLEAN, loaded : BOOLEAN, late : BOOLEAN]
        /\ q.isSubmitting = page[t].isSubmitting
        /\ q.dialog = page[t].dialog \/ q.dialog = NoDialog
        /\ page[t].dialog.op = c.op => q.dialog = NoDialog
    <2>1. page[t] \in [list : Lists, dialog : Dialog, isSubmitting : BOOLEAN,
                       isLoading : BOOLEAN, loaded : BOOLEAN, late : BOOLEAN]
      BY <1>1, <1>2 DEF HouseholdTypeOK
    <2>2. NoDialog \in Dialog
      BY DEF Dialog
    <2> QED BY <2>1, <2>2
  <1> HIDE DEF k, q
  <1>7. CallsTyped' /\ \A u : CallsOf(u)' = {e \in S : e.tab = u} \cup (IF u = k.tab THEN {k} ELSE {})
    BY <1>1, <1>2, <1>3, <1>4, <1>5, CallBegun
  <1>8. \A u \in Tabs \ {t} : CallsOf(u)' = CallsOf(u)
    BY <1>5, <1>7 DEF CallsOf
  <1>9. CallsOf(t)' = (CallsOf(t) \ {c}) \cup {k}
    BY <1>5, <1>7 DEF CallsOf
  <1>10. used' \in [rows : 0..MaxRowIds, clicks : 0..MaxClicks, losses : 0..MaxLosses]
    BY <1>1 DEF HouseholdTypeOK
  <1>11. page'[t] = q /\ (PageInv(t)' => HouseholdInv')
    BY <1>2, <1>3, <1>6, <1>7, <1>8, <1>10, AtPage
  <1>12. PageInv(t) /\ c \in CallsOf(t)
    BY <1>2 DEF HouseholdInv, CallsOf
  <1>13. \A i : ShownSoon(t, i)'
    BY <1>5, <1>9, LoadBegun DEF CallsOf
  <1>14. ASSUME NEW e \in CallsOf(t)'
         PROVE  EditAlone(e)'
    <2>1. e = k \/ (e \in CallsOf(t) /\ e # c)
      BY <1>9
    <2>2. CASE e = k
      BY <1>5, <2>2 DEF EditAlone
    <2>3. CASE e \in CallsOf(t) /\ e # c
      <3>1. EditAlone(e) /\ e.tab = t
        BY <1>12, <2>3 DEF PageInv, CallsOf
      <3>2. ASSUME e.op = "edit", e.form.settled
            PROVE  c.op = "delete"
        BY <1>2, <1>3, <1>12, <2>3, <3>1, <3>2 DEF EditAlone
      <3>3. Untouched(t, e.id, e.form.copy)' = Untouched(t, e.id, e.form.copy)
        BY DEF Untouched
      <3> QED BY <1>2, <1>5, <1>6, <1>9, <1>11, <3>1, <3>2, <3>3 DEF EditAlone
    <2> QED BY <2>1, <2>2, <2>3
  <1>15. FormCurrent(t)'
    <2>1. FormCurrent(t)
      BY <1>12 DEF PageInv
    <2>2. page[t].dialog.op = "edit" /\ page[t].dialog.settled => c.op = "edit"
      BY <1>12, <2>1 DEF FormCurrent
    <2>3. ~(q.dialog.op = "edit" /\ q.dialog.settled)
      BY <1>6, <2>2 DEF NoDialog
    <2> QED BY <1>11, <2>3 DEF FormCurrent
  <1> QED BY <1>11, <1>13, <1>14, <1>15 DEF PageInv

\* The answer of a write that failed keeps the invariant.
LEMMA WriteFailedKeeps ==
    ASSUME HouseholdInv, NEW c \in calls, WriteFailed(c), c.pc = "answered",
           UNCHANGED <<resource, table, writer, used>>
    PROVE  HouseholdInv'
  <1> DEFINE t == c.tab
             q == [page[t] EXCEPT !.isSubmitting = @ /\ c.op = "delete"]
  <1>1. c \in HttpCalls /\ HouseholdTypeOK /\ CallsTyped
    BY DEF HouseholdInv, CallsTyped
  <1>2. t \in Tabs /\ Nobody \notin Tabs
    BY <1>1, HouseholdAssumption DEF CallsTyped, HttpCalls
  <1>3. c.op # "load" /\ ~c.ok /\ SetPage(t, q) /\ calls' = calls \ {c}
    BY DEF WriteFailed
  <1>4. /\ q \in [list : Lists, dialog : Dialog, isSubmitting : BOOLEAN,
                  isLoading : BOOLEAN, loaded : BOOLEAN, late : BOOLEAN]
        /\ q.isSubmitting = (page[t].isSubmitting /\ c.op = "delete")
        /\ q.dialog = page[t].dialog /\ q.list = page[t].list
        /\ q.late = page[t].late /\ q.loaded = page[t].loaded
    <2>1. page[t] \in [list : Lists, dialog : Dialog, isSubmitting : BOOLEAN,
                       isLoading : BOOLEAN, loaded : BOOLEAN, late : BOOLEAN]
      BY <1>1, <1>2 DEF HouseholdTypeOK
    <2> QED BY <2>1
  <1> HIDE DEF q
  <1>5. CallsTyped'
    BY <1>1, <1>3 DEF CallsTyped
  <1>6. (\A u \in Tabs \ {t} : CallsOf(u)' = CallsOf(u)) /\ CallsOf(t)' = CallsOf(t) \ {c}
    BY <1>3 DEF CallsOf
  <1>7. used' \in [rows : 0..MaxRowIds, clicks : 0..MaxClicks, losses : 0..MaxLosses]
    BY <1>1 DEF HouseholdTypeOK
  <1>8. page'[t] = q /\ (PageInv(t)' => HouseholdInv')
    BY <1>2, <1>3, <1>4, <1>5, <1>6, <1>7, AtPage
  <1>9. PageInv(t) /\ c \in CallsOf(t)
    BY <1>2 DEF HouseholdInv, CallsOf
  <1>10. ASSUME NEW i \in RowIds, writer'[i] = t
         PROVE  ShownSoon(t, i)'
    <2>1. Loads(t)' = Loads(t) /\ (Unheard(t, i) => Unheard(t, i)')
      BY <1>3, <1>6 DEF Loads, Unheard
    <2>2. ShownSoon(t, i)
      BY <1>9, <1>10 DEF PageInv
    <2> QED BY <1>2, <1>4, <1>8, <2>1, <2>2, ShownKept
  <1>11. \A id, row : Untouched(t, id, row)' = Untouched(t, id, row)
    BY DEF Untouched
  <1>12. ASSUME NEW e \in CallsOf(t)'
         PROVE  EditAlone(e)'
    <2>1. EditAlone(e) /\ e.tab = t /\ e # c
      BY <1>6, <1>9 DEF PageInv, CallsOf
    <2>2. ASSUME e.op = "edit", e.form.settled
          PROVE  c.op = "delete"
      BY <1>2, <1>3, <1>9, <2>1, <2>2 DEF EditAlone
    <2>3. Untouched(t, e.id, e.form.copy)' = Untouched(t, e.id, e.form.copy)
      BY <1>11
    <2> QED BY <1>2, <1>4, <1>6, <1>8, <2>1, <2>2, <2>3 DEF EditAlone
  <1>13. FormCurrent(t)'
    <2>1. FormCurrent(t)
      BY <1>9 DEF PageInv
    <2>2. \A id, row : Untouched(t, id, row)' = Untouched(t, id, row)
      BY DEF Untouched
    <2>3. page'[t].dialog = page[t].dialog
      BY <1>4, <1>8
    <2> QED BY <1>3, <1>6, <2>1, <2>2, <2>3 DEF FormCurrent, Untouched
  <1> QED BY <1>8, <1>10, <1>12, <1>13 DEF PageInv

\* The answer of a request for the list keeps the invariant.
LEMMA LoadAnsweredKeeps ==
    ASSUME HouseholdInv, NEW c \in calls, LoadAnswered(c), c.pc = "answered",
           UNCHANGED <<resource, table, writer, used>>
    PROVE  HouseholdInv'
  <1> DEFINE t == c.tab
             q == [page[t] EXCEPT !.list = IF c.ok THEN c.result
                                           ELSE IF resource = "budgets" THEN NoRows ELSE @,
                                  !.isLoading = FALSE, !.loaded = c.ok, !.late = c.late,
                                  !.isSubmitting = @ /\ ~c.submit]
             After(d) == IF d.tab = t /\ d.op = "load" /\ d.n < c.n THEN [d EXCEPT !.late = TRUE]
                         ELSE d
  <1>1. c \in HttpCalls /\ HouseholdTypeOK /\ CallsTyped
    BY DEF HouseholdInv, CallsTyped
  <1>2. t \in Tabs /\ Nobody \notin Tabs
    BY <1>1, HouseholdAssumption DEF CallsTyped, HttpCalls
  <1>3. c.op = "load" /\ SetPage(t, q) /\ calls' = {After(d) : d \in calls \ {c}}
    BY DEF LoadAnswered
  <1>4. /\ q \in [list : Lists, dialog : Dialog, isSubmitting : BOOLEAN,
                  isLoading : BOOLEAN, loaded : BOOLEAN, late : BOOLEAN]
        /\ q.isSubmitting = (page[t].isSubmitting /\ ~c.submit)
        /\ q.dialog = page[t].dialog /\ q.late = c.late /\ q.loaded = c.ok
        /\ c.ok => q.list = c.result
    <2>1. page[t] \in [list : Lists, dialog : Dialog, isSubmitting : BOOLEAN,
                       isLoading : BOOLEAN, loaded : BOOLEAN, late : BOOLEAN]
      BY <1>1, <1>2 DEF HouseholdTypeOK
    <2>2. c.result \in Lists /\ c.late \in BOOLEAN /\ c.ok \in BOOLEAN /\ NoRows \in Lists
      BY <1>1, RowsExist DEF HttpCalls
    <2> QED BY <2>1, <2>2
  <1>5. \A d \in calls :
            /\ After(d) \in HttpCalls /\ After(d).n = d.n /\ After(d).tab = d.tab
            /\ After(d).op = d.op /\ After(d).pc = d.pc /\ After(d).ok = d.ok
            /\ After(d).result = d.result /\ After(d).submit = d.submit
    <2>1. \A d \in calls : d \in HttpCalls
      BY <1>1 DEF CallsTyped
    <2> QED BY <2>1 DEF HttpCalls
  <1>6. \A d \in calls : /\ d.late => After(d).late
                         /\ d.tab = t /\ d.op = "load" /\ d.n < c.n => After(d).late
                         /\ d.op # "load" \/ d.tab # t => After(d) = d
    <2>1. \A d \in calls : d \in HttpCalls
      BY <1>1 DEF CallsTyped
    <2> QED BY <2>1 DEF HttpCalls
  <1> HIDE DEF q, After
  <1>7. CallsTyped'
    <2>1. PICK b \in Nat : \A e \in calls : e.n <= b
      BY <1>1 DEF CallsTyped
    <2>2. \A e \in calls' : e.n <= b
      BY <1>3, <1>5, <2>1
    <2>3. \A e \in calls' : e.pc = "answered" \/ e.op = "load" => e.tab # Nobody
      BY <1>1, <1>3, <1>5 DEF CallsTyped
    <2>4. calls' \subseteq HttpCalls
      BY <1>3, <1>5
    <2> QED BY <2>2, <2>3, <2>4 DEF CallsTyped
  <1>8. \A u \in Tabs \ {t} : CallsOf(u)' = CallsOf(u)
    <2>1. ASSUME NEW u \in Tabs \ {t}, NEW e
          PROVE  e \in CallsOf(u)' <=> e \in CallsOf(u)
      <3>1. e \in CallsOf(u) => e \in CallsOf(u)'
        BY <1>3, <1>6 DEF CallsOf
      <3>2. ASSUME e \in CallsOf(u)'
            PROVE  e \in CallsOf(u)
        <4>1. PICK d \in calls : e = After(d) /\ e.tab = u
          BY <1>3, <3>2 DEF CallsOf
        <4> QED BY <1>5, <1>6, <4>1 DEF CallsOf
      <3> QED BY <3>1, <3>2
    <2> QED BY <2>1
  <1>9. \A e \in CallsOf(t)' : \E d \in CallsOf(t) \ {c} : e = After(d)
    BY <1>3, <1>5 DEF CallsOf
  <1>10. \A d \in CallsOf(t) \ {c} : After(d) \in CallsOf(t)'
    BY <1>3, <1>5 DEF CallsOf
  <1>11. used' \in [rows : 0..MaxRowIds, clicks : 0..MaxClicks, losses : 0..MaxLosses]
    BY <1>1 DEF HouseholdTypeOK
  <1>12. page'[t] = q /\ (PageInv(t)' => HouseholdInv')
    BY <1>2, <1>3, <1>4, <1>7, <1>8, <1>11, AtPage
  <1>13. PageInv(t) /\ c \in CallsOf(t)
    BY <1>2 DEF HouseholdInv, CallsOf
  <1>14. \A d \in CallsOf(t) : d \in calls /\ d.tab = t /\ d.n \in Nat
    BY <1>1 DEF CallsOf, CallsTyped, HttpCalls
  <1>15. ASSUME NEW i \in RowIds, writer'[i] = t
         PROVE  ShownSoon(t, i)'
    <2>1. ShownSoon(t, i)
      BY <1>13, <1>15 DEF PageInv
    <2>2. ASSUME Unheard(t, i)
          PROVE  Unheard(t, i)'
      <3>1. PICK w \in CallsOf(t) : w.op # "load" /\ w.pc = "answered" /\ w.ok /\ w.id = i
        BY <2>2 DEF Unheard
      <3>2. w \in CallsOf(t)'
        BY <1>3, <1>6, <1>10, <1>14, <3>1
      <3> QED BY <3>1, <3>2 DEF Unheard
    <2>3. ASSUME \A l \in Loads(t) : l.late \/ Fresh(l, i) \/ Overtaken(l),
                 NEW l \in Loads(t)'
          PROVE  l.late \/ Fresh(l, i)' \/ Overtaken(l)'
      <3>1. PICK d \in CallsOf(t) \ {c} : l = After(d)
        BY <1>9, <2>3 DEF Loads
      <3>2. d \in Loads(t) /\ d \in calls /\ d.tab = t /\ d.op = "load" /\ l.tab = t
        BY <1>5, <1>14, <2>3, <3>1 DEF Loads
      <3>3. CASE d.late
        BY <1>6, <3>1, <3>2, <3>3
      <3>4. CASE Fresh(d, i)
        <4>1. l.pc = d.pc /\ l.ok = d.ok /\ l.result = d.result
          BY <1>5, <3>1, <3>2
        <4>2. There(i)' = There(i)
          BY DEF There
        <4> QED BY <3>4, <4>1, <4>2, BringsKept DEF Fresh
      <3>5. CASE Overtaken(d)
        <4>1. PICK m \in Loads(t) : m.n > d.n
          BY <3>2, <3>5 DEF Overtaken
        <4>2. m \in CallsOf(t) /\ m \in calls /\ m.op = "load" /\ m.n \in Nat /\ d.n \in Nat
          BY <1>14, <3>2, <4>1 DEF Loads
        <4>3. CASE m = c
          BY <1>6, <3>1, <3>2, <4>1, <4>2, <4>3
        <4>4. CASE m # c
          <5>1. After(m) \in Loads(t)' /\ After(m).n = m.n /\ l.n = d.n
            BY <1>5, <1>10, <3>1, <3>2, <4>2, <4>4 DEF Loads
          <5> QED BY <3>2, <4>1, <5>1 DEF Overtaken
        <4> QED BY <4>3, <4>4
      <3> QED BY <2>3, <3>2, <3>3, <3>4, <3>5
    <2>4. ASSUME \A l \in Loads(t) : l.late \/ Fresh(l, i) \/ Overtaken(l), Loads(t)' = {}
          PROVE  q.late \/ ~q.loaded \/ Brings(q.list, i)
      <3>1. c \in Loads(t)
        BY <1>3, <1>13 DEF Loads
      <3>2. Loads(t) = {c}
        <4>1. ASSUME NEW d \in Loads(t), d # c
              PROVE  FALSE
          <5>1. After(d) \in Loads(t)'
            BY <1>5, <1>10, <1>14, <4>1 DEF Loads
          <5> QED BY <2>4, <5>1
        <4> QED BY <3>1, <4>1
      <3>3. ~Overtaken(c)
        <4>1. c.n \in Nat
          BY <1>13, <1>14
        <4> QED BY <3>2, <4>1 DEF Overtaken
      <3>4. c.late \/ Fresh(c, i)
        BY <2>4, <3>1, <3>3
      <3> QED BY <1>4, <3>4 DEF Fresh
    <2>5. Brings(q.list, i) => Brings(page[t].list, i)'
      <3>1. There(i)' = There(i)
        BY DEF There
      <3> QED BY <1>12, <3>1, PageBrings
    <2>6. Loads(t) # {}
      BY <1>3, <1>13 DEF Loads
    <2> QED BY <1>12, <2>1, <2>2, <2>3, <2>4, <2>5, <2>6 DEF ShownSoon
  <1>16. \A id, row : Untouched(t, id, row)' = Untouched(t, id, row)
    BY DEF Untouched
  <1>17. ASSUME NEW e \in CallsOf(t)', e.op = "edit", e.form.settled
         PROVE  EditAlone(e)'
    <2>1. PICK d \in CallsOf(t) \ {c} : e = After(d)
      BY <1>9
    <2>2. d \in calls /\ d.tab = t /\ d = e
      BY <1>5, <1>6, <1>14, <1>17, <2>1
    <2>3. /\ page[t].isSubmitting
          /\ \A f \in CallsOf(t) : f = e \/ f.op = "delete" \/ (f.op = "load" /\ ~f.submit)
          /\ e.pc # "answered" => Untouched(t, e.id, e.form.copy)
      BY <1>2, <1>13, <1>17, <2>2 DEF PageInv, EditAlone
    <2>4. ~c.submit /\ page'[t].isSubmitting
      <3>1. c # e /\ c.op # "delete"
        BY <1>3, <1>17
      <3>2. ~c.submit
        BY <1>13, <2>3, <3>1
      <3> QED BY <1>4, <1>12, <2>3, <3>2
    <2>5. ASSUME NEW f \in CallsOf(t)'
          PROVE  f = e \/ f.op = "delete" \/ (f.op = "load" /\ ~f.submit)
      <3>1. PICK g \in CallsOf(t) \ {c} : f = After(g)
        BY <1>9
      <3>2. g \in calls /\ f.op = g.op /\ f.submit = g.submit /\ (g.op # "load" => f = g)
        BY <1>5, <1>6, <1>14, <3>1
      <3>3. g = e \/ g.op = "delete" \/ (g.op = "load" /\ ~g.submit)
        BY <2>3
      <3> QED BY <1>17, <3>2, <3>3
    <2>6. e.pc # "answered" => Untouched(t, e.id, e.form.copy)'
      BY <1>16, <2>3
    <2> QED BY <2>2, <2>4, <2>5, <2>6 DEF EditAlone
  <1>18. \A e \in CallsOf(t)' : EditAlone(e)'
    BY <1>17 DEF EditAlone
  <1>19. FormCurrent(t)'
    <2>1. FormCurrent(t)
      BY <1>13 DEF PageInv
    <2>2. ~(page[t].dialog.op = "edit" /\ page[t].dialog.settled)
      BY <1>3, <1>13, <2>1 DEF FormCurrent
    <2> QED BY <1>4, <1>12, <2>2 DEF FormCurrent
  <1> QED BY <1>12, <1>15, <1>18, <1>19 DEF PageInv

\* Every answer a page receives keeps the invariant.
LEMMA DeliverKeeps ==
    ASSUME HouseholdInv, NEW c \in calls, Deliver(c)
    PROVE  HouseholdInv'
  BY WriteAnsweredKeeps, WriteFailedKeeps, LoadAnsweredKeeps DEF Deliver

(***************************************************************************)
(* What the user does.                                                     *)
(***************************************************************************)

\* A page sends a write: a call numbered after its others, and nothing else
\* changes.
LEMMA Sent ==
    ASSUME HouseholdInv, NEW t \in Tabs, NEW op \in {"add", "edit", "delete"},
           NEW id \in RowIds \cup {0}, NEW form \in SentForms, Send(t, op, id, form)
    PROVE  /\ CallsTyped' /\ UNCHANGED <<resource, table, writer>>
           /\ used' \in [rows : 0..MaxRowIds, clicks : 0..MaxClicks, losses : 0..MaxLosses]
           /\ \A u \in Tabs \ {t} : CallsOf(u)' = CallsOf(u)
           /\ \E k : /\ CallsOf(t)' = CallsOf(t) \cup {k}
                     /\ k.tab = t /\ k.op = op /\ k.id = id /\ k.form = form /\ k.pc = "sent"
  <1> DEFINE k == Call(calls, t, op, id, form)
  <1>1. HouseholdTypeOK /\ CallsTyped
    BY DEF HouseholdInv
  <1>2. t # Nobody
    BY HouseholdAssumption
  <1>3. /\ k \in HttpCalls /\ \A c \in calls : c.n < k.n
        /\ k.tab = t /\ k.op = op /\ k.pc = "sent" /\ k.id = id /\ k.form = form
    <2>1. calls \in SUBSET HttpCalls /\ \E b \in Nat : \A c \in calls : c.n <= b
      BY <1>1 DEF CallsTyped
    <2>2. NextNumber(calls) \in Nat /\ \A c \in calls : c.n < NextNumber(calls)
      BY <2>1, NextNumberAbove
    <2> QED BY <2>2, RowsExist DEF Call, HttpCalls
  <1>4. /\ used.clicks < MaxClicks /\ used' = [used EXCEPT !.clicks = @ + 1]
        /\ calls' = calls \cup {k} /\ UNCHANGED <<resource, table, writer>>
    BY DEF Send
  <1> HIDE DEF k
  <1>5. used' \in [rows : 0..MaxRowIds, clicks : 0..MaxClicks, losses : 0..MaxLosses]
    BY <1>1, <1>4, HouseholdAssumption DEF HouseholdTypeOK
  <1>6. CallsTyped'
        /\ \A u : CallsOf(u)' = {c \in calls : c.tab = u} \cup (IF u = k.tab THEN {k} ELSE {})
    BY <1>1, <1>2, <1>3, <1>4, CallBegun
  <1>7. \A u \in Tabs \ {t} : CallsOf(u)' = CallsOf(u)
    BY <1>3, <1>6 DEF CallsOf
  <1>8. CallsOf(t)' = CallsOf(t) \cup {k}
    BY <1>3, <1>6 DEF CallsOf
  <1> QED BY <1>3, <1>4, <1>5, <1>6, <1>7, <1>8

\* A write under way, and a form, leave what is shown.
LEMMA ShownBeside ==
    ASSUME HouseholdInv, NEW t \in Tabs, NEW k, CallsOf(t)' = CallsOf(t) \cup {k},
           k.op # "load", UNCHANGED <<resource, table, writer>>,
           page'[t].list = page[t].list, page'[t].late = page[t].late,
           page'[t].loaded = page[t].loaded
    PROVE  \A i \in RowIds : writer'[i] = t => ShownSoon(t, i)'
  <1> SUFFICES ASSUME NEW i \in RowIds, writer[i] = t
               PROVE  ShownSoon(t, i)'
    OBVIOUS
  <1>1. ShownSoon(t, i)
    BY DEF HouseholdInv, PageInv
  <1>2. Loads(t)' = Loads(t) /\ (Unheard(t, i) => Unheard(t, i)')
    BY DEF Loads, Unheard
  <1> QED BY <1>1, <1>2, ShownKept

\* The form of a new row that is sent keeps the invariant.
LEMMA SubmitAddKeeps ==
    ASSUME HouseholdInv, NEW t \in Tabs, NEW row \in Typed, SubmitAdd(t, row)
    PROVE  HouseholdInv'
  <1> DEFINE q == [page[t] EXCEPT !.isSubmitting = TRUE, !.dialog = [op |-> "add"]]
             form == [NoForm EXCEPT !.row = row]
  <1>1. HouseholdTypeOK /\ PageInv(t)
    BY DEF HouseholdInv
  <1>2. ~page[t].isSubmitting /\ SetPage(t, q) /\ Send(t, "add", 0, form)
    BY DEF SubmitAdd
  <1>3. form \in SentForms
    BY NoFormFits, HouseholdAssumption DEF SentForms
  <1>4. /\ q \in [list : Lists, dialog : Dialog, isSubmitting : BOOLEAN,
                  isLoading : BOOLEAN, loaded : BOOLEAN, late : BOOLEAN]
        /\ q.dialog = [op |-> "add"] /\ q.list = page[t].list
        /\ q.late = page[t].late /\ q.loaded = page[t].loaded
    <2>1. page[t] \in [list : Lists, dialog : Dialog, isSubmitting : BOOLEAN,
                       isLoading : BOOLEAN, loaded : BOOLEAN, late : BOOLEAN]
      BY <1>1 DEF HouseholdTypeOK
    <2>2. [op |-> "add"] \in Dialog
      BY DEF Dialog
    <2> QED BY <2>1, <2>2
  <1> HIDE DEF q, form
  <1>5. /\ CallsTyped' /\ UNCHANGED <<resource, table, writer>>
        /\ used' \in [rows : 0..MaxRowIds, clicks : 0..MaxClicks, losses : 0..MaxLosses]
        /\ \A u \in Tabs \ {t} : CallsOf(u)' = CallsOf(u)
        /\ \E k : /\ CallsOf(t)' = CallsOf(t) \cup {k}
                  /\ k.tab = t /\ k.op = "add" /\ k.id = 0 /\ k.form = form /\ k.pc = "sent"
    BY <1>2, <1>3, Sent
  <1>6. PICK k : CallsOf(t)' = CallsOf(t) \cup {k} /\ k.op = "add"
    BY <1>5
  <1>7. page'[t] = q /\ (PageInv(t)' => HouseholdInv')
    BY <1>2, <1>4, <1>5, AtPage
  <1>8. \A i \in RowIds : writer'[i] = t => ShownSoon(t, i)'
    BY <1>4, <1>5, <1>6, <1>7, ShownBeside
  <1>9. \A e \in CallsOf(t)' : EditAlone(e)'
    <2>1. \A e \in CallsOf(t) : ~(e.op = "edit" /\ e.form.settled /\ e.tab # Nobody)
      BY <1>1, <1>2 DEF PageInv, EditAlone, CallsOf
    <2> QED BY <1>6, <2>1 DEF EditAlone
  <1>10. FormCurrent(t)'
    BY <1>4, <1>7 DEF FormCurrent
  <1> QED BY <1>7, <1>8, <1>9, <1>10 DEF PageInv

\* The form of an old row that is sent keeps the invariant.
LEMMA SubmitEditKeeps ==
    ASSUME HouseholdInv, NEW t \in Tabs, NEW row \in Typed, SubmitEdit(t, row)
    PROVE  HouseholdInv'
  <1> DEFINE q == [page[t] EXCEPT !.isSubmitting = TRUE]
             form == page[t].dialog
             sent == [row |-> row, copy |-> form.copy, settled |-> form.settled]
  <1>1. HouseholdTypeOK /\ PageInv(t)
    BY DEF HouseholdInv
  <1>2. /\ form.op = "edit" /\ ~page[t].isSubmitting
        /\ SetPage(t, q) /\ Send(t, "edit", form.id, sent)
    BY DEF SubmitEdit
  <1>3. page[t] \in [list : Lists, dialog : Dialog, isSubmitting : BOOLEAN,
                     isLoading : BOOLEAN, loaded : BOOLEAN, late : BOOLEAN]
    BY <1>1 DEF HouseholdTypeOK
  <1>4. form \in [op : {"edit"}, id : RowIds, copy : Entry, settled : BOOLEAN]
    BY <1>2, <1>3 DEF Dialog, NoDialog
  <1>5. /\ q \in [list : Lists, dialog : Dialog, isSubmitting : BOOLEAN,
                  isLoading : BOOLEAN, loaded : BOOLEAN, late : BOOLEAN]
        /\ q.dialog = form /\ q.list = page[t].list /\ q.isSubmitting
        /\ q.late = page[t].late /\ q.loaded = page[t].loaded
    BY <1>3
  <1>6. /\ sent \in SentForms /\ sent.copy = form.copy /\ sent.settled = form.settled
        /\ form.id \in RowIds \cup {0}
    BY <1>4, HouseholdAssumption DEF SentForms
  <1> HIDE DEF q, sent
  <1>7. /\ CallsTyped' /\ UNCHANGED <<resource, table, writer>>
        /\ used' \in [rows : 0..MaxRowIds, clicks : 0..MaxClicks, losses : 0..MaxLosses]
        /\ \A u \in Tabs \ {t} : CallsOf(u)' = CallsOf(u)
        /\ \E k : /\ CallsOf(t)' = CallsOf(t) \cup {k}
                  /\ k.tab = t /\ k.op = "edit" /\ k.id = form.id /\ k.form = sent
                  /\ k.pc = "sent"
    BY <1>2, <1>6, Sent
  <1>8. PICK k : /\ CallsOf(t)' = CallsOf(t) \cup {k}
                 /\ k.tab = t /\ k.op = "edit" /\ k.id = form.id /\ k.form = sent
                 /\ k.pc = "sent"
    BY <1>7
  <1>9. page'[t] = q /\ (PageInv(t)' => HouseholdInv')
    BY <1>2, <1>5, <1>7, AtPage
  <1>10. \A i \in RowIds : writer'[i] = t => ShownSoon(t, i)'
    BY <1>5, <1>7, <1>8, <1>9, ShownBeside
  <1>11. \A id, r : Untouched(t, id, r)' = Untouched(t, id, r)
    BY <1>7 DEF Untouched
  <1>12. \A e \in CallsOf(t) : ~(e.op = "edit" /\ e.form.settled)
    <2>1. \A e \in CallsOf(t) : e.tab = t /\ t # Nobody
      BY HouseholdAssumption DEF CallsOf
    <2> QED BY <1>1, <1>2, <2>1 DEF PageInv, EditAlone
  <1>13. form.settled => CallsOf(t) = {} /\ Untouched(t, form.id, form.copy)
    <2>1. FormCurrent(t)
      BY <1>1 DEF PageInv
    <2> QED BY <1>2, <1>12, <2>1 DEF FormCurrent
  <1>14. ASSUME NEW e \in CallsOf(t)', e.op = "edit", e.form.settled
         PROVE  EditAlone(e)'
    <2>1. e = k /\ form.settled
      BY <1>6, <1>8, <1>12, <1>14
    <2>2. CallsOf(t)' = {k} /\ Untouched(t, k.id, k.form.copy)'
      BY <1>6, <1>8, <1>11, <1>13, <2>1
    <2>3. e.tab = t /\ page'[t].isSubmitting
      BY <1>5, <1>8, <1>9, <2>1
    <2> QED BY <2>1, <2>2, <2>3 DEF EditAlone
  <1>15. \A e \in CallsOf(t)' : EditAlone(e)'
    BY <1>14 DEF EditAlone
  <1>16. FormCurrent(t)'
    <2>1. page'[t].dialog = form
      BY <1>5, <1>9
    <2>2. ASSUME form.settled
          PROVE  CallsOf(t)' = {k} /\ k.form.settled /\ k.form.copy = form.copy
      BY <1>6, <1>8, <1>13, <2>2
    <2>3. form.settled => Untouched(t, page'[t].dialog.id, page'[t].dialog.copy)
      BY <1>13, <2>1
    <2>4. form.settled => Untouched(t, page[t].dialog.id, page[t].dialog.copy)'
      BY <1>11, <2>3
    <2> QED BY <1>8, <2>1, <2>2, <2>4 DEF FormCurrent
  <1> QED BY <1>9, <1>10, <1>15, <1>16 DEF PageInv

\* A click on delete keeps the invariant.
LEMMA DeleteKeeps ==
    ASSUME HouseholdInv, NEW t \in Tabs, NEW id \in DOMAIN page[t].list, Delete(t, id)
    PROVE  HouseholdInv'
  <1>1. HouseholdTypeOK /\ PageInv(t)
    BY DEF HouseholdInv
  <1>2. page[t].dialog = NoDialog /\ page' = page /\ Send(t, "delete", id, NoForm)
    BY DEF Delete
  <1>3. page[t] \in [list : Lists, dialog : Dialog, isSubmitting : BOOLEAN,
                     isLoading : BOOLEAN, loaded : BOOLEAN, late : BOOLEAN]
    BY <1>1 DEF HouseholdTypeOK
  <1>4. id \in RowIds \cup {0} /\ NoForm \in SentForms
    BY <1>3, NoFormFits DEF Lists
  <1>5. /\ CallsTyped' /\ UNCHANGED <<resource, table, writer>>
        /\ used' \in [rows : 0..MaxRowIds, clicks : 0..MaxClicks, losses : 0..MaxLosses]
        /\ \A u \in Tabs \ {t} : CallsOf(u)' = CallsOf(u)
        /\ \E k : /\ CallsOf(t)' = CallsOf(t) \cup {k}
                  /\ k.tab = t /\ k.op = "delete" /\ k.id = id /\ k.form = NoForm
                  /\ k.pc = "sent"
    BY <1>2, <1>4, Sent
  <1>6. PICK k : CallsOf(t)' = CallsOf(t) \cup {k} /\ k.op = "delete"
    BY <1>5
  <1>7. SetPage(t, page[t])
    BY <1>1, <1>2 DEF SetPage, HouseholdTypeOK
  <1>8. PageInv(t)' => HouseholdInv'
    BY <1>3, <1>5, <1>7, AtPage
  <1>9. \A i \in RowIds : writer'[i] = t => ShownSoon(t, i)'
    BY <1>2, <1>5, <1>6, ShownBeside
  <1>10. ASSUME NEW e \in CallsOf(t)'
         PROVE  EditAlone(e)'
    <2>1. CASE e = k
      BY <1>6, <2>1 DEF EditAlone
    <2>2. CASE e # k
      <3>1. EditAlone(e) /\ e.tab = t
        BY <1>1, <1>6, <2>2 DEF PageInv, CallsOf
      <3>2. Untouched(t, e.id, e.form.copy)' = Untouched(t, e.id, e.form.copy)
        BY <1>5 DEF Untouched
      <3> QED BY <1>2, <1>6, <3>1, <3>2 DEF EditAlone
    <2> QED BY <2>1, <2>2
  <1>11. FormCurrent(t)'
    BY <1>2 DEF FormCurrent, NoDialog
  <1> QED BY <1>8, <1>9, <1>10, <1>11 DEF PageInv

\* A step that changes one page and no call.
LEMMA FormChanged ==
    ASSUME HouseholdInv, NEW t \in Tabs, NEW dialog \in Dialog,
           SetPage(t, [page[t] EXCEPT !.dialog = dialog]),
           UNCHANGED <<resource, table, calls, writer, used>>,
           dialog.op = "edit" /\ dialog.settled =>
               CallsOf(t) = {} /\ Untouched(t, dialog.id, dialog.copy)
    PROVE  HouseholdInv'
  <1> DEFINE q == [page[t] EXCEPT !.dialog = dialog]
  <1>1. HouseholdTypeOK /\ CallsTyped /\ PageInv(t)
    BY DEF HouseholdInv
  <1>2. page[t] \in [list : Lists, dialog : Dialog, isSubmitting : BOOLEAN,
                     isLoading : BOOLEAN, loaded : BOOLEAN, late : BOOLEAN]
    BY <1>1 DEF HouseholdTypeOK
  <1>3. /\ q \in [list : Lists, dialog : Dialog, isSubmitting : BOOLEAN,
                  isLoading : BOOLEAN, loaded : BOOLEAN, late : BOOLEAN]
        /\ q.dialog = dialog /\ q.list = page[t].list /\ q.isSubmitting = page[t].isSubmitting
        /\ q.late = page[t].late /\ q.loaded = page[t].loaded
    BY <1>2
  <1> HIDE DEF q
  <1>4. CallsTyped' /\ \A u \in Tabs : CallsOf(u)' = CallsOf(u)
    BY <1>1 DEF CallsTyped, CallsOf
  <1>5. used' \in [rows : 0..MaxRowIds, clicks : 0..MaxClicks, losses : 0..MaxLosses]
    BY <1>1 DEF HouseholdTypeOK
  <1>6. SetPage(t, q)
    BY DEF q
  <1>7. page'[t] = q /\ (PageInv(t)' => HouseholdInv')
    BY <1>3, <1>4, <1>5, <1>6, AtPage
  <1>8. \A id, r : Untouched(t, id, r)' = Untouched(t, id, r)
    BY DEF Untouched
  <1>9. ASSUME NEW i \in RowIds, writer'[i] = t
        PROVE  ShownSoon(t, i)'
    <2>1. ShownSoon(t, i)
      BY <1>1, <1>9 DEF PageInv
    <2>2. Loads(t)' = Loads(t) /\ (Unheard(t, i) => Unheard(t, i)')
      BY <1>4 DEF Loads, Unheard
    <2> QED BY <1>3, <1>7, <2>1, <2>2, ShownKept
  <1>10. ASSUME NEW e \in CallsOf(t)'
         PROVE  EditAlone(e)'
    <2>1. EditAlone(e) /\ e.tab = t
      BY <1>1, <1>4 DEF PageInv, CallsOf
    <2>2. Untouched(t, e.id, e.form.copy)' = Untouched(t, e.id, e.form.copy)
      BY <1>8
    <2> QED BY <1>3, <1>4, <1>7, <2>1, <2>2 DEF EditAlone
  <1>11. FormCurrent(t)'
    <2>1. page'[t].dialog = dialog
      BY <1>3, <1>7
    <2>2. dialog.op = "edit" /\ dialog.settled => Untouched(t, dialog.id, dialog.copy)'
      BY <1>8
    <2>3. dialog.op = "edit" /\ dialog.settled =>
              Untouched(t, page[t].dialog.id, page[t].dialog.copy)'
      BY <2>1, <2>2
    <2> QED BY <1>4, <2>1, <2>3 DEF FormCurrent
  <1> QED BY <1>7, <1>9, <1>10, <1>11 DEF PageInv

\* The form of a row that is opened keeps the invariant.
LEMMA OpenEditKeeps ==
    ASSUME HouseholdInv, NEW t \in Tabs, NEW id \in DOMAIN page[t].list, OpenEdit(t, id)
    PROVE  HouseholdInv'
  <1> DEFINE dialog == [op |-> "edit", id |-> id, copy |-> page[t].list[id],
                        settled |-> Settled(t)]
  <1>1. HouseholdTypeOK /\ PageInv(t)
    BY DEF HouseholdInv
  <1>2. page[t].list \in Lists
    BY <1>1 DEF HouseholdTypeOK
  <1>3. id \in RowIds /\ page[t].list[id] \in Entry
    BY <1>2 DEF Lists
  <1>4. dialog \in Dialog
    BY <1>3 DEF Dialog, Settled
  <1>5. SetPage(t, [page[t] EXCEPT !.dialog = dialog])
        /\ UNCHANGED <<resource, table, calls, writer, used>>
    BY DEF OpenEdit
  <1>6. ASSUME Settled(t)
        PROVE  CallsOf(t) = {} /\ Untouched(t, id, page[t].list[id])
    <2>1. CallsOf(t) = {} /\ page[t].loaded /\ ~page[t].late
      BY <1>6 DEF Settled
    <2>2. ASSUME writer[id] = t, id \in DOMAIN table
          PROVE  table[id] = page[t].list[id]
      <3>1. ShownSoon(t, id)
        BY <1>1, <1>3, <2>2 DEF PageInv
      <3>2. ~Unheard(t, id) /\ Loads(t) = {}
        BY <2>1 DEF Unheard, Loads
      <3>3. Brings(page[t].list, id) /\ resource = "budgets"
        BY <2>1, <3>1, <3>2 DEF ShownSoon, OpenEdit
      <3>4. RowOf(page[t].list, id) = There(id)
        BY <3>3 DEF Brings, Beyond
      <3> QED BY <2>2, <3>4 DEF There, RowOf
    <2> QED BY <2>1, <2>2 DEF Untouched
  <1>7. dialog.op = "edit" /\ dialog.settled =>
            CallsOf(t) = {} /\ Untouched(t, dialog.id, dialog.copy)
    BY <1>6
  <1> HIDE DEF dialog
  <1> QED BY <1>4, <1>5, <1>7, FormChanged

\* A form that is closed keeps the invariant.
LEMMA CancelKeeps ==
    ASSUME HouseholdInv, NEW t \in Tabs, Cancel(t)
    PROVE  HouseholdInv'
  <1>1. NoDialog \in Dialog /\ NoDialog.op # "edit"
    BY DEF Dialog, NoDialog
  <1> QED BY <1>1, FormChanged DEF Cancel

\* A page that has just been opened is typed, without a form.
LEMMA MountedFits ==
    /\ Mounted \in [list : Lists, dialog : Dialog, isSubmitting : BOOLEAN,
                    isLoading : BOOLEAN, loaded : BOOLEAN, late : BOOLEAN]
    /\ Mounted.dialog.op # "edit"
  <1>1. NoDialog \in Dialog
    BY DEF Dialog
  <1> QED BY <1>1, RowsExist DEF Mounted, NoDialog

\* A page that is opened anew, while calls of the old one go on, keeps the
\* invariant.
LEMMA ReopenKeeps ==
    ASSUME HouseholdInv, NEW t \in Tabs, Reopen(t)
    PROVE  HouseholdInv'
  <1> DEFINE ghosts == {[c EXCEPT !.tab = Nobody] : c \in {d \in CallsOf(t) : Unserved(d)}}
             left == {c \in calls : c.tab # t} \cup ghosts
             k == Load(left, t, FALSE)
  <1>1. HouseholdTypeOK /\ CallsTyped
    BY DEF HouseholdInv
  <1>2. /\ used.losses < MaxLosses /\ used' = [used EXCEPT !.losses = @ + 1]
        /\ SetPage(t, Mounted) /\ calls' = left \cup {k} /\ UNCHANGED <<resource, table, writer>>
    BY DEF Reopen
  <1>3. Nobody \notin Tabs
    BY HouseholdAssumption
  <1>4. \A g \in ghosts : \E d \in calls : /\ g \in HttpCalls /\ g.tab = Nobody /\ g.n = d.n
                                           /\ g.op # "load" /\ g.pc # "answered"
    <2>1. \A d \in CallsOf(t) : d \in calls /\ d \in HttpCalls
      BY <1>1 DEF CallsOf, CallsTyped
    <2> QED BY <2>1 DEF HttpCalls, Unserved
  <1> HIDE DEF ghosts
  <1>5. \A c \in left : (c \in calls /\ c.tab # t) \/ c \in ghosts
    OBVIOUS
  <1>6. left \in SUBSET HttpCalls
    BY <1>1, <1>4, <1>5 DEF CallsTyped
  <1>7. \E b \in Nat : \A c \in left : c.n <= b
    <2>1. PICK b \in Nat : \A c \in calls : c.n <= b
      BY <1>1 DEF CallsTyped
    <2>2. \A c \in left : c.n <= b
      BY <1>4, <1>5, <2>1
    <2> QED BY <2>2
  <1>8. \A c \in left : c.pc = "answered" \/ c.op = "load" => c.tab # Nobody
    BY <1>1, <1>4, <1>5 DEF CallsTyped
  <1>9. \A u \in Tabs : {c \in left : c.tab = u} = CallsOf(u) \ CallsOf(t)
    BY <1>3, <1>4, <1>5 DEF CallsOf
  <1>10. k \in HttpCalls /\ (\A c \in left : c.n < k.n)
         /\ k.tab = t /\ k.op = "load" /\ k.pc = "sent" /\ k.submit = FALSE
    <2> HIDE DEF left
    <2> QED BY <1>6, <1>7, LoadSent
  <1> HIDE DEF left, k
  <1>11. CallsTyped'
    <2>1. k.n \in Nat /\ \A e \in left : e.n \in Nat
      BY <1>6, <1>10 DEF HttpCalls
    <2>2. \A e \in calls' : e.n <= k.n
      BY <1>2, <1>10, <2>1
    <2>3. \A e \in calls' : e.pc = "answered" \/ e.op = "load" => e.tab # Nobody
      BY <1>2, <1>3, <1>8, <1>10
    <2>4. calls' \subseteq HttpCalls
      BY <1>2, <1>6, <1>10
    <2> QED BY <2>1, <2>2, <2>3, <2>4 DEF CallsTyped
  <1>12. CallsOf(t)' = {k}
    <2>1. {c \in left : c.tab = t} = {}
      BY <1>9
    <2> QED BY <1>2, <1>10, <2>1 DEF CallsOf
  <1>13. ASSUME NEW u \in Tabs \ {t}
         PROVE  CallsOf(u)' = CallsOf(u)
    <2>1. {c \in left : c.tab = u} = CallsOf(u)
      BY <1>9 DEF CallsOf
    <2> QED BY <1>2, <1>10, <2>1 DEF CallsOf
  <1>14. used' \in [rows : 0..MaxRowIds, clicks : 0..MaxClicks, losses : 0..MaxLosses]
    BY <1>1, <1>2, HouseholdAssumption DEF HouseholdTypeOK
  <1>15. page'[t] = Mounted /\ (PageInv(t)' => HouseholdInv')
    BY <1>2, <1>11, <1>13, <1>14, MountedFits, AtPage
  <1>16. \A i : ShownSoon(t, i)'
    BY <1>10, <1>12, LoadBegun
  <1>17. \A e \in CallsOf(t)' : EditAlone(e)'
    BY <1>10, <1>12 DEF EditAlone
  <1>18. FormCurrent(t)'
    BY <1>15, MountedFits DEF FormCurrent
  <1> QED BY <1>15, <1>16, <1>17, <1>18 DEF PageInv

(***************************************************************************)
(* The theorems.                                                           *)
(***************************************************************************)

\* The invariant holds at first.
LEMMA InitHolds == HouseholdInit => HouseholdInv
  <1> SUFFICES ASSUME HouseholdInit
               PROVE  HouseholdInv
    OBVIOUS
  <1> DEFINE start(list) == [Mounted EXCEPT !.list = list, !.isLoading = FALSE,
                                            !.loaded = TRUE]
  <1>1. /\ resource \in Resources /\ table = FirstRows /\ calls = {}
        /\ page \in [Tabs -> {start(list) : list \in Listings}]
        /\ writer = [i \in RowIds |-> Nobody]
        /\ used = [rows |-> Cardinality(DOMAIN FirstRows), clicks |-> 0, losses |-> 0]
    BY DEF HouseholdInit
  <1>2. FirstRows \in Lists /\ Nobody \notin Tabs /\ MaxRowIds \in Nat /\ MaxClicks \in Nat
        /\ MaxLosses \in Nat
    BY HouseholdAssumption
  <1>3. \A list \in Listings :
            /\ start(list) \in [list : Lists, dialog : Dialog, isSubmitting : BOOLEAN,
                                isLoading : BOOLEAN, loaded : BOOLEAN, late : BOOLEAN]
            /\ start(list).dialog.op # "edit"
    <2>1. ASSUME NEW list \in Listings
          PROVE  list \in Lists
      <3>1. PICK S : list = [i \in S |-> table[i]] /\ S \subseteq DOMAIN table
        BY DEF Listings, Latest
      <3>2. PICK T \in SUBSET RowIds : table \in [T -> Entry]
        BY <1>1, <1>2 DEF Lists
      <3>3. S \in SUBSET RowIds /\ list \in [S -> Entry]
        BY <3>1, <3>2
      <3> QED BY <3>3 DEF Lists
    <2> QED BY <2>1, MountedFits
  <1> HIDE DEF start
  <1>4. Cardinality(DOMAIN FirstRows) \in 0..MaxRowIds
    <2>1. DOMAIN FirstRows \in SUBSET (1..MaxRowIds)
      BY <1>2 DEF Lists, RowIds
    <2>2. IsFiniteSet(1..MaxRowIds) /\ Cardinality(1..MaxRowIds) = MaxRowIds
      BY <1>2, 1 \in Int, MaxRowIds \in Int, FS_Interval
    <2>3. /\ IsFiniteSet(DOMAIN FirstRows)
          /\ Cardinality(DOMAIN FirstRows) <= Cardinality(1..MaxRowIds)
      BY <2>1, <2>2, FS_Subset
    <2>4. Cardinality(DOMAIN FirstRows) \in Nat
      BY <2>3, FS_CardinalityType
    <2> QED BY <1>2, <2>2, <2>3, <2>4
  <1>5. HouseholdTypeOK
    BY <1>1, <1>2, <1>3, <1>4 DEF HouseholdTypeOK
  <1>6. CallsTyped
    BY <1>1 DEF CallsTyped
  <1>7. ASSUME NEW t \in Tabs
        PROVE  PageInv(t)
    <2>1. \A i \in RowIds : writer[i] # t
      BY <1>1, <1>2
    <2>2. CallsOf(t) = {}
      BY <1>1 DEF CallsOf
    <2>3. FormCurrent(t)
      BY <1>1, <1>3 DEF FormCurrent
    <2> QED BY <2>1, <2>2, <2>3 DEF PageInv
  <1> QED BY <1>5, <1>6, <1>7 DEF HouseholdInv

\* Every step keeps the invariant.
LEMMA NextKeeps == HouseholdInv /\ [HouseholdNext]_householdVars => HouseholdInv'
  <1> SUFFICES ASSUME HouseholdInv, [HouseholdNext]_householdVars
               PROVE  HouseholdInv'
    OBVIOUS
  <1>1. ASSUME NEW t \in Tabs, Click(t)
        PROVE  HouseholdInv'
    BY <1>1, SubmitAddKeeps, SubmitEditKeeps, OpenEditKeeps, DeleteKeeps, CancelKeeps,
       ReopenKeeps DEF Click
  <1>2. ASSUME NEW c \in calls, Serve(c) \/ Lose(c) \/ Deliver(c)
        PROVE  HouseholdInv'
    BY <1>2, ServeKeeps, LoseKeeps, DeliverKeeps
  <1>3. CASE UNCHANGED householdVars
    <2>1. \A t \in Tabs : Quiet(t)
      BY <1>3 DEF householdVars, Quiet, CallsOf, There
    <2>2. HouseholdTypeOK' /\ CallsTyped'
      BY <1>3 DEF householdVars, HouseholdInv, HouseholdTypeOK, CallsTyped
    <2> QED BY <2>1, <2>2, QuietKeeps DEF HouseholdInv
  <1> QED BY <1>1, <1>2, <1>3 DEF HouseholdNext

\* Every reachable state of the pages has the invariant.
THEOREM HouseholdInductive == HouseholdSpec => []HouseholdInv
  BY InitHolds, NextKeeps, PTL DEF HouseholdSpec

\* The state of pages, table and calls keeps its type.
THEOREM HouseholdTyped == HouseholdSpec => []HouseholdTypeOK
  <1>1. HouseholdInv => HouseholdTypeOK
    BY DEF HouseholdInv
  <1> QED BY <1>1, HouseholdInductive, PTL

\* A page with nothing under way shows every row it wrote last itself as it
\* is in the database, unless its load failed or came late: each write that
\* succeeds begins a load that overtakes those before it (the pages' handlers).
\* However many transactions there are, one of its own is missing only from a
\* list that has as many as the api gives, none of an earlier date
\* (list_transactions).
THEOREM SettledPagesShowTheirWrites == HouseholdSpec => []OwnWritesShown
  <1>1. HouseholdInv => OwnWritesShown
    <2> SUFFICES ASSUME HouseholdInv, NEW t \in Tabs, Settled(t),
                        NEW i \in RowIds, writer[i] = t
                 PROVE  Brings(page[t].list, i)
      BY DEF OwnWritesShown
    <2>1. ShownSoon(t, i)
      BY DEF HouseholdInv, PageInv
    <2>2. CallsOf(t) = {} /\ page[t].loaded /\ ~page[t].late
      BY DEF Settled
    <2>3. ~Unheard(t, i) /\ Loads(t) = {}
      BY <2>2 DEF Unheard, Loads
    <2> QED BY <2>1, <2>2, <2>3 DEF ShownSoon
  <1> QED BY <1>1, HouseholdInductive, PTL

\* Only the server writes the table, and the call it serves is the one that ends.
LEMMA WritesAreServed ==
    ASSUME HouseholdNext
    PROVE  \/ table' = table
           \/ \E e \in calls : /\ Serve(e)
                               /\ \A c \in calls : c \notin calls' => c = e
  <1>1. ASSUME NEW t \in Tabs, Click(t)
        PROVE  table' = table
    BY <1>1 DEF Click, SubmitAdd, SubmitEdit, OpenEdit, Delete, Cancel, Reopen, Send
  <1>2. ASSUME NEW e \in calls, Lose(e) \/ Deliver(e)
        PROVE  table' = table
    BY <1>2 DEF Lose, Deliver
  <1>3. ASSUME NEW e \in calls, Serve(e)
        PROVE  \A c \in calls : c \notin calls' => c = e
    BY <1>3 DEF Serve, ServeLoad, ServeAdd, ServeEditRead, ServeEditWrite, ServeDelete,
                Reject, Commit, Replace
  <1> QED BY <1>1, <1>2, <1>3 DEF HouseholdNext

\* Under the invariant, a step that writes a row leaves the fields its user did
\* not touch.
LEMMA FieldsAreKept == HouseholdInv /\ [HouseholdNext]_householdVars => [FieldKept]_householdVars
  <1> SUFFICES ASSUME HouseholdInv, HouseholdNext,
                      NEW i \in DOMAIN table \cap DOMAIN table', NEW c \in calls,
                      c.op = "edit", c.id = i, c.pc = "read", c \notin calls',
                      c.form.settled, writer[i] = c.tab, c.tab # Nobody,
                      NEW f \in {"label", "content"}, c.form.row[f] = c.form.copy[f]
               PROVE  table'[i][f] = table[i][f]
    BY DEF FieldKept
  <1>1. CASE table' = table
    BY <1>1
  <1>2. CASE Serve(c)
    <2>1. ServeEditWrite(c)
      BY <1>2 DEF Serve
    <2>2. CASE Reject(c)
      BY <2>2 DEF Reject
    <2>3. CASE Commit(c, c.id, Put(table, c.id, c.form.row))
      <3>1. table'[i] = c.form.row
        BY <2>3 DEF Commit, Put
      <3>2. c \in CallsOf(c.tab) /\ c.tab \in Tabs
        BY DEF HouseholdInv, CallsTyped, HttpCalls, CallsOf
      <3>3. EditAlone(c)
        BY <3>2 DEF HouseholdInv, PageInv
      <3>4. table[i] = c.form.copy
        BY <3>3 DEF EditAlone, Untouched
      <3> QED BY <3>1, <3>4
    <2> QED BY <2>1, <2>2, <2>3 DEF ServeEditWrite
  <1> QED BY <1>1, <1>2, WritesAreServed

\* An edit whose form was opened over a settled page changes no field its user
\* left alone, in a row that page wrote last: the form holds the row as it is
\* when update_budget writes it.
THEOREM EditsKeepOtherFields == HouseholdSpec => UntouchedFieldKept
  BY HouseholdInductive, FieldsAreKept, PTL DEF HouseholdSpec, UntouchedFieldKept

-----------------------------------------------------------------------------
(* The dashboard.  Its sums are over finite sets of transactions (Sums);   *)
(* that the cards are those of the whole table needs an invariant of the   *)
(* calls and the tables, DashboardInv.                                     *)

\* The transactions a page has: finitely many, of the types of the tables.
Charted(txs) ==
    /\ IsFiniteSet(DOMAIN txs)
    /\ \A t \in DOMAIN txs : /\ txs[t].type \in HomeTypes
                             /\ txs[t].month \in Int /\ txs[t].amount \in Int

AmountsOf(txs) == [t \in DOMAIN txs |-> txs[t].amount]

\* The amount of some transactions is the sum of theirs.
LEMMA AmountIs ==
    ASSUME NEW txs, Charted(txs), NEW T \in SUBSET DOMAIN txs
    PROVE  /\ IsFiniteSet(T) /\ Amount(txs, T) = SumOn(AmountsOf(txs), T)
           /\ \A t \in T : AmountsOf(txs)[t] = txs[t].amount /\ AmountsOf(txs)[t] \in Int
           /\ Amount(txs, T) \in Int
  <1> DEFINE v == [t \in T |-> txs[t].amount]
             w == AmountsOf(txs)
  <1>1. IsFiniteSet(T)
    BY FS_Subset DEF Charted
  <1>2. \A t \in T : w[t] = txs[t].amount /\ w[t] \in Int
    BY DEF Charted, AmountsOf
  <1>3. Amount(txs, T) = SumOn(v, DOMAIN v)
    BY SumFunctionIs DEF Amount
  <1>4. DOMAIN v = T /\ \A t \in T : v[t] = w[t]
    BY <1>2
  <1> HIDE DEF v, w
  <1>5. SumOn(v, T) = SumOn(w, T)
    BY <1>1, <1>4, SumSame
  <1>6. SumOn(w, T) \in Int
    BY <1>1, <1>2, SumInt
  <1> QED BY <1>1, <1>2, <1>3, <1>4, <1>5, <1>6 DEF w

\* A set of transactions by key, and the sum of its classes.
Parted(T, H, P) ==
    /\ IsFiniteSet(H) /\ T = UNION {P[h] : h \in H}
    /\ \A h, k \in H : h # k => P[h] \cap P[k] = {}

\* The amounts of the classes add up to the amount of the set.
LEMMA ClassesAddUp ==
    ASSUME NEW txs, Charted(txs), NEW T \in SUBSET DOMAIN txs, NEW H, NEW P, Parted(T, H, P),
           NEW v, \A h \in H : v[h] = Amount(txs, P[h])
    PROVE  /\ SumOn(v, H) = Amount(txs, T)
           /\ \A h \in H : v[h] \in Int
  <1> DEFINE w == AmountsOf(txs)
  <1>1. \A h \in H : P[h] \in SUBSET DOMAIN txs
    BY DEF Parted
  <1>2. \A h \in H : /\ IsFiniteSet(P[h]) /\ v[h] = SumOn(w, P[h]) /\ v[h] \in Int
                     /\ \A t \in P[h] : w[t] \in Int
    BY <1>1, AmountIs
  <1>3. Amount(txs, T) = SumOn(w, T)
    BY AmountIs
  <1> HIDE DEF w
  <1>4. /\ IsFiniteSet(H) /\ T = UNION {P[h] : h \in H}
        /\ \A h, k \in H : h # k => P[h] \cap P[k] = {}
    BY DEF Parted
  <1>5. SumOn(v, H) = SumOn(w, T)
    BY <1>2, <1>4, SumParts DEF SummedParts
  <1> QED BY <1>2, <1>3, <1>5

\* The cards and this month's bars.
LEMMA CardsAreBars ==
    ASSUME NEW txs, Charted(txs), NoTransfers(txs)
    PROVE  TotalIncome(txs) = MonthIncome(txs, Now) /\ TotalExpense(txs) = MonthExpense(txs, Now)
  <1>1. \A t \in DOMAIN txs : txs[t].type \in {"income", "expense"}
    BY DEF Charted, NoTransfers, HomeTypes
  <1>2. Rows(txs, LAMBDA x : InMonth(x, Now) /\ x.type = "expense")
          = Rows(txs, LAMBDA x : InMonth(x, Now) /\ NotIncome(x))
    BY <1>1 DEF Rows, NotIncome
  <1> QED BY <1>2 DEF TotalIncome, MonthIncome, TotalExpense, MonthExpense

\* The classes of transactions by a key.
LEMMA KeysPart ==
    ASSUME NEW T, NEW H, IsFiniteSet(H), NEW key, \A t \in T : key[t] \in H,
           NEW P, \A h \in H : P[h] = {t \in T : key[t] = h}
    PROVE  Parted(T, H, P)
  <1>1. \A t \in T : \E h \in H : t \in P[h]
    OBVIOUS
  <1>2. \A h \in H : P[h] \subseteq T
    OBVIOUS
  <1>3. T = UNION {P[h] : h \in H}
    BY ONLY <1>1, <1>2
  <1> QED BY <1>3 DEF Parted

\* The categories and the months of the transactions are finitely many.
LEMMA KeysFinite ==
    ASSUME NEW txs, Charted(txs)
    PROVE  /\ IsFiniteSet(Categories(txs, LAMBDA x : TRUE))
           /\ \A t \in DOMAIN txs : CategoryOf(txs[t]) \in Categories(txs, LAMBDA x : TRUE)
           /\ IsFiniteSet(MonthCategories(txs))
           /\ \A t \in DOMAIN txs : txs[t].month = Now => CategoryOf(txs[t]) \in MonthCategories(txs)
           /\ IsFiniteSet(Months(txs)) /\ \A t \in DOMAIN txs : txs[t].month \in Months(txs)
  <1> DEFINE f == [t \in DOMAIN txs |-> CategoryOf(txs[t])]
             g == [t \in DOMAIN txs |-> txs[t].month]
             N == {t \in DOMAIN txs : txs[t].month = Now}
  <1>1. IsFiniteSet(DOMAIN txs) /\ IsFiniteSet(N)
    BY FS_Subset DEF Charted
  <1>2. Categories(txs, LAMBDA x : TRUE) = {f[t] : t \in DOMAIN txs}
    BY DEF Categories, Rows
  <1>3. MonthCategories(txs) = {f[t] : t \in N}
    BY DEF MonthCategories, Categories, Rows, InMonth
  <1>4. Months(txs) = {g[t] : t \in DOMAIN txs}
    BY DEF Months
  <1>5. \A t \in DOMAIN txs : /\ f[t] = CategoryOf(txs[t]) /\ g[t] = txs[t].month
                              /\ txs[t].month = Now => t \in N
    OBVIOUS
  <1> HIDE DEF f, g, N
  <1>6. IsFiniteSet({f[t] : t \in DOMAIN txs})
    <2> DEFINE R == {f[t] : t \in DOMAIN txs}
    <2>1. R = {f[t] : t \in DOMAIN txs}
      OBVIOUS
    <2> HIDE DEF R
    <2>2. IsFiniteSet(R)
      BY <1>1, <2>1, ImageFinite
    <2> QED BY <2>2 DEF R
  <1>7. IsFiniteSet({f[t] : t \in N})
    <2> DEFINE R == {f[t] : t \in N}
    <2>1. R = {f[t] : t \in N}
      OBVIOUS
    <2> HIDE DEF R
    <2>2. IsFiniteSet(R)
      BY <1>1, <2>1, ImageFinite
    <2> QED BY <2>2 DEF R
  <1>8. IsFiniteSet({g[t] : t \in DOMAIN txs})
    <2> DEFINE R == {g[t] : t \in DOMAIN txs}
    <2>1. R = {g[t] : t \in DOMAIN txs}
      OBVIOUS
    <2> HIDE DEF R
    <2>2. IsFiniteSet(R)
      BY <1>1, <2>1, ImageFinite
    <2> QED BY <2>2 DEF R
  <1>9. \A t \in DOMAIN txs : /\ f[t] \in Categories(txs, LAMBDA x : TRUE)
                              /\ g[t] \in Months(txs)
                              /\ t \in N => f[t] \in MonthCategories(txs)
    BY <1>2, <1>3, <1>4
  <1> QED BY <1>2, <1>3, <1>4, <1>5, <1>6, <1>7, <1>8, <1>9

\* The categories and the card of expenses.
LEMMA CategoriesAddUp ==
    ASSUME NEW txs, Charted(txs)
    PROVE  SumFunction([c \in Categories(txs, LAMBDA x : TRUE) |-> Spent(txs, c)])
             = TotalExpense(txs)
  <1> DEFINE H == Categories(txs, LAMBDA x : TRUE)
             T == Rows(txs, LAMBDA x : InMonth(x, Now) /\ x.type = "expense")
             P == [c \in H |-> Rows(txs, LAMBDA x : /\ InMonth(x, Now) /\ x.type = "expense"
                                                    /\ CategoryOf(x) = c)]
             v == [c \in H |-> Spent(txs, c)]
             key == [t \in DOMAIN txs |-> CategoryOf(txs[t])]
  <1>1. T \in SUBSET DOMAIN txs
    BY DEF Rows
  <1>2. \A c \in H : P[c] = {t \in T : key[t] = c}
    BY DEF Rows
  <1>3. \A c \in H : v[c] = Amount(txs, P[c])
    BY DEF Spent
  <1>4. IsFiniteSet(H) /\ \A t \in T : key[t] \in H
    <2>1. \A t \in DOMAIN txs : key[t] = CategoryOf(txs[t])
      OBVIOUS
    <2> HIDE DEF T, key, H
    <2> QED BY <1>1, <2>1, KeysFinite DEF H
  <1>5. SumFunction(v) = SumOn(v, H)
    BY SumFunctionIs
  <1>6. TotalExpense(txs) = Amount(txs, T)
    BY DEF TotalExpense
  <1> HIDE DEF H, T, P, v, key
  <1>7. Parted(T, H, P)
    BY <1>2, <1>4, KeysPart
  <1>8. SumOn(v, H) = Amount(txs, T)
    BY <1>1, <1>3, <1>7, ClassesAddUp
  <1> QED BY <1>5, <1>6, <1>8 DEF v, H

\* What is spent of a budget is no more than the card of expenses.
LEMMA ActualBounded ==
    ASSUME NEW txs, Charted(txs), \A t \in DOMAIN txs : txs[t].amount >= 0, NEW c
    PROVE  Spent(txs, c) <= TotalExpense(txs)
  <1> DEFINE T == Rows(txs, LAMBDA x : InMonth(x, Now) /\ x.type = "expense")
             S == Rows(txs, LAMBDA x : /\ InMonth(x, Now) /\ x.type = "expense"
                                       /\ CategoryOf(x) = c)
  <1>1. T \in SUBSET DOMAIN txs /\ S \in SUBSET T /\ S \in SUBSET DOMAIN txs
    BY DEF Rows
  <1>2. Spent(txs, c) = Amount(txs, S) /\ TotalExpense(txs) = Amount(txs, T)
    BY DEF Spent, TotalExpense
  <1> HIDE DEF T, S
  <1>3. \A t \in T : AmountsOf(txs)[t] \in Nat
    BY <1>1, AmountIs
  <1>4. /\ IsFiniteSet(T) /\ Amount(txs, T) = SumOn(AmountsOf(txs), T)
        /\ Amount(txs, S) = SumOn(AmountsOf(txs), S)
    BY <1>1, AmountIs
  <1>5. SumOn(AmountsOf(txs), S) <= SumOn(AmountsOf(txs), T)
    BY <1>1, <1>3, <1>4, SumPart
  <1> QED BY <1>2, <1>4, <1>5

\* One side of the flows adds up to its bar when no category of it is negative.
LEMMA FlowAddsUp ==
    ASSUME NEW txs, Charted(txs), NEW T \in SUBSET DOMAIN txs,
           \A t \in T : txs[t].month = Now,
           NEW flow, DOMAIN flow = MonthCategories(txs),
           \A c \in MonthCategories(txs) :
              flow[c] >= 0 /\ flow[c] = Amount(txs, {t \in T : CategoryOf(txs[t]) = c})
    PROVE  Drawn(flow) = Amount(txs, T)
  <1> DEFINE H == MonthCategories(txs)
             P == [c \in H |-> {t \in T : CategoryOf(txs[t]) = c}]
             key == [t \in DOMAIN txs |-> CategoryOf(txs[t])]
             v == [c \in DOMAIN flow |-> Positive(flow[c])]
  <1>1. IsFiniteSet(H) /\ \A t \in T : key[t] \in H
    BY KeysFinite
  <1>2. \A c \in H : P[c] = {t \in T : key[t] = c}
    OBVIOUS
  <1>3. \A c \in H : flow[c] = Amount(txs, P[c])
    OBVIOUS
  <1>4. DOMAIN flow = H /\ \A c \in H : v[c] = Positive(flow[c])
    OBVIOUS
  <1>5. Drawn(flow) = SumOn(v, DOMAIN flow)
    BY SumFunctionIs DEF Drawn
  <1>9. \A c \in H : flow[c] >= 0
    OBVIOUS
  <1> HIDE DEF H, P, key, v
  <1>6. Parted(T, H, P)
    BY <1>1, <1>2, KeysPart
  <1>7. SumOn(flow, H) = Amount(txs, T) /\ \A c \in H : flow[c] \in Int
    BY <1>3, <1>6, ClassesAddUp
  <1>8. \A c \in H : v[c] = flow[c]
    BY <1>4, <1>7, <1>9 DEF Positive
  <1>10. SumOn(v, H) = SumOn(flow, H)
    BY <1>1, <1>8, SumSame
  <1> QED BY <1>4, <1>5, <1>7, <1>10

\* The flows in and out of the middle, up to a deficit.
LEMMA FlowsBalance ==
    ASSUME NEW txs, Charted(txs),
           \A c \in MonthCategories(txs) : FlowIn(txs, c) >= 0 /\ FlowOut(txs, c) >= 0
    PROVE  Drawn([c \in MonthCategories(txs) |-> FlowOut(txs, c)]) + Left(txs)
             = Drawn([c \in MonthCategories(txs) |-> FlowIn(txs, c)])
               + Positive(-(MonthIncome(txs, Now) - MonthExpense(txs, Now)))
  <1> DEFINE H == MonthCategories(txs)
             I == Rows(txs, LAMBDA x : InMonth(x, Now) /\ Income(x))
             E == Rows(txs, LAMBDA x : InMonth(x, Now) /\ NotIncome(x))
             in == [c \in H |-> FlowIn(txs, c)]
             out == [c \in H |-> FlowOut(txs, c)]
  <1>1. /\ I \in SUBSET DOMAIN txs /\ E \in SUBSET DOMAIN txs
        /\ \A t \in I : txs[t].month = Now
        /\ \A t \in E : txs[t].month = Now
    BY DEF Rows, InMonth
  <1>2. \A c : /\ FlowIn(txs, c) = Amount(txs, {t \in I : CategoryOf(txs[t]) = c})
               /\ FlowOut(txs, c) = Amount(txs, {t \in E : CategoryOf(txs[t]) = c})
    <2>1. \A c : /\ Rows(txs, LAMBDA x : InMonth(x, Now) /\ Income(x) /\ CategoryOf(x) = c)
                      = {t \in I : CategoryOf(txs[t]) = c}
                 /\ Rows(txs, LAMBDA x : InMonth(x, Now) /\ NotIncome(x) /\ CategoryOf(x) = c)
                      = {t \in E : CategoryOf(txs[t]) = c}
      BY DEF Rows
    <2> QED BY <2>1 DEF FlowIn, FlowOut
  <1>3. MonthIncome(txs, Now) = Amount(txs, I) /\ MonthExpense(txs, Now) = Amount(txs, E)
    BY DEF MonthIncome, MonthExpense
  <1>4. \A c \in H : in[c] >= 0 /\ out[c] >= 0
    OBVIOUS
  <1>5. /\ DOMAIN in = H /\ DOMAIN out = H
        /\ \A c \in H : /\ in[c] = Amount(txs, {t \in I : CategoryOf(txs[t]) = c})
                         /\ out[c] = Amount(txs, {t \in E : CategoryOf(txs[t]) = c})
    BY <1>2
  <1> HIDE DEF I, E, in, out
  <1>6. Drawn(in) = Amount(txs, I) /\ Drawn(out) = Amount(txs, E)
    BY <1>1, <1>4, <1>5, FlowAddsUp
  <1> DEFINE a == Amount(txs, I)
             b == Amount(txs, E)
  <1>7. a \in Int /\ b \in Int
    BY <1>1, AmountIs
  <1>8. /\ Drawn(in) = a /\ Drawn(out) = b
        /\ MonthIncome(txs, Now) = a /\ MonthExpense(txs, Now) = b
        /\ Left(txs) = Positive(a - b)
    BY <1>3, <1>6 DEF Left
  <1> HIDE DEF a, b
  <1>9. b + Positive(a - b) = a + Positive(-(a - b))
    BY <1>7 DEF Positive
  <1> QED BY <1>8, <1>9 DEF in, out

\* What came in and what went out, of all months and accounts.
Incomes(txs) == {t \in DOMAIN txs : txs[t].type = "income"}
Outgoings(txs) == {t \in DOMAIN txs : txs[t].type # "income"}
NetOf(txs, key, h) == Amount(txs, {t \in Incomes(txs) : key[t] = h})
                        - Amount(txs, {t \in Outgoings(txs) : key[t] = h})

\* What the transactions of each key leave adds up to what they all leave.
LEMMA NetByKey ==
    ASSUME NEW txs, Charted(txs), NEW H, IsFiniteSet(H),
           NEW key, \A t \in DOMAIN txs : key[t] \in H,
           NEW net, \A h \in H : net[h] = NetOf(txs, key, h)
    PROVE  /\ SumOn(net, H) = Amount(txs, Incomes(txs)) - Amount(txs, Outgoings(txs))
           /\ \A h \in H : net[h] \in Int
  <1> DEFINE I == Incomes(txs)
             E == Outgoings(txs)
             P == [h \in H |-> {t \in I : key[t] = h}]
             Q == [h \in H |-> {t \in E : key[t] = h}]
             v == [h \in H |-> Amount(txs, P[h])]
             w == [h \in H |-> Amount(txs, Q[h])]
  <1>1. I \in SUBSET DOMAIN txs /\ E \in SUBSET DOMAIN txs
    BY DEF Incomes, Outgoings
  <1>2. /\ \A h \in H : P[h] = {t \in I : key[t] = h}
        /\ \A h \in H : Q[h] = {t \in E : key[t] = h}
    OBVIOUS
  <1>3. \A h \in H : net[h] = v[h] - w[h]
    BY DEF NetOf
  <1>4. (\A h \in H : v[h] = Amount(txs, P[h])) /\ (\A h \in H : w[h] = Amount(txs, Q[h]))
    OBVIOUS
  <1> HIDE DEF I, E, P, Q, v, w
  <1>5. (\A t \in I : key[t] \in H) /\ (\A t \in E : key[t] \in H)
    BY <1>1
  <1>6. Parted(I, H, P) /\ Parted(E, H, Q)
    BY <1>2, <1>5, KeysPart
  <1>7. /\ SumOn(v, H) = Amount(txs, I) /\ SumOn(w, H) = Amount(txs, E)
        /\ \A h \in H : v[h] \in Int /\ w[h] \in Int
    BY <1>1, <1>4, <1>6, ClassesAddUp
  <1>8. \A h \in H : v[h] \in Int /\ w[h] \in Int /\ net[h] = v[h] - w[h]
    BY <1>3, <1>7
  <1>9. SumOn(net, H) = SumOn(v, H) - SumOn(w, H)
    BY <1>8, SumLess
  <1>10. \A h \in H : net[h] \in Int
    BY <1>8
  <1> QED BY <1>7, <1>9, <1>10 DEF I, E

\* The sizes of the balances, cards apart, differ by what the balances add up to.
LEMMA SidesDiffer ==
    ASSUME NEW A, IsFiniteSet(A), NEW C \in SUBSET A, NEW net, \A a \in A : net[a] \in Int,
           NEW size, \A a \in A : size[a] = Size(net[a]),
           \A a \in C : net[a] <= 0, \A a \in A \ C : net[a] >= 0
    PROVE  SumOn(size, A \ C) - SumOn(size, C) = SumOn(net, A)
  <1> DEFINE D == A \ C
             zero == [a \in C |-> 0]
  <1>1. /\ IsFiniteSet(C) /\ IsFiniteSet(D) /\ D \cap C = {} /\ D \cup C = A
        /\ \A a \in D \cup C : net[a] \in Int
    BY FS_Subset
  <1>2. \A a \in D : size[a] = net[a]
    BY DEF Size
  <1>3. \A a \in C : zero[a] = 0
    OBVIOUS
  <1>4. \A a \in C : size[a] = 0 - net[a] /\ net[a] \in Int
    BY DEF Size
  <1> HIDE DEF D, zero
  <1>5. SumOn(net, A) = SumOn(net, D) + SumOn(net, C)
    <2>1. SumOn(net, D \cup C) = SumOn(net, D) + SumOn(net, C)
      BY <1>1, SumTwo
    <2> QED BY <1>1, <2>1
  <1>6. SumOn(size, D) = SumOn(net, D)
    BY <1>1, <1>2, SumSame
  <1>7. SumOn(zero, C) = 0
    BY <1>1, <1>3, SumZero
  <1>8. \A a \in C : zero[a] \in Int /\ net[a] \in Int /\ size[a] = zero[a] - net[a]
    BY <1>3, <1>4
  <1>9. SumOn(size, C) = SumOn(zero, C) - SumOn(net, C)
    BY <1>1, <1>8, SumLess
  <1>10. SumOn(net, D) \in Int /\ SumOn(net, C) \in Int
    BY <1>1, SumInt
  <1>11. SumOn(size, D) - SumOn(size, C) = SumOn(net, A)
    BY <1>5, <1>6, <1>7, <1>9, <1>10
  <1> QED BY <1>11 DEF D

\* The balance sheet is what all months leave, when every transaction's account
\* is listed, no account is overdrawn and no card in credit.
LEMMA SheetIsMonths ==
    ASSUME NEW txs, Charted(txs), NEW listed, IsFiniteSet(DOMAIN listed),
           \A t \in DOMAIN txs : txs[t].account \in DOMAIN listed,
           \A a \in DOMAIN listed :
              IF listed[a] = "credit_card" THEN BalanceOf(txs, a) <= 0
                                             ELSE BalanceOf(txs, a) >= 0
    PROVE  SideOf(txs, listed, FALSE) - SideOf(txs, listed, TRUE)
             = SumFunction([m \in Months(txs) |-> MonthIncome(txs, m) - MonthExpense(txs, m)])
  <1> DEFINE A == DOMAIN listed
             C == {a \in A : (listed[a] = "credit_card") = TRUE}
             D == {a \in A : (listed[a] = "credit_card") = FALSE}
             net == [a \in A |-> BalanceOf(txs, a)]
             size == [a \in A |-> Size(BalanceOf(txs, a))]
             cards == [a \in C |-> Size(BalanceOf(txs, a))]
             others == [a \in D |-> Size(BalanceOf(txs, a))]
             key == [t \in DOMAIN txs |-> txs[t].account]
             M == Months(txs)
             left == [m \in M |-> MonthIncome(txs, m) - MonthExpense(txs, m)]
             month == [t \in DOMAIN txs |-> txs[t].month]
  <1>1. /\ SideOf(txs, listed, FALSE) = SumOn(others, D)
        /\ SideOf(txs, listed, TRUE) = SumOn(cards, C)
        /\ SumFunction(left) = SumOn(left, M)
    <2>1. /\ SumFunction(others) = SumOn(others, D) /\ SumFunction(cards) = SumOn(cards, C)
          /\ SumFunction(left) = SumOn(left, M)
      BY SumFunctionIs
    <2> QED BY <2>1 DEF SideOf
  <1>2. \A a \in A : net[a] = NetOf(txs, key, a)
    <2>1. \A a \in A : /\ Rows(txs, LAMBDA x : x.account = a /\ Income(x))
                            = {t \in Incomes(txs) : key[t] = a}
                       /\ Rows(txs, LAMBDA x : x.account = a /\ NotIncome(x))
                            = {t \in Outgoings(txs) : key[t] = a}
      BY DEF Rows, Income, NotIncome, Incomes, Outgoings
    <2> QED BY <2>1 DEF BalanceOf, NetOf
  <1>3. \A m \in M : left[m] = NetOf(txs, month, m)
    <2>1. \A m \in M : /\ Rows(txs, LAMBDA x : InMonth(x, m) /\ Income(x))
                            = {t \in Incomes(txs) : month[t] = m}
                       /\ Rows(txs, LAMBDA x : InMonth(x, m) /\ NotIncome(x))
                            = {t \in Outgoings(txs) : month[t] = m}
      BY DEF Rows, Income, NotIncome, InMonth, Incomes, Outgoings
    <2> QED BY <2>1 DEF MonthIncome, MonthExpense, NetOf
  <1>4. /\ \A t \in DOMAIN txs : key[t] \in A
        /\ \A a \in A : size[a] = Size(net[a])
        /\ D = A \ C /\ C \in SUBSET A
        /\ \A a \in C : net[a] <= 0 /\ cards[a] = size[a]
        /\ \A a \in D : net[a] >= 0 /\ others[a] = size[a]
    OBVIOUS
  <1>5. IsFiniteSet(M) /\ \A t \in DOMAIN txs : month[t] \in M
    <2>1. \A t \in DOMAIN txs : month[t] = txs[t].month
      OBVIOUS
    <2> HIDE DEF M, month
    <2> QED BY <2>1, KeysFinite DEF M
  <1>6. IsFiniteSet(A)
    OBVIOUS
  <1> HIDE DEF A, C, D, net, size, cards, others, key, M, left, month
  <1>7. /\ SumOn(net, A) = Amount(txs, Incomes(txs)) - Amount(txs, Outgoings(txs))
        /\ \A a \in A : net[a] \in Int
    BY <1>2, <1>4, <1>6, NetByKey
  <1>8. SumOn(left, M) = Amount(txs, Incomes(txs)) - Amount(txs, Outgoings(txs))
    BY <1>3, <1>5, NetByKey
  <1>9. SumOn(size, A \ C) - SumOn(size, C) = SumOn(net, A)
    BY <1>4, <1>6, <1>7, SidesDiffer
  <1>10. IsFiniteSet(C) /\ IsFiniteSet(D)
    BY <1>4, <1>6, FS_Subset
  <1>11. SumOn(cards, C) = SumOn(size, C) /\ SumOn(others, D) = SumOn(size, D)
    BY <1>4, <1>10, SumSame
  <1>12. SideOf(txs, listed, FALSE) - SideOf(txs, listed, TRUE) = SumOn(left, M)
    BY <1>1, <1>4, <1>7, <1>8, <1>9, <1>11
  <1> QED BY <1>1, <1>12 DEF left, M

\* The totals of this month over some of a table's transactions are the table's
\* when none of this month is missing.
LEMMA TotalsOfPart ==
    ASSUME NEW all, NEW S \in SUBSET DOMAIN all, NEW txs, txs = [t \in S |-> all[t]],
           \A t \in DOMAIN all : all[t].month = Now => t \in S
    PROVE  TotalIncome(txs) = TotalIncome(all) /\ TotalExpense(txs) = TotalExpense(all)
  <1> DEFINE I == Rows(all, LAMBDA x : InMonth(x, Now) /\ Income(x))
             E == Rows(all, LAMBDA x : InMonth(x, Now) /\ x.type = "expense")
  <1>1. /\ Rows(txs, LAMBDA x : InMonth(x, Now) /\ Income(x)) = I
        /\ Rows(txs, LAMBDA x : InMonth(x, Now) /\ x.type = "expense") = E
    BY DEF Rows, InMonth, Income
  <1>2. I \subseteq S /\ E \subseteq S
    BY DEF Rows, InMonth
  <1>3. \A T \in SUBSET S : Amount(txs, T) = Amount(all, T)
    <2> SUFFICES ASSUME NEW T \in SUBSET S PROVE Amount(txs, T) = Amount(all, T)
      OBVIOUS
    <2>1. \A t \in T : txs[t].amount = all[t].amount
      OBVIOUS
    <2>2. [t \in T |-> txs[t].amount] = [t \in T |-> all[t].amount]
      BY ONLY <2>1
    <2> QED BY ONLY <2>2 DEF Amount
  <1> QED BY <1>1, <1>2, <1>3 DEF TotalIncome, TotalExpense

\* A list within the server's bound has every transaction of this month and
\* later when those are within it.
LEMMA ListedHasNow ==
    ASSUME NEW all, Charted(all), NEW S \in Listed(all),
           Cardinality(Rows(all, LAMBDA x : x.month >= Now)) <= ListLimit,
           NEW u \in DOMAIN all, all[u].month = Now
    PROVE  u \in S
  <1> SUFFICES ASSUME u \notin S PROVE FALSE
    OBVIOUS
  <1> DEFINE A == DOMAIN all
             R == Rows(all, LAMBDA x : x.month >= Now)
  <1>1. /\ S \in SUBSET A
        /\ Cardinality(S) = IF Cardinality(A) < ListLimit THEN Cardinality(A) ELSE ListLimit
        /\ \A t \in S : all[t].month >= all[u].month
    BY DEF Listed
  <1>2. R \in SUBSET A /\ S \cup {u} \in SUBSET R
    BY <1>1, DashboardAssumption DEF Rows, Charted
  <1>3. IsFiniteSet(A) /\ u \in A
    BY DEF Charted
  <1> HIDE DEF A, R
  <1>4. /\ IsFiniteSet(S) /\ IsFiniteSet(R) /\ Cardinality(S) \in Nat /\ Cardinality(R) \in Nat
        /\ Cardinality(A) \in Nat
    BY <1>1, <1>2, <1>3, FS_Subset, FS_CardinalityType
  <1>5. Cardinality(S) # Cardinality(A)
    BY <1>1, <1>3, FS_Subset
  <1>6. Cardinality(S \cup {u}) = Cardinality(S) + 1
    BY <1>4, FS_AddElement
  <1>7. Cardinality(S \cup {u}) <= Cardinality(R)
    BY <1>2, <1>4, FS_Subset
  <1>8. Cardinality(R) <= ListLimit
    BY DEF R
  <1> QED BY <1>1, <1>4, <1>5, <1>6, <1>7, <1>8, DashboardAssumption

-----------------------------------------------------------------------------
(* The calls of the dashboard and the tables                               *)

\* The tables: finitely many typed transactions, each of an account.
HomeTyped(h) ==
    /\ {"txs", "accounts", "budgets"} \subseteq DOMAIN h
    /\ Charted(h.txs) /\ IsFiniteSet(DOMAIN h.accounts)
    /\ \A t \in DOMAIN h.txs : h.txs[t].account \in DOMAIN h.accounts

\* What the page has of unchanged tables: a list of their transactions, or
\* nothing because a call failed.
OfTables ==
    \/ \E S \in Listed(home.txs) : view.txs = [t \in S |-> home.txs[t]]
    \/ DOMAIN view.txs = {} /\ view.accounts # NotRead /\ DOMAIN view.accounts = {}

\* The inductive invariant.
DashboardInv ==
    /\ HomeTyped(home) /\ homeEdits \in Nat
    /\ {"txs", "accounts", "budgets"} \subseteq DOMAIN view
    /\ view.txs # NotRead => Charted(view.txs)
    /\ view.accounts # NotRead => IsFiniteSet(DOMAIN view.accounts)
    /\ homeEdits = 0 /\ view.txs # NotRead => OfTables

\* Some of a table's transactions are typed as the table's are.
LEMMA PartCharted ==
    ASSUME NEW all, Charted(all), NEW S \in SUBSET DOMAIN all
    PROVE  Charted([t \in S |-> all[t]])
  BY FS_Subset DEF Charted

\* A page and tables that satisfy the invariant add up.
LEMMA AddsFollows == DashboardInv => DashboardAdds
  <1> SUFFICES ASSUME DashboardInv, NotRead \notin {view.txs, view.accounts, view.budgets}
               PROVE  DashboardAdds
    BY DEF DashboardAdds
  <1> DEFINE txs == view.txs
  <1>1. /\ Charted(txs) /\ IsFiniteSet(DOMAIN view.accounts) /\ HomeTyped(home)
        /\ homeEdits = 0 => OfTables
    BY DEF DashboardInv
  <1>2. NoTransfers(txs) => /\ TotalIncome(txs) = MonthIncome(txs, Now)
                            /\ TotalExpense(txs) = MonthExpense(txs, Now)
    BY <1>1, CardsAreBars
  <1>3. SumFunction([c \in Categories(txs, LAMBDA x : TRUE) |-> Spent(txs, c)])
          = TotalExpense(txs)
    BY <1>1, CategoriesAddUp
  <1>4. \A b \in Comparison(txs, view.budgets) :
           (\A t \in DOMAIN txs : txs[t].amount >= 0) => b.actual <= TotalExpense(txs)
    <2> SUFFICES ASSUME \A t \in DOMAIN txs : txs[t].amount >= 0
                 PROVE  \A b \in Comparison(txs, view.budgets) : b.actual <= TotalExpense(txs)
      OBVIOUS
    <2>1. \A c : Spent(txs, c) <= TotalExpense(txs)
      BY <1>1, ActualBounded
    <2> QED BY <2>1 DEF Comparison
  <1>5. (\A c \in MonthCategories(txs) : FlowIn(txs, c) >= 0 /\ FlowOut(txs, c) >= 0) =>
           Drawn([c \in MonthCategories(txs) |-> FlowOut(txs, c)]) + Left(txs)
             = Drawn([c \in MonthCategories(txs) |-> FlowIn(txs, c)])
               + Positive(-(MonthIncome(txs, Now) - MonthExpense(txs, Now)))
    BY <1>1, FlowsBalance
  <1>6. /\ \A t \in DOMAIN txs : txs[t].account \in DOMAIN view.accounts
        /\ \A a \in DOMAIN view.accounts :
              IF view.accounts[a] = "credit_card" THEN BalanceOf(txs, a) <= 0
                                                  ELSE BalanceOf(txs, a) >= 0
        => SideOf(txs, view.accounts, FALSE) - SideOf(txs, view.accounts, TRUE)
             = SumFunction([m \in Months(txs) |-> MonthIncome(txs, m) - MonthExpense(txs, m)])
    BY <1>1, SheetIsMonths
  <1>7. /\ homeEdits = 0 /\ view.accounts = home.accounts
        /\ Cardinality(Rows(home.txs, LAMBDA x : x.month >= Now)) <= ListLimit
        => TotalIncome(txs) = TotalIncome(home.txs) /\ TotalExpense(txs) = TotalExpense(home.txs)
    <2> SUFFICES ASSUME homeEdits = 0, view.accounts = home.accounts,
                        Cardinality(Rows(home.txs, LAMBDA x : x.month >= Now)) <= ListLimit
                 PROVE  /\ TotalIncome(txs) = TotalIncome(home.txs)
                        /\ TotalExpense(txs) = TotalExpense(home.txs)
      OBVIOUS
    <2>1. Charted(home.txs)
      BY <1>1 DEF HomeTyped
    <2>2. CASE \E S \in Listed(home.txs) : txs = [t \in S |-> home.txs[t]]
      <3>1. PICK S \in Listed(home.txs) : txs = [t \in S |-> home.txs[t]]
        BY <2>2
      <3>2. S \in SUBSET DOMAIN home.txs
        BY DEF Listed
      <3>3. \A u \in DOMAIN home.txs : home.txs[u].month = Now => u \in S
        BY <2>1, ListedHasNow
      <3> QED BY <3>1, <3>2, <3>3, TotalsOfPart
    <2>3. CASE DOMAIN txs = {} /\ DOMAIN view.accounts = {}
      <3>1. DOMAIN home.txs = {}
        BY <1>1, <2>3 DEF HomeTyped
      <3>2. /\ Amount(txs, {}) = Amount(home.txs, {})
            /\ Rows(txs, LAMBDA x : InMonth(x, Now) /\ Income(x)) = {}
            /\ Rows(home.txs, LAMBDA x : InMonth(x, Now) /\ Income(x)) = {}
            /\ Rows(txs, LAMBDA x : InMonth(x, Now) /\ x.type = "expense") = {}
            /\ Rows(home.txs, LAMBDA x : InMonth(x, Now) /\ x.type = "expense") = {}
        <4>1. [t \in {} |-> txs[t].amount] = [t \in {} |-> home.txs[t].amount]
          OBVIOUS
        <4> QED BY <2>3, <3>1, <4>1 DEF Amount, Rows
      <3> QED BY <3>2 DEF TotalIncome, TotalExpense
    <2> QED BY <1>1, <2>2, <2>3 DEF OfTables
  <1> QED BY <1>2, <1>3, <1>4, <1>5, <1>6, <1>7 DEF DashboardAdds

\* The tables at first are typed, and the page has nothing.
LEMMA DashboardInitInv == DashboardInit => DashboardInv
  <1> SUFFICES ASSUME DashboardInit PROVE DashboardInv
    OBVIOUS
  <1>1. home \in Homes /\ view = Unread /\ homeEdits = 0
    BY DEF DashboardInit
  <1>2. HomeTyped(home)
    BY <1>1, DashboardAssumption DEF HomeTyped, Charted
  <1>3. /\ {"txs", "accounts", "budgets"} \subseteq DOMAIN view
        /\ view.txs = NotRead /\ view.accounts = NotRead
    BY <1>1 DEF Unread
  <1> QED BY <1>1, <1>2, <1>3 DEF DashboardInv

\* A call brings a list of the transactions, or the accounts, or the budgets,
\* or fails and leaves nothing.
LEMMA CallsKeep ==
    DashboardInv /\ (ReadTransactions \/ ReadAccounts \/ ReadBudgets \/ ReadFails)
      => DashboardInv'
  <1> SUFFICES ASSUME DashboardInv,
                      ReadTransactions \/ ReadAccounts \/ ReadBudgets \/ ReadFails
               PROVE  DashboardInv'
    OBVIOUS
  <1>1. /\ HomeTyped(home) /\ homeEdits \in Nat
        /\ {"txs", "accounts", "budgets"} \subseteq DOMAIN view
        /\ view.txs # NotRead => Charted(view.txs)
        /\ view.accounts # NotRead => IsFiniteSet(DOMAIN view.accounts)
        /\ homeEdits = 0 /\ view.txs # NotRead => OfTables
    BY DEF DashboardInv
  <1>2. UNCHANGED <<home, homeEdits>>
    BY DEF ReadTransactions, ReadAccounts, ReadBudgets, ReadFails
  <1>3. CASE ReadTransactions
    <2>1. PICK S \in Listed(home.txs) : view' = [view EXCEPT !.txs = [t \in S |-> home.txs[t]]]
      BY <1>3 DEF ReadTransactions
    <2>2. /\ view'.txs = [t \in S |-> home.txs[t]] /\ view'.accounts = view.accounts
          /\ DOMAIN view' = DOMAIN view
      BY <1>1, <2>1
    <2>3. S \in SUBSET DOMAIN home.txs
      BY DEF Listed
    <2>4. Charted(view'.txs)
      BY <1>1, <2>2, <2>3, PartCharted DEF HomeTyped
    <2>5. OfTables'
      BY <1>2, <2>1, <2>2 DEF OfTables
    <2> QED BY <1>1, <1>2, <2>2, <2>4, <2>5 DEF DashboardInv
  <1>4. CASE ReadAccounts
    <2>1. /\ view'.accounts = home.accounts /\ view'.txs = view.txs
          /\ DOMAIN view' = DOMAIN view /\ view.accounts = NotRead
      BY <1>1, <1>4 DEF ReadAccounts
    <2>2. IsFiniteSet(DOMAIN view'.accounts)
      BY <1>1, <2>1 DEF HomeTyped
    <2>3. OfTables => OfTables'
      BY <1>2, <2>1 DEF OfTables
    <2> QED BY <1>1, <1>2, <2>1, <2>2, <2>3 DEF DashboardInv
  <1>5. CASE ReadBudgets
    <2>1. /\ view'.accounts = view.accounts /\ view'.txs = view.txs
          /\ DOMAIN view' = DOMAIN view
      BY <1>1, <1>5 DEF ReadBudgets
    <2>2. OfTables => OfTables'
      BY <1>2, <2>1 DEF OfTables
    <2> QED BY <1>1, <1>2, <2>1, <2>2 DEF DashboardInv
  <1>6. CASE ReadFails
    <2>1. /\ DOMAIN view' = {"txs", "accounts", "budgets"}
          /\ view'.txs = [t \in {} |-> NotRead] /\ view'.accounts = [t \in {} |-> NotRead]
      BY <1>6 DEF ReadFails
    <2>2. DOMAIN view'.txs = {} /\ DOMAIN view'.accounts = {} /\ view'.txs = view'.accounts
      BY <2>1
    <2>3. Charted(view'.txs) /\ IsFiniteSet(DOMAIN view'.accounts)
      BY <2>2, FS_EmptySet DEF Charted
    <2>4. view'.txs # NotRead => OfTables'
      BY <2>2 DEF OfTables
    <2> QED BY <1>1, <1>2, <2>1, <2>3, <2>4 DEF DashboardInv
  <1> QED BY <1>3, <1>4, <1>5, <1>6

\* A change of the tables leaves them typed, and counts.
LEMMA EditsKeep ==
    DashboardInv /\ (\/ \E t \in DOMAIN home.txs : RemoveTransaction(t)
                     \/ \E a \in DOMAIN home.accounts : RemoveAccount(a)
                     \/ \E x \in Additions : AddTransaction(x))
      => DashboardInv'
  <1> SUFFICES ASSUME DashboardInv,
                      \/ \E t \in DOMAIN home.txs : RemoveTransaction(t)
                      \/ \E a \in DOMAIN home.accounts : RemoveAccount(a)
                      \/ \E x \in Additions : AddTransaction(x)
               PROVE  DashboardInv'
    OBVIOUS
  <1>1. /\ HomeTyped(home) /\ homeEdits \in Nat
        /\ {"txs", "accounts", "budgets"} \subseteq DOMAIN view
        /\ view.txs # NotRead => Charted(view.txs)
        /\ view.accounts # NotRead => IsFiniteSet(DOMAIN view.accounts)
    BY DEF DashboardInv
  <1>2. homeEdits' = homeEdits + 1 /\ view' = view
    BY DEF RemoveTransaction, RemoveAccount, AddTransaction, Edited
  <1>3. /\ {"txs", "accounts", "budgets"} \subseteq DOMAIN home
        /\ Charted(home.txs) /\ IsFiniteSet(DOMAIN home.accounts)
        /\ \A t \in DOMAIN home.txs : home.txs[t].account \in DOMAIN home.accounts
    BY <1>1 DEF HomeTyped
  <1>4. HomeTyped(home')
    <2>1. ASSUME NEW t \in DOMAIN home.txs, RemoveTransaction(t)
          PROVE  HomeTyped(home')
      <3> DEFINE S == DOMAIN home.txs \ {t}
      <3>1. /\ home'.txs = [u \in S |-> home.txs[u]] /\ home'.accounts = home.accounts
            /\ DOMAIN home' = DOMAIN home
        BY <1>3, <2>1 DEF RemoveTransaction, Edited
      <3>2. Charted(home'.txs)
        BY <1>3, <3>1, PartCharted
      <3> QED BY <1>3, <3>1, <3>2 DEF HomeTyped
    <2>2. ASSUME NEW a \in DOMAIN home.accounts, RemoveAccount(a)
          PROVE  HomeTyped(home')
      <3> DEFINE S == {t \in DOMAIN home.txs : home.txs[t].account # a}
                 B == DOMAIN home.accounts \ {a}
      <3>1. /\ home'.txs = [u \in S |-> home.txs[u]]
            /\ home'.accounts = [b \in B |-> home.accounts[b]]
            /\ DOMAIN home' = DOMAIN home
        BY <1>3, <2>2 DEF RemoveAccount, Edited
      <3>2. Charted(home'.txs) /\ IsFiniteSet(B)
        BY <1>3, <3>1, PartCharted, FS_Subset
      <3> QED BY <1>3, <3>1, <3>2 DEF HomeTyped
    <2>3. ASSUME NEW x \in Additions, AddTransaction(x)
          PROVE  HomeTyped(home')
      <3> DEFINE new == 1 + Cardinality(DOMAIN home.txs)
                 S == DOMAIN home.txs \cup {new}
      <3>1. /\ home'.txs = [t \in S |-> IF t = new THEN x ELSE home.txs[t]]
            /\ home'.accounts = home.accounts /\ DOMAIN home' = DOMAIN home
            /\ x.account \in DOMAIN home.accounts
        BY <1>3, <2>3 DEF AddTransaction, Edited
      <3> HIDE DEF new
      <3>2. IsFiniteSet(S)
        BY <1>3, FS_AddElement DEF Charted
      <3>3. Charted(home'.txs)
        BY <1>3, <3>1, <3>2, DashboardAssumption DEF Charted
      <3> QED BY <1>3, <3>1, <3>3 DEF HomeTyped
    <2> QED BY <2>1, <2>2, <2>3
  <1>5. homeEdits' \in Nat /\ homeEdits' # 0
    BY <1>1, <1>2
  <1> QED BY <1>1, <1>2, <1>4, <1>5 DEF DashboardInv

\* The dashboard's parts agree, and its cards are those of the whole table when
\* nothing changed meanwhile, whatever the tables and the order of the calls.
THEOREM DashboardSums == DashboardSpec => []DashboardAdds
  <1>1. DashboardInv /\ [DashboardNext]_dashboardVars => DashboardInv'
    <2>1. DashboardInv /\ UNCHANGED dashboardVars => DashboardInv'
      BY DEF dashboardVars, DashboardInv, OfTables
    <2> QED BY <2>1, CallsKeep, EditsKeep DEF DashboardNext
  <1> QED BY <1>1, DashboardInitInv, AddsFollows, PTL DEF DashboardSpec
==============================================================================
