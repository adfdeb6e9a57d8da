------------------------------- MODULE Ledger -------------------------------
(***************************************************************************)
(* Accounts and transactions of one user: manual entry, CSV import and     *)
(* account maintenance (api/src/services/transaction_service.rs,           *)
(* csv_service.rs and account_service.rs).                                 *)
(*                                                                         *)
(* Every SQL statement commits on its own, so the check for a duplicate    *)
(* and the INSERT that relies on it are two steps, an import is one such   *)
(* pair per line of its file, and the steps of several handlers            *)
(* interleave.  The encryption of the columns is left to KeyVault: here a  *)
(* row is its account and its hash, which determines the rest.             *)
(***************************************************************************)
EXTENDS Integers, Sequences, FiniteSets

CONSTANTS
    Requests,      \* slots for handlers in flight
    Items,         \* what a line says beside its date: amount and description
    Files,         \* CSV files a client may upload, after parsing: sequences
                   \* of lines
    Names,         \* account names
    MaxAccounts,   \* bound on accounts ever created
    MaxWrites,     \* bound on requests that may insert transactions
    MaxAborts      \* bound on handlers that end early

VARIABLES
    accounts,      \* rows of accounts
    transactions,  \* rows of transactions
    req,           \* the handlers in flight
    drawn          \* ids drawn, requests begun and handlers aborted so far

vars == <<accounts, transactions, req, drawn>>

\* The parsers keep the digits of a date as the bank wrote them: with leading
\* zeros, without, or not a date at all.
Forms == {"padded", "short", "bad"}
Line == [date : Forms, item : Items]

ASSUME LedgerAssumption ==
    /\ IsFiniteSet(Requests)
    /\ Files \subseteq Seq(Line)
    /\ MaxAccounts \in Nat /\ MaxWrites \in Nat /\ MaxAborts \in Nat

\* generate_hash, twice in the code: over the text of the date as it came, the
\* amount and the description.
Hash(line) == <<line.date, line.item>>

\* NaiveDate::parse_from_str takes digits with and without leading zeros.
ValidDate(line) == line.date # "bad"

Stored(h) == \E t \in transactions : t.hash = h

AccountIds == {a.id : a \in accounts}

Idle == [pc |-> "idle", account |-> 0, todo |-> <<>>,
         row |-> [id |-> 0, name |-> "none", is_active |-> TRUE]]

Set(p, r) == req' = [req EXCEPT ![p] = r]
Done(p) == Set(p, Idle)
At(p, pc) == req[p].pc = pc
Current(p) == Head(req[p].todo)

-----------------------------------------------------------------------------
(* Transactions                                                            *)

\* A request that may insert begins.
Begun == /\ drawn.write < MaxWrites
         /\ drawn' = [drawn EXCEPT !.write = @ + 1]

\* create_transaction up to its INSERT.  The date arrives as a date, so its
\* text is the padded one.  A duplicate is refused with 409.
CreateTransactionCheck(p, a, item) ==
    LET line == [date |-> "padded", item |-> item]
    IN /\ At(p, "idle")
       /\ ~Stored(Hash(line))
       /\ Set(p, [Idle EXCEPT !.pc = "create", !.account = a, !.todo = <<line>>])
       /\ Begun
       /\ UNCHANGED <<accounts, transactions>>

\* INSERT INTO transactions for the current line of handler p, if the account
\* is still there.
InsertRow(p) ==
    /\ req[p].account \in AccountIds
    /\ drawn' = [drawn EXCEPT !.row = @ + 1]
    /\ transactions' = transactions \cup
         {[id |-> drawn'.row, account_id |-> req[p].account, hash |-> Hash(Current(p))]}

\* The INSERT fails on the foreign key when the account was deleted meanwhile.
AccountGone(p) ==
    /\ req[p].account \notin AccountIds
    /\ UNCHANGED <<transactions, drawn>>

CreateTransactionInsert(p) ==
    /\ At(p, "create")
    /\ InsertRow(p) \/ AccountGone(p)
    /\ Done(p)
    /\ UNCHANGED accounts

\* One statement, by id; deleting what is gone answers 404.
DeleteTransaction(t) ==
    /\ transactions' = transactions \ {t}
    /\ UNCHANGED <<accounts, req, drawn>>

-----------------------------------------------------------------------------
(* POST /api/csv/import                                                    *)

ImportBegin(p, a, file) ==
    /\ At(p, "idle")
    /\ Set(p, [Idle EXCEPT !.pc = "import", !.account = a, !.todo = file])
    /\ Begun
    /\ UNCHANGED <<accounts, transactions>>

\* On to the next line.
Advance(p) == Set(p, [req[p] EXCEPT !.pc = "import", !.todo = Tail(@)])

\* Mutant: a duplicate is met again and again.
ImportCheck_Stuck(p) ==
    /\ At(p, "import")
    /\ \/ req[p].todo = <<>> /\ Done(p)
       \/ /\ req[p].todo # <<>>
          /\ Stored(Hash(Current(p)))
          /\ UNCHANGED req
       \/ /\ req[p].todo # <<>>
          /\ ~Stored(Hash(Current(p)))
          /\ ValidDate(Current(p))
          /\ Set(p, [req[p] EXCEPT !.pc = "import_insert"])
    /\ UNCHANGED <<accounts, transactions, drawn>>

\* Mutant: a line with an invalid date is skipped.
ImportCheck_SkipsBad(p) ==
    /\ At(p, "import")
    /\ \/ req[p].todo = <<>> /\ Done(p)
       \/ /\ req[p].todo # <<>>
          /\ Stored(Hash(Current(p))) \/ ~ValidDate(Current(p))
          /\ Advance(p)
       \/ /\ req[p].todo # <<>>
          /\ ~Stored(Hash(Current(p)))
          /\ ValidDate(Current(p))
          /\ Set(p, [req[p] EXCEPT !.pc = "import_insert"])
    /\ UNCHANGED <<accounts, transactions, drawn>>

\* Mutant: the date is not parsed.
ImportCheck_AnyDate(p) ==
    /\ At(p, "import")
    /\ \/ req[p].todo = <<>> /\ Done(p)
       \/ /\ req[p].todo # <<>>
          /\ Stored(Hash(Current(p)))
          /\ Advance(p)
       \/ /\ req[p].todo # <<>>
          /\ ~Stored(Hash(Current(p)))
          /\ Set(p, [req[p] EXCEPT !.pc = "import_insert"])
    /\ UNCHANGED <<accounts, transactions, drawn>>

\* Mutant: the duplicate check is left to the client.
ImportCheck_Unchecked(p) ==
    /\ At(p, "import")
    /\ \/ req[p].todo = <<>> /\ Done(p)
       \/ /\ req[p].todo # <<>>
          /\ ValidDate(Current(p))
          /\ Set(p, [req[p] EXCEPT !.pc = "import_insert"])
    /\ UNCHANGED <<accounts, transactions, drawn>>

\* The head of the loop: the end of the file ends the request, a line whose
\* hash is stored is skipped, and an invalid date ends the request with the
\* lines before it already stored.
ImportCheck(p) ==
    /\ At(p, "import")
    /\ \/ req[p].todo = <<>> /\ Done(p)
       \/ /\ req[p].todo # <<>>
          /\ Stored(Hash(Current(p)))
          /\ Advance(p)
       \/ /\ req[p].todo # <<>>
          /\ ~Stored(Hash(Current(p)))
          /\ ~ValidDate(Current(p))
          /\ Done(p)
       \/ /\ req[p].todo # <<>>
          /\ ~Stored(Hash(Current(p)))
          /\ ValidDate(Current(p))
          /\ Set(p, [req[p] EXCEPT !.pc = "import_insert"])
    /\ UNCHANGED <<accounts, transactions, drawn>>

ImportInsert(p) ==
    /\ At(p, "import_insert")
    /\ \/ InsertRow(p) /\ Advance(p)
       \/ AccountGone(p) /\ Done(p)
    /\ UNCHANGED accounts

-----------------------------------------------------------------------------
(* Accounts                                                                *)

CreateAccount(name) ==
    /\ drawn.account < MaxAccounts
    /\ drawn' = [drawn EXCEPT !.account = @ + 1]
    /\ accounts' = accounts \cup
         {[id |-> drawn'.account, name |-> name, is_active |-> TRUE]}
    /\ UNCHANGED <<transactions, req>>

\* The optional fields of the request that the row is overlaid with.
Keep == "keep"
Overlay(a, name, active) ==
    [a EXCEPT !.name = IF name = Keep THEN @ ELSE name,
              !.is_active = IF active = Keep THEN @ ELSE active = "yes"]

\* update_account reads the row and computes every column of the new one.
UpdateAccountRead(p, a, name, active) ==
    /\ At(p, "idle")
    /\ Set(p, [Idle EXCEPT !.pc = "update", !.account = a.id,
                           !.row = Overlay(a, name, active)])
    /\ UNCHANGED <<accounts, transactions, drawn>>

\* The UPDATE writes all four columns; no row is an error (RowNotFound).
UpdateAccountWrite(p) ==
    /\ At(p, "update")
    /\ accounts' = {IF a.id = req[p].account THEN req[p].row ELSE a : a \in accounts}
    /\ Done(p)
    /\ UNCHANGED <<transactions, drawn>>

\* DELETE FROM accounts: the transactions of the account go with it.
DeleteAccount(a) ==
    /\ accounts' = accounts \ {a}
    /\ transactions' = {t \in transactions : t.account_id # a.id}
    /\ UNCHANGED <<req, drawn>>

\* A handler ends early: the client hung up, the database failed or the
\* process restarted.  What it wrote stays written.
Abort(p) ==
    /\ ~At(p, "idle")
    /\ drawn.abort < MaxAborts
    /\ drawn' = [drawn EXCEPT !.abort = @ + 1]
    /\ Done(p)
    /\ UNCHANGED <<accounts, transactions>>

-----------------------------------------------------------------------------
Init ==
    /\ accounts = {} /\ transactions = {}
    /\ req = [p \in Requests |-> Idle]
    /\ drawn = [account |-> 0, row |-> 0, write |-> 0, abort |-> 0]

Begin(p) ==
    \E a \in accounts :
        \/ \E item \in Items : CreateTransactionCheck(p, a.id, item)
        \/ \E file \in Files : ImportBegin(p, a.id, file)
        \/ \E name \in Names \cup {Keep}, active \in {"yes", "no", Keep} :
               UpdateAccountRead(p, a, name, active)

Step(p) ==
    \/ CreateTransactionInsert(p)
    \/ ImportCheck(p) \/ ImportInsert(p)
    \/ UpdateAccountWrite(p)

Next ==
    \/ \E p \in Requests : Begin(p) \/ Step(p) \/ Abort(p)
    \/ \E t \in transactions : DeleteTransaction(t)
    \/ \E name \in Names : CreateAccount(name)
    \/ \E a \in accounts : DeleteAccount(a)

Spec == Init /\ [][Next]_vars

\* The runtime polls every handler that can move: its next statement runs.
Fairness == \A p \in Requests : WF_vars(Step(p))
FairSpec == Spec /\ Fairness

-----------------------------------------------------------------------------
(* Properties                                                              *)

AccountRow == [id : 1..MaxAccounts, name : Names, is_active : BOOLEAN]
HashValue == (Forms \ {"bad"}) \X Items

\* Types; in particular no row carries a date that does not parse, and every
\* row belongs to an account, also when the account goes during an import.
TypeOK ==
    /\ accounts \subseteq AccountRow
    /\ transactions \subseteq [id : Nat \ {0}, account_id : 1..MaxAccounts,
                                hash : HashValue]
    /\ req \in [Requests -> [pc : {"idle", "create", "import", "import_insert", "update"},
                             account : 0..MaxAccounts, todo : Seq(Line),
                             row : AccountRow \cup {Idle.row}]]
    /\ drawn \in [account : 0..MaxAccounts, row : Nat, write : 0..MaxWrites,
                   abort : 0..MaxAborts]
    /\ \A t \in transactions : t.account_id \in AccountIds

\* The handlers that checked for h and found nothing.
Pending(h) ==
    {p \in Requests : /\ req[p].pc \in {"create", "import_insert"}
                      /\ Hash(Current(p)) = h}
RowsOf(h) == {t \in transactions : t.hash = h}

\* Rows that repeat a transaction never exceed the requests in flight at once,
\* however often files are uploaded again, entered by hand, interrupted or
\* deleted: a serial client never stores a duplicate.
DuplicatesBounded ==
    \A h \in HashValue :
        Cardinality(RowsOf(h)) + Cardinality(Pending(h)) <= Cardinality(Requests)

\* What a handler in flight has made sure of: the line it is about to insert
\* has a date, and the row it is about to write back is one of its account.
HandlersReady ==
    \A p \in Requests :
        /\ req[p].pc \in {"create", "import_insert"} =>
              req[p].todo # <<>> /\ ValidDate(Current(p))
        /\ req[p].pc = "update" =>
              req[p].row \in AccountRow /\ req[p].row.id = req[p].account

\* The inductive invariant.
LedgerInv ==
    TypeOK /\ HandlersReady /\ IsFiniteSet(transactions) /\ DuplicatesBounded

\* An import that is still running has left no line of its file behind: it
\* moves past a line only when a row with its hash is stored at that moment.
ImportPassesOnlyStored ==
    [][\A p \in Requests :
          /\ req[p].pc \in {"import", "import_insert"} /\ req'[p].pc = "import"
          /\ req'[p].todo # req[p].todo
          => \E t \in transactions' : t.hash = Hash(Current(p))]_vars

\* Every import request is answered: its loop ends on any file, duplicates
\* and invalid lines included.
ImportEnds ==
    \A p \in Requests :
        req[p].pc \in {"import", "import_insert"} ~> At(p, "idle")

-----------------------------------------------------------------------------
(* What the comments say and the code does not keep                        *)

\* transaction_service.rs, "Check for duplicates", and csv_service.rs, "Skip
\* duplicates": no hash is stored twice.
NoDuplicates == \A t, u \in transactions : t.hash = u.hash => t = u
=============================================================================
