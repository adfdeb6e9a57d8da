---------------------------- MODULE Assignments ----------------------------
(***************************************************************************)
(* Donors, counterparts and their links to transactions                    *)
(* (admin/src/server/contexts/report): the server actions that create,     *)
(* change, delete and assign them, the import of a donor CSV, and what     *)
(* happens to the transactions meanwhile (a re-import, the delete-all).    *)
(*                                                                         *)
(* Every server action reads, decides and writes in separate statements;   *)
(* only replaceMany and the import's createMany with its upsert run inside *)
(* a database transaction.  What the database itself refuses (the triggers *)
(* on the links, the UNIQUE keys, the foreign keys) makes the statement,   *)
(* and the action with it, fail without effect.                            *)
(*                                                                         *)
(* Donors and counterparts have one table each of the same shape; here one *)
(* table, with a kind.  Name and address are one key.  Occupation and      *)
(* postal code, which no check but the form's reads, are left out.         *)
(***************************************************************************)
EXTENDS AccountCategories, Integers, FiniteSets

CONSTANTS
    Requests,     \* server actions that may be under way at once
    Txs,          \* transaction rows
    LineKinds,    \* what an import writes into a row: [type, cat]
    Keys,         \* name and address of a donor or counterpart
    NoAddress,    \* the keys whose address is NULL
    Files,        \* donor CSV files: sets of [row, tx, key, type]
    Entries,      \* what the forms of donors and counterparts may say
    FirstParties, \* the rows of donors and counterparts at first
    None,         \* no link, no transaction
    MaxParties,   \* bound on donors and counterparts created
    MaxActions,   \* bound on server actions
    MaxImports    \* bound on re-imports of a transaction and delete-alls

VARIABLES
    ledger,     \* transactions: the line of each row, or None
    parties,    \* rows of donors and counterparts, by id
    link,       \* transaction_donors and transaction_counterparts
    request,    \* the server actions under way
    written,    \* history: what others wrote since a request began
    spent       \* ids and bounded events so far

assignmentVars == <<ledger, parties, link, request, written, spent>>

Kinds == {"donor", "counterpart"}
Ids == 1..MaxParties

\* A counterpart has no type.
PartyTypes(kind) == IF kind = "donor" THEN DonorTypes ELSE {"none"}
Party == {p \in [kind : Kinds, key : Keys, type : DonorTypes \cup {"none"}] :
             p.type \in PartyTypes(p.kind)}

ASSUME AssignmentsAssumption ==
    /\ \A l \in LineKinds : l.type \in Types
    /\ NoAddress \subseteq Keys /\ Entries \subseteq Party
    /\ \A f \in FirstParties : \E n \in 0..MaxParties : f \in [1..n -> Party]
    /\ \A f \in Files : /\ IsFiniteSet(f)
                         /\ \A r \in f : /\ r.tx \in Txs /\ r.key \in Keys
                                         /\ r.type \in DonorTypes
    /\ None \notin LineKinds /\ None \notin Nat /\ None \notin Txs
    /\ MaxParties \in Nat /\ MaxActions \in Nat /\ MaxImports \in Nat

Idle == [op |-> "none"]

\* The names of rows in the history: a link by its kind and transaction.
PartyRow(id) == <<"party", id>>
LinksOf(id) == {l \in Kinds \X Txs : link[l[1]][l[2]] = id}

---------------------------------------------------------------------------
(* What the database allows.                                               *)

\* The triggers on the link tables.
Suits(party, line) ==
    IF party.kind = "donor" THEN DonorSuits(line, party.type)
                            ELSE CounterpartSuits(line)

\* Mutant: a trigger that looks at the category alone.
Linkable_AnyType(rows, id, t) ==
    /\ id \in DOMAIN rows /\ ledger[t] # None
    /\ rows[id].kind = "donor" => AllowedDonorTypes(ledger[t].cat) # {}
    /\ rows[id].kind = "counterpart" => CounterpartSuits(ledger[t])

\* A link can be inserted: its foreign keys exist and its trigger agrees.
Linkable(rows, id, t) ==
    id \in DOMAIN rows /\ ledger[t] # None /\ Suits(rows[id], ledger[t])

Alike(p, q) == p.kind = q.kind /\ p.key = q.key /\ p.type = q.type

\* The UNIQUE keys (name, address, donor_type) and (name, address): NULL
\* addresses are distinct.
Unique(rows) ==
    \A i, j \in DOMAIN rows :
        i # j /\ Alike(rows[i], rows[j]) => rows[i].key \in NoAddress

ASSUME FirstPartiesAssumption == \A f \in FirstParties : Unique(f)

SameKey(party) == {i \in DOMAIN parties : Alike(parties[i], party)}
With(rows, id, party) ==
    [i \in DOMAIN rows \cup {id} |-> IF i = id THEN party ELSE rows[i]]

---------------------------------------------------------------------------
(* Requests.                                                               *)

Begin(c, req) ==
    /\ request[c] = Idle /\ spent.actions < MaxActions
    /\ request' = [request EXCEPT ![c] = req]
    /\ written' = [written EXCEPT ![c] = {}]
    /\ spent' = [spent EXCEPT !.actions = @ + 1]
    /\ UNCHANGED <<ledger, parties, link>>

Continue(c, req) ==
    /\ request' = [request EXCEPT ![c] = req]
    /\ UNCHANGED <<ledger, parties, link, written, spent>>

\* An answer without effect: a refusal, or a statement the database refused.
Refuse(c) == Continue(c, Idle)

\* The last statement of a request: what it wrote is news to the others.
Finish(c, items) ==
    /\ request' = [request EXCEPT ![c] = Idle]
    /\ written' = [d \in Requests |-> IF d = c THEN {} ELSE written[d] \cup items]
    /\ UNCHANGED ledger

\* The connection is lost, the server stops, or a write of another request to
\* the same rows makes this one fail: its transaction is rolled back.
Abort(c) == request[c] # Idle /\ Refuse(c)

At(c, op, pc) == request[c] # Idle /\ request[c].op = op /\ request[c].pc = pc

---------------------------------------------------------------------------
(* Assigning.                                                              *)

\* BulkAssignDonor and BulkAssignCounterpart: findById.
AssignBegin(c, id, T) ==
    /\ id \in DOMAIN parties /\ T # {}
    /\ Begin(c, [op |-> "assign", pc |-> "check", id |-> id,
                 party |-> parties[id], txs |-> T])

\* A donor: all transactions must exist and allow the type just read.  A
\* counterpart: the transactions that exist are taken, if any.
AssignCheck(c) ==
    /\ At(c, "assign", "check")
    /\ LET r == request[c]
           existing == {t \in r.txs : ledger[t] # None}
           allowed == IF r.party.kind = "donor"
                      THEN /\ existing = r.txs
                           /\ \A t \in existing :
                                 r.party.type \in AllowedDonorTypes(ledger[t].cat)
                      ELSE existing # {}
       IN  IF allowed
           THEN Continue(c, [r EXCEPT !.pc = "write", !.txs = existing])
           ELSE Refuse(c)

\* replaceMany: all links or none.
AssignWrite(c) ==
    /\ At(c, "assign", "write")
    /\ LET r == request[c]
           k == r.party.kind
       IN  IF \A t \in r.txs : Linkable(parties, r.id, t)
           THEN /\ link' = [link EXCEPT ![k] =
                              [t \in Txs |-> IF t \in r.txs THEN r.id ELSE @[t]]]
                /\ Finish(c, {<<k, t>> : t \in r.txs})
                /\ UNCHANGED <<parties, spent>>
           ELSE Refuse(c)

\* BulkUnassignCounterpart: one statement.
Unassign(T) ==
    /\ T # {} /\ spent.actions < MaxActions
    /\ link' = [link EXCEPT !["counterpart"] =
                  [t \in Txs |-> IF t \in T THEN None ELSE @[t]]]
    /\ written' = [d \in Requests |-> written[d] \cup ({"counterpart"} \X T)]
    /\ spent' = [spent EXCEPT !.actions = @ + 1]
    /\ UNCHANGED <<ledger, parties, request>>

---------------------------------------------------------------------------
(* Donors and counterparts.                                                *)

\* Mutant: the INSERT relies on the UNIQUE key alone.
CreateBegin_Unchecked(c, party) ==
    Begin(c, [op |-> "create", pc |-> "write", party |-> party])

\* CreateDonor and CreateCounterpart: refused if a row with the key exists.
CreateBegin(c, party) ==
    /\ SameKey(party) = {}
    /\ Begin(c, [op |-> "create", pc |-> "write", party |-> party])

CreateWrite(c) ==
    /\ At(c, "create", "write")
    /\ LET id == spent.ids + 1
           rows == With(parties, id, request[c].party)
       IN  IF Unique(rows)
           THEN /\ id \in Ids
                /\ parties' = rows
                /\ spent' = [spent EXCEPT !.ids = id]
                /\ Finish(c, {PartyRow(id)})
                /\ UNCHANGED link
           ELSE Refuse(c)

\* UpdateDonor and UpdateCounterpart: findById; the columns of the form are
\* laid over the row just read.
UpdateBegin(c, id, party) ==
    /\ id \in DOMAIN parties /\ party.kind = parties[id].kind
    /\ Begin(c, [op |-> "update", id |-> id, party |-> party,
                 pc |-> IF party = parties[id] THEN "write" ELSE "check"])

\* findFirst of the new key: another row than this one refuses the update.
UpdateCheck(c) ==
    /\ At(c, "update", "check")
    /\ LET r == request[c]
       IN  \/ /\ SameKey(r.party) \subseteq {r.id} \/ r.id \in SameKey(r.party)
              /\ Continue(c, [r EXCEPT !.pc = "write"])
           \/ /\ SameKey(r.party) \ {r.id} # {}
              /\ Refuse(c)

\* update: fails when the row is gone or the key is taken.  The links of the
\* row are not looked at.
UpdateWrite(c) ==
    /\ At(c, "update", "write")
    /\ LET r == request[c]
       IN  IF r.id \in DOMAIN parties /\ Unique(With(parties, r.id, r.party))
           THEN /\ parties' = With(parties, r.id, r.party)
                /\ Finish(c, {PartyRow(r.id)})
                /\ UNCHANGED <<link, spent>>
           ELSE Refuse(c)

\* DeleteDonor and DeleteCounterpart: findById, then the count of links.
DeleteBegin(c, id) ==
    /\ id \in DOMAIN parties
    /\ Begin(c, [op |-> "delete", pc |-> "count", id |-> id])

\* Mutant: the count is skipped, as with checkUsage = false.
DeleteCount_Unchecked(c) ==
    /\ At(c, "delete", "count")
    /\ Continue(c, [request[c] EXCEPT !.pc = "write"])

DeleteCount(c) ==
    /\ At(c, "delete", "count")
    /\ IF LinksOf(request[c].id) = {}
       THEN Continue(c, [request[c] EXCEPT !.pc = "write"])
       ELSE Refuse(c)

\* delete, which cascades to the links; an error when the row is gone.
DeleteWrite(c) ==
    /\ At(c, "delete", "write")
    /\ LET id == request[c].id
       IN  IF id \in DOMAIN parties
           THEN /\ parties' = [i \in DOMAIN parties \ {id} |-> parties[i]]
                /\ link' = [k \in Kinds |-> [t \in Txs |->
                              IF link[k][t] = id THEN None ELSE link[k][t]]]
                /\ Finish(c, {PartyRow(id)} \cup LinksOf(id))
                /\ UNCHANGED spent
           ELSE Refuse(c)

---------------------------------------------------------------------------
(* The donor CSV.                                                          *)

DonorOf(r) == [kind |-> "donor", key |-> r.key, type |-> r.type]

\* DonorCsvValidator: a transaction named twice, unknown, or of a category that
\* does not allow the type makes a row invalid.
ValidRows(file, lines) ==
    {r \in file :
        /\ lines[r.tx] # None
        /\ \A q \in file \ {r} : q.tx # r.tx
        /\ r.type \in AllowedDonorTypes(lines[r.tx].cat)}

\* ImportDonorCsv: findByTransactionNosForDonorCsv.
ImportBegin(c, file) ==
    Begin(c, [op |-> "import", pc |-> "match", file |-> file, lines |-> ledger])

\* Mutant: a donor of the same name and address matches whatever its type.
Matching_AnyType(r) ==
    {i \in DOMAIN parties : parties[i].kind = "donor" /\ parties[i].key = r.key}

\* findByMatchCriteriaBatch: the rows of donors a row of the file matches.
Matching(r) == SameKey(DonorOf(r))

\* The map keeps one of several equal donors; no valid row, no import.
ImportMatch(c) ==
    /\ At(c, "import", "match")
    /\ LET valid == ValidRows(request[c].file, request[c].lines)
       IN  IF valid = {} THEN Refuse(c)
           ELSE \E match \in [valid -> DOMAIN parties \cup {None}] :
                  /\ \A r \in valid : IF Matching(r) = {} THEN match[r] = None
                                                          ELSE match[r] \in Matching(r)
                  /\ \A r, q \in valid : DonorOf(r) = DonorOf(q) => match[r] = match[q]
                  /\ Continue(c, [op |-> "import", pc |-> "write", match |-> match])

\* createNewDonors: the donors without a match, each once; createMany gives
\* them the next ids.
Missing(match) == {DonorOf(r) : r \in {q \in DOMAIN match : match[q] = None}}
NewIds(match) == spent.ids + 1 .. spent.ids + Cardinality(Missing(match))
Numbering(match) == CHOOSE f \in [Missing(match) -> NewIds(match)] :
                       \A p, q \in Missing(match) : p # q => f[p] # f[q]
RowsWith(match) ==
    [i \in DOMAIN parties \cup NewIds(match) |->
        IF i \in NewIds(match)
        THEN CHOOSE p \in Missing(match) : Numbering(match)[p] = i
        ELSE parties[i]]

\* buildTransactionDonorPairs.
DonorFor(match, r) ==
    IF match[r] = None THEN Numbering(match)[DonorOf(r)] ELSE match[r]

\* One transaction: createMany of the donors without a match, bulkUpsert of the
\* links; any refusal of the database undoes all of it.
ImportWrite(c) ==
    /\ At(c, "import", "write")
    /\ LET match == request[c].match
           valid == DOMAIN match
           rows == RowsWith(match)
       IN  IF Unique(rows) /\ \A r \in valid : Linkable(rows, DonorFor(match, r), r.tx)
           THEN /\ NewIds(match) \subseteq Ids
                /\ parties' = rows
                /\ link' = [link EXCEPT !["donor"] = [t \in Txs |->
                              IF \E r \in valid : r.tx = t
                              THEN DonorFor(match, CHOOSE r \in valid : r.tx = t) ELSE @[t]]]
                /\ spent' = [spent EXCEPT !.ids = @ + Cardinality(Missing(match))]
                /\ Finish(c, {PartyRow(i) : i \in NewIds(match)}
                                \cup {<<"donor", r.tx>> : r \in valid})
           ELSE Refuse(c)

---------------------------------------------------------------------------
(* The transactions.                                                       *)

\* A save of the bookkeeping import inserts a row or overwrites one; links and
\* flag of an overwritten row stay.
StoreLine(t, l) ==
    /\ spent.imports < MaxImports /\ l # ledger[t]
    /\ ledger' = [ledger EXCEPT ![t] = l]
    /\ spent' = [spent EXCEPT !.imports = @ + 1]
    /\ UNCHANGED <<parties, link, request, written>>

\* DeleteAllTransactions of the organization, which cascades to the links.
DeleteAllTransactions ==
    /\ spent.imports < MaxImports
    /\ ledger' = [t \in Txs |-> None]
    /\ link' = [k \in Kinds |-> [t \in Txs |-> None]]
    /\ written' = [d \in Requests |-> written[d] \cup (Kinds \X Txs)]
    /\ spent' = [spent EXCEPT !.imports = @ + 1]
    /\ UNCHANGED <<parties, request>>

---------------------------------------------------------------------------

AssignmentsInit ==
    /\ ledger \in [Txs -> LineKinds]
    /\ parties \in FirstParties
    /\ link = [k \in Kinds |-> [t \in Txs |-> None]]
    /\ request = [c \in Requests |-> Idle]
    /\ written = [c \in Requests |-> {}]
    /\ spent = [ids |-> Cardinality(DOMAIN parties), actions |-> 0, imports |-> 0]

AssignmentsNext ==
    \/ \E c \in Requests :
         \/ \E id \in DOMAIN parties, T \in SUBSET Txs : AssignBegin(c, id, T)
         \/ AssignCheck(c) \/ AssignWrite(c)
         \/ \E p \in Entries : CreateBegin(c, p)
         \/ CreateWrite(c)
         \/ \E id \in DOMAIN parties, p \in Entries : UpdateBegin(c, id, p)
         \/ UpdateCheck(c) \/ UpdateWrite(c)
         \/ \E id \in DOMAIN parties : DeleteBegin(c, id)
         \/ DeleteCount(c) \/ DeleteWrite(c)
         \/ \E f \in Files : ImportBegin(c, f)
         \/ ImportMatch(c) \/ ImportWrite(c)
         \/ Abort(c)
    \/ \E T \in SUBSET Txs : Unassign(T)
    \/ \E t \in Txs, l \in LineKinds : StoreLine(t, l)
    \/ DeleteAllTransactions

AssignmentsSpec == AssignmentsInit /\ [][AssignmentsNext]_assignmentVars
---------------------------------------------------------------------------
(* Properties.                                                             *)

\* The tables, and the locals of every handler.
AssignmentsTypeOK ==
    /\ ledger \in [Txs -> LineKinds \cup {None}]
    /\ DOMAIN parties \subseteq 1..spent.ids
    /\ \A i \in DOMAIN parties : parties[i] \in Party
    /\ \A k \in Kinds, t \in Txs : link[k][t] # None =>
          /\ ledger[t] # None
          /\ link[k][t] \in DOMAIN parties /\ parties[link[k][t]].kind = k
    /\ Unique(parties)
    /\ \A c \in Requests : request[c] # Idle =>
          /\ request[c].op \in {"assign", "update", "delete"} => request[c].id \in 1..spent.ids
          /\ request[c].op = "import" /\ request[c].pc = "write" =>
                request[c].match \in [DOMAIN request[c].match -> 1..spent.ids \cup {None}]

\* The locals of the five kinds of request.
Assigning == [op : {"assign"}, pc : {"check", "write"}, id : Ids, party : Party,
              txs : SUBSET Txs]
Creating == [op : {"create"}, pc : {"write"}, party : Party]
Updating == [op : {"update"}, pc : {"check", "write"}, id : Ids, party : Party]
Deleting == [op : {"delete"}, pc : {"count", "write"}, id : Ids]
Reading == [op : {"import"}, pc : {"match"}, file : Files,
            lines : [Txs -> LineKinds \cup {None}]]
Matches == UNION {UNION {[V -> Ids \cup {None}] : V \in SUBSET f} : f \in Files}
Importing == [op : {"import"}, pc : {"write"}, match : Matches]
Locals == {Idle} \cup Assigning \cup Creating \cup Updating \cup Deleting
                 \cup Reading \cup Importing
Items == {PartyRow(i) : i \in Ids} \cup (Kinds \X Txs)

Shapes ==
    /\ ledger \in [Txs -> LineKinds \cup {None}]
    /\ parties = [i \in DOMAIN parties |-> parties[i]] /\ DOMAIN parties \subseteq 1..spent.ids
    /\ link \in [Kinds -> [Txs -> Ids \cup {None}]]
    /\ request \in [Requests -> Locals]
    /\ written \in [Requests -> SUBSET Items]
    /\ spent \in [ids : 0..MaxParties, actions : 0..MaxActions, imports : 0..MaxImports]

\* What a request has found out and relies on when it writes holds still, but
\* for the rows that others have written since it began.
Tracked(c) ==
    LET r == request[c]
        Since(i) == PartyRow(i) \in written[c]
    IN  /\ r.op \in {"assign", "update"} =>
              /\ r.id <= spent.ids
              /\ r.id \in DOMAIN parties => parties[r.id].kind = r.party.kind
        /\ r.op = "create" => \A i \in SameKey(r.party) : Since(i)
        /\ r.op = "update" /\ r.pc = "check" /\ r.id \in DOMAIN parties =>
              parties[r.id] # r.party \/ Since(r.id)
        /\ r.op = "update" /\ r.pc = "write" /\ r.id \in DOMAIN parties =>
              \/ parties[r.id] = r.party \/ Since(r.id)
              \/ \A i \in SameKey(r.party) \ {r.id} : Since(i)
        /\ r.op = "delete" =>
              /\ r.id <= spent.ids
              /\ r.pc = "write" => LinksOf(r.id) \subseteq written[c]
        /\ r.op = "import" /\ r.pc = "write" =>
              /\ \A q, s \in DOMAIN r.match : q.tx = s.tx => q = s
              /\ \A q \in DOMAIN r.match : LET i == r.match[q] IN
                    /\ i = None => \A j \in SameKey(DonorOf(q)) : Since(j)
                    /\ i # None => i <= spent.ids
                    /\ i \in DOMAIN parties =>
                          /\ parties[i].kind = "donor"
                          /\ parties[i] = DonorOf(q) \/ Since(i)

\* The inductive invariant.
AssignmentsInv == AssignmentsTypeOK /\ Shapes /\ \A c \in Requests : Tracked(c)

\* A donor or counterpart that does not fit its transaction gets there by an
\* edit of the row or a re-import of the transaction, which look at no link
\* (manage-donor-usecase.ts:143), and never by an assignment or an import,
\* however long ago they looked (assign-donor-usecase.ts:72).
Fits(k, t) == link[k][t] = None \/ Suits(parties[link[k][t]], ledger[t])
UnfitOnlyByEdit ==
    [][\A k \in Kinds, t \in Txs :
        Fits(k, t) /\ ~Fits(k, t)' =>
            /\ link'[k][t] = link[k][t]
            /\ \/ ledger'[t] # ledger[t]
               \/ parties'[link[k][t]] # parties[link[k][t]]]_assignmentVars

\* Deleting a donor or counterpart takes no link with it that was there when
\* the deletion was asked for, only links made since (manage-donor-usecase.ts:171).
DeletionTakesOnlyNewLinks ==
    [][\A c \in Requests :
        At(c, "delete", "write") /\ parties' # parties /\ request'[c] = Idle =>
            \A k \in Kinds, t \in Txs :
                link'[k][t] # link[k][t] => <<k, t>> \in written[c]]_assignmentVars

\* Two rows of the same kind, key and type come about only without an address
\* and only by overlapping requests: one of the two was written after the
\* other's request had begun (manage-donor-usecase.ts:71,
\* import-donor-csv-usecase.ts:113).
DuplicatesOnlyByOverlap ==
    [][\A i, j \in Ids :
        /\ {i, j} \subseteq DOMAIN parties' /\ i < j
        /\ Alike(parties[i], parties[j])'
        /\ ~({i, j} \subseteq DOMAIN parties /\ Alike(parties[i], parties[j]))
        => /\ parties'[i].key \in NoAddress
           /\ \E c \in Requests : request[c] # Idle /\ request'[c] = Idle
                                  /\ written[c] \cap {PartyRow(i), PartyRow(j)} # {}]_assignmentVars

\* A successful import leaves each transaction it took linked to a donor of
\* the name, address and type its row says, unless that donor was changed after
\* the import began, and leaves every other link alone; a failed one changes
\* nothing (import-donor-csv-usecase.ts:87).
ImportLinksAsFiled ==
    [][\A c \in Requests : At(c, "import", "write") /\ request'[c] = Idle =>
        LET valid == DOMAIN request[c].match
            taken == {r.tx : r \in valid}
        IN  \/ UNCHANGED <<ledger, parties, link>>
            \/ /\ \A r \in valid : LET id == link'["donor"][r.tx] IN
                    id # None /\ (parties'[id] = DonorOf(r) \/ PartyRow(id) \in written[c])
               /\ \A k \in Kinds, t \in Txs : link'[k][t] # link[k][t] =>
                    k = "donor" /\ t \in taken]_assignmentVars
=============================================================================
