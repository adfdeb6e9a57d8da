---------------------------- MODULE TablesProofs ----------------------------
(***************************************************************************)
(* The links between transactions, donors and counterparts (Assignments),  *)
(* for any transactions, rows, files and requests; the tables behind the   *)
(* public site and what its pages show of them (PublicSite), for any       *)
(* organizations, imports and snapshots; and the deletions of both.        *)
(*                                                                         *)
(* Links.  Every request reads, decides and writes in separate statements. *)
(* What it has read is kept in the invariant as Tracked: it holds still,   *)
(* except for rows that others have written since the request began.  A    *)
(* step of another request is seen by this one as Beside: whatever changes *)
(* is written into its history, and that alone keeps Tracked               *)
(* (BesideKeeps).                                                          *)
(*                                                                         *)
(* Public site.  SiteInv says of every version of the tables that its keys *)
(* fit together and its rows are known, and of a deletion under way that   *)
(* the version it counted in has no transactions of the organization.      *)
(* That the parts of a page agree is then no matter of steps: each part is *)
(* a sum over the lines of one organization, taken apart in its own way.   *)
(***************************************************************************)
EXTENDS Deletions, Sums, SequenceTheorems

\* What the database guarantees of its tables.
Tables ==
    /\ \A i \in DOMAIN parties : parties[i] \in Party
    /\ \A k \in Kinds, t \in Txs : link[k][t] # None =>
          /\ ledger[t] # None
          /\ link[k][t] \in DOMAIN parties /\ parties[link[k][t]].kind = k
    /\ Unique(parties)

\* A step of another request, or of none, as request c sees it.
Beside(c) ==
    /\ request'[c] = request[c]
    /\ spent.ids <= spent'.ids /\ spent'.ids \in Nat
    /\ written[c] \subseteq written'[c]
    /\ \A i \in DOMAIN parties' :
          \/ i \in DOMAIN parties /\ parties'[i] = parties[i]
          \/ /\ PartyRow(i) \in written'[c]
             /\ \/ i \in DOMAIN parties /\ parties'[i].kind = parties[i].kind
                \/ i \in Nat /\ i > spent.ids
    /\ \A k \in Kinds, t \in Txs :
          link'[k][t] \in {link[k][t], None} \/ <<k, t>> \in written'[c]

-----------------------------------------------------------------------------
(* Rows and locals                                                         *)

\* Name, address, type and kind are all there is of a row.
LEMMA AlikeIsEqual ==
    ASSUME NEW p \in Party, NEW q \in Party
    PROVE  Alike(p, q) <=> p = q
  BY DEF Alike, Party

\* What kind of request the fields of one tell.
LEMMA LocalKinds ==
    ASSUME NEW r \in Locals
    PROVE  /\ r = Idle <=> r.op = "none"
           /\ r.op = "assign" => r \in Assigning
           /\ r.op = "create" => r \in Creating
           /\ r.op = "update" => r \in Updating
           /\ r.op = "delete" => r \in Deleting
           /\ r.op = "import" /\ r.pc = "match" => r \in Reading
           /\ r.op = "import" /\ r.pc = "write" => r \in Importing
  BY DEF Locals, Idle, Assigning, Creating, Updating, Deleting, Reading, Importing

\* What the invariant says of the ids, the requests and the tables.
LEMMA InvFacts ==
    ASSUME AssignmentsInv
    PROVE  /\ spent.ids \in Nat /\ spent.ids <= MaxParties /\ MaxParties \in Nat
           /\ \A i \in DOMAIN parties : i \in Nat /\ i <= spent.ids /\ i \in Ids /\ i # None
           /\ \A c \in Requests : request[c] \in Locals /\ Tracked(c)
           /\ Tables
  BY AssignmentsAssumption DEF AssignmentsInv, AssignmentsTypeOK, Shapes, Tables, Ids

\* The lines of a file that were matched with donors are finitely many.
LEMMA MatchTyped ==
    ASSUME NEW m \in Matches
    PROVE  /\ m \in [DOMAIN m -> Ids \cup {None}]
           /\ \E f \in Files : DOMAIN m \subseteq f
           /\ IsFiniteSet(DOMAIN m)
           /\ \A r \in DOMAIN m : /\ r.tx \in Txs /\ DonorOf(r) \in Party
                                  /\ DonorOf(r).kind = "donor"
  <1>1. PICK f \in Files : m \in UNION {[V -> Ids \cup {None}] : V \in SUBSET f}
    BY DEF Matches
  <1>2. PICK V \in SUBSET f : m \in [V -> Ids \cup {None}]
    BY <1>1
  <1>3. DOMAIN m = V /\ m \in [DOMAIN m -> Ids \cup {None}]
    BY <1>2
  <1>4. IsFiniteSet(V)
    BY AssignmentsAssumption, FS_Subset
  <1>5. \A r \in V : r.tx \in Txs /\ DonorOf(r) \in Party /\ DonorOf(r).kind = "donor"
    BY AssignmentsAssumption DEF DonorOf, Party, PartyTypes, Kinds
  <1> QED BY <1>3, <1>4, <1>5

\* The types of the locals are in the shapes and in what is tracked.
LEMMA InvOfParts == Tables /\ Shapes /\ (\A c \in Requests : Tracked(c)) => AssignmentsInv
  <1> SUFFICES ASSUME Tables, Shapes, \A c \in Requests : Tracked(c)
               PROVE  AssignmentsInv
    OBVIOUS
  <1>1. ASSUME NEW c \in Requests, request[c] # Idle
        PROVE  /\ request[c].op \in {"assign", "update", "delete"} => request[c].id \in 1..spent.ids
               /\ request[c].op = "import" /\ request[c].pc = "write" =>
                     request[c].match \in [DOMAIN request[c].match -> 1..spent.ids \cup {None}]
    <2> DEFINE r == request[c]
    <2>1. r \in Locals /\ spent.ids \in Nat
      BY AssignmentsAssumption DEF Shapes
    <2>2. r.op \in {"assign", "update", "delete"} => r.id \in 1..spent.ids
      BY <2>1, LocalKinds DEF Tracked, Assigning, Updating, Deleting, Ids
    <2>3. ASSUME r.op = "import", r.pc = "write"
          PROVE  r.match \in [DOMAIN r.match -> 1..spent.ids \cup {None}]
      <3>1. r.match \in [DOMAIN r.match -> Ids \cup {None}]
        BY <2>1, <2>3, LocalKinds, MatchTyped DEF Importing
      <3>2. \A q \in DOMAIN r.match : r.match[q] # None => r.match[q] <= spent.ids
        BY <2>3 DEF Tracked
      <3> HIDE DEF r
      <3>3. \A q \in DOMAIN r.match : r.match[q] \in 1..spent.ids \cup {None}
        BY <2>1, <3>1, <3>2 DEF Ids
      <3> QED BY <3>1, <3>3
    <2> QED BY <2>2, <2>3
  <1> QED BY <1>1 DEF AssignmentsInv, AssignmentsTypeOK, Shapes, Tables

\* The invariant of the next state from its parts.
LEMMA InvOfPartsNext ==
    Tables' /\ Shapes' /\ (\A c \in Requests : Tracked(c)') => AssignmentsInv'
  <1>1. (Tables /\ Shapes /\ (\A c \in Requests : Tracked(c)) => AssignmentsInv)'
    BY InvOfParts, PTL
  <1> QED BY <1>1

-----------------------------------------------------------------------------
(* What a request knows survives the steps of others                       *)

\* A request beside which nothing it relies on changes keeps its part of the
\* invariant.
LEMMA BesideKeeps ==
    ASSUME AssignmentsInv, NEW c \in Requests, Beside(c)
    PROVE  Tracked(c)'
  <1>0. PICK r : r = request[c]
    OBVIOUS
  <1> DEFINE SinceNext(i) == PartyRow(i) \in written'[c]
  <1>1. request'[c] = r /\ r \in Locals /\ Tracked(c) /\ spent.ids <= spent'.ids
        /\ spent.ids \in Nat
    BY <1>0, InvFacts DEF Beside
  <1>2. \A i \in DOMAIN parties' : i <= spent.ids =>
            /\ i \in DOMAIN parties /\ parties'[i].kind = parties[i].kind
            /\ parties'[i] = parties[i] \/ SinceNext(i)
    BY InvFacts DEF Beside
  <1>3. \A i : PartyRow(i) \in written[c] => SinceNext(i)
    BY DEF Beside
  <1>4. \A p : \A i \in SameKey(p)' : i \in SameKey(p) \/ SinceNext(i)
    BY DEF Beside, SameKey
  <1> HIDE DEF SinceNext
  <1>5. CASE r.op = "assign"
    <2>1. r.id <= spent.ids /\ (r.id \in DOMAIN parties => parties[r.id].kind = r.party.kind)
          /\ r.id \in Nat
      BY <1>0, <1>1, <1>5, LocalKinds DEF Tracked, Assigning, Ids
    <2>2. r.id <= spent'.ids /\ (r.id \in DOMAIN parties' => parties'[r.id].kind = r.party.kind)
      BY <1>0, <1>1, <1>2, <2>1 DEF AssignmentsInv, Shapes, Beside
    <2> QED BY <1>0, <1>1, <1>5, <2>2 DEF Tracked
  <1>6. CASE r.op = "create"
    BY <1>0, <1>1, <1>3, <1>4, <1>6 DEF Tracked, SinceNext, SameKey
  <1>7. CASE r.op = "update"
    <2>1. r.id <= spent.ids /\ r.id \in Nat /\ r.pc \in {"check", "write"}
      BY <1>0, <1>1, <1>7, LocalKinds DEF Tracked, Updating, Ids
    <2>2. r.id \in DOMAIN parties' =>
             r.id \in DOMAIN parties /\ parties'[r.id].kind = r.party.kind
      BY <1>0, <1>1, <1>2, <1>7, <2>1 DEF Tracked
    <2>3. ASSUME r.pc = "check", r.id \in DOMAIN parties'
          PROVE  parties'[r.id] # r.party \/ SinceNext(r.id)
      BY <1>0, <1>1, <1>2, <1>3, <1>7, <2>1, <2>2, <2>3 DEF Tracked
    <2>4. ASSUME r.pc = "write", r.id \in DOMAIN parties'
          PROVE  \/ parties'[r.id] = r.party \/ SinceNext(r.id)
                 \/ \A i \in SameKey(r.party)' \ {r.id} : SinceNext(i)
      <3>1. \/ parties[r.id] = r.party \/ PartyRow(r.id) \in written[c]
            \/ \A i \in SameKey(r.party) \ {r.id} : PartyRow(i) \in written[c]
        BY <1>0, <1>1, <1>7, <2>2, <2>4 DEF Tracked
      <3> QED BY <1>2, <1>3, <1>4, <2>1, <2>4, <3>1
    <2>5. r.id <= spent'.ids
      BY <1>0, <1>1, <2>1, AssignmentsAssumption DEF Beside
    <2> QED BY <1>0, <1>1, <1>7, <2>1, <2>2, <2>3, <2>4, <2>5 DEF Tracked, SinceNext
  <1>8. CASE r.op = "delete"
    <2>1. r.id <= spent.ids /\ r.id \in Ids
      BY <1>0, <1>1, <1>8, LocalKinds DEF Tracked, Deleting
    <2>2. r.id # None
      BY <2>1, AssignmentsAssumption DEF Ids
    <2>3. ASSUME r.pc = "write"
          PROVE  LinksOf(r.id)' \subseteq written'[c]
      <3>1. LinksOf(r.id) \subseteq written[c] /\ written[c] \subseteq written'[c]
        BY <1>0, <1>1, <1>8, <2>3 DEF Tracked, Beside
      <3>2. \A k \in Kinds, t \in Txs : link'[k][t] = r.id => <<k, t>> \in written'[c]
        <4> SUFFICES ASSUME NEW k \in Kinds, NEW t \in Txs, link'[k][t] = r.id
                     PROVE  <<k, t>> \in written'[c]
          OBVIOUS
        <4>1. link[k][t] = r.id => <<k, t>> \in LinksOf(r.id)
          BY DEF LinksOf
        <4> QED BY <2>2, <3>1, <4>1 DEF Beside
      <3>3. \A l \in Kinds \X Txs : l = <<l[1], l[2]>> /\ l[1] \in Kinds /\ l[2] \in Txs
        OBVIOUS
      <3> QED BY <3>2, <3>3 DEF LinksOf
    <2> QED BY <1>0, <1>1, <1>8, <2>1, <2>3 DEF Tracked, Ids, Beside
  <1>9. CASE r.op = "import" /\ r.pc = "write"
    <2>1. r.match \in [DOMAIN r.match -> Ids \cup {None}]
      BY <1>0, <1>1, <1>9, LocalKinds, MatchTyped DEF Importing
    <2>2. ASSUME NEW q \in DOMAIN r.match
          PROVE  /\ r.match[q] = None => \A j \in SameKey(DonorOf(q))' : SinceNext(j)
                 /\ r.match[q] # None => r.match[q] <= spent'.ids
                 /\ r.match[q] \in DOMAIN parties' =>
                       /\ parties'[r.match[q]].kind = "donor"
                       /\ parties'[r.match[q]] = DonorOf(q) \/ SinceNext(r.match[q])
      <3>0. PICK i : i = r.match[q]
        OBVIOUS
      <3>1. /\ i = None => \A j \in SameKey(DonorOf(q)) : PartyRow(j) \in written[c]
            /\ i # None => i <= spent.ids
            /\ i \in DOMAIN parties =>
                  /\ parties[i].kind = "donor"
                  /\ parties[i] = DonorOf(q) \/ PartyRow(i) \in written[c]
        BY <3>0, <1>0, <1>1, <1>9 DEF Tracked
      <3>2. i \in Ids \cup {None}
        BY <2>1, <3>0
      <3>3. i = None => \A j \in SameKey(DonorOf(q))' : SinceNext(j)
        BY <1>3, <1>4, <3>0, <3>1
      <3>4. i # None => i <= spent'.ids
        BY <1>0, <1>1, <3>1, <3>2 DEF Ids, Beside
      <3>5. ASSUME i \in DOMAIN parties'
            PROVE  /\ parties'[i].kind = "donor"
                   /\ parties'[i] = DonorOf(q) \/ SinceNext(i)
        <4>1. i # None => i <= spent.ids
          BY <3>1
        <4>2. CASE i = None
          BY <3>5, <4>2, AssignmentsAssumption, InvFacts DEF Beside
        <4> QED BY <1>2, <1>3, <3>1, <3>5, <4>1, <4>2
      <3> QED BY <3>0, <3>3, <3>4, <3>5
    <2>3. \A q, s \in DOMAIN r.match : q.tx = s.tx => q = s
      BY <1>0, <1>1, <1>9 DEF Tracked
    <2> QED BY <1>0, <1>1, <1>9, <2>2, <2>3 DEF Tracked, SinceNext
  <1>10. CASE r.op = "none" \/ (r.op = "import" /\ r.pc = "match")
    BY <1>0, <1>1, <1>10 DEF Tracked
  <1>11. r.op \in {"none", "assign", "create", "update", "delete", "import"}
         /\ (r.op = "import" => r.pc \in {"match", "write"})
    BY <1>0, <1>1 DEF Locals, Idle, Assigning, Creating, Updating, Deleting, Reading, Importing
  <1> QED BY <1>5, <1>6, <1>7, <1>8, <1>9, <1>10, <1>11

-----------------------------------------------------------------------------
(* The shapes of steps                                                     *)

SpentType == [ids : 0..MaxParties, actions : 0..MaxActions, imports : 0..MaxImports]

\* A request that ended has nothing to keep.
LEMMA IdleTracked ==
    ASSUME NEW c, request'[c] = Idle
    PROVE  Tracked(c)'
  BY DEF Tracked, Idle

\* A request moves, whatever it writes: the others see it beside them.
LEMMA OneMoves ==
    ASSUME AssignmentsInv, NEW c \in Requests, NEW r \in Locals,
           request' = [request EXCEPT ![c] = r], Tracked(c)',
           \A d \in Requests \ {c} : request'[d] = request[d] => Beside(d),
           Tables',
           ledger' \in [Txs -> LineKinds \cup {None}],
           parties' = [i \in DOMAIN parties' |-> parties'[i]],
           DOMAIN parties' \subseteq 1..spent'.ids,
           link' \in [Kinds -> [Txs -> Ids \cup {None}]],
           written' \in [Requests -> SUBSET Items], spent' \in SpentType
    PROVE  AssignmentsInv'
  <1>1. \A d \in Requests \ {c} : request'[d] = request[d]
    BY DEF AssignmentsInv, Shapes
  <1>2. \A d \in Requests : Tracked(d)'
    BY <1>1, BesideKeeps
  <1>3. Shapes'
    BY DEF AssignmentsInv, Shapes, SpentType
  <1> QED BY <1>2, <1>3, InvOfPartsNext

\* A step that writes no row.
LEMMA QuietBeside ==
    ASSUME AssignmentsInv, NEW d \in Requests, request'[d] = request[d],
           UNCHANGED <<parties, link>>, spent'.ids = spent.ids,
           written[d] \subseteq written'[d]
    PROVE  Beside(d)
  BY InvFacts DEF Beside

\* A request begins, goes on or is refused.
LEMMA MoveKeeps ==
    ASSUME AssignmentsInv, NEW c \in Requests, NEW r \in Locals,
           request' = [request EXCEPT ![c] = r], Tracked(c)',
           UNCHANGED <<ledger, parties, link>>,
           written' = written \/ written' = [written EXCEPT ![c] = {}],
           spent' \in SpentType, spent'.ids = spent.ids
    PROVE  AssignmentsInv'
  <1>1. \A d \in Requests \ {c} : written'[d] = written[d]
    BY DEF AssignmentsInv, Shapes
  <1>2. \A d \in Requests \ {c} : request'[d] = request[d] => Beside(d)
    BY <1>1, QuietBeside
  <1>3. Tables'
    BY InvFacts DEF Tables, Unique
  <1>4. written' \in [Requests -> SUBSET Items]
    BY DEF AssignmentsInv, Shapes
  <1> QED BY <1>2, <1>3, <1>4, OneMoves DEF AssignmentsInv, Shapes

\* A request that is refused keeps the invariant.
LEMMA RefuseKeeps ==
    ASSUME AssignmentsInv, NEW c \in Requests, Refuse(c)
    PROVE  AssignmentsInv'
  <1>1. request' = [request EXCEPT ![c] = Idle]
        /\ UNCHANGED <<ledger, parties, link, written, spent>>
    BY DEF Refuse, Continue
  <1>2. request'[c] = Idle /\ Idle \in Locals
    BY <1>1 DEF AssignmentsInv, Shapes, Locals
  <1> QED BY <1>1, <1>2, IdleTracked, MoveKeeps DEF AssignmentsInv, Shapes, SpentType

\* A request that goes on without a write keeps the invariant.
LEMMA ContinueKeeps ==
    ASSUME AssignmentsInv, NEW c \in Requests, NEW r \in Locals, Continue(c, r), Tracked(c)'
    PROVE  AssignmentsInv'
  BY MoveKeeps DEF Continue, AssignmentsInv, Shapes, SpentType

\* A request that begins keeps the invariant.
LEMMA BeginKeeps ==
    ASSUME AssignmentsInv, NEW c \in Requests, NEW r \in Locals, Begin(c, r), Tracked(c)'
    PROVE  AssignmentsInv'
  <1>1. spent' \in SpentType /\ spent'.ids = spent.ids
    BY AssignmentsAssumption DEF Begin, AssignmentsInv, Shapes, SpentType
  <1> QED BY <1>1, MoveKeeps DEF Begin

\* What changes in the tables is among the items written.
Announced(items) ==
    /\ \A i \in DOMAIN parties' :
          \/ i \in DOMAIN parties /\ parties'[i] = parties[i]
          \/ /\ PartyRow(i) \in items
             /\ \/ i \in DOMAIN parties /\ parties'[i].kind = parties[i].kind
                \/ i \in Nat /\ i > spent.ids
    /\ \A k \in Kinds, t \in Txs :
          link'[k][t] \in {link[k][t], None} \/ <<k, t>> \in items

\* A request writes and ends.
LEMMA FinishKeeps ==
    ASSUME AssignmentsInv, NEW c \in Requests, NEW items \in SUBSET Items,
           Finish(c, items), Announced(items), Tables',
           parties' = [i \in DOMAIN parties' |-> parties'[i]],
           DOMAIN parties' \subseteq 1..spent'.ids,
           link' \in [Kinds -> [Txs -> Ids \cup {None}]],
           spent' \in SpentType, spent.ids <= spent'.ids
    PROVE  AssignmentsInv'
  <1>1. /\ request' = [request EXCEPT ![c] = Idle] /\ ledger' = ledger
        /\ written' = [d \in Requests |-> IF d = c THEN {} ELSE written[d] \cup items]
    BY DEF Finish
  <1>2. request'[c] = Idle /\ Idle \in Locals
    BY <1>1 DEF AssignmentsInv, Shapes, Locals
  <1>3. \A d \in Requests \ {c} : written'[d] = written[d] \cup items
    BY <1>1
  <1>4. spent'.ids \in Nat
    BY DEF SpentType
  <1>5. \A d \in Requests \ {c} : request'[d] = request[d] => Beside(d)
    BY <1>3, <1>4 DEF Beside, Announced
  <1>6. written' \in [Requests -> SUBSET Items]
    BY <1>1 DEF AssignmentsInv, Shapes
  <1>7. ledger' \in [Txs -> LineKinds \cup {None}]
    BY <1>1 DEF AssignmentsInv, Shapes
  <1> QED BY <1>1, <1>2, <1>5, <1>6, <1>7, IdleTracked, OneMoves

\* A write beside all requests.
LEMMA OutsideKeeps ==
    ASSUME AssignmentsInv, UNCHANGED <<parties, request>>, Tables',
           ledger' \in [Txs -> LineKinds \cup {None}],
           link' \in [Kinds -> [Txs -> Ids \cup {None}]],
           \A k \in Kinds, t \in Txs : link'[k][t] \in {link[k][t], None},
           written' \in [Requests -> SUBSET Items],
           \A d \in Requests : written[d] \subseteq written'[d],
           spent' \in SpentType, spent'.ids = spent.ids
    PROVE  AssignmentsInv'
  <1>1. \A d \in Requests : Beside(d)
    BY InvFacts DEF Beside
  <1>2. Shapes'
    BY DEF AssignmentsInv, Shapes, SpentType
  <1> QED BY <1>1, <1>2, BesideKeeps, InvOfPartsNext

-----------------------------------------------------------------------------
(* Assigning                                                               *)

\* An assignment that begins keeps the invariant.
LEMMA AssignBeginKeeps ==
    ASSUME AssignmentsInv, NEW c \in Requests, NEW id \in DOMAIN parties, NEW T \in SUBSET Txs,
           AssignBegin(c, id, T)
    PROVE  AssignmentsInv'
  <1>1. PICK r : r = [op |-> "assign", pc |-> "check", id |-> id,
                      party |-> parties[id], txs |-> T]
    OBVIOUS
  <1>2. /\ r.op = "assign" /\ r.id = id /\ r.party = parties[id] /\ r.pc = "check"
        /\ Begin(c, r)
    BY <1>1 DEF AssignBegin
  <1>3. r \in Locals
    BY <1>1, InvFacts DEF Tables, Locals, Assigning
  <1>4. request'[c] = r /\ UNCHANGED parties /\ spent'.ids = spent.ids
    BY <1>2 DEF Begin, AssignmentsInv, Shapes
  <1>5. Tracked(c)'
    BY <1>2, <1>4, InvFacts DEF Tracked
  <1> QED BY <1>2, <1>3, <1>5, BeginKeeps

\* The check of the transactions of an assignment keeps the invariant.
LEMMA AssignCheckKeeps ==
    ASSUME AssignmentsInv, NEW c \in Requests, AssignCheck(c)
    PROVE  AssignmentsInv'
  <1> DEFINE existing == {t \in request[c].txs : ledger[t] # None}
  <1>1. CASE Refuse(c)
    BY <1>1, RefuseKeeps
  <1>2. CASE Continue(c, [request[c] EXCEPT !.pc = "write", !.txs = existing])
    <2>1. PICK r : r = [request[c] EXCEPT !.pc = "write", !.txs = existing]
      OBVIOUS
    <2>2. request[c] \in Assigning
      BY InvFacts, LocalKinds DEF AssignCheck, At
    <2>3. /\ r \in Assigning /\ r.op = "assign" /\ r.id = request[c].id
          /\ r.party = request[c].party
      BY <2>1, <2>2 DEF Assigning
    <2>4. request'[c] = r /\ UNCHANGED <<parties, spent>>
      BY <1>2, <2>1 DEF Continue, AssignmentsInv, Shapes
    <2>5. /\ r.id <= spent.ids
          /\ r.id \in DOMAIN parties => parties[r.id].kind = r.party.kind
      BY <2>2, <2>3, InvFacts DEF Tracked, Assigning
    <2>6. Tracked(c)'
      BY <2>3, <2>4, <2>5 DEF Tracked
    <2>7. r \in Locals
      BY <2>3 DEF Locals
    <2> QED BY <1>2, <2>1, <2>6, <2>7, ContinueKeeps
  <1> QED BY <1>1, <1>2 DEF AssignCheck

AssignedLinks(r) == {<<r.party.kind, t>> : t \in r.txs}

\* What the write of an assignment does if the database agrees.
Assigned(c, r, items) ==
    /\ r \in Assigning /\ r.party.kind \in Kinds
    /\ \A t \in r.txs : Linkable(parties, r.id, t)
    /\ r.txs # {} => parties[r.id].kind = r.party.kind
    /\ link' \in [Kinds -> [Txs -> Ids \cup {None}]]
    /\ \A k \in Kinds, t \in Txs :
          link'[k][t] = IF k = r.party.kind /\ t \in r.txs THEN r.id ELSE link[k][t]
    /\ Finish(c, items)
    /\ UNCHANGED <<parties, spent, ledger>>

\* What the write of an assignment does to the links.
LEMMA AssignEffect ==
    ASSUME AssignmentsInv, NEW c \in Requests, AssignWrite(c), ~Refuse(c),
           NEW r, r = request[c], NEW items, items = AssignedLinks(r)
    PROVE  Assigned(c, r, items)
  <1>1. r \in Assigning
    BY InvFacts, LocalKinds DEF AssignWrite, At
  <1>2. r.party.kind \in Kinds /\ r.id \in Ids /\ r.txs \subseteq Txs
    BY <1>1 DEF Assigning, Party
  <1>3. /\ \A t \in r.txs : Linkable(parties, r.id, t)
        /\ link' = [link EXCEPT ![r.party.kind] =
                       [t \in Txs |-> IF t \in r.txs THEN r.id ELSE @[t]]]
        /\ Finish(c, items)
        /\ UNCHANGED <<parties, spent>>
    BY DEF AssignWrite, AssignedLinks
  <1>4. r.op = "assign" /\ (r.id \in DOMAIN parties => parties[r.id].kind = r.party.kind)
    BY <1>1, InvFacts DEF Tracked, Assigning
  <1>5. r.txs # {} => parties[r.id].kind = r.party.kind
    BY <1>3, <1>4 DEF Linkable
  <1>6. link \in [Kinds -> [Txs -> Ids \cup {None}]]
    BY DEF AssignmentsInv, Shapes
  <1>7. ledger' = ledger
    BY <1>3 DEF Finish
  <1>8. /\ link' \in [Kinds -> [Txs -> Ids \cup {None}]]
        /\ \A k \in Kinds, t \in Txs :
              link'[k][t] = IF k = r.party.kind /\ t \in r.txs THEN r.id ELSE link[k][t]
    BY <1>2, <1>3, <1>6
  <1> QED BY <1>1, <1>2, <1>3, <1>5, <1>7, <1>8 DEF Assigned

\* The write of an assignment keeps the invariant.
LEMMA AssignWriteKeeps ==
    ASSUME AssignmentsInv, NEW c \in Requests, AssignWrite(c)
    PROVE  AssignmentsInv'
  <1>1. CASE Refuse(c)
    BY <1>1, RefuseKeeps
  <1>2. CASE ~Refuse(c)
    <2>1. PICK r : r = request[c]
      OBVIOUS
    <2>2. PICK items : items = AssignedLinks(r)
      OBVIOUS
    <2>3. /\ r.party.kind \in Kinds /\ r.txs \subseteq Txs /\ r.id \in Ids
          /\ \A t \in r.txs : Linkable(parties, r.id, t)
          /\ r.txs # {} => parties[r.id].kind = r.party.kind
          /\ link' \in [Kinds -> [Txs -> Ids \cup {None}]]
          /\ \A k \in Kinds, t \in Txs :
                 link'[k][t] = IF k = r.party.kind /\ t \in r.txs THEN r.id ELSE link[k][t]
          /\ Finish(c, items)
          /\ UNCHANGED <<parties, spent, ledger>>
      <3>1. Assigned(c, r, items)
        BY <1>2, <2>1, <2>2, AssignEffect
      <3>2. r.txs \subseteq Txs /\ r.id \in Ids
        BY <3>1 DEF Assigned, Assigning
      <3> QED BY <3>1, <3>2 DEF Assigned
    <2>4. items \in SUBSET Items
      BY <2>2, <2>3 DEF Items, AssignedLinks
    <2>5. Announced(items)
      BY <2>2, <2>3 DEF Announced, AssignedLinks
    <2>6. Tables'
      <3>1. ASSUME NEW k \in Kinds, NEW t \in Txs, link'[k][t] # None
            PROVE  /\ ledger[t] # None /\ link'[k][t] \in DOMAIN parties
                   /\ parties[link'[k][t]].kind = k
        <4>1. CASE k = r.party.kind /\ t \in r.txs
          BY <2>3, <4>1 DEF Linkable
        <4>2. CASE ~(k = r.party.kind /\ t \in r.txs)
          BY <2>3, <3>1, <4>2, InvFacts DEF Tables
        <4> QED BY <4>1, <4>2
      <3> QED BY <2>3, <3>1, InvFacts DEF Tables, Unique
    <2>8. /\ parties' = [i \in DOMAIN parties' |-> parties'[i]]
          /\ DOMAIN parties' \subseteq 1..spent'.ids
          /\ spent' \in SpentType /\ spent.ids <= spent'.ids
      BY <2>3, InvFacts DEF AssignmentsInv, Shapes, SpentType
    <2> QED BY <2>3, <2>4, <2>5, <2>6, <2>8, FinishKeeps
  <1> QED BY <1>1, <1>2

\* Links that are removed keep the invariant.
LEMMA UnassignKeeps ==
    ASSUME AssignmentsInv, NEW T \in SUBSET Txs, Unassign(T)
    PROVE  AssignmentsInv'
  <1>1. link \in [Kinds -> [Txs -> Ids \cup {None}]] /\ "counterpart" \in Kinds
    BY DEF AssignmentsInv, Shapes, Kinds
  <1>2. /\ link' \in [Kinds -> [Txs -> Ids \cup {None}]]
        /\ \A k \in Kinds, t \in Txs : link'[k][t] \in {link[k][t], None}
    BY <1>1 DEF Unassign
  <1>3. UNCHANGED <<ledger, parties, request>>
    BY DEF Unassign
  <1>4. Tables'
    BY <1>2, <1>3, InvFacts DEF Tables, Unique
  <1>5. /\ written' \in [Requests -> SUBSET Items]
        /\ \A d \in Requests : written[d] \subseteq written'[d]
    BY <1>1 DEF Unassign, AssignmentsInv, Shapes, Items
  <1>6. spent' \in SpentType /\ spent'.ids = spent.ids
    BY AssignmentsAssumption DEF Unassign, AssignmentsInv, Shapes, SpentType
  <1> QED BY <1>2, <1>3, <1>4, <1>5, <1>6, OutsideKeeps DEF AssignmentsInv, Shapes

-----------------------------------------------------------------------------
(* Creating, changing and deleting                                         *)

\* A new party that is checked keeps the invariant.
LEMMA CreateBeginKeeps ==
    ASSUME AssignmentsInv, NEW c \in Requests, NEW p \in Entries, CreateBegin(c, p)
    PROVE  AssignmentsInv'
  <1>1. PICK r : r = [op |-> "create", pc |-> "write", party |-> p]
    OBVIOUS
  <1>2. r.op = "create" /\ r.party = p /\ Begin(c, r)
    BY <1>1 DEF CreateBegin
  <1>3. r \in Locals
    BY <1>1, AssignmentsAssumption DEF Locals, Creating
  <1>4. request'[c] = r /\ UNCHANGED parties
    BY <1>2 DEF Begin, AssignmentsInv, Shapes
  <1>5. \A i \in DOMAIN parties : ~Alike(parties[i], p)
    BY DEF CreateBegin, SameKey
  <1>6. Tracked(c)'
    BY <1>2, <1>4, <1>5 DEF Tracked, SameKey
  <1> QED BY <1>2, <1>3, <1>6, BeginKeeps

\* A row is inserted or overwritten: links to it stay links to its kind.
LEMMA WithKeepsTables ==
    ASSUME AssignmentsInv, NEW id \in Ids, NEW p \in Party, parties' = With(parties, id, p),
           id \in DOMAIN parties => p.kind = parties[id].kind,
           Unique(With(parties, id, p)), UNCHANGED <<ledger, link>>
    PROVE  /\ Tables'
           /\ parties' = [i \in DOMAIN parties' |-> parties'[i]]
           /\ DOMAIN parties' = DOMAIN parties \cup {id}
           /\ parties'[id] = p /\ \A i \in DOMAIN parties : i # id => parties'[i] = parties[i]
  <1>1. /\ parties' = [i \in DOMAIN parties' |-> parties'[i]]
        /\ DOMAIN parties' = DOMAIN parties \cup {id}
        /\ parties'[id] = p
        /\ \A i \in DOMAIN parties : i # id => parties'[i] = parties[i]
    BY DEF With
  <1>2. \A i \in DOMAIN parties : i \in DOMAIN parties' /\ parties'[i].kind = parties[i].kind
    BY <1>1
  <1>3. \A i \in DOMAIN parties' : parties'[i] \in Party
    BY <1>1, InvFacts DEF Tables
  <1>4. Unique(parties)'
    BY DEF Unique
  <1>5. Tables'
    BY <1>2, <1>3, <1>4, InvFacts DEF Tables
  <1> QED BY <1>1, <1>5

\* A new party that is written keeps the invariant.
LEMMA CreateWriteKeeps ==
    ASSUME AssignmentsInv, NEW c \in Requests, CreateWrite(c)
    PROVE  AssignmentsInv'
  <1>1. CASE Refuse(c)
    BY <1>1, RefuseKeeps
  <1>2. CASE ~Refuse(c)
    <2>1. PICK id : id = spent.ids + 1
      OBVIOUS
    <2>2. PICK p : p = request[c].party
      OBVIOUS
    <2>3. /\ Unique(With(parties, id, p)) /\ id \in Ids
          /\ parties' = With(parties, id, p)
          /\ spent' = [spent EXCEPT !.ids = id]
          /\ Finish(c, {PartyRow(id)})
          /\ UNCHANGED link
      BY <1>2, <2>1, <2>2 DEF CreateWrite
    <2>4. p \in Party
      BY <2>2, InvFacts, LocalKinds DEF CreateWrite, At, Creating
    <2>5. id \notin DOMAIN parties /\ UNCHANGED ledger
      BY <2>1, <2>3, InvFacts DEF Finish
    <2>6. /\ Tables'
          /\ parties' = [i \in DOMAIN parties' |-> parties'[i]]
          /\ DOMAIN parties' = DOMAIN parties \cup {id}
          /\ parties'[id] = p /\ \A i \in DOMAIN parties : i # id => parties'[i] = parties[i]
      BY <2>3, <2>4, <2>5, WithKeepsTables
    <2>7. spent' \in SpentType /\ spent'.ids = id
      BY <2>1, <2>3 DEF AssignmentsInv, Shapes, SpentType, Ids
    <2>8. DOMAIN parties' \subseteq 1..spent'.ids /\ spent.ids <= spent'.ids
      BY <2>1, <2>6, <2>7, InvFacts DEF Ids
    <2>9. Announced({PartyRow(id)})
      BY <2>1, <2>3, <2>5, <2>6, InvFacts DEF Announced
    <2>10. {PartyRow(id)} \in SUBSET Items
      BY <2>3 DEF Items
    <2>11. link' \in [Kinds -> [Txs -> Ids \cup {None}]]
      BY <2>3 DEF AssignmentsInv, Shapes
    <2> QED BY <2>3, <2>6, <2>7, <2>8, <2>9, <2>10, <2>11, FinishKeeps
  <1> QED BY <1>1, <1>2

\* A change of a party that is checked keeps the invariant.
LEMMA UpdateBeginKeeps ==
    ASSUME AssignmentsInv, NEW c \in Requests, NEW id \in DOMAIN parties, NEW p \in Entries,
           UpdateBegin(c, id, p)
    PROVE  AssignmentsInv'
  <1>1. PICK r : r = [op |-> "update", id |-> id, party |-> p,
                      pc |-> IF p = parties[id] THEN "write" ELSE "check"]
    OBVIOUS
  <1>2. /\ r.op = "update" /\ r.id = id /\ r.party = p /\ Begin(c, r)
        /\ r.pc = IF p = parties[id] THEN "write" ELSE "check"
        /\ p.kind = parties[id].kind
    BY <1>1 DEF UpdateBegin
  <1>3. r \in Locals
    BY <1>1, AssignmentsAssumption, InvFacts DEF Locals, Updating
  <1>4. request'[c] = r /\ UNCHANGED parties /\ spent'.ids = spent.ids
    BY <1>2 DEF Begin, AssignmentsInv, Shapes
  <1>5. Tracked(c)'
    BY <1>2, <1>4, InvFacts DEF Tracked
  <1> QED BY <1>2, <1>3, <1>5, BeginKeeps

\* The check has seen no other row of the key, or the row itself has had it
\* since the request began.
LEMMA UpdateCheckKeeps ==
    ASSUME AssignmentsInv, NEW c \in Requests, UpdateCheck(c)
    PROVE  AssignmentsInv'
  <1>1. CASE Refuse(c)
    BY <1>1, RefuseKeeps
  <1>2. CASE ~Refuse(c)
    <2>1. PICK r : r = request[c]
      OBVIOUS
    <2>2. PICK w : w = [r EXCEPT !.pc = "write"]
      OBVIOUS
    <2>3. /\ SameKey(r.party) \subseteq {r.id} \/ r.id \in SameKey(r.party)
          /\ Continue(c, w) /\ r.op = "update" /\ r.pc = "check"
      BY <1>2, <2>1, <2>2 DEF UpdateCheck, At
    <2>4. r \in Updating
      BY <2>1, <2>3, InvFacts, LocalKinds
    <2>5. w \in Updating /\ w.op = "update" /\ w.pc = "write" /\ w.id = r.id /\ w.party = r.party
      BY <2>2, <2>4 DEF Updating
    <2>6. /\ r.id <= spent.ids
          /\ r.id \in DOMAIN parties =>
                /\ parties[r.id].kind = r.party.kind
                /\ parties[r.id] # r.party \/ PartyRow(r.id) \in written[c]
      BY <2>1, <2>3, InvFacts DEF Tracked
    <2>7. r.id \in SameKey(r.party) => r.id \in DOMAIN parties /\ parties[r.id] = r.party
      BY <2>4, AlikeIsEqual, InvFacts DEF SameKey, Tables, Updating
    <2>8. request'[c] = w /\ UNCHANGED <<parties, written, spent>>
      BY <2>3 DEF Continue, AssignmentsInv, Shapes
    <2>9. r.id \in DOMAIN parties =>
             \/ PartyRow(r.id) \in written[c]
             \/ \A i \in SameKey(r.party) \ {r.id} : PartyRow(i) \in written[c]
      BY <2>3, <2>6, <2>7
    <2>10. Tracked(c)'
      BY <2>5, <2>6, <2>8, <2>9 DEF Tracked, SameKey
    <2>11. w \in Locals
      BY <2>5 DEF Locals
    <2> QED BY <2>3, <2>10, <2>11, ContinueKeeps
  <1> QED BY <1>1, <1>2

\* A change of a party that is written keeps the invariant.
LEMMA UpdateWriteKeeps ==
    ASSUME AssignmentsInv, NEW c \in Requests, UpdateWrite(c)
    PROVE  AssignmentsInv'
  <1>1. CASE Refuse(c)
    BY <1>1, RefuseKeeps
  <1>2. CASE ~Refuse(c)
    <2>1. PICK r : r = request[c]
      OBVIOUS
    <2>2. /\ r.id \in DOMAIN parties /\ Unique(With(parties, r.id, r.party))
          /\ parties' = With(parties, r.id, r.party)
          /\ Finish(c, {PartyRow(r.id)})
          /\ UNCHANGED <<link, spent>> /\ r.op = "update"
      BY <1>2, <2>1 DEF UpdateWrite, At
    <2>3. r.party \in Party /\ r.id \in Ids
      BY <2>1, <2>2, InvFacts, LocalKinds DEF Updating
    <2>4. r.party.kind = parties[r.id].kind /\ UNCHANGED ledger
      BY <2>1, <2>2, InvFacts DEF Tracked, Finish
    <2>5. /\ Tables'
          /\ parties' = [i \in DOMAIN parties' |-> parties'[i]]
          /\ DOMAIN parties' = DOMAIN parties \cup {r.id}
          /\ parties'[r.id] = r.party
          /\ \A i \in DOMAIN parties : i # r.id => parties'[i] = parties[i]
      BY <2>2, <2>3, <2>4, WithKeepsTables
    <2>6. /\ DOMAIN parties' \subseteq 1..spent'.ids
          /\ spent' \in SpentType /\ spent.ids <= spent'.ids
      BY <2>2, <2>5, InvFacts DEF AssignmentsInv, Shapes, SpentType
    <2>7. Announced({PartyRow(r.id)})
      BY <2>2, <2>4, <2>5 DEF Announced
    <2>8. {PartyRow(r.id)} \in SUBSET Items
      BY <2>3 DEF Items
    <2>9. link' \in [Kinds -> [Txs -> Ids \cup {None}]]
      BY <2>2 DEF AssignmentsInv, Shapes
    <2> QED BY <2>2, <2>5, <2>6, <2>7, <2>8, <2>9, FinishKeeps
  <1> QED BY <1>1, <1>2

\* A deletion that begins keeps the invariant.
LEMMA DeleteBeginKeeps ==
    ASSUME AssignmentsInv, NEW c \in Requests, NEW id \in DOMAIN parties, DeleteBegin(c, id)
    PROVE  AssignmentsInv'
  <1>1. PICK r : r = [op |-> "delete", pc |-> "count", id |-> id]
    OBVIOUS
  <1>2. r.op = "delete" /\ r.id = id /\ r.pc = "count" /\ Begin(c, r)
    BY <1>1 DEF DeleteBegin
  <1>3. r \in Locals
    BY <1>1, InvFacts DEF Locals, Deleting
  <1>4. request'[c] = r /\ spent'.ids = spent.ids
    BY <1>2 DEF Begin, AssignmentsInv, Shapes
  <1>5. Tracked(c)'
    BY <1>2, <1>4, InvFacts DEF Tracked
  <1> QED BY <1>2, <1>3, <1>5, BeginKeeps

\* The count of the links of a party to be deleted keeps the invariant.
LEMMA DeleteCountKeeps ==
    ASSUME AssignmentsInv, NEW c \in Requests, DeleteCount(c)
    PROVE  AssignmentsInv'
  <1>1. CASE Refuse(c)
    BY <1>1, RefuseKeeps
  <1>2. CASE ~Refuse(c)
    <2>1. PICK r : r = request[c]
      OBVIOUS
    <2>2. PICK w : w = [r EXCEPT !.pc = "write"]
      OBVIOUS
    <2>3. LinksOf(r.id) = {} /\ Continue(c, w) /\ r.op = "delete" /\ r.pc = "count"
      BY <1>2, <2>1, <2>2 DEF DeleteCount, At
    <2>4. r \in Deleting
      BY <2>1, <2>3, InvFacts, LocalKinds
    <2>5. w \in Deleting /\ w.op = "delete" /\ w.pc = "write" /\ w.id = r.id
      BY <2>2, <2>4 DEF Deleting
    <2>6. r.id <= spent.ids
      BY <2>1, <2>3, InvFacts DEF Tracked
    <2>7. request'[c] = w /\ UNCHANGED <<link, written, spent>>
      BY <2>3 DEF Continue, AssignmentsInv, Shapes
    <2>8. Tracked(c)'
      BY <2>3, <2>5, <2>6, <2>7 DEF Tracked, LinksOf
    <2>9. w \in Locals
      BY <2>5 DEF Locals
    <2> QED BY <2>3, <2>8, <2>9, ContinueKeeps
  <1> QED BY <1>1, <1>2

\* What a deletion does if the row is there.
LEMMA DeleteEffect ==
    ASSUME AssignmentsInv, NEW c \in Requests, DeleteWrite(c), ~Refuse(c),
           NEW id, id = request[c].id
    PROVE  /\ id \in Ids /\ id # None
           /\ LinksOf(id) \subseteq written[c]
           /\ DOMAIN parties' = DOMAIN parties \ {id}
           /\ parties' = [i \in DOMAIN parties' |-> parties'[i]]
           /\ \A i \in DOMAIN parties' : parties'[i] = parties[i]
           /\ link' \in [Kinds -> [Txs -> Ids \cup {None}]]
           /\ \A k \in Kinds, t \in Txs :
                 /\ link[k][t] = id => link'[k][t] = None
                 /\ link[k][t] # id => link'[k][t] = link[k][t]
           /\ Finish(c, {PartyRow(id)} \cup LinksOf(id))
           /\ UNCHANGED <<spent, ledger>>
  <1>1. /\ parties' = [i \in DOMAIN parties \ {id} |-> parties[i]]
        /\ link' = [k \in Kinds |-> [t \in Txs |->
                      IF link[k][t] = id THEN None ELSE link[k][t]]]
        /\ Finish(c, {PartyRow(id)} \cup LinksOf(id))
        /\ UNCHANGED spent /\ id \in DOMAIN parties
        /\ request[c].op = "delete" /\ request[c].pc = "write"
    BY DEF DeleteWrite, At
  <1>2. id \in Ids /\ id # None
    BY <1>1, InvFacts
  <1>3. LinksOf(id) \subseteq written[c]
    BY <1>1, InvFacts DEF Tracked
  <1>4. link \in [Kinds -> [Txs -> Ids \cup {None}]]
    BY DEF AssignmentsInv, Shapes
  <1>5. /\ link' \in [Kinds -> [Txs -> Ids \cup {None}]]
        /\ \A k \in Kinds, t \in Txs :
              /\ link[k][t] = id => link'[k][t] = None
              /\ link[k][t] # id => link'[k][t] = link[k][t]
    BY <1>1, <1>4
  <1>6. /\ DOMAIN parties' = DOMAIN parties \ {id}
        /\ parties' = [i \in DOMAIN parties' |-> parties'[i]]
        /\ \A i \in DOMAIN parties' : parties'[i] = parties[i]
    BY <1>1
  <1>7. ledger' = ledger
    BY <1>1 DEF Finish
  <1>8. Finish(c, {PartyRow(id)} \cup LinksOf(id)) /\ spent' = spent
    BY <1>1
  <1> QED BY <1>2, <1>3, <1>5, <1>6, <1>7, <1>8

\* The deletion of a party keeps the invariant.
LEMMA DeleteWriteKeeps ==
    ASSUME AssignmentsInv, NEW c \in Requests, DeleteWrite(c)
    PROVE  AssignmentsInv'
  <1>1. CASE Refuse(c)
    BY <1>1, RefuseKeeps
  <1>2. CASE ~Refuse(c)
    <2>1. PICK id : id = request[c].id
      OBVIOUS
    <2>2. PICK items : items = {PartyRow(id)} \cup LinksOf(id)
      OBVIOUS
    <2>3. /\ id \in Ids /\ id # None
          /\ DOMAIN parties' = DOMAIN parties \ {id}
          /\ \A i \in DOMAIN parties' : parties'[i] = parties[i]
          /\ \A k \in Kinds, t \in Txs :
                /\ link[k][t] = id => link'[k][t] = None
                /\ link[k][t] # id => link'[k][t] = link[k][t]
          /\ UNCHANGED <<spent, ledger>>
      <3>1. id \in Ids /\ id # None /\ DOMAIN parties' = DOMAIN parties \ {id}
        BY <1>2, <2>1, DeleteEffect
      <3>2. \A i \in DOMAIN parties' : parties'[i] = parties[i]
        BY <1>2, <2>1, DeleteEffect
      <3>3. \A k \in Kinds, t \in Txs :
                /\ link[k][t] = id => link'[k][t] = None
                /\ link[k][t] # id => link'[k][t] = link[k][t]
        <4>1. link' = [k \in Kinds |-> [t \in Txs |->
                         IF link[k][t] = id THEN None ELSE link[k][t]]]
          BY <1>2, <2>1 DEF DeleteWrite
        <4> QED BY <4>1
      <3>4. UNCHANGED <<spent, ledger>>
        BY <1>2, <2>1, DeleteEffect
      <3> QED BY <3>1, <3>2, <3>3, <3>4
    <2>4. /\ parties' = [i \in DOMAIN parties' |-> parties'[i]]
          /\ link' \in [Kinds -> [Txs -> Ids \cup {None}]]
      BY <1>2, <2>1, DeleteEffect
    <2>5. Finish(c, items)
      BY <1>2, <2>1, <2>2, DeleteEffect
    <2>6. Tables'
      <3>1. \A i \in DOMAIN parties' : parties'[i] \in Party
        BY <2>3, InvFacts DEF Tables
      <3>2. \A k \in Kinds, t \in Txs : link'[k][t] # None =>
               /\ ledger'[t] # None
               /\ link'[k][t] \in DOMAIN parties' /\ parties'[link'[k][t]].kind = k
        BY <2>3, InvFacts DEF Tables
      <3>3. Unique(parties)'
        BY <2>3, InvFacts DEF Tables, Unique
      <3> QED BY <3>1, <3>2, <3>3 DEF Tables
    <2>7. Announced(items)
      BY <2>3 DEF Announced
    <2>8. items \in SUBSET Items
      BY <2>2, <2>3 DEF Items, LinksOf
    <2>9. /\ DOMAIN parties' \subseteq 1..spent'.ids
          /\ spent' \in SpentType /\ spent.ids <= spent'.ids
      BY <2>3, InvFacts DEF AssignmentsInv, Shapes, SpentType
    <2> QED BY <2>4, <2>5, <2>6, <2>7, <2>8, <2>9, FinishKeeps
  <1> QED BY <1>1, <1>2

-----------------------------------------------------------------------------
(* The transactions                                                        *)

\* A line an import of transactions stores keeps the invariant.
LEMMA StoreLineKeeps ==
    ASSUME AssignmentsInv, NEW t \in Txs, NEW l \in LineKinds, StoreLine(t, l)
    PROVE  AssignmentsInv'
  <1>1. /\ ledger' = [ledger EXCEPT ![t] = l]
        /\ UNCHANGED <<parties, link, request, written>>
    BY DEF StoreLine
  <1>2. /\ ledger' \in [Txs -> LineKinds \cup {None}]
        /\ \A u \in Txs : ledger[u] # None => ledger'[u] # None
    BY <1>1, AssignmentsAssumption DEF AssignmentsInv, Shapes
  <1>3. Tables'
    BY <1>1, <1>2, InvFacts DEF Tables, Unique
  <1>4. spent' \in SpentType /\ spent'.ids = spent.ids
    BY AssignmentsAssumption DEF StoreLine, AssignmentsInv, Shapes, SpentType
  <1> QED BY <1>1, <1>2, <1>3, <1>4, OutsideKeeps DEF AssignmentsInv, Shapes

\* The deletion of all transactions keeps the invariant.
LEMMA DeleteAllKeeps ==
    ASSUME AssignmentsInv, DeleteAllTransactions
    PROVE  AssignmentsInv'
  <1>1. /\ ledger' = [t \in Txs |-> None]
        /\ link' = [k \in Kinds |-> [t \in Txs |-> None]]
        /\ UNCHANGED <<parties, request>>
    BY DEF DeleteAllTransactions
  <1>2. /\ ledger' \in [Txs -> LineKinds \cup {None}]
        /\ link' \in [Kinds -> [Txs -> Ids \cup {None}]]
        /\ \A k \in Kinds, t \in Txs : link'[k][t] = None
    BY <1>1
  <1>3. Tables'
    BY <1>1, <1>2, InvFacts DEF Tables, Unique
  <1>4. spent' \in SpentType /\ spent'.ids = spent.ids
    BY AssignmentsAssumption DEF DeleteAllTransactions, AssignmentsInv, Shapes, SpentType
  <1>5. /\ written' \in [Requests -> SUBSET Items]
        /\ \A d \in Requests : written[d] \subseteq written'[d]
    BY DEF DeleteAllTransactions, AssignmentsInv, Shapes, Items
  <1> QED BY <1>1, <1>2, <1>3, <1>4, <1>5, OutsideKeeps

-----------------------------------------------------------------------------
(* The donor CSV                                                           *)

\* An import of donors that begins keeps the invariant.
LEMMA ImportBeginKeeps ==
    ASSUME AssignmentsInv, NEW c \in Requests, NEW f \in Files, ImportBegin(c, f)
    PROVE  AssignmentsInv'
  <1>1. PICK r : r = [op |-> "import", pc |-> "match", file |-> f, lines |-> ledger]
    OBVIOUS
  <1>2. r \in Reading /\ r.op = "import" /\ r.pc = "match"
    BY <1>1 DEF Reading, AssignmentsInv, Shapes
  <1>3. Begin(c, r)
    BY <1>1 DEF ImportBegin
  <1>4. request'[c] = r
    BY <1>3 DEF Begin, AssignmentsInv, Shapes
  <1>5. Tracked(c)'
    BY <1>2, <1>4 DEF Tracked
  <1>6. r \in Locals
    BY <1>2 DEF Locals
  <1> QED BY <1>3, <1>5, <1>6, BeginKeeps

\* The lines an import matches with donors keep the invariant.
LEMMA ImportMatchKeeps ==
    ASSUME AssignmentsInv, NEW c \in Requests, ImportMatch(c)
    PROVE  AssignmentsInv'
  <1>1. CASE Refuse(c)
    BY <1>1, RefuseKeeps
  <1>2. CASE ~Refuse(c)
    <2>1. PICK r : r = request[c]
      OBVIOUS
    <2>2. PICK V : V = ValidRows(r.file, r.lines)
      OBVIOUS
    <2>3. r.op = "import" /\ r.pc = "match"
      BY <2>1 DEF ImportMatch, At
    <2>4. PICK m \in [V -> DOMAIN parties \cup {None}] :
             /\ \A q \in V : IF Matching(q) = {} THEN m[q] = None ELSE m[q] \in Matching(q)
             /\ Continue(c, [op |-> "import", pc |-> "write", match |-> m])
      BY <1>2, <2>1, <2>2 DEF ImportMatch
    <2>5. r \in Reading
      BY <2>1, <2>3, InvFacts, LocalKinds
    <2>6. V \subseteq r.file /\ \A q, s \in V : q.tx = s.tx => q = s
      BY <2>2 DEF ValidRows
    <2>7. r.file \in Files
      BY <2>5 DEF Reading
    <2>8. m \in [V -> Ids \cup {None}]
      BY <2>4, InvFacts
    <2>9. m \in Matches
      BY <2>6, <2>7, <2>8 DEF Matches
    <2>10. PICK w : w = [op |-> "import", pc |-> "write", match |-> m]
      OBVIOUS
    <2>11. w \in Locals /\ w.op = "import" /\ w.pc = "write" /\ w.match = m
      BY <2>9, <2>10 DEF Locals, Importing
    <2>12. Continue(c, w)
      BY <2>4, <2>10
    <2>13. request'[c] = w /\ UNCHANGED <<parties, written, spent>>
      BY <2>12 DEF Continue, AssignmentsInv, Shapes
    <2>14. ASSUME NEW q \in V
           PROVE  /\ m[q] = None => SameKey(DonorOf(q)) = {}
                  /\ m[q] # None => m[q] <= spent.ids
                  /\ m[q] \in DOMAIN parties =>
                        parties[m[q]].kind = "donor" /\ parties[m[q]] = DonorOf(q)
      <3>1. m[q] \in DOMAIN parties \cup {None} /\ \A i \in DOMAIN parties : i # None
        BY InvFacts
      <3>2. m[q] = None => SameKey(DonorOf(q)) = {}
        BY <2>4, <3>1 DEF Matching, SameKey
      <3>3. m[q] # None => m[q] <= spent.ids
        BY <3>1, InvFacts
      <3>4. ASSUME m[q] \in DOMAIN parties
            PROVE  parties[m[q]].kind = "donor" /\ parties[m[q]] = DonorOf(q)
        <4>1. Alike(parties[m[q]], DonorOf(q))
          BY <2>4, <3>1, <3>4 DEF Matching, SameKey
        <4>2. parties[m[q]] \in Party
          BY <3>4, InvFacts DEF Tables
        <4>3. DonorOf(q) \in Party /\ DonorOf(q).kind = "donor"
          BY <2>8, <2>9, MatchTyped
        <4> QED BY <4>1, <4>2, <4>3, AlikeIsEqual
      <3> QED BY <3>2, <3>3, <3>4
    <2>15. DOMAIN m = V
      OBVIOUS
    <2>16. Tracked(c)'
      BY <2>6, <2>11, <2>13, <2>14, <2>15 DEF Tracked, SameKey
    <2> QED BY <2>11, <2>12, <2>16, ContinueKeeps
  <1> QED BY <1>1, <1>2

\* The donors an import has to create are finitely many.
LEMMA MissingFinite ==
    ASSUME NEW m \in Matches
    PROVE  IsFiniteSet(Missing(m)) /\ Cardinality(Missing(m)) \in Nat
           /\ Missing(m) \subseteq Party
  <1> DEFINE V == {q \in DOMAIN m : m[q] = None}
             S == Missing(m)
             g == [q \in V |-> DonorOf(q)]
  <1>1. IsFiniteSet(V)
    BY MatchTyped, FS_Subset
  <1>2. g \in Surjection(V, S)
    BY DEF Missing, Surjection
  <1>3. S \subseteq Party
    BY MatchTyped DEF Missing
  <1> HIDE DEF V, S, g
  <1>4. IsFiniteSet(S)
    BY <1>1, <1>2, FS_Surjection
  <1> QED BY <1>3, <1>4, FS_CardinalityType DEF S

\* The numbering gives each new donor an id of its own, and none is left over.
LEMMA NumberingIsOneToOne ==
    ASSUME NEW m \in Matches, spent.ids \in Nat
    PROVE  /\ Numbering(m) \in [Missing(m) -> NewIds(m)]
           /\ \A p, q \in Missing(m) : p # q => Numbering(m)[p] # Numbering(m)[q]
           /\ \A i \in NewIds(m) : \E p \in Missing(m) : Numbering(m)[p] = i
  <1>1. PICK S : S = Missing(m)
    OBVIOUS
  <1>2. PICK N : N = NewIds(m)
    OBVIOUS
  <1>3. IsFiniteSet(S) /\ Cardinality(S) \in Nat
    BY <1>1, MissingFinite
  <1>4. IsFiniteSet(N) /\ Cardinality(N) = Cardinality(S)
    <2>1. spent.ids + 1 \in Int /\ spent.ids + Cardinality(S) \in Int
      BY <1>3
    <2>2. N = (spent.ids + 1)..(spent.ids + Cardinality(S))
      BY <1>1, <1>2 DEF NewIds
    <2>3. /\ IsFiniteSet((spent.ids + 1)..(spent.ids + Cardinality(S)))
          /\ Cardinality((spent.ids + 1)..(spent.ids + Cardinality(S))) =
                IF spent.ids + 1 > spent.ids + Cardinality(S) THEN 0
                ELSE (spent.ids + Cardinality(S)) - (spent.ids + 1) + 1
      BY <2>1, FS_Interval
    <2> QED BY <1>3, <2>2, <2>3
  <1>5. ExistsBijection(S, N)
    BY <1>3, <1>4, FS_SameCardinalityBij
  <1>6. PICK g : g \in Injection(S, N)
    BY <1>5 DEF ExistsBijection, Bijection
  <1>7. g \in [S -> N] /\ \A p, q \in S : p # q => g[p] # g[q]
    <2>1. g \in [S -> N]
      BY <1>6 DEF Injection, IsInjective
    <2>2. \A p, q \in S : g[p] = g[q] => p = q
      BY <1>6 DEF Injection, IsInjective
    <2> QED BY <2>1, <2>2
  <1>8. Numbering(m) \in [S -> N] /\ \A p, q \in S : p # q => Numbering(m)[p] # Numbering(m)[q]
    BY <1>1, <1>2, <1>7 DEF Numbering
  <1>9. Numbering(m) \in Injection(S, N)
    <2>1. PICK f : f = Numbering(m)
      OBVIOUS
    <2>2. f \in [S -> N] /\ \A p, q \in S : f[p] = f[q] => p = q
      BY <1>8, <2>1
    <2>3. f \in Injection(S, N)
      BY <2>2 DEF Injection, IsInjective
    <2> QED BY <2>1, <2>3
  <1>10. Numbering(m) \in Surjection(S, N)
    BY <1>3, <1>4, <1>9, FS_Injection
  <1> QED BY <1>1, <1>2, <1>8, <1>10 DEF Surjection

\* What an import does if the database lets it.
Imported(c, m) ==
    /\ NewIds(m) \subseteq Ids
    /\ DOMAIN parties' = DOMAIN parties \cup NewIds(m)
    /\ parties' = [i \in DOMAIN parties' |-> parties'[i]]
    /\ \A i \in DOMAIN parties' :
          IF i \in NewIds(m) THEN parties'[i] \in Missing(m) /\ Numbering(m)[parties'[i]] = i
                             ELSE parties'[i] = parties[i]
    /\ Unique(parties)'
    /\ link' \in [Kinds -> [Txs -> Ids \cup {None}]]
    /\ \A t \in Txs :
          /\ link'["counterpart"][t] = link["counterpart"][t]
          /\ \/ \E r \in DOMAIN m : r.tx = t /\ link'["donor"][t] = DonorFor(m, r)
             \/ /\ link'["donor"][t] = link["donor"][t]
                /\ \A r \in DOMAIN m : r.tx # t
    /\ \A r \in DOMAIN m : Linkable(parties', DonorFor(m, r), r.tx)
    /\ spent' \in SpentType /\ spent'.ids = spent.ids + Cardinality(Missing(m))
    /\ Finish(c, {PartyRow(i) : i \in NewIds(m)} \cup {<<"donor", r.tx>> : r \in DOMAIN m})

\* What the write of an import does to the parties and the links.
LEMMA ImportEffect ==
    ASSUME AssignmentsInv, NEW c \in Requests, ImportWrite(c), ~Refuse(c),
           NEW m, m = request[c].match
    PROVE  m \in Matches /\ Imported(c, m)
  <1>1. m \in Matches
    BY InvFacts, LocalKinds DEF ImportWrite, At, Importing
  <1>2. PICK rows : rows = RowsWith(m)
    OBVIOUS
  <1>3. /\ Unique(rows) /\ \A r \in DOMAIN m : Linkable(rows, DonorFor(m, r), r.tx)
        /\ NewIds(m) \subseteq Ids
        /\ parties' = rows
        /\ link' = [link EXCEPT !["donor"] = [t \in Txs |->
                       IF \E r \in DOMAIN m : r.tx = t
                       THEN DonorFor(m, CHOOSE r \in DOMAIN m : r.tx = t) ELSE @[t]]]
        /\ spent' = [spent EXCEPT !.ids = @ + Cardinality(Missing(m))]
        /\ Finish(c, {PartyRow(i) : i \in NewIds(m)} \cup {<<"donor", r.tx>> : r \in DOMAIN m})
    BY <1>2 DEF ImportWrite
  <1>4. /\ DOMAIN rows = DOMAIN parties \cup NewIds(m)
        /\ rows = [i \in DOMAIN rows |-> rows[i]]
        /\ \A i \in NewIds(m) : rows[i] = CHOOSE p \in Missing(m) : Numbering(m)[p] = i
        /\ \A i \in DOMAIN parties \ NewIds(m) : rows[i] = parties[i]
    BY <1>2 DEF RowsWith
  <1>5. /\ Numbering(m) \in [Missing(m) -> NewIds(m)]
        /\ \A i \in NewIds(m) : \E p \in Missing(m) : Numbering(m)[p] = i
    BY <1>1, InvFacts, NumberingIsOneToOne
  <1>6. \A i \in NewIds(m) : rows[i] \in Missing(m) /\ Numbering(m)[rows[i]] = i
    BY <1>4, <1>5
  <1>7. link \in [Kinds -> [Txs -> Ids \cup {None}]]
    BY DEF AssignmentsInv, Shapes
  <1>8. \A r \in DOMAIN m : DonorFor(m, r) \in Ids \cup {None}
    BY <1>1, <1>3, <1>5, MatchTyped DEF DonorFor, Missing
  <1>9. "donor" \in Kinds /\ "counterpart" \in Kinds /\ "donor" # "counterpart"
    BY DEF Kinds
  <1>10. /\ link'["counterpart"] = link["counterpart"]
         /\ link'["donor"] = [t \in Txs |->
                IF \E r \in DOMAIN m : r.tx = t
                THEN DonorFor(m, CHOOSE r \in DOMAIN m : r.tx = t) ELSE link["donor"][t]]
         /\ link' = [k \in Kinds |-> link'[k]]
    BY <1>3, <1>7, <1>9
  <1>11. \A t \in Txs :
          /\ link'["counterpart"][t] = link["counterpart"][t]
          /\ \/ \E r \in DOMAIN m : r.tx = t /\ link'["donor"][t] = DonorFor(m, r)
             \/ /\ link'["donor"][t] = link["donor"][t]
                /\ \A r \in DOMAIN m : r.tx # t
    BY <1>10
  <1>12. link' \in [Kinds -> [Txs -> Ids \cup {None}]]
    <2>1. link'["donor"] \in [Txs -> Ids \cup {None}]
      <3>1. \A t \in Txs : link'["donor"][t] \in Ids \cup {None}
        BY <1>7, <1>8, <1>9, <1>11
      <3> QED BY <1>10, <3>1
    <2> QED BY <1>7, <1>9, <1>10, <2>1 DEF Kinds
  <1>13. spent' \in SpentType /\ spent'.ids = spent.ids + Cardinality(Missing(m))
    <2>1. spent \in SpentType /\ Cardinality(Missing(m)) \in Nat
      BY <1>1, MissingFinite DEF AssignmentsInv, Shapes, SpentType
    <2>2. spent.ids + Cardinality(Missing(m)) \in 0..MaxParties
      <3>1. CASE Cardinality(Missing(m)) = 0
        BY <2>1, <3>1, InvFacts
      <3>2. CASE Cardinality(Missing(m)) # 0
        <4>1. spent.ids + Cardinality(Missing(m)) \in NewIds(m)
          BY <2>1, <3>2, InvFacts DEF NewIds
        <4> QED BY <1>3, <4>1, AssignmentsAssumption DEF Ids
      <3> QED BY <3>1, <3>2
    <2> QED BY <1>3, <2>1, <2>2 DEF SpentType
  <1>14. /\ DOMAIN parties' = DOMAIN parties \cup NewIds(m)
         /\ parties' = [i \in DOMAIN parties' |-> parties'[i]]
         /\ \A i \in DOMAIN parties' :
              IF i \in NewIds(m) THEN parties'[i] \in Missing(m) /\ Numbering(m)[parties'[i]] = i
                                 ELSE parties'[i] = parties[i]
         /\ \A r \in DOMAIN m : Linkable(parties', DonorFor(m, r), r.tx)
    BY <1>3, <1>4, <1>6
  <1>15. Unique(parties)'
    BY <1>3 DEF Unique
  <1> QED BY <1>1, <1>3, <1>11, <1>12, <1>13, <1>14, <1>15 DEF Imported

\* The ids an import draws are of no party yet.
LEMMA NewIdsAreNew ==
    ASSUME AssignmentsInv, NEW m \in Matches, NEW i \in NewIds(m)
    PROVE  i \in Nat /\ i > spent.ids /\ i <= spent.ids + Cardinality(Missing(m))
           /\ i \notin DOMAIN parties
  BY InvFacts, MissingFinite DEF NewIds

\* The donor an import links a transaction to is the one its row names, unless
\* someone has changed that donor since the import began.
LEMMA ImportDonor ==
    ASSUME AssignmentsInv, NEW c \in Requests, ImportWrite(c), ~Refuse(c),
           NEW m, m = request[c].match, NEW r \in DOMAIN m, NEW d, d = DonorFor(m, r)
    PROVE  /\ d \in DOMAIN parties' /\ d \in Ids /\ d # None
           /\ parties'[d].kind = "donor"
           /\ parties'[d] = DonorOf(r) \/ PartyRow(d) \in written[c]
           /\ r.tx \in Txs /\ ledger[r.tx] # None /\ Suits(parties'[d], ledger[r.tx])
  <1>1. m \in Matches /\ Imported(c, m)
    BY ImportEffect
  <1>2. Linkable(parties', d, r.tx) /\ r.tx \in Txs
    BY <1>1, MatchTyped DEF Imported
  <1>3. d \in DOMAIN parties' /\ ledger[r.tx] # None /\ Suits(parties'[d], ledger[r.tx])
    BY <1>2 DEF Linkable
  <1>4. d \in Ids /\ d # None
    BY <1>1, <1>3, InvFacts, AssignmentsAssumption DEF Imported, Ids
  <1>5. CASE m[r] = None
    <2>1. DonorOf(r) \in Missing(m) /\ d = Numbering(m)[DonorOf(r)]
      BY <1>5 DEF Missing, DonorFor
    <2>2. d \in NewIds(m)
      BY <1>1, <2>1, InvFacts, NumberingIsOneToOne
    <2>3. parties'[d] \in Missing(m) /\ Numbering(m)[parties'[d]] = d
      BY <1>1, <1>3, <2>2 DEF Imported
    <2>4. parties'[d] = DonorOf(r)
      BY <1>1, <2>1, <2>3, InvFacts, NumberingIsOneToOne
    <2> QED BY <1>1, <1>2, <1>3, <1>4, <2>4, MatchTyped
  <1>6. CASE m[r] # None
    <2>1. d = m[r]
      BY <1>6 DEF DonorFor
    <2>2. request[c].op = "import" /\ request[c].pc = "write"
      BY DEF ImportWrite, At
    <2>3. /\ d <= spent.ids
          /\ d \in DOMAIN parties => /\ parties[d].kind = "donor"
                                     /\ parties[d] = DonorOf(r) \/ PartyRow(d) \in written[c]
      BY <1>6, <2>1, <2>2, InvFacts DEF Tracked
    <2>4. d \notin NewIds(m)
      BY <1>1, <1>4, <2>3, InvFacts, NewIdsAreNew DEF Ids
    <2>5. d \in DOMAIN parties /\ parties'[d] = parties[d]
      BY <1>1, <1>3, <2>4 DEF Imported
    <2> QED BY <1>2, <1>3, <1>4, <2>3, <2>5
  <1> QED BY <1>5, <1>6

\* The write of an import keeps the invariant.
LEMMA ImportWriteKeeps ==
    ASSUME AssignmentsInv, NEW c \in Requests, ImportWrite(c)
    PROVE  AssignmentsInv'
  <1>1. CASE Refuse(c)
    BY <1>1, RefuseKeeps
  <1>2. CASE ~Refuse(c)
    <2>1. PICK m : m = request[c].match
      OBVIOUS
    <2>2. PICK items :
             items = {PartyRow(i) : i \in NewIds(m)} \cup {<<"donor", r.tx>> : r \in DOMAIN m}
      OBVIOUS
    <2>3. m \in Matches /\ Imported(c, m)
      BY <1>2, <2>1, ImportEffect
    <2>4. Finish(c, items) /\ ledger' = ledger
      BY <2>2, <2>3 DEF Imported, Finish
    <2>5. \A i \in DOMAIN parties' :
             \/ i \in DOMAIN parties /\ i \notin NewIds(m) /\ parties'[i] = parties[i]
             \/ i \in NewIds(m) /\ parties'[i] \in Missing(m)
      BY <2>3 DEF Imported
    <2>6. \A i \in DOMAIN parties : i \in DOMAIN parties' /\ parties'[i] = parties[i]
      BY <2>3, NewIdsAreNew DEF Imported
    <2>7. Tables'
      <3>1. \A i \in DOMAIN parties' : parties'[i] \in Party
        BY <2>3, <2>5, MissingFinite, InvFacts DEF Tables
      <3>2. ASSUME NEW k \in Kinds, NEW t \in Txs, link'[k][t] # None
            PROVE  /\ ledger'[t] # None
                   /\ link'[k][t] \in DOMAIN parties' /\ parties'[link'[k][t]].kind = k
        <4>1. CASE link'[k][t] = link[k][t]
          BY <2>4, <2>6, <3>2, <4>1, InvFacts DEF Tables
        <4>2. CASE link'[k][t] # link[k][t]
          <5>1. k = "donor"
            BY <2>3, <4>2 DEF Imported, Kinds
          <5>2. PICK r \in DOMAIN m : r.tx = t /\ link'["donor"][t] = DonorFor(m, r)
            BY <2>3, <4>2, <5>1 DEF Imported
          <5> QED BY <1>2, <2>1, <2>4, <5>1, <5>2, ImportDonor
        <4> QED BY <4>1, <4>2
      <3>3. Unique(parties)'
        BY <2>3 DEF Imported
      <3> QED BY <3>1, <3>2, <3>3 DEF Tables
    <2>8. Announced(items)
      <3>1. \A i \in NewIds(m) : PartyRow(i) \in items /\ i \in Nat /\ i > spent.ids
        BY <2>2, <2>3, NewIdsAreNew
      <3>2. \A k \in Kinds, t \in Txs : link'[k][t] = link[k][t] \/ <<k, t>> \in items
        BY <2>2, <2>3 DEF Imported, Kinds
      <3> QED BY <2>5, <3>1, <3>2 DEF Announced
    <2>9. items \in SUBSET Items
      <3>1. {PartyRow(i) : i \in NewIds(m)} \subseteq Items
        BY <2>3 DEF Imported, Items
      <3>2. {<<"donor", r.tx>> : r \in DOMAIN m} \subseteq Items
        BY <2>3, MatchTyped DEF Items, Kinds
      <3> QED BY <2>2, <3>1, <3>2
    <2>10. spent.ids <= spent'.ids /\ spent' \in SpentType
           /\ spent'.ids = spent.ids + Cardinality(Missing(m)) /\ Cardinality(Missing(m)) \in Nat
      BY <2>3, InvFacts, MissingFinite DEF Imported
    <2>11. DOMAIN parties' \subseteq 1..spent'.ids
      <3>1. \A i \in DOMAIN parties' : i \in Nat /\ i <= spent'.ids /\ i \in Ids
        BY <2>3, <2>10, InvFacts, NewIdsAreNew DEF Imported
      <3> QED BY <2>10, <3>1, InvFacts DEF Ids
    <2>12. /\ parties' = [i \in DOMAIN parties' |-> parties'[i]]
           /\ link' \in [Kinds -> [Txs -> Ids \cup {None}]]
      BY <2>3 DEF Imported
    <2> QED BY <2>4, <2>7, <2>8, <2>9, <2>10, <2>11, <2>12, FinishKeeps
  <1> QED BY <1>1, <1>2

-----------------------------------------------------------------------------
(* The invariant                                                           *)

\* The invariant holds at first.
LEMMA InitTracked == AssignmentsInit => AssignmentsInv
  <1> SUFFICES ASSUME AssignmentsInit PROVE AssignmentsInv
    OBVIOUS
  <1>1. PICK n \in 0..MaxParties : parties \in [1..n -> Party]
    BY AssignmentsAssumption DEF AssignmentsInit
  <1>2. n \in Nat /\ n <= MaxParties /\ DOMAIN parties = 1..n
        /\ parties = [i \in DOMAIN parties |-> parties[i]]
    BY <1>1, AssignmentsAssumption
  <1>3. Cardinality(1..n) = n
    <2>1. 1 \in Int /\ n \in Int
      BY <1>2
    <2>2. Cardinality(1..n) = IF 1 > n THEN 0 ELSE n - 1 + 1
      BY <2>1, FS_Interval
    <2> QED BY <1>2, <2>2
  <1>4. spent \in SpentType /\ spent.ids = n
    BY <1>2, <1>3, AssignmentsAssumption DEF AssignmentsInit, SpentType
  <1>5. Tables
    BY <1>1, <1>2, FirstPartiesAssumption DEF AssignmentsInit, Tables
  <1>6. \A c \in Requests : Tracked(c)
    BY DEF AssignmentsInit, Tracked, Idle
  <1>7. Shapes
    <2>1. ledger \in [Txs -> LineKinds \cup {None}] /\ link \in [Kinds -> [Txs -> Ids \cup {None}]]
      BY DEF AssignmentsInit
    <2>2. request \in [Requests -> Locals] /\ written \in [Requests -> SUBSET Items]
      BY DEF AssignmentsInit, Locals
    <2> QED BY <1>2, <1>4, <2>1, <2>2 DEF Shapes, SpentType
  <1> QED BY <1>5, <1>6, <1>7, InvOfParts

\* The steps of one request.
OwnSteps(c) ==
    \/ \E id \in DOMAIN parties, T \in SUBSET Txs : AssignBegin(c, id, T)
    \/ AssignCheck(c) \/ AssignWrite(c)
    \/ \E p \in Entries : CreateBegin(c, p)
    \/ CreateWrite(c)
    \/ \E id \in DOMAIN parties, p \in Entries : UpdateBegin(c, id, p)
    \/ UpdateCheck(c) \/ UpdateWrite(c)
    \/ \E id \in DOMAIN parties : DeleteBegin(c, id)
    \/ DeleteCount(c) \/ DeleteWrite(c)
    \/ \E f \in Files : ImportBegin(c, f)
    \/ ImportMatch(c) \/ ImportWrite(c)
    \/ Abort(c)

\* Every step of a request keeps the invariant.
LEMMA StepsKeep ==
    ASSUME AssignmentsInv, NEW c \in Requests, OwnSteps(c)
    PROVE  AssignmentsInv'
  <1>1. CASE \E id \in DOMAIN parties, T \in SUBSET Txs : AssignBegin(c, id, T)
    BY <1>1, AssignBeginKeeps
  <1>2. CASE AssignCheck(c)
    BY <1>2, AssignCheckKeeps
  <1>3. CASE AssignWrite(c)
    BY <1>3, AssignWriteKeeps
  <1>4. CASE \E p \in Entries : CreateBegin(c, p)
    BY <1>4, CreateBeginKeeps
  <1>5. CASE CreateWrite(c)
    BY <1>5, CreateWriteKeeps
  <1>6. CASE \E id \in DOMAIN parties, p \in Entries : UpdateBegin(c, id, p)
    BY <1>6, UpdateBeginKeeps
  <1>7. CASE UpdateCheck(c)
    BY <1>7, UpdateCheckKeeps
  <1>8. CASE UpdateWrite(c)
    BY <1>8, UpdateWriteKeeps
  <1>9. CASE \E id \in DOMAIN parties : DeleteBegin(c, id)
    BY <1>9, DeleteBeginKeeps
  <1>10. CASE DeleteCount(c)
    BY <1>10, DeleteCountKeeps
  <1>11. CASE DeleteWrite(c)
    BY <1>11, DeleteWriteKeeps
  <1>12. CASE \E f \in Files : ImportBegin(c, f)
    BY <1>12, ImportBeginKeeps
  <1>13. CASE ImportMatch(c)
    BY <1>13, ImportMatchKeeps
  <1>14. CASE ImportWrite(c)
    BY <1>14, ImportWriteKeeps
  <1>15. CASE Abort(c)
    BY <1>15, RefuseKeeps DEF Abort
  <1> QED BY <1>1, <1>2, <1>3, <1>4, <1>5, <1>6, <1>7, <1>8, <1>9, <1>10, <1>11, <1>12,
             <1>13, <1>14, <1>15 DEF OwnSteps

\* A step that changes nothing keeps the invariant.
LEMMA StutterKeeps == AssignmentsInv /\ UNCHANGED assignmentVars => AssignmentsInv'
  BY InvOfPartsNext, InvFacts, BesideKeeps
     DEF AssignmentsInv, AssignmentsTypeOK, Shapes, Tracked, SameKey, LinksOf, Unique,
         assignmentVars

\* Every step keeps the invariant.
LEMMA NextKeeps == AssignmentsInv /\ [AssignmentsNext]_assignmentVars => AssignmentsInv'
  <1> SUFFICES ASSUME AssignmentsInv, [AssignmentsNext]_assignmentVars
               PROVE  AssignmentsInv'
    OBVIOUS
  <1>1. CASE \E c \in Requests : OwnSteps(c)
    BY <1>1, StepsKeep
  <1>2. CASE \E T \in SUBSET Txs : Unassign(T)
    BY <1>2, UnassignKeeps
  <1>3. CASE \E t \in Txs, l \in LineKinds : StoreLine(t, l)
    BY <1>3, StoreLineKeeps
  <1>4. CASE DeleteAllTransactions
    BY <1>4, DeleteAllKeeps
  <1>5. CASE UNCHANGED assignmentVars
    BY <1>5, StutterKeeps
  <1> QED BY <1>1, <1>2, <1>3, <1>4, <1>5 DEF AssignmentsNext, OwnSteps

\* The tables keep what the database promises, and what every request has read
\* holds still but for the rows that others have written since it began.
THEOREM AssignmentsInductive == AssignmentsSpec => []AssignmentsInv
  BY InitTracked, NextKeeps, PTL DEF AssignmentsSpec

\* The tables, the links and the locals of every handler have their types, for
\* any number of requests (AssignmentsTypeOK).
THEOREM AssignmentsTyped == AssignmentsSpec => []AssignmentsTypeOK
  <1>1. AssignmentsInv => AssignmentsTypeOK
    BY DEF AssignmentsInv
  <1> QED BY <1>1, AssignmentsInductive, PTL

-----------------------------------------------------------------------------
(* What the writes may do                                                  *)

\* What a request writes, it writes in its last step.
Writes(c) == AssignWrite(c) \/ CreateWrite(c) \/ UpdateWrite(c) \/ DeleteWrite(c) \/ ImportWrite(c)

\* Which steps change the parties or the links.
LEMMA WhoWrites ==
    ASSUME AssignmentsInv, [AssignmentsNext]_assignmentVars, parties' # parties \/ link' # link
    PROVE  \/ \E c \in Requests : Writes(c) /\ ~Refuse(c)
           \/ \E T \in SUBSET Txs : Unassign(T)
           \/ DeleteAllTransactions
  <1>1. ASSUME NEW c \in Requests, OwnSteps(c)
        PROVE  Writes(c) /\ ~Refuse(c)
    BY <1>1 DEF OwnSteps, Writes, AssignBegin, AssignCheck, CreateBegin, UpdateBegin, UpdateCheck,
                DeleteBegin, DeleteCount, ImportBegin, ImportMatch, Abort, Begin, Continue, Refuse
  <1> QED BY <1>1 DEF AssignmentsNext, OwnSteps, StoreLine, assignmentVars

\* A request ends by its last write, or without effect.
LEMMA WhoEnds ==
    ASSUME AssignmentsInv, [AssignmentsNext]_assignmentVars, NEW c \in Requests,
           request[c] # Idle, request'[c] = Idle
    PROVE  \/ UNCHANGED <<ledger, parties, link>>
           \/ Writes(c) /\ ~Refuse(c)
  <1>1. ASSUME NEW d \in Requests, OwnSteps(d)
        PROVE  d = c
    <2>1. \E r : request' = [request EXCEPT ![d] = r]
      BY <1>1 DEF OwnSteps, AssignBegin, AssignCheck, AssignWrite, CreateBegin, CreateWrite,
                  UpdateBegin, UpdateCheck, UpdateWrite, DeleteBegin, DeleteCount, DeleteWrite,
                  ImportBegin, ImportMatch, ImportWrite, Abort, Begin, Continue, Refuse, Finish
    <2> QED BY <2>1 DEF AssignmentsInv, Shapes
  <1>2. ASSUME OwnSteps(c)
        PROVE  UNCHANGED <<ledger, parties, link>> \/ (Writes(c) /\ ~Refuse(c))
    BY <1>2 DEF OwnSteps, Writes, AssignBegin, AssignCheck, CreateBegin, UpdateBegin, UpdateCheck,
                DeleteBegin, DeleteCount, ImportBegin, ImportMatch, Abort, Begin, Continue, Refuse
  <1> QED BY <1>1, <1>2
          DEF AssignmentsNext, OwnSteps, Unassign, StoreLine, DeleteAllTransactions, assignmentVars

\* A link that is made fits its transaction.
LEMMA NewLinksSuit ==
    ASSUME AssignmentsInv, [AssignmentsNext]_assignmentVars, NEW k \in Kinds, NEW t \in Txs,
           link'[k][t] # link[k][t], link'[k][t] # None
    PROVE  Suits(parties'[link'[k][t]], ledger'[t])
  <1>1. CASE \E c \in Requests : Writes(c) /\ ~Refuse(c)
    <2>1. PICK c \in Requests : Writes(c) /\ ~Refuse(c)
      BY <1>1
    <2>2. CASE AssignWrite(c)
      <3>1. PICK r : r = request[c]
        OBVIOUS
      <3>2. PICK items : items = AssignedLinks(r)
        OBVIOUS
      <3>3. Assigned(c, r, items)
        BY <2>1, <2>2, <3>1, <3>2, AssignEffect
      <3>4. /\ t \in r.txs /\ link'[k][t] = r.id /\ Linkable(parties, r.id, t)
            /\ UNCHANGED <<parties, ledger>>
        BY <3>3 DEF Assigned
      <3> QED BY <3>4 DEF Linkable
    <2>3. CASE ImportWrite(c)
      <3>1. PICK m : m = request[c].match
        OBVIOUS
      <3>2. m \in Matches /\ Imported(c, m)
        BY <2>1, <2>3, <3>1, ImportEffect
      <3>3. k = "donor" /\ ledger' = ledger
        BY <3>2 DEF Imported, Kinds, Finish
      <3>4. PICK r \in DOMAIN m : r.tx = t /\ link'["donor"][t] = DonorFor(m, r)
        BY <3>2, <3>3 DEF Imported
      <3> QED BY <2>1, <2>3, <3>1, <3>3, <3>4, ImportDonor
    <2>4. CASE CreateWrite(c) \/ UpdateWrite(c)
      BY <2>1, <2>4 DEF CreateWrite, UpdateWrite
    <2>5. CASE DeleteWrite(c)
      <3>1. PICK id : id = request[c].id
        OBVIOUS
      <3>2. link' = [h \in Kinds |-> [u \in Txs |-> IF link[h][u] = id THEN None ELSE link[h][u]]]
        BY <2>1, <2>5, <3>1 DEF DeleteWrite
      <3> QED BY <3>2
    <2> QED BY <2>1, <2>2, <2>3, <2>4, <2>5 DEF Writes
  <1>2. CASE \E T \in SUBSET Txs : Unassign(T)
    <2>1. PICK T \in SUBSET Txs : Unassign(T)
      BY <1>2
    <2>2. link \in [Kinds -> [Txs -> Ids \cup {None}]]
      BY DEF AssignmentsInv, Shapes
    <2>3. link'[k][t] \in {link[k][t], None}
      BY <2>1, <2>2 DEF Unassign
    <2> QED BY <2>3
  <1>3. CASE DeleteAllTransactions
    BY <1>3 DEF DeleteAllTransactions
  <1> QED BY <1>1, <1>2, <1>3, WhoWrites

\* For any transactions, rows, files and requests: a donor or counterpart that
\* does not fit its transaction gets there by an edit or a re-import, never by
\* an assignment or an import (UnfitOnlyByEdit).
THEOREM MadeLinksFit == AssignmentsSpec => UnfitOnlyByEdit
  <1>1. AssignmentsInv /\ [AssignmentsNext]_assignmentVars =>
          [\A k \in Kinds, t \in Txs :
              Fits(k, t) /\ ~Fits(k, t)' =>
                  /\ link'[k][t] = link[k][t]
                  /\ \/ ledger'[t] # ledger[t]
                     \/ parties'[link[k][t]] # parties[link[k][t]]]_assignmentVars
    <2> SUFFICES ASSUME AssignmentsInv, [AssignmentsNext]_assignmentVars,
                        NEW k \in Kinds, NEW t \in Txs, Fits(k, t), ~Fits(k, t)'
                 PROVE  /\ link'[k][t] = link[k][t]
                        /\ \/ ledger'[t] # ledger[t]
                           \/ parties'[link[k][t]] # parties[link[k][t]]
      OBVIOUS
    <2>1. link'[k][t] # None /\ ~Suits(parties'[link'[k][t]], ledger'[t])
      BY DEF Fits, Suits
    <2>2. link'[k][t] = link[k][t]
      BY <2>1, NewLinksSuit
    <2>3. Suits(parties[link[k][t]], ledger[t])
      BY <2>1, <2>2 DEF Fits
    <2> QED BY <2>1, <2>2, <2>3
  <1> QED BY <1>1, AssignmentsInductive, PTL DEF AssignmentsSpec, UnfitOnlyByEdit

\* For any number of requests: deleting a donor or counterpart takes no link
\* with it that was there when the deletion was asked for
\* (DeletionTakesOnlyNewLinks).
THEOREM OldLinksOutliveDeletions == AssignmentsSpec => DeletionTakesOnlyNewLinks
  <1>1. AssignmentsInv /\ [AssignmentsNext]_assignmentVars =>
          [\A c \in Requests :
              At(c, "delete", "write") /\ parties' # parties /\ request'[c] = Idle =>
                  \A k \in Kinds, t \in Txs :
                      link'[k][t] # link[k][t] => <<k, t>> \in written[c]]_assignmentVars
    <2> SUFFICES ASSUME AssignmentsInv, [AssignmentsNext]_assignmentVars, NEW c \in Requests,
                        At(c, "delete", "write"), parties' # parties, request'[c] = Idle,
                        NEW k \in Kinds, NEW t \in Txs, link'[k][t] # link[k][t]
                 PROVE  <<k, t>> \in written[c]
      OBVIOUS
    <2>1. DeleteWrite(c) /\ ~Refuse(c)
      BY WhoEnds DEF At, Writes, AssignWrite, CreateWrite, UpdateWrite, ImportWrite
    <2>2. PICK id : id = request[c].id
      OBVIOUS
    <2>3. LinksOf(id) \subseteq written[c]
      BY <2>1, <2>2, DeleteEffect
    <2>4. link' = [h \in Kinds |-> [u \in Txs |-> IF link[h][u] = id THEN None ELSE link[h][u]]]
      BY <2>1, <2>2 DEF DeleteWrite
    <2>5. link[k][t] = id
      BY <2>4
    <2>6. <<k, t>> \in LinksOf(id)
      BY <2>5 DEF LinksOf
    <2> QED BY <2>3, <2>6
  <1> QED BY <1>1, AssignmentsInductive, PTL DEF AssignmentsSpec, DeletionTakesOnlyNewLinks

\* For any files and requests: an import links each transaction it takes to the
\* donor its row names, unless that donor was changed meanwhile, and nothing
\* else; or it changes nothing at all (ImportLinksAsFiled).
THEOREM ImportsLinkAsFiled == AssignmentsSpec => ImportLinksAsFiled
  <1>1. ASSUME AssignmentsInv, [AssignmentsNext]_assignmentVars, NEW c \in Requests,
               At(c, "import", "write"), request'[c] = Idle
        PROVE  LET valid == DOMAIN request[c].match
                   taken == {r.tx : r \in valid}
               IN  \/ UNCHANGED <<ledger, parties, link>>
                   \/ /\ \A r \in valid : LET id == link'["donor"][r.tx] IN
                           id # None /\ (parties'[id] = DonorOf(r) \/ PartyRow(id) \in written[c])
                      /\ \A k \in Kinds, t \in Txs : link'[k][t] # link[k][t] =>
                           k = "donor" /\ t \in taken
    <2>1. CASE UNCHANGED <<ledger, parties, link>>
      BY <2>1
    <2>2. CASE ~UNCHANGED <<ledger, parties, link>>
      <3>1. ImportWrite(c) /\ ~Refuse(c)
        BY <1>1, <2>2, WhoEnds DEF At, Writes, AssignWrite, CreateWrite, UpdateWrite, DeleteWrite
      <3>2. PICK m : m = request[c].match
        OBVIOUS
      <3>3. m \in Matches /\ Imported(c, m)
        BY <1>1, <3>1, <3>2, ImportEffect
      <3>4. \A q, s \in DOMAIN m : q.tx = s.tx => q = s
        BY <1>1, <3>2, InvFacts DEF Tracked, At
      <3>5. ASSUME NEW r \in DOMAIN m
            PROVE  /\ link'["donor"][r.tx] # None
                   /\ \/ parties'[link'["donor"][r.tx]] = DonorOf(r)
                      \/ PartyRow(link'["donor"][r.tx]) \in written[c]
        <4>1. r.tx \in Txs
          BY <3>3, MatchTyped
        <4>2. link'["donor"][r.tx] = DonorFor(m, r)
          BY <3>3, <3>4, <4>1 DEF Imported
        <4> QED BY <1>1, <3>1, <3>2, <4>2, ImportDonor
      <3>6. ASSUME NEW k \in Kinds, NEW t \in Txs, link'[k][t] # link[k][t]
            PROVE  k = "donor" /\ \E r \in DOMAIN m : r.tx = t
        BY <3>3, <3>6 DEF Imported, Kinds
      <3> QED BY <3>2, <3>5, <3>6
    <2> QED BY <2>1, <2>2
  <1>2. AssignmentsInv /\ [AssignmentsNext]_assignmentVars =>
          [\A c \in Requests : At(c, "import", "write") /\ request'[c] = Idle =>
              LET valid == DOMAIN request[c].match
                  taken == {r.tx : r \in valid}
              IN  \/ UNCHANGED <<ledger, parties, link>>
                  \/ /\ \A r \in valid : LET id == link'["donor"][r.tx] IN
                          id # None /\ (parties'[id] = DonorOf(r) \/ PartyRow(id) \in written[c])
                     /\ \A k \in Kinds, t \in Txs : link'[k][t] # link[k][t] =>
                          k = "donor" /\ t \in taken]_assignmentVars
    BY <1>1
  <1> QED BY <1>2, AssignmentsInductive, PTL DEF AssignmentsSpec, ImportLinksAsFiled

\* Two equal rows, new as a pair, are news to the request that wrote one of them.
LEMMA DuplicatesAreNews ==
    ASSUME AssignmentsInv, NEW c \in Requests, Writes(c), ~Refuse(c),
           NEW i \in Ids, NEW j \in Ids, {i, j} \subseteq DOMAIN parties', i < j,
           Alike(parties'[i], parties'[j]),
           ~({i, j} \subseteq DOMAIN parties /\ Alike(parties[i], parties[j]))
    PROVE  written[c] \cap {PartyRow(i), PartyRow(j)} # {}
  <1>1. CASE AssignWrite(c)
    BY <1>1 DEF AssignWrite
  <1>2. CASE CreateWrite(c)
    <2>1. PICK r : r = request[c]
      OBVIOUS
    <2>2. PICK id : id = spent.ids + 1
      OBVIOUS
    <2>3. r.op = "create" /\ parties' = With(parties, id, r.party)
      BY <1>2, <2>1, <2>2 DEF CreateWrite, At
    <2>4. /\ DOMAIN parties' = DOMAIN parties \cup {id} /\ parties'[id] = r.party
          /\ \A h \in DOMAIN parties : h # id => parties'[h] = parties[h]
      BY <2>3 DEF With
    <2>5. \A h \in SameKey(r.party) : PartyRow(h) \in written[c]
      BY <2>1, <2>3, InvFacts DEF Tracked
    <2>6. i \in DOMAIN parties /\ j = id
      BY <2>2, <2>4, InvFacts
    <2>7. i \in SameKey(r.party)
      BY <2>4, <2>6 DEF SameKey, Alike
    <2> QED BY <2>5, <2>7
  <1>3. CASE UpdateWrite(c)
    <2>1. PICK r : r = request[c]
      OBVIOUS
    <2>2. r.op = "update" /\ r.pc = "write" /\ r.id \in DOMAIN parties
          /\ parties' = With(parties, r.id, r.party)
      BY <1>3, <2>1 DEF UpdateWrite, At
    <2>3. /\ DOMAIN parties' = DOMAIN parties /\ parties'[r.id] = r.party
          /\ \A h \in DOMAIN parties : h # r.id => parties'[h] = parties[h]
      BY <2>2 DEF With
    <2>4. \/ parties[r.id] = r.party \/ PartyRow(r.id) \in written[c]
          \/ \A h \in SameKey(r.party) \ {r.id} : PartyRow(h) \in written[c]
      BY <2>1, <2>2, InvFacts DEF Tracked
    <2>5. i = r.id \/ j = r.id
      BY <2>3
    <2>6. parties[r.id] # r.party
      BY <2>3
    <2>7. PICK h \in {i, j} : h # r.id
      <3>1. i # j
        BY AssignmentsAssumption DEF Ids
      <3> QED BY <3>1
    <2>8. h \in SameKey(r.party) \ {r.id}
      BY <2>3, <2>5, <2>7 DEF SameKey, Alike
    <2>9. PartyRow(r.id) \in written[c] \/ PartyRow(h) \in written[c]
      BY <2>4, <2>6, <2>8
    <2> QED BY <2>5, <2>7, <2>9
  <1>4. CASE DeleteWrite(c)
    <2>1. PICK id : id = request[c].id
      OBVIOUS
    <2>2. parties' = [h \in DOMAIN parties \ {id} |-> parties[h]]
      BY <1>4, <2>1 DEF DeleteWrite
    <2> QED BY <2>2
  <1>5. CASE ImportWrite(c)
    <2>1. PICK m : m = request[c].match
      OBVIOUS
    <2>2. m \in Matches /\ Imported(c, m)
      BY <1>5, <2>1, ImportEffect
    <2>3. ASSUME NEW h \in NewIds(m), NEW g \in DOMAIN parties, g \notin NewIds(m),
                 h \in DOMAIN parties', Alike(parties[g], parties'[h])
          PROVE  PartyRow(g) \in written[c]
      <3>1. parties'[h] \in Missing(m)
        BY <2>2, <2>3 DEF Imported
      <3>2. PICK q \in DOMAIN m : m[q] = None /\ parties'[h] = DonorOf(q)
        BY <3>1 DEF Missing
      <3>3. g \in SameKey(DonorOf(q))
        BY <2>3, <3>2 DEF SameKey
      <3> QED BY <1>5, <2>1, <3>2, <3>3, InvFacts DEF Tracked, ImportWrite, At
    <2>4. \A h \in {i, j} : h \in NewIds(m) \/ (h \in DOMAIN parties /\ parties'[h] = parties[h])
      BY <2>2 DEF Imported
    <2>5. CASE i \in NewIds(m) /\ j \in NewIds(m)
      <3>1. /\ parties'[i] \in Missing(m) /\ Numbering(m)[parties'[i]] = i
            /\ parties'[j] \in Missing(m) /\ Numbering(m)[parties'[j]] = j
        BY <2>2, <2>5 DEF Imported
      <3>2. parties'[i] = parties'[j]
        BY <2>2, <3>1, MissingFinite, AlikeIsEqual
      <3>3. i # j
        BY AssignmentsAssumption DEF Ids
      <3> QED BY <3>1, <3>2, <3>3
    <2>6. CASE i \notin NewIds(m) /\ j \in NewIds(m)
      <3>1. Alike(parties[i], parties'[j])
        BY <2>4, <2>6 DEF Alike
      <3> QED BY <2>3, <2>4, <2>6, <3>1
    <2>7. CASE i \in NewIds(m) /\ j \notin NewIds(m)
      <3>1. Alike(parties[j], parties'[i])
        BY <2>4, <2>7 DEF Alike
      <3> QED BY <2>3, <2>4, <2>7, <3>1
    <2>8. CASE i \notin NewIds(m) /\ j \notin NewIds(m)
      BY <2>4, <2>8
    <2> QED BY <2>5, <2>6, <2>7, <2>8
  <1> QED BY <1>1, <1>2, <1>3, <1>4, <1>5 DEF Writes

\* For any rows, files and requests: two equal rows come about only without an
\* address and only by overlapping requests (DuplicatesOnlyByOverlap).
THEOREM DuplicatesNeedOverlap == AssignmentsSpec => DuplicatesOnlyByOverlap
  <1>1. AssignmentsInv /\ AssignmentsInv' /\ [AssignmentsNext]_assignmentVars =>
          [\A i, j \in Ids :
              /\ {i, j} \subseteq DOMAIN parties' /\ i < j
              /\ Alike(parties[i], parties[j])'
              /\ ~({i, j} \subseteq DOMAIN parties /\ Alike(parties[i], parties[j]))
              => /\ parties'[i].key \in NoAddress
                 /\ \E c \in Requests :
                       request[c] # Idle /\ request'[c] = Idle
                       /\ written[c] \cap {PartyRow(i), PartyRow(j)} # {}]_assignmentVars
    <2> SUFFICES ASSUME AssignmentsInv, AssignmentsInv', [AssignmentsNext]_assignmentVars,
                        NEW i \in Ids, NEW j \in Ids,
                        {i, j} \subseteq DOMAIN parties', i < j,
                        Alike(parties[i], parties[j])',
                        ~({i, j} \subseteq DOMAIN parties /\ Alike(parties[i], parties[j]))
                 PROVE  /\ parties'[i].key \in NoAddress
                        /\ \E c \in Requests :
                              request[c] # Idle /\ request'[c] = Idle
                              /\ written[c] \cap {PartyRow(i), PartyRow(j)} # {}
      OBVIOUS
    <2>1. Alike(parties'[i], parties'[j])
      BY DEF Alike
    <2>2. i # j /\ Unique(parties)'
      BY DEF AssignmentsInv, AssignmentsTypeOK, Ids
    <2>3. parties'[i].key \in NoAddress
      BY <2>1, <2>2 DEF Unique, Alike
    <2>4. parties' # parties
      BY <2>1
    <2>5. PICK c \in Requests : Writes(c) /\ ~Refuse(c)
      BY <2>4, WhoWrites DEF Unassign, DeleteAllTransactions
    <2>6. written[c] \cap {PartyRow(i), PartyRow(j)} # {}
      BY <2>1, <2>5, DuplicatesAreNews
    <2>7. request[c] # Idle /\ request'[c] = Idle
      <3>1. request[c] # Idle
        BY <2>5 DEF Writes, AssignWrite, CreateWrite, UpdateWrite, DeleteWrite, ImportWrite, At
      <3>2. request' = [request EXCEPT ![c] = Idle]
        BY <2>5 DEF Writes, AssignWrite, CreateWrite, UpdateWrite, DeleteWrite, ImportWrite,
                    Finish, Refuse
      <3> QED BY <3>1, <3>2 DEF AssignmentsInv, Shapes
    <2> QED BY <2>3, <2>6, <2>7
  <1> QED BY <1>1, AssignmentsInductive, PTL DEF AssignmentsSpec, DuplicatesOnlyByOverlap

-----------------------------------------------------------------------------
(* The tables behind the public site (PublicSite): every version of them    *)
(* there has been keeps its keys, and has lines and snapshots of those      *)
(* there may be; a deletion under way has counted no transaction.           *)

Known(d) ==
    /\ Kept(d)
    /\ \A t \in DOMAIN d.rows : d.rows[t] \in AllLines
    /\ \A i \in DOMAIN d.snaps : \E b \in AllBalances :
          d.snaps[i].year = b.year /\ d.snaps[i].day = b.day /\ d.snaps[i].balance = b.balance

SiteInv ==
    /\ \E S : versions \in Seq(S) /\ \A d \in S : Known(d)
    /\ Now >= 1
    /\ deletion # NoDeletion =>
          deletion.at \in 1..Now /\ RowsOfOrg(versions[deletion.at], deletion.org) = {}

\* A table put in the place of another.
LEMMA TablePut ==
    ASSUME NEW d, d = [orgs |-> d.orgs, rows |-> d.rows, snaps |-> d.snaps], NEW x
    PROVE  /\ [d EXCEPT !.orgs = x] = [orgs |-> x, rows |-> d.rows, snaps |-> d.snaps]
           /\ [d EXCEPT !.rows = x] = [orgs |-> d.orgs, rows |-> x, snaps |-> d.snaps]
           /\ [d EXCEPT !.snaps = x] = [orgs |-> d.orgs, rows |-> d.rows, snaps |-> x]
  OBVIOUS

\* The current tables and what an edit adds to the versions.
LEMMA NowKnown ==
    ASSUME SiteInv
    PROVE  Now \in Nat /\ Known(tables)
  <1>1. PICK S : versions \in Seq(S) /\ \A d \in S : Known(d)
    BY DEF SiteInv
  <1>2. Len(versions) \in Nat /\ Len(versions) >= 1
    BY <1>1, LenProperties DEF SiteInv, Now
  <1>3. versions[Len(versions)] \in S
    BY <1>1, <1>2, ElementOfSeq
  <1> QED BY <1>1, <1>2, <1>3 DEF Now, tables

LEMMA NextVersion ==
    ASSUME SiteInv, NEW d, Known(d), versions' = Append(versions, d)
    PROVE  /\ \E S : versions' \in Seq(S) /\ \A e \in S : Known(e)
           /\ Now' = Now + 1 /\ tables' = d
           /\ \A v \in 1..Now : versions'[v] = versions[v]
  <1>1. PICK S : versions \in Seq(S) /\ \A e \in S : Known(e)
    BY DEF SiteInv
  <1> DEFINE T == S \cup {d}
  <1>2. versions \in Seq(T) /\ d \in T /\ \A e \in T : Known(e)
    <2>1. versions \in [1..Len(versions) -> S] /\ Len(versions) \in Nat
      BY <1>1, LenProperties
    <2>2. versions \in [1..Len(versions) -> T]
      BY <2>1
    <2> QED BY <1>1, <2>1, <2>2, SeqDef
  <1> HIDE DEF T
  <1>3. /\ versions' \in Seq(T) /\ Len(versions') = Len(versions) + 1
        /\ \A v \in 1..Len(versions) : versions'[v] = versions[v]
        /\ versions'[Len(versions) + 1] = d
    BY <1>2, AppendProperties
  <1> QED BY <1>2, <1>3 DEF Now, tables

\* The edits but for the deletion of an organization: they keep the keys and
\* every organization.
LEMMA AltersKnown ==
    ASSUME SiteInv, NEW d, Alter(d), Known(d), DOMAIN tables.orgs \subseteq DOMAIN d.orgs
    PROVE  SiteInv' /\ DOMAIN tables.orgs \subseteq DOMAIN tables'.orgs
  <1>1. versions' = Append(versions, d) /\ deletion' = deletion
    BY DEF Alter, Write
  <1>2. /\ \E S : versions' \in Seq(S) /\ \A e \in S : Known(e)
        /\ Now' = Now + 1 /\ tables' = d
        /\ \A v \in 1..Now : versions'[v] = versions[v]
    BY <1>1, NextVersion
  <1>3. Now \in Nat
    BY NowKnown
  <1>4. deletion' # NoDeletion =>
          deletion'.at \in 1..Now' /\ RowsOfOrg(versions'[deletion'.at], deletion'.org) = {}
    <2> SUFFICES ASSUME deletion # NoDeletion
                 PROVE  deletion.at \in 1..Now' /\ RowsOfOrg(versions'[deletion.at], deletion.org) = {}
      BY <1>1
    <2>1. deletion.at \in 1..Now /\ RowsOfOrg(versions[deletion.at], deletion.org) = {}
      BY DEF SiteInv
    <2>2. versions'[deletion.at] = versions[deletion.at]
      BY <1>2, <2>1
    <2> QED BY <1>2, <1>3, <2>1, <2>2
  <1> QED BY <1>2, <1>3, <1>4 DEF SiteInv

LEMMA RowsAltered ==
    ASSUME SiteInv, NEW o \in DOMAIN tables.orgs,
           (\E lines \in Imports : ImportRows(o, lines)) \/ DeleteRows(o)
    PROVE  SiteInv' /\ DOMAIN tables.orgs \subseteq DOMAIN tables'.orgs
  <1>0. Known(tables) /\ Kept(tables)
    BY NowKnown DEF Known
  <1>1. ASSUME NEW lines \in Imports, ImportRows(o, lines)
        PROVE  SiteInv' /\ DOMAIN tables.orgs \subseteq DOMAIN tables'.orgs
    <2> DEFINE new == {o} \X DOMAIN lines
               rows == [t \in DOMAIN tables.rows \cup new |->
                          IF t[1] = o /\ t[2] \in DOMAIN lines THEN lines[t[2]] ELSE tables.rows[t]]
               d == [orgs |-> tables.orgs, rows |-> rows, snaps |-> tables.snaps]
    <2>1. Alter(d)
      BY <1>0, <1>1, TablePut DEF ImportRows, Kept
    <2>2. DOMAIN lines \subseteq Nat /\ IsFiniteSet(DOMAIN lines)
      BY SiteAssumption
    <2>3. /\ DOMAIN rows \subseteq (DOMAIN tables.orgs) \X Nat
          /\ IsFiniteSet(DOMAIN rows)
      <3>1. IsFiniteSet(new) /\ new \subseteq (DOMAIN tables.orgs) \X Nat
        <4>1. IsFiniteSet({o})
          BY FS_Singleton
        <4>2. IsFiniteSet({o} \X DOMAIN lines)
          BY <2>2, <4>1, FS_Product
        <4> QED BY <2>2, <4>2
      <3>2. DOMAIN rows = DOMAIN tables.rows \cup new
        OBVIOUS
      <3>3. IsFiniteSet(DOMAIN tables.rows \cup new)
        BY <1>0, <3>1, FS_Union DEF Kept
      <3> HIDE DEF new, rows
      <3> QED BY <1>0, <3>1, <3>2, <3>3 DEF Kept
    <2>4. \A n \in DOMAIN lines : lines[n] \in AllLines
      BY DEF AllLines
    <2>5. \A t \in DOMAIN rows : rows[t] \in AllLines
      BY <1>0, <2>4 DEF Known
    <2>6. Known(d)
      <3> HIDE DEF rows
      <3> QED BY <1>0, <2>3, <2>5 DEF Known, Kept
    <2> QED BY <2>1, <2>6, AltersKnown
  <1>2. CASE DeleteRows(o)
    <2> DEFINE rows == [t \in DOMAIN tables.rows \ RowsOfOrg(tables, o) |-> tables.rows[t]]
               d == [orgs |-> tables.orgs, rows |-> rows, snaps |-> tables.snaps]
    <2>1. Alter(d)
      BY <1>0, <1>2, TablePut DEF DeleteRows, Kept
    <2>2. /\ DOMAIN rows \subseteq DOMAIN tables.rows
          /\ \A t \in DOMAIN rows : rows[t] = tables.rows[t]
      OBVIOUS
    <2>3. IsFiniteSet(DOMAIN rows)
      BY <1>0, <2>2, FS_Subset DEF Kept
    <2>4. Known(d)
      <3> HIDE DEF rows
      <3> QED BY <1>0, <2>2, <2>3 DEF Known, Kept
    <2> QED BY <2>1, <2>4, AltersKnown
  <1> QED BY <1>1, <1>2

LEMMA SnapshotsAltered ==
    ASSUME SiteInv,
           \/ \E o \in DOMAIN tables.orgs, b \in Balances : CreateSnapshot(o, b)
           \/ \E i \in DOMAIN tables.snaps : DeleteSnapshot(i)
    PROVE  SiteInv' /\ DOMAIN tables.orgs \subseteq DOMAIN tables'.orgs
  <1>0. Known(tables) /\ Kept(tables) /\ Now \in Nat
    BY NowKnown DEF Known
  <1>1. ASSUME NEW o \in DOMAIN tables.orgs, NEW b \in Balances, CreateSnapshot(o, b)
        PROVE  SiteInv' /\ DOMAIN tables.orgs \subseteq DOMAIN tables'.orgs
    <2> DEFINE id == 1 + Cardinality(DOMAIN tables.snaps) + Now
               snap == [org |-> o, year |-> b.year, day |-> b.day, balance |-> b.balance]
               snaps == [i \in DOMAIN tables.snaps \cup {id} |->
                           IF i = id THEN snap ELSE tables.snaps[i]]
               d == [orgs |-> tables.orgs, rows |-> tables.rows, snaps |-> snaps]
    <2>1. Alter(d)
      BY <1>0, <1>1, TablePut DEF CreateSnapshot, Kept
    <2>2. id \in Nat
      BY <1>0, FS_CardinalityType DEF Kept
    <2> HIDE DEF id
    <2>3. /\ DOMAIN snaps = DOMAIN tables.snaps \cup {id}
          /\ \A i \in DOMAIN snaps : snaps[i] = snap \/ (i \in DOMAIN tables.snaps /\ snaps[i] = tables.snaps[i])
      OBVIOUS
    <2>4. IsFiniteSet(DOMAIN snaps) /\ DOMAIN snaps \subseteq Nat
      BY <1>0, <2>2, <2>3, FS_Singleton, FS_Union DEF Kept
    <2>5. b \in AllBalances /\ snap.year = b.year /\ snap.day = b.day /\ snap.balance = b.balance
      BY DEF AllBalances
    <2>6. Known(d)
      <3> HIDE DEF snaps, snap
      <3> QED BY <1>0, <2>3, <2>4, <2>5 DEF Known, Kept
    <2> QED BY <2>1, <2>6, AltersKnown
  <1>2. ASSUME NEW i \in DOMAIN tables.snaps, DeleteSnapshot(i)
        PROVE  SiteInv' /\ DOMAIN tables.orgs \subseteq DOMAIN tables'.orgs
    <2> DEFINE snaps == [j \in DOMAIN tables.snaps \ {i} |-> tables.snaps[j]]
               d == [orgs |-> tables.orgs, rows |-> tables.rows, snaps |-> snaps]
    <2>1. Alter(d)
      BY <1>0, <1>2, TablePut DEF DeleteSnapshot, Kept
    <2>2. /\ DOMAIN snaps \subseteq DOMAIN tables.snaps
          /\ \A j \in DOMAIN snaps : snaps[j] = tables.snaps[j]
      OBVIOUS
    <2>3. IsFiniteSet(DOMAIN snaps)
      BY <1>0, <2>2, FS_Subset DEF Kept
    <2>4. Known(d)
      <3> HIDE DEF snaps
      <3> QED BY <1>0, <2>2, <2>3 DEF Known, Kept
    <2> QED BY <2>1, <2>4, AltersKnown
  <1> QED BY <1>1, <1>2

LEMMA OrganizationSaved ==
    ASSUME SiteInv, NEW o, NEW s \in Slugs, SaveOrganization(o, s)
    PROVE  SiteInv' /\ DOMAIN tables.orgs \subseteq DOMAIN tables'.orgs
  <1> DEFINE orgs == [i \in DOMAIN tables.orgs \cup {o} |-> IF i = o THEN s ELSE tables.orgs[i]]
             d == [orgs |-> orgs, rows |-> tables.rows, snaps |-> tables.snaps]
  <1>0. Known(tables) /\ Kept(tables)
    BY NowKnown DEF Known
  <1>1. Alter(d)
    BY <1>0, TablePut DEF SaveOrganization, Kept
  <1>2. /\ DOMAIN orgs = DOMAIN tables.orgs \cup {o} /\ orgs[o] = s
        /\ \A i \in DOMAIN tables.orgs : i # o => orgs[i] = tables.orgs[i]
    OBVIOUS
  <1>3. \A i \in DOMAIN tables.orgs : tables.orgs[i] # s
    BY DEF SaveOrganization, ListedSlugs
  <1>4. \A i, j \in DOMAIN orgs : orgs[i] \in Slugs /\ (i # j => orgs[i] # orgs[j])
    <2> HIDE DEF orgs
    <2> QED BY <1>0, <1>2, <1>3 DEF Kept
  <1>5. Known(d)
    <2> HIDE DEF orgs
    <2> QED BY <1>0, <1>2, <1>4 DEF Known, Kept
  <1> QED BY <1>1, <1>2, <1>5, AltersKnown

\* The deletion: what it counted, and what its cascade takes.
LEMMA DeletionKeeps ==
    ASSUME SiteInv,
           (\E o \in DOMAIN tables.orgs : DeleteOrganizationCount(o)) \/ DeleteOrganizationWrite
    PROVE  SiteInv'
  <1>0. Known(tables) /\ Kept(tables) /\ Now \in Nat /\ Now >= 1
    BY NowKnown DEF Known, SiteInv
  <1>1. ASSUME NEW o \in DOMAIN tables.orgs, DeleteOrganizationCount(o)
        PROVE  SiteInv'
    <2>1. versions' = versions /\ deletion' = [org |-> o, at |-> Now] /\ RowsOfOrg(tables, o) = {}
      BY <1>1 DEF DeleteOrganizationCount
    <2>2. Now' = Now /\ deletion'.at = Now /\ deletion'.org = o /\ versions'[Now] = tables
      BY <2>1 DEF Now, tables
    <2> QED BY <1>0, <2>1, <2>2 DEF SiteInv
  <1>2. CASE DeleteOrganizationWrite
    <2> DEFINE o == deletion.org
               orgs == [i \in DOMAIN tables.orgs \ {o} |-> tables.orgs[i]]
               rows == [t \in DOMAIN tables.rows \ RowsOfOrg(tables, o) |-> tables.rows[t]]
               snaps == [i \in DOMAIN tables.snaps \ SnapsOf(tables, o) |-> tables.snaps[i]]
               d == [orgs |-> orgs, rows |-> rows, snaps |-> snaps]
    <2>1. versions' = Append(versions, d) /\ deletion' = NoDeletion
      BY <1>2 DEF DeleteOrganizationWrite, Write
    <2>2. /\ DOMAIN orgs = DOMAIN tables.orgs \ {o}
          /\ \A i \in DOMAIN orgs : orgs[i] = tables.orgs[i]
          /\ DOMAIN rows \subseteq DOMAIN tables.rows
          /\ \A t \in DOMAIN rows : rows[t] = tables.rows[t]
          /\ DOMAIN snaps \subseteq DOMAIN tables.snaps
          /\ \A i \in DOMAIN snaps : snaps[i] = tables.snaps[i]
      OBVIOUS
    <2>3. \A t \in DOMAIN rows : t[1] # o
      BY DEF RowsOfOrg
    <2>4. IsFiniteSet(DOMAIN rows) /\ IsFiniteSet(DOMAIN snaps)
      BY <1>0, <2>2, FS_Subset DEF Kept
    <2>5. DOMAIN rows \subseteq (DOMAIN orgs) \X Nat
      <3> HIDE DEF orgs, rows, snaps
      <3> QED BY <1>0, <2>2, <2>3 DEF Kept
    <2>6. Known(d)
      <3> HIDE DEF orgs, rows, snaps
      <3>1. /\ d = [orgs |-> d.orgs, rows |-> d.rows, snaps |-> d.snaps]
            /\ d.orgs = orgs /\ d.rows = rows /\ d.snaps = snaps
        OBVIOUS
      <3>2. \A i, j \in DOMAIN orgs : orgs[i] \in Slugs /\ (i # j => orgs[i] # orgs[j])
        BY <1>0, <2>2 DEF Kept
      <3>3. DOMAIN snaps \subseteq Nat
        BY <1>0, <2>2 DEF Kept
      <3> HIDE DEF d
      <3>4. Kept(d)
        BY <2>4, <2>5, <3>1, <3>2, <3>3 DEF Kept
      <3> QED BY <1>0, <2>2, <3>1, <3>4 DEF Known
    <2>7. (\E S : versions' \in Seq(S) /\ \A e \in S : Known(e)) /\ Now' = Now + 1
      <3> HIDE DEF d
      <3> QED BY <2>1, <2>6, NextVersion
    <2> QED BY <1>0, <2>1, <2>7 DEF SiteInv
  <1> QED BY <1>1, <1>2

LEMMA SiteInitInv == SiteInit => SiteInv
  <1> SUFFICES ASSUME SiteInit PROVE SiteInv
    OBVIOUS
  <1>1. PICK d \in FirstTables : versions = <<d>>
    BY DEF SiteInit
  <1>2. Known(d)
    <2>1. \A t \in DOMAIN d.rows : d.rows[t] \in AllLines
      BY DEF AllLines
    <2>2. \A i \in DOMAIN d.snaps : d.snaps[i] \in AllBalances
      BY DEF AllBalances
    <2> QED BY <2>1, <2>2, SiteAssumption DEF Known
  <1>3. versions \in Seq({d}) /\ Len(versions) = 1
    BY <1>1
  <1>4. \E S : versions \in Seq(S) /\ \A e \in S : Known(e)
    <2>1. \A e \in {d} : Known(e)
      BY <1>2
    <2> QED BY <1>3, <2>1
  <1>5. Now = 1 /\ deletion = NoDeletion
    BY <1>3 DEF SiteInit, Now
  <1> QED BY <1>4, <1>5 DEF SiteInv

\* A step that is no deletion keeps every organization.
LEMMA SiteNextInv ==
    ASSUME SiteInv, [SiteNext]_siteVars
    PROVE  /\ SiteInv'
           /\ DOMAIN tables.orgs \subseteq DOMAIN tables'.orgs \/ DeleteOrganizationWrite
  <1>1. CASE versions' = versions /\ deletion' = deletion
    BY <1>1 DEF SiteInv, Now, tables
  <1>2. ASSUME NEW k \in CacheKeys, Visit(k) \/ Expire(k)
        PROVE  versions' = versions /\ deletion' = deletion
    BY <1>2 DEF Visit, Expire
  <1>3. ASSUME NEW l \in loads, FinishLoad(l)
        PROVE  versions' = versions /\ deletion' = deletion
    BY <1>3 DEF FinishLoad
  <1>4. CASE Refresh
    BY <1>1, <1>4 DEF Refresh
  <1>5. ASSUME NEW o \in DOMAIN tables.orgs,
               (\E lines \in Imports : ImportRows(o, lines)) \/ DeleteRows(o)
        PROVE  SiteInv' /\ DOMAIN tables.orgs \subseteq DOMAIN tables'.orgs
    BY <1>5, RowsAltered
  <1>6. ASSUME \/ \E o \in DOMAIN tables.orgs, b \in Balances : CreateSnapshot(o, b)
               \/ \E i \in DOMAIN tables.snaps : DeleteSnapshot(i)
        PROVE  SiteInv' /\ DOMAIN tables.orgs \subseteq DOMAIN tables'.orgs
    BY <1>6, SnapshotsAltered
  <1>7. ASSUME NEW o, NEW s \in Slugs, SaveOrganization(o, s)
        PROVE  SiteInv' /\ DOMAIN tables.orgs \subseteq DOMAIN tables'.orgs
    BY <1>7, OrganizationSaved
  <1>8. ASSUME NEW o \in DOMAIN tables.orgs, DeleteOrganizationCount(o)
        PROVE  SiteInv' /\ DOMAIN tables.orgs \subseteq DOMAIN tables'.orgs
    <2>1. tables' = tables
      BY <1>8 DEF DeleteOrganizationCount, tables, Now
    <2> QED BY <1>8, <2>1, DeletionKeeps
  <1>9. CASE DeleteOrganizationWrite
    BY <1>9, DeletionKeeps
  <1>10. CASE UNCHANGED siteVars
    BY <1>1, <1>10 DEF siteVars
  <1> QED BY <1>1, <1>2, <1>3, <1>4, <1>5, <1>6, <1>7, <1>8, <1>9, <1>10 DEF SiteNext

\* Everything of another organization is what it was.
LEMMA OthersKeep ==
    ASSUME SiteInv, DeleteOrganizationWrite
    PROVE  /\ DOMAIN tables'.orgs = DOMAIN tables.orgs \ {deletion.org}
           /\ \A q \in DOMAIN tables.orgs \ {deletion.org} :
                 View(tables, tables.orgs[q]) = View(tables', tables.orgs[q])
  <1> DEFINE o == deletion.org
             orgs == [i \in DOMAIN tables.orgs \ {o} |-> tables.orgs[i]]
             rows == [t \in DOMAIN tables.rows \ RowsOfOrg(tables, o) |-> tables.rows[t]]
             snaps == [i \in DOMAIN tables.snaps \ SnapsOf(tables, o) |-> tables.snaps[i]]
             d == [orgs |-> orgs, rows |-> rows, snaps |-> snaps]
  <1>0. Known(tables) /\ Kept(tables)
    BY NowKnown DEF Known
  <1>1. tables' = d
    <2>1. versions' = Append(versions, d)
      BY DEF DeleteOrganizationWrite, Write
    <2>2. PICK S : versions \in Seq(S)
      BY DEF SiteInv
    <2>3. Len(versions') = Len(versions) + 1 /\ versions'[Len(versions) + 1] = d
      <3>1. Len(versions) \in Nat /\ versions = [i \in 1..Len(versions) |-> versions[i]]
        BY <2>2, LenProperties
      <3> HIDE DEF d
      <3> QED BY <2>1, <2>2, <3>1
    <2> HIDE DEF d
    <2> QED BY <2>3 DEF tables, Now
  <1>2. tables'.orgs = orgs /\ tables'.rows = rows /\ tables'.snaps = snaps
    BY <1>1
  <1>3. ASSUME NEW q \in DOMAIN tables.orgs \ {o}
        PROVE  View(tables, tables.orgs[q]) = View(tables', tables.orgs[q])
    <2>1. FindBySlug(tables, tables.orgs[q]) = {q} /\ FindBySlug(tables', tables.orgs[q]) = {q}
      BY <1>0, <1>2 DEF FindBySlug, Kept
    <2>2. /\ RowsOfOrg(tables', q) = RowsOfOrg(tables, q)
          /\ \A t \in RowsOfOrg(tables, q) : tables'.rows[t] = tables.rows[t]
      BY <1>2 DEF RowsOfOrg
    <2>3. LinesOf(tables', q) = LinesOf(tables, q)
      <3>1. \A t \in RowsOfOrg(tables, q) : t = <<q, t[2]>>
        BY <1>0 DEF RowsOfOrg, Kept
      <3>2. \A n \in {t[2] : t \in RowsOfOrg(tables, q)} :
               tables'.rows[<<q, n>>] = tables.rows[<<q, n>>]
        BY <2>2, <3>1
      <3> QED BY <2>2, <3>2 DEF LinesOf
    <2>4. /\ SnapsOf(tables', q) = SnapsOf(tables, q)
          /\ \A i \in SnapsOf(tables, q) : tables'.snaps[i] = tables.snaps[i]
      BY <1>2 DEF SnapsOf
    <2>5. [i \in SnapsOf(tables', q) |-> tables'.snaps[i]] = [i \in SnapsOf(tables, q) |-> tables.snaps[i]]
      BY <2>4
    <2> QED BY <2>1, <2>3, <2>5 DEF View
  <1>4. DOMAIN tables'.orgs = DOMAIN tables.orgs \ {o}
    BY <1>2
  <1> HIDE DEF d, orgs, rows, snaps
  <1> QED BY <1>3, <1>4

\* The deletion of an organization takes no transaction with it that was there
\* when it was asked for, and nothing of another organization.
THEOREM OrganizationsOutliveTheirRows == SiteSpec => OrganizationDeletionTakesOnlyNewRows
  <1> DEFINE A == \A o \in DOMAIN tables.orgs : o \notin DOMAIN tables'.orgs =>
                    /\ RowsOfOrg(versions[deletion.at], o) = {}
                    /\ \A q \in DOMAIN tables.orgs \ {o} : View(tables, tables.orgs[q])
                                                            = View(tables', tables.orgs[q])
  <1>1. SiteInv /\ [SiteNext]_siteVars => A
    <2> SUFFICES ASSUME SiteInv, [SiteNext]_siteVars,
                        NEW o \in DOMAIN tables.orgs, o \notin DOMAIN tables'.orgs
                 PROVE  /\ RowsOfOrg(versions[deletion.at], o) = {}
                        /\ \A q \in DOMAIN tables.orgs \ {o} : View(tables, tables.orgs[q])
                                                                = View(tables', tables.orgs[q])
      BY DEF A
    <2>1. DeleteOrganizationWrite
      BY SiteNextInv
    <2>2. o = deletion.org
      BY <2>1, OthersKeep
    <2>3. deletion # NoDeletion
      BY <2>1 DEF DeleteOrganizationWrite
    <2> QED BY <2>1, <2>2, <2>3, OthersKeep DEF SiteInv
  <1>2. SiteSpec => []SiteInv
    BY SiteInitInv, SiteNextInv, PTL DEF SiteSpec
  <1> QED BY <1>1, <1>2, PTL DEF SiteSpec, OrganizationDeletionTakesOnlyNewRows

\* No deletion of the admin takes with it what was there when it was asked for:
\* of a donor or counterpart, and of an organization.
THEOREM DeletionsKeepWhatTheySaw == AssignmentsSpec /\ SiteSpec => DeletionsTakeOnlyNew
  BY OldLinksOutliveDeletions, OrganizationsOutliveTheirRows DEF DeletionsTakeOnlyNew

-----------------------------------------------------------------------------
(* The parts of a public page.  Both diagrams, the months, the list and the *)
(* balance sheet are sums over the lines of one organization taken apart in *)
(* different ways: by group and category, by month, by line.  Consolidating *)
(* small items moves amounts only within a category.                        *)

LinesFit(lines) ==
    /\ IsFiniteSet(DOMAIN lines) /\ DOMAIN lines \subseteq Nat
    /\ \A t \in DOMAIN lines : lines[t] \in AllLines

\* The amount of a line on one side, and the sum of some lines.
Money(lines, side) ==
    [t \in DOMAIN lines |-> IF side = "income" THEN lines[t].credit ELSE lines[t].debit]
OnSide(lines, side, T) == IF side = "income" THEN Credit(lines, T) ELSE Debit(lines, T)

LEMMA MoneyInt ==
    ASSUME NEW lines, LinesFit(lines), NEW side
    PROVE  \A t \in DOMAIN lines : Money(lines, side)[t] \in Int
  BY SiteAssumption DEF LinesFit, Money

LEMMA OnSideIs ==
    ASSUME NEW lines, LinesFit(lines), NEW side, NEW T \in SUBSET DOMAIN lines
    PROVE  /\ OnSide(lines, side, T) = SumOn(Money(lines, side), T)
           /\ OnSide(lines, side, T) \in Int /\ IsFiniteSet(T)
  <1>1. IsFiniteSet(T)
    BY FS_Subset DEF LinesFit
  <1> DEFINE w == IF side = "income" THEN [t \in T |-> lines[t].credit] ELSE [t \in T |-> lines[t].debit]
  <1>2. OnSide(lines, side, T) = SumOn(w, T)
    <2>1. SumFunction(w) = SumOn(w, T)
      BY SumFunctionIs
    <2> QED BY <2>1 DEF OnSide, Credit, Debit
  <1>3. \A t \in T : w[t] = Money(lines, side)[t]
    BY DEF Money
  <1>4. SumOn(w, T) = SumOn(Money(lines, side), T)
    <2> HIDE DEF w
    <2> QED BY <1>1, <1>3, SumSame
  <1>5. SumOn(Money(lines, side), T) \in Int
    BY <1>1, MoneyInt, SumInt
  <1> QED BY <1>1, <1>2, <1>4, <1>5

\* The amounts of some of the items.
LEMMA AmountsIs ==
    ASSUME NEW X, IsFiniteSet(X), \A i \in X : i.amount \in Int, NEW Y \in SUBSET X
    PROVE  /\ Amounts(Y) = SumOn([i \in X |-> i.amount], Y)
           /\ Amounts(Y) \in Int /\ IsFiniteSet(Y)
  <1> DEFINE v == [i \in X |-> i.amount]
             w == [i \in Y |-> i.amount]
  <1>1. IsFiniteSet(Y)
    BY FS_Subset
  <1>2. Amounts(Y) = SumOn(w, Y)
    BY SumFunctionIs DEF Amounts
  <1>3. \A i \in Y : w[i] = v[i] /\ v[i] \in Int
    OBVIOUS
  <1> HIDE DEF v, w
  <1>4. SumOn(w, Y) = SumOn(v, Y) /\ SumOn(v, Y) \in Int
    BY <1>1, <1>3, SumSame, SumInt
  <1> QED BY <1>1, <1>2, <1>4 DEF v

\* Two lots of items without one in common.
LEMMA AmountsAdd ==
    ASSUME NEW X, NEW Y, IsFiniteSet(X), IsFiniteSet(Y), X \cap Y = {},
           \A i \in X \cup Y : i.amount \in Int
    PROVE  Amounts(X \cup Y) = Amounts(X) + Amounts(Y)
  <1> DEFINE v == [i \in X \cup Y |-> i.amount]
  <1>1. IsFiniteSet(X \cup Y) /\ \A i \in X \cup Y : v[i] \in Int
    BY FS_Union
  <1>2. /\ Amounts(X \cup Y) = SumOn(v, X \cup Y) /\ Amounts(X) = SumOn(v, X)
        /\ Amounts(Y) = SumOn(v, Y)
    BY <1>1, AmountsIs
  <1> HIDE DEF v
  <1> QED BY <1>1, <1>2, SumTwo

LEMMA AmountsNone == Amounts({}) = 0
  BY AmountsIs, SumEmpty, FS_EmptySet

\* One item, if its amount is positive.
LEMMA ItemIs ==
    ASSUME NEW cat, NEW sub, NEW n \in Int
    PROVE  /\ IsFiniteSet(Item(cat, sub, n)) /\ Amounts(Item(cat, sub, n)) = Larger(n, 0)
           /\ \A i \in Item(cat, sub, n) : i.cat = cat /\ i.sub = sub /\ i.amount = n
           /\ Item(cat, sub, n) # {} <=> n > 0
  <1> DEFINE i == [cat |-> cat, sub |-> sub, amount |-> n]
  <1>1. Item(cat, sub, n) = IF n > 0 THEN {i} ELSE {}
    BY DEF Item
  <1>2. i.amount = n /\ i.cat = cat /\ i.sub = sub
    OBVIOUS
  <1> HIDE DEF i
  <1>3. IsFiniteSet({i}) /\ IsFiniteSet({})
    BY FS_Singleton, FS_EmptySet
  <1>4. Amounts({i}) = n
    <2>1. Amounts({i}) = SumOn([j \in {i} |-> j.amount], {i})
      BY <1>2, <1>3, AmountsIs
    <2>2. [j \in {i} |-> j.amount][i] = n
      BY <1>2
    <2> QED BY <2>1, <2>2, SumOne
  <1>5. Amounts({}) = 0
    BY AmountsNone
  <1> QED BY <1>1, <1>2, <1>3, <1>4, <1>5 DEF Larger

\* The lines of an organization.
LEMMA LinesOfFit ==
    ASSUME NEW d, Known(d), NEW o
    PROVE  LinesFit(LinesOf(d, o))
  <1> DEFINE R == RowsOfOrg(d, o)
             N == {t[2] : t \in R}
  <1>1. IsFiniteSet(R) /\ \A t \in R : t = <<o, t[2]>> /\ t[2] \in Nat /\ t \in DOMAIN d.rows
    BY FS_Subset DEF Known, Kept, RowsOfOrg
  <1>2. IsFiniteSet(N)
    <2> DEFINE f == [t \in R |-> t[2]]
    <2>1. N = {f[t] : t \in R}
      OBVIOUS
    <2> HIDE DEF f, N, R
    <2> QED BY <1>1, <2>1, ImageFinite
  <1>3. \A n \in N : n \in Nat /\ <<o, n>> \in DOMAIN d.rows
    BY <1>1
  <1>4. \A n \in N : d.rows[<<o, n>>] \in AllLines
    BY <1>3 DEF Known
  <1>5. LinesOf(d, o) = [n \in N |-> d.rows[<<o, n>>]]
    BY DEF LinesOf
  <1> HIDE DEF N
  <1> QED BY <1>2, <1>3, <1>4, <1>5 DEF LinesFit

\* A finite lot of items with integer amounts.
AreItems(X) ==
    /\ IsFiniteSet(X)
    /\ \A i \in X : i.amount \in Int /\ i = [cat |-> i.cat, sub |-> i.sub, amount |-> i.amount]

LEMMA ItemsFit ==
    ASSUME NEW X, AreItems(X), NEW Y \in SUBSET X
    PROVE  AreItems(Y) /\ Amounts(Y) \in Int
  BY AmountsIs DEF AreItems

\* The lines of one side in groups.
GroupsOf(lines, T, f) == {Group(lines[t], f) : t \in T}
InGroup(lines, T, f, g) == {t \in T : Group(lines[t], f) = g}
ItemOf(lines, side, f, g) ==
    [cat |-> g[1], sub |-> g[2],
     amount |-> OnSide(lines, side, InGroup(lines, OfType(lines, side), f, g))]

LEMMA AggregateItems ==
    ASSUME NEW lines, NEW side, NEW f
    PROVE  Aggregate(lines, side, f) =
             {ItemOf(lines, side, f, g) : g \in GroupsOf(lines, OfType(lines, side), f)}
  BY DEF Aggregate, ItemOf, GroupsOf, InGroup, OnSide

LEMMA ItemOfIs ==
    ASSUME NEW lines, NEW side, NEW f, NEW g
    PROVE  LET i == ItemOf(lines, side, f, g)
           IN  /\ i = [cat |-> i.cat, sub |-> i.sub, amount |-> i.amount]
               /\ i.cat = g[1] /\ i.sub = g[2]
               /\ i.amount = OnSide(lines, side, InGroup(lines, OfType(lines, side), f, g))
  BY DEF ItemOf

LEMMA GroupIs ==
    ASSUME NEW line, NEW f
    PROVE  /\ Group(line, f) = <<Group(line, f)[1], Group(line, f)[2]>>
           /\ Group(line, f)[1] = Cat(line)
           /\ f => Group(line, f)[2] = line.tag
  BY DEF Group, Cat

\* Items of the categories of some lines, adding up to them category by category.
OfCats(items, K) == {i \in items : i.cat \in K}
LinesIn(lines, side, K) == {t \in OfType(lines, side) : Cat(lines[t]) \in K}
AddsUp(items, lines, side) ==
    /\ AreItems(items)
    /\ {i.cat : i \in items} = {Cat(lines[t]) : t \in OfType(lines, side)}
    /\ \A K : Amounts(OfCats(items, K)) = OnSide(lines, side, LinesIn(lines, side, K))

\* Two lots of items that add up to the same lines.
LEMMA AddUpAlike ==
    ASSUME NEW X, NEW Y, NEW lines, NEW side, AddsUp(X, lines, side), AddsUp(Y, lines, side)
    PROVE  /\ {i.cat : i \in X} = {i.cat : i \in Y}
           /\ \A K : Amounts(OfCats(X, K)) = Amounts(OfCats(Y, K))
  BY DEF AddsUp

LEMMA AggregateIs ==
    ASSUME NEW lines, LinesFit(lines), NEW side, NEW f \in BOOLEAN
    PROVE  LET A == Aggregate(lines, side, f)
           IN  /\ AddsUp(A, lines, side)
               /\ \A i \in A : f => \E t \in OfType(lines, side) : i.sub = lines[t].tag
  <1> DEFINE A == Aggregate(lines, side, f)
             T == OfType(lines, side)
             G == GroupsOf(lines, T, f)
             in == [g \in G |-> InGroup(lines, T, f, g)]
             item == [g \in G |-> ItemOf(lines, side, f, g)]
             v == [g \in G |-> OnSide(lines, side, in[g])]
             w == Money(lines, side)
  <1>1. T \in SUBSET DOMAIN lines /\ IsFiniteSet(T) /\ \A t \in DOMAIN lines : w[t] \in Int
    BY MoneyInt, FS_Subset DEF OfType, LinesFit
  <1>2. IsFiniteSet(G)
    <2> DEFINE h == [t \in T |-> Group(lines[t], f)]
    <2>1. G = {h[t] : t \in T}
      BY DEF GroupsOf
    <2> HIDE DEF h, G, T
    <2> QED BY <1>1, <2>1, ImageFinite
  <1>3. \A g \in G :
           /\ in[g] \in SUBSET T /\ \A t \in in[g] : Group(lines[t], f) = g
           /\ \E t \in T : t \in in[g]
           /\ g = <<g[1], g[2]>>
    BY GroupIs DEF GroupsOf, InGroup
  <1>4. \A g \in G : v[g] = SumOn(w, in[g]) /\ v[g] \in Int /\ IsFiniteSet(in[g])
    <2> SUFFICES ASSUME NEW g \in G PROVE v[g] = SumOn(w, in[g]) /\ v[g] \in Int /\ IsFiniteSet(in[g])
      OBVIOUS
    <2>1. in[g] \in SUBSET DOMAIN lines
      BY <1>1, <1>3
    <2>2. v[g] = OnSide(lines, side, in[g])
      OBVIOUS
    <2> HIDE DEF v, in, T, G, w
    <2>3. OnSide(lines, side, in[g]) = SumOn(w, in[g]) /\ OnSide(lines, side, in[g]) \in Int /\ IsFiniteSet(in[g])
      BY <2>1, OnSideIs DEF w
    <2> QED BY <2>2, <2>3
  <1>5. A = {item[g] : g \in G}
    BY AggregateItems
  <1>6. \A g \in G : item[g].cat = g[1] /\ item[g].sub = g[2] /\ item[g].amount = v[g]
    BY ItemOfIs
  <1>6a. \A i \in A : i = [cat |-> i.cat, sub |-> i.sub, amount |-> i.amount]
    BY AggregateItems, ItemOfIs
  <1> HIDE DEF A, G, in, item, v, w, T
  <1>7. AreItems(A)
    <2>1. IsFiniteSet(A)
      BY <1>2, <1>5, ImageFinite
    <2>2. ASSUME NEW i \in A
          PROVE  i.amount \in Int
      <3>1. PICK g \in G : i = item[g]
        BY <1>5
      <3> QED BY <1>4, <1>6, <3>1
    <2> QED BY <1>6a, <2>1, <2>2 DEF AreItems
  <1>8. \A g \in G : \A t \in in[g] : g[1] = Cat(lines[t]) /\ (f => g[2] = lines[t].tag)
    BY <1>3, GroupIs
  <1>9. {i.cat : i \in A} = {Cat(lines[t]) : t \in T}
    <2>1. ASSUME NEW i \in A
          PROVE  \E t \in T : i.cat = Cat(lines[t])
      <3>1. PICK g \in G : i = item[g]
        BY <1>5
      <3>2. PICK t \in T : t \in in[g]
        BY <1>3
      <3> QED BY <1>6, <1>8, <3>1, <3>2
    <2>2. \A t \in T : Group(lines[t], f) \in G
      BY DEF G, GroupsOf
    <2>3. ASSUME NEW t \in T
          PROVE  \E i \in A : i.cat = Cat(lines[t])
      <3> DEFINE g == Group(lines[t], f)
      <3>1. g \in G /\ g[1] = Cat(lines[t])
        BY <2>2, GroupIs
      <3>2. item[g] \in A /\ item[g].cat = g[1]
        BY <1>5, <1>6, <3>1
      <3> QED BY <3>1, <3>2
    <2> QED BY <2>1, <2>3
  <1>10. ASSUME NEW i \in A
         PROVE  f => \E t \in T : i.sub = lines[t].tag
    <2>1. PICK g \in G : i = item[g]
      BY <1>5
    <2>2. PICK t \in T : t \in in[g]
      BY <1>3
    <2> QED BY <1>6, <1>8, <2>1, <2>2
  <1>11. ASSUME NEW K
         PROVE  Amounts({i \in A : i.cat \in K}) = OnSide(lines, side, {t \in T : Cat(lines[t]) \in K})
    <2> DEFINE H == {g \in G : g[1] \in K}
               R == {i \in A : i.cat \in K}
               U == {t \in T : Cat(lines[t]) \in K}
               a == [i \in A |-> i.amount]
    <2>1. IsFiniteSet(H) /\ IsFiniteSet(R) /\ H \subseteq G
      BY <1>2, <1>7, FS_Subset DEF AreItems
    <2>2. Amounts(R) = SumOn(a, R)
      BY <1>7, AmountsIs DEF AreItems
    <2>3. R = {item[g] : g \in H}
      BY <1>5, <1>6
    <2>4. OneToOne(v, a, H, item, R)
      <3>1. \A g \in H : v[g] \in Int /\ a[item[g]] = v[g]
        BY <1>4, <1>5, <1>6
      <3>2. ASSUME NEW g \in H, NEW k \in H, item[g] = item[k]
            PROVE  g = k
        <4>1. g \in G /\ k \in G /\ g[1] = k[1] /\ g[2] = k[2]
          BY <1>6, <3>2
        <4>2. g = <<g[1], g[2]>> /\ k = <<k[1], k[2]>>
          BY <1>3, <4>1
        <4> QED BY <4>1, <4>2
      <3> HIDE DEF H, R, a
      <3> QED BY <2>1, <2>3, <3>1, <3>2 DEF OneToOne
    <2>5. SummedParts(w, v, H, in, U)
      <3>1. U = UNION {in[g] : g \in H}
        <4>1. \A t \in U : Group(lines[t], f) \in H /\ t \in in[Group(lines[t], f)]
          BY <1>1, GroupIs DEF G, GroupsOf, in, InGroup
        <4>2. \A g \in H : in[g] \subseteq U
          BY <1>3, <1>8
        <4> HIDE DEF U, H
        <4> QED BY <4>1, <4>2
      <3>2. \A g, k \in H : g # k => in[g] \cap in[k] = {}
        BY <1>3
      <3>3. \A g \in H : /\ IsFiniteSet(in[g]) /\ v[g] = SumOn(w, in[g])
                          /\ \A t \in in[g] : w[t] \in Int
        BY <1>1, <1>3, <1>4
      <3> HIDE DEF U, H
      <3> QED BY <2>1, <3>1, <3>2, <3>3 DEF SummedParts
    <2>6. OnSide(lines, side, U) = SumOn(w, U)
      <3>1. U \in SUBSET DOMAIN lines
        BY <1>1
      <3> HIDE DEF U
      <3> QED BY <3>1, OnSideIs DEF w
    <2> HIDE DEF H, R, U, a
    <2>7. SumOn(a, R) = SumOn(v, H)
      BY <2>4, SumImage
    <2>8. SumOn(v, H) = SumOn(w, U)
      BY <2>5, SumParts
    <2> QED BY <2>2, <2>6, <2>7, <2>8 DEF R, U
  <1>12. AddsUp(A, lines, side)
    BY <1>7, <1>9, <1>11 DEF AddsUp, OfCats, LinesIn, T
  <1> QED BY <1>10, <1>12 DEF A, T

\* Small items of a category, and what stands for them.
SmallOf(X, c) == {i \in {j \in X : IsSmall(X, j)} : i.cat = c}
MergedOf(X, c) == IF Cardinality(SmallOf(X, c)) = 1 THEN CHOOSE i \in SmallOf(X, c) : TRUE
                  ELSE [cat |-> c, sub |-> "others", amount |-> Amounts(SmallOf(X, c))]
SmallCats(X) == {i.cat : i \in {j \in X : IsSmall(X, j)}}

LEMMA ConsolidateMerges ==
    ASSUME NEW X
    PROVE  Consolidate(X) = {i \in X : ~IsSmall(X, i)} \cup {MergedOf(X, c) : c \in SmallCats(X)}
  BY DEF Consolidate, SmallOf, MergedOf, SmallCats

LEMMA AmountsOne ==
    ASSUME NEW i, i.amount \in Int
    PROVE  Amounts({i}) = i.amount
  <1> DEFINE v == [j \in {i} |-> j.amount]
  <1>1. Amounts({i}) = SumOn(v, {i})
    BY FS_Singleton, AmountsIs
  <1>2. v[i] = i.amount
    OBVIOUS
  <1> HIDE DEF v
  <1> QED BY <1>1, <1>2, SumOne

LEMMA MergedIs ==
    ASSUME NEW X, AreItems(X), \A i \in X : i.sub # "others", NEW c \in SmallCats(X)
    PROVE  LET m == MergedOf(X, c)
           IN  /\ m.cat = c /\ m.amount = Amounts(SmallOf(X, c)) /\ m.amount \in Int
               /\ m = [cat |-> m.cat, sub |-> m.sub, amount |-> m.amount]
               /\ ~(m \in X /\ ~IsSmall(X, m))
  <1> DEFINE S == SmallOf(X, c)
             m == MergedOf(X, c)
  <1>1. S \in SUBSET X /\ AreItems(S) /\ Amounts(S) \in Int /\ \A i \in S : i.cat = c /\ IsSmall(X, i)
    BY ItemsFit DEF SmallOf
  <1>2. CASE Cardinality(S) = 1
    <2>1. PICK x : S = {x}
      BY <1>1, <1>2, FS_Singleton DEF AreItems
    <2>2. m = x
      BY <1>2, <2>1 DEF MergedOf
    <2>3. Amounts(S) = x.amount
      BY <1>1, <2>1, AmountsOne DEF AreItems
    <2> HIDE DEF S, m
    <2> QED BY <1>1, <2>1, <2>2, <2>3 DEF AreItems, m, S
  <1>3. CASE Cardinality(S) # 1
    <2>1. m = [cat |-> c, sub |-> "others", amount |-> Amounts(S)]
      BY <1>3 DEF MergedOf
    <2> HIDE DEF S, m
    <2> QED BY <1>1, <2>1 DEF m, S
  <1> QED BY <1>2, <1>3

\* Consolidating moves amounts only within a category.
LEMMA ConsolidateKeeps ==
    ASSUME NEW X, NEW lines, NEW side, AddsUp(X, lines, side), \A i \in X : i.sub # "others"
    PROVE  AddsUp(Consolidate(X), lines, side)
  <1> DEFINE C == Consolidate(X)
             small == {i \in X : IsSmall(X, i)}
             large == {i \in X : ~IsSmall(X, i)}
             cats == SmallCats(X)
             of == [c \in cats |-> SmallOf(X, c)]
             merged == [c \in cats |-> MergedOf(X, c)]
             M == {merged[c] : c \in cats}
             v == [c \in cats |-> Amounts(of[c])]
             w == [i \in X |-> i.amount]
  <1>0. AreItems(X)
    BY DEF AddsUp
  <1>1. C = large \cup M
    BY ConsolidateMerges
  <1>2. /\ AreItems(small) /\ AreItems(large) /\ small \in SUBSET X /\ large \in SUBSET X
        /\ large \cup small = X /\ large \cap small = {}
    BY <1>0, ItemsFit
  <1>3. \A c \in cats : /\ of[c] \in SUBSET small /\ \A i \in of[c] : i.cat = c
                        /\ \E i \in small : i \in of[c]
    BY DEF SmallCats, SmallOf
  <1>4. \A i \in small : i.cat \in cats /\ i \in of[i.cat]
    BY DEF SmallCats, SmallOf
  <1>5. \A c \in cats : /\ merged[c].cat = c /\ merged[c].amount = v[c] /\ v[c] \in Int
                        /\ merged[c] \notin large
    BY <1>0, MergedIs
  <1>6. \A i \in M : i = [cat |-> i.cat, sub |-> i.sub, amount |-> i.amount]
    BY <1>0, MergedIs
  <1>7. \A c \in cats : v[c] = SumOn(w, of[c]) /\ IsFiniteSet(of[c])
    <2> SUFFICES ASSUME NEW c \in cats PROVE v[c] = SumOn(w, of[c]) /\ IsFiniteSet(of[c])
      OBVIOUS
    <2>1. v[c] = Amounts(of[c]) /\ of[c] \in SUBSET X
      BY <1>3
    <2> HIDE DEF v, of, cats
    <2> QED BY <1>0, <2>1, AmountsIs DEF AreItems
  <1>8. \A i \in X : w[i] = i.amount
    OBVIOUS
  <1>9. IsFiniteSet(cats)
    <2> DEFINE f == [i \in small |-> i.cat]
    <2>1. cats = {f[i] : i \in small}
      BY DEF SmallCats
    <2> HIDE DEF f, cats, small
    <2> QED BY <1>2, <2>1, ImageFinite DEF AreItems
  <1> HIDE DEF C, small, large, cats, of, merged, v, w
  <1>10. AreItems(M)
    <2>1. IsFiniteSet(M)
      <3> HIDE DEF M
      <3> QED BY <1>9, ImageFinite DEF M
    <2>2. \A i \in M : i.amount \in Int
      BY <1>5
    <2> HIDE DEF M
    <2> QED BY <1>6, <2>1, <2>2 DEF AreItems
  <1>11. AreItems(C)
    <2> HIDE DEF M
    <2> QED BY <1>1, <1>2, <1>10, FS_Union DEF AreItems
  <1>12. {i.cat : i \in C} = {i.cat : i \in X}
    <2>1. \A c \in cats : \E i \in X : i.cat = c
      BY <1>2, <1>3
    <2>2. \A i \in small : merged[i.cat] \in C /\ merged[i.cat].cat = i.cat
      BY <1>1, <1>4, <1>5
    <2>3. ASSUME NEW i \in C
          PROVE  \E j \in X : j.cat = i.cat
      BY <1>1, <1>2, <1>5, <2>1
    <2>4. ASSUME NEW j \in X
          PROVE  \E i \in C : j.cat = i.cat
      BY <1>1, <1>2, <2>2
    <2> QED BY <2>3, <2>4
  <1>13. ASSUME NEW K
         PROVE  Amounts({i \in C : i.cat \in K}) = Amounts({i \in X : i.cat \in K})
    <2> DEFINE H == {c \in cats : c \in K}
               MK == {i \in M : i.cat \in K}
               LK == {i \in large : i.cat \in K}
               SK == {i \in small : i.cat \in K}
               a == [i \in M |-> i.amount]
    <2>1. IsFiniteSet(H) /\ H \subseteq cats /\ IsFiniteSet(MK) /\ IsFiniteSet(LK) /\ IsFiniteSet(SK)
      BY <1>2, <1>9, <1>10, FS_Subset DEF AreItems
    <2>2. /\ {i \in C : i.cat \in K} = LK \cup MK /\ LK \cap MK = {}
          /\ {i \in X : i.cat \in K} = LK \cup SK /\ LK \cap SK = {}
      BY <1>1, <1>2, <1>5
    <2>3. OneToOne(v, a, H, merged, MK)
      <3>1. MK = {merged[c] : c \in H}
        BY <1>5
      <3>2. \A c \in H : v[c] \in Int /\ a[merged[c]] = v[c]
        BY <1>5
      <3>3. \A c, k \in H : merged[c] = merged[k] => c = k
        BY <1>5
      <3> HIDE DEF H, MK, a
      <3> QED BY <2>1, <3>1, <3>2, <3>3 DEF OneToOne
    <2>4. SummedParts(w, v, H, of, SK)
      <3>1. SK = UNION {of[c] : c \in H}
        <4>1. \A i \in SK : i.cat \in H /\ i \in of[i.cat]
          BY <1>4
        <4>2. \A c \in H : of[c] \subseteq SK
          BY <1>3
        <4> HIDE DEF SK, H
        <4> QED BY <4>1, <4>2
      <3>2. \A c, k \in H : c # k => of[c] \cap of[k] = {}
        BY <1>3
      <3>3. \A c \in H : /\ IsFiniteSet(of[c]) /\ v[c] = SumOn(w, of[c])
                         /\ \A i \in of[c] : w[i] \in Int
        BY <1>0, <1>2, <1>3, <1>7, <1>8 DEF AreItems
      <3> HIDE DEF SK, H
      <3> QED BY <2>1, <3>1, <3>2, <3>3 DEF SummedParts
    <2>5. Amounts(MK) = SumOn(a, MK)
      BY <1>10, AmountsIs DEF AreItems
    <2>6. Amounts(SK) = SumOn(w, SK)
      <3>1. SK \in SUBSET X
        BY <1>2
      <3> HIDE DEF SK
      <3> QED BY <1>0, <3>1, AmountsIs DEF AreItems, w
    <2>7. \A i \in LK \cup MK \cup SK : i.amount \in Int
      BY <1>2, <1>10 DEF AreItems
    <2> HIDE DEF H, MK, LK, SK, a
    <2>8. SumOn(a, MK) = SumOn(v, H) /\ SumOn(v, H) = SumOn(w, SK)
      BY <2>3, <2>4, SumImage, SumParts
    <2>9. /\ Amounts(LK \cup MK) = Amounts(LK) + Amounts(MK)
          /\ Amounts(LK \cup SK) = Amounts(LK) + Amounts(SK)
      BY <2>1, <2>2, <2>7, AmountsAdd
    <2> QED BY <2>2, <2>5, <2>6, <2>8, <2>9
  <1>14. AddsUp(C, lines, side)
    <2> HIDE DEF M
    <2>1. \A K : Amounts(OfCats(C, K)) = Amounts(OfCats(X, K))
      BY <1>13 DEF OfCats
    <2> QED BY <1>11, <1>12, <2>1 DEF AddsUp
  <1> QED BY <1>14 DEF C

\* The items of one side of a diagram, before it is balanced.
SideItems(lines, side, friendly) ==
    LET all == Aggregate(lines, side, friendly)
    IN  IF friendly THEN Consolidate(all) ELSE all

LEMMA SideIs ==
    ASSUME NamesApart, NEW lines, LinesFit(lines), NEW side, NEW f \in BOOLEAN
    PROVE  LET I == SideItems(lines, side, f)
           IN  /\ AddsUp(I, lines, side)
               /\ \A i \in I : i.cat \notin Balancing
               /\ Amounts(I) = OnSide(lines, side, OfType(lines, side))
  <1> DEFINE A == Aggregate(lines, side, f)
             I == SideItems(lines, side, f)
             T == OfType(lines, side)
  <1>1. AddsUp(A, lines, side) /\ (f => \A i \in A : i.sub # "others")
    <2>1. /\ AddsUp(A, lines, side)
          /\ \A i \in A : f => \E t \in T : i.sub = lines[t].tag
      BY AggregateIs
    <2>2. \A t \in T : lines[t] \in AllLines
      BY DEF OfType, LinesFit
    <2> HIDE DEF A, T
    <2> QED BY <2>1, <2>2 DEF NamesApart
  <1>2. AddsUp(I, lines, side)
    <2>1. I = IF f THEN Consolidate(A) ELSE A
      BY DEF SideItems
    <2> HIDE DEF I, A
    <2> QED BY <1>1, <2>1, ConsolidateKeeps
  <1> HIDE DEF I
  <1>3. \A i \in I : \E t \in T : i.cat = Cat(lines[t])
    BY <1>2 DEF AddsUp
  <1>4. \A i \in I : i.cat \notin Balancing
    BY <1>3 DEF NamesApart, LinesFit, OfType
  <1>5. Amounts(I) = OnSide(lines, side, T)
    <2> DEFINE K == {Cat(lines[t]) : t \in T}
    <2>1. Amounts(OfCats(I, K)) = OnSide(lines, side, LinesIn(lines, side, K))
      <3> HIDE DEF K
      <3> QED BY <1>2 DEF AddsUp
    <2>2. OfCats(I, K) = I
      BY <1>3 DEF OfCats
    <2>3. LinesIn(lines, side, K) = T
      BY DEF LinesIn
    <2> QED BY <2>1, <2>2, <2>3
  <1> QED BY <1>2, <1>4, <1>5 DEF I

\* This year's cash, whole or in two parts.
LEMMA CashIs ==
    ASSUME NEW balance, balance.current \in Int, NEW debt \in Int, NEW f \in BOOLEAN
    PROVE  LET C == Cash(balance, debt, f)
           IN  /\ IsFiniteSet(C) /\ \A i \in C : i.amount \in Int /\ i.cat = "cash"
               /\ ~f => Amounts(C) = Larger(balance.current, 0)
               /\ f => Amounts(C) = IF balance.current > 0
                                    THEN Larger(balance.current, debt) ELSE 0
  <1> DEFINE C == Cash(balance, debt, f)
             rest == balance.current - Larger(debt, 0)
             U == Item("cash", "unpaid", debt)
             R == Item("cash", "rest", rest)
  <1>1. CASE balance.current <= 0
    <2>1. C = {}
      BY <1>1 DEF Cash
    <2> QED BY <1>1, <2>1, AmountsNone, FS_EmptySet DEF Larger
  <1>2. CASE balance.current > 0 /\ ~f
    <2>1. ~(balance.current <= 0)
      BY <1>2
    <2>2. \E sub : C = Item("cash", sub, balance.current)
      BY <1>2, <2>1, Zenon DEF Cash
    <2>3. PICK sub : C = Item("cash", sub, balance.current)
      BY <2>2
    <2> HIDE DEF C
    <2> QED BY <1>2, <2>3, ItemIs DEF C
  <1>3. CASE balance.current > 0 /\ f
    <2>0. ~(balance.current <= 0)
      BY <1>3
    <2>1. C = U \cup R
      BY <1>3, <2>0, Zenon DEF Cash
    <2>2. rest \in Int
      BY DEF Larger
    <2>3. /\ IsFiniteSet(U) /\ Amounts(U) = Larger(debt, 0)
          /\ \A i \in U : i.cat = "cash" /\ i.sub = "unpaid" /\ i.amount = debt
      BY ItemIs
    <2>4. /\ IsFiniteSet(R) /\ Amounts(R) = Larger(rest, 0)
          /\ \A i \in R : i.cat = "cash" /\ i.sub = "rest" /\ i.amount = rest
      <3> HIDE DEF rest
      <3> QED BY <2>2, ItemIs
    <2>5. Larger(debt, 0) + Larger(rest, 0) = Larger(balance.current, debt)
      BY <1>3 DEF Larger
    <2> HIDE DEF C, U, R, rest
    <2>6. U \cap R = {}
      BY <2>3, <2>4
    <2>7. Amounts(U \cup R) = Amounts(U) + Amounts(R) /\ IsFiniteSet(U \cup R)
      BY <2>2, <2>3, <2>4, <2>6, AmountsAdd, FS_Union
    <2> QED BY <1>3, <2>1, <2>2, <2>3, <2>4, <2>5, <2>7 DEF C
  <1> QED BY <1>1, <1>2, <1>3

\* A diagram: its sides, and that what flows out is not less than what flows in.
Real(items) == {i \in items : i.cat \notin Balancing}
FitsTogether(d, I, E, carried, cash) ==
    /\ Real(d.income) = I /\ Real(d.expense) = E
    /\ OfCat(d.income, "carried") = carried /\ OfCat(d.expense, "carried") = {}
    /\ OfCat(d.expense, "cash") = cash
    /\ \A c : c \notin Balancing => /\ OfCat(d.income, c) = OfCats(I, {c})
                                    /\ OfCat(d.expense, c) = OfCats(E, {c})
    /\ InOut(d).inward <= InOut(d).outward
    /\ OfCat(d.expense, "pending") # {} => InOut(d).inward = InOut(d).outward

LEMMA SankeyIs ==
    ASSUME NamesApart, NEW lines, LinesFit(lines), NEW f \in BOOLEAN, NEW debt \in Int,
           NEW balance, balance.previous \in Int, balance.current \in Int
    PROVE  FitsTogether(Sankey(lines, balance, debt, f), SideItems(lines, "income", f),
                        SideItems(lines, "expense", f), Carried(balance), Cash(balance, debt, f))
  <1> DEFINE d == Sankey(lines, balance, debt, f)
             I == SideItems(lines, "income", f)
             E == SideItems(lines, "expense", f)
             B == Carried(balance)
             C == Cash(balance, debt, f)
             gap == Amounts(I \cup B) - Amounts(E \cup C)
             P == Item("pending", "", gap)
  <1>1. d = [income |-> I \cup B, expense |-> (E \cup C) \cup P]
    BY DEF Sankey, SideItems
  <1>2. /\ AreItems(I) /\ AreItems(E)
        /\ \A i \in I \cup E : i.cat \notin Balancing
    BY SideIs DEF AddsUp
  <1>3. /\ IsFiniteSet(B)
        /\ \A i \in B : i.cat = "carried" /\ i.amount = balance.previous
    <2>1. \E sub : B = Item("carried", sub, balance.previous)
      BY Zenon DEF Carried
    <2> HIDE DEF B
    <2> QED BY <2>1, ItemIs
  <1>4. IsFiniteSet(C) /\ \A i \in C : i.amount \in Int /\ i.cat = "cash"
    BY CashIs
  <1> HIDE DEF I, E, B, C
  <1>5. IsFiniteSet(I \cup B) /\ IsFiniteSet(E \cup C) /\ \A i \in (I \cup B) \cup (E \cup C) : i.amount \in Int
    BY <1>2, <1>3, <1>4, FS_Union DEF AreItems
  <1>6. Amounts(I \cup B) \in Int /\ Amounts(E \cup C) \in Int
    BY <1>5, AmountsIs
  <1>7. /\ gap \in Int /\ IsFiniteSet(P) /\ Amounts(P) = Larger(gap, 0)
        /\ \A i \in P : i.cat = "pending" /\ i.amount = gap
        /\ P # {} <=> gap > 0
    <2>1. gap \in Int
      BY <1>6
    <2>2. \E sub : P = Item("pending", sub, gap)
      BY Zenon
    <2> HIDE DEF gap, P
    <2> QED BY <2>1, <2>2, ItemIs
  <1>8. gap = Amounts(I \cup B) - Amounts(E \cup C)
    OBVIOUS
  <1> HIDE DEF gap, P
  <1>9. Amounts((E \cup C) \cup P) = Amounts(E \cup C) + Amounts(P)
    <2>1. (E \cup C) \cap P = {}
      BY <1>2, <1>4, <1>7 DEF Balancing
    <2>2. \A i \in (E \cup C) \cup P : i.amount \in Int
      BY <1>5, <1>7
    <2> QED BY <1>5, <1>7, <2>1, <2>2, AmountsAdd
  <1>10. d.income = I \cup B /\ d.expense = (E \cup C) \cup P
    BY <1>1
  <1>11. InOut(d).inward = Amounts(I \cup B) /\ InOut(d).outward = Amounts(E \cup C) + Larger(gap, 0)
    BY <1>7, <1>9, <1>10 DEF InOut
  <1> HIDE DEF d
  <1>12. OfCat(d.expense, "pending") = P
    BY <1>2, <1>4, <1>7, <1>10 DEF OfCat, Balancing
  <1>13. InOut(d).inward <= InOut(d).outward /\ (P # {} => InOut(d).inward = InOut(d).outward)
    <2> DEFINE in == Amounts(I \cup B)
               out == Amounts(E \cup C)
    <2>1. P # {} => gap > 0
      BY <1>7
    <2>2. in \in Int /\ out \in Int /\ gap = in - out
      BY <1>6, <1>8
    <2>3. InOut(d).inward = in /\ InOut(d).outward = out + Larger(gap, 0)
      BY <1>11
    <2> HIDE DEF in, out
    <2>4. in <= out + Larger(gap, 0) /\ (gap > 0 => in = out + Larger(gap, 0))
      BY <2>2 DEF Larger
    <2> QED BY <2>1, <2>3, <2>4
  <1>14. Real(d.income) = I /\ Real(d.expense) = E
    BY <1>2, <1>3, <1>4, <1>7, <1>10 DEF Real, Balancing
  <1>15. OfCat(d.income, "carried") = B /\ OfCat(d.expense, "carried") = {} /\ OfCat(d.expense, "cash") = C
    BY <1>2, <1>3, <1>4, <1>7, <1>10 DEF Balancing, OfCat
  <1>16. ASSUME NEW c, c \notin Balancing
         PROVE  OfCat(d.income, c) = OfCats(I, {c}) /\ OfCat(d.expense, c) = OfCats(E, {c})
    BY <1>3, <1>4, <1>7, <1>10, <1>16 DEF Balancing, OfCat, OfCats
  <1>17. FitsTogether(d, I, E, B, C)
    BY <1>12, <1>13, <1>14, <1>15, <1>16 DEF FitsTogether
  <1> QED BY <1>17 DEF d, I, E, B, C

\* The months of one side are all its lines.
LEMMA MonthsAre ==
    ASSUME NEW lines, LinesFit(lines), NEW side \in {"income", "expense"}
    PROVE  SumFunction([m \in DOMAIN Monthly(lines) |-> Monthly(lines)[m][side]])
             = OnSide(lines, side, OfType(lines, side))
  <1> DEFINE N == DOMAIN lines
             M == {lines[t].month : t \in N}
             T == OfType(lines, side)
             part == [m \in M |-> {t \in N : lines[t].month = m} \cap T]
             v == [m \in M |-> OnSide(lines, side, part[m])]
             w == Money(lines, side)
             s == [m \in DOMAIN Monthly(lines) |-> Monthly(lines)[m][side]]
  <1>1. IsFiniteSet(M)
    <2> DEFINE f == [t \in N |-> lines[t].month]
    <2>1. M = {f[t] : t \in N} /\ IsFiniteSet(N)
      BY DEF LinesFit
    <2> HIDE DEF f, M, N
    <2> QED BY <2>1, ImageFinite
  <1>2. DOMAIN Monthly(lines) = M
    BY DEF Monthly
  <1>3. \A m \in M : Monthly(lines)[m][side] = v[m]
    <2> SUFFICES ASSUME NEW m \in M PROVE Monthly(lines)[m][side] = v[m]
      OBVIOUS
    <2>1. v[m] = OnSide(lines, side, {t \in N : lines[t].month = m} \cap T)
      OBVIOUS
    <2>2. Monthly(lines)[m] =
            [income |-> Credit(lines, {t \in N : lines[t].month = m} \cap OfType(lines, "income")),
             expense |-> Debit(lines, {t \in N : lines[t].month = m} \cap OfType(lines, "expense"))]
      BY DEF Monthly
    <2>3. Monthly(lines)[m][side] = OnSide(lines, side, {t \in N : lines[t].month = m} \cap T)
      <3>1. CASE side = "income"
        BY <2>2, <3>1 DEF OnSide
      <3>2. CASE side = "expense"
        BY <2>2, <3>2 DEF OnSide
      <3> QED BY <3>1, <3>2
    <2> QED BY <2>1, <2>3
  <1>4. DOMAIN s = M /\ \A m \in M : s[m] = v[m]
    BY <1>2, <1>3
  <1>5. \A m \in M : part[m] \in SUBSET N
    OBVIOUS
  <1>6. \A m \in M : v[m] = SumOn(w, part[m]) /\ IsFiniteSet(part[m])
    <2> SUFFICES ASSUME NEW m \in M PROVE v[m] = SumOn(w, part[m]) /\ IsFiniteSet(part[m])
      OBVIOUS
    <2>1. v[m] = OnSide(lines, side, part[m]) /\ part[m] \in SUBSET N
      BY <1>5
    <2> HIDE DEF v, part, M
    <2> QED BY <2>1, OnSideIs
  <1>7. T = UNION {part[m] : m \in M}
    <2>1. \A t \in T : lines[t].month \in M /\ t \in part[lines[t].month]
      BY DEF OfType
    <2>2. \A m \in M : part[m] \subseteq T
      OBVIOUS
    <2> HIDE DEF T, M, part
    <2> QED BY <2>1, <2>2
  <1>8. \A m, k \in M : m # k => part[m] \cap part[k] = {}
    OBVIOUS
  <1>9. \A m \in M : \A t \in part[m] : w[t] \in Int
    BY <1>5, MoneyInt
  <1>10. OnSide(lines, side, T) = SumOn(w, T)
    <2>1. T \in SUBSET N
      BY DEF OfType
    <2> HIDE DEF T
    <2> QED BY <2>1, OnSideIs
  <1>11. SumFunction(s) = SumOn(s, DOMAIN s)
    BY SumFunctionIs
  <1> HIDE DEF M, T, part, v, w, s
  <1>12. SumOn(s, M) = SumOn(v, M)
    BY <1>1, <1>4, SumSame
  <1>13. SumOn(v, M) = SumOn(w, T)
    <2>1. SummedParts(w, v, M, part, T)
      BY <1>1, <1>6, <1>7, <1>8, <1>9 DEF SummedParts
    <2> QED BY <2>1, SumParts
  <1> QED BY <1>4, <1>10, <1>11, <1>12, <1>13 DEF s, T

\* A list that shows everything adds up to both sides.
LEMMA ShownIs ==
    ASSUME NEW lines, LinesFit(lines), Shown(lines).total <= PerPage,
           \A n \in DOMAIN lines : lines[n].debit >= 0 /\ lines[n].credit >= 0
    PROVE  SumFunction([n \in Shown(lines).txs |-> AbsAmount(lines[n])])
             = OnSide(lines, "income", OfType(lines, "income"))
               + OnSide(lines, "expense", OfType(lines, "expense"))
  <1> DEFINE In == OfType(lines, "income")
             Out == OfType(lines, "expense")
             all == In \cup Out
             newer(t) == {u \in all : \/ lines[u].month > lines[t].month
                                      \/ lines[u].month = lines[t].month /\ u > t}
             s == [n \in Shown(lines).txs |-> AbsAmount(lines[n])]
             a == [n \in all |-> AbsAmount(lines[n])]
             wi == Money(lines, "income")
             wo == Money(lines, "expense")
  <1>1. /\ In \in SUBSET DOMAIN lines /\ Out \in SUBSET DOMAIN lines /\ In \cap Out = {}
        /\ \A n \in In : lines[n].type = "income"
        /\ \A n \in Out : lines[n].type = "expense"
    BY DEF OfType
  <1>2. /\ OnSide(lines, "income", In) = SumOn(wi, In) /\ IsFiniteSet(In)
        /\ OnSide(lines, "expense", Out) = SumOn(wo, Out) /\ IsFiniteSet(Out)
    <2> HIDE DEF In, Out
    <2> QED BY <1>1, OnSideIs
  <1>3. IsFiniteSet(all)
    BY <1>2, FS_Union
  <1>4. \A t \in DOMAIN lines : /\ t \in Nat /\ lines[t].month \in Int
                                /\ lines[t].debit \in Int /\ lines[t].credit \in Int
    BY SiteAssumption DEF LinesFit
  <1>5. Shown(lines).total = Cardinality(all)
        /\ Shown(lines).txs = {t \in all : Cardinality(newer(t)) < PerPage}
    BY DEF Shown
  <1>6. ASSUME NEW t \in all
        PROVE  Cardinality(newer(t)) < PerPage
    <2>1. newer(t) \in SUBSET (all \ {t})
      BY <1>1, <1>4
    <2>2. /\ IsFiniteSet(all \ {t}) /\ Cardinality(all \ {t}) = Cardinality(all) - 1
          /\ Cardinality(all) \in Nat
      BY <1>3, FS_RemoveElement, FS_CardinalityType
    <2> HIDE DEF newer, all
    <2>3. Cardinality(newer(t)) <= Cardinality(all \ {t}) /\ Cardinality(newer(t)) \in Nat
      BY <2>1, <2>2, FS_Subset, FS_CardinalityType
    <2> QED BY <1>5, <2>2, <2>3, SiteAssumption
  <1>7. Shown(lines).txs = all
    <2> HIDE DEF all, newer
    <2> QED BY <1>5, <1>6
  <1>8. s = a
    BY <1>7
  <1>9. SumFunction(a) = SumOn(a, all)
    <2>1. DOMAIN a = all
      OBVIOUS
    <2> HIDE DEF a, all
    <2> QED BY <2>1, SumFunctionIs
  <1>10. \A n \in In : a[n] = wi[n] /\ wi[n] \in Int
    BY <1>1, <1>4 DEF AbsAmount, Money
  <1>11. \A n \in Out : a[n] = wo[n] /\ wo[n] \in Int
    BY <1>1, <1>4 DEF AbsAmount, Money
  <1> HIDE DEF a, wi, wo, In, Out
  <1>12. SumOn(a, In) = SumOn(wi, In) /\ SumOn(a, Out) = SumOn(wo, Out)
    BY <1>2, <1>10, <1>11, SumSame
  <1>13. SumOn(a, In \cup Out) = SumOn(a, In) + SumOn(a, Out)
    <2>1. \A n \in In \cup Out : a[n] \in Int
      BY <1>10, <1>11
    <2> QED BY <1>1, <1>2, <2>1, SumTwo
  <1> HIDE DEF s
  <1> QED BY <1>2, <1>8, <1>9, <1>12, <1>13 DEF s, In, Out

\* The snapshot of the latest day, the row written last among those of that day.
IsLatest(d, I, i) ==
    /\ i \in I
    /\ \A j \in I : \/ d.snaps[j].day < d.snaps[i].day
                    \/ d.snaps[j].day = d.snaps[i].day /\ j <= i

LEMMA SnapsFit ==
    ASSUME NEW d, Known(d)
    PROVE  /\ IsFiniteSet(DOMAIN d.snaps) /\ DOMAIN d.snaps \subseteq Nat
           /\ \A i \in DOMAIN d.snaps :
                 /\ d.snaps[i].year \in {"previous", "current", "later"}
                 /\ d.snaps[i].day \in Int /\ d.snaps[i].balance \in Int
           /\ \A i, j \in DOMAIN d.snaps :
                 d.snaps[i].year = "previous" /\ d.snaps[j].year = "current"
                 => d.snaps[i].day < d.snaps[j].day
  BY SiteAssumption DEF Known, Kept

LEMMA LatestExists ==
    ASSUME NEW d, Known(d), NEW I \in SUBSET DOMAIN d.snaps, I # {}
    PROVE  \E i : IsLatest(d, I, i)
  <1> DEFINE G == {J \in SUBSET I : J = {} \/ \E i : IsLatest(d, J, i)}
  <1>0. /\ IsFiniteSet(I) /\ I \subseteq Nat /\ \A i \in I : d.snaps[i].day \in Int
    BY SnapsFit, FS_Subset
  <1>1. {} \in G
    OBVIOUS
  <1>2. ASSUME NEW J \in SUBSET I, NEW x \in I, J \in G, x \notin J
        PROVE  J \cup {x} \in G
    <2>1. CASE J = {}
      <3>1. IsLatest(d, J \cup {x}, x)
        BY <1>0, <2>1 DEF IsLatest
      <3> QED BY <3>1
    <2>2. CASE J # {}
      <3>1. PICK i : IsLatest(d, J, i)
        BY <1>2, <2>2
      <3>2. i \in I /\ i \in Nat /\ x \in Nat /\ d.snaps[i].day \in Int /\ d.snaps[x].day \in Int
        BY <1>0, <3>1 DEF IsLatest
      <3>3. CASE d.snaps[i].day < d.snaps[x].day \/ (d.snaps[i].day = d.snaps[x].day /\ i <= x)
        <4>1. \A j \in J : d.snaps[j].day < d.snaps[x].day \/ (d.snaps[j].day = d.snaps[x].day /\ j <= x)
          BY <1>0, <3>1, <3>2, <3>3 DEF IsLatest
        <4>2. IsLatest(d, J \cup {x}, x)
          BY <3>2, <4>1 DEF IsLatest
        <4> QED BY <4>2
      <3>4. CASE ~(d.snaps[i].day < d.snaps[x].day \/ (d.snaps[i].day = d.snaps[x].day /\ i <= x))
        <4>1. d.snaps[x].day < d.snaps[i].day \/ (d.snaps[x].day = d.snaps[i].day /\ x <= i)
          BY <3>2, <3>4
        <4>2. IsLatest(d, J \cup {x}, i)
          BY <3>1, <4>1 DEF IsLatest
        <4> QED BY <4>2
      <3> QED BY <3>3, <3>4
    <2> QED BY <2>1, <2>2
  <1>3. I \in G
    <2> HIDE DEF G
    <2> QED BY <1>0, <1>1, <1>2, SetInduction
  <1> QED BY <1>3

LEMMA LatestIs ==
    ASSUME NEW d, Known(d), NEW I \in SUBSET DOMAIN d.snaps
    PROVE  /\ I = {} => Latest(d, I) = 0
           /\ I # {} => \E i : IsLatest(d, I, i)
           /\ \A i : IsLatest(d, I, i) => Latest(d, I) = d.snaps[i].balance
           /\ Latest(d, I) \in Int
  <1> DEFINE best(i) == \A j \in I : \/ d.snaps[j].day < d.snaps[i].day
                                     \/ d.snaps[j].day = d.snaps[i].day /\ j <= i
             c == CHOOSE i \in I : best(i)
  <1>1. I = {} => Latest(d, I) = 0
    BY DEF Latest
  <1>2. I # {} => Latest(d, I) = d.snaps[c].balance
    BY DEF Latest
  <1>3. \A i : IsLatest(d, I, i) <=> i \in I /\ best(i)
    BY DEF IsLatest
  <1>4. I # {} => \E i : IsLatest(d, I, i)
    BY LatestExists
  <1>5. I # {} => IsLatest(d, I, c)
    <2> HIDE DEF best
    <2> QED BY <1>3, <1>4
  <1> HIDE DEF c
  <1>6. ASSUME NEW i, IsLatest(d, I, i)
        PROVE  Latest(d, I) = d.snaps[i].balance
    <2>1. IsLatest(d, I, c) /\ I # {}
      BY <1>5, <1>6 DEF IsLatest
    <2>2. /\ i \in Nat /\ c \in Nat /\ i \in DOMAIN d.snaps /\ c \in DOMAIN d.snaps
          /\ d.snaps[i].day \in Int /\ d.snaps[c].day \in Int
      BY <1>6, <2>1, SnapsFit DEF IsLatest
    <2>3. i = c
      BY <1>6, <2>1, <2>2 DEF IsLatest
    <2> QED BY <1>2, <2>1, <2>3
  <1>7. Latest(d, I) \in Int
    BY <1>1, <1>2, <1>5, SnapsFit DEF IsLatest
  <1> QED BY <1>1, <1>4, <1>6, <1>7

\* The balances of the years, and that of all years when none is later.
LEMMA BalancesAre ==
    ASSUME NEW d, Known(d), NEW o
    PROVE  /\ BalancesByYear(d, o).previous \in Int /\ BalancesByYear(d, o).current \in Int
           /\ CurrentAssets(d, o) \in Int
           /\ (\A snap \in {d.snaps[i] : i \in SnapsOf(d, o)} : snap.year # "later")
                 /\ BalancesByYear(d, o).current # 0
              => CurrentAssets(d, o) = BalancesByYear(d, o).current
  <1> DEFINE I == SnapsOf(d, o)
             P == {i \in I : d.snaps[i].year = "previous"}
             C == {i \in I : d.snaps[i].year = "current"}
  <1>1. /\ I \in SUBSET DOMAIN d.snaps /\ P \in SUBSET DOMAIN d.snaps /\ C \in SUBSET DOMAIN d.snaps
        /\ C \subseteq I /\ \A i \in C : d.snaps[i].year = "current"
    BY DEF SnapsOf
  <1>2. /\ BalancesByYear(d, o).previous = Latest(d, P)
        /\ BalancesByYear(d, o).current = Latest(d, C)
        /\ CurrentAssets(d, o) = Latest(d, I)
    BY DEF BalancesByYear, CurrentAssets
  <1>3. Latest(d, P) \in Int /\ Latest(d, C) \in Int /\ Latest(d, I) \in Int
    <2> HIDE DEF I, P, C
    <2> QED BY <1>1, LatestIs
  <1>4. ASSUME \A i \in I : d.snaps[i].year # "later", Latest(d, C) # 0
        PROVE  Latest(d, I) = Latest(d, C)
    <2>1. C # {} /\ I # {}
      <3> HIDE DEF I, P, C
      <3> QED BY <1>1, <1>4, LatestIs
    <2>2. PICK i : IsLatest(d, I, i)
      BY <1>1, <2>1, LatestIs
    <2>3. PICK k \in C : TRUE
      BY <2>1
    <2>4. /\ i \in I /\ i \in DOMAIN d.snaps /\ k \in DOMAIN d.snaps /\ k \in I
          /\ d.snaps[i].day \in Int /\ d.snaps[k].day \in Int
      BY <1>1, <2>2, <2>3, SnapsFit DEF IsLatest
    <2>5. d.snaps[i].year \in {"previous", "current"}
      BY <1>4, <2>4, SnapsFit
    <2>6. d.snaps[i].year # "previous"
      <3>1. d.snaps[i].year = "previous" => d.snaps[i].day < d.snaps[k].day
        BY <1>1, <2>3, <2>4, SnapsFit
      <3>2. ~(d.snaps[i].day < d.snaps[k].day)
        BY <2>2, <2>4 DEF IsLatest
      <3> QED BY <3>1, <3>2
    <2>7. i \in C
      BY <2>4, <2>5, <2>6
    <2>8. IsLatest(d, C, i)
      <3> HIDE DEF I, C
      <3> QED BY <1>1, <2>2, <2>7 DEF IsLatest
    <2>9. Latest(d, I) = d.snaps[i].balance /\ Latest(d, C) = d.snaps[i].balance
      <3> HIDE DEF I, C
      <3> QED BY <1>1, <2>2, <2>8, LatestIs
    <2> QED BY <2>9
  <1>5. (\A snap \in {d.snaps[i] : i \in I} : snap.year # "later") => \A i \in I : d.snaps[i].year # "later"
    OBVIOUS
  <1> QED BY <1>2, <1>3, <1>4, <1>5

\* The two sides of the balance sheet.
LEMMA SheetBalances ==
    ASSUME NEW lines, LinesFit(lines), NEW assets \in Int
    PROVE  LET b == BalanceSheet(assets, lines)
           IN  /\ CurrentLiabilities(lines) \in Int
               /\ b.left.assets = assets /\ b.right.current = CurrentLiabilities(lines)
               /\ b.left.assets + b.left.debtExcess = b.right.current + b.right.fixed + b.right.net
  <1> DEFINE LC == {t \in DOMAIN lines : lines[t].creditAccount \in Liabilities}
             LD == {t \in DOMAIN lines : lines[t].debitAccount \in Liabilities}
             FC == {t \in OfType(lines, "income") : lines[t].creditAccount = Loan}
             FD == {t \in OfType(lines, "expense") : lines[t].debitAccount = Loan}
             current == CurrentLiabilities(lines)
             fixed == Credit(lines, FC) - Debit(lines, FD)
             rest == assets - (current + fixed)
  <1>1. /\ LC \in SUBSET DOMAIN lines /\ LD \in SUBSET DOMAIN lines
        /\ FC \in SUBSET DOMAIN lines /\ FD \in SUBSET DOMAIN lines
    BY DEF OfType
  <1>2. \A T \in SUBSET DOMAIN lines : Credit(lines, T) \in Int /\ Debit(lines, T) \in Int
    <2> TAKE T \in SUBSET DOMAIN lines
    <2>1. OnSide(lines, "income", T) \in Int /\ OnSide(lines, "expense", T) \in Int
      BY OnSideIs
    <2> QED BY <2>1 DEF OnSide
  <1>3. current = Credit(lines, LC) - Debit(lines, LD)
    BY DEF CurrentLiabilities
  <1> HIDE DEF LC, LD, FC, FD
  <1>4. current \in Int
    BY <1>1, <1>2, <1>3
  <1>5. fixed \in Int
    BY <1>1, <1>2
  <1>6. BalanceSheet(assets, lines) =
          [left |-> [assets |-> assets, debtExcess |-> Larger(-rest, 0)],
           right |-> [current |-> current, fixed |-> fixed, net |-> Larger(rest, 0)]]
    BY DEF BalanceSheet, FC, FD
  <1> HIDE DEF current, fixed
  <1>7. assets + Larger(-rest, 0) = current + fixed + Larger(rest, 0)
    BY <1>4, <1>5 DEF Larger
  <1> HIDE DEF rest
  <1> QED BY <1>4, <1>6, <1>7 DEF current

\* The two diagrams of a page, side by side.
Cats(d) == {i.cat : i \in Real(d.income) \cup Real(d.expense)}
SameFigures(p, q, lines) ==
    /\ Cats(p) = Cats(q)
    /\ \A c \in Cats(p) \cup {"carried"} :
          /\ Amounts(OfCat(p.income, c)) = Amounts(OfCat(q.income, c))
          /\ Amounts(OfCat(p.expense, c)) = Amounts(OfCat(q.expense, c))
    /\ Amounts(Real(p.income)) = OnSide(lines, "income", OfType(lines, "income"))
    /\ Amounts(Real(p.expense)) = OnSide(lines, "expense", OfType(lines, "expense"))

LEMMA DiagramsAgree ==
    ASSUME NamesApart, NEW lines, LinesFit(lines), NEW debt \in Int,
           NEW balance, balance.previous \in Int, balance.current \in Int
    PROVE  SameFigures(Sankey(lines, balance, debt, FALSE), Sankey(lines, balance, debt, TRUE), lines)
  <1> DEFINE p == Sankey(lines, balance, debt, FALSE)
             q == Sankey(lines, balance, debt, TRUE)
             PI == SideItems(lines, "income", FALSE)
             PE == SideItems(lines, "expense", FALSE)
             QI == SideItems(lines, "income", TRUE)
             QE == SideItems(lines, "expense", TRUE)
             B == Carried(balance)
  <1>1. /\ FitsTogether(p, PI, PE, B, Cash(balance, debt, FALSE))
        /\ FitsTogether(q, QI, QE, B, Cash(balance, debt, TRUE))
    BY SankeyIs
  <1>2. /\ AddsUp(PI, lines, "income") /\ AddsUp(QI, lines, "income")
        /\ AddsUp(PE, lines, "expense") /\ AddsUp(QE, lines, "expense")
        /\ Amounts(PI) = OnSide(lines, "income", OfType(lines, "income"))
        /\ Amounts(PE) = OnSide(lines, "expense", OfType(lines, "expense"))
        /\ \A i \in PI \cup PE : i.cat \notin Balancing
    BY SideIs
  <1> HIDE DEF p, q, PI, PE, QI, QE, B
  <1>3. /\ {i.cat : i \in PI} = {i.cat : i \in QI} /\ {i.cat : i \in PE} = {i.cat : i \in QE}
        /\ \A K : Amounts(OfCats(PI, K)) = Amounts(OfCats(QI, K))
        /\ \A K : Amounts(OfCats(PE, K)) = Amounts(OfCats(QE, K))
    BY <1>2, AddUpAlike
  <1>4. /\ Real(p.income) = PI /\ Real(p.expense) = PE /\ Real(q.income) = QI /\ Real(q.expense) = QE
        /\ OfCat(p.income, "carried") = B /\ OfCat(p.expense, "carried") = {}
        /\ OfCat(q.income, "carried") = B /\ OfCat(q.expense, "carried") = {}
    BY <1>1 DEF FitsTogether
  <1>5. \A c : c \notin Balancing =>
           /\ OfCat(p.income, c) = OfCats(PI, {c}) /\ OfCat(p.expense, c) = OfCats(PE, {c})
           /\ OfCat(q.income, c) = OfCats(QI, {c}) /\ OfCat(q.expense, c) = OfCats(QE, {c})
    BY <1>1 DEF FitsTogether
  <1>6. Cats(p) = Cats(q)
    <2>1. /\ \A x : x \in {i.cat : i \in PI} <=> x \in {i.cat : i \in QI}
          /\ \A x : x \in {i.cat : i \in PE} <=> x \in {i.cat : i \in QE}
      BY <1>3
    <2>2. \A x : x \in Cats(p) <=> x \in {i.cat : i \in PI} \/ x \in {i.cat : i \in PE}
      BY <1>4 DEF Cats
    <2>3. \A x : x \in Cats(q) <=> x \in {i.cat : i \in QI} \/ x \in {i.cat : i \in QE}
      BY <1>4 DEF Cats
    <2>4. \A x : x \in Cats(p) <=> x \in Cats(q)
      BY <2>1, <2>2, <2>3
    <2> QED BY <2>4 DEF Cats
  <1>7. \A c \in Cats(p) : c \notin Balancing
    BY <1>2, <1>4 DEF Cats
  <1>8. ASSUME NEW c \in Cats(p) \cup {"carried"}
        PROVE  /\ Amounts(OfCat(p.income, c)) = Amounts(OfCat(q.income, c))
               /\ Amounts(OfCat(p.expense, c)) = Amounts(OfCat(q.expense, c))
    <2>1. CASE c = "carried"
      BY <1>4, <2>1
    <2>2. CASE c \notin Balancing
      BY <1>3, <1>5, <2>2
    <2> QED BY <1>7, <2>1, <2>2
  <1> QED BY <1>2, <1>4, <1>6, <1>8 DEF SameFigures, p, q

\* The parts of a page over known tables.
LEMMA PageAdds ==
    ASSUME NamesApart, NEW d, Known(d), NEW o
    PROVE  PartsAgree(LinesOf(d, o), TopPage(d, o), BalancesByYear(d, o),
                      {d.snaps[i] : i \in SnapsOf(d, o)})
  <1> DEFINE lines == LinesOf(d, o)
             page == TopPage(d, o)
             balance == BalancesByYear(d, o)
             snapshots == {d.snaps[i] : i \in SnapsOf(d, o)}
             debt == page.sheet.right.current
             liabilities == CurrentLiabilities(lines)
             assets == CurrentAssets(d, o)
             months(side) == SumFunction([m \in DOMAIN page.monthly |-> page.monthly[m][side]])
  <1>1. LinesFit(lines)
    BY LinesOfFit
  <1>2. /\ page.political = Sankey(lines, balance, liabilities, FALSE)
        /\ page.friendly = Sankey(lines, balance, liabilities, TRUE)
        /\ page.monthly = Monthly(lines) /\ page.shown = Shown(lines)
        /\ page.sheet = BalanceSheet(assets, lines)
    BY DEF TopPage
  <1>3. /\ balance.previous \in Int /\ balance.current \in Int /\ assets \in Int
        /\ (\A snap \in snapshots : snap.year # "later") /\ balance.current # 0
           => assets = balance.current
    BY BalancesAre
  <1> HIDE DEF lines, page, balance, snapshots, assets
  <1>4. /\ liabilities \in Int /\ debt = liabilities /\ page.sheet.left.assets = assets
        /\ page.sheet.left.assets + page.sheet.left.debtExcess
             = debt + page.sheet.right.fixed + page.sheet.right.net
    BY <1>1, <1>2, <1>3, SheetBalances
  <1> HIDE DEF liabilities, debt
  <1>5. SameFigures(page.political, page.friendly, lines)
    BY <1>1, <1>2, <1>3, <1>4, DiagramsAgree
  <1>6. /\ months("income") = OnSide(lines, "income", OfType(lines, "income"))
        /\ months("expense") = OnSide(lines, "expense", OfType(lines, "expense"))
    BY <1>1, <1>2, MonthsAre
  <1>7. /\ FitsTogether(page.political, SideItems(lines, "income", FALSE), SideItems(lines, "expense", FALSE),
                        Carried(balance), Cash(balance, liabilities, FALSE))
        /\ FitsTogether(page.friendly, SideItems(lines, "income", TRUE), SideItems(lines, "expense", TRUE),
                        Carried(balance), Cash(balance, liabilities, TRUE))
    BY <1>1, <1>2, <1>3, <1>4, SankeyIs
  <1>8. \A x \in {page.political, page.friendly} :
           /\ InOut(x).inward <= InOut(x).outward
           /\ OfCat(x.expense, "pending") # {} => InOut(x).inward = InOut(x).outward
    BY <1>7 DEF FitsTogether
  <1>9. /\ Amounts(OfCat(page.political.expense, "cash")) = Larger(balance.current, 0)
        /\ Amounts(OfCat(page.friendly.expense, "cash"))
             = IF balance.current > 0 THEN Larger(balance.current, debt) ELSE 0
    <2>1. /\ OfCat(page.political.expense, "cash") = Cash(balance, liabilities, FALSE)
          /\ OfCat(page.friendly.expense, "cash") = Cash(balance, liabilities, TRUE)
      BY <1>7 DEF FitsTogether
    <2>2. /\ Amounts(Cash(balance, liabilities, FALSE)) = Larger(balance.current, 0)
          /\ Amounts(Cash(balance, liabilities, TRUE))
               = IF balance.current > 0 THEN Larger(balance.current, debt) ELSE 0
      BY <1>3, <1>4, CashIs
    <2> QED BY <2>1, <2>2
  <1>10. page.shown.total <= PerPage
           /\ (\A n \in DOMAIN lines : lines[n].debit >= 0 /\ lines[n].credit >= 0)
         => SumFunction([n \in page.shown.txs |-> AbsAmount(lines[n])]) = months("income") + months("expense")
    BY <1>1, <1>2, <1>6, ShownIs
  <1> HIDE DEF months
  <1>11. PartsAgree(lines, page, balance, snapshots)
    BY <1>3, <1>4, <1>5, <1>6, <1>8, <1>9, <1>10 DEF PartsAgree, SameFigures, Real, Cats, months, debt
  <1> QED BY <1>11 DEF lines, page, balance, snapshots

\* The parts of every page agree, whatever transactions and snapshots there are
\* and however they are edited: the diagrams, the months, the list, the balances
\* and the balance sheet of the top page (get-sankey-aggregation-usecase.ts,
\* sankey-data-builder.ts, balance-sheet.ts).
THEOREM PartsOfPagesAgree ==
    ASSUME NamesApart
    PROVE  SiteSpec => []PageAgrees
  <1>1. SiteInv => PageAgrees
    BY NowKnown, PageAdds DEF PageAgrees
  <1>2. SiteSpec => []SiteInv
    BY SiteInitInv, SiteNextInv, PTL DEF SiteSpec
  <1> QED BY <1>1, <1>2, PTL
==============================================================================
