----------------------------- MODULE DeskProofs -----------------------------
(***************************************************************************)
(* What a page that assigns shows of its own work (Desk), for any number   *)
(* of pages, transactions, server actions and changes of address.          *)
(***************************************************************************)
EXTENDS Desk, FiniteSetTheorems, WellFoundedInduction, TLAPS

(***************************************************************************)
(* Types.                                                                  *)
(***************************************************************************)

Fields == {"link", "grant"}
ListOrNot == Listings \cup {NotKept}
Switches == UNION {[T -> BOOLEAN] : T \in SUBSET Papers}
Loads == [url : Addresses, got : ListOrNot, hit : BOOLEAN]

AnyItems ==
    [op : {"flag", "assign", "create"}, txs : SUBSET Papers, value : BOOLEAN,
     id : 0..MaxPeople, type : PersonTypes, own : BOOLEAN, loose : BOOLEAN,
     pc : {"sent", "gone", "done", "failed", "lost"}, brought : ListOrNot]

\* An assignment names whom it assigns, and so does the answer of a creation.
Items ==
    {item \in AnyItems :
       item.op = "assign" \/ (item.op = "create" /\ item.pc = "done") => item.id # 0}
Queues ==
    {q \in UNION {[N -> Items] : N \in SUBSET Nat} :
       \E b \in Nat : \A i \in DOMAIN q : i <= b}

Desks ==
    [url : Addresses, list : Listings, coming : Loads \cup {NotKept}, dialog : SUBSET Papers,
     category : Sorts \cup {AnyCategory}, overrides : Switches, queue : Queues]

DeskTypeOK ==
    /\ desk \in {"donor", "counterpart"}
    /\ filed \in [Papers -> Filing]
    /\ people \in Seq(PersonTypes) /\ Len(people) <= MaxPeople
    /\ kept \in [Addresses -> ListOrNot]
    /\ desks \in [Operators[desk] -> Desks]
    /\ aware \in [Papers -> [Fields -> SUBSET Operators[desk]]]
    /\ deskUsed \in [sent : 0..MaxSent, renders : 0..MaxRenders]

(***************************************************************************)
(* The invariant.  d is the state of page p, q its queue.                  *)
(***************************************************************************)

Fresh(url, list, t, f) == f \notin Stale(url, list, t)

\* Wherever some page should know a field, what is cached is right about it.
KeptFresh ==
    \A t \in Papers, f \in Fields : aware[t][f] # {} =>
        \A u \in Addresses : kept[u] # NotKept => Fresh(u, kept[u], t, f)

\* An answer brings a page exactly when the page has not been left since.
Answers(q) ==
    \A i \in DOMAIN q :
        /\ q[i].brought # NotKept <=> q[i].pc = "done" /\ ~q[i].loose
        /\ q[i].pc = "gone" => q[i].loose

\* Behind an action the page waits for, nothing has been served.
InTurn(q) ==
    \A i, k \in DOMAIN q : i < k /\ ~q[i].loose => ~q[k].loose /\ q[k].pc = "sent"

\* A load that has been answered is the only answer the page waits for.
ReadAlone(d) ==
    d.coming # NotKept /\ d.coming.got # NotKept =>
        \A i \in DOMAIN d.queue : ~d.queue[i].loose => d.queue[i].pc = "sent"

\* What will be shown instead of the list: a load, which reads what is right or
\* has read it; an assignment whose answer starts one; an answered switch that
\* brings a page.
ComingFresh(d, t, f) ==
    /\ d.coming # NotKept
    /\ d.coming.got # NotKept => Fresh(d.coming.url, d.coming.got, t, f)
BroughtFresh(d, t, f) ==
    \A i \in DOMAIN d.queue :
        d.queue[i].brought # NotKept => Fresh(d.url, d.queue[i].brought, t, f)
Answered(q, i, op, t) == q[i].op = op /\ q[i].pc = "done" /\ t \in q[i].txs

LinkShown(d, t) ==
    \/ \E i \in DOMAIN d.queue : Answered(d.queue, i, "assign", t)
    \/ ComingFresh(d, t, "link")
    \/ /\ d.coming = NotKept
       /\ Fresh(d.url, d.list, t, "link") /\ BroughtFresh(d, t, "link")

GrantShown(d, t) ==
    \/ ComingFresh(d, t, "grant")
    \/ /\ d.coming = NotKept /\ BroughtFresh(d, t, "grant")
       /\ \/ Fresh(d.url, d.list, t, "grant")
          \/ \E i \in DOMAIN d.queue :
                Answered(d.queue, i, "flag", t) /\ ~d.queue[i].loose

\* A switch shows what the last action sent for it asks, and that is what is
\* stored unless such an action is still to be served or to be put back.
Asks(d, k, t) ==
    d.queue[k].op = "flag" /\ t \in d.queue[k].txs /\ d.queue[k].value = d.overrides[t]
LastAsked(d, t) ==
    t \in DOMAIN d.overrides =>
        \A i \in DOMAIN d.queue :
            /\ d.queue[i].op = "flag" /\ t \in d.queue[i].txs
            /\ d.queue[i].pc = "sent" /\ ~d.queue[i].loose
            => \E k \in DOMAIN d.queue :
                   k >= i /\ Asks(d, k, t) /\ d.queue[k].pc = "sent"
SwitchRight(d, t) ==
    t \in DOMAIN d.overrides =>
        \/ d.overrides[t] = filed[t]["grant"]
        \/ \E k \in DOMAIN d.queue : Asks(d, k, t) /\ d.queue[k].pc \in {"sent", "failed"}

PageInv(p, d) ==
    /\ Answers(d.queue) /\ InTurn(d.queue) /\ ReadAlone(d)
    /\ \A t \in Papers :
          /\ p \in aware[t]["link"] => LinkShown(d, t)
          /\ p \in aware[t]["grant"] => GrantShown(d, t) /\ SwitchRight(d, t)
          /\ LastAsked(d, t)

DeskInv == DeskTypeOK /\ KeptFresh /\ \A p \in DOMAIN desks : PageInv(p, desks[p])

(***************************************************************************)
(* Numbers.                                                                *)
(***************************************************************************)

\* A set of naturals with a member has a least one.
LEMMA Least ==
    ASSUME NEW T \in SUBSET Nat, T # {}
    PROVE  \E m \in T : \A k \in T : m <= k
  <1> DEFINE below(n) == 0..n
             B == {below(n) : n \in T}
             R == StrictSubsetOrdering(Nat)
             F == FiniteSubsetsOf(Nat)
  <1>1. IsWellFoundedOn(R, F)
    BY FS_StrictSubsetOrderingWellFounded
  <1>2. B \subseteq F /\ B # {}
    <2>1. \A n \in T : IsFiniteSet(0..n)
      BY FS_Interval
    <2>2. \A n \in T : 0..n \in SUBSET Nat
      OBVIOUS
    <2> QED BY <2>1, <2>2 DEF FiniteSubsetsOf
  <1>3. \E x \in B : \A y \in B : <<y, x>> \notin R
    <2> HIDE DEF B, R, F
    <2> QED BY <1>1, <1>2, WFMin
  <1>4. PICK m \in T : \A k \in T : <<0..k, 0..m>> \notin R
    BY <1>3
  <1>5. ASSUME NEW k \in T, k < m
        PROVE  FALSE
    <2>1. 0..k \subseteq 0..m /\ 0..k # 0..m
      <3>1. m \in 0..m /\ m \notin 0..k
        BY <1>5
      <3> QED BY <1>5, <3>1
    <2>2. <<0..k, 0..m>> \in R
      BY <2>1 DEF StrictSubsetOrdering
    <2> QED BY <1>4, <2>2
  <1> QED BY <1>4, <1>5

\* What Max chooses of a bounded set of naturals is its greatest member.
LEMMA MaxAbove ==
    ASSUME NEW N \in SUBSET Nat, N # {}, NEW b \in Nat, \A n \in N : n <= b
    PROVE  Numbers!Max(N) \in N /\ \A n \in N : n <= Numbers!Max(N)
  <1> DEFINE U == {u \in Nat : \A n \in N : n <= u}
  <1>1. b \in U
    OBVIOUS
  <1>2. PICK m \in U : \A u \in U : m <= u
    BY <1>1, Least
  <1>3. m \in N
    <2>1. PICK n \in N : TRUE
      OBVIOUS
    <2>2. ASSUME m \notin N
          PROVE  FALSE
      <3>1. \A k \in N : k <= m - 1
        BY <1>2, <2>2
      <3>2. m - 1 \in Nat
        BY <1>2, <2>1, <2>2, <3>1
      <3>3. m - 1 \in U
        BY <3>1, <3>2
      <3> QED BY <1>2, <3>3
    <2> QED BY <2>2
  <1>4. \E x \in N : \A y \in N : x >= y
    BY <1>2, <1>3
  <1>5. Numbers!Max(N) \in N /\ \A y \in N : Numbers!Max(N) >= y
    BY <1>4 DEF Numbers!Max
  <1> QED BY <1>5

(***************************************************************************)
(* Lists, queues and pages as values.                                      *)
(***************************************************************************)

\* A queue is a function from a bounded set of numbers to actions.
LEMMA QueueTyped ==
    ASSUME NEW q
    PROVE  q \in Queues <=> /\ q = [i \in DOMAIN q |-> q[i]]
                            /\ \A i \in DOMAIN q : i \in Nat /\ q[i] \in Items
                            /\ \E b \in Nat : \A i \in DOMAIN q : i <= b
  <1>1. ASSUME q = [i \in DOMAIN q |-> q[i]],
               \A i \in DOMAIN q : i \in Nat /\ q[i] \in Items
        PROVE  q \in UNION {[N -> Items] : N \in SUBSET Nat}
    <2>1. DOMAIN q \in SUBSET Nat /\ q \in [DOMAIN q -> Items]
      BY <1>1
    <2> QED BY <2>1
  <1>2. ASSUME q \in UNION {[N -> Items] : N \in SUBSET Nat}
        PROVE  /\ q = [i \in DOMAIN q |-> q[i]]
               /\ \A i \in DOMAIN q : i \in Nat /\ q[i] \in Items
    <2>1. PICK N \in SUBSET Nat : q \in [N -> Items]
      BY <1>2
    <2> QED BY <2>1
  <1> QED BY <1>1, <1>2 DEF Queues

\* A list is a function from transactions to what it says of them.
LEMMA ListTyped ==
    ASSUME NEW l
    PROVE  l \in Listings <=> /\ l = [t \in DOMAIN l |-> l[t]]
                              /\ \A t \in DOMAIN l : t \in Papers /\ l[t] \in Filing
  <1>1. ASSUME l = [t \in DOMAIN l |-> l[t]],
               \A t \in DOMAIN l : t \in Papers /\ l[t] \in Filing
        PROVE  l \in Listings
    <2>1. DOMAIN l \in SUBSET Papers /\ l \in [DOMAIN l -> Filing]
      BY <1>1
    <2> QED BY <2>1 DEF Listings
  <1>2. ASSUME l \in Listings
        PROVE  /\ l = [t \in DOMAIN l |-> l[t]]
               /\ \A t \in DOMAIN l : t \in Papers /\ l[t] \in Filing
    <2>1. PICK T \in SUBSET Papers : l \in [T -> Filing]
      BY <1>2 DEF Listings
    <2> QED BY <2>1
  <1> QED BY <1>1, <1>2

\* What switches show instead of a list is a function from transactions to flags.
LEMMA SwitchesTyped ==
    ASSUME NEW o
    PROVE  o \in Switches <=> /\ o = [t \in DOMAIN o |-> o[t]]
                              /\ \A t \in DOMAIN o : t \in Papers /\ o[t] \in BOOLEAN
  <1>1. ASSUME o = [t \in DOMAIN o |-> o[t]],
               \A t \in DOMAIN o : t \in Papers /\ o[t] \in BOOLEAN
        PROVE  o \in Switches
    <2>1. DOMAIN o \in SUBSET Papers /\ o \in [DOMAIN o -> BOOLEAN]
      BY <1>1
    <2> QED BY <2>1 DEF Switches
  <1>2. ASSUME o \in Switches
        PROVE  /\ o = [t \in DOMAIN o |-> o[t]]
               /\ \A t \in DOMAIN o : t \in Papers /\ o[t] \in BOOLEAN
    <2>1. PICK T \in SUBSET Papers : o \in [T -> BOOLEAN]
      BY <1>2 DEF Switches
    <2> QED BY <2>1
  <1> QED BY <1>1, <1>2

\* A new action gets a number above those in the queue.
LEMMA PutFacts ==
    ASSUME NEW q \in Queues, NEW item \in Items
    PROVE  /\ Put(q, item) \in Queues
           /\ \E n \in Nat : /\ \A i \in DOMAIN q : i < n
                             /\ DOMAIN Put(q, item) = DOMAIN q \cup {n}
                             /\ Put(q, item)[n] = item
                             /\ \A i \in DOMAIN q : Put(q, item)[i] = q[i]
  <1> DEFINE N == {0} \cup DOMAIN q
             m == Numbers!Max(N)
             n == 1 + m
             r == [i \in DOMAIN q \cup {n} |-> IF i = n THEN item ELSE q[i]]
  <1>1. /\ \A i \in DOMAIN q : i \in Nat /\ q[i] \in Items
        /\ \E b \in Nat : \A i \in DOMAIN q : i <= b
    BY QueueTyped
  <1>2. PICK b \in Nat : \A i \in DOMAIN q : i <= b
    BY <1>1
  <1>3. N \in SUBSET Nat /\ N # {} /\ \A k \in N : k <= b
    BY <1>1, <1>2
  <1>4. m \in N /\ \A k \in N : k <= m
    <2> HIDE DEF N
    <2> QED BY <1>3, MaxAbove
  <1>5. m \in Nat /\ \A i \in DOMAIN q : i <= m
    <2>1. \A i \in DOMAIN q : i \in N
      OBVIOUS
    <2> HIDE DEF N
    <2> QED BY <1>3, <1>4, <2>1
  <1>6. Put(q, item) = r
    BY DEF Put
  <1> HIDE DEF m
  <1>7. n \in Nat /\ \A i \in DOMAIN q : i < n
    BY <1>1, <1>5
  <1> HIDE DEF n
  <1>8. /\ DOMAIN r = DOMAIN q \cup {n} /\ r[n] = item
        /\ \A i \in DOMAIN q : r[i] = q[i]
    BY <1>1, <1>7
  <1>9. r = [i \in DOMAIN r |-> r[i]]
    OBVIOUS
  <1> HIDE DEF r
  <1>10. \A i \in DOMAIN r : i \in Nat /\ r[i] \in Items /\ i <= n
    BY <1>1, <1>7, <1>8
  <1>11. r \in Queues
    BY <1>7, <1>9, <1>10, QueueTyped
  <1> QED BY <1>6, <1>7, <1>8, <1>11

\* An action leaves the queue, and the others keep their numbers.
LEMMA WithoutFacts ==
    ASSUME NEW q \in Queues, NEW i
    PROVE  /\ Without(q, i) \in Queues
           /\ DOMAIN Without(q, i) = DOMAIN q \ {i}
           /\ \A k \in DOMAIN Without(q, i) : Without(q, i)[k] = q[k]
  <1> DEFINE r == [k \in DOMAIN q \ {i} |-> q[k]]
  <1>1. Without(q, i) = r
    BY DEF Without, Lists!Restrict
  <1>2. DOMAIN r = DOMAIN q \ {i} /\ (\A k \in DOMAIN r : r[k] = q[k]) /\ r = [k \in DOMAIN r |-> r[k]]
    OBVIOUS
  <1> HIDE DEF r
  <1>3. r \in Queues
    BY <1>2, QueueTyped
  <1> QED BY <1>1, <1>2, <1>3

(***************************************************************************)
(* What is fresh.                                                          *)
(***************************************************************************)

\* Nothing kept is neither a list nor a load.
LEMMA NotKeptIsNothing ==
    ASSUME desk \in {"donor", "counterpart"}
    PROVE  /\ \A l \in Listings : l # NotKept
           /\ \A c \in Loads : c # NotKept
           /\ \A u \in Addresses : LoadOf(u) \in Loads /\ LoadOf(u) # NotKept
  <1>1. \A l \in Listings : l # NotKept
    BY NotKeptAssumption
  <1>2. Addresses \subseteq [unassignedOnly : BOOLEAN,
                   category : {DeskLines[d][t].cat : d \in DOMAIN DeskLines, t \in Papers}
                              \cup {Anything, AnyCategory}]
    BY DeskAssumption DEF Addresses, Sorts, LineOf
  <1>3. \A u \in Addresses, got \in ListOrNot, hit \in BOOLEAN :
           NotKept # [url |-> u, got |-> got, hit |-> hit]
    BY <1>2, NotKeptAssumption DEF ListOrNot
  <1>4. \A c \in Loads : c # NotKept
    <2> SUFFICES ASSUME NEW c \in Loads PROVE c # NotKept
      OBVIOUS
    <2>1. c = [url |-> c.url, got |-> c.got, hit |-> c.hit]
          /\ c.url \in Addresses /\ c.got \in ListOrNot /\ c.hit \in BOOLEAN
      BY DEF Loads
    <2> QED BY <2>1, <1>3
  <1>5. \A u \in Addresses : LoadOf(u) \in Loads
    BY DEF LoadOf, Loads, ListOrNot
  <1> QED BY <1>1, <1>4, <1>5

\* A list that is read has the rows its address selects, as they are stored.
LEMMA ListOfTyped ==
    ASSUME NEW rows \in [Papers -> Filing], NEW url
    PROVE  /\ ListOf(rows, url) \in Listings
           /\ DOMAIN ListOf(rows, url) = {t \in Papers : Selects(url, t, rows[t])}
           /\ \A t \in DOMAIN ListOf(rows, url) : ListOf(rows, url)[t] = rows[t]
  <1> DEFINE T == {t \in Papers : Selects(url, t, rows[t])}
             l == [t \in T |-> rows[t]]
  <1>1. ListOf(rows, url) = l
    BY DEF ListOf, Lists!Restrict
  <1>2. T \subseteq Papers
    OBVIOUS
  <1> HIDE DEF T
  <1>3. l \in [T -> Filing] /\ DOMAIN l = T /\ \A t \in DOMAIN l : l[t] = rows[t]
    BY <1>2
  <1>4. l \in Listings
    BY <1>2, <1>3 DEF Listings
  <1> QED BY <1>1, <1>3, <1>4 DEF T

\* What is read from the tables is right.
LEMMA ReadIsFresh ==
    ASSUME filed \in [Papers -> Filing]
    PROVE  \A url : \A t \in Papers, f \in Fields : Fresh(url, ListOf(filed, url), t, f)
  <1> SUFFICES ASSUME NEW url, NEW t \in Papers, NEW f \in Fields
               PROVE  Fresh(url, ListOf(filed, url), t, f)
    OBVIOUS
  <1>1. /\ t \in DOMAIN ListOf(filed, url) <=> Selects(url, t, filed[t])
        /\ t \in DOMAIN ListOf(filed, url) => ListOf(filed, url)[t] = filed[t]
    BY ListOfTyped
  <1>2. ~(t \in DOMAIN ListOf(filed, url) /\ ListOf(filed, url)[t][f] # filed[t][f])
    BY <1>1
  <1>3. ~((t \in DOMAIN ListOf(filed, url)) # Selects(url, t, filed[t]))
    <2> DEFINE A == t \in DOMAIN ListOf(filed, url)
               B == Selects(url, t, filed[t])
    <2>1. A \in BOOLEAN /\ B \in BOOLEAN /\ (A <=> B)
      BY <1>1 DEF Selects
    <2> HIDE DEF A, B
    <2>2. ~(A # B)
      BY <2>1
    <2> QED BY <2>2 DEF A, B
  <1> QED BY <1>2, <1>3 DEF Fresh, Stale

\* The same of every state, so that it may be said of the next one.
LEMMA ReadsAreFresh ==
    filed \in [Papers -> Filing] =>
        \A w : \A s \in Papers, g \in Fields : Fresh(w, ListOf(filed, w), s, g)
  BY ReadIsFresh

\* An empty list of rows is a list.
LEMMA NoRowTyped == NoRow \in Listings
  <1>1. NoRow = [t \in {} |-> filed[t]]
    BY DEF NoRow, Lists!Restrict
  <1>2. NoRow \in [{} -> Filing]
    BY <1>1
  <1> QED BY <1>2 DEF Listings

\* A field that is not written stays as right as it was.
LEMMA FreshStays ==
    ASSUME desk' = desk, NEW t \in Papers, NEW f \in Fields, filed'[t][f] = filed[t][f],
           NEW url, NEW list
    PROVE  Fresh(url, list, t, f)' <=> Fresh(url, list, t, f)
  <1>1. f = "link" => Selects(url, t, filed[t])' = Selects(url, t, filed[t])
    BY DEF Selects, Target, LineOf
  <1> QED BY <1>1 DEF Fresh, Stale, Fields

\* The page of somebody who learns nothing new, or may be wrong about what
\* has changed.
LEMMA ViewKeeps ==
    ASSUME desk' = desk, NEW p, NEW d, PageInv(p, d),
           \A t \in Papers, f \in Fields :
              p \in aware'[t][f] => p \in aware[t][f] /\ filed'[t][f] = filed[t][f]
    PROVE  PageInv(p, d)'
  <1>1. /\ Answers(d.queue)' <=> Answers(d.queue)
        /\ InTurn(d.queue)' <=> InTurn(d.queue)
        /\ ReadAlone(d)' <=> ReadAlone(d)
    BY DEF Answers, InTurn, ReadAlone
  <1>2. ASSUME NEW t \in Papers
        PROVE  LastAsked(d, t)'
    <2>1. LastAsked(d, t)
      BY DEF PageInv
    <2> QED BY <2>1 DEF LastAsked, Asks
  <1>3. ASSUME NEW t \in Papers, p \in aware'[t]["link"]
        PROVE  LinkShown(d, t)'
    <2>1. p \in aware[t]["link"] /\ filed'[t]["link"] = filed[t]["link"]
      BY <1>3 DEF Fields
    <2>2. LinkShown(d, t)
      BY <2>1 DEF PageInv
    <2>3. \A url, list : Fresh(url, list, t, "link")' <=> Fresh(url, list, t, "link")
      BY <2>1, FreshStays DEF Fields
    <2> QED BY <2>2, <2>3 DEF LinkShown, Answered, ComingFresh, BroughtFresh
  <1>4. ASSUME NEW t \in Papers, p \in aware'[t]["grant"]
        PROVE  GrantShown(d, t)' /\ SwitchRight(d, t)'
    <2>1. p \in aware[t]["grant"] /\ filed'[t]["grant"] = filed[t]["grant"]
      BY <1>4 DEF Fields
    <2>2. GrantShown(d, t) /\ SwitchRight(d, t)
      BY <2>1 DEF PageInv
    <2>3. \A url, list : Fresh(url, list, t, "grant")' <=> Fresh(url, list, t, "grant")
      BY <2>1, FreshStays DEF Fields
    <2>4. GrantShown(d, t)'
      BY <2>2, <2>3 DEF GrantShown, Answered, ComingFresh, BroughtFresh
    <2>5. SwitchRight(d, t)'
      BY <2>1, <2>2 DEF SwitchRight, Asks
    <2> QED BY <2>4, <2>5
  <1>5. Answers(d.queue) /\ InTurn(d.queue) /\ ReadAlone(d)
    BY DEF PageInv
  <1> QED BY <1>1, <1>2, <1>3, <1>4, <1>5 DEF PageInv

(***************************************************************************)
(* What a page may become by itself, d and then e.                         *)
(***************************************************************************)

\* All of an action that the invariant looks at.
Like(a, b) ==
    /\ a.op = b.op /\ a.txs = b.txs /\ a.value = b.value
    /\ a.loose = b.loose /\ a.pc = b.pc /\ a.brought = b.brought

\* Some actions of q are no longer there.
Thinned(q, r) == \A i \in DOMAIN r : i \in DOMAIN q /\ Like(r[i], q[i])

\* What is said of the turns of a queue stays true when some actions leave it.
LEMMA ThinnedQueue ==
    ASSUME NEW q, NEW r, Thinned(q, r)
    PROVE  /\ Answers(q) => Answers(r)
           /\ InTurn(q) => InTurn(r)
  <1>1. Answers(q) => Answers(r)
    BY DEF Thinned, Like, Answers
  <1>2. InTurn(q) => InTurn(r)
    BY DEF Thinned, Like, InTurn
  <1> QED BY <1>1, <1>2

\* Actions that were not to be served, nor heard of, are gone, and the switches
\* that were put back.
LEMMA ThinKeeps ==
    ASSUME NEW p, NEW d, NEW e, PageInv(p, d), Thinned(d.queue, e.queue),
           e.url = d.url, e.list = d.list, e.coming = d.coming,
           \A t \in DOMAIN e.overrides : t \in DOMAIN d.overrides /\ e.overrides[t] = d.overrides[t],
           \A i \in DOMAIN d.queue \ DOMAIN e.queue :
              /\ d.queue[i].pc \notin {"done", "sent"}
              /\ d.queue[i].op = "flag" /\ d.queue[i].pc = "failed" =>
                    d.queue[i].txs \cap DOMAIN e.overrides = {}
    PROVE  PageInv(p, e)
  <1>1. Answers(e.queue) /\ InTurn(e.queue)
    BY ThinnedQueue DEF PageInv
  <1>2. ReadAlone(e)
    BY DEF PageInv, ReadAlone, Thinned, Like
  <1>3. ASSUME NEW t, NEW f
        PROVE  /\ ComingFresh(d, t, f) => ComingFresh(e, t, f)
               /\ BroughtFresh(d, t, f) => BroughtFresh(e, t, f)
    <2>1. ComingFresh(d, t, f) => ComingFresh(e, t, f)
      BY DEF ComingFresh
    <2>2. BroughtFresh(d, t, f) => BroughtFresh(e, t, f)
      BY DEF BroughtFresh, Thinned, Like
    <2> QED BY <2>1, <2>2
  <1>4. ASSUME NEW t, NEW op, NEW i \in DOMAIN d.queue, Answered(d.queue, i, op, t)
        PROVE  i \in DOMAIN e.queue /\ Answered(e.queue, i, op, t) /\ e.queue[i].loose = d.queue[i].loose
    BY <1>4 DEF Answered, Thinned, Like
  <1>5. ASSUME NEW t, NEW k \in DOMAIN d.queue, Asks(d, k, t), t \in DOMAIN e.overrides,
               d.queue[k].pc \in {"sent", "failed"}
        PROVE  k \in DOMAIN e.queue /\ Asks(e, k, t) /\ e.queue[k].pc = d.queue[k].pc
    <2>1. k \in DOMAIN e.queue
      BY <1>5 DEF Asks
    <2> QED BY <1>5, <2>1 DEF Asks, Thinned, Like
  <1>6. ASSUME NEW t \in Papers, LinkShown(d, t)
        PROVE  LinkShown(e, t)
    BY <1>3, <1>4, <1>6 DEF LinkShown
  <1>7. ASSUME NEW t \in Papers, GrantShown(d, t)
        PROVE  GrantShown(e, t)
    BY <1>3, <1>4, <1>7 DEF GrantShown
  <1>8. ASSUME NEW t \in Papers, SwitchRight(d, t)
        PROVE  SwitchRight(e, t)
    BY <1>5, <1>8 DEF SwitchRight
  <1>9. ASSUME NEW t \in Papers, LastAsked(d, t)
        PROVE  LastAsked(e, t)
    <2> SUFFICES ASSUME t \in DOMAIN e.overrides, NEW i \in DOMAIN e.queue,
                        e.queue[i].op = "flag", t \in e.queue[i].txs,
                        e.queue[i].pc = "sent", ~e.queue[i].loose
                 PROVE  \E k \in DOMAIN e.queue :
                           k >= i /\ Asks(e, k, t) /\ e.queue[k].pc = "sent"
      BY DEF LastAsked
    <2>1. /\ i \in DOMAIN d.queue /\ d.queue[i].op = "flag" /\ t \in d.queue[i].txs
          /\ d.queue[i].pc = "sent" /\ ~d.queue[i].loose
      BY DEF Thinned, Like
    <2>2. PICK k \in DOMAIN d.queue : k >= i /\ Asks(d, k, t) /\ d.queue[k].pc = "sent"
      BY <1>9, <2>1 DEF LastAsked
    <2> QED BY <1>5, <2>2
  <1> QED BY <1>1, <1>2, <1>6, <1>7, <1>8, <1>9 DEF PageInv

\* An action is sent; if it is for a switch, the switch shows what it asks.
LEMMA PutKeeps ==
    ASSUME NEW p, NEW d, NEW e, PageInv(p, d), d.queue \in Queues,
           NEW item \in Items, item.pc = "sent", ~item.loose, item.brought = NotKept,
           e.queue = Put(d.queue, item),
           e.url = d.url, e.list = d.list, e.coming = d.coming,
           \A t \in DOMAIN e.overrides :
              IF item.op = "flag" /\ t \in item.txs THEN e.overrides[t] = item.value
              ELSE t \in DOMAIN d.overrides /\ e.overrides[t] = d.overrides[t]
    PROVE  PageInv(p, e)
  <1>1. PICK n \in Nat : /\ \A i \in DOMAIN d.queue : i < n
                         /\ DOMAIN e.queue = DOMAIN d.queue \cup {n}
                         /\ e.queue[n] = item
                         /\ \A i \in DOMAIN d.queue : e.queue[i] = d.queue[i]
    <2>1. \E n \in Nat : /\ \A i \in DOMAIN d.queue : i < n
                         /\ DOMAIN Put(d.queue, item) = DOMAIN d.queue \cup {n}
                         /\ Put(d.queue, item)[n] = item
                         /\ \A i \in DOMAIN d.queue : Put(d.queue, item)[i] = d.queue[i]
      <3> DEFINE q == d.queue
      <3>1. q \in Queues
        OBVIOUS
      <3> HIDE DEF q
      <3>2. \E n \in Nat : /\ \A i \in DOMAIN q : i < n
                           /\ DOMAIN Put(q, item) = DOMAIN q \cup {n}
                           /\ Put(q, item)[n] = item
                           /\ \A i \in DOMAIN q : Put(q, item)[i] = q[i]
        BY <3>1, PutFacts
      <3> QED BY <3>2 DEF q
    <2> QED BY <2>1
  <1>2. \A i \in DOMAIN d.queue : i \in Nat
    BY QueueTyped
  <1>3. Answers(e.queue)
    BY <1>1 DEF PageInv, Answers
  <1>4. InTurn(e.queue)
    BY <1>1, <1>2 DEF PageInv, InTurn
  <1>5. ReadAlone(e)
    BY <1>1 DEF PageInv, ReadAlone
  <1>6. ASSUME NEW t, NEW f
        PROVE  /\ ComingFresh(d, t, f) => ComingFresh(e, t, f)
               /\ BroughtFresh(d, t, f) => BroughtFresh(e, t, f)
    <2>1. ComingFresh(d, t, f) => ComingFresh(e, t, f)
      BY DEF ComingFresh
    <2>2. BroughtFresh(d, t, f) => BroughtFresh(e, t, f)
      BY <1>1 DEF BroughtFresh
    <2> QED BY <2>1, <2>2
  <1>7. ASSUME NEW t \in Papers, LinkShown(d, t)
        PROVE  LinkShown(e, t)
    BY <1>1, <1>6, <1>7 DEF LinkShown, Answered
  <1>8. ASSUME NEW t \in Papers, GrantShown(d, t)
        PROVE  GrantShown(e, t)
    BY <1>1, <1>6, <1>8 DEF GrantShown, Answered
  <1>9. ASSUME NEW t \in Papers, SwitchRight(d, t)
        PROVE  SwitchRight(e, t)
    <2>1. CASE item.op = "flag" /\ t \in item.txs
      BY <1>1, <2>1 DEF SwitchRight, Asks
    <2>2. CASE ~(item.op = "flag" /\ t \in item.txs)
      BY <1>1, <1>9, <2>2 DEF SwitchRight, Asks
    <2> QED BY <2>1, <2>2
  <1>10. ASSUME NEW t \in Papers, LastAsked(d, t)
         PROVE  LastAsked(e, t)
    <2> SUFFICES ASSUME t \in DOMAIN e.overrides, NEW i \in DOMAIN e.queue,
                        e.queue[i].op = "flag", t \in e.queue[i].txs,
                        e.queue[i].pc = "sent", ~e.queue[i].loose
                 PROVE  \E k \in DOMAIN e.queue :
                           k >= i /\ Asks(e, k, t) /\ e.queue[k].pc = "sent"
      BY DEF LastAsked
    <2>1. CASE item.op = "flag" /\ t \in item.txs
      <3>1. n >= i /\ Asks(e, n, t) /\ e.queue[n].pc = "sent"
        BY <1>1, <1>2, <2>1 DEF Asks
      <3> QED BY <1>1, <3>1
    <2>2. CASE ~(item.op = "flag" /\ t \in item.txs)
      <3>1. i \in DOMAIN d.queue /\ e.queue[i] = d.queue[i] /\ t \in DOMAIN d.overrides
        BY <1>1, <2>2
      <3>2. PICK k \in DOMAIN d.queue : k >= i /\ Asks(d, k, t) /\ d.queue[k].pc = "sent"
        BY <1>10, <3>1 DEF LastAsked
      <3> QED BY <1>1, <2>2, <3>2 DEF Asks
    <2> QED BY <2>1, <2>2
  <1> QED BY <1>3, <1>4, <1>5, <1>7, <1>8, <1>9, <1>10 DEF PageInv

\* The page is left for another address, or opened anew: a load is under way.
LEMMA LeftKeeps ==
    ASSUME NEW p, NEW d, NEW e, PageInv(p, d),
           e.coming # NotKept, e.coming.got = NotKept,
           \A i \in DOMAIN e.queue : /\ i \in DOMAIN d.queue /\ e.queue[i].loose
                                     /\ e.queue[i].brought = NotKept,
           \A t \in DOMAIN e.overrides :
              /\ t \in DOMAIN d.overrides /\ e.overrides[t] = d.overrides[t]
              /\ \A i \in DOMAIN d.queue :
                    /\ i \in DOMAIN e.queue
                    /\ e.queue[i].op = d.queue[i].op /\ e.queue[i].txs = d.queue[i].txs
                    /\ e.queue[i].value = d.queue[i].value /\ e.queue[i].pc = d.queue[i].pc
    PROVE  PageInv(p, e)
  <1>1. Answers(e.queue) /\ InTurn(e.queue) /\ ReadAlone(e)
    BY DEF Answers, InTurn, ReadAlone
  <1>2. \A t, f : ComingFresh(e, t, f)
    BY DEF ComingFresh
  <1>3. ASSUME NEW t \in Papers, SwitchRight(d, t)
        PROVE  SwitchRight(e, t)
    BY <1>3 DEF SwitchRight, Asks
  <1>4. \A t \in Papers : LastAsked(e, t)
    BY DEF LastAsked
  <1> QED BY <1>1, <1>2, <1>3, <1>4 DEF PageInv, LinkShown, GrantShown

\* The answer of an assignment starts a load.
LEMMA LoadKeeps ==
    ASSUME NEW p, NEW d, NEW e, PageInv(p, d), Thinned(d.queue, e.queue),
           e.coming # NotKept, e.coming.got = NotKept, e.overrides = d.overrides,
           \A i \in DOMAIN d.queue \ DOMAIN e.queue : d.queue[i].op # "flag"
    PROVE  PageInv(p, e)
  <1>1. Answers(e.queue) /\ InTurn(e.queue)
    BY ThinnedQueue DEF PageInv
  <1>2. ReadAlone(e)
    BY DEF ReadAlone
  <1>3. \A t, f : ComingFresh(e, t, f)
    BY DEF ComingFresh
  <1>4. ASSUME NEW t, NEW k \in DOMAIN d.queue, Asks(d, k, t)
        PROVE  k \in DOMAIN e.queue /\ Asks(e, k, t) /\ e.queue[k].pc = d.queue[k].pc
    BY <1>4 DEF Asks, Thinned, Like
  <1>5. ASSUME NEW t \in Papers, SwitchRight(d, t)
        PROVE  SwitchRight(e, t)
    BY <1>4, <1>5 DEF SwitchRight
  <1>6. ASSUME NEW t \in Papers, LastAsked(d, t)
        PROVE  LastAsked(e, t)
    <2> SUFFICES ASSUME t \in DOMAIN e.overrides, NEW i \in DOMAIN e.queue,
                        e.queue[i].op = "flag", t \in e.queue[i].txs,
                        e.queue[i].pc = "sent", ~e.queue[i].loose
                 PROVE  \E k \in DOMAIN e.queue :
                           k >= i /\ Asks(e, k, t) /\ e.queue[k].pc = "sent"
      BY DEF LastAsked
    <2>1. /\ i \in DOMAIN d.queue /\ d.queue[i].op = "flag" /\ t \in d.queue[i].txs
          /\ d.queue[i].pc = "sent" /\ ~d.queue[i].loose
      BY DEF Thinned, Like
    <2>2. PICK k \in DOMAIN d.queue : k >= i /\ Asks(d, k, t) /\ d.queue[k].pc = "sent"
      BY <1>6, <2>1 DEF LastAsked
    <2> QED BY <1>4, <2>2
  <1> QED BY <1>1, <1>2, <1>3, <1>5, <1>6 DEF PageInv, LinkShown, GrantShown

\* The answer of a switch or of a creation shows the page it brings.
LEMMA HeardKeeps ==
    ASSUME NEW p, NEW d, NEW e, PageInv(p, d), NEW i \in DOMAIN d.queue,
           d.queue[i].pc = "done", d.queue[i].op # "assign",
           Thinned(d.queue, e.queue), DOMAIN e.queue = DOMAIN d.queue \ {i},
           e.url = d.url, e.coming = d.coming, e.overrides = d.overrides,
           e.list = IF d.queue[i].brought = NotKept THEN d.list ELSE d.queue[i].brought
    PROVE  PageInv(p, e)
  <1>1. Answers(e.queue) /\ InTurn(e.queue)
    BY ThinnedQueue DEF PageInv
  <1>2. ReadAlone(e)
    BY DEF PageInv, ReadAlone, Thinned, Like
  <1>3. ASSUME NEW t, NEW f
        PROVE  /\ ComingFresh(d, t, f) => ComingFresh(e, t, f)
               /\ BroughtFresh(d, t, f) => BroughtFresh(e, t, f)
               /\ BroughtFresh(d, t, f) /\ Fresh(d.url, d.list, t, f) => Fresh(e.url, e.list, t, f)
               /\ BroughtFresh(d, t, f) /\ d.queue[i].brought # NotKept => Fresh(e.url, e.list, t, f)
    <2>1. ComingFresh(d, t, f) => ComingFresh(e, t, f)
      BY DEF ComingFresh
    <2>2. BroughtFresh(d, t, f) => BroughtFresh(e, t, f)
      BY DEF BroughtFresh, Thinned, Like
    <2>3. BroughtFresh(d, t, f) /\ d.queue[i].brought # NotKept => Fresh(e.url, e.list, t, f)
      BY DEF BroughtFresh
    <2>4. BroughtFresh(d, t, f) /\ Fresh(d.url, d.list, t, f) => Fresh(e.url, e.list, t, f)
      BY <2>3
    <2> QED BY <2>1, <2>2, <2>3, <2>4
  <1>4. ASSUME NEW t, NEW op, NEW k \in DOMAIN d.queue, k # i, Answered(d.queue, k, op, t)
        PROVE  k \in DOMAIN e.queue /\ Answered(e.queue, k, op, t) /\ e.queue[k].loose = d.queue[k].loose
    BY <1>4 DEF Answered, Thinned, Like
  <1>5. ASSUME NEW t, NEW k \in DOMAIN d.queue, Asks(d, k, t), d.queue[k].pc \in {"sent", "failed"}
        PROVE  k \in DOMAIN e.queue /\ Asks(e, k, t) /\ e.queue[k].pc = d.queue[k].pc
    BY <1>5 DEF Asks, Thinned, Like
  <1>6. ASSUME NEW t \in Papers, LinkShown(d, t)
        PROVE  LinkShown(e, t)
    <2>1. ASSUME NEW k \in DOMAIN d.queue, Answered(d.queue, k, "assign", t)
          PROVE  k # i
      BY <2>1 DEF Answered
    <2> QED BY <1>3, <1>4, <1>6, <2>1 DEF LinkShown
  <1>7. ASSUME NEW t \in Papers, GrantShown(d, t)
        PROVE  GrantShown(e, t)
    <2>1. CASE ComingFresh(d, t, "grant")
      BY <1>3, <2>1 DEF GrantShown
    <2>2. CASE d.coming = NotKept /\ BroughtFresh(d, t, "grant") /\ Fresh(d.url, d.list, t, "grant")
      BY <1>3, <2>2 DEF GrantShown
    <2>3. ASSUME d.coming = NotKept, BroughtFresh(d, t, "grant"), NEW k \in DOMAIN d.queue,
                 Answered(d.queue, k, "flag", t), ~d.queue[k].loose
          PROVE  GrantShown(e, t)
      <3>1. CASE k = i
        <4>1. d.queue[i].brought # NotKept
          BY <2>3, <3>1 DEF PageInv, Answers
        <4> QED BY <1>3, <2>3, <4>1 DEF GrantShown
      <3>2. CASE k # i
        BY <1>3, <1>4, <2>3, <3>2 DEF GrantShown
      <3> QED BY <3>1, <3>2
    <2> QED BY <1>7, <2>1, <2>2, <2>3 DEF GrantShown
  <1>8. ASSUME NEW t \in Papers, SwitchRight(d, t)
        PROVE  SwitchRight(e, t)
    BY <1>5, <1>8 DEF SwitchRight
  <1>9. ASSUME NEW t \in Papers, LastAsked(d, t)
        PROVE  LastAsked(e, t)
    <2> SUFFICES ASSUME t \in DOMAIN e.overrides, NEW j \in DOMAIN e.queue,
                        e.queue[j].op = "flag", t \in e.queue[j].txs,
                        e.queue[j].pc = "sent", ~e.queue[j].loose
                 PROVE  \E k \in DOMAIN e.queue :
                           k >= j /\ Asks(e, k, t) /\ e.queue[k].pc = "sent"
      BY DEF LastAsked
    <2>1. /\ j \in DOMAIN d.queue /\ d.queue[j].op = "flag" /\ t \in d.queue[j].txs
          /\ d.queue[j].pc = "sent" /\ ~d.queue[j].loose
      BY DEF Thinned, Like
    <2>2. PICK k \in DOMAIN d.queue : k >= j /\ Asks(d, k, t) /\ d.queue[k].pc = "sent"
      BY <1>9, <2>1 DEF LastAsked
    <2> QED BY <1>5, <2>2
  <1> QED BY <1>1, <1>2, <1>6, <1>7, <1>8, <1>9 DEF PageInv

\* A load is answered with what is right about all the page should know.
LEMMA ReadKeeps ==
    ASSUME NEW p, NEW d, NEW e, PageInv(p, d),
           d.coming # NotKept, e.coming # NotKept, e.coming.url = d.coming.url,
           \A t \in Papers, f \in Fields :
              p \in aware[t][f] => Fresh(e.coming.url, e.coming.got, t, f),
           \A i \in DOMAIN d.queue : d.queue[i].loose \/ d.queue[i].pc = "sent",
           e.queue = d.queue, e.overrides = d.overrides
    PROVE  PageInv(p, e)
  <1>1. Answers(e.queue) /\ InTurn(e.queue) /\ ReadAlone(e)
    BY DEF PageInv, ReadAlone
  <1>2. \A t \in Papers, f \in Fields : p \in aware[t][f] => ComingFresh(e, t, f)
    BY DEF ComingFresh
  <1>3. \A t \in Papers : /\ SwitchRight(d, t) => SwitchRight(e, t)
                          /\ LastAsked(d, t) => LastAsked(e, t)
    BY DEF SwitchRight, LastAsked, Asks
  <1> QED BY <1>1, <1>2, <1>3 DEF PageInv, LinkShown, GrantShown, Fields

\* A load that was answered alone is shown.
LEMMA ArriveKeeps ==
    ASSUME NEW p, NEW d, NEW e, PageInv(p, d),
           d.coming # NotKept, d.coming.got # NotKept,
           e.url = d.coming.url, e.list = d.coming.got, e.coming = NotKept,
           e.queue = d.queue, e.overrides = d.overrides
    PROVE  PageInv(p, e)
  <1>1. Answers(e.queue) /\ InTurn(e.queue) /\ ReadAlone(e)
    BY DEF PageInv, ReadAlone
  <1>2. \A i \in DOMAIN e.queue : e.queue[i].brought = NotKept
    BY DEF PageInv, ReadAlone, Answers
  <1>3. ASSUME NEW t, NEW f, ComingFresh(d, t, f)
        PROVE  BroughtFresh(e, t, f) /\ Fresh(e.url, e.list, t, f)
    BY <1>2, <1>3 DEF ComingFresh, BroughtFresh
  <1>4. ASSUME NEW t \in Papers, LinkShown(d, t)
        PROVE  LinkShown(e, t)
    BY <1>3, <1>4 DEF LinkShown
  <1>5. ASSUME NEW t \in Papers, GrantShown(d, t)
        PROVE  GrantShown(e, t)
    BY <1>3, <1>5 DEF GrantShown
  <1>6. \A t \in Papers : /\ SwitchRight(d, t) => SwitchRight(e, t)
                          /\ LastAsked(d, t) => LastAsked(e, t)
    BY DEF SwitchRight, LastAsked, Asks
  <1> QED BY <1>1, <1>4, <1>5, <1>6 DEF PageInv

\* It is the turn of action i at the server.
MayServe(d, i) ==
    /\ d.queue[i].pc \in {"sent", "gone"}
    /\ d.queue[i].loose \/ d.coming = NotKept
    /\ \A j \in DOMAIN d.queue : j < i => d.queue[j].loose

\* What action writes.
Writes(action, t, f) ==
    /\ t \in action.txs
    /\ \/ action.op = "flag" /\ f = "grant"
       \/ action.op = "assign" /\ f = "link"

\* A switch writes the flag of its row, an assignment the links of its rows.
LEMMA WhatIsWritten ==
    ASSUME NEW q, NEW i, NEW t
    PROVE  /\ q[i].op = "flag" /\ t \in q[i].txs => Writes(q[i], t, "grant")
           /\ q[i].op = "assign" /\ t \in q[i].txs => Writes(q[i], t, "link")
           /\ Writes(q[i], t, "grant") => q[i].op = "flag" /\ t \in q[i].txs
           /\ Writes(q[i], t, "link") => q[i].op = "assign" /\ t \in q[i].txs
  BY DEF Writes

\* Action i is refused, or its answer is lost and then nobody counts on it.
LEMMA FailKeeps ==
    ASSUME desk' = desk, filed' = filed,
           NEW p, NEW d, NEW e, PageInv(p, d), d.queue \in Queues,
           NEW i \in DOMAIN d.queue, NEW item,
           item.op = d.queue[i].op, item.txs = d.queue[i].txs, item.value = d.queue[i].value,
           item.loose = d.queue[i].loose, item.brought = NotKept,
           \/ item.pc = "lost" /\ d.queue[i].pc = "done"
           \/ item.pc \in {"lost", "failed"} /\ d.queue[i].pc = "sent" /\ MayServe(d, i),
           e.queue = [d.queue EXCEPT ![i] = item], e.url = d.url, e.list = d.list,
           e.coming = d.coming, e.overrides = d.overrides,
           \A t \in Papers, f \in Fields : p \in aware'[t][f] =>
              p \in aware[t][f] /\ (item.pc = "failed" \/ ~Writes(d.queue[i], t, f))
    PROVE  PageInv(p, e)'
  <1>1. PageInv(p, d)'
    BY ViewKeeps
  <1>2. /\ DOMAIN e.queue = DOMAIN d.queue /\ e.queue[i] = item
        /\ \A k \in DOMAIN d.queue : k # i => e.queue[k] = d.queue[k]
    OBVIOUS
  <1>3. \A k \in DOMAIN d.queue : k \in Nat
    BY QueueTyped
  <1>4. Answers(d.queue) /\ InTurn(d.queue) /\ ReadAlone(d)
    BY DEF PageInv
  <1>5. \A j \in DOMAIN d.queue : j < i => d.queue[j].loose
    BY <1>4 DEF MayServe, InTurn
  <1>6. Answers(e.queue)
    BY <1>2, <1>4 DEF Answers, MayServe
  <1>7. InTurn(e.queue)
    <2> SUFFICES ASSUME NEW a \in DOMAIN e.queue, NEW b \in DOMAIN e.queue, a < b, ~e.queue[a].loose
                 PROVE  ~e.queue[b].loose /\ e.queue[b].pc = "sent"
      BY DEF InTurn
    <2>1. a \in DOMAIN d.queue /\ b \in DOMAIN d.queue /\ ~d.queue[a].loose
      BY <1>2
    <2>2. b # i
      BY <1>5, <2>1
    <2> QED BY <1>2, <1>4, <2>1, <2>2 DEF InTurn
  <1>8. ReadAlone(e)
    BY <1>2, <1>4 DEF ReadAlone, MayServe
  <1>9. ASSUME NEW t, NEW f
        PROVE  /\ ComingFresh(d, t, f)' => ComingFresh(e, t, f)'
               /\ BroughtFresh(d, t, f)' => BroughtFresh(e, t, f)'
    <2>1. ComingFresh(d, t, f)' => ComingFresh(e, t, f)'
      BY DEF ComingFresh
    <2>2. BroughtFresh(d, t, f)' => BroughtFresh(e, t, f)'
      BY <1>2 DEF BroughtFresh
    <2> QED BY <2>1, <2>2
  <1>10. ASSUME NEW t, NEW k \in DOMAIN d.queue, NEW op, Answered(d.queue, k, op, t), k # i
         PROVE  k \in DOMAIN e.queue /\ Answered(e.queue, k, op, t) /\ e.queue[k].loose = d.queue[k].loose
    BY <1>2, <1>10 DEF Answered
  <1>11. ASSUME NEW t \in Papers, p \in aware'[t]["link"]
         PROVE  LinkShown(e, t)'
    <2>1. LinkShown(d, t)'
      BY <1>1, <1>11 DEF PageInv
    <2>2. ~Answered(d.queue, i, "assign", t)
      BY <1>11, WhatIsWritten DEF Answered, Fields, MayServe
    <2> QED BY <1>9, <1>10, <2>1, <2>2 DEF LinkShown, Answered
  <1>12. ASSUME NEW t \in Papers, p \in aware'[t]["grant"]
         PROVE  GrantShown(e, t)' /\ SwitchRight(e, t)'
    <2>1. GrantShown(d, t)' /\ SwitchRight(d, t)'
      BY <1>1, <1>12 DEF PageInv
    <2>2. ~Answered(d.queue, i, "flag", t)
      BY <1>12, WhatIsWritten DEF Answered, Fields, MayServe
    <2>3. GrantShown(e, t)'
      BY <1>9, <1>10, <2>1, <2>2 DEF GrantShown, Answered
    <2>4. ASSUME NEW k \in DOMAIN d.queue, Asks(d, k, t), d.queue[k].pc \in {"sent", "failed"}
          PROVE  k \in DOMAIN e.queue /\ Asks(e, k, t) /\ e.queue[k].pc \in {"sent", "failed"}
      <3>1. CASE k # i
        BY <1>2, <2>4, <3>1 DEF Asks
      <3>2. CASE k = i
        <4>1. Writes(d.queue[i], t, "grant")
          BY <2>4, <3>2, WhatIsWritten DEF Asks
        <4>2. item.pc = "failed"
          BY <1>12, <4>1 DEF Fields
        <4> QED BY <1>2, <2>4, <3>2, <4>2 DEF Asks
      <3> QED BY <3>1, <3>2
    <2>5. SwitchRight(e, t)'
      BY <2>1, <2>4 DEF SwitchRight, Asks
    <2> QED BY <2>3, <2>5
  <1>13. ASSUME NEW t \in Papers
         PROVE  LastAsked(e, t)
    <2> SUFFICES ASSUME t \in DOMAIN e.overrides, NEW j \in DOMAIN e.queue,
                        e.queue[j].op = "flag", t \in e.queue[j].txs,
                        e.queue[j].pc = "sent", ~e.queue[j].loose
                 PROVE  \E k \in DOMAIN e.queue :
                           k >= j /\ Asks(e, k, t) /\ e.queue[k].pc = "sent"
      BY DEF LastAsked
    <2>1. j # i /\ e.queue[j] = d.queue[j] /\ j \in DOMAIN d.queue
      BY <1>2
    <2>2. PICK k \in DOMAIN d.queue : k >= j /\ Asks(d, k, t) /\ d.queue[k].pc = "sent"
      BY <2>1 DEF PageInv, LastAsked
    <2>3. k # i
      BY <1>3, <1>5, <2>1, <2>2
    <2> QED BY <1>2, <2>2, <2>3 DEF Asks
  <1>14. Answers(e.queue)' /\ InTurn(e.queue)' /\ ReadAlone(e)' /\ \A t \in Papers : LastAsked(e, t)'
    BY <1>6, <1>7, <1>8, <1>13 DEF Answers, InTurn, ReadAlone, LastAsked, Asks
  <1> QED BY <1>11, <1>12, <1>14 DEF PageInv

\* Page d becomes e when action i is answered, as item, with list l.
Served(d, e, i, item, l) ==
    /\ MayServe(d, i) /\ d.queue[i].pc = "sent" /\ l # NotKept
    /\ item.op = d.queue[i].op /\ item.txs = d.queue[i].txs /\ item.value = d.queue[i].value
    /\ item.loose = d.queue[i].loose /\ item.pc = "done"
    /\ item.brought = IF item.loose THEN NotKept ELSE l
    /\ e.queue = [d.queue EXCEPT ![i] = item] /\ e.url = d.url /\ e.list = d.list
    /\ e.coming = d.coming /\ e.overrides = d.overrides

\* Action i of the page is served and its answer brings list l, unless the page
\* has been left: what it wrote is on its way, and nothing else has changed.
LEMMA ServeKeeps ==
    ASSUME desk' = desk,
           NEW p, NEW d, NEW e, PageInv(p, d), d.queue \in Queues,
           NEW i \in DOMAIN d.queue, NEW item, NEW l, Served(d, e, i, item, l),
           \A t \in Papers, f \in Fields : p \in aware'[t][f] =>
              /\ Fresh(d.url, l, t, f)'
              /\ Writes(item, t, f) /\ f = "grant" =>
                    ~item.loose /\ filed'[t]["grant"] = item.value
              /\ ~Writes(item, t, f) => p \in aware[t][f] /\ filed'[t][f] = filed[t][f]
    PROVE  PageInv(p, e)'
  <1> USE DEF Served
  <1>1. /\ DOMAIN e.queue = DOMAIN d.queue /\ e.queue[i] = item
        /\ \A k \in DOMAIN d.queue : k # i => e.queue[k] = d.queue[k]
    OBVIOUS
  <1>2. \A k \in DOMAIN d.queue : k \in Nat
    BY QueueTyped
  <1>3. Answers(d.queue) /\ InTurn(d.queue) /\ ReadAlone(d)
    BY DEF PageInv
  <1>4. \A j \in DOMAIN d.queue : j < i => d.queue[j].loose
    BY DEF MayServe
  <1>5. Answers(e.queue)
    BY <1>1, <1>3 DEF Answers
  <1>6. InTurn(e.queue)
    <2> SUFFICES ASSUME NEW a \in DOMAIN e.queue, NEW b \in DOMAIN e.queue, a < b, ~e.queue[a].loose
                 PROVE  ~e.queue[b].loose /\ e.queue[b].pc = "sent"
      BY DEF InTurn
    <2>1. a \in DOMAIN d.queue /\ b \in DOMAIN d.queue /\ ~d.queue[a].loose
      BY <1>1
    <2>2. b # i
      BY <1>4, <2>1
    <2> QED BY <1>1, <1>3, <2>1, <2>2 DEF InTurn
  <1>7. ReadAlone(e)
    BY <1>1, <1>3 DEF ReadAlone, MayServe
  <1>8. ASSUME NEW t \in Papers
        PROVE  LastAsked(e, t)
    <2> SUFFICES ASSUME t \in DOMAIN e.overrides, NEW j \in DOMAIN e.queue,
                        e.queue[j].op = "flag", t \in e.queue[j].txs,
                        e.queue[j].pc = "sent", ~e.queue[j].loose
                 PROVE  \E k \in DOMAIN e.queue :
                           k >= j /\ Asks(e, k, t) /\ e.queue[k].pc = "sent"
      BY DEF LastAsked
    <2>1. j # i /\ e.queue[j] = d.queue[j] /\ j \in DOMAIN d.queue
      BY <1>1
    <2>2. PICK k \in DOMAIN d.queue : k >= j /\ Asks(d, k, t) /\ d.queue[k].pc = "sent"
      BY <2>1 DEF PageInv, LastAsked
    <2>3. k # i
      BY <1>2, <1>4, <2>1, <2>2
    <2> QED BY <1>1, <2>2, <2>3 DEF Asks
  <1>9. ASSUME NEW t \in Papers, NEW f \in Fields, p \in aware'[t][f], ~Writes(item, t, f)
        PROVE  /\ p \in aware[t][f] /\ filed'[t][f] = filed[t][f]
               /\ ComingFresh(d, t, f) => ComingFresh(e, t, f)'
               /\ BroughtFresh(d, t, f) => BroughtFresh(e, t, f)'
               /\ Fresh(d.url, d.list, t, f) => Fresh(e.url, e.list, t, f)'
    <2>1. p \in aware[t][f] /\ filed'[t][f] = filed[t][f] /\ Fresh(d.url, l, t, f)'
      BY <1>9
    <2>2. \A url, list : Fresh(url, list, t, f)' <=> Fresh(url, list, t, f)
      BY <2>1, FreshStays
    <2>3. ComingFresh(d, t, f) => ComingFresh(e, t, f)'
      BY <2>2 DEF ComingFresh
    <2>4. BroughtFresh(d, t, f) => BroughtFresh(e, t, f)'
      BY <1>1, <2>1, <2>2 DEF BroughtFresh
    <2>5. Fresh(d.url, d.list, t, f) => Fresh(e.url, e.list, t, f)'
      BY <2>2
    <2> QED BY <2>1, <2>3, <2>4, <2>5
  <1>10. ASSUME NEW t, NEW op, NEW k \in DOMAIN d.queue, Answered(d.queue, k, op, t)
         PROVE  k \in DOMAIN e.queue /\ Answered(e.queue, k, op, t) /\ e.queue[k].loose = d.queue[k].loose
    BY <1>1, <1>10 DEF Answered
  <1>11. ASSUME NEW t \in Papers, p \in aware'[t]["link"]
         PROVE  LinkShown(e, t)'
    <2>1. CASE Writes(item, t, "link")
      <3>1. Answered(e.queue, i, "assign", t)
        BY <1>1, <2>1 DEF Writes, Answered
      <3> QED BY <1>1, <3>1 DEF LinkShown, Answered
    <2>2. CASE ~Writes(item, t, "link")
      <3>1. LinkShown(d, t)
        BY <1>9, <1>11, <2>2 DEF PageInv, Fields
      <3> QED BY <1>9, <1>10, <1>11, <2>2, <3>1 DEF LinkShown, Answered, Fields
    <2> QED BY <2>1, <2>2
  <1>12. ASSUME NEW t \in Papers, p \in aware'[t]["grant"], Writes(item, t, "grant")
         PROVE  GrantShown(e, t)' /\ SwitchRight(e, t)'
    <2>1. /\ item.op = "flag" /\ t \in item.txs /\ ~item.loose
          /\ filed'[t]["grant"] = item.value /\ Fresh(d.url, l, t, "grant")'
      BY <1>12 DEF Writes, Fields
    <2>2. d.coming = NotKept
      BY <2>1 DEF MayServe
    <2>3. \A k \in DOMAIN d.queue : k # i => d.queue[k].brought = NotKept
      BY <1>2, <1>3, <1>4, <2>1 DEF Answers, InTurn
    <2>4. BroughtFresh(e, t, "grant")'
      BY <1>1, <2>1, <2>3 DEF BroughtFresh
    <2>5. Answered(e.queue, i, "flag", t) /\ ~e.queue[i].loose
      BY <1>1, <2>1 DEF Answered
    <2>6. GrantShown(e, t)'
      BY <1>1, <2>2, <2>4, <2>5 DEF GrantShown, Answered
    <2>7. SwitchRight(e, t)'
      <3> SUFFICES ASSUME t \in DOMAIN d.overrides
                   PROVE  \/ d.overrides[t] = filed'[t]["grant"]
                          \/ \E k \in DOMAIN e.queue :
                                Asks(e, k, t) /\ e.queue[k].pc \in {"sent", "failed"}
        BY DEF SwitchRight, Asks
      <3>1. PICK k \in DOMAIN d.queue : k >= i /\ Asks(d, k, t) /\ d.queue[k].pc = "sent"
        <4>1. LastAsked(d, t)
          BY DEF PageInv
        <4>2. /\ d.queue[i].op = "flag" /\ t \in d.queue[i].txs
              /\ d.queue[i].pc = "sent" /\ ~d.queue[i].loose
          BY <2>1
        <4> QED BY <4>1, <4>2 DEF LastAsked
      <3>2. CASE k = i
        BY <2>1, <3>1, <3>2 DEF Asks
      <3>3. CASE k # i
        BY <1>1, <3>1, <3>3 DEF Asks
      <3> QED BY <3>2, <3>3
    <2> QED BY <2>6, <2>7
  <1>13. ASSUME NEW t \in Papers, p \in aware'[t]["grant"], ~Writes(item, t, "grant")
         PROVE  GrantShown(e, t)' /\ SwitchRight(e, t)'
    <2>1. p \in aware[t]["grant"] /\ filed'[t]["grant"] = filed[t]["grant"]
      BY <1>9, <1>13 DEF Fields
    <2>2. GrantShown(d, t) /\ SwitchRight(d, t)
      BY <2>1 DEF PageInv
    <2>3. GrantShown(e, t)'
      BY <1>9, <1>10, <1>13, <2>2 DEF GrantShown, Answered, Fields
    <2>4. SwitchRight(e, t)'
      <3> SUFFICES ASSUME t \in DOMAIN d.overrides, NEW k \in DOMAIN d.queue,
                          Asks(d, k, t), d.queue[k].pc \in {"sent", "failed"}
                   PROVE  \E k_1 \in DOMAIN e.queue :
                                Asks(e, k_1, t) /\ e.queue[k_1].pc \in {"sent", "failed"}
        BY <2>1, <2>2 DEF SwitchRight, Asks
      <3>1. k # i
        BY <1>13 DEF Asks, Writes
      <3> QED BY <1>1, <3>1 DEF Asks
    <2> QED BY <2>3, <2>4
  <1>14. Answers(e.queue)' /\ InTurn(e.queue)' /\ ReadAlone(e)' /\ \A t \in Papers : LastAsked(e, t)'
    BY <1>5, <1>6, <1>7, <1>8 DEF Answers, InTurn, ReadAlone, LastAsked, Asks
  <1> QED BY <1>11, <1>12, <1>13, <1>14 DEF PageInv

(***************************************************************************)
(* Steps of a page by itself.                                              *)
(***************************************************************************)

\* The desk that is followed does not change, and with it what its pages may be.
LEMMA TypesStay ==
    ASSUME desk' = desk
    PROVE  /\ Sorts' = Sorts /\ Addresses' = Addresses
           /\ Loads' = Loads /\ Desks' = Desks
  <1>1. Sorts' = Sorts
    BY DEF Sorts, LineOf
  <1>2. Addresses' = Addresses
    BY <1>1 DEF Addresses
  <1>3. Loads' = Loads
    BY <1>2 DEF Loads
  <1> QED BY <1>1, <1>2, <1>3 DEF Desks

\* A queue made of actions of another.
LEMMA QueueOf ==
    ASSUME NEW q \in Queues, NEW r, r = [i \in DOMAIN r |-> r[i]],
           \A i \in DOMAIN r : i \in DOMAIN q /\ r[i] \in Items
    PROVE  r \in Queues
  <1>1. \A i \in DOMAIN q : i \in Nat
    BY QueueTyped
  <1>2. PICK b \in Nat : \A i \in DOMAIN q : i <= b
    BY QueueTyped
  <1>3. \A i \in DOMAIN r : i \in Nat /\ r[i] \in Items /\ i <= b
    BY <1>1, <1>2
  <1> QED BY <1>3, QueueTyped

\* What the invariant says of one page.
LEMMA PageTyped ==
    ASSUME DeskInv, NEW p \in DOMAIN desks
    PROVE  /\ desks[p] \in Desks /\ PageInv(p, desks[p])
           /\ desks[p].queue \in Queues
           /\ DOMAIN desks = Operators[desk]
           /\ \A i \in DOMAIN desks[p].queue : desks[p].queue[i] \in Items /\ i \in Nat
  <1>1. desks[p] \in Desks /\ PageInv(p, desks[p]) /\ DOMAIN desks = Operators[desk]
    BY DEF DeskInv, DeskTypeOK
  <1>2. desks[p].queue \in Queues
    BY <1>1 DEF Desks
  <1> QED BY <1>1, <1>2, QueueTyped

\* A step of page p that changes nothing but the page keeps the invariant if the
\* page keeps its part.
LEMMA OwnStep ==
    ASSUME DeskInv, NEW p \in DOMAIN desks, NEW e \in Desks, SetDesk(p, e),
           UNCHANGED <<desk, filed, people, kept, aware>>,
           deskUsed' \in [sent : 0..MaxSent, renders : 0..MaxRenders],
           PageInv(p, e)
    PROVE  DeskInv'
  <1>1. /\ DOMAIN desks' = DOMAIN desks /\ desks'[p] = e
        /\ \A q \in DOMAIN desks : q # p => desks'[q] = desks[q]
    BY DEF SetDesk, DeskInv, DeskTypeOK
  <1>2. desks' \in [Operators[desk] -> Desks]
    BY DEF SetDesk, DeskInv, DeskTypeOK
  <1>3. DeskTypeOK'
    BY <1>2, TypesStay DEF DeskInv, DeskTypeOK
  <1>4. KeptFresh'
    <2> SUFFICES ASSUME NEW t \in Papers, NEW f \in Fields, aware[t][f] # {},
                        NEW u \in Addresses, kept[u] # NotKept
                 PROVE  Fresh(u, kept[u], t, f)'
      BY TypesStay DEF KeptFresh
    <2>1. Fresh(u, kept[u], t, f)
      BY DEF DeskInv, KeptFresh
    <2>2. Fresh(u, kept[u], t, f)' <=> Fresh(u, kept[u], t, f)
      <3> DEFINE l == kept[u]
      <3>1. l' = l
        OBVIOUS
      <3>2. \A url, list : Fresh(url, list, t, f)' <=> Fresh(url, list, t, f)
        BY FreshStays
      <3> QED BY <3>2
    <2> QED BY <2>1, <2>2
  <1>5. ASSUME NEW q \in DOMAIN desks'
        PROVE  PageInv(q, desks[q])' 
    <2>1. PICK d : d = desks'[q]
      OBVIOUS
    <2>2. PageInv(q, d)
      BY <1>1, <2>1 DEF DeskInv
    <2>3. PageInv(q, d)'
      BY <2>2, ViewKeeps
    <2> QED BY <2>1, <2>3 DEF PageInv
  <1> QED BY <1>3, <1>4, <1>5 DEF DeskInv

\* The counters of bounded events stay within their bounds.
LEMMA CountTyped ==
    ASSUME NEW u \in [sent : 0..MaxSent, renders : 0..MaxRenders]
    PROVE  /\ u.sent < MaxSent =>
                [u EXCEPT !.sent = @ + 1] \in [sent : 0..MaxSent, renders : 0..MaxRenders]
           /\ u.renders < MaxRenders =>
                [u EXCEPT !.renders = @ + 1] \in [sent : 0..MaxSent, renders : 0..MaxRenders]
  <1>1. MaxSent \in Nat /\ MaxRenders \in Nat
    BY DeskAssumption
  <1>2. u.sent < MaxSent => u.sent + 1 \in 0..MaxSent
    BY <1>1
  <1>3. u.renders < MaxRenders => u.renders + 1 \in 0..MaxRenders
    BY <1>1
  <1> QED BY <1>2, <1>3

\* A server action is sent.
LEMMA SendKeeps ==
    ASSUME DeskInv, NEW p \in DOMAIN desks, NEW item \in Items, NEW d \in Desks,
           Send(p, item, d), d.queue = desks[p].queue,
           PageInv(p, [d EXCEPT !.queue = Put(@, item)])
    PROVE  DeskInv'
  <1> DEFINE e == [d EXCEPT !.queue = Put(@, item)]
  <1>1. Put(d.queue, item) \in Queues
    BY PageTyped, PutFacts
  <1>2. e \in Desks
    BY <1>1 DEF Desks
  <1>3. SetDesk(p, e)
    BY DEF Send
  <1>4. deskUsed' \in [sent : 0..MaxSent, renders : 0..MaxRenders]
    BY CountTyped DEF Send, DeskInv, DeskTypeOK
  <1>5. UNCHANGED <<desk, filed, people, kept, aware>>
    BY DEF Send
  <1> HIDE DEF e
  <1> QED BY <1>2, <1>3, <1>4, <1>5, OwnStep DEF e

\* A server action as it is sent is well typed.
LEMMA NewItem ==
    ASSUME NEW op \in {"flag", "assign", "create"}, NEW T \in SUBSET Papers
    PROVE  Action(op, T) \in AnyItems
  BY DeskAssumption DEF Action, AnyItems, ListOrNot, PersonTypes

\* A switch shows what it asks from when it asks it.
LEMMA SwitchKeeps ==
    ASSUME DeskInv, NEW p \in DOMAIN desks, NEW t \in Papers, Switch(p, t)
    PROVE  DeskInv'
  <1> DEFINE d == desks[p]
             value == ~SwitchOf(p, t)
             item == [Action("flag", {t}) EXCEPT !.value = value]
             o == [u \in DOMAIN d.overrides \cup {t} |-> IF u = t THEN value ELSE d.overrides[u]]
             c == [d EXCEPT !.overrides = o]
             e == [c EXCEPT !.queue = Put(@, item)]
  <1>1. Send(p, item, c)
    BY DEF Switch
  <1>2. d \in Desks /\ PageInv(p, d) /\ d.queue \in Queues
    BY PageTyped
  <1>3. Action("flag", {t}) \in AnyItems
    BY NewItem
  <1>4. value \in BOOLEAN
    OBVIOUS
  <1> HIDE DEF value
  <1>5. /\ item \in Items /\ item.op = "flag" /\ item.txs = {t} /\ item.value = value
        /\ item.pc = "sent" /\ ~item.loose /\ item.brought = NotKept
    BY <1>3, <1>4 DEF Items, AnyItems, Action
  <1>6. d.overrides \in Switches
    BY <1>2 DEF Desks
  <1>7. o \in Switches
    <2>1. \A u \in DOMAIN d.overrides : u \in Papers /\ d.overrides[u] \in BOOLEAN
      BY <1>6, SwitchesTyped
    <2>2. o = [u \in DOMAIN o |-> o[u]] /\ \A u \in DOMAIN o : u \in Papers /\ o[u] \in BOOLEAN
      BY <1>4, <2>1
    <2> HIDE DEF o
    <2> QED BY <2>2, SwitchesTyped
  <1>8. /\ DOMAIN o = DOMAIN d.overrides \cup {t} /\ o[t] = value
        /\ \A u \in DOMAIN o : u # t => u \in DOMAIN d.overrides /\ o[u] = d.overrides[u]
    OBVIOUS
  <1> HIDE DEF item, o
  <1>9. c \in Desks /\ c.queue = d.queue
    BY <1>2, <1>7 DEF Desks
  <1>10. /\ e.queue = Put(d.queue, item) /\ e.url = d.url /\ e.list = d.list
         /\ e.coming = d.coming /\ e.overrides = o
    BY <1>2 DEF Desks
  <1> HIDE DEF e
  <1>11. PageInv(p, e)
    BY <1>2, <1>5, <1>8, <1>10, PutKeeps
  <1> QED BY <1>1, <1>5, <1>9, <1>11, SendKeeps DEF e

\* A call of a dialog.
LEMMA CallKeeps ==
    ASSUME DeskInv, NEW p \in DOMAIN desks, NEW item \in Items, Send(p, item, desks[p]),
           item.op # "flag", item.pc = "sent", ~item.loose, item.brought = NotKept
    PROVE  DeskInv'
  <1> DEFINE d == desks[p]
             e == [d EXCEPT !.queue = Put(@, item)]
  <1>1. d \in Desks /\ PageInv(p, d) /\ d.queue \in Queues
    BY PageTyped
  <1>2. /\ e.queue = Put(d.queue, item) /\ e.url = d.url /\ e.list = d.list
        /\ e.coming = d.coming /\ e.overrides = d.overrides
    BY <1>1 DEF Desks
  <1> HIDE DEF e
  <1>3. PageInv(p, e)
    BY <1>1, <1>2, PutKeeps
  <1> QED BY <1>1, <1>3, SendKeeps DEF e

\* An assignment is sent with somebody who exists.
LEMMA AssignExistingKeeps ==
    ASSUME DeskInv, NEW p \in DOMAIN desks, NEW id \in DOMAIN people, AssignExisting(p, id)
    PROVE  DeskInv'
  <1> DEFINE item == [Action("assign", desks[p].dialog) EXCEPT !.id = id, !.own = TRUE]
  <1>1. desks[p].dialog \in SUBSET Papers
    BY PageTyped DEF Desks
  <1>2. id \in 0..MaxPeople /\ id # 0
    BY DeskAssumption DEF DeskInv, DeskTypeOK
  <1> HIDE DEF item
  <1>3. item \in Items /\ item.op # "flag" /\ item.pc = "sent" /\ ~item.loose /\ item.brought = NotKept
    <2>1. /\ Action("assign", desks[p].dialog) \in AnyItems
          /\ Action("assign", desks[p].dialog).op = "assign"
      BY <1>1, NewItem DEF Action
    <2> QED BY <1>2, <2>1 DEF item, Items, AnyItems, Action
  <1>4. Send(p, item, desks[p])
    BY DEF AssignExisting, item
  <1> QED BY <1>3, <1>4, CallKeeps

\* A creation is sent.
LEMMA CreateAndAssignKeeps ==
    ASSUME DeskInv, NEW p \in DOMAIN desks, NEW type \in PersonTypes, CreateAndAssign(p, type)
    PROVE  DeskInv'
  <1> DEFINE item == [Action("create", desks[p].dialog) EXCEPT !.type = type]
  <1>1. desks[p].dialog \in SUBSET Papers
    BY PageTyped DEF Desks
  <1>2. item \in Items /\ item.op # "flag" /\ item.pc = "sent" /\ ~item.loose /\ item.brought = NotKept
    <2>1. Action("create", desks[p].dialog) \in AnyItems
      BY <1>1, NewItem
    <2> QED BY <2>1 DEF Items, AnyItems, Action
  <1>3. Send(p, item, desks[p])
    BY DEF CreateAndAssign
  <1> HIDE DEF item
  <1> QED BY <1>2, <1>3, CallKeeps

\* The same as OwnStep, for a step that is not counted.
LEMMA OnlyPageStep ==
    ASSUME DeskInv, NEW p \in DOMAIN desks, NEW e \in Desks, SetDesk(p, e), OnlyPage,
           PageInv(p, e)
    PROVE  DeskInv'
  <1>1. deskUsed' \in [sent : 0..MaxSent, renders : 0..MaxRenders]
    BY DEF OnlyPage, DeskInv, DeskTypeOK
  <1> QED BY <1>1, OwnStep DEF OnlyPage

\* A dialog opens over rows that the page lists.
LEMMA OpenDialogKeeps ==
    ASSUME DeskInv, NEW p \in DOMAIN desks, NEW T \in SUBSET Shows(p), OpenDialog(p, T)
    PROVE  DeskInv'
  <1> DEFINE d == desks[p]
             e == [d EXCEPT !.dialog = T]
  <1>1. d \in Desks /\ PageInv(p, d)
    BY PageTyped
  <1>2. T \in SUBSET Papers
    <2>1. d.list \in Listings
      BY <1>1 DEF Desks
    <2> QED BY <2>1, ListTyped DEF Shows
  <1>3. e \in Desks
    BY <1>1, <1>2 DEF Desks
  <1>4. /\ e.queue = d.queue /\ e.url = d.url /\ e.list = d.list
        /\ e.coming = d.coming /\ e.overrides = d.overrides
    BY <1>1 DEF Desks
  <1>5. SetDesk(p, e) /\ OnlyPage
    BY DEF OpenDialog
  <1> HIDE DEF e
  <1>6. PageInv(p, e)
    BY <1>1, <1>4, ThinKeeps DEF Thinned, Like
  <1> QED BY <1>3, <1>5, <1>6, OnlyPageStep

\* No action of the queue has its dialog any more.
Disowned(q) == [i \in DOMAIN q |-> [q[i] EXCEPT !.own = FALSE]]

\* An action does not change for the invariant when its dialog is closed.
LEMMA DisownedItem ==
    ASSUME NEW a \in Items
    PROVE  [a EXCEPT !.own = FALSE] \in Items /\ Like([a EXCEPT !.own = FALSE], a)
  BY DEF Items, AnyItems, Like

\* Nor does a queue.
LEMMA DisownedFacts ==
    ASSUME NEW q \in Queues
    PROVE  /\ Disowned(q) \in Queues /\ DOMAIN Disowned(q) = DOMAIN q
           /\ \A i \in DOMAIN q : Like(Disowned(q)[i], q[i])
  <1> DEFINE r == Disowned(q)
  <1>1. DOMAIN r = DOMAIN q /\ r = [i \in DOMAIN r |-> r[i]]
        /\ \A i \in DOMAIN q : r[i] = [q[i] EXCEPT !.own = FALSE]
    BY DEF Disowned
  <1>2. \A i \in DOMAIN q : q[i] \in Items
    BY QueueTyped
  <1>3. \A i \in DOMAIN q : r[i] \in Items /\ Like(r[i], q[i])
    BY <1>1, <1>2, DisownedItem
  <1> HIDE DEF r
  <1>4. r \in Queues
    BY <1>1, <1>3, QueueOf
  <1> QED BY <1>1, <1>3, <1>4 DEF r

\* A dialog closes, and its call goes on.
LEMMA CloseDialogKeeps ==
    ASSUME DeskInv, NEW p \in DOMAIN desks, CloseDialog(p)
    PROVE  DeskInv'
  <1> DEFINE d == desks[p]
             e == [d EXCEPT !.dialog = {}, !.queue = Disowned(d.queue)]
  <1>1. d \in Desks /\ PageInv(p, d) /\ d.queue \in Queues
    BY PageTyped
  <1>2. /\ Disowned(d.queue) \in Queues /\ DOMAIN Disowned(d.queue) = DOMAIN d.queue
        /\ \A i \in DOMAIN d.queue : Like(Disowned(d.queue)[i], d.queue[i])
    BY <1>1, DisownedFacts
  <1>3. SetDesk(p, e) /\ OnlyPage
    BY DEF CloseDialog, Disowned
  <1>4. e \in Desks
    BY <1>1, <1>2 DEF Desks
  <1>5. /\ e.queue = Disowned(d.queue) /\ e.url = d.url /\ e.list = d.list
        /\ e.coming = d.coming /\ e.overrides = d.overrides
    BY <1>1 DEF Desks
  <1> HIDE DEF e
  <1>6. Thinned(d.queue, e.queue)
    BY <1>2, <1>5 DEF Thinned
  <1>7. DOMAIN d.queue \ DOMAIN e.queue = {}
    BY <1>2, <1>5
  <1>8. PageInv(p, e)
    BY <1>1, <1>5, <1>6, <1>7, ThinKeeps
  <1> QED BY <1>3, <1>4, <1>8, OnlyPageStep

\* The actions of a page that is left.
LEMMA LeftItem ==
    ASSUME NEW a \in Items
    PROVE  LET b == [a EXCEPT !.loose = TRUE, !.brought = NotKept]
           IN  /\ b \in Items /\ b.loose /\ b.brought = NotKept
               /\ b.op = a.op /\ b.txs = a.txs /\ b.value = a.value /\ b.pc = a.pc
  BY DEF Items, AnyItems, ListOrNot

\* The queue of a page that is left.
LEMMA LeaveFacts ==
    ASSUME NEW q \in Queues
    PROVE  /\ Leave(q) \in Queues /\ DOMAIN Leave(q) = DOMAIN q
           /\ \A i \in DOMAIN q : /\ Leave(q)[i].loose /\ Leave(q)[i].brought = NotKept
                                  /\ Leave(q)[i].op = q[i].op /\ Leave(q)[i].txs = q[i].txs
                                  /\ Leave(q)[i].value = q[i].value /\ Leave(q)[i].pc = q[i].pc
                                  /\ Leave(q)[i] \in Items
  <1> DEFINE r == Leave(q)
  <1>1. DOMAIN r = DOMAIN q /\ r = [i \in DOMAIN r |-> r[i]]
        /\ \A i \in DOMAIN q : r[i] = [q[i] EXCEPT !.loose = TRUE, !.brought = NotKept]
    BY DEF Leave
  <1>2. \A i \in DOMAIN q : q[i] \in Items
    BY QueueTyped
  <1>3. \A i \in DOMAIN q : /\ r[i] \in Items
                            /\ r[i].loose /\ r[i].brought = NotKept
                            /\ r[i].op = q[i].op /\ r[i].txs = q[i].txs
                            /\ r[i].value = q[i].value /\ r[i].pc = q[i].pc
    <2> SUFFICES ASSUME NEW i \in DOMAIN q
                 PROVE  /\ r[i] \in Items
                        /\ r[i].loose /\ r[i].brought = NotKept
                        /\ r[i].op = q[i].op /\ r[i].txs = q[i].txs
                        /\ r[i].value = q[i].value /\ r[i].pc = q[i].pc
      OBVIOUS
    <2> DEFINE a == q[i]
               b == [a EXCEPT !.loose = TRUE, !.brought = NotKept]
    <2>1. a \in Items /\ r[i] = b
      BY <1>1, <1>2
    <2> HIDE DEF a, r
    <2>2. /\ b \in Items /\ b.loose /\ b.brought = NotKept
          /\ b.op = a.op /\ b.txs = a.txs /\ b.value = a.value /\ b.pc = a.pc
      BY <2>1, LeftItem
    <2> HIDE DEF b
    <2> QED BY <2>1, <2>2 DEF a
  <1> HIDE DEF r
  <1>4. r \in Queues
    BY <1>1, <1>3, QueueOf
  <1> QED BY <1>1, <1>3, <1>4 DEF r

\* A page has an address, and so has the load it waits for.
LEMMA AddressTyped ==
    ASSUME NEW d \in Desks
    PROVE  /\ d.coming # NotKept => d.coming \in Loads /\ d.coming.url \in Addresses
           /\ d.url \in Addresses
  BY DEF Desks, Loads

\* The address that was asked for last is one.
LEMMA AddressOfTyped ==
    ASSUME DeskInv, NEW p \in DOMAIN desks
    PROVE  AddressOf(p) \in Addresses
  BY PageTyped, AddressTyped DEF AddressOf

\* The page is left for another address; a load of it is under way.
LEMMA GoKeeps ==
    ASSUME DeskInv, NEW p \in DOMAIN desks, NEW url \in Addresses,
           NEW c \in Sorts \cup {AnyCategory}, Go(p, url, c)
    PROVE  DeskInv'
  <1> DEFINE d == desks[p]
             e == [d EXCEPT !.category = c, !.coming = LoadOf(url), !.queue = Leave(@)]
  <1>1. d \in Desks /\ PageInv(p, d) /\ d.queue \in Queues
    BY PageTyped
  <1>2. LoadOf(url) \in Loads /\ LoadOf(url) # NotKept
    BY NotKeptIsNothing DEF DeskInv, DeskTypeOK
  <1>3. /\ Leave(d.queue) \in Queues /\ DOMAIN Leave(d.queue) = DOMAIN d.queue
        /\ \A i \in DOMAIN d.queue :
              LET r == Leave(d.queue)[i]
              IN  /\ r.loose /\ r.brought = NotKept
                  /\ r.op = d.queue[i].op /\ r.txs = d.queue[i].txs
                  /\ r.value = d.queue[i].value /\ r.pc = d.queue[i].pc
    BY <1>1, LeaveFacts
  <1>4. SetDesk(p, e) /\ UNCHANGED <<desk, filed, people, kept, aware>>
    BY DEF Go
  <1>5. deskUsed' \in [sent : 0..MaxSent, renders : 0..MaxRenders]
    BY CountTyped DEF Go, DeskInv, DeskTypeOK
  <1>6. e \in Desks
    BY <1>1, <1>2, <1>3 DEF Desks
  <1>7. /\ e.queue = Leave(d.queue) /\ e.coming = LoadOf(url) /\ e.overrides = d.overrides
    BY <1>1 DEF Desks
  <1>8. e.coming.got = NotKept
    BY <1>7 DEF LoadOf
  <1> HIDE DEF e
  <1>9. PageInv(p, e)
    BY <1>1, <1>2, <1>3, <1>7, <1>8, LeftKeeps
  <1> QED BY <1>4, <1>5, <1>6, <1>9, OwnStep

\* Every filter leads to an address.
LEMMA FiltersKeep ==
    ASSUME DeskInv, NEW p \in DOMAIN desks,
           \/ \E c \in Sorts \cup {AnyCategory} : FilterCategory(p, c)
           \/ FilterUnassigned(p)
           \/ Elsewhere(p)
    PROVE  DeskInv'
  <1>1. AddressOf(p) \in Addresses
    BY AddressOfTyped
  <1>2. desks[p].category \in Sorts \cup {AnyCategory}
    BY PageTyped DEF Desks
  <1>3. \A c \in Sorts \cup {AnyCategory} : InAddress(c) \in Sorts \cup {Anything, AnyCategory}
    BY DEF InAddress
  <1>4. ASSUME NEW c \in Sorts \cup {AnyCategory}, FilterCategory(p, c)
        PROVE  DeskInv'
    <2>1. [AddressOf(p) EXCEPT !.category = InAddress(c)] \in Addresses
      BY <1>1, <1>3 DEF Addresses
    <2> QED BY <1>4, <2>1, GoKeeps DEF FilterCategory
  <1>5. CASE FilterUnassigned(p)
    <2>1. [unassignedOnly |-> ~AddressOf(p).unassignedOnly,
           category |-> InAddress(desks[p].category)] \in Addresses
      BY <1>1, <1>2, <1>3 DEF Addresses
    <2> QED BY <1>2, <1>5, <2>1, GoKeeps DEF FilterUnassigned
  <1>6. CASE Elsewhere(p)
    <2> DEFINE c == desks[p].category
               k == IF desk = "donor" THEN c ELSE InAddress(c)
    <2>1. k \in Sorts \cup {Anything, AnyCategory}
      BY <1>2, <1>3
    <2>2. Go(p, [AddressOf(p) EXCEPT !.category = k], c)
      BY <1>6 DEF Elsewhere
    <2> HIDE DEF k
    <2>3. [AddressOf(p) EXCEPT !.category = k] \in Addresses
      BY <1>1, <2>1 DEF Addresses
    <2> QED BY <1>2, <2>2, <2>3, GoKeeps
  <1> QED BY <1>4, <1>5, <1>6

\* An action whose page was opened anew.
LEMMA GoneItem ==
    ASSUME NEW a \in Items
    PROVE  LET b == [a EXCEPT !.own = FALSE, !.pc = "gone"]
           IN  b \in Items /\ b.loose = a.loose /\ b.brought = a.brought
  BY DEF Items, AnyItems

\* A page opened anew waits for a load, and for no answer.
LEMMA AnewKeeps ==
    ASSUME DeskInv, NEW p \in DOMAIN desks, SetDesk(p, Anew(p)),
           UNCHANGED <<desk, filed, people, kept, aware>>,
           deskUsed' \in [sent : 0..MaxSent, renders : 0..MaxRenders]
    PROVE  DeskInv'
  <1> DEFINE d == desks[p]
             q == d.queue
             left == {i \in DOMAIN q : q[i].pc \in {"sent", "gone"}}
             r == [i \in left |-> [Leave(q)[i] EXCEPT !.own = FALSE, !.pc = "gone"]]
             url == AddressOf(p)
             m == Mount(url, NoRow, LoadOf(url))
             e == [m EXCEPT !.queue = r]
  <1>1. d \in Desks /\ PageInv(p, d) /\ q \in Queues
    BY PageTyped
  <1>2. url \in Addresses
    BY AddressOfTyped
  <1>3. LoadOf(url) \in Loads /\ LoadOf(url) # NotKept
    BY <1>2, NotKeptIsNothing DEF DeskInv, DeskTypeOK
  <1>4. SetDesk(p, e)
    BY DEF Anew, Queue
  <1>5. DOMAIN r = left /\ r = [i \in DOMAIN r |-> r[i]]
        /\ \A i \in left : r[i] = [Leave(q)[i] EXCEPT !.own = FALSE, !.pc = "gone"]
    OBVIOUS
  <1>6. \A i \in DOMAIN q : Leave(q)[i] \in Items /\ Leave(q)[i].loose /\ Leave(q)[i].brought = NotKept
    BY <1>1, LeaveFacts
  <1> HIDE DEF r
  <1>7. ASSUME NEW i \in left
        PROVE  r[i] \in Items /\ r[i].loose /\ r[i].brought = NotKept
    <2> DEFINE a == Leave(q)[i]
               b == [a EXCEPT !.own = FALSE, !.pc = "gone"]
    <2>1. a \in Items /\ a.loose /\ a.brought = NotKept /\ r[i] = b
      BY <1>5, <1>6
    <2> HIDE DEF a
    <2>2. b \in Items /\ b.loose = a.loose /\ b.brought = a.brought
      BY <2>1, GoneItem
    <2> HIDE DEF b
    <2> QED BY <2>1, <2>2
  <1>8. r \in Queues
    BY <1>1, <1>5, <1>7, QueueOf
  <1>9. m \in Desks /\ m.coming = LoadOf(url) /\ DOMAIN m.overrides = {}
    <2> DEFINE none == [t \in {} |-> TRUE]
               empty == [i \in {} |-> NotKept]
               c == IF url.category = Anything THEN AnyCategory ELSE url.category
    <2>1. none \in Switches
      <3>1. none = [t \in DOMAIN none |-> none[t]] /\ DOMAIN none = {}
        OBVIOUS
      <3> HIDE DEF none
      <3> QED BY <3>1, SwitchesTyped
    <2>2. empty \in Queues
      <3>1. empty = [t \in DOMAIN empty |-> empty[t]] /\ DOMAIN empty = {}
        OBVIOUS
      <3> HIDE DEF empty
      <3> QED BY <3>1, QueueTyped
    <2>3. c \in Sorts \cup {AnyCategory}
      BY <1>2 DEF Addresses
    <2>4. NoRow \in Listings
      BY NoRowTyped
    <2>5. m = [url |-> url, list |-> NoRow, coming |-> LoadOf(url), dialog |-> {},
               category |-> c, overrides |-> none, queue |-> empty]
      BY DEF Mount
    <2>6. DOMAIN none = {}
      OBVIOUS
    <2> HIDE DEF none, empty, c, m, url
    <2>7. m \in Desks
      BY <1>2, <1>3, <2>1, <2>2, <2>3, <2>4, <2>5 DEF Desks
    <2> QED BY <2>5, <2>6, <2>7
  <1>10. e \in Desks /\ e.queue = r /\ e.coming = LoadOf(url) /\ e.overrides = m.overrides
    <2> HIDE DEF m
    <2> QED BY <1>8, <1>9 DEF Desks
  <1>11. e.coming.got = NotKept
    BY <1>10 DEF LoadOf
  <1> HIDE DEF e, m
  <1>12. \A i \in DOMAIN e.queue : /\ i \in DOMAIN q /\ e.queue[i].loose
                                   /\ e.queue[i].brought = NotKept
    BY <1>5, <1>7, <1>10
  <1>13. PageInv(p, e)
    BY <1>1, <1>3, <1>9, <1>10, <1>11, <1>12, LeftKeeps
  <1> QED BY <1>4, <1>10, <1>13, OwnStep

\* The user opens it anew.
LEMMA ReopenKeeps ==
    ASSUME DeskInv, NEW p \in DOMAIN desks, Reopen(p)
    PROVE  DeskInv'
  <1>1. deskUsed' \in [sent : 0..MaxSent, renders : 0..MaxRenders]
    BY CountTyped DEF Reopen, DeskInv, DeskTypeOK
  <1> QED BY <1>1, AnewKeeps DEF Reopen

\* The page shows an error and is opened anew.
LEMMA AssignLostKeeps ==
    ASSUME DeskInv, NEW p \in DOMAIN desks, NEW i, AssignLost(p, i)
    PROVE  DeskInv'
  BY AnewKeeps DEF AssignLost, OnlyPage, DeskInv, DeskTypeOK

\* A load is answered from the cache, or from the tables.
LEMMA ReadStepKeeps ==
    ASSUME DeskInv, NEW p \in DOMAIN desks, Read(p)
    PROVE  DeskInv'
  <1> DEFINE d == desks[p]
             c == d.coming
             hit == kept[c.url] # NotKept
             got == IF hit THEN kept[c.url] ELSE ListOf(filed, c.url)
             k == [c EXCEPT !.hit = hit, !.got = got]
             e == [d EXCEPT !.coming.hit = hit, !.coming.got = got]
  <1>1. d \in Desks /\ PageInv(p, d)
    BY PageTyped
  <1>2. /\ c # NotKept /\ SetDesk(p, e) /\ OnlyPage
        /\ \A i \in DOMAIN d.queue : d.queue[i].loose \/ d.queue[i].pc = "sent"
    BY DEF Read, Queue
  <1>3. c \in Loads /\ c.url \in Addresses
    BY <1>1, <1>2, AddressTyped
  <1>4. got \in ListOrNot
    <2>1. ListOf(filed, c.url) \in Listings
      BY ListOfTyped DEF DeskInv, DeskTypeOK
    <2>2. kept[c.url] \in ListOrNot
      BY <1>3 DEF DeskInv, DeskTypeOK
    <2> QED BY <2>1, <2>2 DEF ListOrNot
  <1>5. hit \in BOOLEAN
    OBVIOUS
  <1>6. \A t \in Papers, f \in Fields : p \in aware[t][f] => Fresh(c.url, got, t, f)
    <2> SUFFICES ASSUME NEW t \in Papers, NEW f \in Fields, p \in aware[t][f]
                 PROVE  Fresh(c.url, got, t, f)
      OBVIOUS
    <2>1. CASE hit
      BY <1>3, <2>1 DEF DeskInv, KeptFresh
    <2>2. CASE ~hit
      BY <2>2, ReadIsFresh DEF DeskInv, DeskTypeOK
    <2> QED BY <2>1, <2>2
  <1> HIDE DEF hit, got
  <1>7. k \in Loads /\ k.url = c.url /\ k.got = got
    BY <1>3, <1>4, <1>5 DEF Loads
  <1>8. k # NotKept
    BY <1>7, NotKeptIsNothing DEF DeskInv, DeskTypeOK
  <1>9. e = [d EXCEPT !.coming = k]
    BY <1>1, <1>3 DEF Desks, Loads
  <1> HIDE DEF e, k
  <1>10. e \in Desks /\ e.coming = k /\ e.queue = d.queue /\ e.overrides = d.overrides
    BY <1>1, <1>7, <1>9 DEF Desks
  <1>11. PageInv(p, e)
    BY <1>1, <1>2, <1>6, <1>7, <1>8, <1>10, ReadKeeps
  <1> QED BY <1>2, <1>10, <1>11, OnlyPageStep

(***************************************************************************)
(* Steps of the server.                                                    *)
(***************************************************************************)

\* What is cached stays right if it does not change where nothing is written, or is
\* right after the step.
LEMMA KeptStep ==
    ASSUME DeskInv, desk' = desk,
           \A u \in Addresses, t \in Papers, f \in Fields :
              aware'[t][f] # {} /\ kept'[u] # NotKept =>
                 \/ kept'[u] = kept[u] /\ aware[t][f] # {} /\ filed'[t][f] = filed[t][f]
                 \/ Fresh(u, kept[u], t, f)'
    PROVE  KeptFresh'
  <1> SUFFICES ASSUME NEW t \in Papers, NEW f \in Fields, aware'[t][f] # {},
                      NEW u \in Addresses, kept'[u] # NotKept
               PROVE  Fresh(u, kept[u], t, f)'
    BY TypesStay DEF KeptFresh
  <1>1. CASE kept'[u] = kept[u] /\ aware[t][f] # {} /\ filed'[t][f] = filed[t][f]
    <2>1. Fresh(u, kept[u], t, f)
      BY <1>1 DEF DeskInv, KeptFresh
    <2>2. \A url, list : Fresh(url, list, t, f)' <=> Fresh(url, list, t, f)
      BY <1>1, FreshStays
    <2>3. PICK l : l = kept[u]
      OBVIOUS
    <2>4. Fresh(u, l, t, f)'
      BY <2>1, <2>2, <2>3
    <2>5. l = kept'[u]
      BY <1>1, <2>3
    <2> QED BY <2>4, <2>5 DEF Fresh, Stale
  <1> QED BY <1>1

\* A step of page p and the tables keeps the invariant if what is cached stays
\* right, the page keeps its part, and the others know nothing new.
LEMMA StepKeeps ==
    ASSUME DeskInv, NEW p \in DOMAIN desks, NEW e \in Desks, SetDesk(p, e), desk' = desk,
           filed' \in [Papers -> Filing],
           people' \in Seq(PersonTypes), Len(people') <= MaxPeople,
           kept' \in [Addresses -> ListOrNot],
           aware' \in [Papers -> [Fields -> SUBSET Operators[desk]]],
           deskUsed' \in [sent : 0..MaxSent, renders : 0..MaxRenders],
           KeptFresh', PageInv(p, e)',
           \A q \in DOMAIN desks, t \in Papers, f \in Fields :
              q # p /\ q \in aware'[t][f] => q \in aware[t][f] /\ filed'[t][f] = filed[t][f]
    PROVE  DeskInv'
  <1>1. /\ DOMAIN desks' = DOMAIN desks /\ desks'[p] = e
        /\ \A q \in DOMAIN desks : q # p => desks'[q] = desks[q]
    BY DEF SetDesk, DeskInv, DeskTypeOK
  <1>2. desks' \in [Operators[desk] -> Desks]
    BY DEF SetDesk, DeskInv, DeskTypeOK
  <1>3. DeskTypeOK'
    BY <1>2, TypesStay DEF DeskInv, DeskTypeOK
  <1>4. ASSUME NEW q \in DOMAIN desks'
        PROVE  PageInv(q, desks[q])' 
    <2>1. PICK d : d = desks'[q]
      OBVIOUS
    <2>2. CASE q = p
      BY <1>1, <2>1, <2>2 DEF PageInv
    <2>3. CASE q # p
      <3>1. PageInv(q, d)
        BY <1>1, <2>1, <2>3 DEF DeskInv
      <3>2. PageInv(q, d)'
        BY <1>1, <2>3, <3>1, ViewKeeps
      <3> QED BY <2>1, <3>2 DEF PageInv
    <2> QED BY <2>2, <2>3
  <1> QED BY <1>3, <1>4 DEF DeskInv

\* The turns of a queue, as the model writes them.
LEMMA TurnIs ==
    ASSUME NEW p, NEW i, Turn(p, i)
    PROVE  MayServe(desks[p], i)
  BY DEF Turn, MayServe, Queue

\* The answer of a page that is opened anew is not heard.
LEMMA DropGone ==
    ASSUME DeskInv, NEW p \in DOMAIN desks, NEW i \in DOMAIN desks[p].queue,
           desks[p].queue[i].pc = "gone"
    PROVE  LET e == [desks[p] EXCEPT !.queue = Without(@, i)]
           IN  e \in Desks /\ PageInv(p, e)
  <1> DEFINE d == desks[p]
             e == [d EXCEPT !.queue = Without(@, i)]
  <1>1. d \in Desks /\ PageInv(p, d) /\ d.queue \in Queues
    BY PageTyped
  <1>2. /\ Without(d.queue, i) \in Queues
        /\ DOMAIN Without(d.queue, i) = DOMAIN d.queue \ {i}
        /\ \A k \in DOMAIN Without(d.queue, i) : Without(d.queue, i)[k] = d.queue[k]
    BY <1>1, WithoutFacts
  <1>3. /\ e.queue = Without(d.queue, i) /\ e.url = d.url /\ e.list = d.list
        /\ e.coming = d.coming /\ e.overrides = d.overrides /\ e \in Desks
    BY <1>1, <1>2 DEF Desks
  <1> HIDE DEF e
  <1>4. Thinned(d.queue, e.queue)
    BY <1>2, <1>3 DEF Thinned, Like
  <1>5. \A k \in DOMAIN d.queue \ DOMAIN e.queue : k = i
    BY <1>2, <1>3
  <1>6. PageInv(p, e)
    BY <1>1, <1>3, <1>4, <1>5, ThinKeeps
  <1> QED BY <1>3, <1>6 DEF e

\* An action of the queue is replaced.
LEMMA SetItemTyped ==
    ASSUME DeskInv, NEW p \in DOMAIN desks, NEW i \in DOMAIN desks[p].queue, NEW item \in Items
    PROVE  LET e == [desks[p] EXCEPT !.queue[i] = item]
           IN  /\ e \in Desks /\ e.queue = [desks[p].queue EXCEPT ![i] = item]
               /\ e.url = desks[p].url /\ e.list = desks[p].list
               /\ e.coming = desks[p].coming /\ e.overrides = desks[p].overrides
  <1> DEFINE d == desks[p]
             r == [d.queue EXCEPT ![i] = item]
             e == [d EXCEPT !.queue = r]
  <1>1. d \in Desks /\ d.queue \in Queues
    BY PageTyped
  <1>2. /\ DOMAIN r = DOMAIN d.queue /\ r = [k \in DOMAIN r |-> r[k]]
        /\ \A k \in DOMAIN d.queue : r[k] = IF k = i THEN item ELSE d.queue[k]
    <2>1. d.queue = [k \in DOMAIN d.queue |-> d.queue[k]]
      BY <1>1, QueueTyped
    <2> QED BY <2>1
  <1>3. \A k \in DOMAIN d.queue : d.queue[k] \in Items
    BY <1>1, QueueTyped
  <1> HIDE DEF r
  <1>4. r \in Queues
    BY <1>1, <1>2, <1>3, QueueOf
  <1>5. /\ e \in Desks /\ e.queue = r /\ e.url = d.url /\ e.list = d.list
        /\ e.coming = d.coming /\ e.overrides = d.overrides
    BY <1>1, <1>4 DEF Desks
  <1> QED BY <1>5 DEF r

\* An action that failed, or whose answer was lost.
LEMMA FailedItem ==
    ASSUME NEW a \in Items, NEW pc \in {"failed", "lost"}
    PROVE  LET b == [a EXCEPT !.pc = pc, !.brought = NotKept]
           IN  /\ b \in Items /\ b.loose = a.loose /\ b.brought = NotKept
               /\ b.op = a.op /\ b.txs = a.txs /\ b.value = a.value /\ b.pc = pc
  BY DEF Items, AnyItems, ListOrNot

\* An action that was refused.
LEMMA RefusedItem ==
    ASSUME NEW a \in Items
    PROVE  LET b == [a EXCEPT !.pc = "failed"]
           IN  /\ b \in Items /\ b.loose = a.loose /\ b.brought = a.brought
               /\ b.op = a.op /\ b.txs = a.txs /\ b.value = a.value /\ b.pc = "failed"
  BY DEF Items, AnyItems

\* Refused, or failed: the switch is to be put back.
LEMMA RefusedKeeps ==
    ASSUME DeskInv, NEW p \in DOMAIN desks, NEW i \in DOMAIN desks[p].queue, Refused(p, i)
    PROVE  DeskInv'
  <1> DEFINE d == desks[p]
             a == d.queue[i]
  <1>1. d \in Desks /\ PageInv(p, d) /\ d.queue \in Queues /\ a \in Items
    BY PageTyped
  <1>2. MayServe(d, i) /\ OnlyPage
    BY TurnIs DEF Refused
  <1>3. CASE a.pc = "gone"
    <2> DEFINE e == [d EXCEPT !.queue = Without(@, i)]
    <2>1. SetDesk(p, e)
      BY <1>3 DEF Refused, Drop, Queue
    <2>2. e \in Desks /\ PageInv(p, e)
      BY <1>3, DropGone
    <2> HIDE DEF e
    <2> QED BY <1>2, <2>1, <2>2, OnlyPageStep
  <1>4. CASE a.pc # "gone"
    <2> DEFINE b == [a EXCEPT !.pc = "failed"]
               e == [d EXCEPT !.queue[i] = b]
    <2>1. SetDesk(p, e)
      BY <1>4 DEF Refused, SetItem, Queue
    <2>2. a.pc = "sent" /\ a.brought = NotKept
      BY <1>1, <1>2, <1>4 DEF MayServe, PageInv, Answers
    <2>3. /\ b \in Items /\ b.loose = a.loose /\ b.brought = NotKept /\ b.pc = "failed"
          /\ b.op = a.op /\ b.txs = a.txs /\ b.value = a.value
      BY <1>1, <2>2, RefusedItem
    <2> HIDE DEF b
    <2>4. /\ e \in Desks /\ e.queue = [d.queue EXCEPT ![i] = b] /\ e.url = d.url
          /\ e.list = d.list /\ e.coming = d.coming /\ e.overrides = d.overrides
      BY <2>3, SetItemTyped
    <2> HIDE DEF e
    <2>5. UNCHANGED <<desk, filed, people, kept, aware, deskUsed>>
      BY <1>2 DEF OnlyPage
    <2>6. PICK x : x = d
      OBVIOUS
    <2>7. PICK y : y = e
      OBVIOUS
    <2>8. PICK z : z = b
      OBVIOUS
    <2>9. /\ PageInv(p, x) /\ x.queue \in Queues /\ i \in DOMAIN x.queue
          /\ z.op = x.queue[i].op /\ z.txs = x.queue[i].txs /\ z.value = x.queue[i].value
          /\ z.loose = x.queue[i].loose /\ x.queue[i].pc = "sent" /\ MayServe(x, i)
          /\ y.queue = [x.queue EXCEPT ![i] = z] /\ y.url = x.url
          /\ y.list = x.list /\ y.coming = x.coming /\ y.overrides = x.overrides
      BY <1>1, <1>2, <2>2, <2>3, <2>4, <2>6, <2>7, <2>8
    <2>10. z.pc = "failed" /\ z.brought = NotKept
      BY <2>3, <2>8
    <2>11. PageInv(p, y)'
      BY <2>5, <2>9, <2>10, FailKeeps
    <2>12. KeptFresh'
      BY <2>5, KeptStep
    <2>13. y \in Desks /\ SetDesk(p, y)
      BY <2>1, <2>4, <2>7
    <2> QED BY <2>5, <2>11, <2>12, <2>13, StepKeeps DEF DeskInv, DeskTypeOK
  <1> QED BY <1>3, <1>4

\* Nobody counts on what a lost answer was about.
LEMMA LoseKeeps ==
    ASSUME DeskInv, NEW p \in DOMAIN desks, NEW i \in DOMAIN desks[p].queue, Lose(p, i)
    PROVE  DeskInv'
  <1> DEFINE d == desks[p]
             a == d.queue[i]
             b == [a EXCEPT !.pc = "lost", !.brought = NotKept]
             e == [d EXCEPT !.queue[i] = b]
             f == IF a.op = "flag" THEN "grant" ELSE "link"
  <1>1. d \in Desks /\ PageInv(p, d) /\ d.queue \in Queues /\ a \in Items
    BY PageTyped
  <1>2. /\ a.pc = "done" \/ (a.pc = "sent" /\ MayServe(d, i))
        /\ SetDesk(p, e) /\ UNCHANGED <<desk, filed, people, kept>>
        /\ aware' = [t \in Papers |-> IF t \in a.txs
                                      THEN [aware[t] EXCEPT ![f] = @ \ {p}] ELSE aware[t]]
    BY TurnIs DEF Lose, SetItem, Queue
  <1>3. deskUsed' \in [sent : 0..MaxSent, renders : 0..MaxRenders]
    BY CountTyped DEF Lose, DeskInv, DeskTypeOK
  <1>4. /\ b \in Items /\ b.loose = a.loose /\ b.brought = NotKept /\ b.pc = "lost"
        /\ b.op = a.op /\ b.txs = a.txs /\ b.value = a.value
    BY <1>1, FailedItem
  <1> HIDE DEF b
  <1>5. /\ e \in Desks /\ e.queue = [d.queue EXCEPT ![i] = b] /\ e.url = d.url
        /\ e.list = d.list /\ e.coming = d.coming /\ e.overrides = d.overrides
    BY <1>4, SetItemTyped
  <1> HIDE DEF e
  <1>6. f \in Fields
    BY DEF Fields
  <1>7. aware \in [Papers -> [Fields -> SUBSET Operators[desk]]]
    BY DEF DeskInv, DeskTypeOK
  <1>8. aware' \in [Papers -> [Fields -> SUBSET Operators[desk]]]
    <2> HIDE DEF f, a
    <2> QED BY <1>2, <1>6, <1>7
  <1>9. \A t \in Papers, g \in Fields : \A q :
           q \in aware'[t][g] =>
              q \in aware[t][g] /\ (t \in a.txs /\ g = f => q # p)
    <2> HIDE DEF f, a
    <2> QED BY <1>2, <1>6, <1>7
  <1>10. \A t \in Papers, g \in Fields : p \in aware'[t][g] => p \in aware[t][g] /\ ~Writes(a, t, g)
    <2> SUFFICES ASSUME NEW t \in Papers, NEW g \in Fields, p \in aware'[t][g], Writes(a, t, g)
                 PROVE  FALSE
      BY <1>9
    <2>1. t \in a.txs /\ g = f
      BY DEF Writes
    <2> QED BY <1>9, <2>1
  <1>11. KeptFresh'
    <2>1. \A t \in Papers, g \in Fields : aware'[t][g] # {} => aware[t][g] # {}
      BY <1>9
    <2> QED BY <1>2, <2>1, KeptStep
  <1>12. PICK x : x = d
    OBVIOUS
  <1>13. PICK y : y = e
    OBVIOUS
  <1>14. PICK z : z = b
    OBVIOUS
  <1>15. /\ PageInv(p, x) /\ x.queue \in Queues /\ i \in DOMAIN x.queue
         /\ z.op = x.queue[i].op /\ z.txs = x.queue[i].txs /\ z.value = x.queue[i].value
         /\ z.loose = x.queue[i].loose
         /\ x.queue[i].pc = "done" \/ (x.queue[i].pc = "sent" /\ MayServe(x, i))
         /\ y.queue = [x.queue EXCEPT ![i] = z] /\ y.url = x.url
         /\ y.list = x.list /\ y.coming = x.coming /\ y.overrides = x.overrides
    BY <1>1, <1>2, <1>4, <1>5, <1>12, <1>13, <1>14
  <1>16. z.pc = "lost" /\ z.brought = NotKept
    BY <1>4, <1>14
  <1>17. \A t \in Papers, g \in Fields :
            p \in aware'[t][g] => p \in aware[t][g] /\ ~Writes(x.queue[i], t, g)
    BY <1>10, <1>12
  <1>18. PageInv(p, y)'
    BY <1>2, <1>15, <1>16, <1>17, FailKeeps
  <1>19. y \in Desks /\ SetDesk(p, y)
    BY <1>2, <1>5, <1>13
  <1> QED BY <1>2, <1>3, <1>8, <1>9, <1>11, <1>18, <1>19, StepKeeps DEF DeskInv, DeskTypeOK

\* An action that was answered.
LEMMA ServedItem ==
    ASSUME NEW a \in Items, NEW l \in Listings, a.op = "create" => a.id # 0
    PROVE  LET b == [a EXCEPT !.pc = "done", !.brought = IF a.loose THEN NotKept ELSE l]
           IN  /\ b \in Items /\ b.loose = a.loose /\ b.pc = "done"
               /\ b.brought = IF b.loose THEN NotKept ELSE l
               /\ b.op = a.op /\ b.txs = a.txs /\ b.value = a.value
  BY DEF Items, AnyItems, ListOrNot

\* The answer of an action that was served; clears says whether it ended what
\* was cached, which it does if it wrote.
LEMMA ReplyKeeps ==
    ASSUME DeskInv, desk' = desk, NEW p \in DOMAIN desks, NEW i \in DOMAIN desks[p].queue,
           NEW item \in Items, Like(item, desks[p].queue[i]), item.op = "create" => item.id # 0,
           NEW rows \in [Papers -> Filing], NEW clears \in BOOLEAN,
           Turn(p, i), Reply(p, i, item, rows, clears), filed' = rows,
           people' \in Seq(PersonTypes), Len(people') <= MaxPeople, deskUsed' = deskUsed,
           aware' \in [Papers -> [Fields -> SUBSET Operators[desk]]],
           ~clears => filed' = filed /\ aware' = aware,
           \A t \in Papers, f \in Fields : \A q : q \in aware'[t][f] =>
              IF Writes(item, t, f)
              THEN /\ q = p /\ item.pc # "gone"
                   /\ f = "grant" => ~item.loose /\ filed'[t]["grant"] = item.value
              ELSE q \in aware[t][f] /\ filed'[t][f] = filed[t][f]
    PROVE  DeskInv'
  <1> DEFINE d == desks[p]
             url == d.url
             before == IF clears THEN NothingKept ELSE kept
             list == IF before[url] = NotKept THEN ListOf(rows, url) ELSE before[url]
  <1>1. /\ d \in Desks /\ PageInv(p, d) /\ d.queue \in Queues /\ d.queue[i] \in Items
        /\ url \in Addresses /\ MayServe(d, i)
    BY PageTyped, AddressTyped, TurnIs
  <1>2. /\ kept \in [Addresses -> ListOrNot] /\ filed \in [Papers -> Filing]
        /\ deskUsed' \in [sent : 0..MaxSent, renders : 0..MaxRenders]
        /\ \A l \in Listings : l # NotKept
    BY NotKeptIsNothing DEF DeskInv, DeskTypeOK
  <1>3. before \in [Addresses -> ListOrNot]
    BY <1>2 DEF NothingKept, ListOrNot
  <1>4. clears => before[url] = NotKept
    BY <1>1 DEF NothingKept
  <1>5. list \in Listings
    <2>1. ListOf(rows, url) \in Listings
      BY ListOfTyped
    <2>2. before[url] \in ListOrNot
      BY <1>1, <1>3
    <2> HIDE DEF before
    <2> QED BY <2>1, <2>2 DEF ListOrNot
  <1>6. PICK u : u = url
    OBVIOUS
  <1>7. PICK l : l = list
    OBVIOUS
  <1>8. ASSUME NEW t \in Papers, NEW f \in Fields, aware'[t][f] # {}
        PROVE  Fresh(u, l, t, f)'
    <2>1. CASE before[url] = NotKept
      <3>1. l = ListOf(filed, u)'
        <4>1. l = ListOf(filed', u)
          BY <1>6, <1>7, <2>1
        <4>2. ListOf(filed', u) = ListOf(filed, u)'
          BY DEF ListOf, Lists!Restrict, Selects, Target, LineOf
        <4> QED BY <4>1, <4>2
      <3>2. (filed \in [Papers -> Filing] =>
               \A w : \A s \in Papers, g \in Fields : Fresh(w, ListOf(filed, w), s, g))'
        BY ReadsAreFresh, PTL
      <3>3. Fresh(u, ListOf(filed, u), t, f)'
        BY <3>2
      <3> QED BY <3>1, <3>3 DEF Fresh, Stale
    <2>2. CASE before[url] # NotKept
      <3>1. ~clears /\ kept[u] # NotKept /\ l = kept[u] /\ aware[t][f] # {} /\ u \in Addresses
        BY <1>1, <1>4, <1>6, <1>7, <1>8, <2>2
      <3>2. Fresh(u, l, t, f)
        BY <3>1 DEF DeskInv, KeptFresh
      <3>3. filed'[t][f] = filed[t][f]
        BY <3>1
      <3> QED BY <3>2, <3>3, FreshStays
    <2> QED BY <2>1, <2>2
  <1> HIDE DEF list
  <1>9. \A q \in DOMAIN desks, t \in Papers, f \in Fields :
           q # p /\ q \in aware'[t][f] => q \in aware[t][f] /\ filed'[t][f] = filed[t][f]
    OBVIOUS
  <1>10. \A v \in Addresses, t \in Papers, f \in Fields :
            ~clears /\ aware'[t][f] # {} =>
               kept[v] = kept[v] /\ aware[t][f] # {} /\ filed'[t][f] = filed[t][f]
    OBVIOUS
  <1>11. \A v \in Addresses : before[v] # NotKept => before[v] = kept[v] /\ ~clears
    BY DEF NothingKept
  <1>12. CASE item.pc = "gone"
    <2> DEFINE e == [d EXCEPT !.queue = Without(@, i)]
    <2>1. SetDesk(p, e) /\ kept' = before
      BY <1>12 DEF Reply, Drop
    <2>2. e \in Desks /\ PageInv(p, e)
      BY <1>12, DropGone DEF Like
    <2> HIDE DEF e
    <2>3. PICK y : y = e
      OBVIOUS
    <2>4. \A t \in Papers, f \in Fields :
              p \in aware'[t][f] => p \in aware[t][f] /\ filed'[t][f] = filed[t][f]
      BY <1>12
    <2>5. PageInv(p, y)'
      BY <2>2, <2>3, <2>4, ViewKeeps
    <2> HIDE DEF before
    <2>6. KeptFresh'
      BY <1>10, <1>11, <2>1, KeptStep
    <2> QED BY <1>2, <1>3, <1>9, <2>1, <2>2, <2>3, <2>5, <2>6, StepKeeps
  <1>13. CASE item.pc # "gone"
    <2> DEFINE b == [item EXCEPT !.pc = "done", !.brought = IF item.loose THEN NotKept ELSE list]
               e == [d EXCEPT !.queue[i] = b]
    <2>1. SetDesk(p, e) /\ kept' = [before EXCEPT ![url] = list]
      BY <1>13 DEF Reply, SetItem, list
    <2>2. item.pc = "sent" /\ d.queue[i].pc = "sent"
      BY <1>1, <1>13 DEF MayServe, Like
    <2>3. /\ b \in Items /\ b.loose = item.loose /\ b.pc = "done"
          /\ b.brought = IF b.loose THEN NotKept ELSE list
          /\ b.op = item.op /\ b.txs = item.txs /\ b.value = item.value
      BY <1>5, ServedItem
    <2> HIDE DEF b
    <2>4. /\ e \in Desks /\ e.queue = [d.queue EXCEPT ![i] = b] /\ e.url = d.url
          /\ e.list = d.list /\ e.coming = d.coming /\ e.overrides = d.overrides
      BY <2>3, SetItemTyped
    <2> HIDE DEF e
    <2>5. PICK x : x = d
      OBVIOUS
    <2>6. PICK y : y = e
      OBVIOUS
    <2>7. PICK z : z = b
      OBVIOUS
    <2>8. PageInv(p, x) /\ x.queue \in Queues /\ i \in DOMAIN x.queue /\ x.url = u
      BY <1>1, <1>6, <2>5
    <2>9. l # NotKept
      BY <1>2, <1>5, <1>7
    <2>10. Served(x, y, i, z, l)
      BY <1>1, <1>7, <2>2, <2>3, <2>4, <2>5, <2>6, <2>7, <2>9 DEF Like, Served
    <2>11. \A t \in Papers, f \in Fields : Writes(z, t, f) <=> Writes(item, t, f)
      BY <2>3, <2>7 DEF Writes
    <2>12. \A t \in Papers, f \in Fields : p \in aware'[t][f] =>
              /\ Fresh(x.url, l, t, f)'
              /\ Writes(z, t, f) /\ f = "grant" =>
                    ~z.loose /\ filed'[t]["grant"] = z.value
              /\ ~Writes(z, t, f) => p \in aware[t][f] /\ filed'[t][f] = filed[t][f]
      <3> SUFFICES ASSUME NEW t \in Papers, NEW f \in Fields, p \in aware'[t][f]
                   PROVE  /\ Fresh(x.url, l, t, f)'
                          /\ Writes(z, t, f) /\ f = "grant" =>
                                ~z.loose /\ filed'[t]["grant"] = z.value
                          /\ ~Writes(z, t, f) =>
                                p \in aware[t][f] /\ filed'[t][f] = filed[t][f]
        OBVIOUS
      <3>1. Fresh(x.url, l, t, f)'
        BY <1>8, <2>8
      <3>2. z.loose = item.loose /\ z.value = item.value
        BY <2>3, <2>7
      <3> QED BY <2>11, <3>1, <3>2
    <2>13. PageInv(p, y)'
      BY <2>8, <2>10, <2>12, ServeKeeps
    <2>14. kept' \in [Addresses -> ListOrNot]
      BY <1>1, <1>3, <1>5, <2>1 DEF ListOrNot
    <2>15. KeptFresh'
      <3> SUFFICES ASSUME NEW v \in Addresses, NEW t \in Papers, NEW f \in Fields,
                          aware'[t][f] # {}, kept'[v] # NotKept
                   PROVE  \/ kept'[v] = kept[v] /\ aware[t][f] # {} /\ filed'[t][f] = filed[t][f]
                          \/ Fresh(v, kept[v], t, f)'
        BY KeptStep
      <3>1. CASE v = url
        <4>1. kept'[v] = l /\ v = u
          BY <1>1, <1>3, <1>6, <1>7, <2>1, <3>1
        <4>2. Fresh(u, l, t, f)'
          BY <1>8
        <4> QED BY <4>1, <4>2 DEF Fresh, Stale
      <3>2. CASE v # url
        <4>1. kept'[v] = before[v]
          BY <1>3, <2>1, <3>2
        <4> HIDE DEF before
        <4> QED BY <1>10, <1>11, <4>1
      <3> QED BY <3>1, <3>2
    <2>16. y \in Desks /\ SetDesk(p, y)
      BY <2>1, <2>4, <2>6
    <2> QED BY <1>2, <1>9, <2>13, <2>14, <2>15, <2>16, StepKeeps
  <1> QED BY <1>12, <1>13

\* What everybody knows after a write of field f by p.
LEMMA LearnFacts ==
    ASSUME aware \in [Papers -> [Fields -> SUBSET Operators[desk]]],
           NEW p \in Operators[desk], NEW item, NEW f \in Fields, Learn(p, item, f)
    PROVE  /\ aware' \in [Papers -> [Fields -> SUBSET Operators[desk]]]
           /\ \A t \in Papers, g \in Fields : \A q : q \in aware'[t][g] =>
                 IF t \in item.txs /\ g = f
                 THEN q = p /\ item.pc # "gone" /\ (f = "grant" => ~item.loose)
                 ELSE q \in aware[t][g]
  <1> DEFINE knows == item.pc # "gone" /\ (f = "grant" => ~item.loose)
             learned == IF knows THEN {p} ELSE {}
  <1>1. aware' = [t \in Papers |-> IF t \in item.txs THEN [aware[t] EXCEPT ![f] = learned]
                                                     ELSE aware[t]]
    BY DEF Learn
  <1>2. learned \in SUBSET Operators[desk] /\ \A q \in learned : q = p /\ knows
    OBVIOUS
  <1> HIDE DEF learned
  <1>3. aware' \in [Papers -> [Fields -> SUBSET Operators[desk]]]
    BY <1>1, <1>2
  <1>4. ASSUME NEW t \in Papers, NEW g \in Fields, NEW q, q \in aware'[t][g]
        PROVE  IF t \in item.txs /\ g = f THEN q = p /\ knows ELSE q \in aware[t][g]
    <2>1. t \in item.txs /\ g = f => aware'[t][g] = learned
      BY <1>1
    <2>2. ~(t \in item.txs /\ g = f) => aware'[t][g] = aware[t][g]
      BY <1>1
    <2> QED BY <1>2, <1>4, <2>1, <2>2
  <1> QED BY <1>3, <1>4

\* The switch of a row is stored.
LEMMA ServeFlagKeeps ==
    ASSUME DeskInv, NEW p \in DOMAIN desks, NEW i \in DOMAIN desks[p].queue, ServeFlag(p, i)
    PROVE  DeskInv'
  <1> DEFINE item == desks[p].queue[i]
             rows == [t \in Papers |-> IF t \in item.txs THEN [filed[t] EXCEPT !.grant = item.value]
                                                         ELSE filed[t]]
  <1>1. /\ Turn(p, i) /\ item.op = "flag" /\ filed' = rows
        /\ Reply(p, i, item, rows, TRUE) /\ Learn(p, item, "grant")
        /\ UNCHANGED <<desk, people, deskUsed>>
    BY DEF ServeFlag, Queue
  <1>2. item \in Items /\ Like(item, desks[p].queue[i]) /\ p \in Operators[desk]
    BY PageTyped DEF Like
  <1>3. filed \in [Papers -> Filing]
    BY DEF DeskInv, DeskTypeOK
  <1>4. item.value \in BOOLEAN
    BY <1>2 DEF Items, AnyItems
  <1> HIDE DEF item
  <1>5. rows \in [Papers -> Filing]
    BY <1>3, <1>4 DEF Filing
  <1>6. \A t \in Papers : /\ t \in item.txs => rows[t]["grant"] = item.value
                          /\ t \notin item.txs => rows[t]["grant"] = filed[t]["grant"]
                          /\ rows[t]["link"] = filed[t]["link"]
    BY <1>3 DEF Filing
  <1> HIDE DEF rows
  <1>7. /\ aware' \in [Papers -> [Fields -> SUBSET Operators[desk]]]
        /\ \A t \in Papers, g \in Fields : \A q : q \in aware'[t][g] =>
              IF t \in item.txs /\ g = "grant"
              THEN q = p /\ item.pc # "gone" /\ ~item.loose
              ELSE q \in aware[t][g]
    BY <1>1, <1>2, LearnFacts DEF DeskInv, DeskTypeOK, Fields
  <1>8. \A t \in Papers, g \in Fields : Writes(item, t, g) <=> t \in item.txs /\ g = "grant"
    BY <1>1 DEF Writes
  <1>9. ASSUME NEW t \in Papers, NEW f \in Fields, NEW q, q \in aware'[t][f]
        PROVE  IF Writes(item, t, f)
               THEN /\ q = p /\ item.pc # "gone"
                    /\ f = "grant" => ~item.loose /\ filed'[t]["grant"] = item.value
               ELSE q \in aware[t][f] /\ filed'[t][f] = filed[t][f]
    <2>1. CASE t \in item.txs /\ f = "grant"
      BY <1>1, <1>6, <1>7, <1>8, <1>9, <2>1
    <2>2. CASE ~(t \in item.txs /\ f = "grant")
      <3>1. q \in aware[t][f] /\ ~Writes(item, t, f)
        BY <1>7, <1>8, <1>9, <2>2
      <3>2. filed'[t][f] = filed[t][f]
        BY <1>1, <1>6, <2>2 DEF Fields
      <3> QED BY <3>1, <3>2
    <2> QED BY <2>1, <2>2
  <1>10. people' \in Seq(PersonTypes) /\ Len(people') <= MaxPeople
    BY <1>1 DEF DeskInv, DeskTypeOK
  <1>11. item.op # "create" /\ deskUsed' = deskUsed /\ desk' = desk
    BY <1>1
  <1> QED BY <1>1, <1>2, <1>5, <1>7, <1>9, <1>10, <1>11, ReplyKeeps

\* The links of the rows of a dialog are stored.
LEMMA ServeAssignKeeps ==
    ASSUME DeskInv, NEW p \in DOMAIN desks, NEW i \in DOMAIN desks[p].queue, ServeAssign(p, i)
    PROVE  DeskInv'
  <1> DEFINE item == desks[p].queue[i]
             rows == [t \in Papers |-> IF t \in item.txs THEN [filed[t] EXCEPT !.link = item.id]
                                                         ELSE filed[t]]
  <1>1. /\ Turn(p, i) /\ item.op = "assign" /\ filed' = rows
        /\ Reply(p, i, item, rows, TRUE) /\ Learn(p, item, "link")
        /\ UNCHANGED <<desk, people, deskUsed>>
    BY DEF ServeAssign, Queue
  <1>2. item \in Items /\ Like(item, desks[p].queue[i]) /\ p \in Operators[desk]
    BY PageTyped DEF Like
  <1>3. filed \in [Papers -> Filing]
    BY DEF DeskInv, DeskTypeOK
  <1>4. item.id \in 1..MaxPeople
    BY <1>1, <1>2, DeskAssumption DEF Items, AnyItems
  <1> HIDE DEF item
  <1>5. rows \in [Papers -> Filing]
    BY <1>3, <1>4 DEF Filing
  <1>6. \A t \in Papers : /\ t \notin item.txs => rows[t]["link"] = filed[t]["link"]
                          /\ rows[t]["grant"] = filed[t]["grant"]
    BY <1>3 DEF Filing
  <1> HIDE DEF rows
  <1>7. /\ aware' \in [Papers -> [Fields -> SUBSET Operators[desk]]]
        /\ \A t \in Papers, g \in Fields : \A q : q \in aware'[t][g] =>
              IF t \in item.txs /\ g = "link"
              THEN q = p /\ item.pc # "gone"
              ELSE q \in aware[t][g]
    BY <1>1, <1>2, LearnFacts DEF DeskInv, DeskTypeOK, Fields
  <1>8. \A t \in Papers, g \in Fields : Writes(item, t, g) <=> t \in item.txs /\ g = "link"
    BY <1>1 DEF Writes
  <1>9. ASSUME NEW t \in Papers, NEW f \in Fields, NEW q, q \in aware'[t][f]
        PROVE  IF Writes(item, t, f)
               THEN /\ q = p /\ item.pc # "gone"
                    /\ f = "grant" => ~item.loose /\ filed'[t]["grant"] = item.value
               ELSE q \in aware[t][f] /\ filed'[t][f] = filed[t][f]
    <2>1. CASE t \in item.txs /\ f = "link"
      BY <1>7, <1>8, <1>9, <2>1
    <2>2. CASE ~(t \in item.txs /\ f = "link")
      <3>1. q \in aware[t][f] /\ ~Writes(item, t, f)
        BY <1>7, <1>8, <1>9, <2>2
      <3>2. filed'[t][f] = filed[t][f]
        BY <1>1, <1>6, <2>2 DEF Fields
      <3> QED BY <3>1, <3>2
    <2> QED BY <2>1, <2>2
  <1>10. people' \in Seq(PersonTypes) /\ Len(people') <= MaxPeople
    BY <1>1 DEF DeskInv, DeskTypeOK
  <1>11. item.op # "create" /\ deskUsed' = deskUsed /\ desk' = desk
    BY <1>1
  <1> QED BY <1>1, <1>2, <1>5, <1>7, <1>9, <1>10, <1>11, ReplyKeeps

\* A creation that was answered names whom it created.
LEMMA NumberedItem ==
    ASSUME NEW a \in Items, NEW n \in 1..MaxPeople, a.op = "create"
    PROVE  LET b == [a EXCEPT !.id = n]
           IN  b \in Items /\ Like(b, a) /\ b.id # 0 /\ b.op = "create"
  <1>1. a \in AnyItems /\ n \in 0..MaxPeople /\ n # 0
    BY DeskAssumption DEF Items
  <1> DEFINE b == [a EXCEPT !.id = n]
  <1>2. b \in AnyItems /\ b.id = n
    BY <1>1 DEF AnyItems
  <1>3. Like(b, a) /\ b.op = "create"
    BY <1>1 DEF AnyItems, Like
  <1> QED BY <1>1, <1>2, <1>3 DEF Items

\* A creation writes neither links nor flags.
LEMMA ServeCreateKeeps ==
    ASSUME DeskInv, NEW p \in DOMAIN desks, NEW i \in DOMAIN desks[p].queue, ServeCreate(p, i)
    PROVE  DeskInv'
  <1> DEFINE a == desks[p].queue[i]
             n == Len(people) + 1
             item == [a EXCEPT !.id = n]
  <1>1. /\ Turn(p, i) /\ a.op = "create" /\ Len(people) < MaxPeople
        /\ people' = Append(people, a.type)
        /\ Reply(p, i, item, filed, desk = "donor")
        /\ UNCHANGED <<desk, filed, aware, deskUsed>>
    BY DEF ServeCreate, Queue
  <1>2. a \in Items
    BY PageTyped
  <1>3. /\ people \in Seq(PersonTypes) /\ filed \in [Papers -> Filing]
        /\ aware \in [Papers -> [Fields -> SUBSET Operators[desk]]]
    BY DEF DeskInv, DeskTypeOK
  <1>4. a.type \in PersonTypes
    BY <1>2 DEF Items, AnyItems
  <1> HIDE DEF a
  <1>5. people' \in Seq(PersonTypes) /\ Len(people') = Len(people) + 1 /\ Len(people) \in Nat
    BY <1>1, <1>3, <1>4
  <1>6. n \in 1..MaxPeople /\ Len(people') <= MaxPeople
    BY <1>1, <1>5, DeskAssumption
  <1> HIDE DEF n
  <1>7. item \in Items /\ Like(item, a) /\ item.id # 0 /\ item.op = "create"
    BY <1>1, <1>2, <1>6, NumberedItem
  <1> HIDE DEF item
  <1>8. \A t \in Papers, f \in Fields : ~Writes(item, t, f)
    BY <1>7 DEF Writes
  <1>9. (desk = "donor") \in BOOLEAN /\ aware' = aware /\ filed' = filed
    BY <1>1
  <1>10. \A t \in Papers, f \in Fields : \A q : q \in aware'[t][f] =>
              IF Writes(item, t, f)
              THEN /\ q = p /\ item.pc # "gone"
                   /\ f = "grant" => ~item.loose /\ filed'[t]["grant"] = item.value
              ELSE q \in aware[t][f] /\ filed'[t][f] = filed[t][f]
    BY <1>8, <1>9
  <1>11. deskUsed' = deskUsed /\ desk' = desk
    BY <1>1
  <1> QED BY <1>1, <1>3, <1>5, <1>6, <1>7, <1>9, <1>10, <1>11, ReplyKeeps DEF a

(***************************************************************************)
(* Loads that arrive, and lists that are no longer cached.                 *)
(***************************************************************************)

\* A list that is cached hides what it disagrees with from everybody, so that
\* whatever somebody still counts on is right in it.
LEMMA ArriveStepKeeps ==
    ASSUME DeskInv, NEW p \in DOMAIN desks, Arrive(p)
    PROVE  DeskInv'
  <1> DEFINE d == desks[p]
             c == d.coming
             e == [d EXCEPT !.url = c.url, !.list = c.got, !.coming = NotKept]
  <1>1. d \in Desks /\ PageInv(p, d)
    BY PageTyped
  <1>2. /\ c # NotKept /\ c.got # NotKept /\ SetDesk(p, e)
        /\ UNCHANGED <<desk, filed, people, deskUsed>>
    BY DEF Arrive
  <1>3. c \in Loads /\ c.url \in Addresses
    BY <1>1, <1>2, AddressTyped
  <1>4. c.got \in Listings
    BY <1>2, <1>3 DEF Loads, ListOrNot
  <1>5. /\ e \in Desks /\ e.url = c.url /\ e.list = c.got /\ e.coming = NotKept
        /\ e.queue = d.queue /\ e.overrides = d.overrides
    BY <1>1, <1>3, <1>4 DEF Desks
  <1> HIDE DEF e
  <1>6. PageInv(p, e)
    BY <1>1, <1>2, <1>5, ArriveKeeps
  <1>7. CASE c.hit
    <2>1. OnlyPage
      BY <1>2, <1>7 DEF Arrive, OnlyPage
    <2> QED BY <1>2, <1>5, <1>6, <2>1, OnlyPageStep
  <1>8. CASE ~c.hit
    <2>1. /\ kept' = [kept EXCEPT ![c.url] = c.got]
          /\ aware' = [t \in Papers |-> [f \in {"link", "grant"} |->
                         IF f \in Stale(c.url, c.got, t) THEN {} ELSE aware[t][f]]]
      BY <1>8 DEF Arrive
    <2>2. /\ kept \in [Addresses -> ListOrNot]
          /\ aware \in [Papers -> [Fields -> SUBSET Operators[desk]]]
      BY DEF DeskInv, DeskTypeOK
    <2>3. kept' \in [Addresses -> ListOrNot]
      BY <1>3, <1>4, <2>1, <2>2 DEF ListOrNot
    <2>4. \A t \in Papers, f \in Fields :
             /\ aware'[t][f] \in SUBSET aware[t][f]
             /\ aware'[t][f] # {} => Fresh(c.url, c.got, t, f)
      BY <2>1 DEF Fields, Fresh
    <2>5. aware' \in [Papers -> [Fields -> SUBSET Operators[desk]]]
      <3>1. aware' = [t \in Papers |-> [f \in Fields |-> aware'[t][f]]]
        BY <2>1 DEF Fields
      <3>2. \A t \in Papers, f \in Fields : aware'[t][f] \in SUBSET Operators[desk]
        BY <2>2, <2>4
      <3> QED BY <3>1, <3>2
    <2>6. PICK y : y = e
      OBVIOUS
    <2>7. PageInv(p, y)'
      <3>1. \A t \in Papers, f \in Fields :
               p \in aware'[t][f] => p \in aware[t][f] /\ filed'[t][f] = filed[t][f]
        BY <1>2, <2>4
      <3> QED BY <1>2, <1>6, <2>6, <3>1, ViewKeeps
    <2>8. KeptFresh'
      <3> SUFFICES ASSUME NEW u \in Addresses, NEW t \in Papers, NEW f \in Fields,
                          aware'[t][f] # {}, kept'[u] # NotKept
                   PROVE  \/ kept'[u] = kept[u] /\ aware[t][f] # {} /\ filed'[t][f] = filed[t][f]
                          \/ Fresh(u, kept[u], t, f)'
        BY <1>2, KeptStep
      <3>1. CASE u # c.url
        BY <1>2, <2>1, <2>2, <2>4, <3>1
      <3>2. CASE u = c.url
        <4>1. PICK w : w = c.url
          OBVIOUS
        <4>2. PICK l : l = c.got
          OBVIOUS
        <4>3. Fresh(w, l, t, f)
          BY <2>4, <4>1, <4>2
        <4>4. Fresh(w, l, t, f)'
          BY <1>2, <4>3, FreshStays
        <4>5. u = w /\ kept'[u] = l
          BY <1>3, <2>1, <2>2, <3>2, <4>1, <4>2
        <4> QED BY <4>4, <4>5 DEF Fresh, Stale
      <3> QED BY <3>1, <3>2
    <2>9. \A q \in DOMAIN desks, t \in Papers, f \in Fields :
             q # p /\ q \in aware'[t][f] => q \in aware[t][f] /\ filed'[t][f] = filed[t][f]
      BY <1>2, <2>4
    <2>10. y \in Desks /\ SetDesk(p, y)
      BY <1>2, <1>5, <2>6
    <2> QED BY <1>2, <2>3, <2>5, <2>7, <2>8, <2>9, <2>10, StepKeeps DEF DeskInv, DeskTypeOK
  <1> QED BY <1>7, <1>8

\* What is cached is forgotten.
LEMMA ForgetKeeps ==
    ASSUME DeskInv, NEW url \in Addresses, Forget(url)
    PROVE  DeskInv'
  <1>1. /\ kept' = [kept EXCEPT ![url] = NotKept]
        /\ UNCHANGED <<desk, filed, people, desks, aware, deskUsed>>
    BY DEF Forget
  <1>2. kept \in [Addresses -> ListOrNot]
    BY DEF DeskInv, DeskTypeOK
  <1>3. kept' \in [Addresses -> ListOrNot]
    BY <1>1, <1>2 DEF ListOrNot
  <1>4. DeskTypeOK'
    BY <1>1, <1>3, TypesStay DEF DeskInv, DeskTypeOK
  <1>5. \A u \in Addresses : kept'[u] # NotKept => kept'[u] = kept[u]
    BY <1>1, <1>2
  <1>6. KeptFresh'
    BY <1>1, <1>5, KeptStep
  <1>7. ASSUME NEW q \in DOMAIN desks'
        PROVE  PageInv(q, desks[q])'
    <2>1. PICK d : d = desks'[q]
      OBVIOUS
    <2>2. PageInv(q, d)
      BY <1>1, <2>1 DEF DeskInv
    <2>3. PageInv(q, d)'
      BY <1>1, <2>2, ViewKeeps
    <2> QED BY <2>1, <2>3 DEF PageInv
  <1> QED BY <1>4, <1>6, <1>7 DEF DeskInv

(***************************************************************************)
(* Answers at the page.                                                    *)
(***************************************************************************)

\* A page without one of its actions.
LEMMA DropFacts ==
    ASSUME NEW d \in Desks, NEW i
    PROVE  LET e == [d EXCEPT !.queue = Without(@, i)]
           IN  /\ e \in Desks /\ e.queue = Without(d.queue, i)
               /\ Thinned(d.queue, e.queue) /\ DOMAIN e.queue = DOMAIN d.queue \ {i}
               /\ e.url = d.url /\ e.list = d.list /\ e.coming = d.coming
               /\ e.overrides = d.overrides
  <1> DEFINE q == d.queue
             r == Without(q, i)
             e == [d EXCEPT !.queue = r]
  <1>1. q \in Queues
    BY DEF Desks
  <1> HIDE DEF q
  <1>2. r \in Queues /\ DOMAIN r = DOMAIN q \ {i} /\ \A k \in DOMAIN r : r[k] = q[k]
    BY <1>1, WithoutFacts
  <1> HIDE DEF r
  <1>3. Thinned(q, r)
    BY <1>2 DEF Thinned, Like
  <1>4. /\ e \in Desks /\ e.queue = r /\ e.url = d.url /\ e.list = d.list
        /\ e.coming = d.coming /\ e.overrides = d.overrides
    BY <1>2 DEF Desks
  <1> QED BY <1>2, <1>3, <1>4 DEF q, r

\* The page an answer brought is a page.
LEMMA BroughtFacts ==
    ASSUME DeskInv, NEW p \in DOMAIN desks, NEW i \in DOMAIN desks[p].queue
    PROVE  LET d == desks[p]
               b == Brought(p, i)
           IN  /\ b \in Desks /\ b.queue = d.queue /\ b.url = d.url /\ b.coming = d.coming
               /\ b.overrides = d.overrides
               /\ b.list = IF d.queue[i].brought = NotKept THEN d.list ELSE d.queue[i].brought
  <1> DEFINE d == desks[p]
             l == IF d.queue[i].brought = NotKept THEN d.list ELSE d.queue[i].brought
             b == [d EXCEPT !.list = l]
  <1>1. d \in Desks /\ d.queue[i] \in Items
    BY PageTyped
  <1>2. l \in Listings
    BY <1>1 DEF Desks, Items, AnyItems, ListOrNot
  <1>3. Brought(p, i) = b
    BY DEF Brought, Queue
  <1> HIDE DEF l
  <1>4. /\ b \in Desks /\ b.queue = d.queue /\ b.url = d.url /\ b.coming = d.coming
        /\ b.overrides = d.overrides /\ b.list = l
    BY <1>1, <1>2 DEF Desks
  <1> QED BY <1>3, <1>4 DEF l

\* The switch goes on showing what was asked, which is what is stored.
LEMMA FlagDoneKeeps ==
    ASSUME DeskInv, NEW p \in DOMAIN desks, NEW i \in DOMAIN desks[p].queue, FlagDone(p, i)
    PROVE  DeskInv'
  <1> DEFINE d == desks[p]
             b == Brought(p, i)
             e == [b EXCEPT !.queue = Without(@, i)]
  <1>1. d \in Desks /\ PageInv(p, d) /\ d.queue[i].op = "flag" /\ d.queue[i].pc = "done"
    BY PageTyped DEF FlagDone, Came, Queue
  <1>2. /\ b \in Desks /\ b.queue = d.queue /\ b.url = d.url /\ b.coming = d.coming
        /\ b.overrides = d.overrides
        /\ b.list = IF d.queue[i].brought = NotKept THEN d.list ELSE d.queue[i].brought
    BY BroughtFacts
  <1>3. SetDesk(p, e) /\ OnlyPage
    BY DEF FlagDone, Drop
  <1> HIDE DEF b
  <1>4. /\ e \in Desks /\ Thinned(d.queue, e.queue) /\ DOMAIN e.queue = DOMAIN d.queue \ {i}
        /\ e.url = d.url /\ e.list = b.list /\ e.coming = d.coming /\ e.overrides = d.overrides
    BY <1>2, DropFacts
  <1> HIDE DEF e
  <1>5. PageInv(p, e)
    BY <1>1, <1>2, <1>4, HeardKeeps
  <1> QED BY <1>3, <1>4, <1>5, OnlyPageStep

\* An action that leaves no trace at the page.
LEMMA DropKeeps ==
    ASSUME DeskInv, NEW p \in DOMAIN desks, NEW i \in DOMAIN desks[p].queue,
           Drop(p, i, desks[p]), OnlyPage,
           desks[p].queue[i].pc \in {"failed", "lost"},
           desks[p].queue[i].op = "flag" => desks[p].queue[i].pc = "lost"
    PROVE  DeskInv'
  <1> DEFINE d == desks[p]
             e == [d EXCEPT !.queue = Without(@, i)]
  <1>1. d \in Desks /\ PageInv(p, d)
    BY PageTyped
  <1>2. SetDesk(p, e)
    BY DEF Drop
  <1>3. /\ e \in Desks /\ Thinned(d.queue, e.queue) /\ DOMAIN e.queue = DOMAIN d.queue \ {i}
        /\ e.url = d.url /\ e.list = d.list /\ e.coming = d.coming /\ e.overrides = d.overrides
    BY <1>1, DropFacts
  <1> HIDE DEF e
  <1>4. \A k \in DOMAIN d.queue \ DOMAIN e.queue : k = i
    BY <1>3
  <1>5. PageInv(p, e)
    BY <1>1, <1>3, <1>4, ThinKeeps
  <1> QED BY <1>2, <1>3, <1>5, OnlyPageStep

\* A lost answer leaves the switch as it is.
LEMMA FlagLostKeeps ==
    ASSUME DeskInv, NEW p \in DOMAIN desks, NEW i \in DOMAIN desks[p].queue, FlagLost(p, i)
    PROVE  DeskInv'
  BY DropKeeps DEF FlagLost, Came, Queue

\* An error at the dialog changes no list and no switch.
LEMMA ExcusedKeeps ==
    ASSUME DeskInv, NEW p \in DOMAIN desks, NEW i \in DOMAIN desks[p].queue, Excused(p, i)
    PROVE  DeskInv'
  <1>1. /\ desks[p].queue[i].op \in {"assign", "create"}
        /\ desks[p].queue[i].pc \in {"failed", "lost"}
        /\ Drop(p, i, desks[p]) /\ OnlyPage
    BY DEF Excused, Came, Queue
  <1> QED BY <1>1, DropKeeps

\* A switch that is put back shows the list, and nothing is asked of it.
LEMMA FlagFailedKeeps ==
    ASSUME DeskInv, NEW p \in DOMAIN desks, NEW i \in DOMAIN desks[p].queue, FlagFailed(p, i)
    PROVE  DeskInv'
  <1> DEFINE d == desks[p]
             T == DOMAIN d.overrides \ d.queue[i].txs
             o == [t \in T |-> d.overrides[t]]
             b == [d EXCEPT !.overrides = o]
             e == [b EXCEPT !.queue = Without(@, i)]
  <1>1. d \in Desks /\ PageInv(p, d) /\ d.queue[i].op = "flag" /\ d.queue[i].pc = "failed"
    BY PageTyped DEF FlagFailed, Came, Queue
  <1>2. SetDesk(p, e) /\ OnlyPage
    BY DEF FlagFailed, Drop, Queue, Lists!Restrict
  <1>3. /\ DOMAIN o = T /\ o = [t \in DOMAIN o |-> o[t]]
        /\ \A t \in DOMAIN o : /\ t \in DOMAIN d.overrides /\ o[t] = d.overrides[t]
                               /\ t \notin d.queue[i].txs
    OBVIOUS
  <1> HIDE DEF o
  <1>4. o \in Switches
    <2>1. d.overrides \in Switches
      BY <1>1 DEF Desks
    <2>2. \A t \in DOMAIN d.overrides : t \in Papers /\ d.overrides[t] \in BOOLEAN
      BY <2>1, SwitchesTyped
    <2> QED BY <1>3, <2>2, SwitchesTyped
  <1>5. /\ b \in Desks /\ b.queue = d.queue /\ b.url = d.url /\ b.list = d.list
        /\ b.coming = d.coming /\ b.overrides = o
    BY <1>1, <1>4 DEF Desks
  <1> HIDE DEF b
  <1>6. /\ e \in Desks /\ Thinned(d.queue, e.queue) /\ DOMAIN e.queue = DOMAIN d.queue \ {i}
        /\ e.url = d.url /\ e.list = d.list /\ e.coming = d.coming /\ e.overrides = o
    BY <1>5, DropFacts
  <1> HIDE DEF e
  <1>7. \A k \in DOMAIN d.queue \ DOMAIN e.queue : k = i
    BY <1>6
  <1>8. d.queue[i].txs \cap DOMAIN e.overrides = {}
    BY <1>3, <1>6
  <1>9. PageInv(p, e)
    BY <1>1, <1>3, <1>6, <1>7, <1>8, ThinKeeps
  <1> QED BY <1>2, <1>6, <1>9, OnlyPageStep

\* Whichever dialog is open closes, and the load that starts will show the link.
LEMMA AssignDoneKeeps ==
    ASSUME DeskInv, NEW p \in DOMAIN desks, NEW i \in DOMAIN desks[p].queue, AssignDone(p, i)
    PROVE  DeskInv'
  <1> DEFINE d == desks[p]
             b == Brought(p, i)
             load == LoadOf(AddressOf(p))
             c == [b EXCEPT !.dialog = {}, !.coming = load, !.queue = Disowned(@)]
             e == [c EXCEPT !.queue = Without(@, i)]
  <1>1. /\ d \in Desks /\ PageInv(p, d) /\ d.queue \in Queues /\ d.queue[i].op = "assign"
    BY PageTyped DEF AssignDone, Came, Queue
  <1>2. b \in Desks /\ b.queue = d.queue /\ b.overrides = d.overrides
    BY BroughtFacts
  <1>3. SetDesk(p, e) /\ OnlyPage
    BY DEF AssignDone, Drop, Disowned
  <1>4. load \in Loads /\ load # NotKept /\ load.got = NotKept
    <2>1. load \in Loads /\ load # NotKept
      BY AddressOfTyped, NotKeptIsNothing DEF DeskInv, DeskTypeOK
    <2> QED BY <2>1 DEF LoadOf
  <1>5. /\ Disowned(d.queue) \in Queues /\ DOMAIN Disowned(d.queue) = DOMAIN d.queue
        /\ \A k \in DOMAIN d.queue : Like(Disowned(d.queue)[k], d.queue[k])
    BY <1>1, DisownedFacts
  <1> HIDE DEF b, load
  <1>6. c \in Desks /\ c.queue = Disowned(d.queue) /\ c.coming = load /\ c.overrides = d.overrides
    BY <1>2, <1>4, <1>5 DEF Desks
  <1> HIDE DEF c
  <1>7. /\ e \in Desks /\ Thinned(c.queue, e.queue) /\ DOMAIN e.queue = DOMAIN c.queue \ {i}
        /\ e.coming = load /\ e.overrides = d.overrides
    BY <1>6, DropFacts
  <1> HIDE DEF e
  <1>8. Thinned(d.queue, e.queue)
    BY <1>5, <1>6, <1>7 DEF Thinned, Like
  <1>9. \A k \in DOMAIN d.queue \ DOMAIN e.queue : d.queue[k].op # "flag"
    BY <1>1, <1>5, <1>6, <1>7
  <1>10. PageInv(p, e)
    BY <1>1, <1>4, <1>7, <1>8, <1>9, LoadKeeps
  <1> QED BY <1>3, <1>7, <1>10, OnlyPageStep

\* What a creation is followed by.
LEMMA FollowingItem ==
    ASSUME NEW a \in Items, a.op = "create", a.pc = "done"
    PROVE  LET b == [Action("assign", a.txs) EXCEPT !.id = a.id]
           IN  /\ b \in Items /\ b.op = "assign" /\ b.pc = "sent" /\ ~b.loose
               /\ b.brought = NotKept
  <1>1. a.txs \in SUBSET Papers /\ a.id \in 0..MaxPeople /\ a.id # 0
    BY DEF Items, AnyItems
  <1>2. Action("assign", a.txs) \in AnyItems
    BY <1>1, NewItem
  <1> QED BY <1>1, <1>2 DEF Items, AnyItems, Action

\* The page the creation brought is shown, and the assignment is sent.
LEMMA CreateDoneKeeps ==
    ASSUME DeskInv, NEW p \in DOMAIN desks, NEW i \in DOMAIN desks[p].queue, CreateDone(p, i)
    PROVE  DeskInv'
  <1> DEFINE d == desks[p]
             a == d.queue[i]
             b == Brought(p, i)
             c == [b EXCEPT !.queue = Without(@, i)]
             item == [Action("assign", a.txs) EXCEPT !.id = a.id]
             e == [b EXCEPT !.queue = Put(Without(@, i), item)]
  <1>1. /\ d \in Desks /\ PageInv(p, d) /\ a \in Items /\ a.op = "create" /\ a.pc = "done"
    BY PageTyped DEF CreateDone, Came, Queue
  <1>2. /\ b \in Desks /\ b.queue = d.queue /\ b.url = d.url /\ b.coming = d.coming
        /\ b.overrides = d.overrides
        /\ b.list = IF a.brought = NotKept THEN d.list ELSE a.brought
    BY BroughtFacts
  <1>3. SetDesk(p, e) /\ OnlyPage
    BY DEF CreateDone, Queue
  <1>4. /\ item \in Items /\ item.op = "assign" /\ item.pc = "sent" /\ ~item.loose
        /\ item.brought = NotKept
    BY <1>1, FollowingItem
  <1> HIDE DEF b, item
  <1>5. /\ c \in Desks /\ c.queue = Without(b.queue, i) /\ Thinned(d.queue, c.queue)
        /\ DOMAIN c.queue = DOMAIN d.queue \ {i}
        /\ c.url = d.url /\ c.list = b.list /\ c.coming = d.coming /\ c.overrides = d.overrides
    BY <1>2, DropFacts
  <1>6. c.queue \in Queues
    BY <1>5 DEF Desks
  <1> HIDE DEF c
  <1>7. PageInv(p, c)
    BY <1>1, <1>2, <1>5, HeardKeeps
  <1>8. Put(c.queue, item) \in Queues
    BY <1>4, <1>6, PutFacts
  <1>9. /\ e \in Desks /\ e.queue = Put(c.queue, item) /\ e.url = c.url /\ e.list = c.list
        /\ e.coming = c.coming /\ e.overrides = c.overrides
    BY <1>2, <1>5, <1>8 DEF Desks
  <1> HIDE DEF e
  <1>10. PageInv(p, e)
    BY <1>4, <1>6, <1>7, <1>9, PutKeeps
  <1> QED BY <1>3, <1>9, <1>10, OnlyPageStep

(***************************************************************************)
(* The invariant holds.                                                    *)
(***************************************************************************)

\* A page that is mounted with what is in the tables.
LEMMA FirstPage ==
    ASSUME filed \in [Papers -> Filing], NEW p
    PROVE  LET m == Mount(FirstAddress, ListOf(filed, FirstAddress), NotKept)
           IN  m \in Desks /\ PageInv(p, m)
  <1> DEFINE none == [t \in {} |-> TRUE]
             empty == [i \in {} |-> NotKept]
             l == ListOf(filed, FirstAddress)
             m == Mount(FirstAddress, l, NotKept)
  <1>1. none \in Switches /\ DOMAIN none = {}
    <2>1. none = [t \in DOMAIN none |-> none[t]] /\ DOMAIN none = {}
      OBVIOUS
    <2> HIDE DEF none
    <2> QED BY <2>1, SwitchesTyped
  <1>2. empty \in Queues /\ DOMAIN empty = {}
    <2>1. empty = [t \in DOMAIN empty |-> empty[t]] /\ DOMAIN empty = {}
      OBVIOUS
    <2> HIDE DEF empty
    <2> QED BY <2>1, QueueTyped
  <1>3. l \in Listings /\ \A t \in Papers, f \in Fields : Fresh(FirstAddress, l, t, f)
    BY ListOfTyped, ReadIsFresh
  <1>4. FirstAddress \in Addresses /\ FirstAddress.category = Anything
    BY DEF FirstAddress, Addresses
  <1>5. m = [url |-> FirstAddress, list |-> l, coming |-> NotKept, dialog |-> {},
             category |-> AnyCategory, overrides |-> none, queue |-> empty]
    BY <1>4 DEF Mount
  <1> HIDE DEF none, empty, l, m
  <1>6. m \in Desks
    BY <1>1, <1>2, <1>3, <1>4, <1>5 DEF Desks
  <1>7. /\ m.url = FirstAddress /\ m.list = l /\ m.coming = NotKept
        /\ DOMAIN m.overrides = {} /\ DOMAIN m.queue = {}
    BY <1>1, <1>2, <1>5
  <1>8. Answers(m.queue) /\ InTurn(m.queue) /\ ReadAlone(m)
    BY <1>7 DEF Answers, InTurn, ReadAlone
  <1>9. ASSUME NEW t \in Papers
        PROVE  LinkShown(m, t) /\ GrantShown(m, t) /\ SwitchRight(m, t) /\ LastAsked(m, t)
    <2>1. \A f \in Fields : Fresh(m.url, m.list, t, f) /\ BroughtFresh(m, t, f)
      BY <1>3, <1>7 DEF BroughtFresh
    <2>2. LinkShown(m, t) /\ GrantShown(m, t)
      BY <1>7, <2>1 DEF LinkShown, GrantShown, Fields
    <2>3. SwitchRight(m, t) /\ LastAsked(m, t)
      BY <1>7 DEF SwitchRight, LastAsked
    <2> QED BY <2>2, <2>3
  <1>10. PageInv(p, m)
    BY <1>8, <1>9 DEF PageInv
  <1> QED BY <1>6, <1>10 DEF m, l

\* The pages are mounted with what is in the tables.
LEMMA InitKeeps == DeskInit => DeskInv
  <1> SUFFICES ASSUME DeskInit
               PROVE  DeskInv
    OBVIOUS
  <1> DEFINE m == Mount(FirstAddress, ListOf(filed, FirstAddress), NotKept)
  <1>1. /\ desk \in {"donor", "counterpart"}
        /\ filed = [t \in Papers |-> [link |-> NoLink, grant |-> FALSE]]
        /\ people = FirstPeople[desk]
        /\ kept = [u \in Addresses |-> NotKept]
        /\ desks = [p \in Operators[desk] |-> m]
        /\ aware = [t \in Papers |-> [f \in {"link", "grant"} |-> Operators[desk]]]
        /\ deskUsed = [sent |-> 0, renders |-> 0]
    BY DEF DeskInit, NothingKept
  <1>2. filed \in [Papers -> Filing]
    BY <1>1 DEF Filing
  <1>3. \A p \in Operators[desk] : m \in Desks /\ PageInv(p, m)
    BY <1>2, FirstPage
  <1> HIDE DEF m
  <1>4. DeskTypeOK
    <2>1. people \in Seq(PersonTypes) /\ Len(people) <= MaxPeople
      BY <1>1, DeskAssumption
    <2>2. kept \in [Addresses -> ListOrNot]
      BY <1>1 DEF ListOrNot
    <2>3. desks \in [Operators[desk] -> Desks]
      BY <1>1, <1>3
    <2>4. aware \in [Papers -> [Fields -> SUBSET Operators[desk]]]
      BY <1>1 DEF Fields
    <2>5. deskUsed \in [sent : 0..MaxSent, renders : 0..MaxRenders]
      BY <1>1, DeskAssumption
    <2> QED BY <1>1, <1>2, <2>1, <2>2, <2>3, <2>4, <2>5 DEF DeskTypeOK
  <1>5. KeptFresh
    BY <1>1 DEF KeptFresh
  <1>6. \A p \in DOMAIN desks : desks[p] = m /\ PageInv(p, m)
    BY <1>1, <1>3
  <1> QED BY <1>4, <1>5, <1>6 DEF DeskInv

\* Every action of the user.
LEMMA OperateKeeps ==
    ASSUME DeskInv, NEW p \in DOMAIN desks, Operate(p)
    PROVE  DeskInv'
  <1>1. CASE \E t \in Papers : Switch(p, t)
    BY <1>1, SwitchKeeps
  <1>2. CASE \E T \in SUBSET Shows(p) : OpenDialog(p, T)
    BY <1>2, OpenDialogKeeps
  <1>3. CASE CloseDialog(p)
    BY <1>3, CloseDialogKeeps
  <1>4. CASE \E id \in DOMAIN people : AssignExisting(p, id)
    BY <1>4, AssignExistingKeeps
  <1>5. CASE \E type \in PersonTypes : CreateAndAssign(p, type)
    BY <1>5, CreateAndAssignKeeps
  <1>6. CASE \/ \E c \in Sorts \cup {AnyCategory} : FilterCategory(p, c)
             \/ FilterUnassigned(p)
             \/ Elsewhere(p)
    BY <1>6, FiltersKeep
  <1>7. CASE Reopen(p)
    BY <1>7, ReopenKeeps
  <1> QED BY <1>1, <1>2, <1>3, <1>4, <1>5, <1>6, <1>7 DEF Operate

\* Every step of a server action.
LEMMA ItemKeeps ==
    ASSUME DeskInv, NEW p \in DOMAIN desks, NEW i \in DOMAIN desks[p].queue,
           ServeItem(p, i) \/ Lose(p, i) \/ Hear(p, i)
    PROVE  DeskInv'
  <1>1. CASE ServeItem(p, i)
    BY <1>1, RefusedKeeps, ServeFlagKeeps, ServeAssignKeeps, ServeCreateKeeps DEF ServeItem
  <1>2. CASE Lose(p, i)
    BY <1>2, LoseKeeps
  <1>3. CASE Hear(p, i)
    BY <1>3, FlagDoneKeeps, FlagFailedKeeps, FlagLostKeeps, AssignDoneKeeps, ExcusedKeeps,
       AssignLostKeeps, CreateDoneKeeps DEF Hear
  <1> QED BY <1>1, <1>2, <1>3

\* The invariant is inductive.
LEMMA NextKeeps == DeskInv /\ [DeskNext]_deskVars => DeskInv'
  <1> SUFFICES ASSUME DeskInv, [DeskNext]_deskVars
               PROVE  DeskInv'
    OBVIOUS
  <1>1. ASSUME NEW p \in DOMAIN desks, Operate(p)
        PROVE  DeskInv'
    BY <1>1, OperateKeeps
  <1>2. ASSUME NEW p \in DOMAIN desks, Read(p)
        PROVE  DeskInv'
    BY <1>2, ReadStepKeeps
  <1>3. ASSUME NEW p \in DOMAIN desks, Arrive(p)
        PROVE  DeskInv'
    BY <1>3, ArriveStepKeeps
  <1>4. ASSUME NEW p \in DOMAIN desks, NEW i \in DOMAIN desks[p].queue,
               ServeItem(p, i) \/ Lose(p, i) \/ Hear(p, i)
        PROVE  DeskInv'
    BY <1>4, ItemKeeps
  <1>5. ASSUME NEW url \in Addresses, Forget(url)
        PROVE  DeskInv'
    BY <1>5, ForgetKeeps
  <1>6. CASE UNCHANGED deskVars
    <2>1. UNCHANGED <<desk, filed, people, kept, desks, aware, deskUsed>>
      BY <1>6 DEF deskVars
    <2>2. DeskTypeOK'
      BY <2>1, TypesStay DEF DeskInv, DeskTypeOK
    <2>3. KeptFresh'
      BY <2>1, KeptStep
    <2>4. ASSUME NEW q \in DOMAIN desks'
          PROVE  PageInv(q, desks[q])'
      <3>1. PICK d : d = desks'[q]
        OBVIOUS
      <3>2. PageInv(q, d)
        BY <2>1, <2>4, <3>1 DEF DeskInv
      <3>3. PageInv(q, d)'
        BY <2>1, <3>2, ViewKeeps
      <3> QED BY <3>1, <3>3 DEF PageInv
    <2> QED BY <2>2, <2>3, <2>4 DEF DeskInv
  <1>7. CASE DeskNext
    BY <1>1, <1>2, <1>3, <1>4, <1>5, <1>7 DEF DeskNext, Queue
  <1> QED BY <1>6, <1>7

\* At rest nothing is left of the invariant but what is shown.
LEMMA RestShows == DeskInv => OwnWorkShown
  <1> SUFFICES ASSUME DeskInv, NEW p \in DOMAIN desks, AtRest(p), NEW t \in Papers
               PROVE  /\ p \in aware[t].grant /\ t \in Shows(p) => SwitchOf(p, t) = filed[t].grant
                      /\ p \in aware[t].link => "link" \notin Stale(desks[p].url, desks[p].list, t)
    BY DEF OwnWorkShown
  <1> DEFINE d == desks[p]
  <1>1. PageInv(p, d)
    BY PageTyped
  <1>2. d.coming = NotKept /\ \A i \in DOMAIN d.queue : d.queue[i].pc = "gone"
    BY DEF AtRest, Queue
  <1>3. ASSUME p \in aware[t].link
        PROVE  "link" \notin Stale(d.url, d.list, t)
    <2>1. LinkShown(d, t)
      BY <1>1, <1>3 DEF PageInv
    <2> QED BY <1>2, <2>1 DEF LinkShown, Answered, ComingFresh, Fresh
  <1>4. ASSUME p \in aware[t].grant, t \in Shows(p)
        PROVE  SwitchOf(p, t) = filed[t].grant
    <2>1. GrantShown(d, t) /\ SwitchRight(d, t)
      BY <1>1, <1>4 DEF PageInv
    <2>2. CASE t \in DOMAIN d.overrides
      BY <1>2, <2>1, <2>2 DEF SwitchRight, SwitchOf
    <2>3. CASE t \notin DOMAIN d.overrides
      <3>1. "grant" \notin Stale(d.url, d.list, t)
        BY <1>2, <2>1 DEF GrantShown, Answered, ComingFresh, Fresh
      <3>2. d.list[t]["grant"] = filed[t]["grant"]
        BY <1>4, <3>1 DEF Stale, Shows
      <3> QED BY <2>3, <3>2 DEF SwitchOf
    <2> QED BY <2>2, <2>3
  <1> QED BY <1>3, <1>4

\* The invariant, of any number of pages that look at any number of
\* transactions, with any number of server actions and changes of address.
THEOREM DeskInvariant == DeskSpec => []DeskInv
  <1> QED BY InitKeeps, NextKeeps, PTL DEF DeskSpec

\* A page at rest shows what it did itself, whatever it asked for in between,
\* in whatever order its loads and answers came, whatever was cached: the
\* switch of a row is what is stored, and a row is listed with its link exactly
\* when its address selects it; unless another page changed the row since, the
\* answer was lost, or a list that was read before the change was cached after
\* it (useTransactionAssign, the assignment pages and their loaders).
THEOREM OwnWorkIsShown == DeskSpec => []OwnWorkShown
  <1> QED BY DeskInvariant, RestShows, PTL

==============================================================================
