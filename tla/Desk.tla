-------------------------------- MODULE Desk --------------------------------
(***************************************************************************)
(* The pages that assign donors and counterparts to transactions           *)
(* (admin/src/app/(auth)/assign and client/components/*-assignment): lists *)
(* that are cached for a minute, switches that show what was asked before  *)
(* it is stored, dialogs that keep the rows they were opened with.  The    *)
(* inside of the server actions is Assignments; here each is one step,     *)
(* refused or not.  Texts, amounts, sorting and pages of a list are left   *)
(* out, and so is the selection, which chooses the rows of a dialog.       *)
(*                                                                         *)
(* Of the framework: a page sends its server actions one at a time;        *)
(* revalidatePath ends what is cached for a path; an action that called it *)
(* brings the page along; and a page that is left for another address goes *)
(* on without that, and lets the next action go ahead.                     *)
(***************************************************************************)
EXTENDS AccountCategories, Integers, Sequences, FiniteSets

Lists == INSTANCE Functions
Numbers == INSTANCE FiniteSetsExt

CONSTANTS
    Operators,    \* the open pages of each desk: [desk -> pages]
    DeskLines,    \* the transactions of each desk: [desk -> [transaction -> line]]
    FirstPeople,  \* the types of its donors or counterparts at first
    MaxPeople,    \* bound on donors or counterparts
    NoLink,       \* a transaction without donor or counterpart
    AnyCategory,  \* "__all__" of the filter
    NotKept,      \* nothing cached, brought or under way
    MaxSent,      \* bound on server actions
    MaxRenders    \* bound on changes of address, pages opened anew and lost answers

VARIABLES
    desk,      \* the page that is followed: "donor" or "counterpart"
    filed,     \* the link and the grant flag of each transaction
    people,    \* the types of the donors or counterparts, in order of creation
    kept,      \* the cached list of each address
    desks,     \* the open pages
    aware,     \* history: the pages that should know a transaction's link, flag
    deskUsed   \* bounded events so far

deskVars == <<desk, filed, people, kept, desks, aware, deskUsed>>

Papers == DOMAIN DeskLines["donor"]
LineOf(t) == DeskLines[desk][t]
\* The category of an address: none, one, or "__all__", which no transaction has.
Anything == "any category"

\* What a list says of a transaction, and what may be listed.
Filing == [link : 1..MaxPeople \cup {NoLink}, grant : BOOLEAN]
Listings == UNION {[T -> Filing] : T \in SUBSET Papers}

PersonTypes == DonorTypes \cup {"none"}

ASSUME DeskAssumption ==
    /\ DOMAIN DeskLines = {"donor", "counterpart"}
    /\ DOMAIN FirstPeople = DOMAIN DeskLines /\ DOMAIN Operators = DOMAIN DeskLines
    /\ \A d \in DOMAIN DeskLines : /\ DOMAIN DeskLines[d] = Papers
                                   /\ \A t \in Papers : DeskLines[d][t].type \in Types
                                   /\ FirstPeople[d] \in Seq(PersonTypes)
                                   /\ Len(FirstPeople[d]) <= MaxPeople
    /\ MaxPeople \in Nat /\ MaxSent \in Nat /\ MaxRenders \in Nat

\* Nothing is not a list, and not a load that is under way.
ASSUME NotKeptAssumption ==
    /\ NotKept \notin Listings
    /\ \A url \in [unassignedOnly : BOOLEAN,
                   category : {DeskLines[d][t].cat : d \in DOMAIN DeskLines, t \in Papers}
                              \cup {Anything, AnyCategory}] :
          \A got \in Listings \cup {NotKept}, hit \in BOOLEAN :
             NotKept # [url |-> url, got |-> got, hit |-> hit]

---------------------------------------------------------------------------
(* Lists.                                                                  *)

Sorts == {LineOf(t).cat : t \in Papers}
Addresses == [unassignedOnly : BOOLEAN, category : Sorts \cup {Anything, AnyCategory}]
FirstAddress == [unassignedOnly |-> TRUE, category |-> Anything]

\* findTransactionsWithDonors and ...WithCounterparts: the page's transactions,
\* with the conditions of the address.
Target(t) ==
    IF desk = "donor" THEN LineOf(t).type = "income" /\ AllowedDonorTypes(LineOf(t).cat) # {}
                      ELSE CounterpartRequired(LineOf(t))
Selects(url, t, row) ==
    /\ Target(t)
    /\ url.unassignedOnly => row.link = NoLink
    /\ url.category # Anything => LineOf(t).cat = url.category

ListOf(rows, url) == Lists!Restrict(rows, {t \in Papers : Selects(url, t, rows[t])})
NothingKept == [u \in Addresses |-> NotKept]

---------------------------------------------------------------------------
(* A page.                                                                 *)

NoRow == Lists!Restrict(filed, {})

\* The state of the components when the page is mounted.
Mount(url, list, coming) ==
    [url |-> url, list |-> list, coming |-> coming, dialog |-> {},
     category |-> IF url.category = Anything THEN AnyCategory ELSE url.category,
     overrides |-> [t \in {} |-> TRUE], queue |-> [i \in {} |-> NotKept]]

LoadOf(url) == [url |-> url, got |-> NotKept, hit |-> FALSE]

SetDesk(p, d) == desks' = [desks EXCEPT ![p] = d]
Shows(p) == DOMAIN desks[p].list
Queue(p) == desks[p].queue

\* What only the page itself sees.
OnlyPage == UNCHANGED <<desk, filed, people, kept, aware, deskUsed>>

\* getGrantExpenditureValue
SwitchOf(p, t) ==
    IF t \in DOMAIN desks[p].overrides THEN desks[p].overrides[t] ELSE desks[p].list[t].grant

\* A server action as it is sent; own: the dialog that is open waits for it;
\* loose: the page has left for another address since.
Action(op, T) ==
    [op |-> op, txs |-> T, value |-> FALSE, id |-> 0, type |-> "none", own |-> FALSE,
     loose |-> FALSE, pc |-> "sent", brought |-> NotKept]

\* The queue of a page keeps its actions under numbers that grow.
Put(q, item) ==
    LET n == 1 + Numbers!Max({0} \cup DOMAIN q)
    IN  [i \in DOMAIN q \cup {n} |-> IF i = n THEN item ELSE q[i]]
Without(q, i) == Lists!Restrict(q, DOMAIN q \ {i})

Send(p, item, d) ==
    /\ deskUsed.sent < MaxSent
    /\ deskUsed' = [deskUsed EXCEPT !.sent = @ + 1]
    /\ SetDesk(p, [d EXCEPT !.queue = Put(@, item)])
    /\ UNCHANGED <<desk, filed, people, kept, aware>>

---------------------------------------------------------------------------
(* What the user does.  A dialog covers the rest of the page.              *)

\* handleGrantExpenditureFlagChange: the switch of an expense.
Switch(p, t) ==
    /\ desk = "counterpart" /\ desks[p].dialog = {}
    /\ t \in Shows(p) /\ LineOf(t).type = "expense"
    /\ LET value == ~SwitchOf(p, t)
       IN  Send(p, [Action("flag", {t}) EXCEPT !.value = value],
                [desks[p] EXCEPT !.overrides = [u \in DOMAIN @ \cup {t} |->
                                                  IF u = t THEN value ELSE @[u]]])

\* handleAssignClick and handleBulkAssignClick: one row, or those selected.
OpenDialog(p, T) ==
    /\ desks[p].dialog = {} /\ T # {} /\ deskUsed.sent < MaxSent
    /\ SetDesk(p, [desks[p] EXCEPT !.dialog = T])
    /\ OnlyPage

\* handleAssignDialogClose: a call goes on without its dialog.
CloseDialog(p) ==
    /\ desks[p].dialog # {}
    /\ SetDesk(p, [desks[p] EXCEPT !.dialog = {},
           !.queue = [i \in DOMAIN @ |-> [@[i] EXCEPT !.own = FALSE]]])
    /\ OnlyPage

\* The donor types that are offered: those every row allows, or all of them.
Offered(T) ==
    LET common == {y \in DonorTypes : \A t \in T : y \in AllowedDonorTypes(LineOf(t).cat)}
    IN  IF desk = "counterpart" THEN {"none"} ELSE IF common = {} THEN DonorTypes ELSE common

Ready(p) == desks[p].dialog # {} /\ \A i \in DOMAIN Queue(p) : ~Queue(p)[i].own

\* handleSelectExisting; the button waits for the call of this dialog.
AssignExisting(p, id) ==
    /\ Ready(p) /\ people[id] \in Offered(desks[p].dialog)
    /\ Send(p, [Action("assign", desks[p].dialog) EXCEPT !.id = id, !.own = TRUE], desks[p])

\* handleCreateAndAssign begins with the creation.  The form waits for it, but
\* forgets it does when its tab is left and entered again.
CreateAndAssign(p, type) ==
    /\ Ready(p) /\ type \in Offered(desks[p].dialog)
    /\ Send(p, [Action("create", desks[p].dialog) EXCEPT !.type = type], desks[p])

Leave(q) == [i \in DOMAIN q |-> [q[i] EXCEPT !.loose = TRUE, !.brought = NotKept]]

\* The address that was asked for last.
AddressOf(p) == IF desks[p].coming = NotKept THEN desks[p].url ELSE desks[p].coming.url

\* router.push; the list stays until the load of the address has come.
Go(p, url, category) ==
    /\ desks[p].dialog = {}
    /\ deskUsed.renders < MaxRenders
    /\ deskUsed' = [deskUsed EXCEPT !.renders = @ + 1]
    /\ SetDesk(p, [desks[p] EXCEPT !.category = category, !.coming = LoadOf(url),
                                   !.queue = Leave(@)])
    /\ UNCHANGED <<desk, filed, people, kept, aware>>

InAddress(c) == IF c = AnyCategory THEN Anything ELSE c

\* handleFilterChange, of the category or of unassignedOnly.
FilterCategory(p, c) ==
    /\ c # desks[p].category
    /\ Go(p, [AddressOf(p) EXCEPT !.category = InAddress(c)], c)
FilterUnassigned(p) ==
    LET c == desks[p].category
    IN  Go(p, [unassignedOnly |-> ~AddressOf(p).unassignedOnly, category |-> InAddress(c)], c)

\* Organization, year, sorting, page of the list: the donors' buildUrl puts the
\* "__all__" of the filter into the address.
Elsewhere(p) ==
    LET c == desks[p].category
    IN  Go(p, [AddressOf(p) EXCEPT !.category = IF desk = "donor" THEN c ELSE InAddress(c)], c)

\* A page opened anew forgets everything; what it sent may still be served.
Anew(p) ==
    LET left == {i \in DOMAIN Queue(p) : Queue(p)[i].pc \in {"sent", "gone"}}
        url == AddressOf(p)
    IN  [Mount(url, NoRow, LoadOf(url)) EXCEPT !.queue =
            [i \in left |-> [Leave(Queue(p))[i] EXCEPT !.own = FALSE, !.pc = "gone"]]]

Reopen(p) ==
    /\ deskUsed.renders < MaxRenders
    /\ deskUsed' = [deskUsed EXCEPT !.renders = @ + 1]
    /\ SetDesk(p, Anew(p))
    /\ UNCHANGED <<desk, filed, people, kept, aware>>

---------------------------------------------------------------------------
(* The server.                                                             *)

\* unstable_cache: what is cached, or the tables.  A refresh waits for the
\* answer of the action under way.
Read(p) ==
    LET c == desks[p].coming
        hit == kept[c.url] # NotKept
    IN  /\ c # NotKept /\ c.got = NotKept
        /\ \A i \in DOMAIN Queue(p) : Queue(p)[i].loose \/ Queue(p)[i].pc = "sent"
        /\ SetDesk(p, [desks[p] EXCEPT !.coming.hit = hit, !.coming.got =
               IF hit THEN kept[c.url] ELSE ListOf(filed, c.url)])
        /\ OnlyPage

\* The fields of transaction t in which a list of url disagrees with the tables.
Stale(url, list, t) ==
    {f \in {"link", "grant"} :
        \/ t \in DOMAIN list /\ list[t][f] # filed[t][f]
        \/ f = "link" /\ (t \in DOMAIN list) # Selects(url, t, filed[t])}

\* The answer of a load is cached and shown.  A list that was read before a
\* change and is cached after it hides the change from everybody.
Arrive(p) ==
    LET c == desks[p].coming
    IN  /\ c # NotKept /\ c.got # NotKept
        /\ SetDesk(p, [desks[p] EXCEPT !.url = c.url, !.list = c.got, !.coming = NotKept])
        /\ IF c.hit THEN UNCHANGED <<kept, aware>>
           ELSE /\ kept' = [kept EXCEPT ![c.url] = c.got]
                /\ aware' = [t \in Papers |-> [f \in {"link", "grant"} |->
                               IF f \in Stale(c.url, c.got, t) THEN {} ELSE aware[t][f]]]
        /\ UNCHANGED <<desk, filed, people, deskUsed>>

\* CACHE_REVALIDATE_SECONDS pass.
Forget(url) ==
    /\ kept[url] # NotKept
    /\ kept' = [kept EXCEPT ![url] = NotKept]
    /\ UNCHANGED <<desk, filed, people, desks, aware, deskUsed>>

SetItem(p, i, item) == SetDesk(p, [desks[p] EXCEPT !.queue[i] = item])
Drop(p, i, d) == SetDesk(p, [d EXCEPT !.queue = Without(@, i)])

\* The actions of a page go ahead one at a time, and not during a load that
\* had begun before.
Turn(p, i) ==
    /\ Queue(p)[i].pc \in {"sent", "gone"}
    /\ Queue(p)[i].loose \/ desks[p].coming = NotKept
    /\ \A j \in DOMAIN Queue(p) : j < i => Queue(p)[j].loose

\* Refused, or failed: nothing is written.
Refused(p, i) ==
    /\ Turn(p, i)
    /\ IF Queue(p)[i].pc = "gone" THEN Drop(p, i, desks[p])
       ELSE SetItem(p, i, [Queue(p)[i] EXCEPT !.pc = "failed"])
    /\ OnlyPage

\* Mutant: the server actions do not revalidate.
Reply_NotRevalidated(p, i, item, rows, clears) ==
    LET url == desks[p].url
        list == IF kept[url] = NotKept THEN ListOf(rows, url) ELSE kept[url]
    IN  IF item.pc = "gone" THEN Drop(p, i, desks[p]) /\ UNCHANGED kept
        ELSE /\ SetItem(p, i, [item EXCEPT !.pc = "done", !.brought =
                    IF item.loose THEN NotKept ELSE list])
             /\ kept' = [kept EXCEPT ![url] = list]

\* The answer of an action that left rows in the tables; it brings the page.
Reply(p, i, item, rows, clears) ==
    LET before == IF clears THEN NothingKept ELSE kept
        url == desks[p].url
        list == IF before[url] = NotKept THEN ListOf(rows, url) ELSE before[url]
    IN  IF item.pc = "gone" THEN Drop(p, i, desks[p]) /\ kept' = before
        ELSE /\ SetItem(p, i, [item EXCEPT !.pc = "done", !.brought =
                    IF item.loose THEN NotKept ELSE list])
             /\ kept' = [before EXCEPT ![url] = list]

\* Who knows what p wrote: nobody when the page is gone, and nobody for sure
\* when it was left for another address with a switch under way.
Learn(p, item, f) ==
    LET knows == item.pc # "gone" /\ (f = "grant" => ~item.loose)
    IN  aware' = [t \in Papers |-> IF t \in item.txs
                                   THEN [aware[t] EXCEPT ![f] = IF knows THEN {p} ELSE {}]
                                   ELSE aware[t]]

\* updateGrantExpenditureFlagAction
ServeFlag(p, i) ==
    LET item == Queue(p)[i]
        rows == [t \in Papers |-> IF t \in item.txs THEN [filed[t] EXCEPT !.grant = item.value]
                                                    ELSE filed[t]]
    IN  /\ Turn(p, i) /\ item.op = "flag"
        /\ filed' = rows
        /\ Reply(p, i, item, rows, TRUE) /\ Learn(p, item, "grant")
        /\ UNCHANGED <<desk, people, deskUsed>>

\* bulkAssignDonorAction and bulkAssignCounterpartAction: a donor must suit
\* every transaction.
ServeAssign(p, i) ==
    LET item == Queue(p)[i]
        rows == [t \in Papers |-> IF t \in item.txs THEN [filed[t] EXCEPT !.link = item.id]
                                                    ELSE filed[t]]
    IN  /\ Turn(p, i) /\ item.op = "assign"
        /\ desk = "donor" => \A t \in item.txs : DonorSuits(LineOf(t), people[item.id])
        /\ filed' = rows
        /\ Reply(p, i, item, rows, TRUE) /\ Learn(p, item, "link")
        /\ UNCHANGED <<desk, people, deskUsed>>

\* createDonorAction revalidates the page of donors to assign as well,
\* createCounterpartAction only /counterparts.
ServeCreate(p, i) ==
    LET item == Queue(p)[i]
    IN  /\ Turn(p, i) /\ item.op = "create" /\ Len(people) < MaxPeople
        /\ people' = Append(people, item.type)
        /\ Reply(p, i, [item EXCEPT !.id = Len(people) + 1], filed, desk = "donor")
        /\ UNCHANGED <<desk, filed, aware, deskUsed>>

\* The connection is lost, before or after the action is served.
Lose(p, i) ==
    LET item == Queue(p)[i]
        f == IF item.op = "flag" THEN "grant" ELSE "link"
    IN  /\ item.pc = "done" \/ (item.pc = "sent" /\ Turn(p, i))
        /\ deskUsed.renders < MaxRenders
        /\ deskUsed' = [deskUsed EXCEPT !.renders = @ + 1]
        /\ SetItem(p, i, [item EXCEPT !.pc = "lost", !.brought = NotKept])
        /\ aware' = [t \in Papers |-> IF t \in item.txs
                                      THEN [aware[t] EXCEPT ![f] = @ \ {p}] ELSE aware[t]]
        /\ UNCHANGED <<desk, filed, people, kept>>

---------------------------------------------------------------------------
(* The answers at the page.                                                *)

Came(p, i, ops, pc) == Queue(p)[i].op \in ops /\ Queue(p)[i].pc = pc

\* The page an answer brought, if it did.
Brought(p, i) ==
    [desks[p] EXCEPT !.list = IF Queue(p)[i].brought = NotKept THEN @ ELSE Queue(p)[i].brought]

\* The switch goes on showing what was asked.
FlagDone(p, i) ==
    /\ Came(p, i, {"flag"}, "done")
    /\ Drop(p, i, Brought(p, i))
    /\ OnlyPage

\* The switch shows the list again, which may be older than the page's own last
\* change when that one's answer came after the page was left.
FlagFailed(p, i) ==
    /\ Came(p, i, {"flag"}, "failed")
    /\ Drop(p, i, [desks[p] EXCEPT !.overrides = Lists!Restrict(@, DOMAIN @ \ Queue(p)[i].txs)])
    /\ OnlyPage

\* The await throws before the switch is put back.
FlagLost(p, i) ==
    /\ Came(p, i, {"flag"}, "lost")
    /\ Drop(p, i, desks[p])
    /\ OnlyPage

\* onSuccess closes the dialog that is open, whichever it is, and refreshes.
AssignDone(p, i) ==
    /\ Came(p, i, {"assign"}, "done")
    /\ LET d == Brought(p, i)
       IN  Drop(p, i, [d EXCEPT !.dialog = {}, !.coming = LoadOf(AddressOf(p)),
                                !.queue = [j \in DOMAIN @ |-> [@[j] EXCEPT !.own = FALSE]]])
    /\ OnlyPage

\* An error at the dialog, if it is still there.
Excused(p, i) ==
    /\ \/ Came(p, i, {"assign", "create"}, "failed") \/ Came(p, i, {"create"}, "lost")
       \/ Came(p, i, {"assign"}, "lost") /\ ~Queue(p)[i].own
    /\ Drop(p, i, desks[p])
    /\ OnlyPage

\* The transition throws: the page shows an error and is opened anew.
AssignLost(p, i) ==
    /\ Came(p, i, {"assign"}, "lost") /\ Queue(p)[i].own
    /\ SetDesk(p, Anew(p))
    /\ OnlyPage

\* The second half of handleCreateAndAssign.
CreateDone(p, i) ==
    /\ Came(p, i, {"create"}, "done")
    /\ LET d == Brought(p, i)
           item == [Action("assign", Queue(p)[i].txs) EXCEPT !.id = Queue(p)[i].id]
       IN  SetDesk(p, [d EXCEPT !.queue = Put(Without(@, i), item)])
    /\ OnlyPage

---------------------------------------------------------------------------

DeskInit ==
    /\ desk \in {"donor", "counterpart"}
    /\ filed = [t \in Papers |-> [link |-> NoLink, grant |-> FALSE]]
    /\ people = FirstPeople[desk]
    /\ kept = NothingKept
    /\ desks = [p \in Operators[desk] |-> Mount(FirstAddress, ListOf(filed, FirstAddress), NotKept)]
    /\ aware = [t \in Papers |-> [f \in {"link", "grant"} |-> Operators[desk]]]
    /\ deskUsed = [sent |-> 0, renders |-> 0]

Operate(p) ==
    \/ \E t \in Papers : Switch(p, t)
    \/ \E T \in SUBSET Shows(p) : OpenDialog(p, T)
    \/ CloseDialog(p)
    \/ \E id \in DOMAIN people : AssignExisting(p, id)
    \/ \E type \in PersonTypes : CreateAndAssign(p, type)
    \/ \E c \in Sorts \cup {AnyCategory} : FilterCategory(p, c)
    \/ FilterUnassigned(p) \/ Elsewhere(p) \/ Reopen(p)

ServeItem(p, i) == Refused(p, i) \/ ServeFlag(p, i) \/ ServeAssign(p, i) \/ ServeCreate(p, i)

Hear(p, i) ==
    \/ FlagDone(p, i) \/ FlagFailed(p, i) \/ FlagLost(p, i)
    \/ AssignDone(p, i) \/ Excused(p, i) \/ AssignLost(p, i) \/ CreateDone(p, i)

DeskNext ==
    \/ \E p \in DOMAIN desks :
          \/ Operate(p) \/ Read(p) \/ Arrive(p)
          \/ \E i \in DOMAIN Queue(p) : ServeItem(p, i) \/ Lose(p, i) \/ Hear(p, i)
    \/ \E url \in Addresses : Forget(url)

DeskSpec == DeskInit /\ [][DeskNext]_deskVars

---------------------------------------------------------------------------
(* Properties.                                                             *)

\* Nothing under way that the page still waits for.
AtRest(p) ==
    desks[p].coming = NotKept /\ \A i \in DOMAIN Queue(p) : Queue(p)[i].pc = "gone"

\* A page at rest shows what it did itself: the switch of a row is what is
\* stored, and a row is listed with its link exactly when its address selects
\* it; unless another page changed the row since, the answer was lost, or a
\* list that was read before the change was cached after it.
OwnWorkShown ==
    \A p \in DOMAIN desks : AtRest(p) =>
        \A t \in Papers :
            /\ p \in aware[t].grant /\ t \in Shows(p) => SwitchOf(p, t) = filed[t].grant
            /\ p \in aware[t].link => "link" \notin Stale(desks[p].url, desks[p].list, t)
=============================================================================
