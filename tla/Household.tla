----------------------------- MODULE Household -----------------------------
(***************************************************************************)
(* The pages of transactions, budgets and accounts of the household        *)
(* application (frontend/src/app/(protected)) in several tabs over the     *)
(* rows of one of the three tables, and the budget handlers of the api     *)
(* (budget_service.rs).                                                    *)
(*                                                                         *)
(* A page keeps the list its last load brought.  A write that succeeded is *)
(* followed by a load of the list; calls are neither cancelled nor         *)
(* ordered, so an older answer may come last.  A row is what identifies it *)
(* (the category of a budget of one month, the hashed fields of a          *)
(* transaction, the name of an account) and the rest.  The api lists at    *)
(* most MaxListed transactions, the latest first.  The SELECT and the      *)
(* INSERT of create_transaction are one step here; Ledger has them apart.  *)
(***************************************************************************)
EXTENDS Integers, FiniteSets

Sets == INSTANCE FiniteSetsExt

CONSTANTS
    Tabs,        \* open pages, all of one user
    Nobody,      \* whom a call belongs to when its page is gone
    Resources,   \* the pages followed: "transactions", "budgets", "accounts"
    Labels,      \* what identifies a row
    Contents,    \* the rest of a row
    Typed,       \* the rows a user may type
    FirstRows,   \* the rows of the table at first
    DateOf,      \* the date of a transaction, one of the hashed fields
    MaxListed,   \* the server's bound on a list of transactions (1000)
    MaxRowIds,   \* bound on rows ever stored
    MaxClicks,   \* bound on submissions and deletions
    MaxLosses    \* bound on lost answers, failed calls and pages opened anew

VARIABLES
    resource,    \* the page and table that are followed
    table,       \* the rows of the table by id
    page,        \* what each tab shows and has open
    calls,       \* HTTP calls in flight
    writer,      \* history: the page that wrote each row last, if it knows
    used         \* row ids drawn and bounded events so far

householdVars == <<resource, table, page, calls, writer, used>>

Entry == [label : Labels, content : Contents]
RowIds == 1..MaxRowIds
Lists == UNION {[S -> Entry] : S \in SUBSET RowIds}
NoRows == [i \in {} |-> CHOOSE e \in Entry : TRUE]

ASSUME HouseholdAssumption ==
    /\ Nobody \notin Tabs
    /\ Resources \subseteq {"transactions", "budgets", "accounts"}
    /\ Labels # {} /\ Contents # {}
    /\ FirstRows \in Lists /\ Typed \subseteq Entry
    /\ DateOf \in [Labels -> Int] /\ MaxListed \in Nat \ {0}
    /\ MaxRowIds \in Nat /\ MaxClicks \in Nat /\ MaxLosses \in Nat

NoDialog == [op |-> "none"]

\* A page as it is mounted.  late: the list came with a load that another,
\* begun later, had overtaken.
Mounted == [list |-> NoRows, dialog |-> NoDialog, isSubmitting |-> FALSE,
            isLoading |-> TRUE, loaded |-> FALSE, late |-> FALSE]

---------------------------------------------------------------------------
(* Calls.  A call is sent, served and answered; n tells the order in which *)
(* those in flight were begun.                                             *)

CallsOf(t) == {c \in calls : c.tab = t}
NextNumber(S) == 1 + Sets!Max({0} \cup {c.n : c \in S})

Call(S, t, op, id, form) ==
    [n |-> NextNumber(S), tab |-> t, op |-> op, pc |-> "sent", id |-> id, form |-> form,
     ok |-> FALSE, result |-> NoRows, submit |-> FALSE, late |-> FALSE]

NoForm == [row |-> CHOOSE e \in Entry : TRUE, copy |-> CHOOSE e \in Entry : TRUE,
           settled |-> FALSE]

\* fetchTransactions, fetchBudgets, fetchAccounts: a GET of the list; submit:
\* a form waits for it.
Load(S, t, submit) == [Call(S, t, "load", 0, NoForm) EXCEPT !.submit = submit]

\* A call that may still write.
Unserved(c) == c.op # "load" /\ c.pc # "answered"

\* Nothing under way, and the last load brought the list in order.
Settled(t) == CallsOf(t) = {} /\ page[t].loaded /\ ~page[t].late

SetPage(t, p) == page' = [page EXCEPT ![t] = p]

Send(t, op, id, form) ==
    /\ used.clicks < MaxClicks
    /\ used' = [used EXCEPT !.clicks = @ + 1]
    /\ calls' = calls \cup {Call(calls, t, op, id, form)}
    /\ UNCHANGED <<resource, table, writer>>

---------------------------------------------------------------------------
(* What a GET brings.  list_transactions: ORDER BY date DESC LIMIT; the    *)
(* page asks for 5000, the server gives MaxListed at most, and which rows  *)
(* of the last date it takes is open.  Budgets are of one month, accounts  *)
(* have no limit.                                                          *)

Cut == resource = "transactions" /\ Cardinality(DOMAIN table) > MaxListed
Date(row) == DateOf[row.label]

Latest ==
    {S \in SUBSET DOMAIN table :
        /\ Cardinality(S) = MaxListed
        /\ \A i \in S, j \in DOMAIN table \ S : Date(table[i]) >= Date(table[j])}

Listings ==
    {[i \in S |-> table[i]] : S \in IF Cut THEN Latest ELSE {DOMAIN table}}

---------------------------------------------------------------------------
(* What the user does.                                                     *)

\* handleSubmit of the form that adds a row.
SubmitAdd(t, row) ==
    /\ ~page[t].isSubmitting /\ page[t].dialog.op \in {"none", "add"}
    /\ SetPage(t, [page[t] EXCEPT !.isSubmitting = TRUE, !.dialog = [op |-> "add"]])
    /\ Send(t, "add", 0, [NoForm EXCEPT !.row = row])

\* handleEdit: the form is filled with what the list shows.
OpenEdit(t, id) ==
    /\ resource = "budgets" /\ ~page[t].isLoading /\ page[t].dialog = NoDialog
    /\ id \in DOMAIN page[t].list
    /\ SetPage(t, [page[t] EXCEPT !.dialog =
           [op |-> "edit", id |-> id, copy |-> page[t].list[id], settled |-> Settled(t)]])
    /\ UNCHANGED <<resource, table, calls, writer, used>>

\* handleEditSubmit: both fields are sent, whichever the user changed.
SubmitEdit(t, row) ==
    LET d == page[t].dialog
    IN  /\ d.op = "edit" /\ ~page[t].isSubmitting
        /\ SetPage(t, [page[t] EXCEPT !.isSubmitting = TRUE])
        /\ Send(t, "edit", d.id, [row |-> row, copy |-> d.copy, settled |-> d.settled])

Cancel(t) ==
    /\ page[t].dialog # NoDialog
    /\ SetPage(t, [page[t] EXCEPT !.dialog = NoDialog])
    /\ UNCHANGED <<resource, table, calls, writer, used>>

\* handleDelete; the page of accounts has none.
Delete(t, id) ==
    /\ resource # "accounts" /\ ~page[t].isLoading /\ page[t].dialog = NoDialog
    /\ id \in DOMAIN page[t].list
    /\ Send(t, "delete", id, NoForm)
    /\ UNCHANGED page

\* The page is left and opened again: nobody waits for its calls any more.
Reopen(t) ==
    /\ used.losses < MaxLosses
    /\ used' = [used EXCEPT !.losses = @ + 1]
    /\ SetPage(t, Mounted)
    /\ LET left == {c \in calls : c.tab # t} \cup
                   {[c EXCEPT !.tab = Nobody] : c \in {d \in CallsOf(t) : Unserved(d)}}
       IN  calls' = left \cup {Load(left, t, FALSE)}
    /\ UNCHANGED <<resource, table, writer>>

---------------------------------------------------------------------------
(* The server.                                                             *)

\* An answer that nobody waits for is dropped.
Replace(c, d) ==
    calls' = (calls \ {c}) \cup (IF d.tab = Nobody /\ d.pc = "answered" THEN {} ELSE {d})
Answered(c, ok) == [c EXCEPT !.pc = "answered", !.ok = ok]

\* 404, 409 or 500: nothing is written.
Reject(c) == Replace(c, Answered(c, FALSE)) /\ UNCHANGED <<table, writer, used>>

\* Call c leaves rows in the table, having written the row id.
Commit(c, id, rows) ==
    /\ table' = rows
    /\ writer' = [writer EXCEPT ![id] = c.tab]
    /\ Replace(c, Answered([c EXCEPT !.id = id], TRUE))

Put(rows, id, row) == [i \in DOMAIN rows \cup {id} |-> IF i = id THEN row ELSE rows[i]]
Without(rows, id) == [i \in DOMAIN rows \ {id} |-> rows[i]]
Taken(row, but) == \E i \in DOMAIN table \ {but} : table[i].label = row.label

ServeLoad(c) ==
    /\ c.op = "load"
    /\ \E list \in Listings :
          Replace(c, [Answered(c, TRUE) EXCEPT !.result = list])
    /\ UNCHANGED <<table, writer, used>>

\* UNIQUE (user_id, category, year, month) refuses a second budget, the hash a
\* second transaction; accounts may be alike.
ServeAdd(c) ==
    /\ c.op = "add"
    /\ \/ /\ resource # "accounts" /\ Taken(c.form.row, 0)
          /\ Reject(c)
       \/ /\ ~(resource # "accounts" /\ Taken(c.form.row, 0))
          /\ used.rows < MaxRowIds
          /\ Commit(c, used.rows + 1, Put(table, used.rows + 1, c.form.row))
          /\ used' = [used EXCEPT !.rows = @ + 1]

\* update_budget reads the row first, for the fields the request leaves out:
\* the page leaves none out.
ServeEditRead(c) ==
    /\ c.op = "edit"
    /\ \/ c.id \notin DOMAIN table /\ Reject(c)
       \/ /\ c.id \in DOMAIN table
          /\ Replace(c, [c EXCEPT !.pc = "read"])
          /\ UNCHANGED <<table, writer, used>>

\* The UPDATE fails when the row is gone (500) or its category is taken.
ServeEditWrite(c) ==
    /\ c.op = "edit"
    /\ \/ /\ c.id \notin DOMAIN table \/ Taken(c.form.row, c.id)
          /\ Reject(c)
       \/ /\ c.id \in DOMAIN table /\ ~Taken(c.form.row, c.id)
          /\ Commit(c, c.id, Put(table, c.id, c.form.row))
          /\ UNCHANGED used

ServeDelete(c) ==
    /\ c.op = "delete"
    /\ \/ c.id \notin DOMAIN table /\ Reject(c)
       \/ /\ c.id \in DOMAIN table
          /\ Commit(c, c.id, Without(table, c.id))
          /\ UNCHANGED used

Serve(c) ==
    /\ \/ c.pc = "sent" /\ (ServeLoad(c) \/ ServeAdd(c) \/ ServeEditRead(c) \/ ServeDelete(c))
       \/ c.pc = "read" /\ ServeEditWrite(c)
    /\ UNCHANGED <<resource, page>>

\* The session has ended, the server fails, or the connection is lost.  What
\* was written stays written, and a call may still be served.
Lose(c) ==
    /\ used.losses < MaxLosses /\ c.tab # Nobody
    /\ used' = [used EXCEPT !.losses = @ + 1]
    /\ \/ Replace(c, Answered(c, FALSE))
       \/ /\ Unserved(c)
          /\ calls' = (calls \ {c}) \cup {Answered(c, FALSE), [c EXCEPT !.tab = Nobody]}
    /\ writer' = IF c.ok /\ c.op # "load" /\ writer[c.id] = c.tab
                 THEN [writer EXCEPT ![c.id] = Nobody] ELSE writer
    /\ UNCHANGED <<resource, table, page>>

---------------------------------------------------------------------------
(* The answers at the page.                                                *)

\* Mutant: the list is loaded again after additions and edits only.
WriteAnswered_NoReload(c) ==
    LET t == c.tab
        p == page[t]
    IN  /\ c.op # "load" /\ c.ok
        /\ SetPage(t, [p EXCEPT !.dialog = IF @.op = c.op THEN NoDialog ELSE @,
                                !.isLoading = @ \/ resource = "transactions"])
        /\ calls' = (calls \ {c}) \cup
               (IF c.op = "delete" THEN {} ELSE {Load(calls \ {c}, t, c.op # "delete")})

\* Mutant: the list is loaded again after additions and deletions only.
WriteAnswered_EditShown(c) ==
    LET t == c.tab
        p == page[t]
    IN  /\ c.op # "load" /\ c.ok
        /\ SetPage(t, [p EXCEPT !.dialog = IF @.op = c.op THEN NoDialog ELSE @,
                                !.isSubmitting = @ /\ c.op # "edit",
                                !.isLoading = @ \/ resource = "transactions"])
        /\ calls' = (calls \ {c}) \cup
               (IF c.op = "edit" THEN {} ELSE {Load(calls \ {c}, t, c.op # "delete")})

\* A write succeeded: its form is closed and the list is loaded again; the
\* form's button stays disabled until it came.  Only the page of transactions
\* hides its list meanwhile.
WriteAnswered(c) ==
    LET t == c.tab
        p == page[t]
    IN  /\ c.op # "load" /\ c.ok
        /\ SetPage(t, [p EXCEPT !.dialog = IF @.op = c.op THEN NoDialog ELSE @,
                                !.isLoading = @ \/ resource = "transactions"])
        /\ calls' = (calls \ {c}) \cup {Load(calls \ {c}, t, c.op # "delete")}

\* A write failed: its form stays open with what was typed.
WriteFailed(c) ==
    /\ c.op # "load" /\ ~c.ok
    /\ SetPage(c.tab, [page[c.tab] EXCEPT !.isSubmitting = @ /\ c.op = "delete"])
    /\ calls' = calls \ {c}

\* The list of budgets is emptied when its load fails, the others are kept.
LoadAnswered(c) ==
    LET t == c.tab
        p == page[t]
    IN  /\ c.op = "load"
        /\ SetPage(t, [p EXCEPT !.list = IF c.ok THEN c.result
                                         ELSE IF resource = "budgets" THEN NoRows ELSE @,
                                !.isLoading = FALSE, !.loaded = c.ok, !.late = c.late,
                                !.isSubmitting = @ /\ ~c.submit])
        /\ calls' = {IF d.tab = t /\ d.op = "load" /\ d.n < c.n THEN [d EXCEPT !.late = TRUE]
                     ELSE d : d \in calls \ {c}}

Deliver(c) ==
    /\ c.pc = "answered"
    /\ WriteAnswered(c) \/ WriteFailed(c) \/ LoadAnswered(c)
    /\ UNCHANGED <<resource, table, writer, used>>

---------------------------------------------------------------------------
\* The pages have loaded; Reopen mounts one anew.
HouseholdInit ==
    /\ resource \in Resources
    /\ table = FirstRows
    /\ page \in [Tabs -> {[Mounted EXCEPT !.list = list, !.isLoading = FALSE,
                                          !.loaded = TRUE] : list \in Listings}]
    /\ calls = {}
    /\ writer = [i \in RowIds |-> Nobody]
    /\ used = [rows |-> Cardinality(DOMAIN FirstRows), clicks |-> 0, losses |-> 0]

Click(t) ==
    \/ \E row \in Typed : SubmitAdd(t, row) \/ SubmitEdit(t, row)
    \/ \E id \in DOMAIN page[t].list : OpenEdit(t, id) \/ Delete(t, id)
    \/ Cancel(t) \/ Reopen(t)

HouseholdNext ==
    \/ \E t \in Tabs : Click(t)
    \/ \E c \in calls : Serve(c) \/ Lose(c) \/ Deliver(c)

HouseholdSpec == HouseholdInit /\ [][HouseholdNext]_householdVars

---------------------------------------------------------------------------
(* Properties.                                                             *)

Dialog == {NoDialog, [op |-> "add"]} \cup
          [op : {"edit"}, id : RowIds, copy : Entry, settled : BOOLEAN]

HouseholdTypeOK ==
    /\ resource \in Resources /\ table \in Lists
    /\ page \in [Tabs -> [list : Lists, dialog : Dialog, isSubmitting : BOOLEAN,
                          isLoading : BOOLEAN, loaded : BOOLEAN, late : BOOLEAN]]
    /\ \A c \in calls : /\ c.tab \in Tabs \cup {Nobody} /\ c.id \in RowIds \cup {0}
                        /\ c.pc \in {"sent", "read", "answered"} /\ c.result \in Lists
    /\ writer \in [RowIds -> Tabs \cup {Nobody}]
    /\ used \in [rows : 0..MaxRowIds, clicks : 0..MaxClicks, losses : 0..MaxLosses]

RowOf(rows, i) == IF i \in DOMAIN rows THEN {rows[i]} ELSE {}
There(i) == RowOf(table, i)

\* The limit cut row i off: the list has all the transactions it may have, none
\* of an earlier date.
Beyond(list, i) ==
    /\ resource = "transactions" /\ i \notin DOMAIN list
    /\ Cardinality(DOMAIN list) = MaxListed
    /\ \E row \in There(i) : \A j \in DOMAIN list : Date(list[j]) >= Date(row)

\* The list has row i as the table has it, or has no place for it.
Brings(list, i) == RowOf(list, i) = There(i) \/ Beyond(list, i)

\* A page with nothing under way shows every row it wrote last itself as it
\* is in the database (added, changed or gone), unless its load failed or came
\* late; whatever other tabs do, and although calls overlap.  A transaction
\* of its own is missing only from a list the server's limit has cut, and
\* then it is no later than any the list has.
OwnWritesShown ==
    \A t \in Tabs : Settled(t) =>
        \A i \in RowIds : writer[i] = t => Brings(page[t].list, i)

\* A step: an edit ends while its row stays, and the row is the last its page
\* wrote.
FieldKept ==
    \A i \in DOMAIN table \cap DOMAIN table' : \A c \in calls :
        /\ c.op = "edit" /\ c.id = i /\ c.pc = "read" /\ c \notin calls'
        /\ c.form.settled /\ writer[i] = c.tab /\ c.tab # Nobody
        => \A f \in {"label", "content"} :
              c.form.row[f] = c.form.copy[f] => table'[i][f] = table[i][f]

\* An edit puts back an old value of the field the user left alone only over
\* a row another tab wrote, or from a form that was opened before the page had
\* settled: then the page undoes its own last edit.
UntouchedFieldKept == [][FieldKept]_householdVars

---------------------------------------------------------------------------
(* The inductive invariant.                                                *)

SentForms == [row : Entry, copy : Entry, settled : BOOLEAN]
HttpCalls == [n : Nat, tab : Tabs \cup {Nobody}, op : {"load", "add", "edit", "delete"},
              pc : {"sent", "read", "answered"}, id : RowIds \cup {0}, form : SentForms,
              ok : BOOLEAN, result : Lists, submit : BOOLEAN, late : BOOLEAN]

\* The numbers of calls have a bound; somebody waits for every answer and
\* every load.
CallsTyped ==
    /\ calls \subseteq HttpCalls
    /\ \E b \in Nat : \A c \in calls : c.n <= b
    /\ \A c \in calls : c.pc = "answered" \/ c.op = "load" => c.tab # Nobody

\* Page t has a write of row i to answer, after which it loads.
Unheard(t, i) ==
    \E c \in CallsOf(t) : c.op # "load" /\ c.pc = "answered" /\ c.ok /\ c.id = i

\* A load that brings no other state of row i than the table has.
Loads(t) == {c \in CallsOf(t) : c.op = "load"}
Fresh(l, i) == l.pc = "answered" /\ l.ok => Brings(l.result, i)
Overtaken(l) == \E m \in Loads(l.tab) : m.n > l.n

\* What page t wrote last to row i is shown, or will be: a stale list is
\* known to be late, or will be overtaken by a later one.
ShownSoon(t, i) ==
    \/ Unheard(t, i)
    \/ /\ \A l \in Loads(t) : l.late \/ Fresh(l, i) \/ Overtaken(l)
       /\ Loads(t) = {} => page[t].late \/ ~page[t].loaded \/ Brings(page[t].list, i)

\* The row a form was filled with, unless somebody else wrote it since.
Untouched(t, id, copy) ==
    writer[id] = t /\ id \in DOMAIN table => table[id] = copy

\* An edit from a form that was opened over a settled page: until it is answered,
\* its page may delete rows and load, and not submit.
EditAlone(c) ==
    c.op = "edit" /\ c.form.settled /\ c.tab # Nobody =>
        /\ page[c.tab].isSubmitting
        /\ \A d \in CallsOf(c.tab) : d = c \/ d.op = "delete" \/ (d.op = "load" /\ ~d.submit)
        /\ c.pc # "answered" => Untouched(c.tab, c.id, c.form.copy)

\* Such a form while it is open: all that is under way is its own submission.
FormCurrent(t) ==
    LET form == page[t].dialog
        own == {c \in CallsOf(t) : c.op = "edit" /\ c.form.settled
                                    /\ c.id = form.id /\ c.form.copy = form.copy}
    IN  form.op = "edit" /\ form.settled =>
            /\ CallsOf(t) \subseteq own
            /\ Untouched(t, form.id, form.copy) \/ \E c \in own : c.pc = "answered" /\ c.ok

PageInv(t) ==
    /\ \A i \in RowIds : writer[i] = t => ShownSoon(t, i)
    /\ \A c \in CallsOf(t) : EditAlone(c)
    /\ FormCurrent(t)

HouseholdInv == HouseholdTypeOK /\ CallsTyped /\ \A t \in Tabs : PageInv(t)
=============================================================================
