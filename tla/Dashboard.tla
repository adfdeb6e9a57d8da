----------------------------- MODULE Dashboard -----------------------------
(***************************************************************************)
(* The dashboard of the household application                              *)
(* (frontend/src/app/(protected)/dashboard/page.tsx): three calls at once  *)
(* over tables that change meanwhile, and the sums the page computes from  *)
(* what they bring, since the server cannot add up what is encrypted.      *)
(* Colours, labels, percentages and the order of the rows are left out.    *)
(***************************************************************************)
EXTENDS Integers, FiniteSets, Functions

CONSTANTS
    Homes,       \* the tables at first: [txs, accounts, budgets]
    Additions,   \* transactions that may be added meanwhile
    Now,         \* the current month, a number
    NoCategory,  \* a transaction without category
    Other,       \* the name of the category it is counted under
    ListLimit,   \* the server's bound on a list of transactions (1000)
    NotRead,     \* what a call has not brought yet
    MaxHomeEdits \* bound on changes of the tables

VARIABLES
    home,      \* the tables
    view,      \* what the calls of the page have brought
    homeEdits  \* changes of the tables so far

dashboardVars == <<home, view, homeEdits>>

\* Transactions by id: account, month, type, category, amount; accounts by id:
\* their type; budgets: category, month, amount.
HomeTypes == {"income", "expense", "transfer"}

ASSUME DashboardAssumption ==
    /\ Now \in Nat /\ ListLimit \in Nat \ {0} /\ MaxHomeEdits \in Nat
    /\ \A h \in Homes :
          /\ {"txs", "accounts", "budgets"} \subseteq DOMAIN h
          /\ IsFiniteSet(DOMAIN h.txs) /\ IsFiniteSet(DOMAIN h.accounts)
          /\ \A t \in DOMAIN h.txs : /\ h.txs[t].type \in HomeTypes
                                     /\ h.txs[t].month \in Int /\ h.txs[t].amount \in Int
                                     /\ h.txs[t].account \in DOMAIN h.accounts
    /\ \A x \in Additions : x.type \in HomeTypes /\ x.month \in Int /\ x.amount \in Int

---------------------------------------------------------------------------
(* The sums of buildSummary and buildSankeyData, over transactions txs.    *)

Amount(txs, S) == SumFunction([t \in S |-> txs[t].amount])
Rows(txs, P(_)) == {t \in DOMAIN txs : P(txs[t])}

Income(x) == x.type = "income"
NotIncome(x) == x.type # "income"
InMonth(x, m) == x.month = m
CategoryOf(x) == IF x.category = NoCategory THEN Other ELSE x.category

\* The cards: what is neither income nor expense is in neither.
TotalIncome(txs) == Amount(txs, Rows(txs, LAMBDA x : InMonth(x, Now) /\ Income(x)))
TotalExpense(txs) ==
    Amount(txs, Rows(txs, LAMBDA x : InMonth(x, Now) /\ x.type = "expense"))

\* The bars of a month: all but income is expense.
MonthIncome(txs, m) == Amount(txs, Rows(txs, LAMBDA x : InMonth(x, m) /\ Income(x)))
MonthExpense(txs, m) == Amount(txs, Rows(txs, LAMBDA x : InMonth(x, m) /\ NotIncome(x)))

\* Mutant: the expenses of all months.
Spent_AllMonths(txs, c) ==
    Amount(txs, Rows(txs, LAMBDA x : x.type = "expense" /\ CategoryOf(x) = c))

\* categoryMap: this month's expenses of a category.
Spent(txs, c) ==
    Amount(txs, Rows(txs, LAMBDA x : /\ InMonth(x, Now) /\ x.type = "expense"
                                     /\ CategoryOf(x) = c))

Categories(txs, P(_)) == {CategoryOf(txs[t]) : t \in Rows(txs, P)}

\* Budgets of this month beside what was spent.
Comparison(txs, budgets) ==
    {[category |-> b.category, budget |-> b.amount, actual |-> Spent(txs, b.category)] :
        b \in {x \in budgets : InMonth(x, Now)}}

\* What transactions leave in an account, and the two sides of the balance
\* sheet: absolute values.
BalanceOf(txs, a) ==
    Amount(txs, Rows(txs, LAMBDA x : x.account = a /\ Income(x)))
      - Amount(txs, Rows(txs, LAMBDA x : x.account = a /\ NotIncome(x)))
Size(n) == IF n < 0 THEN -n ELSE n
SideOf(txs, accounts, card) ==
    SumFunction([a \in {b \in DOMAIN accounts : (accounts[b] = "credit_card") = card} |->
                    Size(BalanceOf(txs, a))])

\* The flows of this month: income categories, the node in the middle, expense
\* categories and what is left; only positive amounts are drawn.
FlowIn(txs, c) ==
    Amount(txs, Rows(txs, LAMBDA x : InMonth(x, Now) /\ Income(x) /\ CategoryOf(x) = c))
FlowOut(txs, c) ==
    Amount(txs, Rows(txs, LAMBDA x : InMonth(x, Now) /\ NotIncome(x) /\ CategoryOf(x) = c))
MonthCategories(txs) == Categories(txs, LAMBDA x : InMonth(x, Now))
Positive(n) == IF n > 0 THEN n ELSE 0
Drawn(flow) == SumFunction([c \in DOMAIN flow |-> Positive(flow[c])])
Left(txs) == Positive(MonthIncome(txs, Now) - MonthExpense(txs, Now))

---------------------------------------------------------------------------
(* The calls and the tables.                                               *)

Unread == [txs |-> NotRead, accounts |-> NotRead, budgets |-> NotRead]

\* list_transactions: ORDER BY date DESC LIMIT; the page asks for 5000, the
\* server gives 1000 at most.
Listed(txs) ==
    {S \in SUBSET DOMAIN txs :
        /\ Cardinality(S) = IF Cardinality(DOMAIN txs) < ListLimit
                            THEN Cardinality(DOMAIN txs) ELSE ListLimit
        /\ \A t \in S, u \in DOMAIN txs \ S : txs[t].month >= txs[u].month}

ReadTransactions ==
    /\ view.txs = NotRead
    /\ \E S \in Listed(home.txs) :
          view' = [view EXCEPT !.txs = [t \in S |-> home.txs[t]]]
    /\ UNCHANGED <<home, homeEdits>>

ReadAccounts ==
    /\ view.accounts = NotRead
    /\ view' = [view EXCEPT !.accounts = home.accounts]
    /\ UNCHANGED <<home, homeEdits>>

ReadBudgets ==
    /\ view.budgets = NotRead
    /\ view' = [view EXCEPT !.budgets = home.budgets]
    /\ UNCHANGED <<home, homeEdits>>

\* Promise.all: one call that fails leaves an empty summary.
ReadFails ==
    /\ NotRead \in {view.txs, view.accounts, view.budgets}
    /\ view' = [txs |-> [t \in {} |-> NotRead], accounts |-> [a \in {} |-> NotRead],
                budgets |-> {}]
    /\ UNCHANGED <<home, homeEdits>>

Edited(h) ==
    /\ homeEdits < MaxHomeEdits
    /\ homeEdits' = homeEdits + 1
    /\ home' = h
    /\ UNCHANGED view

RemoveTransaction(t) ==
    Edited([home EXCEPT !.txs = [u \in DOMAIN home.txs \ {t} |-> home.txs[u]]])

\* The account takes its transactions along.
RemoveAccount(a) ==
    Edited([home EXCEPT
        !.accounts = [b \in DOMAIN home.accounts \ {a} |-> home.accounts[b]],
        !.txs = [u \in {t \in DOMAIN home.txs : home.txs[t].account # a} |-> home.txs[u]]])

AddTransaction(x) ==
    /\ x.account \in DOMAIN home.accounts
    /\ LET new == 1 + Cardinality(DOMAIN home.txs)
       IN  /\ new \notin DOMAIN home.txs
           /\ Edited([home EXCEPT !.txs = [t \in DOMAIN home.txs \cup {new} |->
                                              IF t = new THEN x ELSE home.txs[t]]])

DashboardInit == home \in Homes /\ view = Unread /\ homeEdits = 0

DashboardNext ==
    \/ ReadTransactions \/ ReadAccounts \/ ReadBudgets \/ ReadFails
    \/ \E t \in DOMAIN home.txs : RemoveTransaction(t)
    \/ \E a \in DOMAIN home.accounts : RemoveAccount(a)
    \/ \E x \in Additions : AddTransaction(x)

DashboardSpec == DashboardInit /\ [][DashboardNext]_dashboardVars

---------------------------------------------------------------------------
(* Properties.                                                             *)

NoTransfers(txs) == \A t \in DOMAIN txs : txs[t].type # "transfer"
Months(txs) == {txs[t].month : t \in DOMAIN txs}

\* The parts of the dashboard agree: the cards with this month's bars when
\* nothing is a transfer, the categories with the card of expenses, the flows
\* in and out of the middle up to a deficit when no category is negative, and
\* the balance sheet with all months when every transaction's account was
\* listed, no account is overdrawn and no card in credit.  The cards are those
\* of the whole table when nothing changed meanwhile and the transactions of
\* this month and later are within the limit of the list.
DashboardAdds ==
    NotRead \notin {view.txs, view.accounts, view.budgets} =>
        LET txs == view.txs
            S == MonthCategories(txs)
            balance == MonthIncome(txs, Now) - MonthExpense(txs, Now)
        IN  /\ NoTransfers(txs) =>
                 /\ TotalIncome(txs) = MonthIncome(txs, Now)
                 /\ TotalExpense(txs) = MonthExpense(txs, Now)
            /\ SumFunction([c \in Categories(txs, LAMBDA x : TRUE) |-> Spent(txs, c)])
                 = TotalExpense(txs)
            /\ \A b \in Comparison(txs, view.budgets) :
                  (\A t \in DOMAIN txs : txs[t].amount >= 0) => b.actual <= TotalExpense(txs)
            /\ (\A c \in S : FlowIn(txs, c) >= 0 /\ FlowOut(txs, c) >= 0) =>
                 Drawn([c \in S |-> FlowOut(txs, c)]) + Left(txs)
                   = Drawn([c \in S |-> FlowIn(txs, c)]) + Positive(-balance)
            /\ /\ \A t \in DOMAIN txs : txs[t].account \in DOMAIN view.accounts
               /\ \A a \in DOMAIN view.accounts :
                     IF view.accounts[a] = "credit_card" THEN BalanceOf(txs, a) <= 0
                                                         ELSE BalanceOf(txs, a) >= 0
               => SideOf(txs, view.accounts, FALSE) - SideOf(txs, view.accounts, TRUE)
                    = SumFunction([m \in Months(txs) |->
                                      MonthIncome(txs, m) - MonthExpense(txs, m)])
            /\ /\ homeEdits = 0 /\ view.accounts = home.accounts
               /\ Cardinality(Rows(home.txs, LAMBDA x : x.month >= Now)) <= ListLimit
               => /\ TotalIncome(txs) = TotalIncome(home.txs)
                  /\ TotalExpense(txs) = TotalExpense(home.txs)
=============================================================================
