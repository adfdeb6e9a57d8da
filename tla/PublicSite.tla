----------------------------- MODULE PublicSite -----------------------------
(***************************************************************************)
(* The public site (webapp) and the tables it shows: the loaders behind    *)
(* its pages, the cache of Next.js in front of them, and the edits of the  *)
(* admin application (organizations, balance snapshots, transactions) that *)
(* go on meanwhile.                                                        *)
(*                                                                         *)
(* A load issues its queries one after another without a database          *)
(* transaction, so each of them sees some version of the tables that was   *)
(* current during the load; a cache entry is kept with the first and the   *)
(* last of those versions.  unstable_cache (external) answers an expired   *)
(* entry and loads anew in the background; loads of one key may overlap,   *)
(* and the one that ends last stays.                                       *)
(*                                                                         *)
(* Names, colours and layout are left out, and so is the page's date of    *)
(* the last update, which is over the transactions of all organizations.   *)
(* The year of the pages is fixed in the code; snapshots have the year     *)
(* before it, the year itself or a later one.                              *)
(***************************************************************************)
EXTENDS Integers, Sequences, FiniteSets, Functions

CONSTANTS
    Slugs,          \* slugs of organizations
    Pages,          \* the pages asked for: <<"top", slug>>, <<"csv", slug>>
    PL_CATEGORIES,  \* the category of an account
    Loan,           \* the account of loans
    Liabilities,    \* the accounts of liabilities of BS_CATEGORIES
    Balances,       \* what a snapshot may say: [year, day, balance]
    Imports,        \* lines an import writes, by transaction_no
    FirstTables,    \* the tables at first
    PerPage,        \* transactions shown on the top page
    TargetCount,    \* DEFAULT_SUBCATEGORY_MAX_COUNT
    MaxChanges,     \* bound on edits, to which a deletion may come
    MaxLoads        \* bound on loads under way at once

VARIABLES
    versions,  \* history: the tables after each edit, the last one current
    loads,     \* loads under way: [key, from], from the version they began at
    cache,     \* the entry of each key, or NoEntry
    deletion   \* the deletion of an organization under way, or NoDeletion

siteVars == <<versions, loads, cache, deletion>>

Organizations == <<"organizations">>
CacheKeys == {Organizations} \cup Pages
NoEntry == [from |-> 0, to |-> 0, fresh |-> FALSE]
NoDeletion == [org |-> 0, at |-> 0]
Now == Len(versions)
tables == versions[Now]

\* The tables: slugs are UNIQUE, rows have the key <<organization,
\* transaction_no>> and belong to an organization.
Kept(d) ==
    /\ d = [orgs |-> d.orgs, rows |-> d.rows, snaps |-> d.snaps]
    /\ \A i, j \in DOMAIN d.orgs :
          d.orgs[i] \in Slugs /\ (i # j => d.orgs[i] # d.orgs[j])
    /\ DOMAIN d.rows \subseteq (DOMAIN d.orgs) \X Nat /\ IsFiniteSet(DOMAIN d.rows)
    /\ DOMAIN d.snaps \subseteq Nat /\ IsFiniteSet(DOMAIN d.snaps)

\* What transactions and snapshots there may be.
AllLines ==
    (UNION {{d.rows[t] : t \in DOMAIN d.rows} : d \in FirstTables})
    \cup (UNION {{lines[n] : n \in DOMAIN lines} : lines \in Imports})
AllBalances == (UNION {{d.snaps[i] : i \in DOMAIN d.snaps} : d \in FirstTables}) \cup Balances

ASSUME SiteAssumption ==
    /\ Pages \subseteq {"top", "csv"} \X Slugs
    /\ \A d \in FirstTables : Kept(d)
    /\ \A lines \in Imports : DOMAIN lines \subseteq Nat /\ IsFiniteSet(DOMAIN lines)
    /\ \A l \in AllLines : l.month \in Int /\ l.debit \in Int /\ l.credit \in Int
    /\ \A b \in AllBalances :
          b.year \in {"previous", "current", "later"} /\ b.day \in Int /\ b.balance \in Int
    /\ \A b, c \in AllBalances : b.year = "previous" /\ c.year = "current" => b.day < c.day
    /\ PerPage \in Nat /\ TargetCount \in Nat \ {0}
    /\ MaxChanges \in Nat /\ MaxLoads \in Nat \ {0, 1}

---------------------------------------------------------------------------
(* What an organization's page shows of one version of the tables.         *)

\* findBySlugs: the organization of a slug, if there is one.
FindBySlug(d, s) == {o \in DOMAIN d.orgs : d.orgs[o] = s}

RowsOfOrg(d, o) == {t \in DOMAIN d.rows : t[1] = o}
LinesOf(d, o) == [n \in {t[2] : t \in RowsOfOrg(d, o)} |-> d.rows[<<o, n>>]]
SnapsOf(d, o) == {i \in DOMAIN d.snaps : d.snaps[i].org = o}

OfType(lines, type) == {t \in DOMAIN lines : lines[t].type = type}
Credit(lines, T) == SumFunction([t \in T |-> lines[t].credit])
Debit(lines, T) == SumFunction([t \in T |-> lines[t].debit])

\* Mutant: the queries by month without their transaction_type.
Monthly_AnyType(lines) ==
    LET of(m) == {t \in DOMAIN lines : lines[t].month = m}
    IN  [m \in {lines[t].month : t \in DOMAIN lines} |->
            [income |-> Credit(lines, of(m)), expense |-> Debit(lines, of(m))]]

\* getIncomeByOrganizationIds, getExpenseByOrganizationIds, merged by month.  The
\* merge leaves out months of other years; there are none, as a transaction's
\* financial year is the year of its date (PreviewTransaction).
Monthly(lines) ==
    LET of(m) == {t \in DOMAIN lines : lines[t].month = m}
    IN  [m \in {lines[t].month : t \in DOMAIN lines} |->
            [income |-> Credit(lines, of(m) \cap OfType(lines, "income")),
             expense |-> Debit(lines, of(m) \cap OfType(lines, "expense"))]]

\* The account a transaction counts under: credit of income, debit of expense.
AccountOf(line) == IF line.type = "expense" THEN line.debitAccount ELSE line.creditAccount

\* An account PL_CATEGORIES does not list is a category of its own.
CategoryOf(account) == IF account \in DOMAIN PL_CATEGORIES THEN PL_CATEGORIES[account]
                                                           ELSE <<account, "">>

\* The groups of getCategoryAggregationForSankey: category and subcategory, or
\* category and friendly category.
Group(line, friendly) ==
    LET c == CategoryOf(AccountOf(line))
    IN  <<c[1], IF friendly THEN line.tag ELSE c[2]>>

\* groupBy and aggregateByCategory of one side: items [cat, sub, amount].
Aggregate(lines, side, friendly) ==
    LET T == OfType(lines, side)
        in(g) == {t \in T : Group(lines[t], friendly) = g}
    IN  {[cat |-> g[1], sub |-> g[2],
          amount |-> IF side = "income" THEN Credit(lines, in(g)) ELSE Debit(lines, in(g))]
           : g \in {Group(lines[t], friendly) : t \in T}}

Amounts(items) == SumFunction([i \in items |-> i.amount])

\* calculateDynamicThreshold: an item is small below the amount of the
\* TargetCount-th largest or below 1% of all, if there are more of them.
IsSmall(items, i) ==
    LET subs == {j \in items : j.sub # ""}
    IN  /\ i.sub # "" /\ Cardinality(subs) > TargetCount
        /\ \/ Cardinality({j \in subs : j.amount > i.amount}) >= TargetCount
           \/ 100 * i.amount < Amounts(items)

\* consolidateSmallItems: the small items of a category become one, a single
\* one stays.
Consolidate(items) ==
    LET small == {i \in items : IsSmall(items, i)}
        of(c) == {i \in small : i.cat = c}
    IN  (items \ small) \cup
        {IF Cardinality(of(c)) = 1 THEN CHOOSE i \in of(c) : TRUE
         ELSE [cat |-> c, sub |-> "others", amount |-> Amounts(of(c))]
           : c \in {i.cat : i \in small}}

Item(cat, sub, amount) == {i \in {[cat |-> cat, sub |-> sub, amount |-> amount]} : i.amount > 0}
Larger(m, n) == IF m > n THEN m ELSE n

\* adjustWithBalance: last year's cash joins the income, this year's the
\* expense, in the friendly diagram split into what is unpaid and the rest.
Carried(balance) == Item("carried", "", balance.previous)
Cash(balance, debt, friendly) ==
    IF balance.current <= 0 THEN {}
    ELSE IF friendly
         THEN Item("cash", "unpaid", debt) \cup
              Item("cash", "rest", balance.current - Larger(debt, 0))
         ELSE Item("cash", "", balance.current)

\* SankeyDataBuilder.build: the links of the total node; the gap of an expense
\* side that is too small is filled.
Sankey(lines, balance, debt, friendly) ==
    LET items(side) == LET all == Aggregate(lines, side, friendly)
                       IN  IF friendly THEN Consolidate(all) ELSE all
        income == items("income") \cup Carried(balance)
        expense == items("expense") \cup Cash(balance, debt, friendly)
    IN  [income |-> income,
         expense |-> expense \cup Item("pending", "", Amounts(income) - Amounts(expense))]

\* getCurrentLiabilities: the accounts of liabilities, whatever the type.
CurrentLiabilities(lines) ==
    Credit(lines, {t \in DOMAIN lines : lines[t].creditAccount \in Liabilities})
    - Debit(lines, {t \in DOMAIN lines : lines[t].debitAccount \in Liabilities})

\* The snapshot a query with DISTINCT ON takes: the latest day, then the row
\* written last.
Latest(d, I) ==
    IF I = {} THEN 0
    ELSE d.snaps[CHOOSE i \in I : \A j \in I : \/ d.snaps[j].day < d.snaps[i].day
                                               \/ /\ d.snaps[j].day = d.snaps[i].day
                                                  /\ j <= i].balance

\* getCurrentAssets, over all years, and getTotalLatestBalancesByYear.
CurrentAssets(d, o) == Latest(d, SnapsOf(d, o))
BalancesByYear(d, o) ==
    LET in(y) == {i \in SnapsOf(d, o) : d.snaps[i].year = y}
    IN  [previous |-> Latest(d, in("previous")), current |-> Latest(d, in("current"))]

\* BalanceSheet.fromInput.
BalanceSheet(assets, lines) ==
    LET fixed == Credit(lines, {t \in OfType(lines, "income") : lines[t].creditAccount = Loan})
                 - Debit(lines, {t \in OfType(lines, "expense") : lines[t].debitAccount = Loan})
        current == CurrentLiabilities(lines)
        balance == assets - (current + fixed)
    IN  [left |-> [assets |-> assets, debtExcess |-> Larger(-balance, 0)],
         right |-> [current |-> current, fixed |-> fixed, net |-> Larger(balance, 0)]]

\* findWithPagination of the first page: what is shown, latest first, and how
\* many there are.
Shown(lines) ==
    LET all == OfType(lines, "income") \cup OfType(lines, "expense")
        newer(t) == {u \in all : \/ lines[u].month > lines[t].month
                                 \/ lines[u].month = lines[t].month /\ u > t}
    IN  [txs |-> {t \in all : Cardinality(newer(t)) < PerPage}, total |-> Cardinality(all)]

\* convertToDisplayTransaction: the amount without its sign.
AbsAmount(line) == LET a == IF line.type = "expense" THEN line.debit ELSE line.credit
                   IN  IF a < 0 THEN -a ELSE a

\* loadTopPageData of one organization when every query sees one version.
TopPage(d, o) ==
    LET lines == LinesOf(d, o)
        balance == BalancesByYear(d, o)
        debt == CurrentLiabilities(lines)
    IN  [shown |-> Shown(lines), monthly |-> Monthly(lines),
         political |-> Sankey(lines, balance, debt, FALSE),
         friendly |-> Sankey(lines, balance, debt, TRUE),
         sheet |-> BalanceSheet(CurrentAssets(d, o), lines)]

\* The data behind a slug, of which every figure of its pages is a function.
View(d, s) == {<<o, LinesOf(d, o), [i \in SnapsOf(d, o) |-> d.snaps[i]]>> : o \in FindBySlug(d, s)}

\* The slugs loadOrganizations answers; the first of them is the default.
ListedSlugs(d) == {d.orgs[o] : o \in DOMAIN d.orgs}

---------------------------------------------------------------------------
(* The cache.                                                              *)

\* Whether a request comes to ask for a key.  The pages of an organization ask
\* for the organizations first and redirect when the slug is not among them.
Asked(k) ==
    k[1] = "top" => /\ cache[Organizations] # NoEntry
                    /\ k[2] \in ListedSlugs(versions[cache[Organizations].to])

\* A request for what is missing or expired begins a load.  Of two loads that
\* began at the same version one is kept.
Visit(k) ==
    /\ Asked(k) /\ ~cache[k].fresh
    /\ loads' = loads \cup {[key |-> k, from |-> Now]}
    /\ Cardinality(loads') <= MaxLoads
    /\ UNCHANGED <<versions, cache, deletion>>

\* A load ends with what its queries saw.  loadOrganizations is one query.  The
\* others look the slug up, once or in each use case; without an organization
\* they throw, and the entry stays as it is.
FinishLoad(l) ==
    /\ l \in loads /\ loads' = loads \ {l}
    /\ IF l.key = Organizations
       THEN \E v \in l.from..Now :
              cache' = [cache EXCEPT ![l.key] = [from |-> v, to |-> v, fresh |-> TRUE]]
       ELSE LET found(v) == FindBySlug(versions[v], l.key[2]) # {}
            IN  \/ /\ \E v \in l.from..Now : found(v)
                   /\ cache' = [cache EXCEPT ![l.key] =
                                  [from |-> l.from, to |-> Now, fresh |-> TRUE]]
                \/ /\ \E v \in l.from..Now : ~found(v)
                   /\ UNCHANGED cache
    /\ UNCHANGED <<versions, deletion>>

\* Mutant: no time limit.
Expire_Never(k) == FALSE /\ UNCHANGED siteVars

\* CACHE_REVALIDATE_SECONDS have passed.
Expire(k) ==
    /\ cache[k].fresh
    /\ cache' = [cache EXCEPT ![k].fresh = FALSE]
    /\ UNCHANGED <<versions, loads, deletion>>

\* POST /api/refresh, when the admin application reaches it in time with the
\* token: no loader declares the other two tags, and the paths "/" and
\* "/transactions" hold no loader, so only the CSV entries expire.
Refresh ==
    /\ \E p \in Pages : p[1] = "csv" /\ cache[p].fresh
    /\ cache' = [k \in CacheKeys |-> IF k[1] = "csv"
                                THEN [cache[k] EXCEPT !.fresh = FALSE] ELSE cache[k]]
    /\ UNCHANGED <<versions, loads, deletion>>

---------------------------------------------------------------------------
(* The edits.                                                              *)

Write(d) ==
    /\ versions' = Append(versions, d)
    /\ UNCHANGED <<loads, cache>>

Alter(d) == Now <= MaxChanges /\ Write(d) /\ UNCHANGED deletion

\* A bookkeeping import of an organization's rows, or their deletion.
ImportRows(o, lines) ==
    /\ o \in DOMAIN tables.orgs
    /\ Alter([tables EXCEPT !.rows =
               [t \in DOMAIN @ \cup ({o} \X DOMAIN lines) |->
                  IF t[1] = o /\ t[2] \in DOMAIN lines THEN lines[t[2]] ELSE @[t]]])

DeleteRows(o) ==
    /\ RowsOfOrg(tables, o) # {}
    /\ Alter([tables EXCEPT !.rows =
               [t \in DOMAIN @ \ RowsOfOrg(tables, o) |-> @[t]]])

\* CreateBalanceSnapshot; ids count upwards.
CreateSnapshot(o, b) ==
    /\ o \in DOMAIN tables.orgs
    /\ LET id == 1 + Cardinality(DOMAIN tables.snaps) + Now
       IN  Alter([tables EXCEPT !.snaps =
                   [i \in DOMAIN @ \cup {id} |->
                      IF i = id THEN [org |-> o, year |-> b.year, day |-> b.day,
                                      balance |-> b.balance] ELSE @[i]]])

DeleteSnapshot(i) ==
    /\ i \in DOMAIN tables.snaps
    /\ Alter([tables EXCEPT !.snaps = [j \in DOMAIN @ \ {i} |-> @[j]]])

\* CreatePoliticalOrganization and UpdatePoliticalOrganization: the slug is
\* UNIQUE.
SaveOrganization(o, s) ==
    /\ s \notin ListedSlugs(tables)
    /\ Alter([tables EXCEPT !.orgs = [i \in DOMAIN @ \cup {o} |-> IF i = o THEN s ELSE @[i]]])

\* DeletePoliticalOrganization: refused while there are transactions.
DeleteOrganizationCount(o) ==
    /\ deletion = NoDeletion /\ o \in DOMAIN tables.orgs /\ Now <= MaxChanges
    /\ RowsOfOrg(tables, o) = {}
    /\ deletion' = [org |-> o, at |-> Now]
    /\ UNCHANGED <<versions, loads, cache>>

\* delete, which cascades to transactions, snapshots and profiles.
DeleteOrganizationWrite ==
    /\ deletion # NoDeletion /\ deletion.org \in DOMAIN tables.orgs
    /\ LET o == deletion.org
       IN  Write([orgs |-> [i \in DOMAIN tables.orgs \ {o} |-> tables.orgs[i]],
                  rows |-> [t \in DOMAIN tables.rows \ RowsOfOrg(tables, o) |-> tables.rows[t]],
                  snaps |-> [i \in DOMAIN tables.snaps \ SnapsOf(tables, o) |-> tables.snaps[i]]])
    /\ deletion' = NoDeletion

---------------------------------------------------------------------------

SiteInit ==
    /\ \E d \in FirstTables : versions = <<d>>
    /\ loads = {} /\ deletion = NoDeletion
    /\ cache = [k \in CacheKeys |-> NoEntry]

SiteNext ==
    \/ \E k \in CacheKeys : Visit(k)
    \/ \E l \in loads : FinishLoad(l)
    \/ \E k \in CacheKeys : Expire(k)
    \/ Refresh
    \/ \E o \in DOMAIN tables.orgs :
          \/ \E lines \in Imports : ImportRows(o, lines)
          \/ DeleteRows(o)
          \/ \E b \in Balances : CreateSnapshot(o, b)
          \/ DeleteOrganizationCount(o)
    \/ \E i \in DOMAIN tables.snaps : DeleteSnapshot(i)
    \/ \E o \in DOMAIN tables.orgs \cup {1 + Cardinality(DOMAIN tables.orgs) + Now}, s \in Slugs :
          SaveOrganization(o, s)
    \/ DeleteOrganizationWrite

\* Everything is asked for again and again, loads end, and time passes.
SiteFairness ==
    /\ \A k \in CacheKeys : SF_siteVars(Visit(k))
    /\ \A k \in CacheKeys : WF_siteVars(Expire(k))
    /\ \A k \in CacheKeys : WF_siteVars(\E l \in loads : l.key = k /\ FinishLoad(l))

SiteSpec == SiteInit /\ [][SiteNext]_siteVars /\ SiteFairness
---------------------------------------------------------------------------
(* Properties.                                                             *)

InOut(diagram) == [inward |-> Amounts(diagram.income), outward |-> Amounts(diagram.expense)]
OfCat(items, c) == {i \in items : i.cat = c}
Balancing == {"carried", "cash", "pending"}

\* Names kept apart, which the code leaves to the configuration: no line is
\* tagged like the item that small ones are merged into, or is of a category
\* called like what a page adds to balance a diagram
\* (category-aggregation.ts:101, sankey-data-builder.ts:93).
Cat(line) == CategoryOf(AccountOf(line))[1]
NamesApart == \A l \in AllLines : l.tag # "others" /\ Cat(l) \notin Balancing

\* The parts of a page, its lines, balances and snapshots side by side.
PartsAgree(lines, page, balance, snapshots) ==
    LET debt == page.sheet.right.current
        months(side) == SumFunction([m \in DOMAIN page.monthly |-> page.monthly[m][side]])
        real(items) == {i \in items : i.cat \notin Balancing}
        cats(d) == {i.cat : i \in real(d.income) \cup real(d.expense)}
    IN  /\ cats(page.political) = cats(page.friendly)
        /\ \A c \in cats(page.political) \cup {"carried"}, side \in {"income", "expense"} :
              Amounts(OfCat(page.political[side], c)) = Amounts(OfCat(page.friendly[side], c))
        /\ Amounts(real(page.political.income)) = months("income")
        /\ Amounts(real(page.political.expense)) = months("expense")
        /\ Amounts(OfCat(page.political.expense, "cash")) = Larger(balance.current, 0)
        /\ Amounts(OfCat(page.friendly.expense, "cash"))
              = IF balance.current > 0 THEN Larger(balance.current, debt) ELSE 0
        /\ \A diagram \in {page.political, page.friendly} :
              LET flow == InOut(diagram)
              IN  /\ flow.inward <= flow.outward
                  /\ OfCat(diagram.expense, "pending") # {} => flow.inward = flow.outward
        /\ page.sheet.left.assets + page.sheet.left.debtExcess
              = debt + page.sheet.right.fixed + page.sheet.right.net
        /\ (\A snap \in snapshots : snap.year # "later") /\ balance.current # 0
              => page.sheet.left.assets = balance.current
        /\ page.shown.total <= PerPage
              /\ (\A n \in DOMAIN lines : lines[n].debit >= 0 /\ lines[n].credit >= 0)
              => SumFunction([n \in page.shown.txs |-> AbsAmount(lines[n])])
                    = months("income") + months("expense")

\* The parts of one page agree, each computed by a query and a calculation of
\* its own: the two diagrams category by category, both with the months, the
\* months with the list when it shows everything, cash and liabilities of the
\* diagrams with the balance sheet, and what flows in with what flows out
\* unless more is spent than came in (get-sankey-aggregation-usecase.ts:50,
\* category-aggregation.ts:66, sankey-data-builder.ts:80).
PageAgrees ==
    \A o \in DOMAIN tables.orgs :
        PartsAgree(LinesOf(tables, o), TopPage(tables, o), BalancesByYear(tables, o),
                   {tables.snaps[i] : i \in SnapsOf(tables, o)})

\* Deleting an organization takes no transaction with it that was there when
\* the deletion was asked for (delete-political-organization-usecase.ts:17),
\* and nothing of another organization.
OrganizationDeletionTakesOnlyNewRows ==
    [][\A o \in DOMAIN tables.orgs : o \notin DOMAIN tables'.orgs =>
        /\ RowsOfOrg(versions[deletion.at], o) = {}
        /\ \A q \in DOMAIN tables.orgs \ {o} : View(tables, tables.orgs[q])
                                                = View(tables', tables.orgs[q])]_siteVars

\* Answers of the cache that are those of the current tables: every version a
\* query of the entry may have seen shows what they show.  A missing entry is
\* loaded before the answer.
OrganizationsCurrent(s) ==
    LET entry == cache[Organizations]
    IN  entry # NoEntry => (s \in ListedSlugs(versions[entry.to]) <=> s \in ListedSlugs(tables))
PageCurrent(p) ==
    \A v \in cache[p].from..cache[p].to :
        v = 0 \/ View(versions[v], p[2]) = View(tables, p[2])

\* Whatever order loads end in and whatever became of the request to refresh:
\* once the tables stay as they are, the pages asked for of an organization
\* that exists come to show them, and those of a slug that is gone redirect
\* (load-top-page-data.ts:100, refresh/route.ts:20).
EventuallyCurrent ==
    <>[]\A p \in Pages : /\ p[1] = "top" => OrganizationsCurrent(p[2])
                         /\ FindBySlug(tables, p[2]) # {} => PageCurrent(p)
=============================================================================
