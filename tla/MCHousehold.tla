---------------------------- MODULE MCHousehold ----------------------------
(***************************************************************************)
(* The household application around its key custody: the handlers that     *)
(* write transactions and accounts, the pages that list and edit them, the *)
(* dashboard, and the CSV files of banks and cards.  A behaviour follows   *)
(* one part and leaves the variables of the others as they began.          *)
(***************************************************************************)
EXTENDS Ledger, Household, Dashboard, CsvFormats, TLC

VARIABLE part

---------------------------------------------------------------------------
(* CSV files.  The titles are those the comments of the parsers give; the  *)
(* words stand for the Japanese ones of the code.                          *)

Title(role, words) == [role |-> role, words |-> words]
Memo == Title("other", {})
RemainingTitle == Title("balance", {"balance"})

RakutenBankTitles ==
    <<Title("date", {"traded"}), Title("signed", {"in and out", "out"}),
      Title("balance", {"balance after", "balance"}),
      Title("text", {"in and out", "out", "content"})>>
SmbcTitles ==
    <<Title("date", {"ymd"}), Title("out", {"withdrawn"}), Title("in", {"deposited"}),
      Title("text", {"handled", "content"}), RemainingTitle>>
SmbcCliTitles ==
    <<Title("date", {"your trade day", "traded"}), Title("out", {"withdrawn"}),
      Title("in", {"deposited"}), Title("text", {"content"})>>
SbiTitles ==
    <<Title("date", {"date"}), Title("text", {"content"}),
      Title("out", {"amount out", "out"}), Title("in", {"amount in", "in"}), RemainingTitle>>
OliveTitles ==
    <<Title("date", {"your day of use", "day of use"}), Title("text", {"your place", "place"}),
      Title("amount", {"your amount", "amount"})>>
RakutenCardTitles ==
    <<Title("date", {"day of use"}), Title("text", {"shop", "goods"}), Memo, Memo,
      Title("amount", {"amount"})>>
RakutenCardCliTitles ==
    <<Title("date", {"day of use"}), Title("text", {"shop", "goods"}),
      Title("amount", {"amount"}), Memo>>
JcbTitles(words) ==
    <<Title("date", {"your date of use", "ymd"}), Title("text", {"your place", "place"}),
      Title("amount", words)>>

Formats ==
    {<<"rakuten_bank", {"api"}, RakutenBankTitles>>, <<"smbc", {"api"}, SmbcTitles>>,
     <<"smbc", {"cli"}, SmbcCliTitles>>, <<"sbi", {"api", "cli"}, SbiTitles>>,
     <<"smbc_olive", {"api"}, OliveTitles>>,
     <<"smbc_olive", {"api", "cli"}, Append(OliveTitles, Memo)>>,
     <<"rakuten_card", {"api"}, RakutenCardTitles>>,
     <<"rakuten_card", {"api", "cli"}, RakutenCardCliTitles>>,
     <<"jcb", {"api"}, JcbTitles({"your amount", "amount"})>>,
     <<"jcb", {"api", "cli"}, Append(JcbTitles({"your payment", "paid"}), Memo)>>}

CsvLine(style, day, n, words) ==
    [style |-> style, day |-> day, n |-> n, yen |-> FALSE, words |-> words]
Rent(style) == CsvLine(style, 1, -5, {})
RowSets ==
    {<<Rent("slash"), CsvLine("short", 2, 3, {}), CsvLine("compact", 3, -1, {"withdrawn"})>>,
     <<CsvLine("slash", 1, -5, {"olive"}), Rent("slash")>>,
     <<CsvLine("slash", 1, -5, {"withdrawn"}), CsvLine("slash", 2, 4, {})>>,
     <<CsvLine("slash", 1, 5, {}), CsvLine("none", 2, -4, {})>>}
Sheet(f, rows) == [institution |-> f[1], layout |-> f[2], header |-> f[3], rows |-> rows]
InYen(rows) == [i \in DOMAIN rows |-> [rows[i] EXCEPT !.yen = TRUE]]

\* Rakuten Bank dates every line; Olive and JCB may write the sign of the yen.
MCSheets ==
    {Sheet(f, rows) : f \in {g \in Formats : g[1] # "rakuten_bank"}, rows \in RowSets}
    \cup {Sheet(<<"rakuten_bank", {"api"}, RakutenBankTitles>>, rows) :
            rows \in {r \in RowSets : \A i \in DOMAIN r : r[i].style # "none"}}
    \cup {Sheet(f, InYen(rows)) :
            f \in {g \in Formats : g[1] \in {"smbc_olive", "jcb"}}, rows \in RowSets}

---------------------------------------------------------------------------
(* The ledger: the records the api reads from two files of SBI, one with a *)
(* repeated line, one whose second line is not dated as an import needs.   *)

FormOf(style) == CASE style = "slash" -> "padded"
                   [] style = "short" -> "short"
                   [] style \in {"compact", "none"} -> "bad"
Imported(rows) ==
    LET records == ApiParse(Sheet(<<"sbi", {"api", "cli"}, SbiTitles>>, rows))
    IN  [i \in DOMAIN records |-> [date |-> FormOf(records[i].style), item |-> "rent"]]
MCFiles == {Imported(<<Rent("slash"), Rent("short"), Rent("slash")>>),
            Imported(<<Rent("slash"), Rent("compact"), Rent("short")>>)}

---------------------------------------------------------------------------
(* The pages.                                                              *)

MCFirstRows == (1 :> [label |-> "food", content |-> 1])
MCTyped == {[label |-> "food", content |-> 2], [label |-> "rent", content |-> 1],
            [label |-> "fuel", content |-> 1]}

\* Rent is older than the first transaction, fuel is newer.
MCDateOf == "food" :> 2 @@ "rent" :> 1 @@ "fuel" :> 3

---------------------------------------------------------------------------
(* The dashboard: a month with income, spending and a card; a transfer and *)
(* a refund; more transactions than the list is allowed.                   *)

Booked(account, month, type, category, amount) ==
    [account |-> account, month |-> month, type |-> type, category |-> category,
     amount |-> amount]
Salary == Booked(1, 2, "income", "salary", 5)
LastSalary == Booked(1, 1, "income", "salary", 4)
Food == Booked(1, 2, "expense", "food", 2)
ByCard == Booked(2, 2, "expense", NoCategory, 3)
LastByCard == Booked(2, 1, "expense", "food", 1)
Moved == Booked(1, 2, "transfer", NoCategory, 2)
Refunded == Booked(1, 2, "expense", "food", -3)
MCBudgets == {[category |-> "food", month |-> 2, amount |-> 4],
              [category |-> "rent", month |-> 1, amount |-> 4]}
HomeOf(txs) == [txs |-> txs, accounts |-> (1 :> "bank" @@ 2 :> "credit_card"),
                budgets |-> MCBudgets]
MCHomes == {HomeOf((1 :> Salary @@ 2 :> Food @@ 3 :> ByCard @@ 4 :> LastByCard)),
            HomeOf((1 :> LastSalary @@ 2 :> Moved @@ 3 :> Refunded)),
            HomeOf((1 :> Food @@ 2 :> Food @@ 3 :> Salary @@ 4 :> ByCard @@ 5 :> LastByCard))}
MCAdditions == {Salary, Refunded, ByCard}

---------------------------------------------------------------------------

BooksInit ==
    /\ part \in {"ledger", "pages", "dashboard", "csv"}
    /\ Init /\ HouseholdInit /\ DashboardInit /\ CsvInit
    /\ part # "pages" => resource = "budgets"
    /\ part # "dashboard" => home = CHOOSE h \in Homes : TRUE
    /\ part # "csv" => reading.sheet = CHOOSE s \in Sheets : TRUE

Follow(p, next) == part = p /\ next /\ UNCHANGED part

BooksNext ==
    \/ Follow("ledger", Next) /\ UNCHANGED <<householdVars, dashboardVars, reading>>
    \/ Follow("pages", HouseholdNext) /\ UNCHANGED <<vars, dashboardVars, reading>>
    \/ Follow("dashboard", DashboardNext) /\ UNCHANGED <<vars, householdVars, reading>>
    \/ Follow("csv", CsvNext) /\ UNCHANGED <<vars, householdVars, dashboardVars>>

\* The fairness of the ledger's handlers, when they are followed.
BooksSpec ==
    /\ BooksInit
    /\ [][BooksNext]_<<part, vars, householdVars, dashboardVars, reading>>
    /\ \A p \in Requests : WF_vars(part = "ledger" /\ Step(p))
=============================================================================
