------------------------------- MODULE Sheets -------------------------------
(***************************************************************************)
(* What a reader sees of the yearly report: the sheets of the file, which  *)
(* serializeReportData writes, the preview of the page export-report, the  *)
(* cache the preview is kept in (unstable_cache, 60 seconds) and the       *)
(* button that downloads the file by an export of its own.                 *)
(*                                                                         *)
(* A sheet is what is written of a section: himoku, total, remainder and   *)
(* rows; an element that is left empty stands for 0.  Categories that the  *)
(* instance does not have would be empty parts of forms 14 and 15.  One    *)
(* export is under way at a time, since exports only read, and one browser *)
(* has the page open.                                                      *)
(***************************************************************************)
EXTENDS Report

VARIABLES
    asker,      \* whom the export under way answers
    began,      \* the edits there were when it began
    cache,      \* the preview that is kept
    shown       \* the preview the browser shows

sheetVars == <<reportVars, asker, began, cache, shown>>

NoPage == [status |-> "none", read |-> <<>>, profile |-> "none", since |-> 0]

---------------------------------------------------------------------------
(* The sheets of the file.                                                 *)

Cell(n) == IF n > 0 THEN n ELSE 0
Remainder(x) == [x EXCEPT !.other = Cell(@)]
EmptySheet == [himoku |-> Blank, total |-> 0, other |-> 0, rows |-> {}]

\* Sheets 03 to 06: only other income has an element for the remainder.
IncomeSheets(data, s) ==
    {[x EXCEPT !.other = IF s = OtherIncome THEN Cell(@) ELSE 0] : x \in data[s]}

DonationSheets(data) == {Remainder(x) : x \in data[Donation]}

RoutineSheets(data, s) == {Remainder(x) : x \in data[s]}

\* Mutant: the himokus of a category share a sheet.
PoliticalSheets_Merged(data, s) ==
    {[himoku |-> Blank, total |-> Sum({x}), other |-> Cell(x.other), rows |-> x.rows]
       : x \in {CHOOSE y \in data[s] \cup {EmptySheet} : TRUE}}

\* A sheet for each himoku, an empty one if there is none.
PoliticalSheets(data, s) ==
    IF data[s] = {} THEN {EmptySheet} ELSE {Remainder(x) : x \in data[s]}

\* The sheets written for a category: none unless its form is.
Written(data, s) ==
    CASE s = Donation /\ Output(data, {s}) -> DonationSheets(data)
      [] s \in ListedIncome \cup {OtherIncome} /\ Output(data, {s}) -> IncomeSheets(data, s)
      [] s \in Routine /\ Output(data, Routine) -> RoutineSheets(data, s)
      [] s \in Political /\ Output(data, Political) -> PoliticalSheets(data, s)
      [] OTHER -> {}

\* serializeSummarySection; nothing is carried over from the year before.
Sheet02(data) ==
    [income |-> Summary(data).income, expense |-> Summary(data).expense,
     carried |-> Summary(data).carried, gifts |-> SumOver(data, {Donation})]

Business == {"publication-expenses", "advertising-expenses",
             "fundraising-party-expenses", "other-business-expenses"}

\* serializeExpenseSummary: an empty element unless positive, but the amounts of
\* political items are written as they are.
Sheet13(data) ==
    LET summary == ExpenseSummary(data)
        items == Sections \ IncomeSections
    IN  [amount |-> [s \in items |-> IF s \in Political THEN summary.amount[s]
                                                        ELSE Cell(summary.amount[s])],
         grant |-> [s \in items |-> Cell(summary.grant[s])],
         regular |-> SumOver(data, Routine \cup {Personnel}),
         business |-> SumOver(data, Business),
         political |-> SumOver(data, Political),
         total |-> summary.total]

\* serializeGrantExpenditure.
Sheet16(data) == [total |-> SumRows(GrantRows(data)), rows |-> GrantRows(data)]

---------------------------------------------------------------------------
(* The preview.                                                            *)

The(sections) == CHOOSE x \in sections : TRUE

\* SectionWrapper: a remainder is shown if it is positive.
Panel(total, other, rows) == [total |-> total, other |-> Cell(other), rows |-> rows]

DonationPanel(data) ==
    LET x == The(data[Donation]) IN Panel(x.total, x.other, x.rows)

\* Only other income has a remainder.
IncomePanel(data, s) ==
    LET x == The(data[s])
    IN  Panel(x.total, IF s = OtherIncome THEN x.other ELSE 0, x.rows)

RoutinePanel(data, s) == LET x == The(data[s]) IN Panel(x.total, x.other, x.rows)

\* Mutant: the panel of one himoku.
PoliticalPanel_First(data, s) ==
    LET x == The(data[s] \cup {EmptySheet}) IN Panel(x.total, x.other, x.rows)

\* ExpenseArraySubSection: totals and remainders of the himokus are added.
PoliticalPanel(data, s) ==
    Panel(Sum(data[s]), SumFunction([x \in data[s] |-> x.other]),
          UNION {x.rows : x \in data[s]})

\* SummarySection, of the summary made beside the file.
SummaryPanel(data) ==
    [income |-> Summary(data).income, expense |-> Summary(data).expense,
     carried |-> Summary(data).carried, gifts |-> SumOver(data, {Donation})]

\* ReportDataPreview; personnel costs have no panel.
Tables(data) ==
    [s \in Sections \ {Personnel} |->
       CASE s = Donation -> DonationPanel(data)
         [] s \in ListedIncome \cup {OtherIncome} -> IncomePanel(data, s)
         [] s \in Routine -> RoutinePanel(data, s)
         [] s \in Political -> PoliticalPanel(data, s)]

---------------------------------------------------------------------------
(* The page.                                                               *)

SheetInit == ReportInit /\ asker = "none" /\ began = 0 /\ cache = NoPage /\ shown = NoPage

Ask(who) == asker = "none" /\ StartExport /\ asker' = who /\ began' = edits

\* The page is opened: a preview that is kept is shown, and one older than a
\* minute is made again in the background; without one the page waits.
OpenPage ==
    \/ /\ cache.status = "file" /\ shown' = cache
       /\ UNCHANGED <<reportVars, asker, began, cache>>
    \/ /\ cache.status = "file" /\ shown' = cache
       /\ Ask("background") /\ UNCHANGED cache
    \/ /\ cache.status = "none" /\ shown' = NoPage
       /\ Ask("page") /\ UNCHANGED cache

\* Another organization or year is chosen.
ChooseOther ==
    /\ shown.status # "none" /\ shown' = NoPage
    /\ UNCHANGED <<reportVars, asker, began, cache>>

\* DownloadButton, on the page of a report that could be made.
Download == shown.status = "file" /\ Ask("button") /\ UNCHANGED <<cache, shown>>

ReadOne(s) == ReadSection(s) /\ UNCHANGED <<asker, began, cache, shown>>

\* The export ends: a preview is kept and shown, an error is only shown.
Deliver ==
    /\ Answer /\ asker' = "none" /\ UNCHANGED began
    /\ LET page == IF answer'.status = "file"
                   THEN [status |-> "file", read |-> answer'.read,
                         profile |-> answer'.profile, since |-> began]
                   ELSE [NoPage EXCEPT !.status = "error"]
       IN  /\ cache' = IF asker # "button" /\ answer'.status = "file" THEN page ELSE cache
           /\ shown' = IF asker = "page" THEN page ELSE shown

EditBooks == EditTables /\ UNCHANGED <<asker, began, cache, shown>>

SheetNext ==
    \/ OpenPage \/ ChooseOther \/ Download \/ Deliver
    \/ \E s \in Sections : ReadOne(s)
    \/ EditBooks

SheetSpec == SheetInit /\ [][SheetNext]_sheetVars
---------------------------------------------------------------------------
(* Properties.                                                             *)

Totals(sheets) == SumFunction([x \in sheets |-> x.total])
Remainders(sheets) == SumFunction([x \in sheets |-> x.other])
RowsIn(sheets) == UNION {x.rows : x \in sheets}

\* The sheets of what was read agree with each other: a written total is its
\* rows and its written remainder, the items of sheet 13 are the totals of
\* sheets 14 and 15 and its subtotals are its items, sheet 02 is the written
\* sheets, and sheet 16 is the grant column of sheet 13
\* (report-serializer.ts:91).
SheetsAgree(read) ==
    LET data == Data(read)
        sheet == Sheet13(data)
        items(S) == SumFunction([s \in S \cap Sections |-> sheet.amount[s]])
        totals(S) == SumFunction([s \in S \cap Sections |-> Totals(Written(data, s))])
    IN  /\ \A s \in Sections \ {Personnel} :
               Totals(Written(data, s)) =
                   SumRows({r \in RowsIn(Written(data, s)) : ~r.subtotal})
                   + Remainders(Written(data, s))
        /\ \A s \in (Routine \cup Political) \cap Sections :
               sheet.amount[s] = Totals(Written(data, s))
        /\ sheet.regular = items(Routine \cup {Personnel})
        /\ sheet.political = items(Political)
        /\ sheet.business = items(Business)
        /\ sheet.total = sheet.regular + sheet.political
        /\ Sheet02(data).income = totals(IncomeSections)
        /\ Sheet02(data).gifts = totals({Donation})
        /\ SumFunction(sheet.grant) = Sheet16(data).total

\* The sheets of one file add up, whatever was edited meanwhile: its sections do
\* (SheetsReconcile), and what is written of them does, if no amount is
\* negative.
FileReconciles ==
    /\ SheetsReconcile
    /\ Filed /\ Nonnegative(answer.read) => SheetsAgree(answer.read)

\* The file the button delivers is the preview beside it, unless something was
\* written since that preview was made: the same sheets, and panels that show
\* what the sheets say, though two exports made them and the tables and the
\* file come from different code (ReportDataPreview.tsx, report-serializer.ts).
FiledAsShown ==
    [][asker = "button" /\ asker' = "none" /\ answer'.status = "file"
          /\ shown.status = "file" /\ shown.since = edits =>
        LET data == Data(answer'.read)
            seen == Data(shown.read)
            panel == Tables(seen)
        IN  /\ shown.profile = answer'.profile
            /\ Sheet02(data) = SummaryPanel(seen)
            /\ \A s \in Sections \ {Personnel} :
                 LET sheets == Written(data, s)
                 IN  /\ sheets = Written(seen, s)
                     /\ panel[s].rows = RowsIn(sheets)
                     /\ IF sheets = {} THEN panel[s].total <= 0
                                       ELSE panel[s].total = Totals(sheets)
                     /\ Nonnegative(shown.read) =>
                          panel[s].other = Remainders(sheets)]_sheetVars
=============================================================================
