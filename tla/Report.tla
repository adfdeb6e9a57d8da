------------------------------- MODULE Report -------------------------------
(***************************************************************************)
(* The yearly report of one organization (admin/src/server/contexts/       *)
(* report): the queries of an export, the sections built from what they    *)
(* return, the sheets written to the file, and the edits of other pages    *)
(* that go on meanwhile.                                                   *)
(*                                                                         *)
(* XmlExportUsecase issues one query per section with Promise.all and no   *)
(* database transaction, so each query sees the tables as they are when it *)
(* runs, in any order, and an edit may fall between two of them.           *)
(*                                                                         *)
(* The order of rows, their numbering, remarks and texts are left out: a   *)
(* row is the transactions it stands for, its amount and which of its      *)
(* obligatory cells are filled.  Amounts are integers, as parseAmount of   *)
(* the converter makes them, negative ones included.                       *)
(***************************************************************************)
EXTENDS AccountCategories, Integers, FiniteSets, Functions

CONSTANTS
    Tx,                  \* transaction rows of the organization's year
    Lines,               \* what an import can write into a row
    Sections,            \* categories some line has and a sheet exists for
    Donors,              \* rows of donors
    Counterparts,        \* rows of counterparts
    Complete,            \* those with an address (and, a donor, an occupation)
    NoParty,             \* no donor or no counterpart
    Books,               \* the rows there may be at first
    DonationThreshold,   \* DONATION_DETAIL_THRESHOLD, 50,000 yen
    RoutineThreshold,    \* TEN_MAN_THRESHOLD, 100,000 yen
    PoliticalThreshold,  \* FIVE_MAN_THRESHOLD, 50,000 yen
    MaxEdits             \* bound on edits, uploads included

VARIABLES
    books,      \* the rows of transactions, with their links
    profile,    \* organization_report_profiles: "absent", "partial", "filled"
    export,     \* the export under way: its queries that have returned
    answer,     \* what the last step answered, if it ended an export
    edited,     \* transactions written since the export began
    edits       \* edits made so far

reportVars == <<books, profile, export, answer, edited, edits>>

\* An empty friendly category is the missing one.
Blank == ""

Row(l) == [line |-> l, donor |-> NoParty, counterpart |-> NoParty, grant |-> FALSE]
Rows == [line : Lines, donor : Donors \cup {NoParty},
         counterpart : Counterparts \cup {NoParty}, grant : BOOLEAN]

ASSUME ReportAssumption ==
    /\ Sections \subseteq ReportSections
    /\ \A l \in Lines : /\ l.type \in Types
                        /\ l.debit \in Int /\ l.credit \in Int
                        /\ l.cat \in ReportSections => l.cat \in Sections
    /\ Complete \subseteq Donors \cup Counterparts
    /\ NoParty \notin Donors \cup Counterparts
    /\ \A b \in Books : \A t \in DOMAIN b : t \in Tx /\ b[t] \in Rows
    /\ {DonationThreshold, RoutineThreshold, PoliticalThreshold} \subseteq Nat \ {0}
    /\ IsFiniteSet(Tx)
    /\ MaxEdits \in Nat

---------------------------------------------------------------------------
(* The queries and the amounts.                                            *)

Belongs(row, s) == row.line.cat = s /\ row.line.type = TypeOfSection(s)

\* findXxxTransactions: the rows of the organization's year with the type and
\* the category of the section, with the first donor or counterpart linked.
Found(s) == [t \in {u \in DOMAIN books : Belongs(books[u], s)} |-> books[t]]

\* resolveIncomeAmount prefers the credit side, resolveExpenseAmount the debit.
ResolveIncomeAmount(l) == IF l.credit > 0 THEN l.credit ELSE l.debit
ResolveExpenseAmount(l) == IF l.debit > 0 THEN l.debit ELSE l.credit
Amount(row, s) == IF s \in IncomeSections THEN ResolveIncomeAmount(row.line)
                                          ELSE ResolveExpenseAmount(row.line)

\* calculateGroupTotal and the other sums over transactions.
Total(found, s, T) == SumFunction([t \in T |-> Amount(found[t], s)])

---------------------------------------------------------------------------
(* The sections.                                                           *)

\* The obligatory cells of a detail row that are filled: the purpose comes
\* from the friendly category, name and address from the link.
Named(party) == IF party = NoParty THEN {} ELSE {"name"}
Described(party) == IF party \in Complete THEN {"address", "occupation"} ELSE {}
Purpose(row) == IF row.line.friendly = Blank THEN {} ELSE {"purpose"}

DetailRow(found, s, t) ==
    LET party == IF s = Donation THEN found[t].donor ELSE found[t].counterpart
    IN  [section |-> s, txs |-> {t}, amount |-> Amount(found[t], s), subtotal |-> FALSE,
         filled |-> Named(party) \cup Described(party) \cup Purpose(found[t]),
         koufukin |-> s \in Routine \cup Political /\ found[t].grant]

Section(found, s, T, listed, himoku, extra) ==
    [himoku |-> himoku, total |-> Total(found, s, T),
     other |-> Total(found, s, T \ listed),
     rows |-> {DetailRow(found, s, t) : t \in listed} \cup extra]

\* Mutant: a threshold that must be exceeded.
Reaching_Exceeding(found, s, T, threshold) == {t \in T : Amount(found[t], s) > threshold}

\* isAboveThreshold: the transactions with a row of their own.
Reaching(found, s, T, threshold) == {t \in T : Amount(found[t], s) >= threshold}

\* Mutant: the unassigned gifts are grouped as one donor's.
Gifts_Together(found, t) == {u \in DOMAIN found : found[u].donor = found[t].donor}

\* groupByDonorId: the gifts of one donor, each unassigned gift on its own.
Gifts(found, t) ==
    {u \in DOMAIN found : u = t \/ /\ found[u].donor # NoParty
                                   /\ found[u].donor = found[t].donor}

\* PersonalDonationSection.fromTransactions: the donors whose year exceeds the
\* threshold are listed gift by gift, two or more gifts with a subtotal row.
DonationSection(found) ==
    LET groups == {Gifts(found, t) : t \in DOMAIN found}
        target == {g \in groups : Total(found, Donation, g) > DonationThreshold}
        subtotals == {[section |-> Donation, txs |-> g,
                       amount |-> Total(found, Donation, g), subtotal |-> TRUE,
                       filled |-> {"name"}, koufukin |-> FALSE]
                        : g \in {h \in target : Cardinality(h) >= 2}}
    IN  Section(found, Donation, DOMAIN found, UNION target, Blank, subtotals)

\* BusinessIncome, Loan and GrantIncome list everything.
ListedSection(found, s) == Section(found, s, DOMAIN found, DOMAIN found, Blank, {})

\* OtherIncomeSection and aggregateExpenseSection: 100,000 yen or more.
RoutineSection(found, s) ==
    Section(found, s, DOMAIN found,
            Reaching(found, s, DOMAIN found, RoutineThreshold), Blank, {})

\* PersonnelExpenseSection has a total and no rows.
PersonnelSection(found) ==
    [himoku |-> Blank, total |-> Total(found, Personnel, DOMAIN found),
     other |-> 0, rows |-> {}]

\* aggregatePoliticalActivitySections: one section per friendly category,
\* with the rows of 50,000 yen or more.
PoliticalSections(found, s) ==
    {LET T == {t \in DOMAIN found : found[t].line.friendly = h}
     IN  Section(found, s, T, Reaching(found, s, T, PoliticalThreshold), h, {})
       : h \in {found[t].line.friendly : t \in DOMAIN found}}

SectionsOf(found, s) ==
    CASE s = Donation -> {DonationSection(found)}
      [] s \in ListedIncome -> {ListedSection(found, s)}
      [] s \in Routine \cup {OtherIncome} -> {RoutineSection(found, s)}
      [] s \in Political -> PoliticalSections(found, s)
      [] s = Personnel -> {PersonnelSection(found)}

\* shouldOutputSheet of every section but personnel costs.
HasContent(section) == section.rows # {} \/ section.total > 0

Sum(sections) == SumFunction([x \in sections |-> x.total])
SumRows(R) == SumFunction([r \in R |-> r.amount])
---------------------------------------------------------------------------
(* The data of the report and its sheets.                                  *)

\* The assemblers: the sections of every category the instance has.
Data(read) == [s \in Sections |-> SectionsOf(read[s], s)]

Output(data, S) == \E s \in S \cap Sections : \E x \in data[s] : HasContent(x)
SumOver(data, S) == SumFunction([s \in S \cap Sections |-> Sum(data[s])])

RowsOf(data, S) == UNION {UNION {x.rows : x \in data[s]} : s \in S \cap Sections}

\* GrantExpenditureSection.fromExpenseSections: the rows of sheets 14 and 15
\* that carry the flag.
GrantRows(data) == {r \in RowsOf(data, Routine \cup Political) : r.koufukin}

\* Mutant: personnel costs do not count for digit 13.
Flags_NoPersonnel(data) ==
    {s \in Sections \ {Personnel} : Output(data, {s})}
    \cup {"01", "02"}
    \cup (IF Output(data, Routine \cup Political) THEN {"13"} ELSE {})
    \cup (IF GrantRows(data) # {} THEN {"16"} ELSE {})

\* buildSyuushiUmuFlg: the digits that are 1, named by category or form.
Flags(data) ==
    {s \in Sections \ {Personnel} : Output(data, {s})}
    \cup {"01", "02"}
    \cup (IF \/ SumOver(data, {Personnel}) > 0
             \/ Output(data, Routine) \/ Output(data, Political)
          THEN {"13"} ELSE {})
    \cup (IF GrantRows(data) # {} THEN {"16"} ELSE {})

\* getSummary, with a carry-over of 0 from the year before.
Summary(data) ==
    LET income == SumOver(data, IncomeSections)
        expense == SumOver(data, Routine) + SumOver(data, Political)
    IN  [income |-> income, expense |-> expense, carried |-> income - expense]

\* ExpenseSummaryData.fromExpenseData: amount and grant amount of every item,
\* and the total with personnel costs.
ExpenseSummary(data) ==
    LET expenses == Sections \ IncomeSections
        granted(s) == SumRows({r \in RowsOf(data, {s}) : r.koufukin})
    IN  [amount |-> [s \in expenses |-> Sum(data[s])],
         grant |-> [s \in expenses |-> granted(s)],
         total |-> SumOver(data, Routine \cup Political \cup {Personnel})]

\* serializeReportData: the forms written after the flags.
FormOf(s) == CASE s = Donation -> "07" [] s = "publication-income" -> "03"
               [] s = "loans" -> "04" [] s = "grants" -> "05"
               [] s = OtherIncome -> "06" [] s \in Routine -> "14"
               [] s \in Political -> "15" [] s = Personnel -> "13"

Forms(data) ==
    {"01", "02"}
    \cup {FormOf(s) : s \in {i \in IncomeSections \cap Sections : Output(data, {i})}}
    \cup {f \in {"14"} : Output(data, Routine)}
    \cup {f \in {"13"} : ExpenseSummary(data).total > 0}
    \cup {f \in {"15"} : Output(data, Political)}
    \cup {f \in {"16"} : GrantRows(data) # {}}

\* The obligatory cells of a detail row, by section.
Obligatory(s) ==
    CASE s = Donation -> {"name", "address", "occupation"}
      [] s \in {"publication-income", OtherIncome} -> {"purpose"}
      [] s = "loans" -> {"name"}
      [] s = "grants" -> {"name", "address"}
      [] s \in Routine \cup Political -> {"purpose", "name", "address"}

\* The validators of the sections: every row but the subtotals, whose obligatory
\* cells must be filled and amount positive.
RowErrors(data) ==
    {r \in RowsOf(data, Sections) :
        /\ ~r.subtotal
        /\ ~(Obligatory(r.section) \subseteq r.filled) \/ r.amount <= 0}

\* OrganizationReportProfile.validate.
ProfileErrors(prof) == IF prof = "filled" THEN {} ELSE {"profile"}

\* ReportData.validate, which no handler calls.
Errors(data, prof) == RowErrors(data) \cup ProfileErrors(prof)

---------------------------------------------------------------------------
(* The export and the edits around it.                                     *)

NoExport == [pc |-> "idle", profile |-> "none", read |-> <<>>]
NoAnswer == [status |-> "none", read |-> <<>>, profile |-> "none"]

ReportInit ==
    /\ books \in Books /\ profile \in {"absent", "filled"}
    /\ export = NoExport /\ answer = NoAnswer
    /\ edited = {} /\ edits = 0

\* GET /api/export-report: the Promise.all of assembleReportData.  The query
\* of the profile is taken to return first, since no edit writes both the
\* profile and a transaction.
StartExport ==
    /\ export.pc = "idle"
    /\ export' = [pc |-> "reading", profile |-> profile, read |-> <<>>]
    /\ edited' = {} /\ answer' = NoAnswer
    /\ UNCHANGED <<books, profile, edits>>

\* The query of one section returns.
ReadSection(s) ==
    /\ export.pc = "reading" /\ s \notin DOMAIN export.read
    /\ export' = [export EXCEPT !.read =
                    [x \in DOMAIN @ \cup {s} |-> IF x = s THEN Found(s) ELSE @[x]]]
    /\ answer' = NoAnswer
    /\ UNCHANGED <<books, profile, edited, edits>>

\* Every query has returned: an error without a profile, else the file.
Answer ==
    /\ export.pc = "reading" /\ DOMAIN export.read = Sections
    /\ answer' = IF export.profile = "absent"
                 THEN [NoAnswer EXCEPT !.status = "error"]
                 ELSE [status |-> "file", read |-> export.read,
                       profile |-> export.profile]
    /\ export' = NoExport
    /\ UNCHANGED <<books, profile, edited, edits>>

Edit(T) ==
    /\ edits < MaxEdits /\ edits' = edits + 1
    /\ edited' = edited \cup T /\ answer' = NoAnswer
    /\ UNCHANGED export

\* createMany of an import: new rows, without links and flag.
InsertLines(load) ==
    /\ DOMAIN load # {} /\ DOMAIN load \cap DOMAIN books = {}
    /\ books' = [t \in DOMAIN books \cup DOMAIN load |->
                    IF t \in DOMAIN load THEN Row(load[t]) ELSE books[t]]
    /\ UNCHANGED profile
    /\ Edit(DOMAIN load)

\* update of an import: the line is replaced, links and flag stay.
OverwriteLine(t, l) ==
    /\ t \in DOMAIN books
    /\ books' = [books EXCEPT ![t].line = l]
    /\ UNCHANGED profile
    /\ Edit({t})

\* deleteAll of the organization; the links go with the rows.
DeleteAll ==
    /\ DOMAIN books # {}
    /\ books' = <<>>
    /\ UNCHANGED profile
    /\ Edit(DOMAIN books)

\* replaceMany of transaction_donors and transaction_counterparts: one
\* database transaction that fails as a whole when a trigger refuses a row.
AssignDonor(T, d) ==
    /\ T # {} /\ T \subseteq DOMAIN books
    /\ \A t \in T : DonorSuits(books[t].line, "individual")
    /\ books' = [t \in DOMAIN books |->
                    IF t \in T THEN [books[t] EXCEPT !.donor = d] ELSE books[t]]
    /\ UNCHANGED profile
    /\ Edit(T)

AssignCounterpart(T, c) ==
    /\ T # {} /\ T \subseteq DOMAIN books
    /\ \A t \in T : CounterpartSuits(books[t].line)
    /\ books' = [t \in DOMAIN books |->
                    IF t \in T THEN [books[t] EXCEPT !.counterpart = c] ELSE books[t]]
    /\ UNCHANGED profile
    /\ Edit(T)

\* updateGrantExpenditureFlag, for expenses only.
UpdateGrantExpenditureFlag(t, flag) ==
    /\ t \in DOMAIN books /\ books[t].line.type = "expense"
    /\ books' = [books EXCEPT ![t].grant = flag]
    /\ UNCHANGED profile
    /\ Edit({t})

\* SaveOrganizationProfileUsecase: create or overlay the columns of the form.
SaveProfile(p) ==
    /\ profile' = p
    /\ UNCHANGED books
    /\ Edit({})

\* The edits of the other pages.
EditTables ==
    \/ \E T \in SUBSET Tx : \E load \in [T -> Lines] : InsertLines(load)
    \/ \E t \in Tx, l \in Lines : OverwriteLine(t, l)
    \/ DeleteAll
    \/ \E T \in SUBSET Tx :
          \/ \E d \in Donors : AssignDonor(T, d)
          \/ \E c \in Counterparts \cup {NoParty} : AssignCounterpart(T, c)
    \/ \E t \in Tx, flag \in BOOLEAN : UpdateGrantExpenditureFlag(t, flag)
    \/ \E p \in {"partial", "filled"} : SaveProfile(p)

ReportNext ==
    \/ StartExport \/ Answer
    \/ \E s \in Sections : ReadSection(s)
    \/ EditTables

ReportSpec == ReportInit /\ [][ReportNext]_reportVars
---------------------------------------------------------------------------
(* What the pages ask for.                                                 *)

\* Mutant: thresholds that must be exceeded, as for donations.
RequiresCounterpartDetail_Exceeding(row) ==
    \/ \E s \in {"loans", "grants"} : Belongs(row, s) /\ row.line.debit >= 0
    \/ \E s \in Routine : Belongs(row, s) /\ row.line.debit > RoutineThreshold
    \/ \E s \in Political : Belongs(row, s) /\ row.line.debit > PoliticalThreshold

\* requiresCounterpartDetail, with the debit amount the pages pass to it: the
\* transactions the assignment page asks a counterpart for.
RequiresCounterpartDetail(row) ==
    \/ \E s \in {"loans", "grants"} : Belongs(row, s) /\ row.line.debit >= 0
    \/ \E s \in Routine : Belongs(row, s) /\ row.line.debit >= RoutineThreshold
    \/ \E s \in Political :
          Belongs(row, s) /\ row.line.debit >= PoliticalThreshold

---------------------------------------------------------------------------
(* Properties.                                                             *)

\* The rows and their links, the profile, and the state of the export.
ReportTypeOK ==
    /\ DOMAIN books \subseteq Tx /\ \A t \in DOMAIN books : books[t] \in Rows
    /\ profile \in {"absent", "partial", "filled"}
    /\ export.pc \in {"idle", "reading"}
    /\ export.profile \in {"none", "absent", "partial", "filled"}
    /\ DOMAIN export.read \subseteq Sections
    /\ \A s \in DOMAIN export.read : \A t \in DOMAIN export.read[s] :
          t \in Tx /\ export.read[s][t] \in Rows /\ Belongs(export.read[s][t], s)
    /\ answer.status \in {"none", "error", "file"}
    /\ edited \subseteq Tx /\ edits \in 0..MaxEdits

Filed == answer.status = "file"

Nonnegative(read) == \A s \in DOMAIN read : \A t \in DOMAIN read[s] :
                        Amount(read[s][t], s) >= 0

\* The digits of SYUUSHI_UMU_FLG say which forms follow and which parts of
\* forms 14 and 15 have content; form 13, which is decided by its total, agrees
\* with its digit unless an amount is negative (report-data.ts:258 against
\* report-serializer.ts:93 and expense-summary.ts:276).
FlagsMatchForms ==
    Filed => LET data == Data(answer.read)
                 flags == Flags(data)
             IN  /\ Forms(data) \ {"13"} =
                        (flags \cap {"01", "02", "16"})
                        \cup {FormOf(s) : s \in flags \cap Sections}
                 /\ Nonnegative(answer.read) =>
                        ("13" \in flags <=> "13" \in Forms(data))

Details(data, s) == {r \in RowsOf(data, {s}) : ~r.subtotal}

\* The sheets of one file add up, whatever was edited meanwhile: the total of a
\* section is its rows and its remainder, the subtotals of sheet 07 repeat
\* their rows and nothing else, and the grant column of sheet 13 is sheet 16.
SheetsReconcile ==
    Filed => LET data == Data(answer.read)
                 subtotals == {r \in RowsOf(data, Sections) : r.subtotal}
                 summary == ExpenseSummary(data)
             IN  /\ \A s \in Sections \ {Personnel} :
                        Sum(data[s]) = SumRows(Details(data, s))
                                       + SumFunction([x \in data[s] |-> x.other])
                 /\ \A r \in subtotals :
                        /\ r.amount = SumRows({d \in Details(data, Donation) :
                                                d.txs \subseteq r.txs})
                        /\ \A q \in subtotals \ {r} : q.txs \cap r.txs = {}
                 /\ SumFunction(summary.grant) = SumRows(GrantRows(data))

\* A donor whose gifts of the year exceed the threshold is listed gift by gift,
\* any other donor not at all: a gift is never listed while another gift of the
\* same donor is in the remainder (donation-transaction.ts:300).
DonorListedWhole ==
    Filed /\ Donation \in Sections =>
        LET found == answer.read[Donation]
            listed == UNION {r.txs : r \in Details(Data(answer.read), Donation)}
        IN  /\ \A d \in Donors :
                 LET gifts == {t \in DOMAIN found : found[t].donor = d}
                     given == SumFunction([t \in gifts |-> ResolveIncomeAmount(found[t].line)])
                 IN  gifts \cap listed = IF given > DonationThreshold THEN gifts ELSE {}
            /\ \A t \in DOMAIN found : found[t].donor = NoParty =>
                 (t \in listed <=>
                    ResolveIncomeAmount(found[t].line) > DonationThreshold)

\* The details the pages ask for are all the report needs: when every
\* transaction marked as requiring a counterpart has a complete one, every
\* donor assigned is complete and every gift has a donor, every purpose is
\* there and the profile is filled, validation finds nothing, unless an amount
\* stands only on the other side or is not positive.
DetailsSuffice ==
    Filed =>
        LET rows == UNION {{answer.read[s][t] : t \in DOMAIN answer.read[s]} : s \in Sections}
            asked == /\ \A r \in rows : /\ r.line.debit > 0 /\ r.line.credit > 0
                                         /\ r.line.friendly # Blank
                                         /\ (Belongs(r, Donation) => r.donor \in Complete)
                                         /\ (RequiresCounterpartDetail(r)
                                               => r.counterpart \in Complete)
                     /\ answer.profile = "filled"
        IN  asked => Errors(Data(answer.read), answer.profile) = {}

\* Whether the rows of a transaction are listed whatever else there is.
Listed(row) ==
    \E s \in Sections \ {Personnel} :
        /\ Belongs(row, s)
        /\ CASE s \in ListedIncome -> TRUE
             [] s = Donation -> /\ row.donor = NoParty
                                /\ Amount(row, s) > DonationThreshold
             [] s \in Routine \cup {OtherIncome} -> Amount(row, s) >= RoutineThreshold
             [] s \in Political -> Amount(row, s) >= PoliticalThreshold

BooksTotal(S) ==
    SumFunction([s \in S \cap Sections |->
              SumFunction([t \in {u \in DOMAIN books : Belongs(books[u], s)} |->
                        Amount(books[t], s)])])

\* An export reports every transaction that nobody wrote to since it began:
\* one row, with the amount it has now, when it must be listed, and never two;
\* and if nothing at all was written, its totals are those of the books.
ExportReportsUnedited ==
    [][export.pc = "reading" /\ export'.pc = "idle" /\ answer'.status = "file" =>
        LET data == Data(answer'.read)
            rows(t) == {r \in RowsOf(data, Sections) : ~r.subtotal /\ r.txs = {t}}
        IN  /\ \A t \in DOMAIN books \ edited :
                 /\ Cardinality(rows(t)) <= 1
                 /\ Listed(books[t]) =>
                      \E r \in rows(t) : /\ r.amount = Amount(books[t], r.section)
                                         /\ Belongs(books[t], r.section)
            /\ edited = {} =>
                 /\ Summary(data).income = BooksTotal(IncomeSections)
                 /\ ExpenseSummary(data).total
                        = BooksTotal(Routine \cup Political \cup {Personnel})]_reportVars

\* report-data.ts:386: the total expenditure of the summary is routine plus
\* political expenses, and sheet 13 counts personnel costs among the routine
\* ones: the two totals of a report agree.
ExpenseTotalsAgree ==
    Filed => Summary(Data(answer.read)).expense
                = ExpenseSummary(Data(answer.read)).total
=============================================================================
