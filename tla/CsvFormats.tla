---------------------------- MODULE CsvFormats ----------------------------
(***************************************************************************)
(* The CSV files of six banks and cards: which institution a file is taken *)
(* for and what its lines are read as, by the api (api/src/csv) and by the *)
(* command line tool (cli/src).                                            *)
(*                                                                         *)
(* A column is what it means (role) and the words its title contains; a    *)
(* line is what happened: a day written in some style, a signed amount and *)
(* the words of its text.  The cells follow from both.  Of a text only the *)
(* words that a detector looks for are kept; balances, memos, categories   *)
(* and the encodings are left out.                                         *)
(***************************************************************************)
EXTENDS Integers, Sequences

LOCAL INSTANCE FiniteSetsExt
LOCAL INSTANCE SequencesExt

CONSTANTS
    Sheets,    \* CSV files: institution, the programs whose comments give the
               \* layout, header and rows
    NoResult,  \* nothing read yet
    Failed     \* the file is refused

VARIABLE reading   \* the file at hand and what each program made of it

Banks == {"rakuten_bank", "smbc", "sbi"}
Cards == {"smbc_olive", "rakuten_card", "jcb"}
Roles == {"date", "text", "signed", "in", "out", "amount", "balance", "other"}
Styles == {"slash", "short", "compact", "none"}

ASSUME CsvAssumption ==
    \A s \in Sheets :
        /\ s.institution \in Banks \cup Cards /\ s.layout \subseteq {"api", "cli"}
        /\ \A i \in DOMAIN s.header : s.header[i].role \in Roles
        /\ \A i \in DOMAIN s.rows : s.rows[i].style \in Styles /\ s.rows[i].n \in Int \ {0}

---------------------------------------------------------------------------
(* Detection: an institution needs a word of every set, and none forbidden.*)

Rule(institution, words, without) ==
    [institution |-> institution, words |-> words, without |-> without]

\* detect_institution of the api.
ApiRules ==
    <<Rule("rakuten_bank", {{"traded"}, {"in and out"}, {"balance after"}}, {}),
      Rule("smbc", {{"withdrawn", "deposited"}}, {"olive"}),
      Rule("sbi", {{"amount out"}, {"amount in"}, {"balance"}}, {}),
      Rule("smbc_olive", {{"your day of use"}, {"your place"}, {"your amount"}}, {}),
      Rule("rakuten_card", {{"day of use"}, {"shop"}}, {}),
      Rule("jcb", {{"your date of use"}, {"your place"}}, {})>>

\* detect_institution of the cli.
CliRules ==
    <<Rule("rakuten_bank", {{"balance after", "in and out"}}, {}),
      Rule("sbi", {{"amount out"}, {"amount in"}, {"balance"}}, {}),
      Rule("smbc", {{"your trade day"}, {"withdrawn", "deposited"}}, {}),
      Rule("smbc_olive", {{"your day of use"}, {"your place"}}, {}),
      Rule("rakuten_card", {{"day of use"}, {"shop"}}, {}),
      Rule("jcb", {{"your date of use", "your place"}, {"your date of use", "paid"}}, {})>>

Fits(rule, words) ==
    (\A S \in rule.words : S \cap words # {}) /\ rule.without \cap words = {}
Detect(rules, words) ==
    LET fitting == {i \in DOMAIN rules : Fits(rules[i], words)}
    IN  IF fitting = {} THEN Failed ELSE rules[Min(fitting)].institution

HeaderWords(sheet) == UNION {sheet.header[i].words : i \in DOMAIN sheet.header}

\* The api looks at three lines: the texts of the first two entries count.
FirstWords(sheet) ==
    HeaderWords(sheet) \cup UNION {sheet.rows[i].words : i \in DOMAIN sheet.rows \cap 1..2}

---------------------------------------------------------------------------
(* Cells.                                                                  *)

Blank == [kind |-> "blank"]
Number(n, yen) == IF n = 0 THEN Blank ELSE [kind |-> "number", n |-> n, yen |-> yen]
Surplus(n) == IF n > 0 THEN n ELSE 0

\* What stands under a column of the role: a bank has one signed amount or two
\* columns, a card one amount that is positive when money is spent.
CellOf(row, role) ==
    CASE role = "date" -> IF row.style = "none" THEN Blank
                          ELSE [kind |-> "date", day |-> row.day, style |-> row.style]
      [] role = "text" -> [kind |-> "text", words |-> row.words]
      [] role = "signed" -> [kind |-> "number", n |-> row.n, yen |-> row.yen]
      [] role = "in" -> Number(Surplus(row.n), row.yen)
      [] role = "out" -> Number(Surplus(-row.n), row.yen)
      [] role = "amount" -> Number(-row.n, row.yen)
      [] role \in {"balance", "other"} -> [kind |-> "text", words |-> {}]

\* Column 0 is one that was not found.
Cell(header, row, i) == IF i \in DOMAIN header THEN CellOf(row, header[i].role) ELSE Blank

\* find_column: the first title that contains one of the words.
Column(header, words) ==
    LET found == {i \in DOMAIN header : header[i].words \cap words # {}}
    IN  IF found = {} THEN 0 ELSE Min(found)

Magnitude(n) == IF n < 0 THEN -n ELSE n
WordsIn(cell) == IF cell.kind = "text" THEN cell.words ELSE {}

\* A ParsedRecord: day and amount are kept as they are written, so that what
\* is no date or number is found out when it is stored; yen tells that the sign
\* of the currency was left in.
ParsedRecord(date, type, amount, text) ==
    [day |-> IF date.kind = "date" THEN date.day ELSE 0,
     style |-> IF date.kind = "date" THEN date.style ELSE "none",
     type |-> type,
     amount |-> IF amount.kind = "number" THEN amount.n ELSE 0,
     yen |-> amount.kind = "number" /\ amount.yen,
     words |-> WordsIn(text)]

Unsigned(cell, stripsYen) ==
    IF cell.kind = "number"
    THEN [cell EXCEPT !.n = Magnitude(@), !.yen = @ /\ ~stripsYen] ELSE cell
Slashed(cell) == IF cell.kind = "date" THEN [cell EXCEPT !.style = "slash"] ELSE cell

---------------------------------------------------------------------------
(* The parsers of the api.  Each makes none or one record of a line.       *)

\* The withdrawal counts when there is one, else the deposit.
BankRecord(date, text, withdrawal, deposit) ==
    IF date.kind = "blank" \/ (withdrawal.kind = "blank" /\ deposit.kind = "blank") THEN <<>>
    ELSE IF withdrawal.kind # "blank"
    THEN <<ParsedRecord(date, "expense", withdrawal, text)>>
    ELSE <<ParsedRecord(date, "income", deposit, text)>>

\* The sign is dropped: the use of a card is always an expense.
CardRecord(date, text, amount, stripsYen) ==
    IF date.kind = "blank" \/ amount.kind = "blank" THEN <<>>
    ELSE <<ParsedRecord(date, "expense", Unsigned(amount, stripsYen), text)>>

Named(h, row, words) == Cell(h, row, Column(h, words))

SmbcRecord(h, row) ==
    BankRecord(Named(h, row, {"ymd", "date"}), Named(h, row, {"handled", "remark", "content"}),
               Named(h, row, {"withdrawn", "draw", "out"}),
               Named(h, row, {"deposited", "put", "in"}))

\* Mutant: the deposit is looked for where the withdrawal stands.
SbiRecord_Exchanged(h, row) ==
    IF Len(h) < 5 THEN <<>>
    ELSE BankRecord(Cell(h, row, 1), Cell(h, row, 2), Cell(h, row, 4), Cell(h, row, 3))

SbiRecord(h, row) ==
    IF Len(h) < 5 THEN <<>>
    ELSE BankRecord(Cell(h, row, 1), Cell(h, row, 2), Cell(h, row, 3), Cell(h, row, 4))

\* By position; eight digits make a date, the sign makes the type.
RakutenBankRecord(h, row) ==
    LET date == Cell(h, row, 1)
        amount == Cell(h, row, 2)
    IN  IF Len(h) < 4 THEN <<>>
        ELSE IF amount.kind # "number" THEN <<Failed>>
        ELSE IF amount.yen THEN <<Failed>>
        ELSE <<ParsedRecord(IF row.style = "compact" THEN Slashed(date) ELSE date,
                            IF amount.n >= 0 THEN "income" ELSE "expense",
                            Unsigned(amount, FALSE), Cell(h, row, 4))>>

OliveRecord(h, row) ==
    CardRecord(Named(h, row, {"your day of use", "day of use"}),
               Named(h, row, {"your place", "place"}),
               Named(h, row, {"your amount", "amount"}), TRUE)

RakutenCardRecord(h, row) ==
    CardRecord(Named(h, row, {"day of use"}), Named(h, row, {"shop", "goods"}),
               Named(h, row, {"amount"}), FALSE)

JcbRecord(h, row) ==
    CardRecord(Named(h, row, {"your date of use", "day of use"}),
               Named(h, row, {"your place", "place"}),
               Named(h, row, {"your amount", "your payment", "amount"}), TRUE)

\* parse: one parser for each institution.
RecordOf(institution, h, row) ==
    CASE institution = "rakuten_bank" -> RakutenBankRecord(h, row)
      [] institution = "smbc" -> SmbcRecord(h, row)
      [] institution = "sbi" -> SbiRecord(h, row)
      [] institution = "smbc_olive" -> OliveRecord(h, row)
      [] institution = "rakuten_card" -> RakutenCardRecord(h, row)
      [] institution = "jcb" -> JcbRecord(h, row)

\* One line that cannot be read refuses the file.
Whole(entries) == IF \E i \in DOMAIN entries : entries[i] = Failed THEN Failed ELSE entries

\* parse_csv, and import_csv up to its loop.
ApiParse(sheet) ==
    LET institution == Detect(ApiRules, FirstWords(sheet))
    IN  IF institution = Failed THEN Failed
        ELSE Whole(FlattenSeq([i \in DOMAIN sheet.rows |->
                                  RecordOf(institution, sheet.header, sheet.rows[i])]))

---------------------------------------------------------------------------
(* The parsers of the cli: by position for every institution.              *)

\* parse_amount: no amount is 0, the sign of the currency is dropped.
Readable(cell) == cell.kind \in {"blank", "number"}
AmountIn(cell) == IF cell.kind = "blank" THEN 0 ELSE cell.n

Unified(date, type, amount, text) ==
    <<ParsedRecord(Slashed(date), type, Unsigned(amount, TRUE), text)>>

\* rakuten_bank.rs, smbc.rs and sbi.rs: date, text, income, expense, memo.
CliBankRecord(h, row) ==
    LET date == Cell(h, row, 1)
        income == Cell(h, row, 3)
        expense == Cell(h, row, 4)
    IN  IF Len(h) < 5 THEN <<>>
        ELSE IF date.kind # "date" \/ ~Readable(income) \/ ~Readable(expense) THEN <<Failed>>
        ELSE IF AmountIn(income) > 0 THEN Unified(date, "income", income, Cell(h, row, 2))
        ELSE Unified(date, "expense", expense, Cell(h, row, 2))

\* smbc_olive.rs, rakuten_card.rs and jcb.rs: date, text, amount, memo.
CliCardRecord(h, row) ==
    LET date == Cell(h, row, 1)
        amount == Cell(h, row, 3)
    IN  IF Len(h) < 4 THEN <<>>
        ELSE IF date.kind # "date" \/ ~Readable(amount) THEN <<Failed>>
        ELSE Unified(date, IF AmountIn(amount) < 0 THEN "income" ELSE "expense",
                     amount, Cell(h, row, 2))

CliParse(sheet, institution) ==
    IF institution = Failed THEN Failed
    ELSE Whole(FlattenSeq([i \in DOMAIN sheet.rows |->
             IF institution \in Banks THEN CliBankRecord(sheet.header, sheet.rows[i])
                                      ELSE CliCardRecord(sheet.header, sheet.rows[i])]))

---------------------------------------------------------------------------
(* What is done with a file.                                               *)

\* POST /api/csv/preview.
PreviewCsv ==
    /\ reading.api = NoResult
    /\ reading' = [reading EXCEPT !.api = ApiParse(reading.sheet)]

\* convert --auto, and the first half of import.
ConvertDetected ==
    /\ reading.cli = NoResult
    /\ reading' = [reading EXCEPT !.cli =
           CliParse(reading.sheet, Detect(CliRules, HeaderWords(reading.sheet)))]

\* convert --bank with the bank the file is from.
ConvertAs ==
    /\ reading.cli = NoResult
    /\ reading' = [reading EXCEPT !.cli = CliParse(reading.sheet, reading.sheet.institution)]

CsvInit == reading \in [sheet : Sheets, api : {NoResult}, cli : {NoResult}]
CsvNext == PreviewCsv \/ ConvertDetected \/ ConvertAs

---------------------------------------------------------------------------
(* Properties.                                                             *)

\* What the dated rows say.  The api takes a card's refund for an expense, by
\* its comments, and makes a date of eight digits only for Rakuten Bank.
Meant(sheet, byApi) ==
    LET card == sheet.institution \in Cards
        dated == SelectSeq(sheet.rows, LAMBDA row : row.style # "none")
        kept == {"short"} \cup (IF sheet.institution = "rakuten_bank" THEN {} ELSE {"compact"})
    IN  [i \in DOMAIN dated |->
           LET row == dated[i]
           IN  [day |-> row.day,
                style |-> IF byApi /\ row.style \in kept THEN row.style ELSE "slash",
                type |-> IF row.n < 0 \/ (card /\ byApi) THEN "expense" ELSE "income",
                amount |-> Magnitude(row.n), yen |-> FALSE, words |-> row.words]]

\* A program that reads a file reads what it says, or nothing: a text may make
\* the api take the file for one of another institution, and the cli may lack
\* a column, but then the file is refused or has no records; amounts, sides
\* and days are never mixed up.  A file as the program's comments describe it
\* and without such a text is read whole.  Of the cli this holds of cards.
ReadAsMeant ==
    LET sheet == reading.sheet
        card == sheet.institution \in Cards
    IN  /\ reading.api \in {NoResult, Failed, <<>>, Meant(sheet, TRUE)}
        /\ card => reading.cli \in {NoResult, Failed, <<>>, Meant(sheet, FALSE)}
        /\ "api" \in sheet.layout /\ FirstWords(sheet) = HeaderWords(sheet)
           => reading.api \in {NoResult, Meant(sheet, TRUE)}
        /\ "cli" \in sheet.layout /\ card
              /\ (\A i \in DOMAIN sheet.rows : sheet.rows[i].style # "none")
           => reading.cli \in {NoResult, Meant(sheet, FALSE)}

\* What the cli's comments say of the columns of a bank (sbi: date, text,
\* withdrawals, deposits) and its code does not keep: no side is exchanged.
CliKeepsSides ==
    reading.cli \in {NoResult, Failed, <<>>, Meant(reading.sheet, FALSE)}
=============================================================================
