------------------------------ MODULE MCReport ------------------------------
(***************************************************************************)
(* The yearly report and its profile.  They meet in the rows of profiles,  *)
(* which the report has a save of among its own edits; a behaviour follows *)
(* one of them.  A year has two or three transactions and one edit, which  *)
(* falls anywhere around the export for the preview and the one for the    *)
(* download.  The profile has two years and two browsers, over a row that  *)
(* is almost full.                                                         *)
(***************************************************************************)
EXTENDS Sheets, Profile, TLC

CONSTANTS t1, t2, t3, d1, c1, b1, b2

VARIABLE part

(* Thresholds: 2 (donations, exceeded), 4 (routine) and 2 (political).     *)

ReportLine(type, cat, friendly, debit, credit) ==
    [type |-> type, cat |-> cat, friendly |-> friendly, debit |-> debit, credit |-> credit]
Gift(n) == ReportLine("income", Donation, "gift", n, n)
Refund == ReportLine("expense", Donation, "refund", 3, 3)
Borrowing == ReportLine("income", "loans", Blank, 1, 1)
Office(n) == ReportLine("expense", "office-expenses", "rent", n, n)
Travel(n) == ReportLine("expense", "organizational-activities", "travel", n, n)
OneSided == ReportLine("expense", "organizational-activities", Blank, 0, 2)
Salary == ReportLine("expense", Personnel, "salary", 1, 1)
MCLines == {Gift(2), Gift(3), Refund, Borrowing, Office(4), Travel(2), Travel(-3),
            OneSided, Salary}
MCSections == {Donation, "loans", "office-expenses", "organizational-activities", Personnel}

Given(n) == [Row(Gift(n)) EXCEPT !.donor = d1]
Paid(l, g) == [Row(l) EXCEPT !.counterpart = c1, !.grant = g]
MCBooks == {(t1 :> Given(2) @@ t2 :> Given(2) @@ t3 :> Paid(Office(4), TRUE)),
            (t1 :> Row(Gift(3)) @@ t2 :> Paid(Borrowing, FALSE)),
            (t1 :> Row(Travel(2)) @@ t2 :> Row(Salary)),
            (t1 :> Row(Gift(2)) @@ t2 :> Row(Gift(2)))}

---------------------------------------------------------------------------

Full == [basic |-> "a", officers |-> None, area |-> None, contacts |-> <<"a", "a", "a">>,
         fund |-> [on |-> TRUE, periods |-> <<"a">>],
         diet |-> [type |-> "1", members |-> <<"a">>, periods |-> <<>>]]
MCFirst == {<<>>, 2024 :> Full}
MCSymmetry == Permutations(Browsers)

---------------------------------------------------------------------------

MCInit ==
    /\ part \in {"report", "profile"}
    /\ SheetInit /\ ProfileInit
    /\ part # "report" => books = (CHOOSE b \in Books : TRUE) /\ profile = "filled"
    /\ part # "profile" => profiles = <<>>

MCNext ==
    \/ part = "report" /\ SheetNext /\ UNCHANGED <<part, profileVars>>
    \/ part = "profile" /\ ProfileNext /\ UNCHANGED <<part, sheetVars>>

MCSpec == MCInit /\ [][MCNext]_<<part, sheetVars, profileVars>>
=============================================================================
