------------------------- MODULE AccountCategories -------------------------
(***************************************************************************)
(* The categories of the ledger as the admin application sorts them        *)
(* (shared/accounting/account-category.ts) and the rules for the donor and *)
(* the counterpart of a transaction: those of the pages                    *)
(* (donor-assignment-rules.ts, counterpart-assignment-rules.ts) and those  *)
(* of the triggers on the link tables.  A line is what an import writes    *)
(* into a transaction; only its type and category matter here.             *)
(***************************************************************************)

\* The type comes from the side of the cash account and the category from the
\* other account, so a refunded donation is an expense with an income category.
Types == {"income", "expense"}

Donation == "individual-donations"
ListedIncome == {"publication-income", "loans", "grants"}
OtherIncome == "other-income"
IncomeSections == {Donation, OtherIncome} \cup ListedIncome
Routine == {"utilities", "equipment-supplies", "office-expenses"}
Political == {"organizational-activities", "election-expenses",
    "publication-expenses", "advertising-expenses",
    "fundraising-party-expenses", "other-business-expenses",
    "research-expenses", "donations-grants-expenses", "other-expenses"}
Personnel == "personnel-costs"

\* The categories some sheet of the report reads.
ReportSections == IncomeSections \cup Routine \cup Political \cup {Personnel}

TypeOfSection(s) == IF s \in IncomeSections THEN "income" ELSE "expense"

---------------------------------------------------------------------------
(* Donors.                                                                 *)

DonorTypes == {"individual", "corporation", "political_organization"}
AnyDonorCategories ==
    {"mediated-donations", "party-income", "mediated-party-income"}

\* categoryAllowedDonorTypes: nothing for the categories not listed.
AllowedDonorTypes(cat) ==
    CASE cat \in {Donation, "specific-individual-donations"} -> {"individual"}
      [] cat = "corporate-donations" -> {"corporation"}
      [] cat = "political-donations" -> {"political_organization"}
      [] cat \in AnyDonorCategories -> DonorTypes
      [] OTHER -> {}

\* validate_transaction_donor, the trigger: the same table, for income only.
DonorSuits(line, type) ==
    line.type = "income" /\ type \in AllowedDonorTypes(line.cat)

---------------------------------------------------------------------------
(* Counterparts.                                                           *)

\* validate_transaction_counterpart, the trigger.
CounterpartSuits(line) ==
    \/ line.type = "income" /\ line.cat \in ListedIncome \cup {OtherIncome}
    \/ line.type = "expense" /\ line.cat \in Routine \cup Political

\* isCounterpartRequired: what the assignment page offers.
CounterpartRequired(line) ==
    \/ line.type = "income" /\ line.cat \in {"loans", "grants"}
    \/ line.type = "expense" /\ line.cat \in Routine \cup Political
=============================================================================
