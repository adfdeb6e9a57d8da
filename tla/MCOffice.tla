------------------------------ MODULE MCOffice ------------------------------
(***************************************************************************)
(* What the admin application does with the transactions it has imported   *)
(* and what the public site shows of them: donors and counterparts, the    *)
(* pages that assign them, the users of the application, and the public    *)
(* pages and their cache.  They meet in the tables of one database, whose  *)
(* edits each module has among its own actions; a behaviour follows one of *)
(* them and leaves the variables of the others as they began.              *)
(***************************************************************************)
EXTENDS Deletions, Desk, Members, TLC

CONSTANTS t1, t2, a1, a2, p1, p2

VARIABLE part

---------------------------------------------------------------------------
(* Donors and counterparts.                                                *)

MCLineKinds == {[type |-> "income", cat |-> Donation],
                [type |-> "income", cat |-> "corporate-donations"],
                [type |-> "expense", cat |-> "utilities"]}
Donor(key, type) == [kind |-> "donor", key |-> key, type |-> type]
MCEntries == {Donor("full", "individual"), Donor("bare", "individual"),
              Donor("bare", "corporation"),
              [kind |-> "counterpart", key |-> "full", type |-> "none"]}
MCFirst == {<<Donor("bare", "individual")>>}
CsvRow(row, tx, key, type) == [row |-> row, tx |-> tx, key |-> key, type |-> type]
MCFiles == {{CsvRow(1, t1, "bare", "individual"), CsvRow(2, t2, "bare", "individual")},
            {CsvRow(1, t1, "full", "individual"), CsvRow(2, t1, "bare", "individual"),
             CsvRow(3, t2, "bare", "corporation")}}

\* The pages that assign: one transaction that is listed, none and one party.
MCDeskLines == [donor |-> t1 :> [type |-> "income", cat |-> Donation],
                counterpart |-> t1 :> [type |-> "expense", cat |-> "utilities"]]
MCFirstPeople == [donor |-> <<>>, counterpart |-> <<"none">>]
MCOperators == [donor |-> {p1}, counterpart |-> {p1, p2}]

---------------------------------------------------------------------------
(* The public site.                                                        *)

MCCategories == [a \in {"gift", "big gift", "loan", "rent"} |->
                   CASE a \in {"gift", "big gift"} -> <<"donations", "individual">>
                     [] a = "loan" -> <<"loans", "">>
                     [] a = "rent" -> <<"routine", "office">>]
SiteLine(type, debit, credit, tag, month, amount) ==
    [type |-> type, debitAccount |-> debit, creditAccount |-> credit, tag |-> tag,
     month |-> month, debit |-> amount, credit |-> amount]
Web == SiteLine("income", "bank", "gift", "web", 1, 5)
Meeting == SiteLine("income", "bank", "big gift", "meeting", 2, 3)
Stall == SiteLine("income", "bank", "gift", "stall", 2, 1)
Returned == SiteLine("income", "bank", "gift", "web", 3, -2)
Borrowed == SiteLine("income", "bank", "loan", "", 3, 2)
Rent == SiteLine("expense", "rent", "payable", "office", 1, 4)
Repaid == SiteLine("expense", "loan", "bank", "", 3, 9)
Unlisted == SiteLine("expense", "unknown", "bank", "", 2, 2)
Settled == SiteLine("non_cash_journal", "payable", "bank", "", 2, 1)
Offset == SiteLine("offset_income", "gift", "payable", "web", 1, 1)

Table(orgs, rows, snaps) == [orgs |-> orgs, rows |-> rows, snaps |-> snaps]
Snap(year, day, n) == [org |-> 1, year |-> year, day |-> day, balance |-> n]
MCSlugs == {"s1", "s2", "s3"}
MCPages == {<<"top", "s1">>, <<"csv", "s2">>}
\* Nothing yet, one organization with a full year, one without transactions
\* beside another.
NoOrganization == Table(<<>>, <<>>, <<>>)
MCTables ==
    {NoOrganization,
     Table(<<"s1">>, [t \in {1} \X (1..5) |-> <<Web, Meeting, Stall, Rent, Offset>>[t[2]]],
           <<Snap("previous", 1, 2), Snap("current", 2, 3)>>),
     Table(<<"s1", "s3">>, [t \in {2} \X (1..2) |-> <<Web, Rent>>[t[2]]],
           <<Snap("current", 2, 7)>>)}
MCImports == {(1 :> Settled @@ 2 :> Repaid @@ 6 :> Borrowed @@ 7 :> Returned @@ 8 :> Unlisted)}
MCBalances == {[year |-> "later", day |-> 4, balance |-> 1]}

\* The hypothesis of PartsOfPagesAgree.
ASSUME MCNames == NamesApart

---------------------------------------------------------------------------

OfficeInit ==
    /\ part \in {"assignments", "desk", "members", "site"}
    /\ AssignmentsInit /\ DeskInit /\ MembersInit /\ SiteInit
    /\ part # "assignments" => /\ \A t \in Txs : ledger[t] = CHOOSE l \in LineKinds : TRUE
                               /\ parties = CHOOSE f \in FirstParties : TRUE
    /\ part # "desk" => desk = "donor"
    /\ part # "site" => versions = <<NoOrganization>>

Follow(p, next) == part = p /\ next /\ UNCHANGED part

OfficeNext ==
    \/ /\ Follow("assignments", AssignmentsNext)
       /\ UNCHANGED <<deskVars, memberVars, siteVars>>
    \/ /\ Follow("desk", DeskNext)
       /\ UNCHANGED <<assignmentVars, memberVars, siteVars>>
    \/ /\ Follow("members", MembersNext)
       /\ UNCHANGED <<assignmentVars, deskVars, siteVars>>
    \/ /\ Follow("site", SiteNext)
       /\ UNCHANGED <<assignmentVars, deskVars, memberVars>>

officeVars == <<part, assignmentVars, deskVars, memberVars, siteVars>>

\* The fairness of the public site, when it is followed.
OfficeSpec ==
    /\ OfficeInit
    /\ [][OfficeNext]_officeVars
    /\ \A k \in CacheKeys :
          /\ SF_siteVars(part = "site" /\ Visit(k))
          /\ WF_siteVars(part = "site" /\ Expire(k))
          /\ WF_siteVars(part = "site" /\ \E l \in loads : l.key = k /\ FinishLoad(l))

=============================================================================
