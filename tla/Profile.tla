------------------------------ MODULE Profile ------------------------------
(***************************************************************************)
(* The report profile of one organization (admin: the page report-profile, *)
(* its form, its loader and the save): a row per financial year with what  *)
(* sheet 01 of the report says of the organization.                        *)
(*                                                                         *)
(* The page is rendered from a cached query; its form keeps what it was    *)
(* mounted with, because choosing another year only changes the query of   *)
(* the address and a client component stays mounted over that.  A row      *)
(* keeps its id and its year for good, so the id of a row is written as    *)
(* its year.  The text of a field is Blank or one of Texts; the id React   *)
(* needs for the entries of a list is left out.                            *)
(***************************************************************************)
EXTENDS Integers, Sequences, FiniteSets

Lists == INSTANCE SequencesExt
Maps == INSTANCE Functions

CONSTANTS
    Years,          \* the years the selector offers
    NoId,           \* the id of a profile that is not stored, as a form has it
    Browsers,       \* browser tabs of this page
    Nobody,         \* a render no browser waits for any more
    Texts,          \* what a user may type into a field
    FirstProfiles,  \* the tables there may be at first
    MaxInputs,      \* bound on edits, submissions and failures
    MaxRenders      \* bound on renders under way

VARIABLES
    profiles,   \* organization_report_profiles of the organization, by year
    kept,       \* unstable_cache: what the query of a year returned last
    renders,    \* renders whose query has returned and that are not stored yet
    forms,      \* the page in each open browser
    saves,      \* saveOrganizationProfile: the call of each browser
    inputs      \* inputs so far

profileVars == <<profiles, kept, renders, forms, saves, inputs>>

None == ""
Slots == 3      \* the contact and member elements of sheet 01

Fund == [on : BOOLEAN, periods : Seq(Texts \cup {None})]
Diet == [type : {"none", "0", "1", "2", "3"},
         members : Seq(Texts \cup {None}), periods : Seq(Texts \cup {None})]

\* OrganizationReportProfile and its details: the names and addresses, the
\* representative and the accountant, the type and area of the organization,
\* the contact persons, and the two optional parts.
Content == [basic : Texts \cup {None}, officers : Texts \cup {None},
            area : Texts \cup {None}, contacts : Seq(Texts \cup {None}),
            fund : Fund, diet : Diet]

Empty == [basic |-> None, officers |-> None, area |-> None, contacts |-> <<>>,
          fund |-> [on |-> FALSE, periods |-> <<>>],
          diet |-> [type |-> "none", members |-> <<>>, periods |-> <<>>]]

\* Nothing is dropped on the way to sheet 01.
Fits(c) == /\ Len(c.contacts) <= Slots /\ Len(c.diet.members) <= Slots
           /\ ~c.fund.on => c.fund.periods = <<>>
           /\ c.diet.type \in {"none", "0"} => c.diet.members \o c.diet.periods = <<>>

ASSUME ProfileAssumption ==
    /\ Years \subseteq Nat /\ NoId \notin Years
    /\ Nobody \notin Browsers
    /\ None \notin Texts
    /\ \A first \in FirstProfiles :
          DOMAIN first \subseteq Years
          /\ \A y \in DOMAIN first : first[y] \in Content /\ Fits(first[y])
    /\ MaxInputs \in Nat /\ MaxRenders \in Nat

---------------------------------------------------------------------------
(* The form.                                                               *)

\* The handlers of a list: add a blank entry, at most three, remove one,
\* change one.
Extend(l) == IF Len(l) < Slots THEN {Append(l, None)} ELSE {}
ListEdits(l) ==
    Extend(l) \cup {Lists!RemoveAt(l, i) : i \in DOMAIN l}
    \cup {[l EXCEPT ![i] = v] : i \in DOMAIN l, v \in Texts}

BasicInfoEdits(c) == {[c EXCEPT !.basic = v] : v \in Texts \cup {None}}
RepresentativeEdits(c) == {[c EXCEPT !.officers = v] : v \in Texts \cup {None}}
OrganizationTypeEdits(c) == {[c EXCEPT !.area = v] : v \in Texts \cup {None}}

\* Mutant: no limit on the contact persons.
ContactPersonsEdits_Unlimited(c) ==
    {[c EXCEPT !.contacts = l] : l \in ListEdits(c.contacts) \cup {Append(c.contacts, None)}}

ContactPersonsEdits(c) == {[c EXCEPT !.contacts = l] : l \in ListEdits(c.contacts)}

\* The box of fund management empties its part when it is unchecked.
FundManagementEdits(c) ==
    {[c EXCEPT !.fund = [on |-> ~c.fund.on, periods |-> <<>>]]}
    \cup {[c EXCEPT !.fund.periods = l] :
            l \in IF c.fund.on THEN ListEdits(c.fund.periods) ELSE {}}

Enabled(c) == c.diet.type \notin {"none", "0"}

\* The box of the Diet members: type "0" once it is unchecked, "1" checked.
DietMemberRelationEdits(c) ==
    {[c EXCEPT !.diet = [type |-> IF Enabled(c) THEN "0" ELSE "1",
                         members |-> <<>>, periods |-> <<>>]]}
    \cup IF ~Enabled(c) THEN {}
         ELSE {[c EXCEPT !.diet.type = k] : k \in {"1", "2", "3"}}
              \cup {[c EXCEPT !.diet.members = l] : l \in ListEdits(c.diet.members)}
              \cup {[c EXCEPT !.diet.periods = l] : l \in ListEdits(c.diet.periods)}

Edits(c) == BasicInfoEdits(c) \cup RepresentativeEdits(c) \cup OrganizationTypeEdits(c)
            \cup ContactPersonsEdits(c) \cup FundManagementEdits(c)
            \cup DietMemberRelationEdits(c)

---------------------------------------------------------------------------
(* Sheet 01 and what the preview of the report shows of it.                *)

Slot(l, i) == IF i \in DOMAIN l THEN l[i] ELSE None
SheetContacts(c) == [i \in 1..Slots |-> Slot(c.contacts, i)]

\* KIKAN1 and KIKAN2 hold the first period, KIKAN_FUKUSU the others.
Periods(l) == [first |-> Slot(l, 1), others |-> IF Len(l) > 1 THEN Tail(l) ELSE <<>>]

SheetFund(c) == [mark |-> IF c.fund.on THEN "1" ELSE "0",
                 periods |-> Periods(IF c.fund.on THEN c.fund.periods ELSE <<>>)]

SheetDiet(c) ==
    LET written == IF Enabled(c) THEN c.diet ELSE [Empty.diet EXCEPT !.type = "0"]
    IN  [type |-> written.type,
         members |-> [i \in 1..Slots |-> Slot(written.members, i)],
         periods |-> Periods(written.periods)]

\* serializeProfileSection.
Sheet01(y, c) == [year |-> y, basic |-> c.basic, officers |-> c.officers, area |-> c.area,
                  contacts |-> SheetContacts(c), fund |-> SheetFund(c), diet |-> SheetDiet(c)]

\* ProfileSection of the preview: every contact person, neither the fund's nor
\* the members' names.
Panel01(y, c) == [year |-> y, basic |-> c.basic, officers |-> c.officers, area |-> c.area,
                  contacts |-> c.contacts, type |-> c.diet.type]

---------------------------------------------------------------------------
(* The page.                                                               *)

Stored(y) == {profiles[x] : x \in {y} \cap DOMAIN profiles}

\* ReportProfileForm: what useState keeps of the first render.
Mount(y, found) ==
    [shown |-> y, year |-> y, message |-> "none",
     id |-> IF found = {} THEN NoId ELSE y,
     content |-> IF found = {} THEN Empty ELSE CHOOSE c \in found : TRUE]

\* The page of a year reaches a browser: a form that is there keeps its state.
Show(b, y, found) ==
    forms' = IF b \in DOMAIN forms
             THEN [forms EXCEPT ![b].shown = y]
             ELSE [x \in DOMAIN forms \cup {b} |->
                     IF x = b THEN Mount(y, found) ELSE forms[x]]

Render(b, y) == [browser |-> b, year |-> y, found |-> Stored(y), overlapped |-> FALSE]
Abandoned(b) == {[r EXCEPT !.browser = IF @ = b THEN Nobody ELSE @] : r \in renders}

Input == inputs < MaxInputs /\ inputs' = inputs + 1

ProfileInit ==
    /\ profiles \in FirstProfiles /\ kept = <<>>
    /\ renders = {} /\ forms = <<>> /\ saves = <<>> /\ inputs = 0

\* The address is opened, or YearSelector pushes another year: a kept answer is
\* shown, else the query runs.
Visit(b, y) ==
    /\ b \in DOMAIN forms => y # forms[b].shown
    /\ \/ /\ y \in DOMAIN kept
          /\ Show(b, y, kept[y].found) /\ renders' = Abandoned(b)
       \/ /\ y \notin DOMAIN kept /\ Cardinality(renders) < MaxRenders
          /\ renders' = Abandoned(b) \cup {Render(b, y)}
          /\ UNCHANGED forms
    /\ UNCHANGED <<profiles, kept, saves, inputs>>

\* A kept answer of a minute ago is replaced in the background; the answer of a
\* save renders its page again, and others open the page.
RenderAgain(y) ==
    /\ Cardinality(renders) < MaxRenders
    /\ renders' = renders \cup {Render(Nobody, y)}
    /\ UNCHANGED <<profiles, kept, forms, saves, inputs>>

\* The query's answer is kept and shown.
Arrive(r) ==
    /\ renders' = renders \ {r}
    /\ kept' = [y \in DOMAIN kept \cup {r.year} |->
                  IF y = r.year THEN [found |-> r.found, overlapped |-> r.overlapped]
                                ELSE kept[y]]
    /\ IF r.browser = Nobody THEN UNCHANGED forms ELSE Show(r.browser, r.year, r.found)
    /\ UNCHANGED <<profiles, saves, inputs>>

\* The query fails: the page shows a profile that is not stored yet, and
\* nothing is kept.
LoadFails(r) ==
    /\ Input /\ renders' = renders \ {r}
    /\ IF r.browser = Nobody THEN UNCHANGED forms ELSE Show(r.browser, r.year, {})
    /\ UNCHANGED <<profiles, kept, saves>>

EditField(b) ==
    /\ Input
    /\ \E c \in Edits(forms[b].content) : forms' = [forms EXCEPT ![b].content = c]
    /\ UNCHANGED <<profiles, kept, renders, saves>>

\* Another page is opened in the browser.
Leave(b) ==
    /\ b \notin DOMAIN saves
    /\ forms' = Maps!Restrict(forms, DOMAIN forms \ {b})
    /\ renders' = Abandoned(b)
    /\ UNCHANGED <<profiles, kept, saves, inputs>>

---------------------------------------------------------------------------
(* The save.                                                               *)

\* handleSubmit.  at: the year the page shows, which the call does not carry.
Submit(b) ==
    /\ b \notin DOMAIN saves /\ Input
    /\ saves' = [x \in DOMAIN saves \cup {b} |->
                   IF x = b THEN [id |-> forms[b].id, year |-> forms[b].year, at |-> forms[b].shown,
                                  content |-> forms[b].content, pc |-> "sent"]
                            ELSE saves[x]]
    /\ forms' = [forms EXCEPT ![b].message = "none"]
    /\ UNCHANGED <<profiles, kept, renders>>

\* The row a save writes: the one with its id, else the one of its year.
Target(s) == IF s.id = NoId THEN s.year ELSE s.id

\* SaveOrganizationProfileUsecase: update of the row with the id, or create,
\* which the UNIQUE key of organization and year may refuse.
Store(b) ==
    LET s == saves[b]
    IN  /\ s.pc = "sent"
        /\ s.id = NoId => s.year \notin DOMAIN profiles
        /\ profiles' = [y \in DOMAIN profiles \cup {Target(s)} |->
                          IF y = Target(s) THEN s.content ELSE profiles[y]]
        /\ renders' = {IF r.year = Target(s) THEN [r EXCEPT !.overlapped = TRUE] ELSE r :
                          r \in renders}
        /\ saves' = [saves EXCEPT ![b].pc = "stored"]
        /\ UNCHANGED <<kept, forms, inputs>>

Refuse(b) ==
    /\ saves[b].pc = "sent" /\ saves[b].id = NoId /\ saves[b].year \in DOMAIN profiles
    /\ saves' = [saves EXCEPT ![b].pc = "refused"]
    /\ UNCHANGED <<profiles, kept, renders, forms, inputs>>

\* Mutant: the answer without revalidatePath.
Revalidate_Not(b) ==
    /\ saves[b].pc = "stored"
    /\ saves' = [saves EXCEPT ![b].pc = "saved"]
    /\ UNCHANGED <<profiles, kept, renders, forms, inputs>>

\* revalidatePath: the kept answers of the page, of every year, are void.
Revalidate(b) ==
    /\ saves[b].pc = "stored"
    /\ kept' = <<>>
    /\ saves' = [saves EXCEPT ![b].pc = "saved"]
    /\ UNCHANGED <<profiles, renders, forms, inputs>>

\* The answer: the form learns the id of the row.
Answered(b) ==
    LET s == saves[b]
    IN  /\ s.pc \in {"saved", "refused"}
        /\ forms' = [forms EXCEPT ![b].message = IF s.pc = "saved" THEN "saved" ELSE "error",
                                  ![b].id = IF s.pc = "saved" THEN Target(s) ELSE @]
        /\ saves' = Maps!Restrict(saves, DOMAIN saves \ {b})
        /\ UNCHANGED <<profiles, kept, renders, inputs>>

\* The call fails before it is served, or its answer is lost.
Lose(b) ==
    /\ saves[b].pc # "stored" /\ Input
    /\ forms' = [forms EXCEPT ![b].message = "error"]
    /\ saves' = Maps!Restrict(saves, DOMAIN saves \ {b})
    /\ UNCHANGED <<profiles, kept, renders>>

ProfileNext ==
    \/ \E b \in Browsers, y \in Years : Visit(b, y)
    \/ \E y \in Years : RenderAgain(y)
    \/ \E r \in renders : Arrive(r) \/ LoadFails(r)
    \/ \E b \in DOMAIN forms : EditField(b) \/ Leave(b) \/ Submit(b)
    \/ \E b \in DOMAIN saves : Store(b) \/ Refuse(b) \/ Revalidate(b)
                               \/ Answered(b) \/ Lose(b)

ProfileSpec == ProfileInit /\ [][ProfileNext]_profileVars
---------------------------------------------------------------------------
(* Properties.                                                             *)

\* Whoever is stored in a profile is in the report: sheet 01 has three slots for
\* contact persons and for members and nothing for a part that is not marked,
\* only the form keeps to that (the schema with the limits is not applied,
\* organization-report-profile.schema.ts:58), and the preview and the sheet
\* name the same contact persons.
NobodyDropped ==
    \A y \in DOMAIN profiles :
        LET c == profiles[y]
            sheet == Sheet01(y, c)
        IN  /\ \A i \in DOMAIN c.diet.members : sheet.diet.members[i] = c.diet.members[i]
            /\ \A i \in DOMAIN Panel01(y, c).contacts :
                  i \in 1..Slots /\ sheet.contacts[i] = Panel01(y, c).contacts[i]
            /\ \A l \in {<<c.fund.periods, sheet.fund.periods>>, <<c.diet.periods, sheet.diet.periods>>} :
                  \A i \in DOMAIN l[1] :
                      l[1][i] = IF i = 1 THEN l[2].first ELSE l[2].others[i - 1]

\* A kept answer is the row as it is, unless a save of that year was served
\* while its query was under way or is about to void it
\* (organization-profile-loader.ts, save-organization-profile.ts:36).
KeptIsCurrent ==
    \A y \in DOMAIN kept :
        \/ kept[y].overlapped
        \/ kept[y].found = Stored(y)
        \/ \E b \in DOMAIN saves : saves[b].pc = "stored" /\ Target(saves[b]) = y

\* docs/old/20251214_1800_収支報告書メタデータ機能設計.md:232: the profile of a
\* new year can be made while those of past years are kept: a save writes the
\* row of the year its page showed.
SavedUnderShownYear ==
    [][\A b \in DOMAIN saves \cap DOMAIN saves' :
          saves[b].pc = "sent" /\ saves'[b].pc = "stored" => Target(saves[b]) = saves[b].at]_profileVars
=============================================================================
