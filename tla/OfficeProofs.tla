---------------------------- MODULE OfficeProofs -----------------------------
(***************************************************************************)
(* Proofs about the office's server: who may change a role (Members), for  *)
(* any accounts, any number of requests at once and any number of them in  *)
(* all; what an export reports (Report) and what its file and its preview  *)
(* show (Sheets), for any finite set of transactions, any rows of them and *)
(* any positive thresholds; and what a report profile says (Profile), for  *)
(* any years, texts, browsers and renders.                                 *)
(***************************************************************************)
EXTENDS Members, Sheets, Profile, Sums, SequenceTheorems

-----------------------------------------------------------------------------
(* Roles.  A request writes a role long after it looked at the role of     *)
(* whoever asks.  What the invariant keeps of that look is WriterWasAdmin: *)
(* the writer is admin, or somebody has demoted the writer since.  Every   *)
(* write that demotes enters the history of all other requests, and that   *)
(* is what makes the invariant inductive.                                  *)

Request == {Free} \cup Syncing \cup ChangingRole \cup Inviting

\* What a request may be left at: of a change of a role, that the row is there
\* and, after the check, that its writer is or was admin.
Sound(r, admins, since) ==
    /\ r \in Request
    /\ r.op = "role" => /\ role'[r.target] # "none"
                        /\ r.pc = "write" => r.who \in admins \cup since

-----------------------------------------------------------------------------
(* The invariant                                                           *)

\* What kind of request the fields of one tell.
LEMMA RequestFields ==
    ASSUME NEW r \in Request
    PROVE  /\ r = Free <=> r.op = "none"
           /\ r # Free => r.pc \in {"find", "create", "check", "write", "send"} /\ r.who \in Accounts
           /\ r.op = "sync" => r \in Syncing
           /\ r.op = "role" => r \in ChangingRole
           /\ r.op = "invite" => r \in Inviting
  BY DEF Request, Free, Syncing, ChangingRole, Inviting

\* A request under way is typed and, if it changes a role, sound.
LEMMA HandlerIsSound ==
    ASSUME MembersInv, role' = role, NEW c \in Handlers
    PROVE  Sound(handler[c], Admins, demoted[c])
  <1>1. handler[c] \in Request
    BY DEF MembersInv, MembersTypeOK, Request
  <1> QED BY <1>1, RequestFields
             DEF MembersInv, WriterWasAdmin, TargetHasRow, Doing, Sound

\* One request moves and no role changes.
LEMMA MoveKeeps ==
    ASSUME MembersInv, NEW c \in Handlers, NEW r,
           handler' = [handler EXCEPT ![c] = r], role' = role,
           \/ demoted' = demoted
           \/ demoted' = [demoted EXCEPT ![c] = {}],
           Sound(r, Admins, demoted'[c]),
           account' \in [Accounts -> {"absent", "invited", "confirmed"}],
           begun' \in 0..MaxRequests
    PROVE  MembersInv'
  <1>1. /\ handler'[c] = r
        /\ \A d \in Handlers : d # c => handler'[d] = handler[d] /\ demoted'[d] = demoted[d]
    BY DEF MembersInv, MembersTypeOK
  <1>2. \A d \in Handlers : Sound(handler'[d], Admins, demoted'[d])
    BY <1>1, HandlerIsSound
  <1>3. MembersTypeOK'
    <2>1. handler' \in [Handlers -> Request]
      BY <1>2 DEF MembersInv, MembersTypeOK, Sound
    <2> QED BY <2>1 DEF MembersInv, MembersTypeOK, Request
  <1>4. Admins' = Admins
    BY DEF Admins
  <1>5. WriterWasAdmin' /\ TargetHasRow'
    BY <1>2, <1>4 DEF WriterWasAdmin, TargetHasRow, Doing, Sound
  <1> QED BY <1>3, <1>5 DEF MembersInv

\* A place for a request that has none is fit.
LEMMA FreeIsSound == \A admins, since : Sound(Free, admins, since)
  BY DEF Sound, Request, Free

\* A request ends, whatever it leaves of the accounts.
LEMMA StopKeeps ==
    ASSUME MembersInv, NEW c \in Handlers, handler' = [handler EXCEPT ![c] = Free],
           UNCHANGED <<role, demoted, begun>>,
           account' \in [Accounts -> {"absent", "invited", "confirmed"}]
    PROVE  MembersInv'
  BY MoveKeeps, FreeIsSound DEF MembersInv, MembersTypeOK

\* A request begins.
LEMMA StartKeeps ==
    ASSUME MembersInv, NEW c \in Handlers, NEW r \in Request, Start(c, r), role' = role,
           r.op = "role" => r.pc = "check" /\ role[r.target] # "none",
           account' \in [Accounts -> {"absent", "invited", "confirmed"}]
    PROVE  MembersInv'
  <1>1. begun' \in 0..MaxRequests
    BY MembersAssumption DEF Start, MembersInv, MembersTypeOK
  <1>2. Sound(r, Admins, demoted'[c])
    BY DEF Sound
  <1> QED BY <1>1, <1>2, MoveKeeps DEF Start

\* A request goes on to its next statement.
LEMMA NextStatementKeeps ==
    ASSUME MembersInv, NEW c \in Handlers, NEW pc \in {"create", "write", "send"},
           handler[c] # Free,
           \/ handler[c].op = "sync" /\ pc = "create"
           \/ handler[c].op = "role" /\ pc = "write" /\ MayAdminister(handler[c].who)
           \/ handler[c].op = "invite" /\ pc = "send",
           Step(c, [handler[c] EXCEPT !.pc = pc])
    PROVE  MembersInv'
  <1> DEFINE r == [handler[c] EXCEPT !.pc = pc]
  <1>1. handler' = [handler EXCEPT ![c] = r] /\ UNCHANGED <<account, role, demoted, begun>>
    BY DEF Step
  <1>2. handler[c] \in Request /\ Sound(handler[c], Admins, demoted[c])
    BY <1>1, HandlerIsSound DEF Sound
  <1>3. r \in Request /\ r.op = handler[c].op /\ r.pc = pc /\ r.who = handler[c].who
        /\ (r.op = "role" => r.target = handler[c].target)
    <2>1. CASE handler[c].op = "sync"
      BY <1>2, <2>1, RequestFields DEF Syncing, Request
    <2>2. CASE handler[c].op = "role"
      BY <1>2, <2>2, RequestFields DEF ChangingRole, Request
    <2>3. CASE handler[c].op = "invite"
      BY <1>2, <2>3, RequestFields DEF Inviting, Request
    <2> QED BY <2>1, <2>2, <2>3
  <1> HIDE DEF r
  <1>4. r.op = "role" => r.who \in Admins
    BY <1>2, <1>3, RequestFields DEF MayAdminister, Admins
  <1>5. Sound(r, Admins, demoted[c])
    BY <1>1, <1>2, <1>3, <1>4 DEF Sound
  <1> QED BY <1>1, <1>5, MoveKeeps DEF MembersInv, MembersTypeOK

-----------------------------------------------------------------------------
(* The two writes of roles                                                 *)

\* The row of a new account never takes a role away from anybody.
LEMMA CreateEffect ==
    ASSUME MembersInv, NEW c \in Handlers, SyncCreate(c)
    PROVE  /\ role' \in [Accounts -> Roles \cup {"none"}]
           /\ \A a \in Accounts : role'[a] # role[a] => role[a] = "none" /\ role'[a] = "user"
           /\ Admins' = Admins
  BY DEF MembersInv, MembersTypeOK, SyncCreate, Admins, Roles

\* The row a sign-in creates keeps the invariant.
LEMMA CreateKeeps ==
    ASSUME MembersInv, NEW c \in Handlers, SyncCreate(c)
    PROVE  MembersInv'
  <1>1. /\ handler'[c] = Free
        /\ \A d \in Handlers : d # c => handler'[d] = handler[d]
        /\ UNCHANGED <<account, demoted, begun>>
    BY DEF SyncCreate, MembersInv, MembersTypeOK
  <1>2. MembersTypeOK'
    BY <1>1, CreateEffect DEF MembersInv, MembersTypeOK, SyncCreate
  <1>3. WriterWasAdmin'
    BY <1>1, CreateEffect DEF MembersInv, WriterWasAdmin, Doing
  <1>4. TargetHasRow'
    <2>1. \A d \in Handlers : handler'[d] # Free /\ handler'[d].op = "role" =>
             /\ handler'[d] = handler[d] /\ handler[d].target \in Accounts
             /\ role[handler[d].target] # "none"
      BY <1>1, RequestFields
         DEF MembersInv, MembersTypeOK, TargetHasRow, ChangingRole, Request
    <2> QED BY <2>1, CreateEffect DEF TargetHasRow
  <1> QED BY <1>2, <1>3, <1>4 DEF MembersInv

\* A role is written by somebody who is or was admin; nobody else's changes.
LEMMA WriteEffect ==
    ASSUME MembersInv, NEW c \in Handlers, UpdateRoleWrite(c)
    PROVE  /\ handler[c] \in ChangingRole /\ handler'[c] = Free
           /\ \A d \in Handlers : d # c => handler'[d] = handler[d]
           /\ role' \in [Accounts -> Roles \cup {"none"}]
           /\ role'[handler[c].target] \in Roles
           /\ \A a \in Accounts : a # handler[c].target => role'[a] = role[a]
           /\ handler[c].who \in Admins \cup demoted[c]
           /\ demoted' = [d \in Handlers |->
                            IF d = c THEN {} ELSE demoted[d] \cup (Admins \ Admins')]
  <1>1. handler[c] \in ChangingRole
    BY RequestFields DEF MembersInv, MembersTypeOK, UpdateRoleWrite, Doing, Request
  <1>2. handler[c].target \in Accounts /\ handler[c].role \in Roles
    BY <1>1 DEF ChangingRole
  <1>3. {a \in Accounts : role'[a] = "admin"} = Admins'
    BY DEF Admins
  <1> QED BY <1>1, <1>2, <1>3
             DEF MembersInv, MembersTypeOK, WriterWasAdmin, UpdateRoleWrite

\* The write of a role keeps the invariant.
LEMMA WriteKeeps ==
    ASSUME MembersInv, NEW c \in Handlers, UpdateRoleWrite(c)
    PROVE  MembersInv'
  <1>1. MembersTypeOK'
    <2>1. Admins \subseteq Accounts
      BY DEF Admins
    <2>2. demoted' \in [Handlers -> SUBSET Accounts]
      BY <2>1, WriteEffect DEF MembersInv, MembersTypeOK
    <2> QED BY <2>2, WriteEffect DEF MembersInv, MembersTypeOK, UpdateRoleWrite
  <1>2. WriterWasAdmin'
    <2>1. ASSUME NEW d \in Handlers, Doing(d, "role", "write")'
          PROVE  handler'[d].who \in Admins' \cup demoted'[d]
      <3>1. d # c
        BY <2>1, WriteEffect DEF Doing
      <3>2. handler[d].who \in Admins \cup demoted[d]
        BY <2>1, <3>1, WriteEffect DEF Doing, MembersInv, WriterWasAdmin
      <3> QED BY <3>1, <3>2, WriteEffect
    <2> QED BY <2>1 DEF WriterWasAdmin
  <1>3. TargetHasRow'
    <2>1. \A d \in Handlers : handler'[d] # Free /\ handler'[d].op = "role" =>
             /\ handler'[d] = handler[d] /\ handler[d].target \in Accounts
             /\ role[handler[d].target] # "none"
      BY WriteEffect, RequestFields
         DEF MembersInv, MembersTypeOK, TargetHasRow, ChangingRole, Request
    <2>2. "none" \notin Roles
      BY DEF Roles
    <2> QED BY <2>1, <2>2, WriteEffect DEF TargetHasRow
  <1> QED BY <1>1, <1>2, <1>3 DEF MembersInv

-----------------------------------------------------------------------------
(* Theorems                                                                *)

\* The invariant holds at first.
LEMMA InitMembersInv == MembersInit => MembersInv
  BY MembersAssumption
     DEF MembersInit, MembersInv, MembersTypeOK, WriterWasAdmin, TargetHasRow, Doing,
         Roles, Free

\* Every statement of every request keeps the invariant.
LEMMA NextMembersInv ==
    ASSUME MembersInv, MembersNext
    PROVE  MembersInv'
  <1>1. PICK c \in Handlers :
            \/ \E a \in Accounts : SyncBegin(c, a)
            \/ SyncFind(c) \/ SyncCreate(c)
            \/ \E a, b \in Accounts, r \in Roles : UpdateRoleBegin(c, a, b, r)
            \/ UpdateRoleCheck(c) \/ UpdateRoleWrite(c)
            \/ \E a, b \in Accounts : InviteBegin(c, a, b)
            \/ InviteCheck(c) \/ InviteSend(c)
            \/ Fail(c)
    BY DEF MembersNext
  <1>2. ASSUME Stop(c)
        PROVE  MembersInv'
    BY <1>2, StopKeeps DEF Stop, Step, MembersInv, MembersTypeOK
  <1>3. ASSUME NEW a \in Accounts, SyncBegin(c, a)
        PROVE  MembersInv'
    <2> DEFINE r == [op |-> "sync", pc |-> "find", who |-> a]
    <2>1. Start(c, r) /\ role' = role
          /\ account' \in [Accounts -> {"absent", "invited", "confirmed"}]
      BY <1>3 DEF SyncBegin, MembersInv, MembersTypeOK
    <2>2. r \in Request /\ r.op # "role"
      BY DEF Request, Syncing
    <2> HIDE DEF r
    <2> QED BY <2>1, <2>2, StartKeeps
  <1>4. ASSUME NEW a \in Accounts, NEW b \in Accounts, NEW x \in Roles,
               UpdateRoleBegin(c, a, b, x)
        PROVE  MembersInv'
    <2> DEFINE r == [op |-> "role", pc |-> "check", who |-> a, target |-> b, role |-> x]
    <2>1. Start(c, r) /\ role' = role /\ role[b] # "none"
          /\ account' \in [Accounts -> {"absent", "invited", "confirmed"}]
      BY <1>4 DEF UpdateRoleBegin, MembersInv, MembersTypeOK
    <2>2. r \in Request /\ r.pc = "check" /\ r.target = b
      BY DEF Request, ChangingRole
    <2> HIDE DEF r
    <2> QED BY <2>1, <2>2, StartKeeps
  <1>5. ASSUME NEW a \in Accounts, NEW b \in Accounts, InviteBegin(c, a, b)
        PROVE  MembersInv'
    <2> DEFINE r == [op |-> "invite", pc |-> "check", who |-> a, target |-> b]
    <2>1. Start(c, r) /\ role' = role
          /\ account' \in [Accounts -> {"absent", "invited", "confirmed"}]
      BY <1>5 DEF InviteBegin, MembersInv, MembersTypeOK
    <2>2. r \in Request /\ r.op # "role"
      BY DEF Request, Inviting
    <2> HIDE DEF r
    <2> QED BY <2>1, <2>2, StartKeeps
  <1>6. CASE SyncFind(c)
    BY <1>2, <1>6, NextStatementKeeps DEF SyncFind, Doing
  <1>7. CASE UpdateRoleCheck(c)
    BY <1>2, <1>7, NextStatementKeeps DEF UpdateRoleCheck, Doing
  <1>8. CASE InviteCheck(c)
    BY <1>2, <1>8, NextStatementKeeps DEF InviteCheck, Doing
  <1>9. CASE InviteSend(c)
    BY <1>9, StopKeeps DEF InviteSend, MembersInv, MembersTypeOK
  <1>10. CASE Fail(c)
    BY <1>2, <1>10 DEF Fail
  <1> QED BY <1>1, <1>3, <1>4, <1>5, <1>6, <1>7, <1>8, <1>9, <1>10, CreateKeeps, WriteKeeps

\* Types, and that a role is only ever written by somebody who is admin or was
\* when the request began, to a row that is there.
THEOREM MembersInductive == MembersSpec => []MembersInv
  <1>1. MembersInv /\ UNCHANGED memberVars => MembersInv'
    BY DEF MembersInv, MembersTypeOK, WriterWasAdmin, TargetHasRow, Doing, Admins, memberVars
  <1>2. MembersInv /\ [MembersNext]_memberVars => MembersInv'
    BY <1>1, NextMembersInv
  <1> QED BY <1>2, InitMembersInv, PTL DEF MembersSpec

\* Only two statements write roles.
LEMMA RoleWriters ==
    ASSUME MembersInv, [MembersNext]_memberVars
    PROVE  \/ role' = role
           \/ \E c \in Handlers : SyncCreate(c) \/ UpdateRoleWrite(c)
  BY DEF MembersNext, memberVars, SyncBegin, SyncFind, UpdateRoleBegin, UpdateRoleCheck,
         InviteBegin, InviteCheck, InviteSend, Fail, Stop, Step

\* A role changes by the hand of an admin or of a former one whose request was
\* under way at the demotion; an account that gets its row gets the role user.
THEOREM RolesAreGivenByAdmins == MembersSpec => RolesGivenByAdmins
  <1> DEFINE Given(a) ==
        role'[a] # role[a] =>
           \/ role[a] = "none" /\ role'[a] = "user"
           \/ \E c \in Handlers : /\ Doing(c, "role", "write")
                                  /\ handler[c].target = a /\ handler'[c] = Free
                                  /\ handler[c].who \in Admins \cup demoted[c]
  <1>1. ASSUME MembersInv, [MembersNext]_memberVars, NEW a \in Accounts
        PROVE  Given(a)
    <2>1. ASSUME NEW c \in Handlers, UpdateRoleWrite(c)
          PROVE  Given(a)
      <3>1. Doing(c, "role", "write")
        BY <2>1 DEF UpdateRoleWrite
      <3> QED BY <1>1, <2>1, <3>1, WriteEffect
    <2> QED BY <1>1, <2>1, RoleWriters, CreateEffect
  <1>2. MembersInv /\ [MembersNext]_memberVars => [\A a \in Accounts : Given(a)]_memberVars
    BY <1>1
  <1> QED BY <1>2, MembersInductive, PTL DEF MembersSpec, RolesGivenByAdmins

\* The last admin is demoted by nobody but the last admin, or by a request
\* whose own admin fell while it was under way.
THEOREM LastAdminIsKept == MembersSpec => LastAdminFallsOnlyToSelfOrStale
  <1>1. ASSUME MembersInv, [MembersNext]_memberVars, Admins # {}, Admins' = {}
        PROVE  \E c \in Handlers :
                  /\ Doing(c, "role", "write") /\ handler'[c] = Free
                  /\ handler[c].who = handler[c].target \/ handler[c].who \in demoted[c]
    <2>1. PICK c \in Handlers : UpdateRoleWrite(c)
      BY <1>1, RoleWriters, CreateEffect DEF Admins
    <2>2. \A a \in Admins : a = handler[c].target
      BY <1>1, <2>1, WriteEffect DEF Admins
    <2>3. Doing(c, "role", "write")
      BY <2>1 DEF UpdateRoleWrite
    <2> QED BY <1>1, <2>1, <2>2, <2>3, WriteEffect
  <1>2. MembersInv /\ [MembersNext]_memberVars =>
           [Admins # {} /\ Admins' = {} =>
              \E c \in Handlers :
                  /\ Doing(c, "role", "write") /\ handler'[c] = Free
                  /\ handler[c].who = handler[c].target \/ handler[c].who \in demoted[c]]_memberVars
    BY <1>1
  <1> QED BY <1>2, MembersInductive, PTL DEF MembersSpec, LastAdminFallsOnlyToSelfOrStale

-----------------------------------------------------------------------------
(* Exports.  Each section's claims hold of whatever its query returned;    *)
(* what the invariant ReportInv adds is that the queries return rows of    *)
(* their section, and that what they return is what the books held when    *)
(* the export began, but for the transactions written since (Unwritten).   *)

-----------------------------------------------------------------------------
(* One section of a file: its totals and its rows                          *)

\* What the query of a section returns: rows of its category.
Returned(found, s) ==
    /\ DOMAIN found \subseteq Tx
    /\ \A t \in DOMAIN found : found[t] \in Rows /\ Belongs(found[t], s)

Amounts(found, s) == [t \in DOMAIN found |-> Amount(found[t], s)]

\* The transactions with a row of their own.
ListedIn(found, s) ==
    CASE s = Donation -> {t \in DOMAIN found : Total(found, Donation, Gifts(found, t)) > DonationThreshold}
      [] s \in ListedIncome -> DOMAIN found
      [] s \in Routine \cup {OtherIncome} -> Reaching(found, s, DOMAIN found, RoutineThreshold)
      [] s \in Political -> Reaching(found, s, DOMAIN found, PoliticalThreshold)
      [] s = Personnel -> {}

\* The rows of the transactions themselves, and the donors that get a subtotal.
RowsFor(found, s) == {DetailRow(found, s, t) : t \in ListedIn(found, s)}
SubtotalRow(found, g) ==
    [section |-> Donation, txs |-> g, amount |-> Total(found, Donation, g),
     subtotal |-> TRUE, filled |-> {"name"}, koufukin |-> FALSE]
SubtotalGroups(found, s) ==
    IF s = Donation
    THEN {g \in {Gifts(found, t) : t \in DOMAIN found} :
            Total(found, Donation, g) > DonationThreshold /\ Cardinality(g) >= 2}
    ELSE {}

\* The amount of a row of the books is an integer.
LEMMA AmountInt ==
    ASSUME NEW row \in Rows, NEW s
    PROVE  Amount(row, s) \in Int
  <1>1. row.line \in Lines
    BY DEF Rows
  <1>2. row.line.debit \in Int /\ row.line.credit \in Int
    BY <1>1, ReportAssumption
  <1> QED BY <1>2 DEF Amount, ResolveIncomeAmount, ResolveExpenseAmount

\* The total of some transactions is the sum of their amounts.
LEMMA TotalIs ==
    ASSUME NEW found, NEW s, Returned(found, s), NEW T \in SUBSET DOMAIN found
    PROVE  /\ IsFiniteSet(T)
           /\ Total(found, s, T) = SumOn(Amounts(found, s), T)
           /\ \A t \in T : Amounts(found, s)[t] = Amount(found[t], s) /\ Amounts(found, s)[t] \in Int
           /\ Total(found, s, T) \in Int
  <1> DEFINE v == [t \in T |-> Amount(found[t], s)]
             w == Amounts(found, s)
  <1>1. IsFiniteSet(T)
    BY ReportAssumption, FS_Subset DEF Returned
  <1>2. \A t \in T : w[t] = Amount(found[t], s) /\ w[t] \in Int
    BY AmountInt DEF Returned, Amounts
  <1>3. Total(found, s, T) = SumOn(v, DOMAIN v)
    BY SumFunctionIs DEF Total
  <1>4. DOMAIN v = T /\ \A t \in T : v[t] = w[t]
    BY <1>2
  <1> HIDE DEF v, w
  <1>5. SumOn(v, T) = SumOn(w, T)
    BY <1>1, <1>4, SumSame
  <1>6. SumOn(w, T) \in Int
    BY <1>1, <1>2, SumInt
  <1> QED BY <1>1, <1>2, <1>3, <1>4, <1>5, <1>6 DEF w

\* The total of two parts.
LEMMA TotalTwo ==
    ASSUME NEW found, NEW s, Returned(found, s), NEW T \in SUBSET DOMAIN found,
           NEW L \in SUBSET T
    PROVE  Total(found, s, T) = Total(found, s, L) + Total(found, s, T \ L)
  <1>1. /\ IsFiniteSet(L) /\ Total(found, s, L) = SumOn(Amounts(found, s), L)
        /\ \A t \in L : Amounts(found, s)[t] \in Int
    BY TotalIs
  <1>2. /\ IsFiniteSet(T \ L) /\ Total(found, s, T \ L) = SumOn(Amounts(found, s), T \ L)
        /\ \A t \in T \ L : Amounts(found, s)[t] \in Int
    BY TotalIs
  <1>3. L \cap (T \ L) = {} /\ L \cup (T \ L) = T
    OBVIOUS
  <1>4. SumOn(Amounts(found, s), L \cup (T \ L))
            = SumOn(Amounts(found, s), L) + SumOn(Amounts(found, s), T \ L)
    BY <1>1, <1>2, <1>3, SumTwo
  <1>5. Total(found, s, T) = SumOn(Amounts(found, s), T)
    BY TotalIs
  <1> QED BY <1>1, <1>2, <1>3, <1>4, <1>5

\* The rows of transactions sum up to their total, one row each.
LEMMA RowsAddUp ==
    ASSUME NEW found, NEW s, Returned(found, s), NEW T \in SUBSET DOMAIN found
    PROVE  /\ IsFiniteSet({DetailRow(found, s, t) : t \in T})
           /\ SumRows({DetailRow(found, s, t) : t \in T}) = Total(found, s, T)
           /\ \A r \in {DetailRow(found, s, t) : t \in T} : r.amount \in Int
  <1> DEFINE w == Amounts(found, s)
             f == [t \in T |-> DetailRow(found, s, t)]
             R == {DetailRow(found, s, t) : t \in T}
             v == [r \in R |-> r.amount]
  <1>1. /\ IsFiniteSet(T) /\ Total(found, s, T) = SumOn(w, T)
        /\ \A t \in T : w[t] = Amount(found[t], s) /\ w[t] \in Int
    BY TotalIs
  <1>2. \A t \in T : f[t].amount = Amount(found[t], s) /\ f[t].txs = {t} /\ f[t] \in R
    BY DEF DetailRow
  <1>3. \A t, u \in T : f[t] = f[u] => t = u
    <2> SUFFICES ASSUME NEW t \in T, NEW u \in T, f[t] = f[u] PROVE t = u
      OBVIOUS
    <2>1. f[t].txs = {t} /\ f[u].txs = {u}
      BY <1>2
    <2> HIDE DEF f
    <2> QED BY <2>1
  <1>4. R = {f[t] : t \in T}
    OBVIOUS
  <1>5. \A r \in R : v[r] = r.amount
    OBVIOUS
  <1>6. SumRows(R) = SumOn(v, R)
    BY SumFunctionIs DEF SumRows
  <1> HIDE DEF f, w, R, v
  <1>7. \A t \in T : w[t] \in Int /\ v[f[t]] = w[t]
    BY <1>1, <1>2, <1>5
  <1>8. IsFiniteSet(R) /\ SumOn(v, R) = SumOn(w, T)
    BY <1>1, <1>3, <1>4, <1>7, SumImage DEF OneToOne
  <1>9. \A r \in R : r.amount \in Int
    BY <1>1, <1>2, <1>4
  <1> QED BY <1>1, <1>4, <1>6, <1>8, <1>9 DEF R

\* What one section adds to a sum over the sections of a category.
LEMMA OneSection ==
    ASSUME NEW x
    PROVE  /\ x.total \in Int => Sum({x}) = x.total
           /\ x.other \in Int => SumFunction([y \in {x} |-> y.other]) = x.other
  <1> DEFINE v == [y \in {x} |-> y.total]
             w == [y \in {x} |-> y.other]
  <1>1. DOMAIN v = {x} /\ v[x] = x.total /\ DOMAIN w = {x} /\ w[x] = x.other
    OBVIOUS
  <1>2. Sum({x}) = SumOn(v, {x}) /\ SumFunction(w) = SumOn(w, {x})
    BY SumFunctionIs DEF Sum
  <1> HIDE DEF v, w
  <1> QED BY <1>1, <1>2, SumOne DEF w

\* One section per part of the transactions: what the sections add up to.
Parted(S, H, P) ==
    /\ \A h \in H : P[h] \in SUBSET S
    /\ \A h, k \in H : h # k => P[h] \cap P[k] = {}
OneEach(H, f, X) ==
    /\ IsFiniteSet(H) /\ X = {f[h] : h \in H}
    /\ \A h, k \in H : f[h] = f[k] => h = k

\* The totals of the parts of a section, one each, add up to the total of them
\* all.
LEMMA PartsAddUp ==
    ASSUME NEW found, NEW s, Returned(found, s), NEW H, NEW P,
           Parted(DOMAIN found, H, P), NEW f, NEW X, OneEach(H, f, X),
           NEW v, \A h \in H : v[f[h]] = Total(found, s, P[h])
    PROVE  SumOn(v, X) = Total(found, s, UNION {P[h] : h \in H})
  <1> DEFINE w == [h \in H |-> Total(found, s, P[h])]
             a == Amounts(found, s)
  <1>1. \A h \in H : /\ IsFiniteSet(P[h]) /\ Total(found, s, P[h]) = SumOn(a, P[h])
                     /\ Total(found, s, P[h]) \in Int
                     /\ \A t \in P[h] : a[t] \in Int
    BY TotalIs DEF Parted
  <1>2. \A h \in H : w[h] = Total(found, s, P[h])
    OBVIOUS
  <1> HIDE DEF w, a
  <1> USE DEF Parted, OneEach
  <1>3. \A h \in H : w[h] \in Int /\ v[f[h]] = w[h]
    BY <1>1, <1>2
  <1>4. SumOn(v, X) = SumOn(w, H)
    BY <1>3, SumImage DEF OneToOne
  <1>5. \A h \in H : /\ IsFiniteSet(P[h]) /\ w[h] = SumOn(a, P[h])
                     /\ \A t \in P[h] : a[t] \in Int
    BY <1>1, <1>2
  <1> DEFINE U == UNION {P[h] : h \in H}
  <1>6. U = UNION {P[h] : h \in H}
    OBVIOUS
  <1>7. U \in SUBSET DOMAIN found
    OBVIOUS
  <1> HIDE DEF U
  <1>8. SummedParts(a, w, H, P, U)
    BY <1>5, <1>6 DEF SummedParts
  <1>9. SumOn(w, H) = SumOn(a, U)
    BY <1>8, SumParts
  <1>10. Total(found, s, U) = SumOn(a, U)
    BY <1>7, TotalIs DEF a
  <1> QED BY <1>4, <1>6, <1>9, <1>10

\* The sections of a political category, one for each friendly category.
Friendly(found) == {found[t].line.friendly : t \in DOMAIN found}
Of(found, h) == {t \in DOMAIN found : found[t].line.friendly = h}
PoliticalPart(found, s, h) ==
    Section(found, s, Of(found, h), Reaching(found, s, Of(found, h), PoliticalThreshold), h, {})

\* The sections of political spending are one for each friendly category,
\* finitely many.
LEMMA PoliticalParts ==
    ASSUME NEW found, NEW s, Returned(found, s)
    PROVE  /\ IsFiniteSet(Friendly(found))
           /\ PoliticalSections(found, s) = {PoliticalPart(found, s, h) : h \in Friendly(found)}
           /\ \A h, k \in Friendly(found) :
                PoliticalPart(found, s, h) = PoliticalPart(found, s, k) => h = k
  <1>1. IsFiniteSet(DOMAIN found)
    BY TotalIs
  <1>2. IsFiniteSet(Friendly(found))
    <2> DEFINE f == [t \in DOMAIN found |-> found[t].line.friendly]
    <2>1. f \in Surjection(DOMAIN found, Friendly(found))
      BY DEF Friendly, Surjection
    <2> QED BY <1>1, <2>1, FS_Surjection
  <1>3. PoliticalSections(found, s) = {PoliticalPart(found, s, h) : h \in Friendly(found)}
    BY DEF PoliticalSections, PoliticalPart, Friendly, Of
  <1>4. \A h : PoliticalPart(found, s, h).himoku = h
    BY DEF PoliticalPart, Section
  <1> QED BY <1>2, <1>3, <1>4

\* The sections of a political category add up to its total and its remainder.
LEMMA PoliticalAddsUp ==
    ASSUME NEW found, NEW s, Returned(found, s)
    PROVE  /\ Sum(PoliticalSections(found, s)) = Total(found, s, DOMAIN found)
           /\ SumFunction([x \in PoliticalSections(found, s) |-> x.other])
                = Total(found, s, DOMAIN found
                                  \ Reaching(found, s, DOMAIN found, PoliticalThreshold))
  <1> DEFINE H == Friendly(found)
             X == PoliticalSections(found, s)
             f == [h \in H |-> PoliticalPart(found, s, h)]
             v == [x \in X |-> x.total]
             o == [x \in X |-> x.other]
             reach == Reaching(found, s, DOMAIN found, PoliticalThreshold)
             P == [h \in H |-> Of(found, h)]
             Q == [h \in H |-> Of(found, h) \ Reaching(found, s, Of(found, h), PoliticalThreshold)]
  <1>1. OneEach(H, f, X)
    <2>1. \A h \in H : f[h] = PoliticalPart(found, s, h)
      OBVIOUS
    <2>2. X = {f[h] : h \in H}
      BY PoliticalParts
    <2> QED BY <2>1, <2>2, PoliticalParts DEF OneEach
  <1>2. \A h \in H : /\ f[h] \in X
                     /\ v[f[h]] = Total(found, s, P[h]) /\ o[f[h]] = Total(found, s, Q[h])
    BY <1>1 DEF PoliticalPart, Section, OneEach
  <1>3. \A h \in H : v[f[h]] = Total(found, s, P[h])
    BY <1>2
  <1>4. \A h \in H : o[f[h]] = Total(found, s, Q[h])
    BY <1>2
  <1>10. Parted(DOMAIN found, H, P) /\ Parted(DOMAIN found, H, Q)
    BY DEF Parted, Of
  <1>5. DOMAIN found = UNION {P[h] : h \in H}
    <2>1. \A h \in H : P[h] = {t \in DOMAIN found : found[t].line.friendly = h}
      BY DEF Of
    <2>2. \A t \in DOMAIN found : found[t].line.friendly \in H
      BY DEF Friendly
    <2> HIDE DEF P, H
    <2>3. \A t \in DOMAIN found : \E h \in H : t \in P[h]
      BY <2>1, <2>2
    <2>4. \A h \in H : P[h] \subseteq DOMAIN found
      BY <2>1
    <2> QED BY ONLY <2>3, <2>4
  <1>6. DOMAIN found \ reach = UNION {Q[h] : h \in H}
    <2>1. \A h \in H : Q[h] = {t \in DOMAIN found : found[t].line.friendly = h /\ t \notin reach}
      BY DEF Of, Reaching
    <2>2. \A t \in DOMAIN found : found[t].line.friendly \in H
      BY DEF Friendly
    <2> HIDE DEF Q, reach, H
    <2> QED BY <2>1, <2>2
  <1>7. Sum(X) = SumOn(v, X) /\ SumFunction(o) = SumOn(o, X)
    BY SumFunctionIs DEF Sum
  <1> HIDE DEF H, X, f, v, o, reach, P, Q
  <1>8. SumOn(v, X) = Total(found, s, DOMAIN found)
    BY <1>1, <1>3, <1>10, <1>5, PartsAddUp
  <1>9. SumOn(o, X) = Total(found, s, DOMAIN found \ reach)
    BY <1>1, <1>4, <1>10, <1>6, PartsAddUp
  <1> QED BY <1>7, <1>8, <1>9 DEF X, o, reach

-----------------------------------------------------------------------------
(* Each kind of section                                                    *)

\* The kinds of sections, and what each kind lists.
LEMMA SectionKinds ==
    ASSUME NEW found, NEW s \in ReportSections
    PROVE  /\ \/ s = Donation \/ s \in ListedIncome \/ s \in Routine \cup {OtherIncome}
              \/ s \in Political \/ s = Personnel
           /\ s = Donation =>
                /\ SectionsOf(found, s) = {DonationSection(found)}
                /\ ListedIn(found, s) =
                     {t \in DOMAIN found : Total(found, Donation, Gifts(found, t)) > DonationThreshold}
           /\ s \in ListedIncome =>
                /\ SectionsOf(found, s) = {ListedSection(found, s)}
                /\ ListedIn(found, s) = DOMAIN found
           /\ s \in Routine \cup {OtherIncome} =>
                /\ SectionsOf(found, s) = {RoutineSection(found, s)}
                /\ ListedIn(found, s) = Reaching(found, s, DOMAIN found, RoutineThreshold)
           /\ s \in Political =>
                /\ SectionsOf(found, s) = PoliticalSections(found, s)
                /\ ListedIn(found, s) = Reaching(found, s, DOMAIN found, PoliticalThreshold)
           /\ s = Personnel =>
                /\ SectionsOf(found, s) = {PersonnelSection(found)}
                /\ ListedIn(found, s) = {}
           /\ s # Donation => SubtotalGroups(found, s) = {}
  <1>1. /\ Donation \notin ListedIncome \cup Routine \cup {OtherIncome} \cup Political \cup {Personnel}
        /\ ListedIncome \cap (Routine \cup {OtherIncome} \cup Political \cup {Personnel}) = {}
        /\ (Routine \cup {OtherIncome}) \cap (Political \cup {Personnel}) = {}
        /\ Personnel \notin Political
    BY DEF Donation, ListedIncome, Routine, OtherIncome, Political, Personnel
  <1>2. \/ s = Donation \/ s \in ListedIncome \/ s \in Routine \cup {OtherIncome}
        \/ s \in Political \/ s = Personnel
    BY DEF ReportSections, IncomeSections
  <1>3. SubtotalGroups(found, s) # {} => s = Donation
    BY DEF SubtotalGroups
  <1>4. CASE s = Donation
    BY <1>1, <1>3, <1>4 DEF SectionsOf, ListedIn
  <1>5. CASE s \in ListedIncome
    BY <1>1, <1>3, <1>5 DEF SectionsOf, ListedIn
  <1>6. CASE s \in Routine \cup {OtherIncome}
    BY <1>1, <1>3, <1>6 DEF SectionsOf, ListedIn
  <1>7. CASE s \in Political
    BY <1>1, <1>3, <1>7 DEF SectionsOf, ListedIn
  <1>8. CASE s = Personnel
    BY <1>1, <1>3, <1>8 DEF SectionsOf, ListedIn
  <1> QED BY <1>2, <1>4, <1>5, <1>6, <1>7, <1>8

\* The gifts of one donor are the same group whichever of them one starts from.
LEMMA GiftsAreGroups ==
    ASSUME NEW found, NEW t \in DOMAIN found, NEW u \in DOMAIN found
    PROVE  /\ t \in Gifts(found, t) /\ Gifts(found, t) \subseteq DOMAIN found
           /\ t \in Gifts(found, u) => Gifts(found, t) = Gifts(found, u)
           /\ Gifts(found, t) \cap Gifts(found, u) # {} => Gifts(found, t) = Gifts(found, u)
  BY DEF Gifts

\* The gifts listed are those of the groups that exceed the threshold.
LEMMA TargetIsListed ==
    ASSUME NEW found, NEW target,
           target = {g \in {Gifts(found, t) : t \in DOMAIN found} :
                        Total(found, Donation, g) > DonationThreshold}
    PROVE  UNION target =
             {t \in DOMAIN found : Total(found, Donation, Gifts(found, t)) > DonationThreshold}
  <1>1. ASSUME NEW t \in UNION target
        PROVE  t \in DOMAIN found /\ Total(found, Donation, Gifts(found, t)) > DonationThreshold
    <2>1. PICK u \in DOMAIN found : t \in Gifts(found, u)
                                    /\ Total(found, Donation, Gifts(found, u)) > DonationThreshold
      OBVIOUS
    <2>2. t \in DOMAIN found
      BY <2>1, GiftsAreGroups
    <2>3. Gifts(found, t) = Gifts(found, u)
      BY <2>1, <2>2, GiftsAreGroups
    <2> QED BY <2>1, <2>2, <2>3
  <1>2. ASSUME NEW t \in DOMAIN found, Total(found, Donation, Gifts(found, t)) > DonationThreshold
        PROVE  t \in UNION target
    <2>1. t \in Gifts(found, t) /\ Gifts(found, t) \in target
      BY <1>2, GiftsAreGroups
    <2> QED BY <2>1
  <1> QED BY <1>1, <1>2

\* The sections of a category add up to its total, and what they put in the
\* remainder is what they do not list.
LEMMA SectionAddsUp ==
    ASSUME NEW found, NEW s \in ReportSections, Returned(found, s)
    PROVE  /\ Sum(SectionsOf(found, s)) = Total(found, s, DOMAIN found)
           /\ s # Personnel => SumFunction([x \in SectionsOf(found, s) |-> x.other])
                                = Total(found, s, DOMAIN found \ ListedIn(found, s))
  <1>1. /\ Total(found, s, DOMAIN found) \in Int
        /\ Total(found, s, DOMAIN found \ ListedIn(found, s)) \in Int
    BY TotalIs
  <1>2. ASSUME NEW listed, NEW extra, NEW x, x = Section(found, s, DOMAIN found, listed, Blank, extra),
               SectionsOf(found, s) = {x}, listed = ListedIn(found, s)
        PROVE  /\ Sum(SectionsOf(found, s)) = Total(found, s, DOMAIN found)
               /\ SumFunction([y \in SectionsOf(found, s) |-> y.other])
                                = Total(found, s, DOMAIN found \ ListedIn(found, s))
    <2>1. /\ x.total = Total(found, s, DOMAIN found)
          /\ x.other = Total(found, s, DOMAIN found \ ListedIn(found, s))
      BY <1>2 DEF Section
    <2>2. Sum({x}) = x.total /\ SumFunction([y \in {x} |-> y.other]) = x.other
      BY <1>1, <2>1, OneSection
    <2> QED BY <1>2, <2>1, <2>2
  <1>3. CASE s = Donation
    <2> DEFINE target == {g \in {Gifts(found, t) : t \in DOMAIN found} :
                            Total(found, Donation, g) > DonationThreshold}
               extra == {[section |-> Donation, txs |-> g,
                          amount |-> Total(found, Donation, g), subtotal |-> TRUE,
                          filled |-> {"name"}, koufukin |-> FALSE]
                            : g \in {h \in target : Cardinality(h) >= 2}}
    <2>0. target = {g \in {Gifts(found, t) : t \in DOMAIN found} :
                        Total(found, Donation, g) > DonationThreshold}
      OBVIOUS
    <2>1. UNION target = ListedIn(found, s)
      <3> HIDE DEF target
      <3>1. UNION target = {t \in DOMAIN found :
                              Total(found, Donation, Gifts(found, t)) > DonationThreshold}
        BY ONLY <2>0, TargetIsListed
      <3> QED BY <1>3, <3>1, SectionKinds
    <2>2. DonationSection(found) = Section(found, s, DOMAIN found, UNION target, Blank, extra)
      BY <1>3 DEF DonationSection
    <2>3. SectionsOf(found, s) = {DonationSection(found)}
      BY <1>3, SectionKinds
    <2> HIDE DEF target, extra
    <2> QED BY <1>2, <2>1, <2>2, <2>3
  <1>4. CASE s \in ListedIncome
    <2>1. SectionsOf(found, s) = {ListedSection(found, s)} /\ ListedIn(found, s) = DOMAIN found
      BY <1>4, SectionKinds
    <2> QED BY <1>2, <2>1 DEF ListedSection
  <1>5. CASE s \in Routine \cup {OtherIncome}
    <2>1. /\ SectionsOf(found, s) = {RoutineSection(found, s)}
          /\ ListedIn(found, s) = Reaching(found, s, DOMAIN found, RoutineThreshold)
      BY <1>5, SectionKinds
    <2> QED BY <1>2, <2>1 DEF RoutineSection
  <1>6. CASE s \in Political
    <2>1. /\ SectionsOf(found, s) = PoliticalSections(found, s)
          /\ ListedIn(found, s) = Reaching(found, s, DOMAIN found, PoliticalThreshold)
      BY <1>6, SectionKinds
    <2> QED BY <2>1, PoliticalAddsUp
  <1>7. CASE s = Personnel
    <2>1. SectionsOf(found, s) = {PersonnelSection(found)}
      BY <1>7, SectionKinds
    <2>2. PersonnelSection(found).total = Total(found, s, DOMAIN found)
      BY <1>7 DEF PersonnelSection
    <2> QED BY <1>1, <1>7, <2>1, <2>2, OneSection
  <1> QED BY <1>3, <1>4, <1>5, <1>6, <1>7, SectionKinds

\* The rows of a category: one for each transaction listed, and the subtotals.
LEMMA SectionRows ==
    ASSUME NEW found, NEW s \in ReportSections
    PROVE  UNION {x.rows : x \in SectionsOf(found, s)}
             = RowsFor(found, s) \cup {SubtotalRow(found, g) : g \in SubtotalGroups(found, s)}
  <1>1. CASE s = Donation
    <2> DEFINE target == {g \in {Gifts(found, t) : t \in DOMAIN found} :
                            Total(found, Donation, g) > DonationThreshold}
               extra == {[section |-> Donation, txs |-> g,
                          amount |-> Total(found, Donation, g), subtotal |-> TRUE,
                          filled |-> {"name"}, koufukin |-> FALSE]
                            : g \in {h \in target : Cardinality(h) >= 2}}
    <2>0. target = {g \in {Gifts(found, t) : t \in DOMAIN found} :
                        Total(found, Donation, g) > DonationThreshold}
      OBVIOUS
    <2>1. UNION target = ListedIn(found, s)
      <3> HIDE DEF target
      <3>1. UNION target = {t \in DOMAIN found :
                              Total(found, Donation, Gifts(found, t)) > DonationThreshold}
        BY ONLY <2>0, TargetIsListed
      <3> QED BY <1>1, <3>1, SectionKinds
    <2>2. DonationSection(found) = Section(found, s, DOMAIN found, UNION target, Blank, extra)
      BY <1>1 DEF DonationSection
    <2>3. SectionsOf(found, s) = {DonationSection(found)}
      BY <1>1, SectionKinds
    <2>4. {h \in target : Cardinality(h) >= 2} = SubtotalGroups(found, s)
      BY <1>1 DEF SubtotalGroups
    <2>5. extra = {SubtotalRow(found, g) : g \in SubtotalGroups(found, s)}
      BY <2>4 DEF SubtotalRow
    <2> HIDE DEF target, extra
    <2>6. DonationSection(found).rows = RowsFor(found, s) \cup extra
      BY <2>1, <2>2 DEF Section, RowsFor
    <2> QED BY <2>3, <2>5, <2>6
  <1>2. ASSUME s # Donation
        PROVE  UNION {x.rows : x \in SectionsOf(found, s)} = RowsFor(found, s)
    <2>1. CASE s \in ListedIncome
      <3>1. SectionsOf(found, s) = {ListedSection(found, s)} /\ ListedIn(found, s) = DOMAIN found
        BY <2>1, SectionKinds
      <3>2. ListedSection(found, s).rows = RowsFor(found, s)
        BY <3>1 DEF ListedSection, Section, RowsFor
      <3> QED BY <3>1, <3>2
    <2>2. CASE s \in Routine \cup {OtherIncome}
      <3>1. /\ SectionsOf(found, s) = {RoutineSection(found, s)}
            /\ ListedIn(found, s) = Reaching(found, s, DOMAIN found, RoutineThreshold)
        BY <2>2, SectionKinds
      <3>2. RoutineSection(found, s).rows = RowsFor(found, s)
        BY <3>1 DEF RoutineSection, Section, RowsFor
      <3> QED BY <3>1, <3>2
    <2>3. CASE s \in Political
      <3> DEFINE R(h) == Reaching(found, s, Of(found, h), PoliticalThreshold)
      <3>1. /\ SectionsOf(found, s) = {PoliticalPart(found, s, h) : h \in Friendly(found)}
            /\ ListedIn(found, s) = Reaching(found, s, DOMAIN found, PoliticalThreshold)
        BY <2>3, SectionKinds
           DEF PoliticalSections, PoliticalPart, Friendly, Of
      <3>2. \A h : PoliticalPart(found, s, h).rows = {DetailRow(found, s, t) : t \in R(h)}
        BY DEF PoliticalPart, Section
      <3>3. \A t : t \in ListedIn(found, s) <=> \E h \in Friendly(found) : t \in R(h)
        BY <3>1 DEF Reaching, Of, Friendly
      <3>4. UNION {x.rows : x \in SectionsOf(found, s)}
              = UNION {PoliticalPart(found, s, h).rows : h \in Friendly(found)}
        BY <3>1
      <3> HIDE DEF R
      <3>5. UNION {PoliticalPart(found, s, h).rows : h \in Friendly(found)}
              = UNION {{DetailRow(found, s, t) : t \in R(h)} : h \in Friendly(found)}
        BY <3>2
      <3>6. UNION {{DetailRow(found, s, t) : t \in R(h)} : h \in Friendly(found)} = RowsFor(found, s)
        BY <3>3 DEF RowsFor
      <3> QED BY <3>4, <3>5, <3>6
    <2>4. CASE s = Personnel
      <3>1. SectionsOf(found, s) = {PersonnelSection(found)} /\ ListedIn(found, s) = {}
        BY <2>4, SectionKinds
      <3>2. PersonnelSection(found).rows = {}
        BY DEF PersonnelSection
      <3> QED BY <3>1, <3>2 DEF RowsFor
    <2> QED BY <1>2, <2>1, <2>2, <2>3, <2>4, SectionKinds
  <1>3. s # Donation => {SubtotalRow(found, g) : g \in SubtotalGroups(found, s)} = {}
    BY SectionKinds
  <1> QED BY <1>1, <1>2, <1>3

-----------------------------------------------------------------------------
(* The sheets of a file                                                    *)

\* What an export has when every query has returned.
Whole(read) == DOMAIN read = Sections /\ \A s \in Sections : Returned(read[s], s)

Subtotals(found, s) == {SubtotalRow(found, g) : g \in SubtotalGroups(found, s)}

\* The rows of some categories are those of each; their kinds tell them apart.
LEMMA RowsOfData ==
    ASSUME NEW read
    PROVE  /\ \A s \in Sections : RowsOf(Data(read), {s})
                                    = RowsFor(read[s], s) \cup Subtotals(read[s], s)
           /\ \A S, r : r \in RowsOf(Data(read), S)
                          <=> \E s \in S \cap Sections : r \in RowsOf(Data(read), {s})
  <1>1. \A s \in Sections : Data(read)[s] = SectionsOf(read[s], s)
    BY DEF Data
  <1>2. ASSUME NEW s \in Sections
        PROVE  RowsOf(Data(read), {s}) = UNION {x.rows : x \in SectionsOf(read[s], s)}
    <2>1. {s} \cap Sections = {s}
      OBVIOUS
    <2> QED BY <1>1, <2>1 DEF RowsOf
  <1>3. \A s \in Sections : s \in ReportSections
    BY ReportAssumption
  <1>4. \A S, r : r \in RowsOf(Data(read), S)
                    <=> \E s \in S \cap Sections : r \in UNION {x.rows : x \in Data(read)[s]}
    BY DEF RowsOf
  <1>5. \A S, r : r \in RowsOf(Data(read), S)
                    <=> \E s \in S \cap Sections : r \in RowsOf(Data(read), {s})
    BY <1>1, <1>2, <1>4
  <1> QED BY <1>2, <1>3, <1>5, SectionRows DEF Subtotals

\* The fields of the rows of each kind.
LEMMA RowFields ==
    /\ \A found, s, t : LET r == DetailRow(found, s, t)
                        IN  /\ r.section = s /\ r.txs = {t} /\ r.subtotal = FALSE
                            /\ r.amount = Amount(found[t], s)
                            /\ r.koufukin = (s \in Routine \cup Political /\ found[t].grant)
    /\ \A found, g : LET r == SubtotalRow(found, g)
                     IN  /\ r.section = Donation /\ r.txs = g /\ r.subtotal = TRUE
                         /\ r.amount = Total(found, Donation, g) /\ r.koufukin = FALSE
  BY DEF DetailRow, SubtotalRow

\* The rows of a category that are no subtotals.
LEMMA DetailsAre ==
    ASSUME NEW read, NEW s \in Sections
    PROVE  Details(Data(read), s) = RowsFor(read[s], s)
  <1>1. \A r \in RowsFor(read[s], s) : ~r.subtotal
    BY RowFields DEF RowsFor
  <1>2. \A r \in Subtotals(read[s], s) : r.subtotal
    BY RowFields DEF Subtotals
  <1>3. RowsOf(Data(read), {s}) = RowsFor(read[s], s) \cup Subtotals(read[s], s)
    BY RowsOfData
  <1> QED BY <1>1, <1>2, <1>3 DEF Details

\* Which rows are subtotals, and that each has the section it is found in.
LEMMA SubtotalsAre ==
    ASSUME NEW read, NEW S, NEW r \in RowsOf(Data(read), S)
    PROVE  /\ r.section \in S \cap Sections /\ r \in RowsOf(Data(read), {r.section})
           /\ r.subtotal => /\ r.section = Donation /\ Donation \in Sections
                            /\ r \in Subtotals(read[Donation], Donation)
           /\ ~r.subtotal => /\ r \in RowsFor(read[r.section], r.section)
  <1>1. PICK s \in S \cap Sections : r \in RowsOf(Data(read), {s})
    BY RowsOfData
  <1>2. r \in RowsFor(read[s], s) \/ r \in Subtotals(read[s], s)
    BY <1>1, RowsOfData
  <1>3. ASSUME r \in RowsFor(read[s], s)
        PROVE  r.section = s /\ ~r.subtotal
    BY <1>3, RowFields DEF RowsFor
  <1>4. ASSUME r \in Subtotals(read[s], s)
        PROVE  s = Donation /\ r.section = s /\ r.subtotal
    BY <1>4, RowFields DEF Subtotals, SubtotalGroups
  <1> QED BY <1>1, <1>2, <1>3, <1>4

\* The total of a category is its rows and its remainder.
LEMMA TotalsReconcile ==
    ASSUME NEW read, Whole(read), NEW s \in Sections \ {Personnel}
    PROVE  Sum(Data(read)[s]) = SumRows(Details(Data(read), s))
                                + SumFunction([x \in Data(read)[s] |-> x.other])
  <1> DEFINE found == read[s]
  <1>1. Data(read)[s] = SectionsOf(found, s) /\ Returned(found, s) /\ s \in ReportSections
    BY ReportAssumption DEF Data, Whole
  <1>2. Details(Data(read), s) = RowsFor(found, s)
    BY DetailsAre
  <1> HIDE DEF found
  <1>3. ListedIn(found, s) \in SUBSET DOMAIN found
    BY <1>1, SectionKinds DEF Reaching
  <1>4. /\ SumRows(RowsFor(found, s)) = Total(found, s, ListedIn(found, s))
    BY <1>1, <1>3, RowsAddUp DEF RowsFor
  <1>5. /\ Sum(SectionsOf(found, s)) = Total(found, s, DOMAIN found)
        /\ SumFunction([x \in SectionsOf(found, s) |-> x.other])
             = Total(found, s, DOMAIN found \ ListedIn(found, s))
    BY <1>1, SectionAddsUp
  <1>6. Total(found, s, DOMAIN found)
          = Total(found, s, ListedIn(found, s)) + Total(found, s, DOMAIN found \ ListedIn(found, s))
    BY <1>1, <1>3, TotalTwo
  <1> QED BY <1>1, <1>2, <1>4, <1>5, <1>6

\* A subtotal repeats the rows of its donor, and no two share a transaction.
LEMMA SubtotalsReconcile ==
    ASSUME NEW read, Whole(read),
           NEW r \in RowsOf(Data(read), Sections), r.subtotal
    PROVE  /\ r.amount = SumRows({d \in Details(Data(read), Donation) : d.txs \subseteq r.txs})
           /\ \A q \in RowsOf(Data(read), Sections) :
                q.subtotal /\ q # r => q.txs \cap r.txs = {}
  <1> DEFINE found == read[Donation]
  <1>1. Donation \in Sections /\ r \in Subtotals(found, Donation)
    BY SubtotalsAre
  <1>2. Returned(found, Donation) /\ Donation \in ReportSections
    BY <1>1, ReportAssumption DEF Whole
  <1>3. Details(Data(read), Donation) = RowsFor(found, Donation)
    BY <1>1, DetailsAre
  <1>4. \A q \in RowsOf(Data(read), Sections) : q.subtotal => q \in Subtotals(found, Donation)
    BY SubtotalsAre
  <1> HIDE DEF found
  <1>5. PICK u \in DOMAIN found :
            /\ r = SubtotalRow(found, Gifts(found, u))
            /\ Total(found, Donation, Gifts(found, u)) > DonationThreshold
    BY <1>1 DEF Subtotals, SubtotalGroups
  <1>6. r.txs = Gifts(found, u) /\ r.amount = Total(found, Donation, Gifts(found, u))
    BY <1>5, RowFields
  <1>7. Gifts(found, u) \subseteq ListedIn(found, Donation)
    <2>1. ASSUME NEW t \in Gifts(found, u)
          PROVE  t \in ListedIn(found, Donation)
      <3>1. t \in DOMAIN found
        BY GiftsAreGroups
      <3>2. Gifts(found, t) = Gifts(found, u)
        BY <3>1, GiftsAreGroups
      <3> QED BY <1>2, <1>5, <3>1, <3>2, SectionKinds
    <2> QED BY <2>1
  <1>8. {d \in RowsFor(found, Donation) : d.txs \subseteq r.txs}
            = {DetailRow(found, Donation, t) : t \in Gifts(found, u)}
    <2>1. \A t : DetailRow(found, Donation, t).txs = {t}
      BY RowFields
    <2> QED BY <1>6, <1>7, <2>1 DEF RowsFor
  <1>9. Gifts(found, u) \in SUBSET DOMAIN found
    BY GiftsAreGroups
  <1>10. SumRows({DetailRow(found, Donation, t) : t \in Gifts(found, u)})
            = Total(found, Donation, Gifts(found, u))
    BY <1>2, <1>9, RowsAddUp
  <1>11. ASSUME NEW q \in Subtotals(found, Donation), q # r
         PROVE  q.txs \cap r.txs = {}
    <2>1. PICK v \in DOMAIN found : q = SubtotalRow(found, Gifts(found, v))
      BY DEF Subtotals, SubtotalGroups
    <2>2. Gifts(found, v) # Gifts(found, u)
      BY <1>5, <1>11, <2>1
    <2>3. Gifts(found, v) \cap Gifts(found, u) = {}
      BY <2>2, GiftsAreGroups
    <2> QED BY <1>6, <2>1, <2>3, RowFields
  <1> QED BY <1>3, <1>4, <1>6, <1>8, <1>10, <1>11

\* There are finitely many sections.
LEMMA SectionsFinite == IsFiniteSet(Sections)
  <1>1. \A x : IsFiniteSet({x})
    BY FS_Singleton
  <1>2. \A S, x : IsFiniteSet(S) => IsFiniteSet(S \cup {x})
    BY FS_AddElement
  <1>3. \A S, T : IsFiniteSet(S) /\ IsFiniteSet(T) => IsFiniteSet(S \cup T)
    BY FS_Union
  <1>4. IsFiniteSet(ListedIncome)
    <2>1. ListedIncome = ({"publication-income"} \cup {"loans"}) \cup {"grants"}
      BY DEF ListedIncome
    <2> QED BY <1>1, <1>2, <2>1
  <1>5. IsFiniteSet(Routine)
    <2>1. Routine = ({"utilities"} \cup {"equipment-supplies"}) \cup {"office-expenses"}
      BY DEF Routine
    <2> QED BY <1>1, <1>2, <2>1
  <1>6. IsFiniteSet(Political)
    <2> DEFINE A == ({"organizational-activities"} \cup {"election-expenses"})
                      \cup {"publication-expenses"}
               B == ({"advertising-expenses"} \cup {"fundraising-party-expenses"})
                      \cup {"other-business-expenses"}
               C == ({"research-expenses"} \cup {"donations-grants-expenses"})
                      \cup {"other-expenses"}
    <2>1. IsFiniteSet(A) /\ IsFiniteSet(B) /\ IsFiniteSet(C)
      BY <1>1, <1>2
    <2>2. Political = (A \cup B) \cup C
      BY DEF Political
    <2> HIDE DEF A, B, C
    <2> QED BY <1>3, <2>1, <2>2
  <1>7. IsFiniteSet(((({Donation} \cup {OtherIncome}) \cup ListedIncome) \cup Routine)
                        \cup (Political \cup {Personnel}))
    BY <1>1, <1>3, <1>4, <1>5, <1>6
  <1>8. Sections \subseteq ((({Donation} \cup {OtherIncome}) \cup ListedIncome) \cup Routine)
                        \cup (Political \cup {Personnel})
    BY ReportAssumption DEF ReportSections, IncomeSections
  <1> QED BY <1>7, <1>8, FS_Subset

\* The rows of a category that carry the flag.
Flagged(read, s) == {r \in RowsOf(Data(read), {s}) : r.koufukin}

\* The rows marked as grants are detail rows of spending, finitely many.
LEMMA FlaggedRows ==
    ASSUME NEW read, Whole(read), NEW s \in Sections
    PROVE  /\ Flagged(read, s) \subseteq RowsFor(read[s], s)
           /\ IsFiniteSet(Flagged(read, s))
           /\ \A r \in Flagged(read, s) : /\ r.amount \in Int /\ r.section = s
                                          /\ s \in Routine \cup Political
  <1>1. RowsOf(Data(read), {s}) = RowsFor(read[s], s) \cup Subtotals(read[s], s)
    BY RowsOfData
  <1>2. \A r \in Subtotals(read[s], s) : ~r.koufukin
    BY RowFields DEF Subtotals
  <1>3. Flagged(read, s) \subseteq RowsFor(read[s], s)
    BY <1>1, <1>2 DEF Flagged
  <1>4. ListedIn(read[s], s) \in SUBSET DOMAIN read[s]
    BY SectionKinds, ReportAssumption DEF Reaching
  <1>5. /\ IsFiniteSet(RowsFor(read[s], s))
        /\ \A r \in RowsFor(read[s], s) : r.amount \in Int
    BY <1>4, RowsAddUp DEF RowsFor, Whole
  <1>6. \A r \in RowsFor(read[s], s) :
            r.section = s /\ (r.koufukin => s \in Routine \cup Political)
    <2> SUFFICES ASSUME NEW r \in RowsFor(read[s], s)
                 PROVE  r.section = s /\ (r.koufukin => s \in Routine \cup Political)
      OBVIOUS
    <2>1. PICK t \in ListedIn(read[s], s) : r = DetailRow(read[s], s, t)
      BY DEF RowsFor
    <2>2. r.section = s
      BY <2>1, RowFields
    <2>3. r.koufukin = (s \in Routine \cup Political /\ read[s][t].grant)
      BY <2>1, RowFields
    <2>4. r.koufukin => s \in Routine \cup Political
      BY ONLY <2>3, Zenon
    <2> QED BY <2>2, <2>4
  <1>7. \A r \in Flagged(read, s) : r.koufukin
    BY DEF Flagged
  <1> QED BY <1>3, <1>5, <1>6, <1>7, FS_Subset

\* The grant column of sheet 13 adds up to the rows of sheet 16.
LEMMA GrantsReconcile ==
    ASSUME NEW read, Whole(read)
    PROVE  SumFunction(ExpenseSummary(Data(read)).grant) = SumRows(GrantRows(Data(read)))
  <1> DEFINE E == Sections \ IncomeSections
             R == GrantRows(Data(read))
             P == [s \in E |-> Flagged(read, s)]
             v == [s \in E |-> SumRows(Flagged(read, s))]
             w == [r \in R |-> r.amount]
  <1>1. ExpenseSummary(Data(read)).grant = v
    BY DEF ExpenseSummary, Flagged
  <1>2. IsFiniteSet(E)
    BY SectionsFinite, FS_Subset
  <1>3. \A r : r \in R <=> \E s \in (Routine \cup Political) \cap Sections : r \in Flagged(read, s)
    BY RowsOfData DEF GrantRows, Flagged
  <1>4. \A s \in E : P[s] = Flagged(read, s) /\ v[s] = SumRows(Flagged(read, s))
    OBVIOUS
  <1>5. (Routine \cup Political) \cap Sections \subseteq E
    BY DEF Routine, Political, IncomeSections, Donation, OtherIncome, ListedIncome
  <1>6. R = UNION {P[s] : s \in E}
    <2> HIDE DEF R, P, E
    <2>1. \A r \in R : \E s \in E : r \in P[s]
      BY <1>3, <1>4, <1>5
    <2>2. \A s \in E : \A r \in P[s] : r \in R
      <3> SUFFICES ASSUME NEW s \in E, NEW r \in P[s] PROVE r \in R
        OBVIOUS
      <3>1. s \in Sections /\ r \in Flagged(read, s)
        BY <1>4 DEF E
      <3> QED BY <1>3, <3>1, FlaggedRows
    <2> QED BY ONLY <2>1, <2>2
  <1>7. DOMAIN w = R /\ \A r \in R : w[r] = r.amount
    OBVIOUS
  <1>8. SumRows(R) = SumOn(w, R) /\ SumFunction(v) = SumOn(v, E)
    BY SumFunctionIs DEF SumRows
  <1>9. ASSUME NEW s \in E
        PROVE  /\ IsFiniteSet(P[s]) /\ v[s] = SumOn(w, P[s])
               /\ \A r \in P[s] : w[r] \in Int
    <2> DEFINE F == Flagged(read, s)
               u == [r \in F |-> r.amount]
    <2>1. P[s] = F /\ v[s] = SumRows(F)
      BY <1>4
    <2>2. IsFiniteSet(F) /\ \A r \in F : r.amount \in Int
      BY FlaggedRows
    <2>3. DOMAIN u = F /\ \A r \in F : u[r] = r.amount
      OBVIOUS
    <2>4. SumRows(F) = SumOn(u, F)
      BY SumFunctionIs DEF SumRows
    <2>5. F \subseteq R
      BY <1>6, <2>1
    <2> HIDE DEF F, u, P, v, w, R
    <2>6. \A r \in F : u[r] = w[r]
      BY <1>7, <2>3, <2>5
    <2>7. SumOn(u, F) = SumOn(w, F)
      BY <2>2, <2>6, SumSame
    <2> QED BY <1>7, <2>1, <2>2, <2>4, <2>5, <2>7
  <1>10. \A s, x \in E : s # x => P[s] \cap P[x] = {}
    <2>1. \A s \in E : \A r \in P[s] : r.section = s
      BY FlaggedRows
    <2> HIDE DEF P
    <2> QED BY <2>1
  <1> HIDE DEF E, R, P, v, w
  <1>11. SumOn(v, E) = SumOn(w, R)
    BY <1>2, <1>6, <1>9, <1>10, SumParts DEF SummedParts
  <1> QED BY <1>1, <1>8, <1>11 DEF R

-----------------------------------------------------------------------------
(* The flags and the forms                                                 *)

\* The form of each section.
LEMMA FormOfIs ==
    ASSUME NEW s \in ReportSections
    PROVE  /\ s \in IncomeSections => FormOf(s) \in {"03", "04", "05", "06", "07"}
           /\ s \in Routine => FormOf(s) = "14"
           /\ s \in Political => FormOf(s) = "15"
           /\ s \in IncomeSections \/ s \in Routine \/ s \in Political \/ s = Personnel
           /\ s # Personnel => s \in IncomeSections \cup Routine \cup Political
           /\ s \notin {"01", "02", "13", "16"}
           /\ Personnel \notin IncomeSections \cup Routine \cup Political
  BY DEF FormOf, ReportSections, IncomeSections, Donation, OtherIncome, ListedIncome,
         Routine, Political, Personnel

\* Some sections have output when one of them has.
LEMMA OutputSome ==
    ASSUME NEW data, NEW S
    PROVE  Output(data, S) <=> \E s \in S \cap Sections : Output(data, {s})
  BY DEF Output

\* The digits of SYUUSHI_UMU_FLG and the forms that follow, form 13 apart.
LEMMA FormsFollowFlags ==
    ASSUME NEW data
    PROVE  Forms(data) \ {"13"} =
             (Flags(data) \cap {"01", "02", "16"})
                \cup {FormOf(s) : s \in Flags(data) \cap Sections}
  <1> DEFINE on == {s \in Sections \ {Personnel} : Output(data, {s})}
             grants == GrantRows(data) # {}
             F == Forms(data)
             G == Flags(data)
  <1>1. \A s \in Sections : s \in ReportSections
    BY ReportAssumption
  <1>2. G \cap Sections = on
    BY <1>1, FormOfIs DEF Flags
  <1>3. /\ "01" \in G /\ "02" \in G /\ ("16" \in G <=> grants)
    BY <1>1, FormOfIs DEF Flags
  <1>4. \A f : f \in F <=> \/ f \in {"01", "02"}
                           \/ \E s \in IncomeSections \cap Sections :
                                Output(data, {s}) /\ f = FormOf(s)
                           \/ f = "14" /\ Output(data, Routine)
                           \/ f = "13" /\ ExpenseSummary(data).total > 0
                           \/ f = "15" /\ Output(data, Political)
                           \/ f = "16" /\ grants
    BY DEF Forms
  <1>5. \A f : f \in {FormOf(s) : s \in on}
                 <=> \/ \E s \in IncomeSections \cap Sections :
                                Output(data, {s}) /\ f = FormOf(s)
                     \/ f = "14" /\ Output(data, Routine)
                     \/ f = "15" /\ Output(data, Political)
    <2>1. ASSUME NEW s \in on
          PROVE  \/ s \in IncomeSections \cap Sections /\ Output(data, {s})
                 \/ FormOf(s) = "14" /\ Output(data, Routine)
                 \/ FormOf(s) = "15" /\ Output(data, Political)
      <3>1. s \in ReportSections /\ s \in Sections /\ s # Personnel /\ Output(data, {s})
        BY <1>1
      <3> HIDE DEF on
      <3> QED BY <3>1, FormOfIs, OutputSome
    <2>2. ASSUME NEW s \in IncomeSections \cap Sections, Output(data, {s})
          PROVE  s \in on
      BY <1>1, <2>2, FormOfIs
    <2>3. ASSUME Output(data, Routine)
          PROVE  \E s \in on : FormOf(s) = "14"
      <3>1. PICK s \in Routine \cap Sections : Output(data, {s})
        BY <2>3, OutputSome
      <3>2. s \in on
        BY <1>1, <3>1, FormOfIs
      <3> QED BY <1>1, <3>1, <3>2, FormOfIs
    <2>4. ASSUME Output(data, Political)
          PROVE  \E s \in on : FormOf(s) = "15"
      <3>1. PICK s \in Political \cap Sections : Output(data, {s})
        BY <2>4, OutputSome
      <3>2. s \in on
        BY <1>1, <3>1, FormOfIs
      <3> QED BY <1>1, <3>1, <3>2, FormOfIs
    <2> HIDE DEF on
    <2> QED BY <2>1, <2>2, <2>3, <2>4
  <1>6. \A s \in IncomeSections \cap Sections : FormOf(s) # "13"
    BY <1>1, FormOfIs
  <1> HIDE DEF on, grants, F, G
  <1>7. \A f : f \in F \ {"13"} <=> f \in (G \cap {"01", "02", "16"}) \cup {FormOf(s) : s \in on}
    BY <1>3, <1>4, <1>5, <1>6
  <1>8. F \ {"13"} = (G \cap {"01", "02", "16"}) \cup {FormOf(s) : s \in on}
    BY <1>7
  <1> QED BY <1>2, <1>8 DEF F, G

\* The amounts of a category of expenses without a negative one: its total is
\* positive, or a section of it has content, exactly if one of them is positive.
LEMMA ContentIsTotal ==
    ASSUME NEW read, Whole(read), NEW s \in Sections,
           \A t \in DOMAIN read[s] : Amount(read[s][t], s) >= 0
    PROVE  /\ Sum(Data(read)[s]) \in Nat
           /\ s \in Routine \cup Political =>
                (Output(Data(read), {s}) <=> Sum(Data(read)[s]) > 0)
  <1> DEFINE found == read[s]
             a == Amounts(found, s)
             some(T) == \E t \in T : a[t] > 0
  <1>1. Data(read)[s] = SectionsOf(found, s) /\ Returned(found, s) /\ s \in ReportSections
    BY ReportAssumption DEF Data, Whole
  <1>2. \A t \in DOMAIN found : a[t] = Amount(found[t], s) /\ a[t] \in Nat
    BY <1>1, AmountInt DEF Amounts, Returned
  <1>3. Output(Data(read), {s}) <=> \E x \in SectionsOf(found, s) : HasContent(x)
    BY <1>1 DEF Output
  <1> HIDE DEF found, a
  <1>4. ASSUME NEW T \in SUBSET DOMAIN found
        PROVE  /\ Total(found, s, T) \in Nat
               /\ Total(found, s, T) > 0 <=> some(T)
    <2>1. IsFiniteSet(T) /\ Total(found, s, T) = SumOn(a, T)
      BY <1>1, TotalIs DEF a
    <2>2. \A t \in T : a[t] \in Nat
      BY <1>2
    <2> QED BY <2>1, <2>2, SumPositive
  <1>5. Sum(SectionsOf(found, s)) = Total(found, s, DOMAIN found)
    BY <1>1, SectionAddsUp
  <1>6. ASSUME s \in Routine \cup Political, some(DOMAIN found)
        PROVE  \E x \in SectionsOf(found, s) : HasContent(x)
    <2>1. CASE s \in Political
      <3>1. PICK t \in DOMAIN found : a[t] > 0
        BY <1>6
      <3> DEFINE h == found[t].line.friendly
                 x == PoliticalPart(found, s, h)
      <3>2. t \in Of(found, h) /\ Of(found, h) \in SUBSET DOMAIN found /\ h \in Friendly(found)
        BY DEF Of, Friendly
      <3>3. x \in SectionsOf(found, s)
        BY <1>1, <2>1, <3>2, SectionKinds, PoliticalParts
      <3>4. x.total = Total(found, s, Of(found, h))
        BY DEF PoliticalPart, Section
      <3>5. Total(found, s, Of(found, h)) > 0
        BY <1>4, <3>1, <3>2
      <3> HIDE DEF x
      <3> QED BY <3>3, <3>4, <3>5 DEF HasContent
    <2>2. CASE s \notin Political
      <3>1. /\ RoutineSection(found, s) \in SectionsOf(found, s)
            /\ RoutineSection(found, s).total = Total(found, s, DOMAIN found)
        BY <1>1, <1>6, <2>2, SectionKinds DEF RoutineSection, Section
      <3>2. Total(found, s, DOMAIN found) > 0
        BY <1>4, <1>6
      <3> QED BY <3>1, <3>2 DEF HasContent
    <2> QED BY <2>1, <2>2
  <1>7. ASSUME s \in Routine \cup Political, NEW x \in SectionsOf(found, s), HasContent(x)
        PROVE  some(DOMAIN found)
    <2>1. PICK T \in SUBSET DOMAIN found : x.total = Total(found, s, T)
      <3>1. CASE s \in Political
        <4>1. PICK h \in Friendly(found) : x = PoliticalPart(found, s, h)
          BY <1>1, <1>7, <3>1, SectionKinds, PoliticalParts
        <4>2. x.total = Total(found, s, Of(found, h)) /\ Of(found, h) \in SUBSET DOMAIN found
          BY <4>1 DEF PoliticalPart, Section, Of
        <4> QED BY <4>2
      <3>2. CASE s \notin Political
        <4>1. x.total = Total(found, s, DOMAIN found)
          <5>1. SectionsOf(found, s) = {RoutineSection(found, s)}
            BY <1>1, <1>7, <3>2, SectionKinds
          <5>2. RoutineSection(found, s).total = Total(found, s, DOMAIN found)
            BY DEF RoutineSection, Section
          <5>3. x = RoutineSection(found, s)
            BY <1>7, <5>1
          <5> QED BY <5>2, <5>3
        <4>2. DOMAIN found \in SUBSET DOMAIN found
          OBVIOUS
        <4> QED BY <4>1, <4>2
      <3> QED BY <3>1, <3>2
    <2>2. CASE x.total > 0
      BY <1>4, <2>1, <2>2
    <2>3. CASE x.rows # {}
      <3>1. PICK r : r \in RowsFor(found, s) \cup Subtotals(found, s)
        BY <1>1, <2>3, SectionRows DEF Subtotals
      <3>2. s # Donation
        BY <1>7 DEF Donation, Routine, Political
      <3>3. PICK t \in ListedIn(found, s) : TRUE
        BY <1>1, <3>1, <3>2, SectionKinds DEF RowsFor, Subtotals
      <3>4. \/ t \in Reaching(found, s, DOMAIN found, RoutineThreshold)
            \/ t \in Reaching(found, s, DOMAIN found, PoliticalThreshold)
        BY <1>1, <1>7, <3>3, SectionKinds
      <3>5. t \in DOMAIN found /\ a[t] > 0
        BY <1>2, <3>4, ReportAssumption DEF Reaching
      <3> QED BY <3>5
    <2> QED BY <1>7, <2>2, <2>3 DEF HasContent
  <1>8. Sum(Data(read)[s]) \in Nat /\ (Sum(Data(read)[s]) > 0 <=> some(DOMAIN found))
    BY <1>1, <1>4, <1>5
  <1> HIDE DEF some
  <1> QED BY <1>3, <1>6, <1>7, <1>8

\* The sums of some sections exceed 0 when that of one of them does, if none is
\* negative.
LEMMA SumOverPositive ==
    ASSUME NEW read, Whole(read), Nonnegative(read), NEW S
    PROVE  SumOver(Data(read), S) > 0 <=> \E s \in S \cap Sections : Sum(Data(read)[s]) > 0
  <1> DEFINE U == S \cap Sections
             v == [s \in U |-> Sum(Data(read)[s])]
  <1>1. SumOver(Data(read), S) = SumOn(v, U)
    BY SumFunctionIs DEF SumOver
  <1>2. IsFiniteSet(U) /\ U \subseteq Sections
    BY SectionsFinite, FS_Subset
  <1>3. \A s \in U : v[s] = Sum(Data(read)[s])
    OBVIOUS
  <1> HIDE DEF U, v
  <1>4. \A s \in U : v[s] \in Nat
    BY <1>2, <1>3, ContentIsTotal DEF Nonnegative, Whole
  <1>5. SumOn(v, U) > 0 <=> \E s \in U : v[s] > 0
    BY <1>2, <1>4, SumPositive
  <1> QED BY <1>1, <1>3, <1>5 DEF U

\* Form 13 and its digit.
LEMMA SheetThirteen ==
    ASSUME NEW read, Whole(read), Nonnegative(read)
    PROVE  "13" \in Flags(Data(read)) <=> "13" \in Forms(Data(read))
  <1> DEFINE data == Data(read)
             All == Routine \cup Political \cup {Personnel}
  <1>1. \A s \in Sections : s \in ReportSections
    BY ReportAssumption
  <1>2. "13" \in Flags(data) <=> \/ SumOver(data, {Personnel}) > 0
                                 \/ Output(data, Routine) \/ Output(data, Political)
    <2>1. "13" \notin Sections
      BY <1>1, FormOfIs
    <2> HIDE DEF data
    <2> QED BY <2>1 DEF Flags
  <1>3. "13" \in Forms(data) <=> SumOver(data, All) > 0
    <2>1. \A s \in IncomeSections \cap Sections : FormOf(s) # "13"
      BY <1>1, FormOfIs
    <2> HIDE DEF data
    <2>2. ExpenseSummary(data).total = SumOver(data, All)
      BY DEF ExpenseSummary
    <2> HIDE DEF All
    <2> QED BY <2>1, <2>2 DEF Forms
  <1>4. \A s \in (Routine \cup Political) \cap Sections :
            Output(data, {s}) <=> Sum(data[s]) > 0
    BY ContentIsTotal DEF Nonnegative, Whole
  <1>5. /\ SumOver(data, {Personnel}) > 0 <=> \E s \in {Personnel} \cap Sections : Sum(data[s]) > 0
        /\ SumOver(data, All) > 0 <=> \E s \in All \cap Sections : Sum(data[s]) > 0
    BY SumOverPositive
  <1>6. \A S : Output(data, S) <=> \E s \in S \cap Sections : Output(data, {s})
    BY OutputSome
  <1> HIDE DEF data
  <1>7. \/ SumOver(data, {Personnel}) > 0
        \/ Output(data, Routine) \/ Output(data, Political)
        <=> SumOver(data, All) > 0
    BY <1>4, <1>5, <1>6
  <1> QED BY <1>2, <1>3, <1>7 DEF data

-----------------------------------------------------------------------------
(* What is listed                                                          *)

\* The transactions of the rows of sheet 07.
LEMMA GiftsListed ==
    ASSUME NEW read, Donation \in Sections
    PROVE  UNION {r.txs : r \in Details(Data(read), Donation)} = ListedIn(read[Donation], Donation)
  <1>1. Details(Data(read), Donation) = RowsFor(read[Donation], Donation)
    BY DetailsAre
  <1>2. \A t : DetailRow(read[Donation], Donation, t).txs = {t}
    BY RowFields
  <1> QED BY <1>1, <1>2 DEF RowsFor

\* A donor's gifts are listed all or none.
AllOrNone(found, listed) ==
    /\ \A d \in Donors :
         LET gifts == {t \in DOMAIN found : found[t].donor = d}
             given == SumFunction([t \in gifts |-> ResolveIncomeAmount(found[t].line)])
         IN  gifts \cap listed = IF given > DonationThreshold THEN gifts ELSE {}
    /\ \A t \in DOMAIN found : found[t].donor = NoParty =>
         (t \in listed <=> ResolveIncomeAmount(found[t].line) > DonationThreshold)

\* A donor is listed with all the gifts or with none.
LEMMA DonorsWhole ==
    ASSUME NEW read, Whole(read), Donation \in Sections,
           NEW found, found = read[Donation], NEW listed, listed = ListedIn(found, Donation)
    PROVE  AllOrNone(found, listed)
  <1>1. Returned(found, Donation) /\ Donation \in ReportSections
    BY ReportAssumption DEF Whole
  <1>2. listed = {t \in DOMAIN found : Total(found, Donation, Gifts(found, t)) > DonationThreshold}
    BY <1>1, SectionKinds
  <1>3. Donation \in IncomeSections
    BY DEF IncomeSections
  <1>4. ASSUME NEW d \in Donors
        PROVE  LET gifts == {t \in DOMAIN found : found[t].donor = d}
                   given == SumFunction([t \in gifts |-> ResolveIncomeAmount(found[t].line)])
               IN  gifts \cap listed = IF given > DonationThreshold THEN gifts ELSE {}
    <2> DEFINE gifts == {t \in DOMAIN found : found[t].donor = d}
               given == SumFunction([t \in gifts |-> ResolveIncomeAmount(found[t].line)])
    <2>1. given = Total(found, Donation, gifts)
      BY <1>3 DEF Total, Amount
    <2>2. d # NoParty
      BY ReportAssumption
    <2>3. \A t \in gifts : Gifts(found, t) = gifts
      BY <2>2 DEF Gifts
    <2>4. \A t \in gifts : t \in DOMAIN found
      OBVIOUS
    <2> HIDE DEF gifts, given
    <2>5. \A t \in gifts : t \in listed <=> given > DonationThreshold
      BY <1>2, <2>1, <2>3, <2>4
    <2>6. gifts \cap listed = IF given > DonationThreshold THEN gifts ELSE {}
      BY <2>5
    <2> QED BY <2>6 DEF gifts, given
  <1>5. ASSUME NEW t \in DOMAIN found, found[t].donor = NoParty
        PROVE  t \in listed <=> ResolveIncomeAmount(found[t].line) > DonationThreshold
    <2>1. Gifts(found, t) = {t}
      BY <1>5 DEF Gifts
    <2>2. {t} \in SUBSET DOMAIN found
      OBVIOUS
    <2>3. /\ Total(found, Donation, {t}) = SumOn(Amounts(found, Donation), {t})
          /\ Amounts(found, Donation)[t] = Amount(found[t], Donation)
          /\ Amounts(found, Donation)[t] \in Int
      BY <1>1, <2>2, TotalIs
    <2>4. Total(found, Donation, {t}) = ResolveIncomeAmount(found[t].line)
      BY <1>3, <2>3, SumOne DEF Amount
    <2> QED BY <1>2, <2>1, <2>4
  <1> QED BY <1>4, <1>5 DEF AllOrNone

\* What the pages ask for is enough for a row of a transaction to be valid.
LEMMA RowIsValid ==
    ASSUME NEW found, NEW s \in Sections, Returned(found, s), NEW t \in ListedIn(found, s),
           NEW row, row = found[t],
           row.line.debit > 0, row.line.credit > 0, row.line.friendly # Blank,
           Belongs(row, Donation) => row.donor \in Complete,
           RequiresCounterpartDetail(row) => row.counterpart \in Complete
    PROVE  LET r == DetailRow(found, s, t)
           IN  Obligatory(r.section) \subseteq r.filled /\ r.amount > 0
  <1> DEFINE r == DetailRow(found, s, t)
             party == IF s = Donation THEN row.donor ELSE row.counterpart
  <1>1. s \in ReportSections
    BY ReportAssumption
  <1>2. t \in DOMAIN found /\ row \in Rows /\ Belongs(row, s)
    BY <1>1, SectionKinds DEF Reaching, Returned
  <1>3. row.line.debit \in Int /\ row.line.credit \in Int
    BY <1>2, ReportAssumption DEF Rows
  <1>4. r.section = s /\ r.amount = Amount(row, s)
    BY RowFields
  <1>5. Amount(row, s) > 0
    BY <1>3 DEF Amount, ResolveIncomeAmount, ResolveExpenseAmount
  <1>6. r.filled = Named(party) \cup Described(party) \cup {"purpose"}
    BY DEF DetailRow, Purpose
  <1>7. NoParty \notin Complete
    BY ReportAssumption
  <1>8. party \in Complete => r.filled = {"name", "address", "occupation", "purpose"}
    <2> HIDE DEF r, party
    <2> QED BY <1>6, <1>7 DEF Named, Described
  <1>9. s \notin IncomeSections => Amount(row, s) = row.line.debit
    BY DEF Amount, ResolveExpenseAmount
  <1>10. /\ Routine \cap IncomeSections = {} /\ Political \cap IncomeSections = {}
         /\ Donation \notin ListedIncome \cup Routine \cup Political
    BY DEF Routine, Political, IncomeSections, ListedIncome, OtherIncome, Donation
  <1>11. CASE s = Donation
    <2>1. party \in Complete
      BY <1>2, <1>11
    <2>2. Obligatory(s) = {"name", "address", "occupation"}
      BY <1>11 DEF Obligatory, Donation, OtherIncome, Routine, Political
    <2> HIDE DEF r, party
    <2> QED BY <1>4, <1>5, <1>8, <2>1, <2>2 DEF r
  <1>12. CASE s \in {"publication-income", OtherIncome}
    <2>1. Obligatory(s) = {"purpose"}
      BY <1>12 DEF Obligatory, Donation, OtherIncome, Routine, Political
    <2> QED BY <1>4, <1>5, <1>6, <2>1
  <1>13. CASE s \in {"loans", "grants"} \cup Routine \cup Political
    <2>1. RequiresCounterpartDetail(row)
      <3>1. CASE s \in {"loans", "grants"}
        BY <1>2, <1>3, <3>1 DEF RequiresCounterpartDetail
      <3>2. CASE s \in Routine
        <4>1. Amount(row, s) >= RoutineThreshold
          BY <1>1, <3>2, SectionKinds DEF Reaching
        <4> QED BY <1>2, <1>9, <1>10, <3>2, <4>1 DEF RequiresCounterpartDetail
      <3>3. CASE s \in Political
        <4>1. Amount(row, s) >= PoliticalThreshold
          BY <1>1, <3>3, SectionKinds DEF Reaching
        <4> QED BY <1>2, <1>9, <1>10, <3>3, <4>1 DEF RequiresCounterpartDetail
      <3> QED BY <1>13, <3>1, <3>2, <3>3
    <2>2. s # Donation
      BY <1>13, <1>10 DEF Donation
    <2>3. party \in Complete
      BY <2>1, <2>2
    <2>4. Obligatory(s) \subseteq {"name", "address", "purpose"}
      BY <1>13 DEF Obligatory, Donation, OtherIncome, Routine, Political
    <2> HIDE DEF r, party
    <2> QED BY <1>4, <1>5, <1>8, <2>3, <2>4 DEF r
  <1>14. s # Personnel
    BY <1>1, SectionKinds
  <1> QED BY <1>1, <1>11, <1>12, <1>13, <1>14, SectionKinds DEF ListedIncome

\* Nothing invalid is left in a file whose transactions have what was asked.
LEMMA NothingMissing ==
    ASSUME NEW read, Whole(read),
           \A r \in UNION {{read[s][t] : t \in DOMAIN read[s]} : s \in Sections} :
              /\ r.line.debit > 0 /\ r.line.credit > 0 /\ r.line.friendly # Blank
              /\ (Belongs(r, Donation) => r.donor \in Complete)
              /\ (RequiresCounterpartDetail(r) => r.counterpart \in Complete)
    PROVE  RowErrors(Data(read)) = {}
  <1> SUFFICES ASSUME NEW r \in RowsOf(Data(read), Sections), ~r.subtotal
               PROVE  Obligatory(r.section) \subseteq r.filled /\ r.amount > 0
    <2>1. ASSUME NEW r \in RowErrors(Data(read)),
                 \A q \in RowsOf(Data(read), Sections) :
                    ~q.subtotal => Obligatory(q.section) \subseteq q.filled /\ q.amount > 0
          PROVE  FALSE
      <3>1. r \in RowsOf(Data(read), Sections) /\ ~r.subtotal
            /\ (~(Obligatory(r.section) \subseteq r.filled) \/ r.amount <= 0)
        BY DEF RowErrors
      <3>2. r \in RowsFor(read[r.section], r.section) /\ r.section \in Sections
        BY <3>1, SubtotalsAre
      <3>3. Obligatory(r.section) \subseteq r.filled /\ r.amount > 0
        BY <2>1, <3>1
      <3>4. r.amount \in Int
        <4>1. ListedIn(read[r.section], r.section) \in SUBSET DOMAIN read[r.section]
          BY <3>2, SectionKinds, ReportAssumption DEF Reaching
        <4> QED BY <3>2, <4>1, RowsAddUp DEF RowsFor, Whole
      <3> QED BY <3>1, <3>3, <3>4
    <2> QED BY <2>1
  <1>1. r.section \in Sections /\ r \in RowsFor(read[r.section], r.section)
    BY SubtotalsAre
  <1> DEFINE s == r.section
  <1>2. PICK t \in ListedIn(read[s], s) : r = DetailRow(read[s], s, t)
    BY <1>1 DEF RowsFor
  <1>3. Returned(read[s], s) /\ s \in Sections
    BY <1>1 DEF Whole
  <1>4. t \in DOMAIN read[s]
    BY <1>1, <1>2, SectionKinds, ReportAssumption DEF Reaching
  <1>5. read[s][t] \in UNION {{read[x][u] : u \in DOMAIN read[x]} : x \in Sections}
    BY <1>3, <1>4
  <1> DEFINE row == read[s][t]
  <1>6. /\ row.line.debit > 0 /\ row.line.credit > 0 /\ row.line.friendly # Blank
        /\ (Belongs(row, Donation) => row.donor \in Complete)
        /\ (RequiresCounterpartDetail(row) => row.counterpart \in Complete)
    BY <1>5
  <1>7. row = read[s][t] /\ r = DetailRow(read[s], s, t)
    BY <1>2
  <1> HIDE DEF s, row
  <1>8. Obligatory(r.section) \subseteq r.filled /\ r.amount > 0
    BY <1>2, <1>3, <1>6, <1>7, RowIsValid
  <1> QED BY <1>8

-----------------------------------------------------------------------------
(* The invariant of the export and the edits around it                     *)

\* What was read of a transaction nobody has written since the export began is
\* what the tables hold, and what was not read is not there.
Unwritten ==
    \A s \in DOMAIN export.read : \A t \in Tx \ edited :
        /\ t \in DOMAIN export.read[s] <=> t \in DOMAIN books /\ Belongs(books[t], s)
        /\ t \in DOMAIN export.read[s] => export.read[s][t] = books[t]

ReportInv ==
    /\ ReportTypeOK
    /\ {"pc", "profile", "read"} \subseteq DOMAIN export
    /\ \A s \in DOMAIN export.read : Returned(export.read[s], s)
    /\ Filed => Whole(answer.read)
    /\ export.pc = "reading" => Unwritten

\* The invariant holds at first.
LEMMA ReportInitInv == ReportInit => ReportInv
  <1> SUFFICES ASSUME ReportInit PROVE ReportInv
    OBVIOUS
  <1>1. DOMAIN books \subseteq Tx /\ \A t \in DOMAIN books : books[t] \in Rows
    BY ReportAssumption DEF ReportInit
  <1>2. /\ export.pc = "idle" /\ export.profile = "none" /\ DOMAIN export.read = {}
        /\ {"pc", "profile", "read"} \subseteq DOMAIN export /\ answer.status = "none"
    BY DEF ReportInit, NoExport, NoAnswer
  <1>3. edited = {} /\ edits \in 0..MaxEdits /\ profile \in {"absent", "partial", "filled"}
    BY ReportAssumption DEF ReportInit
  <1> QED BY <1>1, <1>2, <1>3 DEF ReportInv, ReportTypeOK, Filed

\* An edit of the transactions T leaves the others as they were.
LEMMA EditKeeps ==
    ASSUME ReportInv, NEW T \in SUBSET Tx, Edit(T),
           profile' \in {"absent", "partial", "filled"},
           DOMAIN books' \subseteq Tx, \A t \in DOMAIN books' : books'[t] \in Rows,
           \A t \in Tx \ T : /\ t \in DOMAIN books' <=> t \in DOMAIN books
                             /\ t \in DOMAIN books => books'[t] = books[t]
    PROVE  ReportInv'
  <1>1. /\ edits' \in 0..MaxEdits /\ edited' = edited \cup T /\ edited' \subseteq Tx
        /\ answer' = NoAnswer /\ export' = export
    BY ReportAssumption DEF Edit, ReportInv, ReportTypeOK
  <1>2. answer'.status = "none" /\ ~Filed'
    BY <1>1 DEF NoAnswer, Filed
  <1>3. ReportTypeOK'
    BY <1>1, <1>2 DEF ReportInv, ReportTypeOK, Belongs
  <1>4. ASSUME Unwritten
        PROVE  Unwritten'
    <2>1. \A t \in Tx \ edited' : t \in Tx \ edited /\ t \in Tx \ T
      BY <1>1
    <2> QED BY <1>1, <1>4, <2>1 DEF Unwritten, Belongs
  <1> QED BY <1>1, <1>2, <1>3, <1>4 DEF ReportInv, Returned, Belongs

\* Rows that an import inserts keep the invariant.
LEMMA InsertKeeps ==
    ASSUME ReportInv, NEW T \in SUBSET Tx, NEW load \in [T -> Lines], InsertLines(load)
    PROVE  ReportInv'
  <1>1. /\ DOMAIN load = T /\ T \cap DOMAIN books = {}
        /\ books' = [t \in DOMAIN books \cup T |->
                        IF t \in T THEN Row(load[t]) ELSE books[t]]
        /\ profile' = profile /\ Edit(T)
    BY DEF InsertLines
  <1>2. \A t \in T : Row(load[t]) \in Rows
    BY DEF Row, Rows
  <1>3. DOMAIN books \subseteq Tx /\ (\A t \in DOMAIN books : books[t] \in Rows)
        /\ profile \in {"absent", "partial", "filled"}
    BY DEF ReportInv, ReportTypeOK
  <1> QED BY <1>1, <1>2, <1>3, EditKeeps

\* A step that replaces rows of the books by other rows.
LEMMA ChangeKeeps ==
    ASSUME ReportInv, NEW T \in SUBSET Tx, Edit(T), profile' = profile,
           DOMAIN books' = DOMAIN books,
           \A t \in DOMAIN books : books'[t] \in Rows /\ (t \notin T => books'[t] = books[t])
    PROVE  ReportInv'
  <1>1. DOMAIN books \subseteq Tx /\ profile \in {"absent", "partial", "filled"}
    BY DEF ReportInv, ReportTypeOK
  <1> QED BY <1>1, EditKeeps

\* A row with one of its fields replaced.
LEMMA RowChanged ==
    ASSUME NEW row \in Rows
    PROVE  /\ \A l \in Lines : [row EXCEPT !.line = l] \in Rows
           /\ \A d \in Donors \cup {NoParty} : [row EXCEPT !.donor = d] \in Rows
           /\ \A c \in Counterparts \cup {NoParty} : [row EXCEPT !.counterpart = c] \in Rows
           /\ \A g \in BOOLEAN : [row EXCEPT !.grant = g] \in Rows
  BY DEF Rows

\* Every step keeps the invariant.
LEMMA ReportNextInv ==
    ASSUME ReportInv, [ReportNext]_reportVars
    PROVE  ReportInv'
  <1>0. /\ DOMAIN books \subseteq Tx /\ (\A t \in DOMAIN books : books[t] \in Rows)
        /\ profile \in {"absent", "partial", "filled"}
    BY DEF ReportInv, ReportTypeOK
  <1>1. CASE StartExport
    <2>1. /\ export'.pc = "reading" /\ export'.profile = profile /\ DOMAIN export'.read = {}
          /\ {"pc", "profile", "read"} \subseteq DOMAIN export'
          /\ answer'.status = "none" /\ edited' = {}
          /\ books' = books /\ profile' = profile /\ edits' = edits
      BY <1>1 DEF StartExport, NoAnswer
    <2>2. ~Filed' /\ Unwritten'
      BY <2>1 DEF Filed, Unwritten
    <2>3. ReportTypeOK'
      BY <1>0, <2>1 DEF ReportInv, ReportTypeOK
    <2> QED BY <2>1, <2>2, <2>3 DEF ReportInv
  <1>2. CASE Answer
    <2>1. /\ DOMAIN export.read = Sections
          /\ answer' = IF export.profile = "absent"
                       THEN [NoAnswer EXCEPT !.status = "error"]
                       ELSE [status |-> "file", read |-> export.read,
                             profile |-> export.profile]
          /\ export' = NoExport /\ UNCHANGED <<books, profile, edited, edits>>
      BY <1>2 DEF Answer
    <2>2. /\ answer'.status \in {"error", "file"}
          /\ answer'.status = "file" => answer'.read = export.read
      BY <2>1 DEF NoAnswer
    <2>3. /\ export'.pc = "idle" /\ export'.profile = "none" /\ DOMAIN export'.read = {}
          /\ {"pc", "profile", "read"} \subseteq DOMAIN export'
      BY <2>1 DEF NoExport
    <2>4. ReportTypeOK'
      BY <2>1, <2>2, <2>3 DEF ReportInv, ReportTypeOK
    <2>5. Filed' => Whole(answer.read)'
      BY <2>1, <2>2 DEF Filed, Whole, Returned, ReportInv, Belongs
    <2> QED BY <2>3, <2>4, <2>5 DEF ReportInv
  <1>3. ASSUME NEW s \in Sections, ReadSection(s)
        PROVE  ReportInv'
    <2> DEFINE read == [x \in DOMAIN export.read \cup {s} |->
                            IF x = s THEN Found(s) ELSE export.read[x]]
    <2>1. /\ export.pc = "reading" /\ s \notin DOMAIN export.read
          /\ export' = [export EXCEPT !.read = read]
          /\ answer' = NoAnswer /\ UNCHANGED <<books, profile, edited, edits>>
      BY <1>3 DEF ReadSection
    <2>2. /\ export'.pc = "reading" /\ export'.profile = export.profile /\ export'.read = read
          /\ {"pc", "profile", "read"} \subseteq DOMAIN export'
      BY <2>1 DEF ReportInv
    <2>3. /\ DOMAIN read = DOMAIN export.read \cup {s} /\ read[s] = Found(s)
          /\ \A x \in DOMAIN export.read : read[x] = export.read[x]
      BY <2>1
    <2>4. /\ DOMAIN Found(s) = {u \in DOMAIN books : Belongs(books[u], s)}
          /\ \A t \in DOMAIN Found(s) : Found(s)[t] = books[t]
      BY DEF Found
    <2>5. Returned(Found(s), s)
      BY <1>0, <2>4 DEF Returned
    <2> HIDE DEF read
    <2>6. \A x \in DOMAIN read : Returned(read[x], x)
      BY <2>3, <2>5 DEF ReportInv
    <2>7. answer'.status = "none" /\ ~Filed'
      BY <2>1 DEF NoAnswer, Filed
    <2>8. \A x \in DOMAIN read : \A t \in Tx \ edited :
             /\ t \in DOMAIN read[x] <=> t \in DOMAIN books /\ Belongs(books[t], x)
             /\ t \in DOMAIN read[x] => read[x][t] = books[t]
      BY <2>1, <2>3, <2>4 DEF ReportInv, Unwritten
    <2>9. Unwritten'
      BY <2>1, <2>2, <2>8 DEF Unwritten, Belongs
    <2>10. \A x \in DOMAIN export'.read : Returned(export.read[x], x)'
      BY <2>2, <2>6 DEF Returned, Belongs
    <2>11. ReportTypeOK'
      BY <1>0, <2>1, <2>2, <2>3, <2>6, <2>7 DEF ReportInv, ReportTypeOK, Returned, Belongs
    <2> QED BY <2>2, <2>7, <2>9, <2>10, <2>11 DEF ReportInv
  <1>4. ASSUME NEW T \in SUBSET Tx, NEW load \in [T -> Lines], InsertLines(load)
        PROVE  ReportInv'
    BY <1>4, InsertKeeps
  <1>5. ASSUME NEW t \in Tx, NEW l \in Lines, OverwriteLine(t, l)
        PROVE  ReportInv'
    <2>1. \A u \in DOMAIN books : [books[u] EXCEPT !.line = l] \in Rows
      BY <1>0, RowChanged
    <2>2. /\ DOMAIN books' = DOMAIN books /\ Edit({t}) /\ profile' = profile
          /\ \A u \in DOMAIN books : books'[u] \in Rows /\ (u \notin {t} => books'[u] = books[u])
      BY <1>0, <1>5, <2>1 DEF OverwriteLine
    <2> QED BY <2>2, ChangeKeeps
  <1>6. CASE DeleteAll
    <2>1. books' = <<>> /\ DOMAIN books' = {} /\ profile' = profile /\ Edit(DOMAIN books)
      BY <1>6 DEF DeleteAll
    <2> QED BY <1>0, <2>1, EditKeeps
  <1>7. ASSUME NEW T \in SUBSET Tx, NEW d \in Donors, AssignDonor(T, d)
        PROVE  ReportInv'
    <2>1. \A u \in DOMAIN books : [books[u] EXCEPT !.donor = d] \in Rows
      BY <1>0, RowChanged
    <2>2. /\ DOMAIN books' = DOMAIN books /\ Edit(T) /\ profile' = profile
          /\ \A u \in DOMAIN books : books'[u] \in Rows /\ (u \notin T => books'[u] = books[u])
      BY <1>0, <1>7, <2>1 DEF AssignDonor
    <2> QED BY <2>2, ChangeKeeps
  <1>8. ASSUME NEW T \in SUBSET Tx, NEW c \in Counterparts \cup {NoParty}, AssignCounterpart(T, c)
        PROVE  ReportInv'
    <2>1. \A u \in DOMAIN books : [books[u] EXCEPT !.counterpart = c] \in Rows
      BY <1>0, RowChanged
    <2>2. /\ DOMAIN books' = DOMAIN books /\ Edit(T) /\ profile' = profile
          /\ \A u \in DOMAIN books : books'[u] \in Rows /\ (u \notin T => books'[u] = books[u])
      BY <1>0, <1>8, <2>1 DEF AssignCounterpart
    <2> QED BY <2>2, ChangeKeeps
  <1>9. ASSUME NEW t \in Tx, NEW flag \in BOOLEAN, UpdateGrantExpenditureFlag(t, flag)
        PROVE  ReportInv'
    <2>1. \A u \in DOMAIN books : [books[u] EXCEPT !.grant = flag] \in Rows
      BY <1>0, RowChanged
    <2>2. /\ DOMAIN books' = DOMAIN books /\ Edit({t}) /\ profile' = profile
          /\ \A u \in DOMAIN books : books'[u] \in Rows /\ (u \notin {t} => books'[u] = books[u])
      BY <1>0, <1>9, <2>1 DEF UpdateGrantExpenditureFlag
    <2> QED BY <2>2, ChangeKeeps
  <1>10. ASSUME NEW p \in {"partial", "filled"}, SaveProfile(p)
         PROVE  ReportInv'
    BY <1>0, <1>10, EditKeeps DEF SaveProfile
  <1>11. CASE UNCHANGED reportVars
    <2>1. /\ books' = books /\ profile' = profile /\ export' = export /\ answer' = answer
          /\ edited' = edited /\ edits' = edits
      BY <1>11 DEF reportVars
    <2> QED BY <2>1 DEF ReportInv, ReportTypeOK, Returned, Whole, Unwritten, Filed, Belongs
  <1> QED BY <1>1, <1>2, <1>3, <1>4, <1>5, <1>6, <1>7, <1>8, <1>9, <1>10, <1>11
          DEF ReportNext, EditTables

\* The invariant of the report: what an export has read is what the tables hold
\* of every transaction nobody has written since.
THEOREM ReportInvariant == ReportSpec => []ReportInv
  BY ReportInitInv, ReportNextInv, PTL DEF ReportSpec

-----------------------------------------------------------------------------
(* What a file says of the books                                           *)

\* The rows of a transaction in a file.
RowsAbout(read, t) == {r \in RowsOf(Data(read), Sections) : ~r.subtotal /\ r.txs = {t}}

\* A transaction nobody has written has at most one row, the one of the section
\* its category belongs to.
LEMMA OneRow ==
    ASSUME ReportInv, Unwritten, NEW read, read = export.read, Whole(read),
           NEW t \in DOMAIN books \ edited
    PROVE  /\ Cardinality(RowsAbout(read, t)) <= 1
           /\ \A s \in Sections : t \in ListedIn(read[s], s) =>
                  DetailRow(read[s], s, t) \in RowsAbout(read, t)
           /\ \A s \in Sections : Belongs(books[t], s) => t \in DOMAIN read[s] /\ read[s][t] = books[t]
  <1>1. t \in Tx \ edited
    BY DEF ReportInv, ReportTypeOK
  <1>2. \A s \in Sections : /\ t \in DOMAIN read[s] <=> Belongs(books[t], s)
                            /\ t \in DOMAIN read[s] => read[s][t] = books[t]
    BY <1>1 DEF Unwritten, Whole
  <1>3. \A s \in Sections : ListedIn(read[s], s) \subseteq DOMAIN read[s]
    BY SectionKinds, ReportAssumption DEF Reaching
  <1> DEFINE c == books[t].line.cat
             only == DetailRow(read[c], c, t)
  <1>4. ASSUME NEW r \in RowsAbout(read, t)
        PROVE  r = only
    <2>1. r \in RowsOf(Data(read), Sections) /\ ~r.subtotal /\ r.txs = {t}
      BY DEF RowsAbout
    <2>2. r.section \in Sections /\ r \in RowsFor(read[r.section], r.section)
      BY <2>1, SubtotalsAre
    <2>3. PICK u \in ListedIn(read[r.section], r.section) :
              r = DetailRow(read[r.section], r.section, u)
      BY <2>2 DEF RowsFor
    <2>4. r.txs = {u}
      BY <2>3, RowFields
    <2>5. u = t
      BY <2>1, <2>4
    <2>6. Belongs(books[t], r.section)
      BY <1>2, <1>3, <2>2, <2>3, <2>5
    <2>7. r.section = c
      BY <2>6 DEF Belongs
    <2> HIDE DEF c
    <2> QED BY <2>3, <2>5, <2>7
  <1>5. RowsAbout(read, t) \subseteq {only}
    BY <1>4
  <1>6. Cardinality({}) = 0 /\ Cardinality({only}) = 1
    BY FS_EmptySet, FS_Singleton
  <1> HIDE DEF only
  <1>7. Cardinality(RowsAbout(read, t)) <= 1
    <2>1. RowsAbout(read, t) = {} \/ RowsAbout(read, t) = {only}
      BY <1>5
    <2> QED BY <1>6, <2>1
  <1>8. ASSUME NEW s \in Sections, t \in ListedIn(read[s], s)
        PROVE  DetailRow(read[s], s, t) \in RowsAbout(read, t)
    <2>1. DetailRow(read[s], s, t) \in RowsOf(Data(read), {s})
      <3>1. DetailRow(read[s], s, t) \in RowsFor(read[s], s)
        BY <1>8 DEF RowsFor
      <3>2. RowsOf(Data(read), {s}) = RowsFor(read[s], s) \cup Subtotals(read[s], s)
        BY RowsOfData
      <3> QED BY <3>1, <3>2
    <2>2. s \in Sections \cap Sections
      OBVIOUS
    <2>3. DetailRow(read[s], s, t) \in RowsOf(Data(read), Sections)
      BY <2>1, <2>2, RowsOfData
    <2> QED BY <2>3, RowFields DEF RowsAbout
  <1> QED BY <1>2, <1>7, <1>8

\* What has to be listed whatever else there is has a row.
LEMMA ListedHasRow ==
    ASSUME NEW read, Whole(read), NEW t, NEW row, Listed(row), row \in Rows,
           \A s \in Sections : Belongs(row, s) => t \in DOMAIN read[s] /\ read[s][t] = row
    PROVE  \E s \in Sections : Belongs(row, s) /\ t \in ListedIn(read[s], s) /\ read[s][t] = row
  <1>1. PICK s \in Sections \ {Personnel} :
            /\ Belongs(row, s)
            /\ CASE s \in ListedIncome -> TRUE
                 [] s = Donation -> /\ row.donor = NoParty
                                    /\ Amount(row, s) > DonationThreshold
                 [] s \in Routine \cup {OtherIncome} -> Amount(row, s) >= RoutineThreshold
                 [] s \in Political -> Amount(row, s) >= PoliticalThreshold
    BY DEF Listed
  <1>2. t \in DOMAIN read[s] /\ read[s][t] = row /\ Returned(read[s], s) /\ s \in ReportSections
    BY <1>1, ReportAssumption DEF Whole
  <1> DEFINE found == read[s]
  <1>3. t \in DOMAIN found /\ found[t] = row /\ Returned(found, s)
    BY <1>2
  <1>4. /\ Donation \notin ListedIncome \cup Routine \cup {OtherIncome} \cup Political \cup {Personnel}
        /\ ListedIncome \cap (Routine \cup {OtherIncome} \cup Political \cup {Personnel}) = {}
        /\ (Routine \cup {OtherIncome}) \cap (Political \cup {Personnel}) = {}
    BY DEF Donation, ListedIncome, Routine, OtherIncome, Political, Personnel
  <1> HIDE DEF found
  <1>5. t \in ListedIn(found, s)
    <2>1. CASE s \in ListedIncome
      BY <1>2, <1>3, <2>1, SectionKinds
    <2>2. CASE s = Donation
      <3>1. row.donor = NoParty /\ Amount(row, s) > DonationThreshold
        BY <1>1, <1>4, <2>2
      <3>2. Donation \in Sections /\ Donation \in IncomeSections /\ found = read[Donation]
        BY <1>1, <2>2 DEF IncomeSections, found
      <3>3. t \in ListedIn(found, Donation) <=> ResolveIncomeAmount(found[t].line) > DonationThreshold
        BY <1>3, <3>1, <3>2, DonorsWhole DEF AllOrNone
      <3> QED BY <1>3, <2>2, <3>1, <3>2, <3>3 DEF Amount
    <2>3. CASE s \in Routine \cup {OtherIncome}
      <3>1. Amount(row, s) >= RoutineThreshold
        BY <1>1, <1>4, <2>3
      <3> QED BY <1>2, <1>3, <2>3, <3>1, SectionKinds DEF Reaching
    <2>4. CASE s \in Political
      <3>1. Amount(row, s) >= PoliticalThreshold
        BY <1>1, <1>4, <2>4
      <3> QED BY <1>2, <1>3, <2>4, <3>1, SectionKinds DEF Reaching
    <2> QED BY <1>1, <1>2, <2>1, <2>2, <2>3, <2>4, SectionKinds
  <1> QED BY <1>1, <1>2, <1>5 DEF found

\* Totals of the file are those of the books when nothing was written.
LEMMA TotalsOfBooks ==
    ASSUME ReportInv, Unwritten, NEW read, read = export.read, Whole(read), edited = {}, NEW S
    PROVE  SumOver(Data(read), S) = BooksTotal(S)
  <1>1. ASSUME NEW s \in Sections
        PROVE  Sum(Data(read)[s]) = SumFunction([t \in {u \in DOMAIN books : Belongs(books[u], s)} |->
                                               Amount(books[t], s)])
    <2>1. Data(read)[s] = SectionsOf(read[s], s) /\ Returned(read[s], s) /\ s \in ReportSections
      BY ReportAssumption DEF Data, Whole
    <2>2. Sum(Data(read)[s]) = Total(read[s], s, DOMAIN read[s])
      BY <2>1, SectionAddsUp
    <2>3. \A t \in Tx : /\ t \in DOMAIN read[s] <=> t \in DOMAIN books /\ Belongs(books[t], s)
                        /\ t \in DOMAIN read[s] => read[s][t] = books[t]
      BY DEF Unwritten, Whole
    <2> DEFINE U == {u \in DOMAIN books : Belongs(books[u], s)}
    <2>4. DOMAIN read[s] \subseteq Tx /\ DOMAIN books \subseteq Tx
      BY <2>1 DEF Returned, ReportInv, ReportTypeOK
    <2>5. DOMAIN read[s] = U
      BY <2>3, <2>4
    <2>6. \A t \in U : read[s][t] = books[t]
      BY <2>3, <2>4, <2>5
    <2> HIDE DEF U
    <2>7. [t \in U |-> Amount(read[s][t], s)] = [t \in U |-> Amount(books[t], s)]
      BY <2>6
    <2>8. Total(read[s], s, U) = SumFunction([t \in U |-> Amount(books[t], s)])
      BY <2>7 DEF Total
    <2> QED BY <2>2, <2>5, <2>8 DEF U
  <1>2. [s \in S \cap Sections |-> Sum(Data(read)[s])]
          = [s \in S \cap Sections |->
               SumFunction([t \in {u \in DOMAIN books : Belongs(books[u], s)} |-> Amount(books[t], s)])]
    BY <1>1
  <1> QED BY <1>2 DEF SumOver, BooksTotal

-----------------------------------------------------------------------------
(* The theorems                                                            *)

\* ReportTypeOK: the rows, the profile and the state of an export have their types.
THEOREM ReportTypes == ReportSpec => []ReportTypeOK
  <1>1. ReportInv => ReportTypeOK
    BY DEF ReportInv
  <1> QED BY <1>1, ReportInvariant, PTL

\* FlagsMatchForms: the digits of SYUUSHI_UMU_FLG and the forms written.
THEOREM FlagsMatch == ReportSpec => []FlagsMatchForms
  <1>1. ReportInv => FlagsMatchForms
    BY FormsFollowFlags, SheetThirteen DEF ReportInv, FlagsMatchForms
  <1> QED BY <1>1, ReportInvariant, PTL

\* SheetsReconcile: totals, remainders, subtotals and grants of one file agree.
THEOREM SheetsAddUp == ReportSpec => []SheetsReconcile
  <1>1. ReportInv => SheetsReconcile
    <2> SUFFICES ASSUME ReportInv, Filed PROVE SheetsReconcile
      BY DEF SheetsReconcile
    <2> DEFINE read == answer.read
    <2>1. Whole(read)
      BY DEF ReportInv
    <2> HIDE DEF read
    <2>2. \A s \in Sections \ {Personnel} :
             Sum(Data(read)[s]) = SumRows(Details(Data(read), s))
                                    + SumFunction([x \in Data(read)[s] |-> x.other])
      BY <2>1, TotalsReconcile
    <2>3. ASSUME NEW r \in {r \in RowsOf(Data(read), Sections) : r.subtotal}
          PROVE  /\ r.amount = SumRows({d \in Details(Data(read), Donation) : d.txs \subseteq r.txs})
                 /\ \A q \in {x \in RowsOf(Data(read), Sections) : x.subtotal} \ {r} :
                       q.txs \cap r.txs = {}
      BY <2>1, SubtotalsReconcile
    <2>4. SumFunction(ExpenseSummary(Data(read)).grant) = SumRows(GrantRows(Data(read)))
      BY <2>1, GrantsReconcile
    <2> QED BY <2>2, <2>3, <2>4 DEF SheetsReconcile, read
  <1> QED BY <1>1, ReportInvariant, PTL

\* DonorListedWhole: the gifts of one donor are all listed or none is.
THEOREM DonorsListedWhole == ReportSpec => []DonorListedWhole
  <1>1. ReportInv => DonorListedWhole
    <2> SUFFICES ASSUME ReportInv, Filed, Donation \in Sections PROVE DonorListedWhole
      BY DEF DonorListedWhole
    <2>1. Whole(answer.read)
      BY DEF ReportInv
    <2>2. UNION {r.txs : r \in Details(Data(answer.read), Donation)}
            = ListedIn(answer.read[Donation], Donation)
      BY GiftsListed
    <2> DEFINE read == answer.read
               found == read[Donation]
               listed == UNION {r.txs : r \in Details(Data(read), Donation)}
    <2>3. found = read[Donation] /\ listed = ListedIn(found, Donation)
      BY <2>2
    <2>4. Whole(read)
      BY <2>1
    <2> HIDE DEF read, found, listed
    <2>5. AllOrNone(found, listed)
      BY <2>3, <2>4, DonorsWhole
    <2> QED BY <2>5 DEF AllOrNone, DonorListedWhole, read, found, listed
  <1> QED BY <1>1, ReportInvariant, PTL

\* DetailsSuffice: the details the pages ask for are all the report needs.
THEOREM DetailsAskedSuffice == ReportSpec => []DetailsSuffice
  <1>1. ReportInv => DetailsSuffice
    BY NothingMissing DEF ReportInv, DetailsSuffice, Errors, ProfileErrors
  <1> QED BY <1>1, ReportInvariant, PTL

\* ExportReportsUnedited: a file has one row of every transaction nobody wrote
\* since the export began, and the totals of the books if nothing was written.
THEOREM ExportsReportUnedited == ReportSpec => ExportReportsUnedited
  <1>1. ASSUME ReportInv, [ReportNext]_reportVars,
               export.pc = "reading", export'.pc = "idle", answer'.status = "file"
        PROVE  LET data == Data(answer'.read)
                   rows(t) == {r \in RowsOf(data, Sections) : ~r.subtotal /\ r.txs = {t}}
               IN  /\ \A t \in DOMAIN books \ edited :
                        /\ Cardinality(rows(t)) <= 1
                        /\ Listed(books[t]) =>
                             \E r \in rows(t) : /\ r.amount = Amount(books[t], r.section)
                                                /\ Belongs(books[t], r.section)
                   /\ edited = {} =>
                        /\ Summary(data).income = BooksTotal(IncomeSections)
                        /\ ExpenseSummary(data).total
                               = BooksTotal(Routine \cup Political \cup {Personnel})
    <2>1. Answer
      <3>1. ASSUME NEW T, Edit(T)
            PROVE  FALSE
        BY <1>1, <3>1 DEF Edit
      <3>2. ~StartExport /\ ~UNCHANGED reportVars
        BY <1>1 DEF StartExport, reportVars
      <3>3. ASSUME NEW s \in Sections, ReadSection(s)
            PROVE  FALSE
        BY <1>1, <3>3 DEF ReadSection, ReportInv
      <3> QED BY <1>1, <3>1, <3>2, <3>3
              DEF ReportNext, EditTables, InsertLines, OverwriteLine, DeleteAll, AssignDonor,
                  AssignCounterpart, UpdateGrantExpenditureFlag, SaveProfile
    <2> DEFINE read == export.read
    <2>2. answer'.read = read /\ Whole(read) /\ Unwritten
      BY <1>1, <2>1 DEF Answer, NoAnswer, ReportInv, Whole
    <2>3. read = export.read
      OBVIOUS
    <2> HIDE DEF read
    <2>4. ASSUME NEW t \in DOMAIN books \ edited
          PROVE  /\ Cardinality(RowsAbout(read, t)) <= 1
                 /\ Listed(books[t]) =>
                      \E r \in RowsAbout(read, t) : /\ r.amount = Amount(books[t], r.section)
                                                    /\ Belongs(books[t], r.section)
      <3>1. /\ Cardinality(RowsAbout(read, t)) <= 1
            /\ \A s \in Sections : t \in ListedIn(read[s], s) =>
                  DetailRow(read[s], s, t) \in RowsAbout(read, t)
            /\ \A s \in Sections : Belongs(books[t], s)
                                     => t \in DOMAIN read[s] /\ read[s][t] = books[t]
        BY <1>1, <2>2, <2>3, OneRow
      <3>2. ASSUME Listed(books[t])
            PROVE  \E r \in RowsAbout(read, t) : /\ r.amount = Amount(books[t], r.section)
                                                 /\ Belongs(books[t], r.section)
        <4>1. books[t] \in Rows
          BY <1>1 DEF ReportInv, ReportTypeOK
        <4>2. PICK s \in Sections : /\ Belongs(books[t], s) /\ t \in ListedIn(read[s], s)
                                    /\ read[s][t] = books[t]
          BY <2>2, <3>1, <3>2, <4>1, ListedHasRow
        <4>3. DetailRow(read[s], s, t) \in RowsAbout(read, t)
          BY <3>1, <4>2
        <4>4. /\ DetailRow(read[s], s, t).section = s
              /\ DetailRow(read[s], s, t).amount = Amount(books[t], s)
          BY <4>2, RowFields
        <4> QED BY <4>2, <4>3, <4>4
      <3> QED BY <3>1, <3>2
    <2>5. ASSUME edited = {}
          PROVE  /\ Summary(Data(read)).income = BooksTotal(IncomeSections)
                 /\ ExpenseSummary(Data(read)).total
                      = BooksTotal(Routine \cup Political \cup {Personnel})
      <3>1. /\ SumOver(Data(read), IncomeSections) = BooksTotal(IncomeSections)
            /\ SumOver(Data(read), Routine \cup Political \cup {Personnel})
                 = BooksTotal(Routine \cup Political \cup {Personnel})
        BY <1>1, <2>2, <2>3, <2>5, TotalsOfBooks
      <3> QED BY <3>1 DEF Summary, ExpenseSummary
    <2> QED BY <2>2, <2>4, <2>5 DEF RowsAbout
  <1> QED BY <1>1, ReportInvariant, PTL DEF ReportSpec, ExportReportsUnedited


-----------------------------------------------------------------------------
(* The sheets of the file and the preview beside it (Sheets).  Whatever    *)
(* the page and the button do is a step of the report or leaves it alone,  *)
(* so all that was proved of the report holds there too.                   *)

\* Every step of the page is one of the report, or none.
LEMMA SheetStep ==
    ASSUME [SheetNext]_sheetVars
    PROVE  [ReportNext]_reportVars
  <1>1. CASE OpenPage
    BY <1>1 DEF OpenPage, Ask, ReportNext, reportVars
  <1>2. CASE ChooseOther
    BY <1>2 DEF ChooseOther, reportVars
  <1>3. CASE Download
    BY <1>3 DEF Download, Ask, ReportNext
  <1>4. CASE Deliver
    BY <1>4 DEF Deliver, ReportNext
  <1>5. ASSUME NEW s \in Sections, ReadOne(s)
        PROVE  ReportNext
    BY <1>5 DEF ReadOne, ReportNext
  <1>6. CASE EditBooks
    BY <1>6 DEF EditBooks, ReportNext
  <1>7. CASE UNCHANGED sheetVars
    BY <1>7 DEF sheetVars
  <1> QED BY <1>1, <1>2, <1>3, <1>4, <1>5, <1>6, <1>7 DEF SheetNext

\* The page and the button, with the cache between them, are clients of the
\* report: what they do is what the report allows.
THEOREM SheetsFollowReport == SheetSpec => ReportSpec
  <1>1. SheetInit => ReportInit
    BY DEF SheetInit
  <1> QED BY <1>1, SheetStep, PTL DEF SheetSpec, ReportSpec

\* A preview holds what the tables hold, if nothing was written since the
\* export it is of began; and no preview is younger than the last export.
Current(page) ==
    page.status = "file" =>
        /\ Whole(page.read) /\ page.since \in Nat /\ page.since <= began
        /\ page.since = edits => /\ \A s \in Sections : page.read[s] = Found(s)
                                 /\ page.profile = profile

SheetInv ==
    /\ ReportInv
    /\ began \in Nat /\ began <= edits
    /\ asker # "none" => export.pc = "reading"
    /\ export.pc = "reading" /\ began = edits =>
         /\ \A s \in DOMAIN export.read : export.read[s] = Found(s)
         /\ export.profile = profile
    /\ Current(cache) /\ Current(shown)

\* The invariant holds at first.
LEMMA SheetInitInv == SheetInit => SheetInv
  <1> SUFFICES ASSUME SheetInit PROVE SheetInv
    OBVIOUS
  <1>1. ReportInit /\ ReportInv
    BY ReportInitInv DEF SheetInit
  <1>2. began = 0 /\ edits = 0 /\ export.pc = "idle" /\ asker = "none"
    BY <1>1 DEF SheetInit, ReportInit, NoExport
  <1>3. cache.status = "none" /\ shown.status = "none"
    BY DEF SheetInit, NoPage
  <1> QED BY <1>1, <1>2, <1>3 DEF SheetInv, Current

\* A new export begins with the tables as they are.
LEMMA AskKeeps ==
    ASSUME SheetInv, NEW who \in {"page", "background", "button"}, Ask(who), ReportInv',
           cache' = cache, shown' \in {cache, shown, NoPage}
    PROVE  SheetInv'
  <1>1. /\ began' = edits /\ asker' = who /\ edits' = edits /\ books' = books
        /\ profile' = profile /\ export'.pc = "reading" /\ export'.profile = profile
        /\ DOMAIN export'.read = {}
    BY DEF Ask, StartExport
  <1>2. edits \in Nat
    BY ReportAssumption DEF SheetInv, ReportInv, ReportTypeOK
  <1>3. \A s : Found(s)' = Found(s)
    BY <1>1 DEF Found, Belongs
  <1>4. \A page \in {cache, shown, NoPage} :
            page.status = "file" =>
              /\ Whole(page.read)' /\ page.since \in Nat /\ page.since <= began'
              /\ page.since = edits' => /\ \A s \in Sections : page.read[s] = Found(s)'
                                        /\ page.profile = profile'
    <2>1. NoPage.status # "file"
      BY DEF NoPage
    <2>2. ASSUME NEW page, page.status = "file", Current(page)
          PROVE  /\ Whole(page.read) /\ page.since \in Nat /\ page.since <= began'
                 /\ page.since = edits' => /\ \A s \in Sections : page.read[s] = Found(s)'
                                           /\ page.profile = profile'
      BY <1>1, <1>2, <1>3, <2>2 DEF Current, SheetInv
    <2>3. ASSUME NEW read, Whole(read)
          PROVE  Whole(read)'
      BY <2>3 DEF Whole, Returned, Belongs
    <2> QED BY <2>1, <2>2, <2>3 DEF SheetInv
  <1>5. Current(cache)' /\ Current(shown)'
    BY <1>4 DEF Current, Whole, Returned, Belongs
  <1> QED BY <1>1, <1>2, <1>5 DEF SheetInv


\* A preview stays current as long as the tables and the last export do.
LEMMA StaysCurrent ==
    ASSUME NEW page, Current(page), began \in Nat, began' \in Nat, began <= began',
           edits' = edits, books' = books, profile' = profile
    PROVE  page.status = "file" =>
              /\ Whole(page.read)' /\ page.since \in Nat /\ page.since <= began'
              /\ page.since = edits' => /\ \A s \in Sections : page.read[s] = Found(s)'
                                        /\ page.profile = profile'
  <1> SUFFICES ASSUME page.status = "file"
               PROVE  /\ Whole(page.read)' /\ page.since \in Nat /\ page.since <= began'
                      /\ page.since = edits' =>
                            /\ \A s \in Sections : page.read[s] = Found(s)'
                            /\ page.profile = profile'
    OBVIOUS
  <1>1. Whole(page.read)'
    BY DEF Current, Whole, Returned, Belongs
  <1>2. \A s : Found(s)' = Found(s)
    BY DEF Found, Belongs
  <1> QED BY <1>1, <1>2 DEF Current

\* The query of a section returns.
LEMMA ReadOneKeeps ==
    ASSUME SheetInv, NEW s \in Sections, ReadOne(s), ReportInv'
    PROVE  SheetInv'
  <1> DEFINE read == [x \in DOMAIN export.read \cup {s} |->
                          IF x = s THEN Found(s) ELSE export.read[x]]
  <1>1. /\ export.pc = "reading" /\ export' = [export EXCEPT !.read = read]
        /\ UNCHANGED <<books, profile, edits, asker, began, cache, shown>>
    BY DEF ReadOne, ReadSection
  <1>2. export'.pc = "reading" /\ export'.profile = export.profile /\ export'.read = read
    BY <1>1 DEF SheetInv, ReportInv
  <1>3. \A x : Found(x)' = Found(x)
    BY <1>1 DEF Found, Belongs
  <1>4. began' = edits' => /\ \A x \in DOMAIN export'.read : export'.read[x] = Found(x)'
                           /\ export'.profile = profile'
    BY <1>1, <1>2, <1>3 DEF SheetInv
  <1>5. Current(cache)' /\ Current(shown)'
    BY <1>1, StaysCurrent DEF SheetInv, Current
  <1> QED BY <1>1, <1>2, <1>4, <1>5 DEF SheetInv

\* The export ends: what it read becomes the preview.
LEMMA DeliverKeeps ==
    ASSUME SheetInv, Deliver, ReportInv'
    PROVE  SheetInv'
  <1> DEFINE page == IF answer'.status = "file"
                     THEN [status |-> "file", read |-> answer'.read,
                           profile |-> answer'.profile, since |-> began]
                     ELSE [NoPage EXCEPT !.status = "error"]
  <1>1. /\ export.pc = "reading" /\ DOMAIN export.read = Sections
        /\ answer' = IF export.profile = "absent"
                     THEN [NoAnswer EXCEPT !.status = "error"]
                     ELSE [status |-> "file", read |-> export.read,
                           profile |-> export.profile]
        /\ export' = NoExport /\ UNCHANGED <<books, profile, edits, began>>
        /\ asker' = "none"
        /\ cache' \in {page, cache} /\ shown' \in {page, shown}
    BY DEF Deliver, Answer
  <1>2. export'.pc = "idle" /\ began \in Nat /\ began <= edits
    BY <1>1 DEF NoExport, SheetInv
  <1>3. Whole(export.read)
    BY <1>1 DEF SheetInv, ReportInv, Whole
  <1>4. Current(page)
    <2>1. ASSUME answer'.status = "file"
          PROVE  /\ page.read = export.read /\ page.since = began
                 /\ page.profile = export.profile
      BY <1>1, <2>1 DEF NoAnswer
    <2>2. page.status = "file" => answer'.status = "file"
      BY DEF NoPage
    <2> HIDE DEF page
    <2> QED BY <1>1, <1>2, <1>3, <2>1, <2>2 DEF Current, SheetInv
  <1> HIDE DEF page
  <1>5. Current(cache)' /\ Current(shown)'
    BY <1>1, <1>2, <1>4, StaysCurrent DEF SheetInv, Current
  <1> QED BY <1>1, <1>2, <1>5 DEF SheetInv

\* An edit, which no preview is younger than.
LEMMA EditBooksKeeps ==
    ASSUME SheetInv, EditBooks, ReportInv'
    PROVE  SheetInv'
  <1>1. EditTables /\ UNCHANGED <<asker, began, cache, shown>>
    BY DEF EditBooks
  <1>2. \E T : Edit(T)
    <2>1. CASE \E T \in SUBSET Tx : \E load \in [T -> Lines] : InsertLines(load)
      BY <2>1 DEF InsertLines
    <2>2. CASE \E t \in Tx, l \in Lines : OverwriteLine(t, l)
      BY <2>2 DEF OverwriteLine
    <2>3. CASE DeleteAll
      BY <2>3 DEF DeleteAll
    <2>4. CASE \E T \in SUBSET Tx : \E d \in Donors : AssignDonor(T, d)
      BY <2>4 DEF AssignDonor
    <2>5. CASE \E T \in SUBSET Tx : \E c \in Counterparts \cup {NoParty} : AssignCounterpart(T, c)
      BY <2>5 DEF AssignCounterpart
    <2>6. CASE \E t \in Tx, flag \in BOOLEAN : UpdateGrantExpenditureFlag(t, flag)
      BY <2>6 DEF UpdateGrantExpenditureFlag
    <2>7. CASE \E p \in {"partial", "filled"} : SaveProfile(p)
      BY <2>7 DEF SaveProfile
    <2> QED BY <1>1, <2>1, <2>2, <2>3, <2>4, <2>5, <2>6, <2>7 DEF EditTables
  <1>3. /\ edits' = edits + 1 /\ edits \in Nat /\ export' = export
        /\ UNCHANGED <<asker, began, cache, shown>>
    BY <1>1, <1>2, ReportAssumption DEF Edit, SheetInv, ReportInv, ReportTypeOK
  <1>4. \A page : Whole(page)' <=> Whole(page)
    BY DEF Whole, Returned, Belongs
  <1>5. began' # edits' /\ began' <= edits'
    BY <1>3 DEF SheetInv
  <1>6. Current(cache)' /\ Current(shown)'
    BY <1>3, <1>4 DEF SheetInv, Current
  <1> QED BY <1>3, <1>5, <1>6 DEF SheetInv

\* Every step keeps the invariant.
LEMMA SheetNextInv ==
    ASSUME SheetInv, [SheetNext]_sheetVars
    PROVE  SheetInv'
  <1>0. ReportInv'
    BY SheetStep, ReportNextInv DEF SheetInv
  <1>1. CASE OpenPage
    <2>1. CASE shown' = cache /\ UNCHANGED <<reportVars, asker, began, cache>>
      <3>1. Current(cache)' /\ Current(shown)'
        BY <2>1, StaysCurrent DEF SheetInv, Current, reportVars
      <3>2. \A x : Found(x)' = Found(x)
        BY <2>1 DEF Found, Belongs, reportVars
      <3> QED BY <1>0, <2>1, <3>1, <3>2 DEF SheetInv, reportVars
    <2>2. CASE shown' = cache /\ Ask("background") /\ UNCHANGED cache
      BY <1>0, <2>2, AskKeeps
    <2>3. CASE shown' = NoPage /\ Ask("page") /\ UNCHANGED cache
      BY <1>0, <2>3, AskKeeps
    <2> QED BY <1>1, <2>1, <2>2, <2>3 DEF OpenPage
  <1>2. CASE ChooseOther \/ UNCHANGED sheetVars
    <2>1. UNCHANGED <<books, profile, export, edits, asker, began, cache>>
          /\ shown' \in {NoPage, shown}
      BY <1>2 DEF ChooseOther, sheetVars, reportVars
    <2>2. Current(NoPage)
      BY DEF Current, NoPage
    <2>3. Current(cache)' /\ Current(shown)'
      BY <2>1, <2>2, StaysCurrent DEF SheetInv, Current
    <2>4. \A x : Found(x)' = Found(x)
      BY <2>1 DEF Found, Belongs
    <2> QED BY <1>0, <2>1, <2>3, <2>4 DEF SheetInv
  <1>3. CASE Download
    BY <1>0, <1>3, AskKeeps DEF Download
  <1>4. CASE Deliver
    BY <1>0, <1>4, DeliverKeeps
  <1>5. ASSUME NEW s \in Sections, ReadOne(s)
        PROVE  SheetInv'
    BY <1>0, <1>5, ReadOneKeeps
  <1>6. CASE EditBooks
    BY <1>0, <1>6, EditBooksKeeps
  <1> QED BY <1>1, <1>2, <1>3, <1>4, <1>5, <1>6 DEF SheetNext

\* A preview that is kept or shown is what the tables hold, if nothing was
\* written since the export it is of began.
THEOREM PreviewsAreCurrent == SheetSpec => [](Current(cache) /\ Current(shown))
  <1>1. SheetSpec => []SheetInv
    BY SheetInitInv, SheetNextInv, PTL DEF SheetSpec
  <1>2. SheetInv => Current(cache) /\ Current(shown)
    BY DEF SheetInv
  <1> QED BY <1>1, <1>2, PTL


-----------------------------------------------------------------------------
(* What is written and what is shown of a section.                         *)

\* A section of a report, as a sheet writes it and as a panel shows it: fields
\* and totals are there, and no amounts make a remainder negative but negative
\* ones.
IsSection(x) ==
    /\ x = [himoku |-> x.himoku, total |-> x.total, other |-> x.other, rows |-> x.rows]
    /\ x.total \in Int /\ x.other \in Int

\* Finitely many sections, told apart by their himoku.
Apart(X) ==
    /\ IsFiniteSet(X) /\ (\A x \in X : IsSection(x))
    /\ \A x, y \in X : x.himoku = y.himoku => x = y

\* The sections of one category.
Sheeted(found, s) ==
    LET X == SectionsOf(found, s)
    IN  /\ Apart(X) /\ (s \in ListedIncome => \A x \in X : x.other = 0)
        /\ s \notin Political => \E x \in X : X = {x}

\* The total of amounts none of which is negative.
LEMMA TotalNat ==
    ASSUME NEW found, NEW s, Returned(found, s), NEW T \in SUBSET DOMAIN found,
           \A t \in DOMAIN found : Amount(found[t], s) >= 0
    PROVE  Total(found, s, T) \in Nat
  <1> DEFINE a == Amounts(found, s)
  <1>1. /\ IsFiniteSet(T) /\ Total(found, s, T) = SumOn(a, T)
        /\ \A t \in T : a[t] = Amount(found[t], s) /\ a[t] \in Int
    BY TotalIs
  <1> HIDE DEF a
  <1>2. \A t \in T : a[t] \in Nat
    BY <1>1
  <1> QED BY <1>1, <1>2, SumPositive

\* What Section makes is a section; its remainder is a total.
LEMMA SectionIs ==
    ASSUME NEW found, NEW s, Returned(found, s), NEW T \in SUBSET DOMAIN found,
           NEW listed, NEW h, NEW extra
    PROVE  LET x == Section(found, s, T, listed, h, extra)
           IN  /\ IsSection(x) /\ x.himoku = h
               /\ (\A t \in DOMAIN found : Amount(found[t], s) >= 0) =>
                     x.total >= 0 /\ x.other >= 0
               /\ listed = T => x.other = 0
  <1>1. T \ listed \in SUBSET DOMAIN found
    OBVIOUS
  <1>2. Total(found, s, T) \in Int /\ Total(found, s, T \ listed) \in Int
    BY <1>1, TotalIs
  <1>3. (\A t \in DOMAIN found : Amount(found[t], s) >= 0) =>
           Total(found, s, T) >= 0 /\ Total(found, s, T \ listed) >= 0
    BY <1>1, TotalNat
  <1>4. listed = T => Total(found, s, T \ listed) = 0
    <2>1. Total(found, s, {}) = SumOn(Amounts(found, s), {})
      BY TotalIs
    <2> QED BY <2>1, SumEmpty
  <1> QED BY <1>2, <1>3, <1>4 DEF Section, IsSection

\* The sections of a category are sections, and none is negative unless an
\* amount is.
LEMMA SectionsAre ==
    ASSUME NEW found, NEW s \in ReportSections, Returned(found, s)
    PROVE  /\ Sheeted(found, s)
           /\ (\A t \in DOMAIN found : Amount(found[t], s) >= 0) =>
                 \A x \in SectionsOf(found, s) : x.total >= 0 /\ x.other >= 0
  <1> DEFINE nat == \A t \in DOMAIN found : Amount(found[t], s) >= 0
             D == DOMAIN found
  <1>1. CASE s \in Political
    <2>1. /\ SectionsOf(found, s) = {PoliticalPart(found, s, h) : h \in Friendly(found)}
          /\ IsFiniteSet(Friendly(found))
      BY <1>1, SectionKinds, PoliticalParts
    <2>2. IsFiniteSet(SectionsOf(found, s))
      <3> DEFINE f == [h \in Friendly(found) |-> PoliticalPart(found, s, h)]
      <3>1. f \in Surjection(Friendly(found), SectionsOf(found, s))
        BY <2>1 DEF Surjection
      <3> QED BY <2>1, <3>1, FS_Surjection
    <2>3. ASSUME NEW h \in Friendly(found)
          PROVE  LET x == PoliticalPart(found, s, h)
                 IN  IsSection(x) /\ x.himoku = h /\ (nat => x.total >= 0 /\ x.other >= 0)
      <3>1. Of(found, h) \in SUBSET D
        BY DEF Of
      <3> QED BY <3>1, SectionIs DEF PoliticalPart
    <2>4. s \notin ListedIncome
      BY <1>1 DEF Political, ListedIncome
    <2> QED BY <1>1, <2>1, <2>2, <2>3, <2>4 DEF Sheeted, Apart
  <1>2. ASSUME NEW x, SectionsOf(found, s) = {x}, IsSection(x), s \in ListedIncome => x.other = 0,
               nat => x.total >= 0 /\ x.other >= 0
        PROVE  Sheeted(found, s) /\ (nat => \A y \in SectionsOf(found, s) : y.total >= 0 /\ y.other >= 0)
    BY <1>2, FS_Singleton DEF Sheeted, Apart
  <1>3. CASE s = Donation
    <2>1. SectionsOf(found, s) = {DonationSection(found)}
      BY <1>3, SectionKinds
    <2>2. \E listed, h, extra : DonationSection(found) = Section(found, s, D, listed, h, extra)
      BY <1>3 DEF DonationSection
    <2>3. s \notin ListedIncome
      BY <1>3 DEF Donation, ListedIncome
    <2> QED BY <1>2, <2>1, <2>2, <2>3, SectionIs
  <1>4. CASE s \in ListedIncome
    <2>1. SectionsOf(found, s) = {ListedSection(found, s)}
      BY <1>4, SectionKinds
    <2> QED BY <1>2, <2>1, SectionIs DEF ListedSection
  <1>5. CASE s \in Routine \cup {OtherIncome}
    <2>1. SectionsOf(found, s) = {RoutineSection(found, s)}
      BY <1>5, SectionKinds
    <2>2. s \notin ListedIncome
      BY <1>5 DEF Routine, OtherIncome, ListedIncome
    <2> QED BY <1>2, <2>1, <2>2, SectionIs DEF RoutineSection
  <1>6. CASE s = Personnel
    <2>1. SectionsOf(found, s) = {PersonnelSection(found)}
      BY <1>6, SectionKinds
    <2>2. Total(found, s, D) \in Int /\ (nat => Total(found, s, D) >= 0)
      BY TotalIs, TotalNat
    <2>3. /\ IsSection(PersonnelSection(found)) /\ PersonnelSection(found).other = 0
          /\ PersonnelSection(found).total = Total(found, s, D)
      BY <1>6, <2>2 DEF PersonnelSection, IsSection
    <2> QED BY <1>2, <2>1, <2>2, <2>3
  <1> QED BY <1>1, <1>3, <1>4, <1>5, <1>6, SectionKinds


\* The sheet of a section.
Leaf(s, x) == [x EXCEPT !.other = IF s \in ListedIncome THEN 0 ELSE Cell(@)]
Leaves(s, X) == {Leaf(s, x) : x \in X}

\* The sections that are written or left out together.
Together(s) == IF s \in Routine THEN Routine ELSE IF s \in Political THEN Political ELSE {s}

\* What a sheet says of its section.
LEMMA LeafFields ==
    ASSUME NEW s, NEW x, IsSection(x)
    PROVE  /\ Leaf(s, x).himoku = x.himoku /\ Leaf(s, x).total = x.total
           /\ Leaf(s, x).rows = x.rows
           /\ Leaf(s, x).other = IF s \in ListedIncome THEN 0 ELSE Cell(x.other)
  BY DEF IsSection, Leaf

\* What is written of a category: nothing, a sheet per section, or an empty one.
LEMMA WrittenIs ==
    ASSUME NEW data, NEW s \in Sections \ {Personnel}
    PROVE  /\ ~Output(data, Together(s)) => Written(data, s) = {}
           /\ Output(data, Together(s)) =>
                Written(data, s) = IF s \in Political /\ data[s] = {} THEN {EmptySheet}
                                   ELSE {Leaf(s, x) : x \in data[s]}
  <1>0. s \in ReportSections
    BY ReportAssumption
  <1>1. CASE s = Donation
    <2>1. Together(s) = {s} /\ s \notin ListedIncome /\ s \notin Political
          /\ s \notin Routine /\ s # OtherIncome
      BY <1>1 DEF Together, Donation, Routine, Political, ListedIncome, OtherIncome
    <2> QED BY <1>1, <2>1 DEF Written, DonationSheets, Remainder, Leaf
  <1>2. CASE s \in ListedIncome
    <2>1. Together(s) = {s} /\ s # Donation /\ s \notin Political /\ s # OtherIncome
          /\ s \notin Routine
      BY <1>2 DEF Together, Donation, Routine, Political, ListedIncome, OtherIncome
    <2>2. IncomeSheets(data, s) = {Leaf(s, x) : x \in data[s]}
      BY <1>2, <2>1 DEF IncomeSheets, Leaf
    <2> QED BY <1>2, <2>1, <2>2 DEF Written
  <1>3. CASE s = OtherIncome
    <2>1. Together(s) = {s} /\ s # Donation /\ s \notin ListedIncome /\ s \notin Political
          /\ s \notin Routine
      BY <1>3 DEF Together, Donation, Routine, Political, ListedIncome, OtherIncome
    <2>2. IncomeSheets(data, s) = {Leaf(s, x) : x \in data[s]}
      BY <1>3, <2>1 DEF IncomeSheets, Leaf
    <2> QED BY <1>3, <2>1, <2>2 DEF Written
  <1>4. CASE s \in Routine
    <2>1. Together(s) = Routine /\ s # Donation /\ s \notin ListedIncome \cup {OtherIncome}
          /\ s \notin Political
      BY <1>4 DEF Together, Donation, Routine, Political, ListedIncome, OtherIncome
    <2>2. RoutineSheets(data, s) = {Leaf(s, x) : x \in data[s]}
      BY <2>1 DEF RoutineSheets, Remainder, Leaf
    <2> QED BY <1>4, <2>1, <2>2 DEF Written
  <1>5. CASE s \in Political
    <2>1. Together(s) = Political /\ s # Donation /\ s \notin ListedIncome \cup {OtherIncome}
          /\ s \notin Routine
      BY <1>5 DEF Together, Donation, Routine, Political, ListedIncome, OtherIncome
    <2>2. PoliticalSheets(data, s) = IF data[s] = {} THEN {EmptySheet}
                                     ELSE {Leaf(s, x) : x \in data[s]}
      BY <2>1 DEF PoliticalSheets, Remainder, Leaf
    <2> QED BY <1>5, <2>1, <2>2 DEF Written
  <1> QED BY <1>0, <1>1, <1>2, <1>3, <1>4, <1>5 DEF ReportSections, IncomeSections

\* The sheets of some sections repeat their totals and their rows, and their
\* remainders, if none is negative.
LEMMA LeavesAddUp ==
    ASSUME NEW X, Apart(X), NEW s, NEW W, W = Leaves(s, X)
    PROVE  /\ Totals(W) = Sum(X) /\ RowsIn(W) = RowsIn(X)
           /\ (\A x \in X : x.other >= 0 /\ (s \in ListedIncome => x.other = 0)) =>
                 Remainders(W) = Remainders(X)
  <1> DEFINE f == [x \in X |-> Leaf(s, x)]
             t == [x \in X |-> x.total]
             o == [x \in X |-> x.other]
             tw == [x \in W |-> x.total]
             ow == [x \in W |-> x.other]
  <1>0. /\ IsFiniteSet(X) /\ (\A x \in X : IsSection(x))
        /\ \A x, y \in X : x.himoku = y.himoku => x = y
    BY DEF Apart
  <1>1. \A x \in X : /\ f[x] = Leaf(s, x) /\ Leaf(s, x) \in W
                     /\ t[x] = x.total /\ o[x] = x.other
                     /\ tw[f[x]] = Leaf(s, x).total /\ ow[f[x]] = Leaf(s, x).other
    BY DEF Leaves
  <1>2. W = {f[x] : x \in X}
    BY DEF Leaves
  <1>3. /\ Totals(W) = SumOn(tw, W) /\ Sum(X) = SumOn(t, X)
        /\ Remainders(W) = SumOn(ow, W) /\ Remainders(X) = SumOn(o, X)
    BY SumFunctionIs DEF Totals, Sum, Remainders
  <1>4. RowsIn(W) = RowsIn(X)
    BY <1>0, LeafFields DEF RowsIn, Leaves
  <1>5. \A x \in X : /\ f[x].himoku = x.himoku /\ tw[f[x]] = x.total /\ t[x] = x.total
                     /\ x.total \in Int /\ x.other \in Int /\ o[x] = x.other
                     /\ ow[f[x]] = IF s \in ListedIncome THEN 0 ELSE Cell(x.other)
    <2> HIDE DEF f, t, o, tw, ow
    <2> SUFFICES ASSUME NEW x \in X
                 PROVE  /\ f[x].himoku = x.himoku /\ tw[f[x]] = x.total /\ t[x] = x.total
                        /\ x.total \in Int /\ x.other \in Int /\ o[x] = x.other
                        /\ ow[f[x]] = IF s \in ListedIncome THEN 0 ELSE Cell(x.other)
      OBVIOUS
    <2> QED BY <1>0, <1>1, LeafFields DEF IsSection
  <1> HIDE DEF f, t, o, tw, ow
  <1>6. \A x, y \in X : f[x] = f[y] => x = y
    BY <1>0, <1>5
  <1>7. SumOn(tw, W) = SumOn(t, X)
    <2>1. OneToOne(t, tw, X, f, W)
      BY <1>0, <1>2, <1>5, <1>6 DEF OneToOne
    <2> QED BY <2>1, SumImage
  <1>8. ASSUME \A x \in X : x.other >= 0 /\ (s \in ListedIncome => x.other = 0)
        PROVE  SumOn(ow, W) = SumOn(o, X)
    <2>1. \A x \in X : o[x] \in Int /\ ow[f[x]] = o[x]
      BY <1>5, <1>8 DEF Cell
    <2>2. OneToOne(o, ow, X, f, W)
      BY <1>0, <1>2, <1>6, <2>1 DEF OneToOne
    <2> QED BY <2>2, SumImage
  <1> QED BY <1>3, <1>4, <1>7, <1>8


\* What is left out has no rows and no positive total.
LEMMA LeftOut ==
    ASSUME NEW data, NEW s \in Sections, ~Output(data, Together(s)), NEW x \in data[s]
    PROVE  x.rows = {} /\ ~(x.total > 0)
  <1>1. s \in Together(s) \cap Sections
    BY DEF Together
  <1> QED BY <1>1 DEF Output, HasContent

\* No rows and nothing positive in a section that is left out.
LEMMA LeftOutSums ==
    ASSUME NEW read, Whole(read), NEW s \in Sections \ {Personnel},
           ~Output(Data(read), Together(s))
    PROVE  /\ UNION {x.rows : x \in Data(read)[s]} = {}
           /\ Sum(Data(read)[s]) <= 0
           /\ (\A t \in DOMAIN read[s] : Amount(read[s][t], s) >= 0) =>
                 /\ Sum(Data(read)[s]) = 0
                 /\ SumFunction([x \in Data(read)[s] |-> x.other]) = 0
  <1> DEFINE X == Data(read)[s]
             v == [x \in X |-> x.total]
             m == [x \in X |-> 0 - x.total]
             z == [x \in X |-> 0]
  <1>1. /\ X = SectionsOf(read[s], s) /\ Returned(read[s], s) /\ s \in ReportSections
    BY ReportAssumption DEF Data, Whole
  <1>2. Sheeted(read[s], s)
    BY <1>1, SectionsAre
  <1>3. IsFiniteSet(X) /\ \A x \in X : x.total \in Int /\ x.total <= 0 /\ x.rows = {}
    BY <1>1, <1>2, LeftOut DEF Sheeted, Apart, IsSection
  <1>4. UNION {x.rows : x \in X} = {}
    BY <1>3
  <1>5. Sum(X) = SumOn(v, X)
    BY SumFunctionIs DEF Sum
  <1>6. \A x \in X : /\ v[x] = x.total /\ m[x] = 0 - x.total /\ z[x] = 0
    OBVIOUS
  <1> HIDE DEF X, v, m, z
  <1>7. SumOn(m, X) = SumOn(z, X) - SumOn(v, X) /\ SumOn(z, X) = 0
    <2>1. \A x \in X : z[x] \in Int /\ v[x] \in Int /\ m[x] = z[x] - v[x]
      BY <1>3, <1>6
    <2>2. SumOn(m, X) = SumOn(z, X) - SumOn(v, X)
      BY <1>3, <2>1, SumLess
    <2>3. SumOn(z, X) = 0
      BY <1>3, <1>6, SumZero
    <2> QED BY <2>2, <2>3
  <1>8. SumOn(m, X) \in Nat
    <2>1. \A x \in X : m[x] \in Nat
      BY <1>3, <1>6
    <2> QED BY <1>3, <2>1, SumPositive
  <1>9. SumOn(v, X) \in Int
    BY <1>3, <1>6, SumInt
  <1>10. Sum(X) <= 0
    BY <1>5, <1>7, <1>8, <1>9
  <1>11. ASSUME \A t \in DOMAIN read[s] : Amount(read[s][t], s) >= 0
         PROVE  Sum(X) = 0 /\ SumFunction([x \in X |-> x.other]) = 0
    <2> USE DEF X
    <2>1. Sum(X) = 0
      <3>1. Sum(X) \in Nat
        BY <1>11, ContentIsTotal
      <3> QED BY <1>10, <3>1
    <2>2. RowsOf(Data(read), {s}) = {}
      BY <1>4 DEF RowsOf
    <2>3. SumRows(Details(Data(read), s)) = 0
      <3>1. Details(Data(read), s) = {}
        BY <2>2 DEF Details
      <3>2. SumRows({}) = SumOn([r \in {} |-> r.amount], {})
        BY SumFunctionIs DEF SumRows
      <3> QED BY <3>1, <3>2, SumEmpty
    <2>4. SumFunction([x \in X |-> x.other]) \in Int
      <3> DEFINE o == [x \in X |-> x.other]
      <3>1. SumFunction(o) = SumOn(o, X)
        BY SumFunctionIs
      <3>2. \A x \in X : o[x] \in Int
        BY <1>1, <1>2 DEF Sheeted, Apart, IsSection
      <3> HIDE DEF o, X
      <3>3. SumOn(o, X) \in Int
        BY <1>3, <3>2, SumInt
      <3> QED BY <3>1, <3>3 DEF o
    <2> QED BY <2>1, <2>3, <2>4, TotalsReconcile
  <1> QED BY <1>4, <1>10, <1>11 DEF X

\* What the sheets of a category say, against its sections: their rows, their
\* total if they are written, and their remainder.
LEMMA WrittenAddsUp ==
    ASSUME NEW read, Whole(read), NEW s \in Sections \ {Personnel}
    PROVE  LET X == Data(read)[s]
               W == Written(Data(read), s)
           IN  /\ RowsIn(W) = RowsIn(X)
               /\ W = {} => Sum(X) <= 0
               /\ W # {} => Totals(W) = Sum(X)
               /\ (\A t \in DOMAIN read[s] : Amount(read[s][t], s) >= 0) =>
                     /\ Totals(W) = Sum(X)
                     /\ Remainders(W) = Remainders(X)
  <1> DEFINE data == Data(read)
             X == data[s]
             W == Written(data, s)
             nat == \A t \in DOMAIN read[s] : Amount(read[s][t], s) >= 0
  <1>1. /\ X = SectionsOf(read[s], s) /\ Returned(read[s], s) /\ s \in ReportSections
    BY ReportAssumption DEF Data, Whole
  <1>2. Sheeted(read[s], s) /\ (nat => \A x \in X : x.total >= 0 /\ x.other >= 0)
    BY <1>1, SectionsAre
  <1>3. Totals({}) = 0 /\ Remainders({}) = 0
    <2>1. Totals({}) = SumOn([x \in {} |-> x.total], {})
          /\ Remainders({}) = SumOn([x \in {} |-> x.other], {})
      BY SumFunctionIs DEF Totals, Remainders
    <2> QED BY <2>1, SumEmpty
  <1>4. Sum({}) = 0
    BY <1>3 DEF Totals, Sum
  <1>5. CASE ~Output(data, Together(s))
    <2>1. W = {} /\ RowsIn(W) = {}
      BY <1>5, WrittenIs DEF RowsIn
    <2>2. /\ RowsIn(X) = {} /\ Sum(X) <= 0
          /\ nat => Sum(X) = 0 /\ Remainders(X) = 0
      BY <1>5, LeftOutSums DEF Remainders, RowsIn
    <2> QED BY <1>3, <2>1, <2>2
  <1>6. CASE Output(data, Together(s)) /\ s \in Political /\ X = {}
    <2>1. W = {EmptySheet}
      BY <1>6, WrittenIs
    <2>2. EmptySheet.total = 0 /\ EmptySheet.other = 0 /\ EmptySheet.rows = {}
      BY DEF EmptySheet
    <2>3. Totals(W) = 0 /\ Remainders(W) = 0 /\ RowsIn(W) = {}
      BY <2>1, <2>2, OneSection DEF Totals, Remainders, RowsIn, Sum
    <2>4. RowsIn(X) = {}
      BY <1>6 DEF RowsIn
    <2> QED BY <1>3, <1>4, <1>6, <2>1, <2>3, <2>4
  <1>7. CASE Output(data, Together(s)) /\ ~(s \in Political /\ X = {})
    <2>1. W = Leaves(s, X)
      BY <1>7, WrittenIs DEF Leaves
    <2>2. X # {}
      BY <1>1, <1>2, <1>7 DEF Sheeted, Apart
    <2>3. Apart(X)
      BY <1>1, <1>2 DEF Sheeted, Apart
    <2>4. nat => \A x \in X : x.other >= 0 /\ (s \in ListedIncome => x.other = 0)
      BY <1>1, <1>2 DEF Sheeted, Apart
    <2> HIDE DEF X, W, nat
    <2>5. Totals(W) = Sum(X) /\ RowsIn(W) = RowsIn(X)
      BY <2>1, <2>3, LeavesAddUp
    <2>6. ASSUME nat
          PROVE  Remainders(W) = Remainders(X)
      BY <2>1, <2>3, <2>4, <2>6, LeavesAddUp
    <2>7. W # {}
      BY <2>1, <2>2 DEF Leaves
    <2> QED BY <2>5, <2>6, <2>7 DEF X, W, nat
  <1> QED BY <1>5, <1>6, <1>7


\* The items of sheet 13 are the totals of their categories, and its grant
\* column that of the summary, if no amount is negative.
LEMMA ItemsAre ==
    ASSUME NEW read, Whole(read), Nonnegative(read)
    PROVE  /\ \A s \in Sections \ IncomeSections :
                  Sheet13(Data(read)).amount[s] = Sum(Data(read)[s])
           /\ Sheet13(Data(read)).grant = ExpenseSummary(Data(read)).grant
  <1> DEFINE data == Data(read)
             granted(s) == SumRows({r \in RowsOf(data, {s}) : r.koufukin})
  <1>1. \A s \in Sections : \A t \in DOMAIN read[s] : Amount(read[s][t], s) >= 0
    BY DEF Whole, Nonnegative
  <1>2. \A s \in Sections : Sum(data[s]) \in Nat
    BY <1>1, ContentIsTotal
  <1>3. ASSUME NEW s \in Sections \ IncomeSections
        PROVE  Sheet13(data).amount[s] = Sum(data[s])
    <2>1. Sum(data[s]) \in Nat
      BY <1>2
    <2> HIDE DEF data
    <2> QED BY <2>1 DEF Sheet13, ExpenseSummary, Cell
  <1>4. ASSUME NEW s \in Sections
        PROVE  granted(s) \in Nat
    <2> DEFINE F == Flagged(read, s)
               u == [r \in F |-> r.amount]
    <2>1. IsFiniteSet(F) /\ F \subseteq RowsFor(read[s], s) /\ \A r \in F : r.amount \in Int
      BY FlaggedRows
    <2>2. \A r \in F : \E t \in ListedIn(read[s], s) : r.amount = Amount(read[s][t], s)
      BY <2>1, RowFields DEF RowsFor
    <2>3. ListedIn(read[s], s) \subseteq DOMAIN read[s]
      BY SectionKinds, ReportAssumption DEF Reaching
    <2>4. \A r \in F : u[r] \in Nat
      BY <1>1, <2>1, <2>2, <2>3
    <2>5. granted(s) = SumOn(u, F)
      BY SumFunctionIs DEF SumRows, Flagged
    <2> HIDE DEF F, u
    <2> QED BY <2>1, <2>4, <2>5, SumPositive
  <1>5. Sheet13(data).grant = ExpenseSummary(data).grant
    <2> HIDE DEF data
    <2>1. \A s \in Sections \ IncomeSections : ExpenseSummary(data).grant[s] = granted(s)
      BY DEF ExpenseSummary
    <2>2. DOMAIN ExpenseSummary(data).grant = Sections \ IncomeSections
      BY DEF ExpenseSummary
    <2>3. Sheet13(data).grant
             = [s \in Sections \ IncomeSections |-> Cell(ExpenseSummary(data).grant[s])]
      BY DEF Sheet13
    <2>4. \A s \in Sections \ IncomeSections :
             Cell(ExpenseSummary(data).grant[s]) = ExpenseSummary(data).grant[s]
      <3> HIDE DEF granted
      <3> SUFFICES ASSUME NEW s \in Sections \ IncomeSections
                   PROVE  Cell(granted(s)) = granted(s)
        BY <2>1
      <3> QED BY <1>4 DEF Cell
    <2>5. ExpenseSummary(data).grant
             = [s \in Sections \ IncomeSections |-> ExpenseSummary(data).grant[s]]
      BY DEF ExpenseSummary
    <2> QED BY <2>3, <2>4, <2>5
  <1> QED BY <1>3, <1>5

\* The sheets of one file agree with each other, if no amount is negative.
LEMMA WrittenAgrees ==
    ASSUME NEW read, Whole(read), Nonnegative(read)
    PROVE  SheetsAgree(read)
  <1> DEFINE data == Data(read)
             sheet == Sheet13(data)
             items(S) == SumFunction([s \in S \cap Sections |-> sheet.amount[s]])
             totals(S) == SumFunction([s \in S \cap Sections |-> Totals(Written(data, s))])
  <1>1. \A s \in Sections : \A t \in DOMAIN read[s] : Amount(read[s][t], s) >= 0
    BY DEF Whole, Nonnegative
  <1>2. \A s \in Sections \ {Personnel} :
           /\ Totals(Written(data, s)) = Sum(data[s])
           /\ Remainders(Written(data, s)) = Remainders(data[s])
           /\ RowsIn(Written(data, s)) = RowsIn(data[s])
    BY <1>1, WrittenAddsUp
  <1>3. \A s \in Sections \ IncomeSections : sheet.amount[s] = Sum(data[s])
    BY ItemsAre
  <1>4. \A s \in Sections \ {Personnel} :
           Totals(Written(data, s)) = SumRows({r \in RowsIn(Written(data, s)) : ~r.subtotal})
                                      + Remainders(Written(data, s))
    <2>1. \A s \in Sections : RowsIn(data[s]) = RowsOf(data, {s})
      <3> HIDE DEF data
      <3> QED BY DEF RowsIn, RowsOf
    <2>2. \A s \in Sections : Details(data, s) = {r \in RowsIn(data[s]) : ~r.subtotal}
      BY <2>1 DEF Details
    <2> QED BY <1>2, <2>2, TotalsReconcile DEF Remainders
  <1>5. /\ \A S : S \cap IncomeSections = {} => SumOver(data, S) = items(S)
        /\ \A S : Personnel \notin S => SumOver(data, S) = totals(S)
    <2> HIDE DEF data, sheet
    <2>1. ASSUME NEW S, S \cap IncomeSections = {}
          PROVE  SumOver(data, S) = items(S)
      <3>1. \A s \in S \cap Sections : sheet.amount[s] = Sum(data[s])
        BY <1>3, <2>1
      <3>2. [s \in S \cap Sections |-> sheet.amount[s]] = [s \in S \cap Sections |-> Sum(data[s])]
        BY <3>1
      <3> QED BY <3>2 DEF SumOver
    <2>2. ASSUME NEW S, Personnel \notin S
          PROVE  SumOver(data, S) = totals(S)
      <3>1. \A s \in S \cap Sections : Totals(Written(data, s)) = Sum(data[s])
        BY <1>2, <2>2
      <3>2. [s \in S \cap Sections |-> Totals(Written(data, s))]
               = [s \in S \cap Sections |-> Sum(data[s])]
        BY <3>1
      <3> QED BY <3>2 DEF SumOver
    <2> QED BY <2>1, <2>2
  <1>6. /\ (Routine \cup {Personnel}) \cap IncomeSections = {} /\ Political \cap IncomeSections = {}
        /\ Business \cap IncomeSections = {}
        /\ Personnel \notin IncomeSections /\ Personnel \notin {Donation}
        /\ (Routine \cup {Personnel}) \cap Political = {}
        /\ (Routine \cup Political) \cap IncomeSections = {} /\ Personnel \notin Routine \cup Political
    BY DEF Routine, Political, Personnel, Business, IncomeSections, Donation, OtherIncome,
           ListedIncome
  <1>7. SumOver(data, Routine \cup Political \cup {Personnel})
           = SumOver(data, Routine \cup {Personnel}) + SumOver(data, Political)
    <2> DEFINE A == (Routine \cup {Personnel}) \cap Sections
               B == Political \cap Sections
               C == (Routine \cup Political \cup {Personnel}) \cap Sections
               v == [s \in C |-> Sum(data[s])]
               va == [s \in A |-> Sum(data[s])]
               vb == [s \in B |-> Sum(data[s])]
    <2>1. C = A \cup B /\ A \cap B = {}
      BY <1>6
    <2>2. IsFiniteSet(A) /\ IsFiniteSet(B)
      BY SectionsFinite, FS_Subset
    <2>3. /\ SumOver(data, Routine \cup Political \cup {Personnel}) = SumOn(v, C)
          /\ SumOver(data, Routine \cup {Personnel}) = SumOn(va, A)
          /\ SumOver(data, Political) = SumOn(vb, B)
      BY SumFunctionIs DEF SumOver
    <2>4. \A s \in C : v[s] = Sum(data[s]) /\ v[s] \in Int
      <3>1. \A s \in Sections : Sum(data[s]) \in Nat
        BY <1>1, ContentIsTotal
      <3> QED BY <3>1
    <2>5. (\A s \in A : va[s] = v[s]) /\ (\A s \in B : vb[s] = v[s])
      OBVIOUS
    <2> HIDE DEF A, B, C, v, va, vb, data
    <2>6. SumOn(va, A) = SumOn(v, A) /\ SumOn(vb, B) = SumOn(v, B)
      BY <2>2, <2>5, SumSame
    <2>7. SumOn(v, A \cup B) = SumOn(v, A) + SumOn(v, B)
      BY <2>1, <2>2, <2>4, SumTwo
    <2> QED BY <2>1, <2>3, <2>6, <2>7
  <1>8. /\ sheet.regular = SumOver(data, Routine \cup {Personnel})
        /\ sheet.political = SumOver(data, Political) /\ sheet.business = SumOver(data, Business)
        /\ sheet.total = SumOver(data, Routine \cup Political \cup {Personnel})
        /\ Sheet02(data).income = SumOver(data, IncomeSections)
        /\ Sheet02(data).gifts = SumOver(data, {Donation})
        /\ Sheet16(data).total = SumRows(GrantRows(data))
    BY DEF Sheet13, ExpenseSummary, Sheet02, Summary, Sheet16
  <1>9. SumFunction(sheet.grant) = SumRows(GrantRows(data))
    BY ItemsAre, GrantsReconcile
  <1>10. \A s \in (Routine \cup Political) \cap Sections : sheet.amount[s] = Totals(Written(data, s))
    BY <1>2, <1>3, <1>6
  <1> HIDE DEF data, sheet, items, totals
  <1>11. /\ sheet.regular = items(Routine \cup {Personnel}) /\ sheet.political = items(Political)
         /\ sheet.business = items(Business) /\ sheet.total = sheet.regular + sheet.political
         /\ Sheet02(data).income = totals(IncomeSections)
         /\ Sheet02(data).gifts = totals({Donation})
    BY <1>5, <1>6, <1>7, <1>8
  <1> QED BY <1>4, <1>8, <1>9, <1>10, <1>11 DEF SheetsAgree, data, sheet, items, totals

\* The sheets of one file add up and agree with each other, whatever was edited
\* while it was made.
THEOREM FilesReconcile == SheetSpec => []FileReconciles
  <1>1. SheetSpec => []SheetsReconcile
    BY SheetsFollowReport, SheetsAddUp, PTL
  <1>2. SheetSpec => []ReportInv
    BY SheetsFollowReport, ReportInvariant, PTL
  <1>3. SheetsReconcile /\ ReportInv => FileReconciles
    <2> SUFFICES ASSUME SheetsReconcile, ReportInv PROVE FileReconciles
      OBVIOUS
    <2>1. Filed /\ Nonnegative(answer.read) => SheetsAgree(answer.read)
      BY WrittenAgrees DEF ReportInv
    <2> QED BY <2>1 DEF FileReconciles
  <1> QED BY <1>1, <1>2, <1>3, PTL


\* What the panel of a category shows, against its sections.
LEMMA PanelIs ==
    ASSUME NEW read, Whole(read), NEW s \in Sections \ {Personnel}
    PROVE  LET X == Data(read)[s]
               p == Tables(Data(read))[s]
           IN  /\ p.rows = RowsIn(X) /\ p.total = Sum(X)
               /\ Nonnegative(read) => p.other = Remainders(X)
  <1> DEFINE data == Data(read)
             X == data[s]
             p == Tables(data)[s]
  <1>1. /\ X = SectionsOf(read[s], s) /\ Returned(read[s], s) /\ s \in ReportSections
    BY ReportAssumption DEF Data, Whole
  <1>2. /\ Apart(X) /\ (s \in ListedIncome => \A x \in X : x.other = 0)
        /\ s \notin Political => \E x \in X : X = {x}
        /\ Nonnegative(read) => \A x \in X : x.total >= 0 /\ x.other >= 0
    <2>1. Nonnegative(read) => \A t \in DOMAIN read[s] : Amount(read[s][t], s) >= 0
      BY DEF Nonnegative, Whole
    <2> QED BY <1>1, <2>1, SectionsAre DEF Sheeted
  <1> HIDE DEF data
  <1>3. CASE s \in Political
    <2>1. s # Donation /\ s \notin ListedIncome \cup {OtherIncome} /\ s \notin Routine
      BY <1>3 DEF Donation, Routine, Political, ListedIncome, OtherIncome
    <2>2. p = PoliticalPanel(data, s)
      BY <1>3, <2>1 DEF Tables
    <2>3. p.rows = RowsIn(X) /\ p.total = Sum(X) /\ p.other = Cell(Remainders(X))
      BY <2>2 DEF PoliticalPanel, Panel, RowsIn, Remainders
    <2>4. ASSUME Nonnegative(read)
          PROVE  Remainders(X) \in Nat
      <3> DEFINE o == [x \in X |-> x.other]
      <3>1. Remainders(X) = SumOn(o, X)
        BY SumFunctionIs DEF Remainders
      <3>2. IsFiniteSet(X) /\ \A x \in X : o[x] \in Nat
        BY <1>2, <2>4 DEF Apart, IsSection
      <3> HIDE DEF o, X
      <3>3. SumOn(o, X) \in Nat
        BY <3>2, SumPositive
      <3> QED BY <3>1, <3>3
    <2> QED BY <2>3, <2>4 DEF Cell, data
  <1>4. CASE s \notin Political
    <2>1. PICK x \in X : X = {x}
      BY <1>2, <1>4
    <2>2. IsSection(x) /\ x.total \in Int /\ x.other \in Int
      BY <1>2, <2>1 DEF Apart, IsSection
    <2>3. The(X) = x
      BY <2>1 DEF The
    <2>4. /\ p.rows = x.rows /\ p.total = x.total
          /\ p.other = IF s \in ListedIncome THEN Cell(0) ELSE Cell(x.other)
      <3>1. CASE s = Donation
        <4>1. s \notin ListedIncome \cup {OtherIncome} /\ s \notin Routine
          BY <3>1 DEF Donation, OtherIncome, ListedIncome, Routine
        <4>2. p = DonationPanel(data)
          BY <1>4, <3>1, <4>1 DEF Tables
        <4> QED BY <2>3, <3>1, <4>1, <4>2 DEF DonationPanel, Panel
      <3>2. CASE s \in ListedIncome \cup {OtherIncome}
        <4>1. s # Donation /\ (s = OtherIncome <=> s \notin ListedIncome) /\ s \notin Routine
          BY <3>2 DEF Donation, OtherIncome, ListedIncome, Routine
        <4>2. p = IncomePanel(data, s)
          BY <1>4, <3>2, <4>1 DEF Tables
        <4> QED BY <2>3, <3>2, <4>1, <4>2 DEF IncomePanel, Panel
      <3>3. CASE s \in Routine
        <4>1. s # Donation /\ s \notin ListedIncome \cup {OtherIncome}
          BY <3>3 DEF Donation, OtherIncome, ListedIncome, Routine
        <4>2. p = RoutinePanel(data, s)
          BY <1>4, <3>3, <4>1 DEF Tables
        <4> QED BY <2>3, <4>1, <4>2 DEF RoutinePanel, Panel
      <3> QED BY <1>1, <1>4, <3>1, <3>2, <3>3 DEF ReportSections, IncomeSections
    <2>5. Sum(X) = x.total /\ Remainders(X) = x.other /\ RowsIn(X) = x.rows
      BY <2>1, <2>2, OneSection DEF Remainders, RowsIn
    <2>6. ASSUME Nonnegative(read)
          PROVE  p.other = x.other
      BY <1>2, <2>1, <2>2, <2>4, <2>6 DEF Cell
    <2> QED BY <2>4, <2>5, <2>6 DEF data
  <1> QED BY <1>3, <1>4

\* FiledAsShown: the file that is downloaded is the preview beside it, unless
\* something was written since that preview was made.
THEOREM FileIsPreview == SheetSpec => FiledAsShown
  <1>1. ASSUME SheetInv, [SheetNext]_sheetVars,
               asker = "button", asker' = "none", answer'.status = "file",
               shown.status = "file", shown.since = edits
        PROVE  LET data == Data(answer'.read)
                   seen == Data(shown.read)
                   panel == Tables(seen)
               IN  /\ shown.profile = answer'.profile
                   /\ Sheet02(data) = SummaryPanel(seen)
                   /\ \A s \in Sections \ {Personnel} :
                        LET sheets == Written(data, s)
                        IN  /\ sheets = Written(seen, s)
                            /\ panel[s].rows = RowsIn(sheets)
                            /\ IF sheets = {} THEN panel[s].total <= 0
                                              ELSE panel[s].total = Totals(sheets)
                            /\ Nonnegative(shown.read) =>
                                 panel[s].other = Remainders(sheets)
    <2>1. Deliver
      <3>1. asker # asker' /\ asker # "none"
        BY <1>1
      <3> QED BY <1>1, <3>1 DEF SheetNext, OpenPage, ChooseOther, Download, ReadOne, EditBooks,
                                Ask, sheetVars
    <2>2. /\ export.pc = "reading" /\ answer'.read = export.read
          /\ answer'.profile = export.profile /\ DOMAIN export.read = Sections
      BY <1>1, <2>1 DEF Deliver, Answer, NoAnswer
    <2>3. /\ Whole(shown.read) /\ began = edits
          /\ \A s \in Sections : shown.read[s] = Found(s)
          /\ shown.profile = profile
      BY <1>1, ReportAssumption DEF SheetInv, Current, ReportInv, ReportTypeOK
    <2>4. /\ \A s \in Sections : answer'.read[s] = shown.read[s]
          /\ answer'.profile = shown.profile
      BY <1>1, <2>2, <2>3 DEF SheetInv
    <2>5. Data(answer'.read) = Data(shown.read)
      BY <2>4 DEF Data
    <2> DEFINE seen == Data(shown.read)
    <2>6. Sheet02(seen) = SummaryPanel(seen)
      BY DEF Sheet02, SummaryPanel
    <2>7. ASSUME NEW s \in Sections \ {Personnel}
          PROVE  LET sheets == Written(seen, s)
                     panel == Tables(seen)[s]
                 IN  /\ panel.rows = RowsIn(sheets)
                     /\ IF sheets = {} THEN panel.total <= 0 ELSE panel.total = Totals(sheets)
                     /\ Nonnegative(shown.read) => panel.other = Remainders(sheets)
      <3> DEFINE sheets == Written(seen, s)
                 panel == Tables(seen)[s]
                 X == seen[s]
      <3>1. /\ panel.rows = RowsIn(X) /\ panel.total = Sum(X)
            /\ Nonnegative(shown.read) => panel.other = Remainders(X)
        BY <2>3, PanelIs
      <3>2. Nonnegative(shown.read) =>
               \A t \in DOMAIN shown.read[s] : Amount(shown.read[s][t], s) >= 0
        BY <2>3 DEF Whole, Nonnegative
      <3>3. /\ RowsIn(sheets) = RowsIn(X)
            /\ sheets = {} => Sum(X) <= 0
            /\ sheets # {} => Totals(sheets) = Sum(X)
            /\ Nonnegative(shown.read) => Remainders(sheets) = Remainders(X)
        <4>1. /\ RowsIn(sheets) = UNION {x.rows : x \in X}
              /\ sheets = {} => Sum(X) <= 0
              /\ sheets # {} => Totals(sheets) = Sum(X)
          BY <2>3, WrittenAddsUp DEF RowsIn
        <4>2. Nonnegative(shown.read) => Remainders(sheets) = Remainders(X)
          BY <2>3, <3>2, WrittenAddsUp
        <4> QED BY <4>1, <4>2 DEF RowsIn
      <3> HIDE DEF sheets, panel, X
      <3> QED BY <3>1, <3>3 DEF sheets, panel, X
    <2> QED BY <2>4, <2>5, <2>6, <2>7
  <1>2. SheetSpec => []SheetInv
    BY SheetInitInv, SheetNextInv, PTL DEF SheetSpec
  <1> QED BY <1>1, <1>2, PTL DEF SheetSpec, FiledAsShown


-----------------------------------------------------------------------------
(* The report profile (Profile).  Nothing but its form keeps a profile to  *)
(* what sheet 01 has room for, so every content there is, in a form, on    *)
(* its way to the server, in the table or in the cache, must come from a   *)
(* form or from the table; and a kept answer is the row unless a save came *)
(* between, because a save marks the renders it overlaps and voids what is *)
(* kept.                                                                   *)

Text == Texts \cup {None}
Fitting == {c \in Content : Fits(c)}

\* A list a user has edited has texts for entries and no more than it may.
LEMMA ListEditsFit ==
    ASSUME NEW l \in Seq(Text), NEW m \in ListEdits(l)
    PROVE  m \in Seq(Text) /\ (Len(l) <= Slots => Len(m) <= Slots)
  <1>1. Len(l) \in Nat /\ DOMAIN l = 1..Len(l)
    BY LenProperties
  <1>2. CASE m \in Extend(l)
    <2>1. Len(l) < Slots /\ m = Append(l, None) /\ None \in Text
      BY <1>2 DEF Extend, Text
    <2>2. m \in Seq(Text) /\ Len(m) = Len(l) + 1
      BY <2>1, AppendProperties
    <2> QED BY <1>1, <2>1, <2>2 DEF Slots
  <1>3. ASSUME NEW i \in DOMAIN l, m = Lists!RemoveAt(l, i)
        PROVE  m \in Seq(Text) /\ (Len(l) <= Slots => Len(m) <= Slots)
    <2> DEFINE a == SubSeq(l, 1, i - 1)
               b == SubSeq(l, i + 1, Len(l))
    <2>1. /\ i \in Int /\ 1 <= i /\ i <= Len(l) /\ Len(l) \in Int
          /\ i - 1 \in Int /\ i + 1 \in Int
      BY <1>1
    <2>2. a \in Seq(Text) /\ Len(a) = i - 1
      <3>1. \A j \in 1..(i - 1) : l[j] \in Text
        BY <1>1, <2>1, ElementOfSeq
      <3>2. Len(a) = IF 1 <= i - 1 THEN i - 1 - 1 + 1 ELSE 0
        BY <2>1, <3>1, SubSeqProperties
      <3> QED BY <2>1, <3>1, <3>2, SubSeqProperties
    <2>3. b \in Seq(Text) /\ Len(b) = Len(l) - i
      <3>1. \A j \in (i + 1)..Len(l) : l[j] \in Text
        BY <1>1, <2>1, ElementOfSeq
      <3>2. Len(b) = IF i + 1 <= Len(l) THEN Len(l) - (i + 1) + 1 ELSE 0
        BY <2>1, <3>1, SubSeqProperties
      <3> QED BY <2>1, <3>1, <3>2, SubSeqProperties
    <2>4. m = a \o b
      BY <1>3 DEF Lists!RemoveAt
    <2> HIDE DEF a, b
    <2>5. m \in Seq(Text) /\ Len(m) = Len(a) + Len(b)
      BY <2>2, <2>3, <2>4, ConcatProperties
    <2>6. (i - 1) + (Len(l) - i) = Len(l) - 1 /\ Len(l) - 1 <= Len(l)
      BY <2>1
    <2>7. Len(m) = Len(l) - 1
      <3>1. Len(m) = (i - 1) + (Len(l) - i)
        BY <2>2, <2>3, <2>5, Zenon
      <3> QED BY <2>6, <3>1, Zenon
    <2> QED BY <2>1, <2>5, <2>7 DEF Slots
  <1>4. ASSUME NEW i \in DOMAIN l, NEW v \in Texts, m = [l EXCEPT ![i] = v]
        PROVE  m \in Seq(Text) /\ (Len(l) <= Slots => Len(m) <= Slots)
    BY <1>1, <1>4, ExceptSeq DEF Text
  <1> QED BY <1>2, <1>3, <1>4 DEF ListEdits

\* What fits, by its parts.
LEMMA FittingIs ==
    /\ \A c \in Fitting :
          /\ c.basic \in Text /\ c.officers \in Text /\ c.area \in Text
          /\ c.contacts \in Seq(Text) /\ Len(c.contacts) <= Slots
          /\ c.fund \in Fund /\ (~c.fund.on => c.fund.periods = <<>>)
          /\ c.diet \in Diet /\ Len(c.diet.members) <= Slots
          /\ (c.diet.type \in {"none", "0"} => c.diet.members = <<>> /\ c.diet.periods = <<>>)
    /\ \A c \in Content :
          /\ Len(c.contacts) <= Slots /\ Len(c.diet.members) <= Slots
          /\ (~c.fund.on => c.fund.periods = <<>>)
          /\ (c.diet.type \in {"none", "0"} => c.diet.members = <<>> /\ c.diet.periods = <<>>)
          => c \in Fitting
  <1>1. \A c \in Content : /\ c.diet.members \in Seq(Text) /\ c.diet.periods \in Seq(Text)
                           /\ c.diet \in Diet
    BY DEF Content, Diet, Text
  <1>2. \A c \in Content : c.diet.members \o c.diet.periods = <<>>
                             <=> c.diet.members = <<>> /\ c.diet.periods = <<>>
    BY <1>1, ConcatEqualIffEmpty
  <1>3. \A c \in Content :
           /\ c.basic \in Text /\ c.officers \in Text /\ c.area \in Text
           /\ c.contacts \in Seq(Text) /\ c.fund \in Fund
    BY DEF Content, Text
  <1> QED BY <1>1, <1>2, <1>3 DEF Fitting, Fits

\* An edit of the form keeps to what fits.
LEMMA EditsFit ==
    ASSUME NEW c \in Fitting, NEW d \in Edits(c)
    PROVE  d \in Fitting
  <1> USE DEF Text
  <1>0. c \in Content
    BY DEF Fitting
  <1>1. CASE d \in BasicInfoEdits(c) \cup RepresentativeEdits(c) \cup OrganizationTypeEdits(c)
    <2>1. \E v \in Text : d \in {[c EXCEPT !.basic = v], [c EXCEPT !.officers = v],
                                  [c EXCEPT !.area = v]}
      BY <1>1 DEF BasicInfoEdits, RepresentativeEdits, OrganizationTypeEdits
    <2>2. d \in Content /\ d.contacts = c.contacts /\ d.fund = c.fund /\ d.diet = c.diet
      BY <1>0, <2>1 DEF Content
    <2> QED BY <2>2, FittingIs
  <1>2. CASE d \in ContactPersonsEdits(c)
    <2>1. PICK l \in ListEdits(c.contacts) : d = [c EXCEPT !.contacts = l]
      BY <1>2 DEF ContactPersonsEdits
    <2>2. l \in Seq(Text) /\ Len(l) <= Slots
      BY FittingIs, ListEditsFit
    <2>3. d \in Content /\ d.contacts = l /\ d.fund = c.fund /\ d.diet = c.diet
      BY <1>0, <2>1, <2>2 DEF Content
    <2> QED BY <2>2, <2>3, FittingIs
  <1>3. CASE d \in FundManagementEdits(c)
    <2>1. c.fund \in Fund
      BY FittingIs
    <2>2. PICK f \in Fund : d = [c EXCEPT !.fund = f] /\ (~f.on => f.periods = <<>>)
      <3>1. CASE d = [c EXCEPT !.fund = [on |-> ~c.fund.on, periods |-> <<>>]]
        <4>1. [on |-> ~c.fund.on, periods |-> <<>>] \in Fund
          BY <2>1, EmptySeq DEF Fund
        <4> QED BY <3>1, <4>1
      <3>2. CASE d \in {[c EXCEPT !.fund.periods = l] :
                          l \in IF c.fund.on THEN ListEdits(c.fund.periods) ELSE {}}
        <4>1. PICK l \in ListEdits(c.fund.periods) : c.fund.on /\ d = [c EXCEPT !.fund.periods = l]
          BY <3>2
        <4>2. l \in Seq(Text)
          BY <2>1, ListEditsFit DEF Fund
        <4>3. [c.fund EXCEPT !.periods = l] \in Fund /\ [c.fund EXCEPT !.periods = l].on
          BY <2>1, <4>1, <4>2 DEF Fund
        <4>4. d = [c EXCEPT !.fund = [c.fund EXCEPT !.periods = l]]
          BY <4>1
        <4> QED BY <4>3, <4>4
      <3> QED BY <1>3, <3>1, <3>2 DEF FundManagementEdits
    <2>3. d \in Content /\ d.contacts = c.contacts /\ d.fund = f /\ d.diet = c.diet
      BY <1>0, <2>2 DEF Content
    <2> QED BY <2>2, <2>3, FittingIs
  <1>4. CASE d \in DietMemberRelationEdits(c)
    <2>1. c.diet \in Diet /\ Len(c.diet.members) <= Slots
      BY FittingIs
    <2>2. PICK e \in Diet : /\ d = [c EXCEPT !.diet = e] /\ Len(e.members) <= Slots
                            /\ e.type \in {"none", "0"} => e.members = <<>> /\ e.periods = <<>>
      <3>1. CASE d = [c EXCEPT !.diet = [type |-> IF Enabled(c) THEN "0" ELSE "1",
                                         members |-> <<>>, periods |-> <<>>]]
        <4> DEFINE e == [type |-> IF Enabled(c) THEN "0" ELSE "1",
                         members |-> <<>>, periods |-> <<>>]
        <4>1. e \in Diet /\ Len(e.members) <= Slots /\ e.members = <<>> /\ e.periods = <<>>
          BY EmptySeq DEF Diet, Slots
        <4> QED BY <3>1, <4>1
      <3>2. CASE Enabled(c) /\ d \in {[c EXCEPT !.diet.type = k] : k \in {"1", "2", "3"}}
        <4>1. PICK k \in {"1", "2", "3"} : d = [c EXCEPT !.diet.type = k]
          BY <3>2
        <4> DEFINE e == [c.diet EXCEPT !.type = k]
        <4>2. /\ e \in Diet /\ e.members = c.diet.members /\ e.type = k
              /\ d = [c EXCEPT !.diet = e]
          BY <2>1, <4>1 DEF Diet
        <4> HIDE DEF e
        <4> QED BY <2>1, <4>2
      <3>3. CASE Enabled(c) /\ d \in {[c EXCEPT !.diet.members = l] : l \in ListEdits(c.diet.members)}
        <4>1. PICK l \in ListEdits(c.diet.members) : d = [c EXCEPT !.diet.members = l]
          BY <3>3
        <4>2. l \in Seq(Text) /\ Len(l) <= Slots
          BY <2>1, ListEditsFit DEF Diet
        <4> DEFINE e == [c.diet EXCEPT !.members = l]
        <4>3. /\ e \in Diet /\ e.members = l /\ e.type = c.diet.type
              /\ d = [c EXCEPT !.diet = e]
          BY <2>1, <4>1, <4>2 DEF Diet
        <4> HIDE DEF e
        <4> QED BY <3>3, <4>2, <4>3 DEF Enabled
      <3>4. CASE Enabled(c) /\ d \in {[c EXCEPT !.diet.periods = l] : l \in ListEdits(c.diet.periods)}
        <4>1. PICK l \in ListEdits(c.diet.periods) : d = [c EXCEPT !.diet.periods = l]
          BY <3>4
        <4>2. l \in Seq(Text)
          BY <2>1, ListEditsFit DEF Diet
        <4> DEFINE e == [c.diet EXCEPT !.periods = l]
        <4>3. /\ e \in Diet /\ e.members = c.diet.members /\ e.type = c.diet.type
              /\ d = [c EXCEPT !.diet = e]
          BY <2>1, <4>1, <4>2 DEF Diet
        <4> HIDE DEF e
        <4> QED BY <2>1, <3>4, <4>3 DEF Enabled
      <3> QED BY <1>4, <3>1, <3>2, <3>3, <3>4 DEF DietMemberRelationEdits
    <2>3. d \in Content /\ d.contacts = c.contacts /\ d.fund = c.fund /\ d.diet = e
      BY <1>0, <2>2 DEF Content
    <2> QED BY <2>2, <2>3, FittingIs
  <1> QED BY <1>1, <1>2, <1>3, <1>4 DEF Edits


\* The pages and the calls there may be; an id is that of a row of the table.
Call == [id : Years \cup {NoId}, year : Years, at : Years, content : Fitting,
         pc : {"sent", "stored", "refused", "saved"}]
Page == [shown : Years, year : Years, message : {"none", "saved", "error"},
         id : Years \cup {NoId}, content : Fitting]
Renders == [browser : Browsers \cup {Nobody}, year : Years, found : SUBSET Fitting,
            overlapped : BOOLEAN]

HasRow(y) == y \in DOMAIN profiles
RowsFit == \A y \in DOMAIN profiles : y \in Years /\ profiles[y] \in Fitting
KeptFit == \A y \in DOMAIN kept : /\ y \in Years /\ kept[y].found \in SUBSET Fitting
                                  /\ kept[y].found # {} => HasRow(y)
FormsFit == \A b \in DOMAIN forms : forms[b] \in Page /\ (forms[b].id # NoId => HasRow(forms[b].id))
SavesFit == \A b \in DOMAIN saves :
    /\ saves[b] \in Call /\ (saves[b].id # NoId => HasRow(saves[b].id))
    /\ saves[b].pc \in {"stored", "saved"} => HasRow(Target(saves[b]))
RendersFit == /\ renders \subseteq Renders
              /\ \A r \in renders : r.found # {} => HasRow(r.year)

\* What a render has found is the row, unless a save was served since.
RendersMarked == \A r \in renders : r.overlapped \/ r.found = Stored(r.year)

ProfileInv == /\ RowsFit /\ KeptFit /\ FormsFit /\ SavesFit /\ RendersFit
              /\ RendersMarked /\ KeptIsCurrent

\* A profile without anything in it fits.
LEMMA EmptyFits == Empty \in Fitting
  <1>1. Empty \in Content
    BY EmptySeq DEF Empty, Content, Fund, Diet
  <1>2. /\ Len(Empty.contacts) = 0 /\ Len(Empty.diet.members) = 0 /\ Empty.fund.periods = <<>>
        /\ Empty.diet.members = <<>> /\ Empty.diet.periods = <<>>
    BY EmptySeq DEF Empty
  <1> QED BY <1>1, <1>2, FittingIs DEF Slots

\* What a query finds is what may be found.
LEMMA StoredFits ==
    ASSUME RowsFit, NEW y
    PROVE  Stored(y) \in SUBSET Fitting /\ (Stored(y) # {} => HasRow(y))
  BY DEF RowsFit, Stored, HasRow

\* The page of a year reaches a browser.
LEMMA ShowKeeps ==
    ASSUME FormsFit, NEW b \in Browsers, NEW y \in Years, NEW found \in SUBSET Fitting,
           found # {} => HasRow(y), Show(b, y, found), profiles' = profiles
    PROVE  FormsFit'
  <1>1. Mount(y, found) \in Page /\ (Mount(y, found).id # NoId => HasRow(y) /\ Mount(y, found).id = y)
    <2>1. found # {} => (CHOOSE c \in found : TRUE) \in Fitting
      OBVIOUS
    <2>2. (IF found = {} THEN Empty ELSE CHOOSE c \in found : TRUE) \in Fitting
      BY <2>1, EmptyFits
    <2> QED BY <2>2 DEF Mount, Page
  <1>2. CASE b \in DOMAIN forms
    <2>1. forms' = [forms EXCEPT ![b].shown = y]
      BY <1>2 DEF Show
    <2>2. /\ DOMAIN forms' = DOMAIN forms
          /\ \A x \in DOMAIN forms : forms'[x] \in Page /\ forms'[x].id = forms[x].id
      BY <1>2, <2>1 DEF FormsFit, Page
    <2> QED BY <2>2 DEF FormsFit, HasRow
  <1>3. CASE b \notin DOMAIN forms
    <2>1. forms' = [x \in DOMAIN forms \cup {b} |-> IF x = b THEN Mount(y, found) ELSE forms[x]]
      BY <1>3 DEF Show
    <2>2. /\ DOMAIN forms' = DOMAIN forms \cup {b} /\ forms'[b] = Mount(y, found)
          /\ \A x \in DOMAIN forms : forms'[x] = forms[x]
      BY <1>3, <2>1
    <2> QED BY <1>1, <2>2 DEF FormsFit, HasRow, Page
  <1> QED BY <1>2, <1>3

\* Renders whose browser no longer waits for them.
LEMMA AbandonedFit ==
    ASSUME RendersFit, RendersMarked, NEW b
    PROVE  /\ Abandoned(b) \subseteq Renders
           /\ \A r \in Abandoned(b) : /\ r.found # {} => HasRow(r.year)
                                      /\ r.overlapped \/ r.found = Stored(r.year)
  <1>1. ASSUME NEW r \in renders, NEW q, q = [r EXCEPT !.browser = IF @ = b THEN Nobody ELSE @]
        PROVE  /\ q \in Renders /\ q.found = r.found /\ q.year = r.year
               /\ q.overlapped = r.overlapped
    BY <1>1 DEF RendersFit, Renders
  <1> QED BY <1>1 DEF Abandoned, RendersFit, RendersMarked

\* The queries and the pages: nothing is written.
LEMMA VisitKeeps ==
    ASSUME ProfileInv, NEW b \in Browsers, NEW y \in Years, Visit(b, y)
    PROVE  ProfileInv'
  <1>1. UNCHANGED <<profiles, kept, saves, inputs>>
    BY DEF Visit
  <1>2. RowsFit' /\ KeptFit' /\ SavesFit' /\ KeptIsCurrent'
    BY <1>1 DEF ProfileInv, RowsFit, KeptFit, SavesFit, KeptIsCurrent, Stored, HasRow, Target
  <1>3. /\ Abandoned(b) \subseteq Renders
        /\ \A r \in Abandoned(b) : /\ r.found # {} => HasRow(r.year)
                                   /\ r.overlapped \/ r.found = Stored(r.year)
    BY AbandonedFit DEF ProfileInv
  <1>4. CASE y \in DOMAIN kept /\ Show(b, y, kept[y].found) /\ renders' = Abandoned(b)
    <2>1. FormsFit'
      BY <1>1, <1>4, ShowKeeps DEF ProfileInv, KeptFit
    <2>2. RendersFit' /\ RendersMarked'
      BY <1>1, <1>3, <1>4 DEF RendersFit, RendersMarked, Stored, HasRow
    <2> QED BY <1>2, <2>1, <2>2 DEF ProfileInv
  <1>5. CASE renders' = Abandoned(b) \cup {Render(b, y)} /\ UNCHANGED forms
    <2>1. /\ Render(b, y) \in Renders /\ Render(b, y).found = Stored(y)
          /\ Render(b, y).year = y /\ (Stored(y) # {} => HasRow(y))
      BY StoredFits DEF Render, Renders, ProfileInv
    <2>2. RendersFit' /\ RendersMarked'
      BY <1>1, <1>3, <1>5, <2>1 DEF RendersFit, RendersMarked, Stored, HasRow
    <2>3. FormsFit'
      BY <1>1, <1>5 DEF ProfileInv, FormsFit, HasRow
    <2> QED BY <1>2, <2>2, <2>3 DEF ProfileInv
  <1> QED BY <1>4, <1>5 DEF Visit

LEMMA RenderAgainKeeps ==
    ASSUME ProfileInv, NEW y \in Years, RenderAgain(y)
    PROVE  ProfileInv'
  <1>1. UNCHANGED <<profiles, kept, forms, saves>> /\ renders' = renders \cup {Render(Nobody, y)}
    BY DEF RenderAgain
  <1>2. /\ Render(Nobody, y) \in Renders /\ Render(Nobody, y).found = Stored(y)
        /\ Render(Nobody, y).year = y /\ (Stored(y) # {} => HasRow(y))
    BY StoredFits DEF Render, Renders, ProfileInv
  <1>3. RendersFit' /\ RendersMarked'
    BY <1>1, <1>2 DEF ProfileInv, RendersFit, RendersMarked, Stored, HasRow
  <1>4. RowsFit' /\ KeptFit' /\ SavesFit' /\ FormsFit' /\ KeptIsCurrent'
    BY <1>1 DEF ProfileInv, RowsFit, KeptFit, SavesFit, FormsFit, KeptIsCurrent, Stored, HasRow,
              Target
  <1> QED BY <1>3, <1>4 DEF ProfileInv

LEMMA ArriveKeeps ==
    ASSUME ProfileInv, NEW r \in renders, Arrive(r) \/ LoadFails(r)
    PROVE  ProfileInv'
  <1>0. /\ r \in Renders /\ (r.found # {} => HasRow(r.year))
        /\ r.overlapped \/ r.found = Stored(r.year)
    BY DEF ProfileInv, RendersFit, RendersMarked
  <1>1. UNCHANGED <<profiles, saves>> /\ renders' = renders \ {r}
    BY DEF Arrive, LoadFails
  <1>2. RowsFit' /\ SavesFit' /\ RendersFit' /\ RendersMarked'
    BY <1>1 DEF ProfileInv, RowsFit, SavesFit, RendersFit, RendersMarked, Stored, HasRow, Target
  <1>3. FormsFit'
    <2>1. CASE UNCHANGED forms
      BY <1>1, <2>1 DEF ProfileInv, FormsFit, HasRow
    <2>2. ASSUME r.browser # Nobody, NEW found \in {r.found, {}}, Show(r.browser, r.year, found)
          PROVE  FormsFit'
      <3>1. r.browser \in Browsers /\ r.year \in Years /\ found \in SUBSET Fitting
        BY <1>0, <2>2 DEF Renders
      <3> QED BY <1>0, <1>1, <2>2, <3>1, ShowKeeps DEF ProfileInv
    <2> QED BY <2>1, <2>2 DEF Arrive, LoadFails
  <1>4. KeptFit' /\ KeptIsCurrent'
    <2>1. CASE UNCHANGED kept
      BY <1>1, <2>1 DEF ProfileInv, KeptFit, KeptIsCurrent, Stored, HasRow
    <2>2. CASE Arrive(r)
      <3>1. kept' = [y \in DOMAIN kept \cup {r.year} |->
                        IF y = r.year THEN [found |-> r.found, overlapped |-> r.overlapped]
                                      ELSE kept[y]]
        BY <2>2 DEF Arrive
      <3>2. /\ DOMAIN kept' = DOMAIN kept \cup {r.year}
            /\ kept'[r.year].found = r.found /\ kept'[r.year].overlapped = r.overlapped
            /\ \A y \in DOMAIN kept \ {r.year} : kept'[y] = kept[y]
        BY <3>1
      <3>3. KeptFit'
        BY <1>0, <1>1, <3>2 DEF ProfileInv, KeptFit, HasRow, Renders
      <3>4. KeptIsCurrent'
        BY <1>0, <1>1, <3>2 DEF ProfileInv, KeptIsCurrent, Stored
      <3> QED BY <3>3, <3>4
    <2> QED BY <2>1, <2>2 DEF LoadFails
  <1> QED BY <1>2, <1>3, <1>4 DEF ProfileInv


\* The user's steps.
LEMMA UserKeeps ==
    ASSUME ProfileInv, NEW b \in DOMAIN forms, EditField(b) \/ Leave(b) \/ Submit(b)
    PROVE  ProfileInv'
  <1>0. forms[b] \in Page /\ (forms[b].id # NoId => HasRow(forms[b].id))
    BY DEF ProfileInv, FormsFit
  <1>1. UNCHANGED <<profiles, kept>>
    BY DEF EditField, Leave, Submit
  <1>2. RowsFit' /\ KeptFit'
    BY <1>1 DEF ProfileInv, RowsFit, KeptFit, HasRow
  <1>3. CASE EditField(b)
    <2>1. PICK c \in Edits(forms[b].content) : forms' = [forms EXCEPT ![b].content = c]
      BY <1>3 DEF EditField
    <2>2. c \in Fitting
      BY <1>0, EditsFit DEF Page
    <2>3. /\ DOMAIN forms' = DOMAIN forms
          /\ \A x \in DOMAIN forms : forms'[x] \in Page /\ forms'[x].id = forms[x].id
      BY <2>1, <2>2 DEF ProfileInv, FormsFit, Page
    <2>4. FormsFit'
      BY <1>1, <2>3 DEF ProfileInv, FormsFit, HasRow
    <2>5. UNCHANGED <<renders, saves>>
      BY <1>3 DEF EditField
    <2>6. SavesFit' /\ RendersFit' /\ RendersMarked' /\ KeptIsCurrent'
      BY <1>1, <2>5 DEF ProfileInv, SavesFit, RendersFit, RendersMarked, KeptIsCurrent, Stored, HasRow, Target
    <2> QED BY <1>2, <2>4, <2>6 DEF ProfileInv
  <1>4. CASE Leave(b)
    <2>1. /\ UNCHANGED saves /\ renders' = Abandoned(b)
          /\ forms' = [x \in DOMAIN forms \ {b} |-> forms[x]]
      BY <1>4 DEF Leave, Maps!Restrict
    <2>2. FormsFit'
      BY <1>1, <2>1 DEF ProfileInv, FormsFit, HasRow
    <2>3. /\ Abandoned(b) \subseteq Renders
          /\ \A r \in Abandoned(b) : /\ r.found # {} => HasRow(r.year)
                                     /\ r.overlapped \/ r.found = Stored(r.year)
      BY AbandonedFit DEF ProfileInv
    <2>4. RendersFit' /\ RendersMarked'
      BY <1>1, <2>1, <2>3 DEF RendersFit, RendersMarked, Stored, HasRow
    <2>5. SavesFit' /\ KeptIsCurrent'
      BY <1>1, <2>1 DEF ProfileInv, SavesFit, KeptIsCurrent, Stored, HasRow, Target
    <2> QED BY <1>2, <2>2, <2>4, <2>5 DEF ProfileInv
  <1>5. CASE Submit(b)
    <2> DEFINE call == [id |-> forms[b].id, year |-> forms[b].year, at |-> forms[b].shown,
                        content |-> forms[b].content, pc |-> "sent"]
    <2>1. /\ b \notin DOMAIN saves /\ UNCHANGED renders
          /\ saves' = [x \in DOMAIN saves \cup {b} |-> IF x = b THEN call ELSE saves[x]]
          /\ forms' = [forms EXCEPT ![b].message = "none"]
      BY <1>5 DEF Submit
    <2>2. call \in Call /\ call.id = forms[b].id /\ call.pc = "sent"
      BY <1>0 DEF Call, Page
    <2> HIDE DEF call
    <2>3. /\ DOMAIN saves' = DOMAIN saves \cup {b} /\ saves'[b] = call
          /\ \A x \in DOMAIN saves : saves'[x] = saves[x]
      BY <2>1
    <2>4. SavesFit'
      BY <1>0, <1>1, <2>2, <2>3 DEF ProfileInv, SavesFit, HasRow, Target
    <2>5. /\ DOMAIN forms' = DOMAIN forms
          /\ \A x \in DOMAIN forms : forms'[x] \in Page /\ forms'[x].id = forms[x].id
      BY <2>1 DEF ProfileInv, FormsFit, Page
    <2>6. FormsFit'
      BY <1>1, <2>5 DEF ProfileInv, FormsFit, HasRow
    <2>7. RendersFit' /\ RendersMarked'
      BY <1>1, <2>1 DEF ProfileInv, RendersFit, RendersMarked, Stored, HasRow
    <2>8. KeptIsCurrent'
      BY <1>1, <2>3 DEF ProfileInv, KeptIsCurrent, Stored, Target
    <2> QED BY <1>2, <2>4, <2>6, <2>7, <2>8 DEF ProfileInv
  <1> QED BY <1>3, <1>4, <1>5

\* A save that is served marks the renders of its row and is there to void what
\* is kept of it.
LEMMA StoreKeeps ==
    ASSUME ProfileInv, NEW b \in DOMAIN saves, Store(b)
    PROVE  ProfileInv'
  <1> DEFINE s == saves[b]
             row == Target(s)
  <1>1. /\ s.pc = "sent" /\ UNCHANGED <<kept, forms>>
        /\ profiles' = [y \in DOMAIN profiles \cup {row} |->
                           IF y = row THEN s.content ELSE profiles[y]]
        /\ renders' = {IF r.year = row THEN [r EXCEPT !.overlapped = TRUE] ELSE r : r \in renders}
        /\ saves' = [saves EXCEPT ![b].pc = "stored"]
    BY DEF Store
  <1>2. s \in Call /\ row \in Years /\ s.content \in Fitting
    BY DEF ProfileInv, SavesFit, Call, Target
  <1>3. /\ DOMAIN profiles' = DOMAIN profiles \cup {row} /\ profiles'[row] = s.content
        /\ \A y \in DOMAIN profiles \ {row} : profiles'[y] = profiles[y]
    BY <1>1
  <1>4. /\ DOMAIN saves' = DOMAIN saves
        /\ \A x \in DOMAIN saves : /\ saves'[x] \in Call /\ saves'[x].id = saves[x].id
                                   /\ saves'[x].year = saves[x].year
                                   /\ x # b => saves'[x].pc = saves[x].pc
        /\ saves'[b].pc = "stored" /\ saves[b].pc = "sent"
    BY <1>1 DEF ProfileInv, SavesFit, Call
  <1>5. \A x \in DOMAIN saves : Target(saves[x])' = Target(saves[x])
    BY <1>4 DEF Target
  <1> HIDE DEF s, row
  <1>6. row \in DOMAIN profiles' /\ DOMAIN profiles \subseteq DOMAIN profiles'
    BY <1>3
  <1>7. \A y : y # row => Stored(y)' = Stored(y)
    BY <1>3 DEF Stored
  <1>8. RowsFit'
    BY <1>2, <1>3 DEF ProfileInv, RowsFit
  <1>9. KeptFit' /\ FormsFit'
    BY <1>1, <1>6 DEF ProfileInv, KeptFit, FormsFit, HasRow
  <1>14. SavesFit'
    <2>1. Target(saves[b])' = row
      BY <1>5 DEF row, s
    <2>2. ASSUME NEW x \in DOMAIN saves
          PROVE  /\ saves'[x] \in Call
                 /\ saves'[x].id # NoId => saves'[x].id \in DOMAIN profiles'
                 /\ saves'[x].pc \in {"stored", "saved"} => Target(saves[x])' \in DOMAIN profiles'
      BY <1>4, <1>5, <1>6, <2>1 DEF ProfileInv, SavesFit, HasRow
    <2> QED BY <1>4, <2>2 DEF SavesFit, HasRow
  <1>10. \A r \in renders :
            LET q == IF r.year = row THEN [r EXCEPT !.overlapped = TRUE] ELSE r
            IN  /\ q \in Renders /\ q.found = r.found /\ q.year = r.year
                /\ (r.year = row => q.overlapped) /\ (r.year # row => q = r)
    BY DEF ProfileInv, RendersFit, Renders
  <1>11. \A q \in renders' : \E r \in renders :
            /\ q \in Renders /\ q.found = r.found /\ q.year = r.year
            /\ (r.year = row => q.overlapped) /\ (r.year # row => q = r)
    BY <1>1, <1>10
  <1>12. RendersFit' /\ RendersMarked'
    BY <1>6, <1>7, <1>11 DEF ProfileInv, RendersFit, RendersMarked, HasRow
  <1>13. KeptIsCurrent'
    <2>1. ASSUME NEW y \in DOMAIN kept, y # row
          PROVE  \/ kept[y].overlapped \/ kept[y].found = Stored(y)'
                 \/ \E x \in DOMAIN saves : saves'[x].pc = "stored" /\ Target(saves[x])' = y
      BY <1>4, <1>5, <1>7, <2>1 DEF ProfileInv, KeptIsCurrent
    <2>2. saves'[b].pc = "stored" /\ Target(saves[b])' = row
      BY <1>4, <1>5 DEF row, s
    <2> QED BY <1>1, <1>4, <2>1, <2>2 DEF KeptIsCurrent
  <1> QED BY <1>8, <1>9, <1>12, <1>13, <1>14 DEF ProfileInv

\* The other steps of a save.
LEMMA SaveKeeps ==
    ASSUME ProfileInv, NEW b \in DOMAIN saves,
           Refuse(b) \/ Revalidate(b) \/ Answered(b) \/ Lose(b)
    PROVE  ProfileInv'
  <1>0. saves[b] \in Call /\ (saves[b].id # NoId => HasRow(saves[b].id))
    BY DEF ProfileInv, SavesFit
  <1>1. UNCHANGED <<profiles, renders>>
    BY DEF Refuse, Revalidate, Answered, Lose
  <1>2. RowsFit' /\ RendersFit' /\ RendersMarked'
    BY <1>1 DEF ProfileInv, RowsFit, RendersFit, RendersMarked, Stored, HasRow
  <1>3. CASE Refuse(b)
    <2>1. /\ UNCHANGED <<kept, forms>> /\ saves[b].pc = "sent"
          /\ saves' = [saves EXCEPT ![b].pc = "refused"]
      BY <1>3 DEF Refuse
    <2>2. /\ DOMAIN saves' = DOMAIN saves
          /\ \A x \in DOMAIN saves : /\ saves'[x] \in Call /\ saves'[x].id = saves[x].id
                                     /\ saves'[x].year = saves[x].year
                                     /\ x # b => saves'[x].pc = saves[x].pc
          /\ saves'[b].pc = "refused"
      BY <2>1 DEF ProfileInv, SavesFit, Call
    <2>3. \A x \in DOMAIN saves : Target(saves[x])' = Target(saves[x])
      BY <2>2 DEF Target
    <2>4. KeptFit' /\ FormsFit' /\ SavesFit'
      BY <1>1, <2>1, <2>2, <2>3 DEF ProfileInv, KeptFit, FormsFit, SavesFit, HasRow
    <2>5. KeptIsCurrent'
      BY <1>1, <2>1, <2>2, <2>3 DEF ProfileInv, KeptIsCurrent, Stored
    <2> QED BY <1>2, <2>4, <2>5 DEF ProfileInv
  <1>4. CASE Revalidate(b)
    <2>1. /\ kept' = <<>> /\ UNCHANGED forms /\ saves' = [saves EXCEPT ![b].pc = "saved"]
          /\ saves[b].pc = "stored"
      BY <1>4 DEF Revalidate
    <2>2. DOMAIN kept' = {}
      BY <2>1
    <2>3. /\ DOMAIN saves' = DOMAIN saves
          /\ \A x \in DOMAIN saves : /\ saves'[x] \in Call /\ saves'[x].id = saves[x].id
                                     /\ saves'[x].year = saves[x].year
                                     /\ x # b => saves'[x].pc = saves[x].pc
      BY <2>1 DEF ProfileInv, SavesFit, Call
    <2>5. \A x \in DOMAIN saves : Target(saves[x])' = Target(saves[x])
      BY <2>3 DEF Target
    <2>4. KeptFit' /\ FormsFit' /\ SavesFit' /\ KeptIsCurrent'
      BY <1>1, <2>1, <2>2, <2>3, <2>5 DEF ProfileInv, KeptFit, FormsFit, SavesFit, KeptIsCurrent, HasRow
    <2> QED BY <1>2, <2>4 DEF ProfileInv
  <1>5. CASE Answered(b) \/ Lose(b)
    <2>1. /\ UNCHANGED kept /\ saves' = [x \in DOMAIN saves \ {b} |-> saves[x]]
          /\ saves[b].pc # "stored"
      BY <1>5 DEF Answered, Lose, Maps!Restrict
    <2>2. KeptFit' /\ SavesFit'
      BY <1>1, <2>1 DEF ProfileInv, KeptFit, SavesFit, HasRow, Target
    <2>3. KeptIsCurrent'
      <3>1. \A x \in DOMAIN saves : saves[x].pc = "stored" =>
               x \in DOMAIN saves' /\ saves'[x] = saves[x]
        BY <2>1
      <3> QED BY <1>1, <2>1, <3>1 DEF ProfileInv, KeptIsCurrent, Stored, Target
    <2>4. FormsFit'
      <3>1. CASE Answered(b)
        <4> DEFINE m == IF saves[b].pc = "saved" THEN "saved" ELSE "error"
                   new(x) == IF saves[b].pc = "saved" THEN Target(saves[b]) ELSE forms[x].id
        <4>1. forms' = [forms EXCEPT ![b].message = m, ![b].id = IF saves[b].pc = "saved"
                                                                 THEN Target(saves[b]) ELSE @]
          BY <3>1 DEF Answered
        <4>2. saves[b].pc = "saved" => Target(saves[b]) \in Years /\ HasRow(Target(saves[b]))
          BY <1>0 DEF ProfileInv, SavesFit, Call, Target
        <4>3. ASSUME NEW x \in DOMAIN forms
              PROVE  forms'[x] \in Page /\ (forms'[x].id # NoId => HasRow(forms'[x].id))
          <5>1. forms[x] \in Page /\ (forms[x].id # NoId => HasRow(forms[x].id))
            BY DEF ProfileInv, FormsFit
          <5>2. CASE x # b
            <6>1. forms'[x] = forms[x]
              BY <4>1, <5>2
            <6> QED BY <5>1, <6>1
          <5>3. CASE x = b
            <6>1. forms'[x] = [[forms[x] EXCEPT !.message = m] EXCEPT !.id = new(x)]
              BY <4>1, <5>1, <5>3 DEF Page
            <6>2. /\ m \in {"none", "saved", "error"} /\ new(x) \in Years \cup {NoId}
                  /\ new(x) # NoId => HasRow(new(x))
              BY <4>2, <5>1 DEF Page
            <6> HIDE DEF m, new
            <6> QED BY <5>1, <6>1, <6>2 DEF Page
          <5> QED BY <5>2, <5>3
        <4>4. DOMAIN forms' = DOMAIN forms
          BY <4>1
        <4> QED BY <1>1, <4>3, <4>4 DEF FormsFit, HasRow
      <3>2. CASE Lose(b)
        <4>1. forms' = [forms EXCEPT ![b].message = "error"]
          BY <3>2 DEF Lose
        <4>2. /\ DOMAIN forms' = DOMAIN forms
              /\ \A x \in DOMAIN forms : forms'[x] \in Page /\ forms'[x].id = forms[x].id
          BY <4>1 DEF ProfileInv, FormsFit, Page
        <4> QED BY <1>1, <4>2 DEF ProfileInv, FormsFit, HasRow
      <3> QED BY <1>5, <3>1, <3>2
    <2> QED BY <1>2, <2>2, <2>3, <2>4 DEF ProfileInv
  <1> QED BY <1>3, <1>4, <1>5

LEMMA ProfileInitInv == ProfileInit => ProfileInv
  <1> SUFFICES ASSUME ProfileInit PROVE ProfileInv
    OBVIOUS
  <1>1. /\ profiles \in FirstProfiles /\ DOMAIN kept = {} /\ renders = {}
        /\ DOMAIN forms = {} /\ DOMAIN saves = {}
    BY DEF ProfileInit
  <1>2. RowsFit
    BY <1>1, ProfileAssumption DEF RowsFit, Fitting
  <1>3. KeptFit /\ FormsFit /\ SavesFit /\ RendersFit /\ RendersMarked /\ KeptIsCurrent
    BY <1>1 DEF KeptFit, FormsFit, SavesFit, RendersFit, RendersMarked, KeptIsCurrent
  <1> QED BY <1>2, <1>3 DEF ProfileInv

LEMMA ProfileNextInv == ProfileInv /\ [ProfileNext]_profileVars => ProfileInv'
  <1> SUFFICES ASSUME ProfileInv, [ProfileNext]_profileVars PROVE ProfileInv'
    OBVIOUS
  <1>1. ASSUME NEW b \in Browsers, NEW y \in Years, Visit(b, y) PROVE ProfileInv'
    BY <1>1, VisitKeeps
  <1>2. ASSUME NEW y \in Years, RenderAgain(y) PROVE ProfileInv'
    BY <1>2, RenderAgainKeeps
  <1>3. ASSUME NEW r \in renders, Arrive(r) \/ LoadFails(r) PROVE ProfileInv'
    BY <1>3, ArriveKeeps
  <1>4. ASSUME NEW b \in DOMAIN forms, EditField(b) \/ Leave(b) \/ Submit(b) PROVE ProfileInv'
    BY <1>4, UserKeeps
  <1>5. ASSUME NEW b \in DOMAIN saves, Store(b) PROVE ProfileInv'
    BY <1>5, StoreKeeps
  <1>6. ASSUME NEW b \in DOMAIN saves, Refuse(b) \/ Revalidate(b) \/ Answered(b) \/ Lose(b)
        PROVE  ProfileInv'
    BY <1>6, SaveKeeps
  <1>7. CASE UNCHANGED profileVars
    BY <1>7 DEF profileVars, ProfileInv, RowsFit, KeptFit, FormsFit, SavesFit, RendersFit,
                RendersMarked, KeptIsCurrent, Stored, HasRow, Target
  <1> QED BY <1>1, <1>2, <1>3, <1>4, <1>5, <1>6, <1>7 DEF ProfileNext

\* A save that carries an id finds the row of that id, whichever page made it
\* and whatever was saved since, and what it carries, which the server does not
\* look at, is what sheet 01 has room for.
THEOREM UpdatesFindTheirRow ==
    ProfileSpec => [](\A b \in DOMAIN saves :
                         /\ saves[b].id # NoId => saves[b].id \in DOMAIN profiles
                         /\ Fits(saves[b].content))
  <1>1. ProfileSpec => []ProfileInv
    BY ProfileInitInv, ProfileNextInv, PTL DEF ProfileSpec
  <1>2. ProfileInv => \A b \in DOMAIN saves :
                         /\ saves[b].id # NoId => saves[b].id \in DOMAIN profiles
                         /\ Fits(saves[b].content)
    BY DEF ProfileInv, SavesFit, HasRow, Call, Fitting
  <1> QED BY <1>1, <1>2, PTL

\* An answer of the cached query is the row as it is, unless a save of its year
\* was served while the query was under way or is about to void it: every other
\* way to a stale profile is closed.
THEOREM KeptAnswersAreCurrent == ProfileSpec => []KeptIsCurrent
  <1>1. ProfileSpec => []ProfileInv
    BY ProfileInitInv, ProfileNextInv, PTL DEF ProfileSpec
  <1>2. ProfileInv => KeptIsCurrent
    BY DEF ProfileInv
  <1> QED BY <1>1, <1>2, PTL

\* What the list of a part becomes in its first and its other periods.
LEMMA PeriodsKeepAll ==
    ASSUME NEW l \in Seq(Text), NEW i \in DOMAIN l
    PROVE  l[i] = IF i = 1 THEN Periods(l).first ELSE Periods(l).others[i - 1]
  <1>1. DOMAIN l = 1..Len(l) /\ Len(l) \in Nat /\ i \in 1..Len(l)
    BY LenProperties
  <1>2. CASE i = 1
    BY <1>1, <1>2 DEF Periods, Slot
  <1>3. CASE i # 1
    <2>1. Len(l) > 1 /\ l # <<>> /\ i - 1 \in 1..(Len(l) - 1)
      BY <1>1, <1>3, EmptySeq
    <2>2. Tail(l)[i - 1] = l[(i - 1) + 1]
      BY <2>1, HeadTailProperties
    <2>3. (i - 1) + 1 = i
      BY <1>1
    <2>4. Periods(l).others = Tail(l)
      BY <2>1 DEF Periods
    <2> QED BY <1>3, <2>2, <2>3, <2>4
  <1> QED BY <1>2, <1>3

\* Nobody a content that fits names is dropped.
LEMMA NobodyOfFitting ==
    ASSUME NEW c \in Fitting, NEW y
    PROVE  LET sheet == Sheet01(y, c)
           IN  /\ \A i \in DOMAIN c.diet.members : sheet.diet.members[i] = c.diet.members[i]
               /\ \A i \in DOMAIN Panel01(y, c).contacts :
                     i \in 1..Slots /\ sheet.contacts[i] = Panel01(y, c).contacts[i]
               /\ \A l \in {<<c.fund.periods, sheet.fund.periods>>, <<c.diet.periods, sheet.diet.periods>>} :
                     \A i \in DOMAIN l[1] :
                         l[1][i] = IF i = 1 THEN l[2].first ELSE l[2].others[i - 1]
  <1> DEFINE sheet == Sheet01(y, c)
  <1>1. /\ c.contacts \in Seq(Text) /\ Len(c.contacts) <= Slots
        /\ c.fund.on \in BOOLEAN /\ c.fund.periods \in Seq(Text)
        /\ (~c.fund.on => c.fund.periods = <<>>)
        /\ c.diet.members \in Seq(Text) /\ c.diet.periods \in Seq(Text)
        /\ Len(c.diet.members) <= Slots
        /\ (~Enabled(c) => c.diet.members = <<>> /\ c.diet.periods = <<>>)
    BY FittingIs DEF Fund, Diet, Text, Enabled
  <1>2. /\ DOMAIN c.contacts = 1..Len(c.contacts) /\ Len(c.contacts) \in Nat
        /\ DOMAIN c.diet.members = 1..Len(c.diet.members) /\ Len(c.diet.members) \in Nat
    BY <1>1, LenProperties
  <1>3. /\ sheet.contacts = SheetContacts(c) /\ sheet.fund = SheetFund(c)
        /\ sheet.diet = SheetDiet(c) /\ Panel01(y, c).contacts = c.contacts
    BY DEF Sheet01, Panel01
  <1> HIDE DEF sheet
  <1>4. \A i \in DOMAIN c.diet.members : sheet.diet.members[i] = c.diet.members[i]
    <2> SUFFICES ASSUME NEW i \in DOMAIN c.diet.members
                 PROVE  sheet.diet.members[i] = c.diet.members[i]
      OBVIOUS
    <2>1. Enabled(c) /\ i \in 1..Slots
      BY <1>1, <1>2, EmptySeq DEF Slots
    <2>2. sheet.diet.members = [j \in 1..Slots |-> Slot(c.diet.members, j)]
      BY <1>3, <2>1 DEF SheetDiet
    <2> QED BY <2>1, <2>2 DEF Slot
  <1>5. \A i \in DOMAIN Panel01(y, c).contacts :
           i \in 1..Slots /\ sheet.contacts[i] = Panel01(y, c).contacts[i]
    BY <1>1, <1>2, <1>3 DEF SheetContacts, Slot, Slots
  <1>6. \A i \in DOMAIN c.fund.periods :
           c.fund.periods[i] = IF i = 1 THEN sheet.fund.periods.first
                                        ELSE sheet.fund.periods.others[i - 1]
    <2> SUFFICES ASSUME NEW i \in DOMAIN c.fund.periods
                 PROVE  c.fund.periods[i] = IF i = 1 THEN sheet.fund.periods.first
                                                     ELSE sheet.fund.periods.others[i - 1]
      OBVIOUS
    <2>1. c.fund.on
      BY <1>1, EmptySeq
    <2>2. sheet.fund.periods = Periods(c.fund.periods)
      BY <1>3, <2>1 DEF SheetFund
    <2> QED BY <1>1, <2>2, PeriodsKeepAll
  <1>7. \A i \in DOMAIN c.diet.periods :
           c.diet.periods[i] = IF i = 1 THEN sheet.diet.periods.first
                                        ELSE sheet.diet.periods.others[i - 1]
    <2> SUFFICES ASSUME NEW i \in DOMAIN c.diet.periods
                 PROVE  c.diet.periods[i] = IF i = 1 THEN sheet.diet.periods.first
                                                     ELSE sheet.diet.periods.others[i - 1]
      OBVIOUS
    <2>1. Enabled(c)
      BY <1>1, EmptySeq
    <2>2. sheet.diet.periods = Periods(c.diet.periods)
      BY <1>3, <2>1 DEF SheetDiet
    <2> QED BY <1>1, <2>2, PeriodsKeepAll
  <1>8. \A l \in {<<c.fund.periods, sheet.fund.periods>>, <<c.diet.periods, sheet.diet.periods>>} :
           \A i \in DOMAIN l[1] : l[1][i] = IF i = 1 THEN l[2].first ELSE l[2].others[i - 1]
    BY <1>6, <1>7
  <1> QED BY <1>4, <1>5, <1>8 DEF sheet

\* Whoever is stored in a profile is in the report and in its preview: the
\* server takes any lengths, and yet every contact person, member and period
\* of every stored profile is on sheet 01.
THEOREM NobodyIsDropped == ProfileSpec => []NobodyDropped
  <1>1. ProfileSpec => []ProfileInv
    BY ProfileInitInv, ProfileNextInv, PTL DEF ProfileSpec
  <1>2. ProfileInv => NobodyDropped
    BY NobodyOfFitting DEF ProfileInv, RowsFit, NobodyDropped
  <1> QED BY <1>1, <1>2, PTL
==============================================================================
