------------------------------ MODULE Members ------------------------------
(***************************************************************************)
(* The users of the admin application (admin/src/server/contexts/auth):    *)
(* accounts and sessions live in Supabase, roles in the table users, and   *)
(* the two are brought together by whichever request first meets an        *)
(* account without a row.                                                  *)
(*                                                                         *)
(* One page load asks for the current user several times at once (the      *)
(* layout and the page), and an invitation asks once more when its link is *)
(* opened, so several requests look for the row of a new account before    *)
(* any of them creates it.  Every handler checks, reads and writes in      *)
(* separate statements, without a database transaction.                    *)
(***************************************************************************)
EXTENDS Integers, FiniteSets

CONSTANTS
    Accounts,    \* accounts of Supabase, by auth id; each has its own e-mail
    Handlers,    \* requests that may be under way at once
    FirstAdmins, \* those with the role admin at first, from the seed
    MaxRequests  \* bound on requests

VARIABLES
    account,  \* Supabase: "absent", "invited" or "confirmed"
    role,     \* users: the role of the row of an account, or "none"
    handler,  \* the requests under way
    demoted,  \* history: who ceased to be admin since a request began
    begun     \* requests so far

memberVars == <<account, role, handler, demoted, begun>>

Roles == {"user", "admin"}
Free == [op |-> "none"]
Admins == {a \in Accounts : role[a] = "admin"}

ASSUME MembersAssumption ==
    FirstAdmins \subseteq Accounts /\ MaxRequests \in Nat

---------------------------------------------------------------------------

Start(c, req) ==
    /\ handler[c] = Free /\ begun < MaxRequests
    /\ handler' = [handler EXCEPT ![c] = req]
    /\ demoted' = [demoted EXCEPT ![c] = {}]
    /\ begun' = begun + 1

Step(c, req) ==
    /\ handler' = [handler EXCEPT ![c] = req]
    /\ UNCHANGED <<account, role, demoted, begun>>

Stop(c) == Step(c, Free)

Doing(c, op, pc) == handler[c] # Free /\ handler[c].op = op /\ handler[c].pc = pc

\* Mutant: whoever has no row counts as admin.
MayAdminister_Unknown(a) == role[a] # "user"

\* UserRoleModel.hasPermission: an account without a row counts as user.
MayAdminister(a) == role[a] = "admin"

---------------------------------------------------------------------------
(* The row of an account.                                                  *)

\* Opening the link of an invitation (CompleteInviteSession, the callback's
\* ExchangeCodeForSession) or a page (GetCurrentUser): Supabase says who asks.
SyncBegin(c, a) ==
    /\ account[a] # "absent"
    /\ account' = [account EXCEPT ![a] = "confirmed"]
    /\ Start(c, [op |-> "sync", pc |-> "find", who |-> a])
    /\ UNCHANGED role

\* findByAuthId; the row is answered if there is one.  Both use cases, and the
\* callback's, find and create alike.
SyncFind(c) ==
    /\ Doing(c, "sync", "find")
    /\ IF role[handler[c].who] = "none"
       THEN Step(c, [handler[c] EXCEPT !.pc = "create"])
       ELSE Stop(c)

\* Mutant: an upsert, so that the second creation does not fail.
SyncCreate_Upsert(c) ==
    /\ Doing(c, "sync", "create")
    /\ role' = [role EXCEPT ![handler[c].who] = "user"]
    /\ handler' = [handler EXCEPT ![c] = Free]
    /\ UNCHANGED <<account, demoted, begun>>

\* create with the role user; auth_id is UNIQUE, so that of two creations one
\* fails, and the page it belongs to with it.
SyncCreate(c) ==
    /\ Doing(c, "sync", "create")
    /\ role' = [role EXCEPT ![handler[c].who] = IF @ = "none" THEN "user" ELSE @]
    /\ handler' = [handler EXCEPT ![c] = Free]
    /\ UNCHANGED <<account, demoted, begun>>

---------------------------------------------------------------------------
(* What admins do.                                                         *)

\* UpdateUserRole, before its check.
UpdateRoleBegin(c, actor, target, r) ==
    /\ account[actor] = "confirmed" /\ role[target] # "none"
    /\ Start(c, [op |-> "role", pc |-> "check", who |-> actor,
                 target |-> target, role |-> r])
    /\ UNCHANGED <<account, role>>

\* findByAuthId and hasPermission; the target's row is found by its id next,
\* and no handler deletes rows.
UpdateRoleCheck(c) ==
    /\ Doing(c, "role", "check")
    /\ IF MayAdminister(handler[c].who)
       THEN Step(c, [handler[c] EXCEPT !.pc = "write"])
       ELSE Stop(c)

\* updateRole.
UpdateRoleWrite(c) ==
    /\ Doing(c, "role", "write")
    /\ role' = [role EXCEPT ![handler[c].target] = handler[c].role]
    /\ demoted' = [d \in Handlers |-> IF d = c THEN {} ELSE
                      demoted[d] \cup (Admins \ {a \in Accounts : role'[a] = "admin"})]
    /\ handler' = [handler EXCEPT ![c] = Free]
    /\ UNCHANGED <<account, begun>>

\* InviteUser, before its check.
InviteBegin(c, actor, a) ==
    /\ account[actor] = "confirmed"
    /\ Start(c, [op |-> "invite", pc |-> "check", who |-> actor, target |-> a])
    /\ UNCHANGED <<account, role>>

\* An inviter without a row is an error, without the role a refusal.
InviteCheck(c) ==
    /\ Doing(c, "invite", "check")
    /\ IF MayAdminister(handler[c].who)
       THEN Step(c, [handler[c] EXCEPT !.pc = "send"])
       ELSE Stop(c)

\* inviteUserByEmail: Supabase refuses an account that is confirmed.
InviteSend(c) ==
    /\ Doing(c, "invite", "send")
    /\ account' = [account EXCEPT ![handler[c].target] =
                      IF @ = "absent" THEN "invited" ELSE @]
    /\ handler' = [handler EXCEPT ![c] = Free]
    /\ UNCHANGED <<role, demoted, begun>>

\* Supabase or the database does not answer, or the server stops.
Fail(c) == handler[c] # Free /\ Stop(c)

---------------------------------------------------------------------------

MembersInit ==
    /\ account = [a \in Accounts |-> IF a \in FirstAdmins THEN "confirmed" ELSE "absent"]
    /\ role = [a \in Accounts |-> IF a \in FirstAdmins THEN "admin" ELSE "none"]
    /\ handler = [c \in Handlers |-> Free]
    /\ demoted = [c \in Handlers |-> {}]
    /\ begun = 0

MembersNext ==
    \E c \in Handlers :
        \/ \E a \in Accounts : SyncBegin(c, a)
        \/ SyncFind(c) \/ SyncCreate(c)
        \/ \E a, b \in Accounts, r \in Roles : UpdateRoleBegin(c, a, b, r)
        \/ UpdateRoleCheck(c) \/ UpdateRoleWrite(c)
        \/ \E a, b \in Accounts : InviteBegin(c, a, b)
        \/ InviteCheck(c) \/ InviteSend(c)
        \/ Fail(c)

MembersSpec == MembersInit /\ [][MembersNext]_memberVars
---------------------------------------------------------------------------
(* The inductive invariant.                                                *)

\* A request under way is one of the three, at one of its two statements.
Syncing == [op : {"sync"}, pc : {"find", "create"}, who : Accounts]
ChangingRole == [op : {"role"}, pc : {"check", "write"}, who : Accounts,
                 target : Accounts, role : Roles]
Inviting == [op : {"invite"}, pc : {"check", "send"}, who : Accounts, target : Accounts]

MembersTypeOK ==
    /\ account \in [Accounts -> {"absent", "invited", "confirmed"}]
    /\ role \in [Accounts -> Roles \cup {"none"}]
    /\ handler \in [Handlers -> {Free} \cup Syncing \cup ChangingRole \cup Inviting]
    /\ demoted \in [Handlers -> SUBSET Accounts]
    /\ begun \in 0..MaxRequests

\* The check of UpdateUserRole still counts when its write comes: whoever
\* passed it is admin, or ceased to be since the request began; and the row
\* the write goes to is still there.
WriterWasAdmin ==
    \A c \in Handlers :
        Doing(c, "role", "write") => handler[c].who \in Admins \cup demoted[c]
TargetHasRow ==
    \A c \in Handlers :
        handler[c] # Free /\ handler[c].op = "role" => role[handler[c].target] # "none"

MembersInv == MembersTypeOK /\ WriterWasAdmin /\ TargetHasRow

---------------------------------------------------------------------------
(* Properties.                                                             *)

\* A row is created with the role user, and a role changes only by a request
\* of someone who is admin or was when the request began: no creation that
\* comes late takes a role back (exchange-code-for-session-usecase.ts:30).
RolesGivenByAdmins ==
    [][\A a \in Accounts : role'[a] # role[a] =>
        \/ role[a] = "none" /\ role'[a] = "user"
        \/ \E c \in Handlers : /\ Doing(c, "role", "write")
                               /\ handler[c].target = a /\ handler'[c] = Free
                               /\ handler[c].who \in Admins \cup demoted[c]]_memberVars

\* The last admin goes only by an admin's own hand or by the request of
\* somebody who was demoted while it was under way: nobody checks that an
\* admin is left (update-user-role-usecase.ts:41).
LastAdminFallsOnlyToSelfOrStale ==
    [][Admins # {} /\ Admins' = {} =>
        \E c \in Handlers :
            /\ Doing(c, "role", "write") /\ handler'[c] = Free
            /\ handler[c].who = handler[c].target \/ handler[c].who \in demoted[c]]_memberVars
=============================================================================
