----------------------------- MODULE DekCustody -----------------------------
(***************************************************************************)
(* What the key management promises (ARCHITECTURE.md, the key management   *)
(* flow), with no handlers, tables or passwords: a vault is created once,  *)
(* holds one DEK and one recovery key for its whole life, and only a       *)
(* session of its own user is ever handed that DEK.  Changing or restoring *)
(* the master password is invisible here, and deleting the user takes      *)
(* vault and holders away in one step.                                     *)
(***************************************************************************)
CONSTANTS Ids,        \* of users, of DEKs and of recovery keys
          SessionIds

VARIABLES vaults,     \* [user, dek, recovery] of every vault that exists
          holders     \* [session, user, dek] of every session that can decrypt

custodyVars == <<vaults, holders>>

Vault == [user : Ids, dek : Ids, recovery : Ids]

Init == vaults = {} /\ holders = {}

\* A vault for a user who has none, under a DEK that no vault uses.
Create(v) ==
    /\ \A w \in vaults : w.user # v.user /\ w.dek # v.dek
    /\ vaults' = vaults \cup {v}
    /\ UNCHANGED holders

\* A session gets the DEK of its user's vault.
Grant(s, v) ==
    /\ v \in vaults
    /\ holders' = holders \cup {[session |-> s, user |-> v.user, dek |-> v.dek]}
    /\ UNCHANGED vaults

\* Logout, expiry, a restart under another session key.
Revoke ==
    /\ holders' \subseteq holders
    /\ UNCHANGED vaults

Destroy(u) ==
    /\ vaults' = {v \in vaults : v.user # u}
    /\ holders' = {h \in holders : h.user # u}

Next ==
    \/ \E v \in Vault : Create(v)
    \/ \E s \in SessionIds, v \in vaults : Grant(s, v)
    \/ Revoke
    \/ \E u \in Ids : Destroy(u)

Spec == Init /\ [][Next]_custodyVars
=============================================================================
