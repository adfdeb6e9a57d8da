------------------------------ MODULE KeyVault ------------------------------
(***************************************************************************)
(* The custody of the data encryption keys (DEKs) of the household ledger: *)
(* the tables users, encryption_keys and sessions, one encrypted payload   *)
(* table standing for transactions and budgets, and the HTTP handlers that *)
(* work on them (api/src/services/auth_service.rs, backup_service.rs,      *)
(* api/src/auth/session.rs, api/src/routes/auth.rs and admin.rs).          *)
(*                                                                         *)
(* The API opens no database transaction: every SQL statement commits on   *)
(* its own.  A handler is therefore a sequence of steps, one per           *)
(* statement, and the steps of the handlers in flight interleave.  A table *)
(* is a set of rows; a request in flight is the record of the local        *)
(* variables its handler still needs.                                      *)
(*                                                                         *)
(* Random values (Uuid::new_v4, generate_dek, generate_recovery_key,       *)
(* generate_salt) are never drawn twice: the n-th draw of a sort is n.  A  *)
(* registration draws its user id, its DEK and its recovery key together,  *)
(* so the n-th registration draws the n-th of each.  0 stands for None.    *)
(***************************************************************************)
EXTENDS Integers, Crypto

CONSTANTS
    Requests,         \* slots for handlers in flight
    Emails,           \* e-mail addresses a client may register
    Passwords,        \* master passwords a client may type
    MaxUsers,         \* bound on registrations that reach their INSERT
    MaxSessions,      \* bound on session rows ever created
    MaxSalts,         \* bound on salts ever drawn
    MaxRestarts       \* bound on restarts of the API process

ASSUME KeyVaultAssumption ==
    MaxUsers \in Nat /\ MaxSessions \in Nat /\ MaxSalts \in Nat /\ MaxRestarts \in Nat

VARIABLES
    users,     \* rows of users
    keys,      \* rows of encryption_keys
    sessions,  \* rows of sessions
    records,   \* rows holding user data encrypted with a DEK
    passkeys,  \* the user_id column of webauthn_credentials
    req,       \* the handlers in flight
    drawn,     \* how many values of each sort were drawn
    server,    \* AppState.session_key: which key the running process uses
    held       \* recovery keys that reached the client of their registration

tables == <<users, keys, sessions, records, passkeys>>
vars == <<tables, req, drawn, server, held>>

None == 0
NoPw == "none"
NoCipher == [key |-> None, plain |-> None]

Idle == [pc |-> "idle", user |-> None, sid |-> None, dek |-> None,
         email |-> "none", pw |-> NoPw, new |-> NoPw, rk |-> None,
         salt |-> None, target |-> None]

-----------------------------------------------------------------------------
(* Queries                                                                 *)

UserIds == {u.id : u \in users}
EmailTaken(e) == \E u \in users : u.email = e
KeyRow(u, k) == k \in keys /\ k.user_id = u

\* Mutant: a row that does not decrypt counts as a session not unlocked.
ValidSession_Lenient(s) == s \in sessions /\ s.live

\* The WHERE clause of validate_session and the decryption that follows it:
\* a row whose DEK was sealed under another session key is refused.
ValidSession(s) ==
    /\ s \in sessions
    /\ s.live
    /\ s.encrypted_dek = NoCipher \/ Decrypts(server, s.encrypted_dek)

\* What the extractor hands to a handler (None for a session not unlocked).
SessionDek(s) == s.encrypted_dek.plain

Sealed(dek) == IF dek = None THEN NoCipher ELSE Encrypt(server, dek)

\* get_user_dek: the master password and the stored salt open the stored DEK.
Opens(pw, k) == Decrypts(DeriveMasterKey(pw, k.salt), k.encrypted_dek)

Set(p, r) == req' = [req EXCEPT ![p] = r]
Done(p) == Set(p, Idle)
Goto(p, pc) == Set(p, [req[p] EXCEPT !.pc = pc])
At(p, pc) == req[p].pc = pc

-----------------------------------------------------------------------------
(* POST /api/auth/register                                                 *)

\* auth_service::register up to its first write: the SELECT on the e-mail,
\* then the random draws.  A taken address is refused with 409.
RegisterCheck(p, e, pw) ==
    /\ At(p, "idle")
    /\ ~EmailTaken(e)
    /\ drawn.user < MaxUsers /\ drawn.salt < MaxSalts
    /\ drawn' = [drawn EXCEPT !.user = @ + 1, !.salt = @ + 1]
    /\ Set(p, [Idle EXCEPT !.pc = "register_user", !.email = e, !.new = pw,
                           !.user = drawn'.user, !.dek = drawn'.user,
                           !.rk = drawn'.user, !.salt = drawn'.salt])
    /\ UNCHANGED <<tables, server, held>>

\* INSERT INTO users: the UNIQUE constraint on email refuses the loser of two
\* registrations that both passed the check.
RegisterInsertUser(p) ==
    /\ At(p, "register_user")
    /\ \/ /\ ~EmailTaken(req[p].email)
          /\ users' = users \cup {[id |-> req[p].user, email |-> req[p].email,
                                   role |-> "owner"]}
          /\ Goto(p, "register_key")
       \/ /\ EmailTaken(req[p].email)
          /\ Done(p)
          /\ UNCHANGED users
    /\ UNCHANGED <<keys, sessions, records, passkeys, drawn, server, held>>

\* Mutant: the key row is written under a DEK drawn again.
RegisterInsertKey_Redraw(p) ==
    /\ At(p, "register_key")
    /\ req[p].user \in UserIds
    /\ keys' = keys \cup
         {[user_id |-> req[p].user, salt |-> req[p].salt,
           encrypted_dek |->
              Encrypt(DeriveMasterKey(req[p].new, req[p].salt), drawn.user),
           recovery_encrypted_dek |-> Encrypt(req[p].rk, req[p].dek)]}
    /\ Goto(p, "register_session")
    /\ UNCHANGED <<users, sessions, records, passkeys, drawn, server, held>>

\* INSERT INTO encryption_keys: the foreign key refuses it when the user was
\* deleted meanwhile.
RegisterInsertKey(p) ==
    /\ At(p, "register_key")
    /\ \/ /\ req[p].user \in UserIds
          /\ keys' = keys \cup
               {[user_id |-> req[p].user, salt |-> req[p].salt,
                 encrypted_dek |->
                    Encrypt(DeriveMasterKey(req[p].new, req[p].salt), req[p].dek),
                 recovery_encrypted_dek |-> Encrypt(req[p].rk, req[p].dek)]}
          /\ Goto(p, "register_session")
       \/ /\ req[p].user \notin UserIds
          /\ Done(p)
          /\ UNCHANGED keys
    /\ UNCHANGED <<users, sessions, records, passkeys, drawn, server, held>>

\* The response carries the recovery key to the client: nothing keeps a copy.
RegisterRespond(p) ==
    /\ At(p, "register_respond")
    /\ held' = held \cup {req[p].rk}
    /\ Done(p)
    /\ UNCHANGED <<tables, drawn, server>>

-----------------------------------------------------------------------------
(* POST /api/auth/login and /api/auth/unlock                               *)

\* auth_service::login up to get_user_dek, for a client whose login password
\* (and TOTP code) are right.
LoginFindUser(p, e, pw) ==
    /\ At(p, "idle")
    /\ \E u \in users :
          /\ u.email = e
          /\ Set(p, [Idle EXCEPT !.pc = "login_key", !.user = u.id, !.pw = pw])
    /\ UNCHANGED <<tables, drawn, server, held>>

\* Every handler that takes a Session starts with validate_session.
UnlockBegin(p, s, pw) ==
    /\ At(p, "idle")
    /\ ValidSession(s)
    /\ Set(p, [Idle EXCEPT !.pc = "unlock_key", !.user = s.user_id,
                           !.sid = s.id, !.pw = pw])
    /\ UNCHANGED <<tables, drawn, server, held>>

\* Mutant: get_user_dek without its WHERE user_id.
GetUserDek_AnyRow(p) ==
    /\ req[p].pc \in {"login_key", "unlock_key"}
    /\ \E k \in keys :
          /\ Opens(req[p].pw, k)
          /\ Set(p, [req[p] EXCEPT
                 !.pc = IF At(p, "login_key") THEN "login_session"
                                              ELSE "unlock_store",
                 !.pw = NoPw, !.dek = k.encrypted_dek.plain])
    /\ UNCHANGED <<tables, drawn, server, held>>

\* get_user_dek: no row or a wrong master password ends the request.
GetUserDek(p) ==
    /\ req[p].pc \in {"login_key", "unlock_key"}
    /\ \/ \E k \in keys :
             /\ KeyRow(req[p].user, k)
             /\ Opens(req[p].pw, k)
             /\ Set(p, [req[p] EXCEPT
                    !.pc = IF At(p, "login_key") THEN "login_session"
                                                 ELSE "unlock_store",
                    !.pw = NoPw, !.dek = k.encrypted_dek.plain])
       \/ /\ ~ \E k \in keys : KeyRow(req[p].user, k) /\ Opens(req[p].pw, k)
          /\ Done(p)
    /\ UNCHANGED <<tables, drawn, server, held>>

\* The INSERT of every new session row, which needs its user to exist.
InsertSession(user, dek) ==
    /\ user \in UserIds
    /\ drawn.session < MaxSessions
    /\ drawn' = [drawn EXCEPT !.session = @ + 1]
    /\ sessions' = sessions \cup {[id |-> drawn'.session, user_id |-> user,
                                   encrypted_dek |-> Sealed(dek), live |-> TRUE]}

\* session::create_session, called by register and by login with the DEK.
CreateSession(p) ==
    /\ req[p].pc \in {"register_session", "login_session"}
    /\ \/ /\ InsertSession(req[p].user, req[p].dek)
          /\ IF At(p, "register_session")
             THEN Goto(p, "register_respond") ELSE Done(p)
       \/ /\ req[p].user \notin UserIds
          /\ Done(p)
          /\ UNCHANGED <<sessions, drawn>>
    /\ UNCHANGED <<users, keys, records, passkeys, server, held>>

\* Mutant: unlock writes the row back whole, creating it when it is gone.
UnlockStore_Upsert(p) ==
    /\ At(p, "unlock_store")
    /\ req[p].user \in UserIds
    /\ sessions' = {s \in sessions : s.id # req[p].sid} \cup
         {[id |-> req[p].sid, user_id |-> req[p].user,
           encrypted_dek |-> Sealed(req[p].dek), live |-> TRUE]}
    /\ Done(p)
    /\ UNCHANGED <<users, keys, records, passkeys, drawn, server, held>>

\* session::unlock_session: an UPDATE that may match no row any more.
UnlockStore(p) ==
    /\ At(p, "unlock_store")
    /\ sessions' = {IF s.id = req[p].sid
                    THEN [s EXCEPT !.encrypted_dek = Sealed(req[p].dek)]
                    ELSE s : s \in sessions}
    /\ Done(p)
    /\ UNCHANGED <<users, keys, records, passkeys, drawn, server, held>>

-----------------------------------------------------------------------------
(* Changing the master password: /api/auth/encryption/rotate and           *)
(* /api/backup/recovery/restore                                            *)

RotateBegin(p, s, current, new) ==
    /\ At(p, "idle")
    /\ ValidSession(s)
    /\ Set(p, [Idle EXCEPT !.pc = "rotate_key", !.user = s.user_id,
                           !.pw = current, !.new = new])
    /\ UNCHANGED <<tables, drawn, server, held>>

RestoreBegin(p, s, rk, new) ==
    /\ At(p, "idle")
    /\ ValidSession(s)
    /\ Set(p, [Idle EXCEPT !.pc = "restore_key", !.user = s.user_id,
                           !.rk = rk, !.new = new])
    /\ UNCHANGED <<tables, drawn, server, held>>

\* The DEK unwrapped from row k and a fresh salt, kept until the UPDATE.
Unwrapped(p, pc, dek) ==
    /\ drawn.salt < MaxSalts
    /\ drawn' = [drawn EXCEPT !.salt = @ + 1]
    /\ Set(p, [req[p] EXCEPT !.pc = pc, !.pw = NoPw, !.rk = None,
                             !.dek = dek, !.salt = drawn'.salt])

\* rotate_encryption_key reads the row and opens it with the current master
\* password.
RotateUnwrap(p) ==
    /\ At(p, "rotate_key")
    /\ \/ \E k \in keys :
             /\ KeyRow(req[p].user, k)
             /\ Opens(req[p].pw, k)
             /\ Unwrapped(p, "rotate_update", k.encrypted_dek.plain)
       \/ /\ ~ \E k \in keys : KeyRow(req[p].user, k) /\ Opens(req[p].pw, k)
          /\ Done(p)
          /\ UNCHANGED drawn
    /\ UNCHANGED <<tables, server, held>>

\* restore_with_recovery reads the row and opens it with the recovery key.
RestoreUnwrap(p) ==
    /\ At(p, "restore_key")
    /\ LET Recovers(k) == /\ KeyRow(req[p].user, k)
                          /\ Decrypts(req[p].rk, k.recovery_encrypted_dek)
       IN \/ \E k \in keys :
                /\ Recovers(k)
                /\ Unwrapped(p, "restore_update", k.recovery_encrypted_dek.plain)
          \/ /\ ~ \E k \in keys : Recovers(k)
             /\ Done(p)
             /\ UNCHANGED drawn
    /\ UNCHANGED <<tables, server, held>>

\* Mutant: the UPDATE leaves the salt column out.
Rewrap_KeepsSalt(p) ==
    /\ keys' = {IF k.user_id = req[p].user
                THEN [k EXCEPT !.encrypted_dek = Encrypt(
                                   DeriveMasterKey(req[p].new, req[p].salt),
                                   req[p].dek)]
                ELSE k : k \in keys}
    /\ Done(p)
    /\ UNCHANGED <<users, sessions, records, passkeys, drawn, server, held>>

\* UPDATE encryption_keys SET encrypted_dek, salt WHERE user_id: the recovery
\* copy stays, a missing row is no error, and what was read earlier is not
\* checked again.
Rewrap(p) ==
    /\ keys' = {IF k.user_id = req[p].user
                THEN [k EXCEPT !.salt = req[p].salt,
                               !.encrypted_dek = Encrypt(
                                   DeriveMasterKey(req[p].new, req[p].salt),
                                   req[p].dek)]
                ELSE k : k \in keys}
    /\ Done(p)
    /\ UNCHANGED <<users, sessions, records, passkeys, drawn, server, held>>

RotateUpdate(p) == At(p, "rotate_update") /\ Rewrap(p)
RestoreUpdate(p) == At(p, "restore_update") /\ Rewrap(p)

-----------------------------------------------------------------------------
(* Sessions without a DEK, and the end of sessions                         *)

\* webauthn_login_finish: the session of a passkey login holds no DEK.  The state
\* of the challenge and the user id come from the request, and no stored credential
\* is read: u is any user who is there.  The get_user after the INSERT only reads.
WebauthnLoginFinish(u) ==
    /\ InsertSession(u, None)
    /\ UNCHANGED <<users, keys, records, passkeys, req, server, held>>

\* webauthn_register_start inserts a row of five minutes under a new id,
\* without a DEK.
WebauthnRegisterBegin(p, s) ==
    /\ At(p, "idle")
    /\ ValidSession(s)
    /\ Set(p, [Idle EXCEPT !.pc = "placeholder", !.user = s.user_id])
    /\ UNCHANGED <<tables, drawn, server, held>>

WebauthnRegisterInsert(p) ==
    /\ At(p, "placeholder")
    /\ \/ InsertSession(req[p].user, None)
       \/ req[p].user \notin UserIds /\ UNCHANGED <<sessions, drawn>>
    /\ Done(p)
    /\ UNCHANGED <<users, keys, records, passkeys, server, held>>

\* webauthn_register_finish stores the new credential.
PasskeyBegin(p, s) ==
    /\ At(p, "idle")
    /\ ValidSession(s)
    /\ Set(p, [Idle EXCEPT !.pc = "passkey", !.user = s.user_id])
    /\ UNCHANGED <<tables, drawn, server, held>>

PasskeyInsert(p) ==
    /\ At(p, "passkey")
    /\ passkeys' = passkeys \cup ({req[p].user} \cap UserIds)
    /\ Done(p)
    /\ UNCHANGED <<users, keys, sessions, records, drawn, server, held>>

LogoutBegin(p, s) ==
    /\ At(p, "idle")
    /\ ValidSession(s)
    /\ Set(p, [Idle EXCEPT !.pc = "logout", !.sid = s.id])
    /\ UNCHANGED <<tables, drawn, server, held>>

\* session::delete_session
DeleteSession(p) ==
    /\ At(p, "logout")
    /\ sessions' = {s \in sessions : s.id # req[p].sid}
    /\ Done(p)
    /\ UNCHANGED <<users, keys, records, passkeys, drawn, server, held>>

\* expires_at passes: the row stays in the table and is no longer accepted.
Expire(s) ==
    /\ s \in sessions
    /\ s.live
    /\ sessions' = (sessions \ {s}) \cup {[s EXCEPT !.live = FALSE]}
    /\ UNCHANGED <<users, keys, records, passkeys, req, drawn, server, held>>

-----------------------------------------------------------------------------
(* DELETE /api/admin/users/{id}                                            *)

DeleteUserBegin(p, s, target) ==
    /\ At(p, "idle")
    /\ ValidSession(s)
    /\ Set(p, [Idle EXCEPT !.pc = "delete_owner", !.user = s.user_id,
                           !.target = target])
    /\ UNCHANGED <<tables, drawn, server, held>>

\* Mutant: an owner may delete the own account.
RequireOwner_NoSelfCheck(p) ==
    /\ At(p, "delete_owner")
    /\ \E u \in users : u.id = req[p].user /\ u.role = "owner"
    /\ Goto(p, "delete_user")
    /\ UNCHANGED <<tables, drawn, server, held>>

\* require_owner, then the refusal to delete oneself.
RequireOwner(p) ==
    /\ At(p, "delete_owner")
    /\ \/ /\ \E u \in users : u.id = req[p].user /\ u.role = "owner"
          /\ req[p].target # req[p].user
          /\ Goto(p, "delete_user")
       \/ /\ \/ ~ \E u \in users : u.id = req[p].user /\ u.role = "owner"
             \/ req[p].target = req[p].user
          /\ Done(p)
    /\ UNCHANGED <<tables, drawn, server, held>>

\* Mutant: sessions.user_id references users without ON DELETE CASCADE or a check.
DeleteUser_KeepsSessions(p) ==
    /\ At(p, "delete_user")
    /\ users' = {u \in users : u.id # req[p].target}
    /\ keys' = {k \in keys : k.user_id # req[p].target}
    /\ records' = {r \in records : r.user_id # req[p].target}
    /\ passkeys' = passkeys \ {req[p].target}
    /\ Done(p)
    /\ UNCHANGED <<sessions, drawn, server, held>>

\* DELETE FROM users: every table that references it is ON DELETE CASCADE.
DeleteUser(p) ==
    /\ At(p, "delete_user")
    /\ users' = {u \in users : u.id # req[p].target}
    /\ keys' = {k \in keys : k.user_id # req[p].target}
    /\ sessions' = {s \in sessions : s.user_id # req[p].target}
    /\ records' = {r \in records : r.user_id # req[p].target}
    /\ passkeys' = passkeys \ {req[p].target}
    /\ Done(p)
    /\ UNCHANGED <<drawn, server, held>>

-----------------------------------------------------------------------------
(* Writing user data (create_budget; transactions are written alike)       *)

\* Mutant: require_dek is not called.
StoreBegin_Locked(p, s) ==
    /\ At(p, "idle")
    /\ ValidSession(s)
    /\ Set(p, [Idle EXCEPT !.pc = "store", !.user = s.user_id,
                           !.dek = SessionDek(s)])
    /\ UNCHANGED <<tables, drawn, server, held>>

\* require_dek refuses a session that was not unlocked.
StoreBegin(p, s) ==
    /\ At(p, "idle")
    /\ ValidSession(s)
    /\ SessionDek(s) # None
    /\ Set(p, [Idle EXCEPT !.pc = "store", !.user = s.user_id,
                           !.dek = SessionDek(s)])
    /\ UNCHANGED <<tables, drawn, server, held>>

StoreInsert(p) ==
    /\ At(p, "store")
    /\ \/ /\ req[p].user \in UserIds
          /\ records' = records \cup
                {[user_id |-> req[p].user, amount |-> Encrypt(req[p].dek, "yen")]}
       \/ req[p].user \notin UserIds /\ UNCHANGED records
    /\ Done(p)
    /\ UNCHANGED <<users, keys, sessions, passkeys, drawn, server, held>>

-----------------------------------------------------------------------------
(* Failures                                                                *)

\* A handler ends at any await: its client hangs up and the future is
\* dropped, or the database call returns an error.
Abort(p) ==
    /\ ~At(p, "idle")
    /\ Done(p)
    /\ UNCHANGED <<tables, drawn, server, held>>

\* The API process restarts.  Handlers in flight are lost.  The new process
\* has the same session key when SESSION_ENCRYPTION_KEY gives it and another
\* one when the key is ephemeral.
Restart ==
    /\ drawn.restart < MaxRestarts
    /\ drawn' = [drawn EXCEPT !.restart = @ + 1]
    /\ server' \in {server, drawn'.restart + 1}
    /\ req' = [p \in Requests |-> Idle]
    /\ UNCHANGED <<tables, held>>

-----------------------------------------------------------------------------
Init ==
    /\ users = {} /\ keys = {} /\ sessions = {} /\ records = {}
    /\ passkeys = {}
    /\ req = [p \in Requests |-> Idle]
    /\ drawn = [user |-> 0, salt |-> 0, session |-> 0, restart |-> 0]
    /\ server = 1
    /\ held = {}

\* A handler in flight executes its next statement.
Step(p) ==
    \/ RegisterInsertUser(p) \/ RegisterInsertKey(p) \/ RegisterRespond(p)
    \/ GetUserDek(p) \/ CreateSession(p) \/ UnlockStore(p)
    \/ RotateUnwrap(p) \/ RotateUpdate(p)
    \/ RestoreUnwrap(p) \/ RestoreUpdate(p)
    \/ WebauthnRegisterInsert(p) \/ PasskeyInsert(p) \/ DeleteSession(p)
    \/ RequireOwner(p) \/ DeleteUser(p)
    \/ StoreInsert(p)

\* A request arrives.
Begin(p) ==
    \/ \E e \in Emails, pw \in Passwords : RegisterCheck(p, e, pw)
    \/ \E e \in Emails, pw \in Passwords : LoginFindUser(p, e, pw)
    \/ \E s \in sessions :
         \/ \E pw \in Passwords : UnlockBegin(p, s, pw)
         \/ \E current, new \in Passwords : RotateBegin(p, s, current, new)
         \/ \E rk \in held, new \in Passwords : RestoreBegin(p, s, rk, new)
         \/ WebauthnRegisterBegin(p, s)
         \/ PasskeyBegin(p, s)
         \/ LogoutBegin(p, s)
         \/ \E target \in UserIds : DeleteUserBegin(p, s, target)
         \/ StoreBegin(p, s)

Next ==
    \/ \E p \in Requests : Begin(p) \/ Step(p) \/ Abort(p)
    \/ \E u \in UserIds : WebauthnLoginFinish(u)
    \/ \E s \in sessions : Expire(s)
    \/ Restart

Spec == Init /\ [][Next]_vars

-----------------------------------------------------------------------------
(* Types                                                                   *)

Users == 1..MaxUsers
Salts == 1..MaxSalts
Servers == 1..(MaxRestarts + 1)

UserRow == [id : Users, email : Emails, role : {"owner"}]
EncryptedDek == [key : [pw : Passwords, salt : Salts], plain : Users]
KeyRows == [user_id : Users, salt : Salts, encrypted_dek : EncryptedDek,
            recovery_encrypted_dek : [key : Users, plain : Users]]
SessionRow == [id : 1..MaxSessions, user_id : Users, live : BOOLEAN,
               encrypted_dek : [key : Servers, plain : Users] \cup {NoCipher}]
RecordRow == [user_id : Users, amount : [key : Users, plain : {"yen"}]]

Labels == {"idle", "register_user", "register_key", "register_session",
           "register_respond", "login_key", "login_session", "unlock_key",
           "unlock_store", "rotate_key", "rotate_update", "restore_key",
           "restore_update", "placeholder", "passkey", "logout", "delete_owner",
           "delete_user", "store"}

Request == [pc : Labels, user : Users \cup {None}, sid : 0..MaxSessions,
            dek : Users \cup {None}, email : Emails \cup {"none"},
            pw : Passwords \cup {NoPw}, new : Passwords \cup {NoPw},
            rk : Users \cup {None}, salt : Salts \cup {None},
            target : Users \cup {None}]

TypeOK ==
    /\ users \subseteq UserRow
    /\ keys \subseteq KeyRows
    /\ sessions \subseteq SessionRow
    /\ records \subseteq RecordRow
    /\ passkeys \subseteq Users
    /\ req \in [Requests -> Request]
    /\ drawn \in [user : 0..MaxUsers, salt : 0..MaxSalts,
                   session : 0..MaxSessions, restart : 0..MaxRestarts]
    /\ server \in Servers
    /\ held \subseteq Users

-----------------------------------------------------------------------------
(* Safety                                                                  *)

\* Every key row can be opened: the wrapped DEK was made with the salt stored
\* beside it and the recovery copy hides the same DEK, whatever rotations and
\* restorations overlapped; a user has one row and no two rows share a DEK.
VaultConsistent ==
    \A k \in keys :
        /\ k.encrypted_dek.key.salt = k.salt
        /\ k.encrypted_dek.plain = k.recovery_encrypted_dek.plain
        /\ \A l \in keys :
              l.user_id = k.user_id \/ l.encrypted_dek.plain = k.encrypted_dek.plain
                 => l = k

VaultDek(u, dek) ==
    \E k \in keys : KeyRow(u, k) /\ k.encrypted_dek.plain = dek

\* A session that holds a DEK holds the one in its user's key row, even when
\* login, unlock, rotation and user deletion were in flight together.
SessionDekIsUsersDek ==
    \A s \in sessions :
        s.encrypted_dek # NoCipher => VaultDek(s.user_id, SessionDek(s))

\* Whatever was stored can be read by whoever opens the vault of its user, so
\* the legacy-plaintext fallback of decrypt_or_raw never meets new data.
RecordsReadable ==
    \A r \in records : VaultDek(r.user_id, r.amount.key)

\* A session id that was logged out or deleted never comes back, in
\* particular not through an unlock that read the session before.
LogoutIsFinal ==
    [][\A t \in sessions' :
          t.id <= drawn.session => \E s \in sessions : s.id = t.id]_vars

Stale(s) == s.encrypted_dek # NoCipher /\ s.encrypted_dek.key # server

\* A session sealed under the key of an earlier process is never made usable
\* again: not by a later request and not by one that straddles the restart.
StaleSessionStaysRefused ==
    [][\A s \in sessions, t \in sessions' :
          s.id = t.id /\ Stale(s) => t.encrypted_dek = s.encrypted_dek]_vars

\* "Cannot delete yourself" keeps the last account alive, except against a
\* delete handler whose own account was deleted after its owner check.
LastUserFallsOnlyToStaleDelete ==
    [][users # {} /\ users' = {} =>
          \E p \in Requests : At(p, "delete_user") /\ req[p].user \notin UserIds]_vars

-----------------------------------------------------------------------------
(* The inductive invariant                                                 *)

HasKeyRow(u) == \E k \in keys : k.user_id = u

\* Nothing carries a number that was not drawn yet.
DrawnBefore ==
    /\ \A u \in users : u.id <= drawn.user
    /\ \A s \in sessions : s.id <= drawn.session
    /\ \A p \in Requests : req[p].user <= drawn.user /\ req[p].sid <= drawn.session

\* What the REFERENCES and PRIMARY KEY clauses keep.
TableKeys ==
    /\ \A k \in keys : k.user_id \in UserIds
    /\ \A s \in sessions : s.user_id \in UserIds
    /\ \A s, t \in sessions : s.id = t.id => s = t

\* The key row of a user, under the numbers its registration drew.
KeyRowsMatch ==
    /\ \A k \in keys :
          /\ k.encrypted_dek.key.salt = k.salt
          /\ k.encrypted_dek.plain = k.user_id
          /\ k.recovery_encrypted_dek = Encrypt(k.user_id, k.user_id)
    /\ \A k, l \in keys : k.user_id = l.user_id => k = l

\* Sessions and records hold the DEK of their own user, who has a key row.
HoldersMatch ==
    /\ \A s \in sessions : s.encrypted_dek # NoCipher =>
          s.encrypted_dek.plain = s.user_id /\ HasKeyRow(s.user_id)
    /\ \A r \in records : r.amount.key = r.user_id /\ HasKeyRow(r.user_id)

\* A handler that unwrapped a DEK: it is its user's, and the key row it came
\* from is there unless the user is gone.
Unsealed == {"register_session", "register_respond", "login_session",
             "unlock_store", "rotate_update", "restore_update", "store"}

LocalMatch(r) ==
    /\ r.pc \in Unsealed => /\ r.user # None /\ r.dek = r.user
                            /\ r.user \in UserIds => HasKeyRow(r.user)
    /\ r.pc \in {"rotate_key", "rotate_update", "restore_key", "restore_update"} =>
          r.new \in Passwords
    /\ r.pc \in {"rotate_update", "restore_update"} => r.salt # None
    /\ r.pc \in {"unlock_key", "unlock_store"} =>
          \A s \in sessions : s.id = r.sid => s.user_id = r.user
    /\ r.pc \in {"login_key", "unlock_key", "rotate_key", "restore_key",
                 "placeholder", "passkey"} => r.user # None
    /\ r.pc \in {"register_session", "register_respond"} => r.rk # None

LocalsMatch == \A p \in Requests : LocalMatch(req[p])

\* A registration whose key row is not written yet owns the numbers it drew.
Unwritten == {"register_user", "register_key"}

RegistrationsOwn ==
    \A p \in Requests :
        req[p].pc \in Unwritten =>
            /\ req[p].user # None /\ req[p].salt # None
            /\ req[p].dek = req[p].user /\ req[p].rk = req[p].user
            /\ req[p].email \in Emails /\ req[p].new \in Passwords
            /\ ~HasKeyRow(req[p].user)
            /\ req[p].pc = "register_user" => req[p].user \notin UserIds
            /\ \A q \in Requests : req[q].user = req[p].user /\ q # p =>
                  req[q].pc \notin Unwritten \cup Unsealed

IInv == /\ TypeOK
        /\ DrawnBefore
        /\ TableKeys
        /\ KeyRowsMatch
        /\ HoldersMatch
        /\ LocalsMatch
        /\ RegistrationsOwn

-----------------------------------------------------------------------------
(* What the action properties and the refinement need beside IInv          *)

\* No session is sealed under a key that no process had yet, and a handler
\* about to unlock a session holds one that the running process accepted.
SealsMatch ==
    /\ server <= drawn.restart + 1
    /\ \A s \in sessions :
          s.encrypted_dek # NoCipher => s.encrypted_dek.key <= drawn.restart + 1
    /\ \A p \in Requests : req[p].pc \in {"unlock_key", "unlock_store"} =>
          \A s \in sessions : s.id = req[p].sid => ~Stale(s)

\* Behind the owner check, nobody deletes the own account.
DeletesAnother ==
    \A p \in Requests : At(p, "delete_user") => req[p].target # req[p].user

-----------------------------------------------------------------------------
(* Refinement                                                              *)

\* The vaults are the key rows; a session holds a DEK while it is accepted.
AbstractVaults == {[user |-> k.user_id, dek |-> k.encrypted_dek.plain,
                    recovery |-> k.recovery_encrypted_dek.key] : k \in keys}
AbstractHolders == {[session |-> s.id, user |-> s.user_id, dek |-> SessionDek(s)] :
                       s \in {t \in sessions : ValidSession(t) /\ SessionDek(t) # None}}

Custody == INSTANCE DekCustody WITH
    Ids <- Users, SessionIds <- 1..MaxSessions,
    vaults <- AbstractVaults, holders <- AbstractHolders

\* The handlers, interleaved and aborted as they may be, implement the
\* custody of DEKs.
ImplementsCustody == Custody!Spec

-----------------------------------------------------------------------------
(* What the documents say and the code does not keep                       *)

Registering(u) ==
    \E p \in Requests :
        /\ req[p].pc \in {"register_key", "register_session", "register_respond"}
        /\ req[p].user = u

\* README.md: a lost master password is recovered with the recovery key.  So
\* a user whose registration is over has a key row, and the recovery key that
\* opens it reached the client.
EveryUserRecoverable ==
    \A u \in users :
        \/ Registering(u.id)
        \/ \E k \in keys : KeyRow(u.id, k) /\ k.recovery_encrypted_dek.key \in held
=============================================================================
