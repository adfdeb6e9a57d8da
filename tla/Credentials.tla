---------------------------- MODULE Credentials ----------------------------
(***************************************************************************)
(* The login credentials in the users table: password, the flag that       *)
(* forces its change, and the TOTP secret, with the handlers that read a   *)
(* row, check it and update it later (api/src/services/auth_service.rs:    *)
(* change_password, setup_totp, enable_totp, disable_totp, login) and the  *)
(* creation of the initial user at start-up (create_initial_user).         *)
(*                                                                         *)
(* A password hash stands for the password it verifies; a TOTP code stands *)
(* for the secret it was made from, secrets being numbered as they are     *)
(* drawn.  0 stands for NULL.                                              *)
(***************************************************************************)
EXTENDS Integers

CONSTANTS
    Requests,         \* slots for handlers in flight
    Emails,
    InitialEmail,     \* INITIAL_USER_EMAIL
    Passwords,
    InitialPassword,  \* INITIAL_USER_PASSWORD
    MaxUsers,         \* bound on users ever created
    MaxSecrets,       \* bound on TOTP secrets ever drawn
    MaxRestarts       \* bound on restarts of the API process

ASSUME CredentialsAssumption ==
    /\ InitialEmail \in Emails /\ InitialPassword \in Passwords
    /\ MaxUsers \in Nat /\ MaxSecrets \in Nat /\ MaxRestarts \in Nat

VARIABLES
    users,   \* rows of users
    keyed,   \* ids of the users that have a row in encryption_keys
    req,     \* the handlers in flight
    boot,    \* where start-up is: create_initial_user, then serving
    drawn    \* user ids, secrets and restarts so far

vars == <<users, keyed, req, boot, drawn>>

NoSecret == 0

Idle == [pc |-> "idle", user |-> 0, new |-> InitialPassword, secret |-> NoSecret]

Set(p, r) == req' = [req EXCEPT ![p] = r]
Done(p) == Set(p, Idle)
At(p, pc) == req[p].pc = pc
Accepts(p) == At(p, "idle") /\ boot = "serving"

\* An UPDATE of the row of user id, which may match no row any more.
Update(id, Change(_)) == users' = {IF u.id = id THEN Change(u) ELSE u : u \in users}

\* INSERT INTO users, with the defaults of the columns the statement omits.
InsertUser(email, pw) ==
    /\ drawn.user < MaxUsers
    /\ drawn' = [drawn EXCEPT !.user = @ + 1]
    /\ users' = users \cup
         {[id |-> drawn'.user, email |-> email, password_hash |-> pw,
           must_change_password |-> FALSE, totp_secret |-> NoSecret,
           totp_enabled |-> FALSE]}

-----------------------------------------------------------------------------
(* Start-up: create_initial_user, awaited before the server listens        *)

\* SELECT COUNT(*): the initial user is created in an empty database only.
BootCount ==
    /\ boot = "count"
    /\ boot' = IF users = {} THEN "insert_user" ELSE "serving"
    /\ UNCHANGED <<users, keyed, req, drawn>>

BootInsertUser ==
    /\ boot = "insert_user"
    /\ InsertUser(InitialEmail, InitialPassword)
    /\ boot' = "insert_key"
    /\ UNCHANGED <<keyed, req>>

BootInsertKey ==
    /\ boot = "insert_key"
    /\ keyed' = keyed \cup {drawn.user}
    /\ boot' = "flag"
    /\ UNCHANGED <<users, req, drawn>>

BootFlag ==
    /\ boot = "flag"
    /\ LET Flagged(u) == [u EXCEPT !.must_change_password = TRUE]
       IN Update(drawn.user, Flagged)
    /\ boot' = "serving"
    /\ UNCHANGED <<keyed, req, drawn>>

\* main logs an error of create_initial_user and serves all the same.
BootFails ==
    /\ boot # "serving"
    /\ boot' = "serving"
    /\ UNCHANGED <<users, keyed, req, drawn>>

\* The process ends and starts again, in the middle of whatever it did.
Restart ==
    /\ drawn.restart < MaxRestarts
    /\ drawn' = [drawn EXCEPT !.restart = @ + 1]
    /\ req' = [p \in Requests |-> Idle]
    /\ boot' = "count"
    /\ UNCHANGED <<users, keyed>>

-----------------------------------------------------------------------------
(* Users come and go (register and delete_user, in full in KeyVault)       *)

\* A registration that ended between its two INSERTs leaves no key row.
Register(email, pw) ==
    /\ boot = "serving"
    /\ ~ \E u \in users : u.email = email
    /\ InsertUser(email, pw)
    /\ keyed' \in {keyed, keyed \cup {drawn'.user}}
    /\ UNCHANGED <<req, boot>>

DeleteUser(id) ==
    /\ boot = "serving"
    /\ users' = {u \in users : u.id # id}
    /\ keyed' = keyed \ {id}
    /\ UNCHANGED <<req, boot, drawn>>

-----------------------------------------------------------------------------
(* PUT /api/auth/password                                                  *)

\* get_user and the check of the current password.
ChangePasswordRead(p, u, current, new) ==
    /\ Accepts(p)
    /\ u.password_hash = current
    /\ Set(p, [Idle EXCEPT !.pc = "store_password", !.user = u.id, !.new = new])
    /\ UNCHANGED <<users, keyed, boot, drawn>>

\* Mutant: the flag is left alone.
ChangePasswordWrite_KeepsFlag(p) ==
    /\ At(p, "store_password")
    /\ LET Changed(u) == [u EXCEPT !.password_hash = req[p].new]
       IN Update(req[p].user, Changed)
    /\ Done(p)
    /\ UNCHANGED <<keyed, boot, drawn>>

ChangePasswordWrite(p) ==
    /\ At(p, "store_password")
    /\ LET Changed(u) == [u EXCEPT !.password_hash = req[p].new,
                                   !.must_change_password = FALSE]
       IN Update(req[p].user, Changed)
    /\ Done(p)
    /\ UNCHANGED <<keyed, boot, drawn>>

-----------------------------------------------------------------------------
(* TOTP                                                                    *)

\* setup_totp reads the user (for the address) and draws a secret, whether
\* or not TOTP is enabled already.
SetupTotpRead(p, u) ==
    /\ Accepts(p)
    /\ drawn.secret < MaxSecrets
    /\ drawn' = [drawn EXCEPT !.secret = @ + 1]
    /\ Set(p, [Idle EXCEPT !.pc = "store_secret", !.user = u.id,
                           !.secret = drawn'.secret])
    /\ UNCHANGED <<users, keyed, boot>>

SetupTotpWrite(p) ==
    /\ At(p, "store_secret")
    /\ LET Prepared(u) == [u EXCEPT !.totp_secret = req[p].secret]
       IN Update(req[p].user, Prepared)
    /\ Done(p)
    /\ UNCHANGED <<keyed, boot, drawn>>

\* verify_totp_code, for a code made from the given secret.
CodeMatches(u, code) == u.totp_secret # NoSecret /\ u.totp_secret = code

\* enable_totp: get_user and the check of the code against its secret.
EnableTotpRead(p, u, code) ==
    /\ Accepts(p)
    /\ CodeMatches(u, code)
    /\ Set(p, [Idle EXCEPT !.pc = "enable", !.user = u.id, !.secret = code])
    /\ UNCHANGED <<users, keyed, boot, drawn>>

\* UPDATE users SET totp_enabled = true: the secret is not looked at again.
EnableTotpWrite(p) ==
    /\ At(p, "enable")
    /\ LET Enabled(u) == [u EXCEPT !.totp_enabled = TRUE]
       IN Update(req[p].user, Enabled)
    /\ Done(p)
    /\ UNCHANGED <<keyed, boot, drawn>>

DisableTotpRead(p, u, code) ==
    /\ Accepts(p)
    /\ u.totp_enabled
    /\ CodeMatches(u, code)
    /\ Set(p, [Idle EXCEPT !.pc = "disable", !.user = u.id, !.secret = code])
    /\ UNCHANGED <<users, keyed, boot, drawn>>

\* Mutant: only the secret is cleared.
DisableTotpWrite_KeepsFlag(p) ==
    /\ At(p, "disable")
    /\ LET Disabled(u) == [u EXCEPT !.totp_secret = NoSecret]
       IN Update(req[p].user, Disabled)
    /\ Done(p)
    /\ UNCHANGED <<keyed, boot, drawn>>

DisableTotpWrite(p) ==
    /\ At(p, "disable")
    /\ LET Disabled(u) == [u EXCEPT !.totp_enabled = FALSE, !.totp_secret = NoSecret]
       IN Update(req[p].user, Disabled)
    /\ Done(p)
    /\ UNCHANGED <<keyed, boot, drawn>>

\* What login answers to the right e-mail and login password of u and a code;
\* it reads one row and writes none.
LoginAnswer(u, code) ==
    IF u.totp_enabled /\ u.totp_secret = NoSecret THEN "internal error"
    ELSE IF u.totp_enabled /\ u.totp_secret # code THEN "invalid code"
    ELSE IF u.id \notin keyed THEN "not found"
    ELSE "session"

\* A handler ends early; it had at most one write to make.
Abort(p) ==
    /\ ~At(p, "idle")
    /\ Done(p)
    /\ UNCHANGED <<users, keyed, boot, drawn>>

-----------------------------------------------------------------------------
Init ==
    /\ users = {} /\ keyed = {}
    /\ req = [p \in Requests |-> Idle]
    /\ boot = "count"
    /\ drawn = [user |-> 0, secret |-> 0, restart |-> 0]

Boot == BootCount \/ BootInsertUser \/ BootInsertKey \/ BootFlag \/ BootFails

Begin(p) ==
    \E u \in users :
        \/ \E current, new \in Passwords : ChangePasswordRead(p, u, current, new)
        \/ SetupTotpRead(p, u)
        \/ \E code \in 1..drawn.secret : EnableTotpRead(p, u, code)
        \/ \E code \in 1..drawn.secret : DisableTotpRead(p, u, code)

Step(p) ==
    \/ ChangePasswordWrite(p) \/ SetupTotpWrite(p)
    \/ EnableTotpWrite(p) \/ DisableTotpWrite(p)

Next ==
    \/ Boot
    \/ \E p \in Requests : Begin(p) \/ Step(p) \/ Abort(p)
    \/ \E email \in Emails, pw \in Passwords : Register(email, pw)
    \/ \E u \in users : DeleteUser(u.id)
    \/ Restart

Spec == Init /\ [][Next]_vars

-----------------------------------------------------------------------------
(* Properties                                                              *)

Secrets == 1..MaxSecrets
UserRow == [id : 1..MaxUsers, email : Emails, password_hash : Passwords,
            must_change_password : BOOLEAN, totp_secret : Secrets \cup {NoSecret},
            totp_enabled : BOOLEAN]

\* The locals of a handler past its check: with TOTP at hand, a secret too.
Request ==
    [pc : {"store_secret", "enable", "disable"}, user : 1..MaxUsers,
     new : {InitialPassword}, secret : Secrets]
    \cup [pc : {"store_password"}, user : 1..MaxUsers, new : Passwords,
          secret : {NoSecret}]
    \cup {Idle}

TypeOK ==
    /\ users \subseteq UserRow
    /\ keyed \subseteq 1..MaxUsers
    /\ req \in [Requests -> Request]
    /\ boot \in {"count", "insert_user", "insert_key", "flag", "serving"}
    /\ drawn \in [user : 0..MaxUsers, secret : 0..MaxSecrets, restart : 0..MaxRestarts]

\* The screen that forces a new password appears for the initial user alone,
\* as long as the password from the environment is in use, and never again
\* once it was changed: not after restarts, nor for users made later.
FlagMeansInitialPassword ==
    \A u \in users : u.must_change_password =>
        u.email = InitialEmail /\ u.password_hash = InitialPassword

\* Row ids are the drawn ones, and PRIMARY KEY.
IdsDrawn ==
    /\ \A u \in users : u.id <= drawn.user
    /\ \A u, v \in users : u.id = v.id => u = v

\* Nothing is in flight before the server listens, and the user that start-up
\* works on, the last one drawn, still has the password it was given.
BootAlone ==
    /\ boot # "serving" => \A p \in Requests : At(p, "idle")
    /\ boot \in {"insert_key", "flag"} =>
          /\ drawn.user # 0
          /\ \A u \in users : u.id = drawn.user =>
                u.email = InitialEmail /\ u.password_hash = InitialPassword

\* What every step preserves.
IInv == TypeOK /\ FlagMeansInitialPassword /\ IdsDrawn /\ BootAlone

\* A client that was handed every secret can answer the login of u.
CanLogIn(u) ==
    \E code \in Secrets \cup {NoSecret} : LoginAnswer(u, code) = "session"

\* A step that ends a user's ability to log in enables TOTP with a secret that
\* is no longer the stored one.
LossIsStaleEnable ==
    \A u \in users, v \in users' :
        u.id = v.id /\ CanLogIn(u) /\ ~CanLogIn(v)' =>
           \E p \in Requests : /\ At(p, "enable") /\ req[p].user = u.id
                              /\ req[p].secret # u.totp_secret

\* A user who can log in stays able to, whatever overlaps: restarts, password
\* changes, disabling and preparing TOTP.  The one way out is an enable whose
\* secret is no longer the stored one.
LoginLostOnlyToStaleEnable == [][LossIsStaleEnable]_vars
=============================================================================
