-------------------------- MODULE CredentialsProofs --------------------------
(***************************************************************************)
(* The invariant IInv of Credentials is inductive: the types of the        *)
(* credentials hold, and a forced password change always means that the    *)
(* password from the environment is still in use, for every number of      *)
(* users, secrets, requests and restarts.                                  *)
(***************************************************************************)
EXTENDS Credentials, TLAPS

\* A handler's assignment to its own locals keeps all locals typed.
LEMMA SetLocals ==
    ASSUME NEW p \in Requests, NEW r \in Request,
           req \in [Requests -> Request], Set(p, r)
    PROVE  req' \in [Requests -> Request]
  BY DEF Set

\* The empty database of the first start satisfies the invariant.
LEMMA InitIInv == Init => IInv
  <1> SUFFICES ASSUME Init PROVE IInv
    OBVIOUS
  <1>1. TypeOK
    BY CredentialsAssumption DEF Init, TypeOK, Request
  <1>2. FlagMeansInitialPassword /\ IdsDrawn /\ BootAlone
    BY DEF Init, FlagMeansInitialPassword, IdsDrawn, BootAlone, At, Idle
  <1> QED BY <1>1, <1>2 DEF IInv

\* INSERT INTO users: a new row under a new id, without the flag.
LEMMA InsertKeepsRows ==
    ASSUME IInv, NEW email \in Emails, NEW pw \in Passwords, InsertUser(email, pw)
    PROVE  /\ users' \subseteq UserRow
           /\ drawn' \in [user : 0..MaxUsers, secret : 0..MaxSecrets, restart : 0..MaxRestarts]
           /\ drawn'.user \in 1..MaxUsers
           /\ FlagMeansInitialPassword'
           /\ IdsDrawn'
           /\ \A u \in users' : u.id = drawn'.user => u.email = email /\ u.password_hash = pw
  <1> DEFINE new == [id |-> drawn.user + 1, email |-> email, password_hash |-> pw,
                     must_change_password |-> FALSE, totp_secret |-> NoSecret,
                     totp_enabled |-> FALSE]
  <1>1. /\ drawn.user \in Nat /\ drawn.user < MaxUsers /\ MaxUsers \in Nat
        /\ drawn' = [drawn EXCEPT !.user = @ + 1]
    BY CredentialsAssumption DEF IInv, TypeOK, InsertUser
  <1>2. /\ drawn'.user = drawn.user + 1
        /\ drawn' \in [user : 0..MaxUsers, secret : 0..MaxSecrets, restart : 0..MaxRestarts]
    BY <1>1 DEF IInv, TypeOK
  <1>3. users' = users \cup {new}
    BY <1>2 DEF InsertUser
  <1>4. new \in UserRow
    BY <1>1 DEF UserRow
  <1>5. users' \subseteq UserRow
    BY <1>3, <1>4 DEF IInv, TypeOK
  <1>6. FlagMeansInitialPassword'
    BY <1>3 DEF IInv, FlagMeansInitialPassword
  <1>7. \A u \in users : u.id \in Nat /\ u.id <= drawn.user
    BY DEF IInv, TypeOK, UserRow, IdsDrawn
  <1>8. IdsDrawn'
    <2>1. new.id = drawn.user + 1
      OBVIOUS
    <2> HIDE DEF new
    <2>2. \A u \in users' : u \in users \/ u = new
      BY <1>3
    <2>3. \A u \in users' : u.id <= drawn'.user
      BY <1>1, <1>2, <1>7, <2>1, <2>2
    <2>4. \A u, v \in users : u.id = v.id => u = v
      BY DEF IInv, IdsDrawn
    <2>5. \A u \in users : u.id # new.id
      BY <1>1, <1>7, <2>1
    <2>6. \A u, v \in users' : u.id = v.id => u = v
      BY <2>2, <2>4, <2>5
    <2> QED BY <2>3, <2>6 DEF IdsDrawn
  <1>9. \A u \in users' : u.id = drawn'.user => u.email = email /\ u.password_hash = pw
    BY <1>1, <1>2, <1>3, <1>7
  <1> QED BY <1>1, <1>2, <1>5, <1>6, <1>8, <1>9

\* Each step of start-up.
LEMMA BootStep == ASSUME IInv, Boot PROVE IInv'
  <1>1. CASE BootCount
    BY <1>1 DEF BootCount, IInv, TypeOK, FlagMeansInitialPassword, IdsDrawn, BootAlone, At
  <1>2. CASE BootInsertUser
    <2>1. InsertUser(InitialEmail, InitialPassword)
      BY <1>2 DEF BootInsertUser
    <2>2. /\ users' \subseteq UserRow
          /\ drawn' \in [user : 0..MaxUsers, secret : 0..MaxSecrets, restart : 0..MaxRestarts]
          /\ drawn'.user \in 1..MaxUsers
          /\ FlagMeansInitialPassword' /\ IdsDrawn'
          /\ \A u \in users' : u.id = drawn'.user =>
                u.email = InitialEmail /\ u.password_hash = InitialPassword
      BY <2>1, InsertKeepsRows, CredentialsAssumption
    <2>3. TypeOK'
      BY <1>2, <2>2 DEF BootInsertUser, IInv, TypeOK
    <2>4. BootAlone'
      BY <1>2, <2>2 DEF BootInsertUser, IInv, BootAlone, At
    <2> QED BY <2>2, <2>3, <2>4 DEF IInv
  <1>3. CASE BootInsertKey
    <2>1. drawn.user \in 1..MaxUsers
      BY <1>3 DEF BootInsertKey, IInv, TypeOK, BootAlone
    <2> QED BY <1>3, <2>1
      DEF BootInsertKey, IInv, TypeOK, FlagMeansInitialPassword, IdsDrawn, BootAlone, At
  <1>4. CASE BootFlag
    <2>1. users' = {IF u.id = drawn.user THEN [u EXCEPT !.must_change_password = TRUE]
                                         ELSE u : u \in users}
      BY <1>4 DEF BootFlag, Update
    <2>2. UNCHANGED <<keyed, req, drawn>> /\ boot' = "serving" /\ boot = "flag"
      BY <1>4 DEF BootFlag
    <2>3. TypeOK'
      BY <2>1, <2>2 DEF IInv, TypeOK, UserRow
    <2>4. FlagMeansInitialPassword'
      BY <2>1, <2>2 DEF IInv, FlagMeansInitialPassword, BootAlone, TypeOK, UserRow
    <2>5. IdsDrawn'
      <3>1. \A v \in users' : \E u \in users :
               v.id = u.id /\ v = IF u.id = drawn.user
                                  THEN [u EXCEPT !.must_change_password = TRUE] ELSE u
        BY <2>1 DEF IInv, TypeOK, UserRow
      <3>2. \A v \in users' : v.id <= drawn'.user
        BY <2>2, <3>1 DEF IInv, IdsDrawn
      <3>3. \A v, w \in users' : v.id = w.id => v = w
        <4> SUFFICES ASSUME NEW v \in users', NEW w \in users', v.id = w.id
                     PROVE  v = w
          OBVIOUS
        <4>1. PICK a \in users :
                 v.id = a.id /\ v = IF a.id = drawn.user
                                    THEN [a EXCEPT !.must_change_password = TRUE] ELSE a
          BY <3>1
        <4>2. PICK b \in users :
                 w.id = b.id /\ w = IF b.id = drawn.user
                                    THEN [b EXCEPT !.must_change_password = TRUE] ELSE b
          BY <3>1
        <4>3. a = b
          BY <4>1, <4>2 DEF IInv, IdsDrawn
        <4> QED BY <4>1, <4>2, <4>3
      <3> QED BY <3>2, <3>3 DEF IdsDrawn
    <2>6. BootAlone'
      BY <2>2 DEF BootAlone
    <2> QED BY <2>3, <2>4, <2>5, <2>6 DEF IInv
  <1>5. CASE BootFails
    BY <1>5 DEF BootFails, IInv, TypeOK, FlagMeansInitialPassword, IdsDrawn, BootAlone, At
  <1> QED BY <1>1, <1>2, <1>3, <1>4, <1>5 DEF Boot

\* A handler that begins reads a row and writes none.
LEMMA BeginStep == ASSUME IInv, NEW p \in Requests, Begin(p) PROVE IInv'
  <1> PICK u \in users :
        \/ \E current, new \in Passwords : ChangePasswordRead(p, u, current, new)
        \/ SetupTotpRead(p, u)
        \/ \E code \in 1..drawn.secret : EnableTotpRead(p, u, code)
        \/ \E code \in 1..drawn.secret : DisableTotpRead(p, u, code)
    BY DEF Begin
  <1>0. u.id \in 1..MaxUsers /\ drawn.secret \in 0..MaxSecrets /\ MaxSecrets \in Nat
    BY CredentialsAssumption DEF IInv, TypeOK, UserRow
  <1> SUFFICES /\ boot = "serving" /\ boot' = boot /\ users' = users /\ keyed' = keyed
               /\ drawn'.user = drawn.user
               /\ drawn' \in [user : 0..MaxUsers, secret : 0..MaxSecrets, restart : 0..MaxRestarts]
               /\ \E r \in Request : Set(p, r)
    BY SetLocals DEF IInv, TypeOK, FlagMeansInitialPassword, IdsDrawn, BootAlone
  <1>1. CASE \E current, new \in Passwords : ChangePasswordRead(p, u, current, new)
    <2> PICK current \in Passwords, new \in Passwords : ChangePasswordRead(p, u, current, new)
      BY <1>1
    <2>1. [Idle EXCEPT !.pc = "store_password", !.user = u.id, !.new = new] \in Request
      BY <1>0 DEF Idle, Request
    <2> QED BY <2>1 DEF ChangePasswordRead, Accepts, IInv, TypeOK
  <1>2. CASE SetupTotpRead(p, u)
    <2>1. drawn' = [drawn EXCEPT !.secret = @ + 1] /\ drawn.secret < MaxSecrets
      BY <1>2 DEF SetupTotpRead
    <2>2. /\ drawn'.secret \in Secrets /\ drawn'.user = drawn.user
          /\ drawn' \in [user : 0..MaxUsers, secret : 0..MaxSecrets, restart : 0..MaxRestarts]
      BY <1>0, <2>1 DEF IInv, TypeOK, Secrets
    <2>3. [Idle EXCEPT !.pc = "store_secret", !.user = u.id, !.secret = drawn'.secret]
             \in Request
      BY <1>0, <2>2 DEF Idle, Request
    <2> QED BY <1>2, <2>2, <2>3 DEF SetupTotpRead, Accepts
  <1>3. CASE \E code \in 1..drawn.secret : EnableTotpRead(p, u, code)
    <2> PICK code \in 1..drawn.secret : EnableTotpRead(p, u, code)
      BY <1>3
    <2>1. code \in Secrets
      BY <1>0 DEF Secrets
    <2>2. [Idle EXCEPT !.pc = "enable", !.user = u.id, !.secret = code] \in Request
      BY <1>0, <2>1 DEF Idle, Request
    <2> QED BY <2>2 DEF EnableTotpRead, Accepts, IInv, TypeOK
  <1>4. CASE \E code \in 1..drawn.secret : DisableTotpRead(p, u, code)
    <2> PICK code \in 1..drawn.secret : DisableTotpRead(p, u, code)
      BY <1>4
    <2>1. code \in Secrets
      BY <1>0 DEF Secrets
    <2>2. [Idle EXCEPT !.pc = "disable", !.user = u.id, !.secret = code] \in Request
      BY <1>0, <2>1 DEF Idle, Request
    <2> QED BY <2>2 DEF DisableTotpRead, Accepts, IInv, TypeOK
  <1> QED BY <1>1, <1>2, <1>3, <1>4

\* An UPDATE by id that keeps ids, addresses and types, and that sets a password
\* only together with clearing the flag.
LEMMA UpdateStep ==
    ASSUME IInv, NEW p \in Requests, boot = "serving", Done(p),
           UNCHANGED <<keyed, boot, drawn>>,
           NEW f, users' = {IF u.id = req[p].user THEN f[u] ELSE u : u \in users},
           \A u \in users : u.id = req[p].user =>
              /\ f[u] \in UserRow
              /\ f[u].id = u.id /\ f[u].email = u.email
              /\ f[u].must_change_password =>
                    u.must_change_password /\ f[u].password_hash = u.password_hash
    PROVE  IInv'
  <1>1. req' \in [Requests -> Request]
    BY SetLocals DEF Done, IInv, TypeOK, Request
  <1>2. TypeOK'
    BY <1>1 DEF IInv, TypeOK
  <1>3. FlagMeansInitialPassword'
    BY DEF IInv, FlagMeansInitialPassword
  <1>4. IdsDrawn'
    BY DEF IInv, IdsDrawn
  <1>5. BootAlone'
    BY DEF BootAlone
  <1> QED BY <1>2, <1>3, <1>4, <1>5 DEF IInv

\* The second statement of each handler.
LEMMA WriteStep == ASSUME IInv, NEW p \in Requests, Step(p) PROVE IInv'
  <1>0. /\ req[p] \in Request /\ users \subseteq UserRow
    BY DEF IInv, TypeOK
  <1>1. boot = "serving"
    BY DEF Step, ChangePasswordWrite, SetupTotpWrite, EnableTotpWrite, DisableTotpWrite,
           IInv, BootAlone, At
  <1>2. CASE ChangePasswordWrite(p)
    <2> DEFINE f == [u \in users |-> [u EXCEPT !.password_hash = req[p].new,
                                               !.must_change_password = FALSE]]
    <2>1. users' = {IF u.id = req[p].user THEN f[u] ELSE u : u \in users}
      BY <1>2 DEF ChangePasswordWrite, Update
    <2>2. req[p].new \in Passwords
      BY <1>0, CredentialsAssumption DEF Request, Idle
    <2>3. \A u \in users : f[u] \in UserRow /\ f[u].id = u.id /\ f[u].email = u.email
                             /\ ~f[u].must_change_password
      BY <1>0, <2>2 DEF UserRow
    <2> HIDE DEF f
    <2> QED BY <1>1, <1>2, <2>1, <2>3, UpdateStep DEF ChangePasswordWrite
  <1>3. CASE SetupTotpWrite(p)
    <2> DEFINE f == [u \in users |-> [u EXCEPT !.totp_secret = req[p].secret]]
    <2>1. users' = {IF u.id = req[p].user THEN f[u] ELSE u : u \in users}
      BY <1>3 DEF SetupTotpWrite, Update
    <2>2. req[p].secret \in Secrets \cup {NoSecret}
      BY <1>0 DEF Request, Idle
    <2>3. \A u \in users : /\ f[u] \in UserRow /\ f[u].id = u.id /\ f[u].email = u.email
                           /\ f[u].must_change_password = u.must_change_password
                           /\ f[u].password_hash = u.password_hash
      BY <1>0, <2>2 DEF UserRow
    <2> HIDE DEF f
    <2> QED BY <1>1, <1>3, <2>1, <2>3, UpdateStep DEF SetupTotpWrite
  <1>4. CASE EnableTotpWrite(p)
    <2> DEFINE f == [u \in users |-> [u EXCEPT !.totp_enabled = TRUE]]
    <2>1. users' = {IF u.id = req[p].user THEN f[u] ELSE u : u \in users}
      BY <1>4 DEF EnableTotpWrite, Update
    <2>2. \A u \in users : /\ f[u] \in UserRow /\ f[u].id = u.id /\ f[u].email = u.email
                           /\ f[u].must_change_password = u.must_change_password
                           /\ f[u].password_hash = u.password_hash
      BY <1>0 DEF UserRow
    <2> HIDE DEF f
    <2> QED BY <1>1, <1>4, <2>1, <2>2, UpdateStep DEF EnableTotpWrite
  <1>5. CASE DisableTotpWrite(p)
    <2> DEFINE f == [u \in users |-> [u EXCEPT !.totp_enabled = FALSE,
                                               !.totp_secret = NoSecret]]
    <2>1. users' = {IF u.id = req[p].user THEN f[u] ELSE u : u \in users}
      BY <1>5 DEF DisableTotpWrite, Update
    <2>2. \A u \in users : /\ f[u] \in UserRow /\ f[u].id = u.id /\ f[u].email = u.email
                           /\ f[u].must_change_password = u.must_change_password
                           /\ f[u].password_hash = u.password_hash
      BY <1>0 DEF UserRow
    <2> HIDE DEF f
    <2> QED BY <1>1, <1>5, <2>1, <2>2, UpdateStep DEF DisableTotpWrite
  <1> QED BY <1>2, <1>3, <1>4, <1>5 DEF Step

\* A handler that ends early changes its own locals only.
LEMMA AbortStep == ASSUME IInv, NEW p \in Requests, Abort(p) PROVE IInv'
  <1>1. req' \in [Requests -> Request]
    BY SetLocals DEF Abort, Done, IInv, TypeOK, Request
  <1>2. boot = "serving"
    BY DEF Abort, IInv, BootAlone
  <1> QED BY <1>1, <1>2
    DEF Abort, IInv, TypeOK, FlagMeansInitialPassword, IdsDrawn, BootAlone

\* Users come by registration, without the flag.
LEMMA RegisterStep ==
    ASSUME IInv, NEW email \in Emails, NEW pw \in Passwords, Register(email, pw)
    PROVE  IInv'
  <1>1. InsertUser(email, pw)
    BY DEF Register
  <1>2. /\ users' \subseteq UserRow
        /\ drawn' \in [user : 0..MaxUsers, secret : 0..MaxSecrets, restart : 0..MaxRestarts]
        /\ drawn'.user \in 1..MaxUsers
        /\ FlagMeansInitialPassword' /\ IdsDrawn'
    BY <1>1, InsertKeepsRows
  <1>3. TypeOK'
    BY <1>2 DEF Register, IInv, TypeOK
  <1>4. BootAlone'
    BY DEF Register, BootAlone
  <1> QED BY <1>2, <1>3, <1>4 DEF IInv

\* Users go by deletion.
LEMMA DeleteUserStep == ASSUME IInv, NEW id, DeleteUser(id) PROVE IInv'
  <1>1. users' \subseteq users /\ keyed' \subseteq keyed /\ boot = "serving"
        /\ UNCHANGED <<req, boot, drawn>>
    BY DEF DeleteUser
  <1> QED BY <1>1 DEF IInv, TypeOK, FlagMeansInitialPassword, IdsDrawn, BootAlone

\* A restart ends every handler and goes back to counting users.
LEMMA RestartStep == ASSUME IInv, Restart PROVE IInv'
  <1>1. req' \in [Requests -> Request] /\ \A p \in Requests : req'[p] = Idle
    BY DEF Restart, Request
  <1>2. /\ drawn'.user = drawn.user
        /\ drawn' \in [user : 0..MaxUsers, secret : 0..MaxSecrets, restart : 0..MaxRestarts]
    BY CredentialsAssumption DEF Restart, IInv, TypeOK
  <1>3. TypeOK'
    BY <1>1, <1>2 DEF Restart, IInv, TypeOK
  <1>4. FlagMeansInitialPassword' /\ IdsDrawn'
    BY <1>2 DEF Restart, IInv, FlagMeansInitialPassword, IdsDrawn
  <1>5. BootAlone'
    BY <1>1 DEF Restart, BootAlone, At, Idle
  <1> QED BY <1>3, <1>4, <1>5 DEF IInv

\* The strengthened invariant holds in every reachable state.
THEOREM Inductive == Spec => []IInv
  <1>1. IInv /\ [Next]_vars => IInv'
    <2> SUFFICES ASSUME IInv, [Next]_vars PROVE IInv'
      OBVIOUS
    <2>1. CASE Next
      BY <2>1, BootStep, BeginStep, WriteStep, AbortStep, RegisterStep, DeleteUserStep,
         RestartStep DEF Next
    <2>2. CASE UNCHANGED vars
      BY <2>2 DEF vars, IInv, TypeOK, FlagMeansInitialPassword, IdsDrawn, BootAlone, At
    <2> QED BY <2>1, <2>2
  <1> QED BY InitIInv, <1>1, PTL DEF Spec

\* Every row and every handler's locals keep their types: in particular a handler
\* that enables or disables TOTP has a secret at hand.
THEOREM TypeCorrect == Spec => []TypeOK
  <1>1. IInv => TypeOK
    BY DEF IInv
  <1> QED BY Inductive, <1>1, PTL

\* The screen that forces a new password is shown to the initial user alone and
\* only while the password from the environment is in use, whatever restarts,
\* password changes and registrations overlap.
THEOREM FlagIsInitialPassword == Spec => []FlagMeansInitialPassword
  <1>1. IInv => FlagMeansInitialPassword
    BY DEF IInv
  <1> QED BY Inductive, <1>1, PTL

\* A user who could log in and no longer can was enabled by a handler that had
\* checked another secret than the one now stored: no other overlap of restarts,
\* password changes, TOTP handlers and registrations locks a user out.
THEOREM LoginKept == Spec => LoginLostOnlyToStaleEnable
  <1> DEFINE Open(u) == u.id \in keyed /\ (u.totp_enabled => u.totp_secret # NoSecret)
  <1>1. ASSUME users \subseteq UserRow, NEW u \in users PROVE CanLogIn(u) <=> Open(u)
    BY <1>1 DEF CanLogIn, LoginAnswer, UserRow
  <1>2. ASSUME (users \subseteq UserRow)', NEW v \in users' PROVE CanLogIn(v)' <=> Open(v)'
    BY <1>2 DEF CanLogIn, LoginAnswer, UserRow
  <1>3. ASSUME IInv, IInv', Next, NEW u \in users, NEW v \in users', u.id = v.id,
               Open(u), ~Open(v)'
        PROVE  \E p \in Requests : /\ At(p, "enable") /\ req[p].user = u.id
                                  /\ req[p].secret # u.totp_secret
    <2>1. /\ users \subseteq UserRow /\ drawn.user \in Nat /\ u.id \in Nat
          /\ u.id <= drawn.user /\ req \in [Requests -> Request]
          /\ \A a \in users : a.id = u.id => a = u
      BY <1>3, CredentialsAssumption DEF IInv, TypeOK, IdsDrawn, UserRow
    <2>2. ~ /\ v.totp_enabled = u.totp_enabled /\ v.totp_secret = u.totp_secret
            /\ keyed \subseteq keyed'
      BY <1>3
    <2>3. ASSUME NEW email, NEW pw, InsertUser(email, pw), keyed \subseteq keyed' PROVE FALSE
      <3>1. v \in users \/ v.id = drawn.user + 1
        BY <2>1, <2>3 DEF InsertUser, IInv, TypeOK
      <3>2. v = u
        BY <1>3, <2>1, <3>1
      <3> QED BY <2>2, <2>3, <3>2
    <2>4. CASE BootFlag
      <3>1. PICK a \in users :
                 v = IF a.id = drawn.user THEN [a EXCEPT !.must_change_password = TRUE] ELSE a
        BY <2>4 DEF BootFlag, Update
      <3>2. a = u
        BY <1>3, <2>1, <3>1 DEF UserRow
      <3> QED BY <2>1, <2>2, <2>4, <3>1, <3>2 DEF BootFlag, UserRow
    <2>5. CASE Boot
      <3>1. CASE BootInsertUser
        BY <2>3, <3>1 DEF BootInsertUser
      <3>2. CASE BootCount \/ BootInsertKey \/ BootFails
        BY <1>3, <2>1, <2>2, <3>2 DEF BootCount, BootInsertKey, BootFails
      <3> QED BY <2>4, <2>5, <3>1, <3>2 DEF Boot
    <2>6. ASSUME NEW p \in Requests, Step(p)
          PROVE  \E q \in Requests : /\ At(q, "enable") /\ req[q].user = u.id
                                    /\ req[q].secret # u.totp_secret
      <3>1. keyed' = keyed /\ req[p] \in Request
        BY <2>1, <2>6 DEF Step, ChangePasswordWrite, SetupTotpWrite, EnableTotpWrite,
                         DisableTotpWrite
      <3>2. CASE ChangePasswordWrite(p)
        <4>1. PICK a \in users :
                 v = IF a.id = req[p].user THEN [a EXCEPT !.password_hash = req[p].new,
                                                          !.must_change_password = FALSE] ELSE a
          BY <3>2 DEF ChangePasswordWrite, Update
        <4>2. a = u
          BY <1>3, <2>1, <4>1 DEF UserRow
        <4> QED BY <2>1, <2>2, <3>1, <4>1, <4>2 DEF UserRow
      <3>3. CASE SetupTotpWrite(p)
        <4>1. PICK a \in users :
                 v = IF a.id = req[p].user THEN [a EXCEPT !.totp_secret = req[p].secret] ELSE a
          BY <3>3 DEF SetupTotpWrite, Update
        <4>2. a = u
          BY <1>3, <2>1, <4>1 DEF UserRow
        <4>3. req[p].secret # NoSecret
          BY <3>1, <3>3 DEF SetupTotpWrite, At, Request, Idle, Secrets, NoSecret
        <4> QED BY <1>3, <2>1, <2>2, <3>1, <4>1, <4>2, <4>3 DEF UserRow
      <3>4. CASE EnableTotpWrite(p)
        <4>1. PICK a \in users :
                 v = IF a.id = req[p].user THEN [a EXCEPT !.totp_enabled = TRUE] ELSE a
          BY <3>4 DEF EnableTotpWrite, Update
        <4>2. a = u
          BY <1>3, <2>1, <4>1 DEF UserRow
        <4>3. At(p, "enable") /\ req[p].secret # NoSecret
          BY <3>1, <3>4 DEF EnableTotpWrite, At, Request, Idle, Secrets, NoSecret
        <4>4. u.totp_secret = NoSecret /\ u.id = req[p].user
          BY <1>3, <2>1, <2>2, <3>1, <4>1, <4>2 DEF UserRow
        <4> QED BY <4>3, <4>4
      <3>5. CASE DisableTotpWrite(p)
        <4>1. PICK a \in users :
                 v = IF a.id = req[p].user THEN [a EXCEPT !.totp_enabled = FALSE,
                                                          !.totp_secret = NoSecret] ELSE a
          BY <3>5 DEF DisableTotpWrite, Update
        <4>2. a = u
          BY <1>3, <2>1, <4>1 DEF UserRow
        <4> QED BY <1>3, <2>1, <2>2, <3>1, <4>1, <4>2 DEF UserRow
      <3> QED BY <2>6, <3>2, <3>3, <3>4, <3>5 DEF Step
    <2>7. ASSUME NEW p \in Requests, Begin(p) \/ Abort(p) PROVE FALSE
      <3>1. users' = users /\ keyed' = keyed
        BY <2>7 DEF Begin, Abort, ChangePasswordRead, SetupTotpRead, EnableTotpRead,
                    DisableTotpRead
      <3> QED BY <1>3, <2>1, <2>2, <3>1
    <2>8. CASE Restart
      BY <1>3, <2>1, <2>2, <2>8 DEF Restart
    <2>9. ASSUME NEW email \in Emails, NEW pw \in Passwords, Register(email, pw) PROVE FALSE
      BY <2>3, <2>9 DEF Register
    <2>10. ASSUME NEW id, DeleteUser(id) PROVE FALSE
      <3>1. v \in users /\ v.id # id /\ keyed' = keyed \ {id}
        BY <2>10 DEF DeleteUser
      <3>2. v = u
        BY <1>3, <2>1, <3>1
      <3> QED BY <1>3, <3>1, <3>2
    <2> QED BY <1>3, <2>5, <2>6, <2>7, <2>8, <2>9, <2>10 DEF Next
  <1>4. IInv /\ IInv' /\ [Next]_vars => [LossIsStaleEnable]_vars
    BY <1>1, <1>2, <1>3 DEF IInv, TypeOK, LossIsStaleEnable
  <1> QED BY Inductive, <1>4, PTL DEF Spec, LoginLostOnlyToStaleEnable
=============================================================================
