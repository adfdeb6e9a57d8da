--------------------------- MODULE KeyVaultProofs ---------------------------
(***************************************************************************)
(* The inductive invariant IInv of KeyVault is preserved by every step, and*)
(* with it the types, the consistency of the vaults, the custody of the    *)
(* DEKs in sessions and the readability of records, for every number of    *)
(* clients, users, sessions, salts and restarts; its action properties; and*)
(* the refinement of DekCustody.                                           *)
(*                                                                         *)
(* Two lemmas carry most steps: LocalStep for a handler that only changes  *)
(* its own locals, and WriteStep for one that writes a table.              *)
(***************************************************************************)
EXTENDS KeyVault, TLAPS

\* What a handler's assignment to its own locals does.
LEMMA SetLocals ==
    ASSUME NEW p \in Requests, NEW r, req \in [Requests -> Request],
           r \in Request, Set(p, r)
    PROVE  /\ req' \in [Requests -> Request]
           /\ req'[p] = r
           /\ \A q \in Requests : q # p => req'[q] = req[q]
  BY DEF Set

\* An empty handler slot is a well-typed one.
LEMMA IdleIsRequest == Idle \in Request
  BY KeyVaultAssumption DEF Idle, Request, Labels, None, NoPw

\* The empty database of the first start satisfies the invariant.
LEMMA InitIInv == Init => IInv
  <1> SUFFICES ASSUME Init PROVE IInv
    OBVIOUS
  <1>1. TypeOK
    BY IdleIsRequest, KeyVaultAssumption DEF Init, TypeOK, Servers
  <1>2. DrawnBefore /\ TableKeys /\ KeyRowsMatch /\ HoldersMatch
    BY DEF Init, DrawnBefore, TableKeys, KeyRowsMatch, HoldersMatch, Idle, None
  <1>3. LocalsMatch /\ RegistrationsOwn
    BY DEF Init, LocalsMatch, LocalMatch, RegistrationsOwn, Idle, Unsealed, Unwritten
  <1> QED BY <1>1, <1>2, <1>3 DEF IInv

\* A step that moves one handler, draws what it needs and writes no table.
LEMMA LocalStep ==
    ASSUME IInv, NEW p \in Requests, NEW r \in Request, Set(p, r),
           UNCHANGED tables,
           drawn' \in [user : 0..MaxUsers, salt : 0..MaxSalts,
                       session : 0..MaxSessions, restart : 0..MaxRestarts],
           drawn'.user >= drawn.user, drawn'.session >= drawn.session,
           server' \in Servers, held' \subseteq Users,
           r.user <= drawn'.user, r.sid <= drawn'.session,
           LocalMatch(r), r.pc \notin Unwritten,
           r.pc \in Unsealed => HasKeyRow(r.user)
    PROVE  IInv'
  <1> USE KeyVaultAssumption
  <1>1. /\ req' \in [Requests -> Request]
        /\ req'[p] = r
        /\ \A q \in Requests : q # p => req'[q] = req[q]
    BY SetLocals DEF IInv, TypeOK
  <1>2. TypeOK'
    BY <1>1 DEF IInv, TypeOK, tables
  <1>3. DrawnBefore'
    <2>1. \A u \in users : u.id <= drawn'.user
      BY DEF IInv, DrawnBefore, TypeOK, UserRow, Users
    <2>2. \A s \in sessions : s.id <= drawn'.session
      BY DEF IInv, DrawnBefore, TypeOK, SessionRow
    <2>3. \A q \in Requests : req[q].user <= drawn'.user /\ req[q].sid <= drawn'.session
      BY DEF IInv, DrawnBefore, TypeOK, Request, Users, None
    <2> QED BY <1>1, <2>1, <2>2, <2>3 DEF DrawnBefore, tables
  <1>4. (TableKeys /\ KeyRowsMatch /\ HoldersMatch)'
    BY DEF IInv, TableKeys, KeyRowsMatch, HoldersMatch, HasKeyRow, UserIds, tables
  <1>5. LocalsMatch'
    BY <1>1 DEF IInv, LocalsMatch, LocalMatch, UserIds, HasKeyRow, tables
  <1>6. RegistrationsOwn'
    BY <1>1 DEF IInv, RegistrationsOwn, UserIds, HasKeyRow, tables
  <1> QED BY <1>2, <1>3, <1>4, <1>5, <1>6 DEF IInv

\* A registration draws numbers nobody has: it owns them from its check on.
LEMMA RegisterCheckStep ==
    ASSUME IInv, NEW p \in Requests, NEW e \in Emails, NEW pw \in Passwords,
           RegisterCheck(p, e, pw)
    PROVE  IInv'
  <1> DEFINE r == [Idle EXCEPT !.pc = "register_user", !.email = e, !.new = pw,
                           !.user = drawn'.user, !.dek = drawn'.user,
                           !.rk = drawn'.user, !.salt = drawn'.salt]
  <1> USE KeyVaultAssumption
  <1>1. /\ drawn' = [drawn EXCEPT !.user = @ + 1, !.salt = @ + 1]
        /\ drawn.user < MaxUsers /\ drawn.salt < MaxSalts
        /\ drawn \in [user : 0..MaxUsers, salt : 0..MaxSalts,
                       session : 0..MaxSessions, restart : 0..MaxRestarts]
    BY DEF IInv, TypeOK, RegisterCheck
  <1>2. /\ drawn'.user = drawn.user + 1 /\ drawn'.salt = drawn.salt + 1
        /\ drawn'.session = drawn.session /\ drawn'.restart = drawn.restart
    BY <1>1
  <1>21. drawn' = [user |-> drawn'.user, salt |-> drawn'.salt,
                  session |-> drawn'.session, restart |-> drawn'.restart]
    BY <1>1
  <1>22. /\ drawn.user \in 0..MaxUsers /\ drawn.salt \in 0..MaxSalts
        /\ drawn.session \in 0..MaxSessions /\ drawn.restart \in 0..MaxRestarts
        /\ drawn.user < MaxUsers /\ drawn.salt < MaxSalts
    BY <1>1
  <1>23. /\ drawn'.user \in Users /\ drawn'.salt \in Salts
         /\ drawn'.user \in 0..MaxUsers /\ drawn'.salt \in 0..MaxSalts
         /\ drawn'.session \in 0..MaxSessions /\ drawn'.restart \in 0..MaxRestarts
    BY <1>2, <1>22 DEF Users, Salts
  <1>3. drawn' \in [user : 0..MaxUsers, salt : 0..MaxSalts,
                       session : 0..MaxSessions, restart : 0..MaxRestarts]
    BY <1>21, <1>23
  <1>4. /\ r \in Request
        /\ r.pc = "register_user" /\ r.email = e /\ r.new = pw /\ r.sid = 0
        /\ r.user = drawn'.user /\ r.dek = r.user /\ r.rk = r.user /\ r.salt = drawn'.salt
    BY <1>3, <1>23, IdleIsRequest DEF Request, Labels, Idle, None
  <1>5. /\ req' \in [Requests -> Request]
        /\ req'[p] = r
        /\ \A q \in Requests : q # p => req'[q] = req[q]
    BY <1>4, SetLocals DEF IInv, TypeOK, RegisterCheck
  <1>6. TypeOK'
    BY <1>3, <1>5 DEF IInv, TypeOK, RegisterCheck, tables
  <1>7. UNCHANGED tables
    BY DEF RegisterCheck
  <1> HIDE DEF r
  <1>8. DrawnBefore'
    <2>1. \A u \in users : u.id <= drawn'.user
      BY <1>2 DEF IInv, DrawnBefore, TypeOK, UserRow, Users
    <2>2. \A s \in sessions : s.id <= drawn'.session
      BY <1>2 DEF IInv, DrawnBefore, TypeOK, SessionRow
    <2>3. \A q \in Requests : req[q].user <= drawn'.user /\ req[q].sid <= drawn'.session
      BY <1>2 DEF IInv, DrawnBefore, TypeOK, Request, Users, None
    <2> QED BY <1>3, <1>4, <1>5, <1>7, <2>1, <2>2, <2>3 DEF DrawnBefore, tables, Users
  <1>9. (TableKeys /\ KeyRowsMatch /\ HoldersMatch)'
    BY <1>7 DEF IInv, TableKeys, KeyRowsMatch, HoldersMatch, HasKeyRow, UserIds, tables
  <1>10. LocalsMatch'
    BY <1>4, <1>5, <1>7 DEF IInv, LocalsMatch, LocalMatch, UserIds, HasKeyRow, tables, Unsealed
  <1>11. RegistrationsOwn'
    <2>1. /\ drawn'.user \notin UserIds
          /\ \A q \in Requests : req[q].user # drawn'.user
      BY <1>2 DEF IInv, DrawnBefore, TypeOK, UserIds, UserRow, Users, Request, None
    <2>2. ~HasKeyRow(drawn'.user)
      BY <2>1 DEF IInv, TableKeys, HasKeyRow
    <2>3. drawn'.user # None /\ drawn'.salt # None
      BY <1>23 DEF Users, Salts, None
    <2> QED
      BY <1>4, <1>5, <1>7, <2>1, <2>2, <2>3
         DEF IInv, RegistrationsOwn, UserIds, HasKeyRow, tables
  <1> QED BY <1>6, <1>8, <1>9, <1>10, <1>11 DEF IInv

-----------------------------------------------------------------------------
(* Handlers that only move on                                              *)

Draws == [user : 0..MaxUsers, salt : 0..MaxSalts,
          session : 0..MaxSessions, restart : 0..MaxRestarts]

\* The types of the rows met in a table, for the steps that only read it.
LEMMA TypedRows ==
    ASSUME IInv
    PROVE  /\ \A u \in users : u.id \in Users /\ u.id # None /\ u.id <= drawn.user
           /\ \A s \in sessions :
                 /\ s.user_id \in Users /\ s.user_id # None
                 /\ s.user_id <= drawn.user
                 /\ s.id \in 0..MaxSessions /\ s.id <= drawn.session
           /\ \A p \in Requests : /\ req[p] \in Request
                                  /\ req[p].user <= drawn.user
                                  /\ req[p].sid <= drawn.session
           /\ drawn \in Draws
           /\ drawn.user \in Nat /\ drawn.session \in Nat
           /\ 0 \notin Users
  BY KeyVaultAssumption
     DEF IInv, TypeOK, DrawnBefore, TableKeys, UserIds, UserRow, SessionRow, Users,
         Draws, None

\* The same with nothing drawn.
LEMMA MoveStep ==
    ASSUME IInv, NEW p \in Requests, NEW r \in Request, Set(p, r),
           UNCHANGED <<tables, drawn, server, held>>,
           r.user <= drawn.user, r.sid <= drawn.session,
           LocalMatch(r), r.pc \notin Unwritten,
           r.pc \in Unsealed => HasKeyRow(r.user)
    PROVE  IInv'
  <1>1. /\ server' \in Servers /\ held' \subseteq Users /\ drawn' \in Draws
        /\ drawn'.user >= drawn.user /\ drawn'.session >= drawn.session
    BY TypedRows DEF IInv, TypeOK, Draws
  <1> QED BY <1>1, LocalStep DEF Draws

\* A handler that ends without writing keeps the invariant.
LEMMA DoneStep ==
    ASSUME IInv, NEW p \in Requests, Done(p),
           UNCHANGED <<tables, drawn, server, held>>
    PROVE  IInv'
  <1>1. /\ Idle.user <= drawn.user /\ Idle.sid <= drawn.session
        /\ LocalMatch(Idle) /\ Idle.pc \notin Unwritten \cup Unsealed
    BY TypedRows DEF Idle, None, LocalMatch, Unwritten, Unsealed
  <1> QED BY <1>1, IdleIsRequest, MoveStep DEF Done

\* Login knows its user from a row of users.
LEMMA LoginFindUserStep ==
    ASSUME IInv, NEW p \in Requests, NEW e \in Emails, NEW pw \in Passwords,
           LoginFindUser(p, e, pw)
    PROVE  IInv'
  <1>1. PICK u \in users :
            Set(p, [Idle EXCEPT !.pc = "login_key", !.user = u.id, !.pw = pw])
    BY DEF LoginFindUser
  <1> DEFINE r == [Idle EXCEPT !.pc = "login_key", !.user = u.id, !.pw = pw]
  <1>2. /\ r \in Request /\ r.pc = "login_key" /\ r.user = u.id /\ r.sid = 0
    BY TypedRows, IdleIsRequest DEF Request, Labels, Idle, None
  <1>3. LocalMatch(r) /\ r.pc \notin Unwritten \cup Unsealed
    BY <1>2, TypedRows DEF LocalMatch, Unwritten, Unsealed
  <1>4. Set(p, r) /\ UNCHANGED <<tables, drawn, server, held>>
    BY <1>1 DEF LoginFindUser
  <1> HIDE DEF r
  <1> QED BY <1>2, <1>3, <1>4, TypedRows, MoveStep

\* Unlock takes its user and its session id from the same row.
LEMMA UnlockBeginStep ==
    ASSUME IInv, NEW p \in Requests, NEW s \in sessions, NEW pw \in Passwords,
           UnlockBegin(p, s, pw)
    PROVE  IInv'
  <1> DEFINE r == [Idle EXCEPT !.pc = "unlock_key", !.user = s.user_id,
                               !.sid = s.id, !.pw = pw]
  <1>2. r \in Request /\ r.pc = "unlock_key" /\ r.user = s.user_id /\ r.sid = s.id
    BY TypedRows, IdleIsRequest DEF Request, Labels, Idle, None
  <1>3. LocalMatch(r) /\ r.pc \notin Unwritten \cup Unsealed
    BY <1>2, TypedRows DEF IInv, TableKeys, LocalMatch, Unwritten, Unsealed
  <1>4. Set(p, r) /\ UNCHANGED <<tables, drawn, server, held>>
    BY DEF UnlockBegin
  <1> HIDE DEF r
  <1> QED BY <1>2, <1>3, <1>4, TypedRows, MoveStep

\* A rotation takes its user from a valid session.
LEMMA RotateBeginStep ==
    ASSUME IInv, NEW p \in Requests, NEW s \in sessions,
           NEW current \in Passwords, NEW new \in Passwords,
           RotateBegin(p, s, current, new)
    PROVE  IInv'
  <1> DEFINE r == [Idle EXCEPT !.pc = "rotate_key", !.user = s.user_id,
                               !.pw = current, !.new = new]
  <1>2. /\ r \in Request /\ r.pc = "rotate_key" /\ r.user = s.user_id /\ r.sid = 0
        /\ r.new = new
    BY TypedRows, IdleIsRequest DEF Request, Labels, Idle, None
  <1>3. LocalMatch(r) /\ r.pc \notin Unwritten \cup Unsealed
    BY <1>2, TypedRows DEF LocalMatch, Unwritten, Unsealed
  <1>4. Set(p, r) /\ UNCHANGED <<tables, drawn, server, held>>
    BY DEF RotateBegin
  <1> HIDE DEF r
  <1> QED BY <1>2, <1>3, <1>4, TypedRows, MoveStep

\* So does a restoration, with a recovery key some client holds.
LEMMA RestoreBeginStep ==
    ASSUME IInv, NEW p \in Requests, NEW s \in sessions,
           NEW rk \in held, NEW new \in Passwords,
           RestoreBegin(p, s, rk, new)
    PROVE  IInv'
  <1> DEFINE r == [Idle EXCEPT !.pc = "restore_key", !.user = s.user_id,
                               !.rk = rk, !.new = new]
  <1>1. rk \in Users
    BY DEF IInv, TypeOK
  <1>2. /\ r \in Request /\ r.pc = "restore_key" /\ r.user = s.user_id /\ r.sid = 0
        /\ r.new = new
    BY <1>1, TypedRows, IdleIsRequest DEF Request, Labels, Idle, None
  <1>3. LocalMatch(r) /\ r.pc \notin Unwritten \cup Unsealed
    BY <1>2, TypedRows DEF LocalMatch, Unwritten, Unsealed
  <1>4. Set(p, r) /\ UNCHANGED <<tables, drawn, server, held>>
    BY DEF RestoreBegin
  <1> HIDE DEF r
  <1> QED BY <1>2, <1>3, <1>4, TypedRows, MoveStep

\* The handlers whose first step only remembers whose session it is.
LEMMA SessionBeginStep ==
    ASSUME IInv, NEW p \in Requests, NEW s \in sessions,
           \/ WebauthnRegisterBegin(p, s) \/ PasskeyBegin(p, s) \/ LogoutBegin(p, s)
           \/ \E target \in UserIds : DeleteUserBegin(p, s, target)
    PROVE  IInv'
  <1>1. CASE WebauthnRegisterBegin(p, s)
    <2> DEFINE r == [Idle EXCEPT !.pc = "placeholder", !.user = s.user_id]
    <2>1. r \in Request /\ r.pc = "placeholder" /\ r.user = s.user_id /\ r.sid = 0
      BY TypedRows, IdleIsRequest DEF Request, Labels, Idle, None
    <2>2. LocalMatch(r) /\ r.pc \notin Unwritten \cup Unsealed
      BY <2>1, TypedRows DEF LocalMatch, Unwritten, Unsealed
    <2>3. Set(p, r) /\ UNCHANGED <<tables, drawn, server, held>>
      BY <1>1 DEF WebauthnRegisterBegin
    <2> HIDE DEF r
    <2> QED BY <2>1, <2>2, <2>3, TypedRows, MoveStep
  <1>2. CASE PasskeyBegin(p, s)
    <2> DEFINE r == [Idle EXCEPT !.pc = "passkey", !.user = s.user_id]
    <2>1. r \in Request /\ r.pc = "passkey" /\ r.user = s.user_id /\ r.sid = 0
      BY TypedRows, IdleIsRequest DEF Request, Labels, Idle, None
    <2>2. LocalMatch(r) /\ r.pc \notin Unwritten \cup Unsealed
      BY <2>1, TypedRows DEF LocalMatch, Unwritten, Unsealed
    <2>3. Set(p, r) /\ UNCHANGED <<tables, drawn, server, held>>
      BY <1>2 DEF PasskeyBegin
    <2> HIDE DEF r
    <2> QED BY <2>1, <2>2, <2>3, TypedRows, MoveStep
  <1>3. CASE LogoutBegin(p, s)
    <2> DEFINE r == [Idle EXCEPT !.pc = "logout", !.sid = s.id]
    <2>1. r \in Request /\ r.pc = "logout" /\ r.user = 0 /\ r.sid = s.id
      BY TypedRows, IdleIsRequest DEF Request, Labels, Idle, None
    <2>2. LocalMatch(r) /\ r.pc \notin Unwritten \cup Unsealed
      BY <2>1 DEF LocalMatch, Unwritten, Unsealed
    <2>3. Set(p, r) /\ UNCHANGED <<tables, drawn, server, held>>
      BY <1>3 DEF LogoutBegin
    <2>4. 0 <= drawn.user
      BY TypedRows
    <2> HIDE DEF r
    <2> QED BY <2>1, <2>2, <2>3, <2>4, TypedRows, MoveStep
  <1>4. ASSUME NEW target \in UserIds, DeleteUserBegin(p, s, target)
        PROVE  IInv'
    <2> DEFINE r == [Idle EXCEPT !.pc = "delete_owner", !.user = s.user_id,
                                 !.target = target]
    <2>1. r \in Request /\ r.pc = "delete_owner" /\ r.user = s.user_id /\ r.sid = 0
      BY TypedRows, IdleIsRequest DEF Request, Labels, Idle, None, UserIds
    <2>2. LocalMatch(r) /\ r.pc \notin Unwritten \cup Unsealed
      BY <2>1 DEF LocalMatch, Unwritten, Unsealed
    <2>3. Set(p, r) /\ UNCHANGED <<tables, drawn, server, held>>
      BY <1>4 DEF DeleteUserBegin
    <2> HIDE DEF r
    <2> QED BY <2>1, <2>2, <2>3, TypedRows, MoveStep
  <1> QED BY <1>1, <1>2, <1>3, <1>4

\* A writer of user data takes user and DEK from the same session.
LEMMA StoreBeginStep ==
    ASSUME IInv, NEW p \in Requests, NEW s \in sessions, StoreBegin(p, s)
    PROVE  IInv'
  <1> DEFINE r == [Idle EXCEPT !.pc = "store", !.user = s.user_id,
                               !.dek = SessionDek(s)]
  <1>1. SessionDek(s) = s.user_id /\ HasKeyRow(s.user_id)
    BY DEF IInv, HoldersMatch, StoreBegin, SessionDek, NoCipher
  <1>2. /\ r \in Request /\ r.pc = "store" /\ r.user = s.user_id /\ r.sid = 0
        /\ r.dek = r.user
    BY <1>1, TypedRows, IdleIsRequest DEF Request, Labels, Idle, None
  <1>3. LocalMatch(r) /\ r.pc \notin Unwritten
    BY <1>1, <1>2, TypedRows DEF LocalMatch, Unwritten, Unsealed
  <1>4. Set(p, r) /\ UNCHANGED <<tables, drawn, server, held>>
    BY DEF StoreBegin
  <1> HIDE DEF r
  <1> QED BY <1>1, <1>2, <1>3, <1>4, TypedRows, MoveStep

\* The owner check of delete_user decides where its handler goes, no more.
LEMMA RequireOwnerStep ==
    ASSUME IInv, NEW p \in Requests, RequireOwner(p)
    PROVE  IInv'
  <1>1. UNCHANGED <<tables, drawn, server, held>>
    BY DEF RequireOwner
  <1>2. CASE Goto(p, "delete_user")
    <2> DEFINE r == [req[p] EXCEPT !.pc = "delete_user"]
    <2>1. /\ r \in Request /\ r.pc = "delete_user"
          /\ r.user = req[p].user /\ r.sid = req[p].sid
      BY TypedRows DEF Request, Labels
    <2>2. LocalMatch(r) /\ r.pc \notin Unwritten \cup Unsealed
      BY <2>1 DEF LocalMatch, Unwritten, Unsealed
    <2>3. Set(p, r)
      BY <1>2 DEF Goto
    <2> HIDE DEF r
    <2> QED BY <1>1, <2>1, <2>2, <2>3, TypedRows, MoveStep
  <1>3. CASE Done(p)
    BY <1>1, <1>3, DoneStep
  <1> QED BY <1>2, <1>3 DEF RequireOwner

\* The response of register adds a drawn recovery key to those held.
LEMMA RegisterRespondStep ==
    ASSUME IInv, NEW p \in Requests, RegisterRespond(p)
    PROVE  IInv'
  <1>1. held' = held \cup {req[p].rk} /\ Done(p) /\ UNCHANGED <<tables, drawn, server>>
    BY DEF RegisterRespond
  <1>2. req[p].rk \in Users
    BY TypedRows DEF RegisterRespond, At, IInv, LocalsMatch, LocalMatch, Request
  <1>3. /\ Idle.user <= drawn.user /\ Idle.sid <= drawn.session
        /\ LocalMatch(Idle) /\ Idle.pc \notin Unwritten \cup Unsealed
    BY TypedRows DEF Idle, None, LocalMatch, Unwritten, Unsealed
  <1>4. /\ server' \in Servers /\ held' \subseteq Users /\ drawn' \in Draws
        /\ drawn'.user >= drawn.user /\ drawn'.session >= drawn.session
    BY <1>1, <1>2, TypedRows DEF IInv, TypeOK, Draws
  <1> QED BY <1>1, <1>3, <1>4, IdleIsRequest, LocalStep DEF Done, Draws

-----------------------------------------------------------------------------
(* Handlers that read a key row                                            *)

\* A key row names its user's DEK, and its user is there.
LEMMA KeyRowFacts ==
    ASSUME IInv, NEW k \in keys
    PROVE  /\ k.user_id \in Users /\ k.user_id \in UserIds
           /\ k.encrypted_dek.plain = k.user_id
           /\ k.recovery_encrypted_dek.plain = k.user_id
           /\ HasKeyRow(k.user_id)
  <1>1. k.user_id \in UserIds
    BY DEF IInv, TableKeys
  <1>2. k.user_id \in Users
    BY DEF IInv, TypeOK, KeyRows
  <1>3. /\ k.encrypted_dek.plain = k.user_id
        /\ k.recovery_encrypted_dek.plain = k.user_id
    <2>1. /\ k.encrypted_dek.plain = k.user_id
          /\ k.recovery_encrypted_dek = [key |-> k.user_id, plain |-> k.user_id]
      BY DEF IInv, KeyRowsMatch, Encrypt
    <2> QED BY <2>1
  <1> QED BY <1>1, <1>2, <1>3 DEF HasKeyRow

\* The DEK that login and unlock unwrap is that of the user they run for.
LEMMA GetUserDekStep ==
    ASSUME IInv, NEW p \in Requests, GetUserDek(p)
    PROVE  IInv'
  <1>1. UNCHANGED <<tables, drawn, server, held>>
    BY DEF GetUserDek
  <1>2. CASE Done(p)
    BY <1>1, <1>2, DoneStep
  <1>3. ASSUME NEW k \in keys, KeyRow(req[p].user, k),
               Set(p, [req[p] EXCEPT
                    !.pc = IF At(p, "login_key") THEN "login_session"
                                                 ELSE "unlock_store",
                    !.pw = NoPw, !.dek = k.encrypted_dek.plain])
        PROVE  IInv'
    <2> DEFINE pc == IF At(p, "login_key") THEN "login_session" ELSE "unlock_store"
               r == [req[p] EXCEPT !.pc = pc, !.pw = NoPw, !.dek = k.encrypted_dek.plain]
    <2>1. k.user_id = req[p].user
      BY <1>3 DEF KeyRow
    <2>2. /\ pc \in {"login_session", "unlock_store"}
          /\ pc = "unlock_store" => req[p].pc = "unlock_key"
      BY DEF GetUserDek, At
    <2> HIDE DEF pc
    <2>3. /\ r \in Request /\ r.pc = pc /\ r.user = req[p].user /\ r.sid = req[p].sid
          /\ r.dek = r.user /\ r.user \in Users
      BY <2>1, <2>2, TypedRows, KeyRowFacts DEF Request, Labels, None
    <2>4. LocalMatch(req[p])
      BY DEF IInv, LocalsMatch
    <2>5. LocalMatch(r) /\ r.pc \notin Unwritten /\ HasKeyRow(r.user)
      BY <2>1, <2>2, <2>3, <2>4, TypedRows, KeyRowFacts DEF LocalMatch, Unwritten, Unsealed, None
    <2>6. Set(p, r)
      BY <1>3 DEF pc
    <2> HIDE DEF r
    <2> QED BY <1>1, <2>3, <2>5, <2>6, TypedRows, MoveStep
  <1> QED BY <1>2, <1>3 DEF GetUserDek

\* A salt is drawn and nothing else.
LEMMA DrawSalt ==
    ASSUME drawn \in Draws, drawn.salt < MaxSalts,
           drawn' = [drawn EXCEPT !.salt = @ + 1]
    PROVE  /\ drawn' \in Draws /\ drawn'.salt \in Salts
           /\ drawn'.user = drawn.user /\ drawn'.session = drawn.session
           /\ drawn.user \in Nat /\ drawn.session \in Nat
  BY KeyVaultAssumption DEF Draws, Salts

\* Both ways to a DEK that is about to be wrapped again.
LEMMA UnwrappedStep ==
    ASSUME IInv, NEW p \in Requests, NEW k \in keys, k.user_id = req[p].user,
           req[p].pc \in {"rotate_key", "restore_key"},
           NEW pc \in {"rotate_update", "restore_update"},
           Unwrapped(p, pc, k.user_id), UNCHANGED <<tables, server, held>>
    PROVE  IInv'
  <1> DEFINE r == [req[p] EXCEPT !.pc = pc, !.pw = NoPw, !.rk = None,
                                 !.dek = k.user_id, !.salt = drawn'.salt]
  <1>1. /\ drawn' \in Draws /\ drawn'.salt \in Salts
        /\ drawn'.user = drawn.user /\ drawn'.session = drawn.session
        /\ drawn.user \in Nat /\ drawn.session \in Nat
    BY DrawSalt, TypedRows DEF Unwrapped
  <1>2. /\ r \in Request /\ r.pc = pc /\ r.user = req[p].user /\ r.sid = req[p].sid
        /\ r.dek = r.user /\ r.user \in Users /\ r.new = req[p].new
        /\ r.salt = drawn'.salt
    <2>1. k.user_id \in Users /\ req[p] \in Request
      BY TypedRows, KeyRowFacts
    <2>2. /\ r.pc = pc /\ r.user = req[p].user /\ r.sid = req[p].sid
          /\ r.dek = r.user /\ r.user \in Users /\ r.new = req[p].new
          /\ r.salt = drawn'.salt
      BY <2>1 DEF Request
    <2>3. r \in Request
      BY <1>1, <2>1 DEF Request, Labels, None
    <2> QED BY <2>2, <2>3
  <1>3. LocalMatch(req[p])
    BY DEF IInv, LocalsMatch
  <1>4. LocalMatch(r) /\ r.pc \notin Unwritten /\ HasKeyRow(r.user)
    BY <1>1, <1>2, <1>3, TypedRows, KeyRowFacts
       DEF LocalMatch, Unwritten, Unsealed, None, Salts
  <1>5. Set(p, r) /\ UNCHANGED <<tables, server, held>>
    BY DEF Unwrapped
  <1>6. /\ server' \in Servers /\ held' \subseteq Users
        /\ drawn'.user >= drawn.user /\ drawn'.session >= drawn.session
        /\ r.user <= drawn'.user /\ r.sid <= drawn'.session
    BY <1>1, <1>2, <1>5, TypedRows DEF IInv, TypeOK
  <1> HIDE DEF r
  <1> QED BY <1>1, <1>2, <1>4, <1>5, <1>6, LocalStep DEF Draws

\* Rotation and restoration unwrap the DEK of the user they run for.
LEMMA UnwrapStep ==
    ASSUME IInv, NEW p \in Requests, RotateUnwrap(p) \/ RestoreUnwrap(p)
    PROVE  IInv'
  <1>1. UNCHANGED <<tables, server, held>>
    BY DEF RotateUnwrap, RestoreUnwrap
  <1>2. CASE Done(p) /\ UNCHANGED drawn
    BY <1>1, <1>2, DoneStep
  <1>3. ASSUME NEW k \in keys, KeyRow(req[p].user, k), At(p, "rotate_key"),
               Unwrapped(p, "rotate_update", k.encrypted_dek.plain)
        PROVE  IInv'
    BY <1>1, <1>3, KeyRowFacts, UnwrappedStep DEF KeyRow, At
  <1>4. ASSUME NEW k \in keys, KeyRow(req[p].user, k), At(p, "restore_key"),
               Unwrapped(p, "restore_update", k.recovery_encrypted_dek.plain)
        PROVE  IInv'
    BY <1>1, <1>4, KeyRowFacts, UnwrappedStep DEF KeyRow, At
  <1> QED BY <1>2, <1>3, <1>4 DEF RotateUnwrap, RestoreUnwrap

-----------------------------------------------------------------------------
(* Steps that write                                                        *)

\* A step that may end handlers and rewrite rows, but adds no user, adds no
\* first key row, takes none from a user who stays, and gives no old session
\* id to another user.
LEMMA WriteStep ==
    ASSUME IInv, TypeOK', (TableKeys /\ KeyRowsMatch /\ HoldersMatch)',
           \A q \in Requests :
              \/ req'[q] = req[q]
              \/ req'[q] = Idle
              \/ /\ req[q].pc = "register_session"
                 /\ req'[q] = [req[q] EXCEPT !.pc = "register_respond"],
           UserIds' \subseteq UserIds,
           \A u : HasKeyRow(u)' => HasKeyRow(u),
           \A u \in UserIds' : HasKeyRow(u) => HasKeyRow(u)',
           \A t \in sessions' :
              \/ drawn.session < t.id /\ t.id <= drawn'.session
              \/ \E s \in sessions : s.id = t.id /\ s.user_id = t.user_id,
           drawn'.user >= drawn.user, drawn'.session >= drawn.session
    PROVE  IInv'
  <1> USE KeyVaultAssumption
  <1>1. drawn' \in Draws /\ drawn'.user \in Nat /\ drawn'.session \in Nat
    BY DEF TypeOK, Draws
  <1>0. ASSUME NEW q \in Requests
        PROVE  \/ req'[q] = req[q]
               \/ /\ req'[q] = Idle
                  /\ req'[q].pc = "idle" /\ req'[q].user = None /\ req'[q].sid = None
               \/ /\ req[q].pc = "register_session" /\ req'[q].pc = "register_respond"
                  /\ req'[q].user = req[q].user /\ req'[q].sid = req[q].sid
                  /\ req'[q].dek = req[q].dek /\ req'[q].rk = req[q].rk
    <2>1. CASE req'[q] = req[q]
      BY <2>1
    <2>2. CASE req'[q] = Idle
      BY <2>2 DEF Idle
    <2>3. CASE /\ req[q].pc = "register_session"
               /\ req'[q] = [req[q] EXCEPT !.pc = "register_respond"]
      BY <2>3, TypedRows DEF Request
    <2> QED BY <2>1, <2>2, <2>3
  <1>2. \A q \in Requests : /\ req'[q].user \in {req[q].user, None}
                            /\ req'[q].sid \in {req[q].sid, None}
    BY <1>0
  <1>3. DrawnBefore'
    <2>1. \A u \in users' : u.id <= drawn'.user
      <3> SUFFICES ASSUME NEW u \in users' PROVE u.id <= drawn'.user
        OBVIOUS
      <3>1. u.id \in UserIds
        BY DEF UserIds
      <3>2. u.id \in Nat /\ u.id <= drawn.user
        BY <3>1, TypedRows DEF UserIds, Users
      <3> QED BY <1>1, <3>2, TypedRows
    <2>2. \A s \in sessions' : s.id <= drawn'.session
      BY <1>1, TypedRows
    <2>3. \A q \in Requests : req'[q].user <= drawn'.user /\ req'[q].sid <= drawn'.session
      BY <1>1, <1>2, TypedRows DEF None, Request, Users
    <2> QED BY <2>1, <2>2, <2>3 DEF DrawnBefore
  <1>4. LocalsMatch'
    <2> SUFFICES ASSUME NEW q \in Requests PROVE LocalMatch(req[q])'
      BY DEF LocalsMatch
    <2>1. LocalMatch(req[q])
      BY DEF IInv, LocalsMatch
    <2>2. CASE req'[q] = req[q]
      <3>1. \A t \in sessions' : t.id = req[q].sid =>
               \E s \in sessions : s.id = t.id /\ s.user_id = t.user_id
        BY TypedRows DEF Request
      <3> QED BY <2>1, <2>2, <3>1 DEF LocalMatch
    <2>3. CASE req'[q].pc = "idle"
      BY <2>3 DEF LocalMatch, Unsealed
    <2>4. CASE /\ req[q].pc = "register_session" /\ req'[q].pc = "register_respond"
               /\ req'[q].user = req[q].user
               /\ req'[q].dek = req[q].dek /\ req'[q].rk = req[q].rk
      BY <2>1, <2>4 DEF LocalMatch, Unsealed
    <2> QED BY <1>0, <2>2, <2>3, <2>4
  <1>5. RegistrationsOwn'
    <2>1. \A q \in Requests : req'[q].pc \in Unwritten => req'[q] = req[q]
      BY <1>0 DEF Unwritten
    <2>2. \A q \in Requests : req'[q].pc \in Unwritten \cup Unsealed =>
             req[q].pc \in Unwritten \cup Unsealed /\ req'[q].user = req[q].user
      BY <1>0 DEF Unwritten, Unsealed
    <2> QED BY <2>1, <2>2 DEF IInv, RegistrationsOwn
  <1> QED BY <1>3, <1>4, <1>5 DEF IInv

\* The end of handler p, as WriteStep wants it.
LEMMA DoneEnds ==
    ASSUME IInv, NEW p \in Requests, Done(p)
    PROVE  /\ req' \in [Requests -> Request]
           /\ \A q \in Requests : req'[q] = req[q] \/ req'[q] = Idle
  BY IdleIsRequest, SetLocals DEF Done, IInv, TypeOK

\* Unlock stores its user's DEK in a session of that user, if it is still there.
LEMMA UnlockStoreStep ==
    ASSUME IInv, NEW p \in Requests, UnlockStore(p)
    PROVE  IInv'
  <1> DEFINE c == Sealed(req[p].dek)
             store(s) == IF s.id = req[p].sid THEN [s EXCEPT !.encrypted_dek = c] ELSE s
  <1>1. /\ sessions' = {store(s) : s \in sessions} /\ Done(p)
        /\ UNCHANGED <<users, keys, records, passkeys, drawn, server, held>>
        /\ req[p].pc = "unlock_store"
    BY DEF UnlockStore, At
  <1>2. /\ req[p].user \in Users /\ req[p].dek = req[p].user
        /\ req[p].user \in UserIds => HasKeyRow(req[p].user)
        /\ \A s \in sessions : s.id = req[p].sid => s.user_id = req[p].user
    BY <1>1, TypedRows DEF IInv, LocalsMatch, LocalMatch, Unsealed, Request
  <1>3. /\ c \in [key : Servers, plain : Users]
        /\ c.plain = req[p].user
    BY <1>2, TypedRows DEF IInv, TypeOK, Sealed, Encrypt, None
  <1> HIDE DEF c
  <1>4. \A s \in sessions :
           /\ store(s).id = s.id /\ store(s).user_id = s.user_id
           /\ store(s) \in SessionRow
           /\ store(s) = s \/ (store(s).encrypted_dek = c /\ s.user_id = req[p].user)
    BY <1>2, <1>3 DEF IInv, TypeOK, SessionRow
  <1> HIDE DEF store
  <1>5. TypeOK'
    BY <1>1, <1>4, DoneEnds DEF IInv, TypeOK
  <1>6. UserIds' = UserIds /\ \A u : HasKeyRow(u)' <=> HasKeyRow(u)
    BY <1>1 DEF UserIds, HasKeyRow
  <1>7. TableKeys' /\ KeyRowsMatch'
    BY <1>1, <1>4, <1>6 DEF IInv, TableKeys, KeyRowsMatch
  <1>8. HoldersMatch'
    BY <1>1, <1>2, <1>3, <1>4, <1>6 DEF IInv, HoldersMatch, TableKeys
  <1>9. \A t \in sessions' : \E s \in sessions : s.id = t.id /\ s.user_id = t.user_id
    BY <1>1, <1>4
  <1> QED BY <1>1, <1>5, <1>6, <1>7, <1>8, <1>9, DoneEnds, TypedRows, WriteStep

\* The UPDATE of a rotation or restoration wraps the DEK it read, and that is
\* still the one of the row: overlapping ones overwrite each other whole.
LEMMA RewrapStep ==
    ASSUME IInv, NEW p \in Requests, RotateUpdate(p) \/ RestoreUpdate(p)
    PROVE  IInv'
  <1> DEFINE e == Encrypt(DeriveMasterKey(req[p].new, req[p].salt), req[p].dek)
             wrap(k) == IF k.user_id = req[p].user
                        THEN [k EXCEPT !.salt = req[p].salt, !.encrypted_dek = e]
                        ELSE k
  <1>1. /\ keys' = {wrap(k) : k \in keys} /\ Done(p)
        /\ UNCHANGED <<users, sessions, records, passkeys, drawn, server, held>>
        /\ req[p].pc \in {"rotate_update", "restore_update"}
    BY DEF RotateUpdate, RestoreUpdate, Rewrap, At
  <1>2. /\ req[p].user \in Users /\ req[p].dek = req[p].user
        /\ req[p].salt \in Salts /\ req[p].new \in Passwords
    BY <1>1, TypedRows DEF IInv, LocalsMatch, LocalMatch, Unsealed, Request
  <1>3. e \in EncryptedDek /\ e.plain = req[p].user /\ e.key.salt = req[p].salt
    BY <1>2 DEF EncryptedDek, Encrypt, DeriveMasterKey
  <1> HIDE DEF e
  <1>4. \A k \in keys :
           /\ wrap(k) \in KeyRows
           /\ wrap(k).user_id = k.user_id
           /\ wrap(k).recovery_encrypted_dek = k.recovery_encrypted_dek
           /\ \/ wrap(k) = k
              \/ /\ wrap(k).encrypted_dek = e /\ wrap(k).salt = req[p].salt
                 /\ k.user_id = req[p].user
    <2> SUFFICES ASSUME NEW k \in keys
                 PROVE  /\ wrap(k) \in KeyRows
                        /\ wrap(k).user_id = k.user_id
                        /\ wrap(k).recovery_encrypted_dek = k.recovery_encrypted_dek
                        /\ \/ wrap(k) = k
                           \/ /\ wrap(k).encrypted_dek = e /\ wrap(k).salt = req[p].salt
                              /\ k.user_id = req[p].user
      OBVIOUS
    <2>1. k \in KeyRows
      BY DEF IInv, TypeOK
    <2>2. CASE k.user_id = req[p].user
      <3>1. wrap(k) = [k EXCEPT !.salt = req[p].salt, !.encrypted_dek = e]
        BY <2>2
      <3> QED BY <1>2, <1>3, <2>1, <2>2, <3>1 DEF KeyRows
    <2> QED BY <2>1, <2>2
  <1> HIDE DEF wrap
  <1>5. TypeOK'
    BY <1>1, <1>4, DoneEnds DEF IInv, TypeOK
  <1>6. UserIds' = UserIds /\ \A u : HasKeyRow(u)' <=> HasKeyRow(u)
    BY <1>1, <1>4 DEF UserIds, HasKeyRow
  <1>7. TableKeys'
    BY <1>1, <1>4, <1>6 DEF IInv, TableKeys
  <1>8. KeyRowsMatch'
    BY <1>1, <1>3, <1>4 DEF IInv, KeyRowsMatch
  <1>9. HoldersMatch'
    BY <1>1, <1>6 DEF IInv, HoldersMatch
  <1> QED BY <1>1, <1>5, <1>6, <1>7, <1>8, <1>9, DoneEnds, TypedRows, WriteStep

\* The rows of the sessions table change or go, under ids and users they had.
LEMMA SessionsStep ==
    ASSUME IInv, TypeOK', UNCHANGED <<users, keys, records, drawn>>,
           \A q \in Requests : req'[q] = req[q] \/ req'[q] = Idle,
           \A s, t \in sessions' : s.id = t.id => s = t,
           \A t \in sessions' :
              \E s \in sessions : /\ s.id = t.id /\ s.user_id = t.user_id
                                  /\ s.encrypted_dek = t.encrypted_dek
    PROVE  IInv'
  <1>1. UserIds' = UserIds /\ \A u : HasKeyRow(u)' <=> HasKeyRow(u)
    BY DEF UserIds, HasKeyRow
  <1>2. (TableKeys /\ KeyRowsMatch)'
    BY <1>1 DEF IInv, TableKeys, KeyRowsMatch
  <1>3. HoldersMatch'
    BY <1>1 DEF IInv, HoldersMatch
  <1> QED BY <1>1, <1>2, <1>3, TypedRows, WriteStep

\* Logout takes one session away.
LEMMA DeleteSessionStep ==
    ASSUME IInv, NEW p \in Requests, DeleteSession(p)
    PROVE  IInv'
  <1>1. /\ sessions' \subseteq sessions /\ Done(p)
        /\ UNCHANGED <<users, keys, records, passkeys, drawn, server, held>>
    BY DEF DeleteSession
  <1>2. TypeOK'
    BY <1>1, DoneEnds DEF IInv, TypeOK
  <1>3. \A s, t \in sessions' : s.id = t.id => s = t
    BY <1>1 DEF IInv, TableKeys
  <1> QED BY <1>1, <1>2, <1>3, DoneEnds, SessionsStep

\* An expired session keeps its number, user and ciphertext.
LEMMA ExpireStep ==
    ASSUME IInv, NEW s \in sessions, Expire(s)
    PROVE  IInv'
  <1> DEFINE e == [s EXCEPT !.live = FALSE]
  <1>1. /\ sessions' = (sessions \ {s}) \cup {e}
        /\ UNCHANGED <<users, keys, records, passkeys, req, drawn, server, held>>
    BY DEF Expire
  <1>2. /\ e \in SessionRow /\ e.id = s.id /\ e.user_id = s.user_id
        /\ e.encrypted_dek = s.encrypted_dek
    BY DEF IInv, TypeOK, SessionRow
  <1> HIDE DEF e
  <1>3. TypeOK'
    BY <1>1, <1>2 DEF IInv, TypeOK
  <1>4. \A t, u \in sessions' : t.id = u.id => t = u
    BY <1>1, <1>2 DEF IInv, TableKeys
  <1> QED BY <1>1, <1>2, <1>3, <1>4, SessionsStep

\* A new passkey touches no key.
LEMMA PasskeyInsertStep ==
    ASSUME IInv, NEW p \in Requests, PasskeyInsert(p)
    PROVE  IInv'
  <1>1. /\ passkeys' = passkeys \cup ({req[p].user} \cap UserIds) /\ Done(p)
        /\ UNCHANGED <<users, keys, sessions, records, drawn, server, held>>
    BY DEF PasskeyInsert
  <1>2. UserIds \subseteq Users
    BY TypedRows DEF UserIds
  <1>3. TypeOK'
    BY <1>1, <1>2, DoneEnds DEF IInv, TypeOK
  <1>4. \A s, t \in sessions' : s.id = t.id => s = t
    BY <1>1 DEF IInv, TableKeys
  <1> QED BY <1>1, <1>3, <1>4, DoneEnds, SessionsStep

\* A restart empties the handler slots and leaves the tables alone.
LEMMA RestartStep ==
    ASSUME IInv, Restart
    PROVE  IInv'
  <1>1. /\ req' = [p \in Requests |-> Idle]
        /\ drawn.restart < MaxRestarts
        /\ drawn' = [drawn EXCEPT !.restart = @ + 1]
        /\ server' \in {server, drawn'.restart + 1}
        /\ UNCHANGED <<tables, held>>
    BY DEF Restart
  <1>2. /\ drawn' \in Draws /\ drawn'.restart = drawn.restart + 1
        /\ drawn.restart \in Nat
        /\ drawn'.user = drawn.user /\ drawn'.session = drawn.session
    BY <1>1, TypedRows, KeyVaultAssumption DEF Draws
  <1>3. server' \in Servers
    BY <1>1, <1>2, KeyVaultAssumption DEF IInv, TypeOK, Servers
  <1>4. TypeOK'
    BY <1>1, <1>2, <1>3, IdleIsRequest DEF IInv, TypeOK, tables, Draws
  <1>5. UserIds' = UserIds /\ \A u : HasKeyRow(u)' <=> HasKeyRow(u)
    BY <1>1 DEF UserIds, HasKeyRow, tables
  <1>6. (TableKeys /\ KeyRowsMatch /\ HoldersMatch)'
    BY <1>1, <1>5 DEF IInv, TableKeys, KeyRowsMatch, HoldersMatch, tables
  <1>7. \A t \in sessions' : \E s \in sessions : s.id = t.id /\ s.user_id = t.user_id
    BY <1>1 DEF tables
  <1> QED BY <1>1, <1>2, <1>4, <1>5, <1>6, <1>7, TypedRows, WriteStep

\* A record is stored under the DEK its handler took, which is its user's.
LEMMA StoreInsertStep ==
    ASSUME IInv, NEW p \in Requests, StoreInsert(p)
    PROVE  IInv'
  <1> DEFINE row == [user_id |-> req[p].user, amount |-> Encrypt(req[p].dek, "yen")]
  <1>1. /\ records' \subseteq records \cup {row}
        /\ records' = records \/ req[p].user \in UserIds
        /\ Done(p) /\ At(p, "store")
        /\ UNCHANGED <<users, keys, sessions, passkeys, drawn, server, held>>
    BY DEF StoreInsert
  <1>2. /\ req[p].user \in Users /\ req[p].dek = req[p].user
        /\ req[p].user \in UserIds => HasKeyRow(req[p].user)
    BY <1>1, TypedRows DEF At, IInv, LocalsMatch, LocalMatch, Unsealed, Request
  <1>3. row \in RecordRow /\ row.user_id = req[p].user /\ row.amount.key = req[p].user
    BY <1>2 DEF RecordRow, Encrypt
  <1> HIDE DEF row
  <1>4. TypeOK'
    BY <1>1, <1>3, DoneEnds DEF IInv, TypeOK
  <1>5. UserIds' = UserIds /\ \A u : HasKeyRow(u)' <=> HasKeyRow(u)
    BY <1>1 DEF UserIds, HasKeyRow
  <1>6. (TableKeys /\ KeyRowsMatch)'
    BY <1>1, <1>5 DEF IInv, TableKeys, KeyRowsMatch
  <1>7. HoldersMatch'
    BY <1>1, <1>2, <1>3, <1>5 DEF IInv, HoldersMatch
  <1>8. \A t \in sessions' : \E s \in sessions : s.id = t.id /\ s.user_id = t.user_id
    BY <1>1
  <1> QED BY <1>1, <1>4, <1>5, <1>6, <1>7, <1>8, DoneEnds, TypedRows, WriteStep

\* Deleting a user takes all rows that refer to it, and handlers still running
\* for it lose nothing they were promised.
LEMMA DeleteUserStep ==
    ASSUME IInv, NEW p \in Requests, DeleteUser(p)
    PROVE  IInv'
  <1> DEFINE x == req[p].target
  <1>1. /\ users' = {u \in users : u.id # x}
        /\ keys' = {k \in keys : k.user_id # x}
        /\ sessions' = {s \in sessions : s.user_id # x}
        /\ records' = {r \in records : r.user_id # x}
        /\ passkeys' = passkeys \ {x}
        /\ Done(p) /\ UNCHANGED <<drawn, server, held>>
    BY DEF DeleteUser
  <1> HIDE DEF x
  <1>2. TypeOK'
    BY <1>1, DoneEnds DEF IInv, TypeOK
  <1>3. /\ \A u : u \in UserIds' <=> u \in UserIds /\ u # x
        /\ \A u : HasKeyRow(u)' <=> HasKeyRow(u) /\ u # x
    BY <1>1 DEF UserIds, HasKeyRow
  <1>4. TableKeys'
    BY <1>1, <1>3 DEF IInv, TableKeys
  <1>5. KeyRowsMatch'
    BY <1>1 DEF IInv, KeyRowsMatch
  <1>6. HoldersMatch'
    BY <1>1, <1>3 DEF IInv, HoldersMatch
  <1>7. \A t \in sessions' : \E s \in sessions : s.id = t.id /\ s.user_id = t.user_id
    BY <1>1
  <1> QED BY <1>1, <1>2, <1>3, <1>4, <1>5, <1>6, <1>7, DoneEnds, TypedRows, WriteStep

-----------------------------------------------------------------------------
(* New sessions                                                            *)

\* A session row is inserted under a fresh number, with no DEK or its user's.
LEMMA InsertSessionStep ==
    ASSUME IInv, NEW user \in Users \cup {None}, NEW dek, InsertSession(user, dek),
           dek = None \/ (dek = user /\ HasKeyRow(user)),
           UNCHANGED <<users, keys, records, passkeys, server, held>>,
           req' \in [Requests -> Request],
           \A q \in Requests :
              \/ req'[q] = req[q]
              \/ req'[q] = Idle
              \/ /\ req[q].pc = "register_session"
                 /\ req'[q] = [req[q] EXCEPT !.pc = "register_respond"]
    PROVE  IInv'
  <1> DEFINE n == [id |-> drawn'.session, user_id |-> user,
                   encrypted_dek |-> Sealed(dek), live |-> TRUE]
  <1>1. /\ drawn' = [drawn EXCEPT !.session = @ + 1]
        /\ sessions' = sessions \cup {n}
        /\ user \in UserIds /\ drawn.session < MaxSessions
    BY DEF InsertSession
  <1>2. /\ drawn' \in Draws /\ drawn'.session = drawn.session + 1
        /\ drawn.session \in Nat
        /\ drawn'.session \in 1..MaxSessions
        /\ drawn'.user = drawn.user
    BY <1>1, TypedRows, KeyVaultAssumption DEF Draws
  <1>3. user \in Users /\ user # None
    BY <1>1, TypedRows DEF UserIds
  <1>4. /\ Sealed(dek) \in [key : Servers, plain : Users] \cup {NoCipher}
        /\ Sealed(dek) # NoCipher => Sealed(dek).plain = user /\ HasKeyRow(user)
    BY <1>3 DEF Sealed, Encrypt, NoCipher, None, IInv, TypeOK
  <1>5. /\ n \in SessionRow /\ n.id = drawn'.session /\ n.user_id = user
        /\ n.encrypted_dek # NoCipher => n.encrypted_dek.plain = user /\ HasKeyRow(user)
    BY <1>2, <1>3, <1>4 DEF SessionRow
  <1> HIDE DEF n
  <1>6. TypeOK'
    BY <1>1, <1>2, <1>5 DEF IInv, TypeOK, Draws
  <1>7. UserIds' = UserIds /\ \A u : HasKeyRow(u)' <=> HasKeyRow(u)
    BY DEF UserIds, HasKeyRow
  <1>8. \A s \in sessions : s.id < n.id
    BY <1>2, <1>5, TypedRows
  <1>9. \A s, t \in sessions' : s.id = t.id => s = t
    BY <1>1, <1>8, TypedRows DEF IInv, TableKeys
  <1>10. TableKeys' /\ KeyRowsMatch'
    BY <1>1, <1>5, <1>7, <1>9 DEF IInv, TableKeys, KeyRowsMatch
  <1>11. HoldersMatch'
    BY <1>1, <1>5, <1>7 DEF IInv, HoldersMatch
  <1>12. \A t \in sessions' :
            \/ drawn.session < t.id /\ t.id <= drawn'.session
            \/ \E s \in sessions : s.id = t.id /\ s.user_id = t.user_id
    BY <1>1, <1>2, <1>5
  <1>13. drawn'.user >= drawn.user /\ drawn'.session >= drawn.session
    BY <1>2, TypedRows
  <1> QED BY <1>6, <1>7, <1>10, <1>11, <1>12, <1>13, WriteStep

\* create_session, at the end of register and of login.
LEMMA CreateSessionStep ==
    ASSUME IInv, NEW p \in Requests, CreateSession(p)
    PROVE  IInv'
  <1>1. UNCHANGED <<users, keys, records, passkeys, server, held>>
    BY DEF CreateSession
  <1>2. CASE Done(p) /\ UNCHANGED <<sessions, drawn>>
    BY <1>1, <1>2, DoneStep DEF tables
  <1>3. CASE InsertSession(req[p].user, req[p].dek)
    <2>1. req[p].user \in Users \cup {None}
      BY TypedRows DEF Request
    <2>2. req[p].dek = req[p].user /\ HasKeyRow(req[p].user)
      BY <1>3 DEF CreateSession, InsertSession, IInv, LocalsMatch, LocalMatch, Unsealed
    <2>3. CASE Done(p)
      BY <1>1, <1>3, <2>1, <2>2, <2>3, DoneEnds, InsertSessionStep
    <2>4. CASE At(p, "register_session") /\ Goto(p, "register_respond")
      <3> DEFINE r == [req[p] EXCEPT !.pc = "register_respond"]
      <3>1. r \in Request
        BY TypedRows DEF Request, Labels
      <3>2. /\ req' \in [Requests -> Request]
            /\ req'[p] = r /\ \A q \in Requests : q # p => req'[q] = req[q]
        BY <2>4, <3>1, SetLocals DEF Goto, IInv, TypeOK
      <3> QED BY <1>1, <1>3, <2>1, <2>2, <2>4, <3>2, InsertSessionStep DEF At
    <2> QED BY <1>2, <1>3, <2>3, <2>4 DEF CreateSession, InsertSession
  <1> QED BY <1>2, <1>3 DEF CreateSession

\* A passkey login inserts a session without a DEK.
LEMMA WebauthnLoginFinishStep ==
    ASSUME IInv, NEW u \in UserIds, WebauthnLoginFinish(u)
    PROVE  IInv'
  <1>1. u \in Users
    BY TypedRows DEF UserIds
  <1>2. req' = req /\ req \in [Requests -> Request]
    BY DEF WebauthnLoginFinish, IInv, TypeOK
  <1> QED BY <1>1, <1>2, InsertSessionStep DEF WebauthnLoginFinish

\* So does the placeholder row of webauthn_register_start.
LEMMA WebauthnRegisterInsertStep ==
    ASSUME IInv, NEW p \in Requests, WebauthnRegisterInsert(p)
    PROVE  IInv'
  <1>1. Done(p) /\ UNCHANGED <<users, keys, records, passkeys, server, held>>
    BY DEF WebauthnRegisterInsert
  <1>2. CASE UNCHANGED <<sessions, drawn>>
    BY <1>1, <1>2, DoneStep DEF tables
  <1>3. CASE InsertSession(req[p].user, None)
    <2>1. req[p].user \in Users \cup {None}
      BY TypedRows DEF Request
    <2> QED BY <1>1, <1>3, <2>1, DoneEnds, InsertSessionStep
  <1> QED BY <1>2, <1>3 DEF WebauthnRegisterInsert

-----------------------------------------------------------------------------
(* The two INSERTs of a registration                                       *)

\* The first INSERT of a registration adds the user it owns, without a key row.
LEMMA RegisterInsertUserStep ==
    ASSUME IInv, NEW p \in Requests, RegisterInsertUser(p)
    PROVE  IInv'
  <1>1. CASE Done(p) /\ UNCHANGED users
    BY <1>1, DoneStep DEF RegisterInsertUser, tables
  <1>2. ASSUME users' = users \cup {[id |-> req[p].user, email |-> req[p].email,
                                     role |-> "owner"]},
               Goto(p, "register_key")
        PROVE  IInv'
    <2> DEFINE n == [id |-> req[p].user, email |-> req[p].email, role |-> "owner"]
               r == [req[p] EXCEPT !.pc = "register_key"]
    <2>1. /\ req[p].pc = "register_user"
          /\ UNCHANGED <<keys, sessions, records, passkeys, drawn, server, held>>
      BY DEF RegisterInsertUser, At
    <2>2. /\ req[p].user \in Users /\ req[p].email \in Emails
          /\ ~HasKeyRow(req[p].user)
      BY <2>1, TypedRows DEF IInv, RegistrationsOwn, Unwritten, Request
    <2>3. /\ n \in UserRow /\ n.id = req[p].user
      BY <2>2 DEF UserRow
    <2>4. /\ r \in Request /\ r.pc = "register_key"
          /\ r.user = req[p].user /\ r.sid = req[p].sid /\ r.email = req[p].email
          /\ r.dek = req[p].dek /\ r.rk = req[p].rk /\ r.salt = req[p].salt
          /\ r.new = req[p].new
      BY TypedRows DEF Request, Labels
    <2>5. /\ req' \in [Requests -> Request]
          /\ req'[p] = r /\ \A q \in Requests : q # p => req'[q] = req[q]
      BY <1>2, <2>4, SetLocals DEF Goto, IInv, TypeOK
    <2> HIDE DEF r, n
    <2>6. users' = users \cup {n}
      BY <1>2 DEF n
    <2>7. /\ \A u : u \in UserIds' <=> u \in UserIds \/ u = req[p].user
          /\ \A u : HasKeyRow(u)' <=> HasKeyRow(u)
      BY <2>1, <2>3, <2>6 DEF UserIds, HasKeyRow
    <2>8. TypeOK'
      BY <2>1, <2>3, <2>5, <2>6 DEF IInv, TypeOK
    <2>9. DrawnBefore'
      BY <2>1, <2>3, <2>4, <2>5, <2>6, TypedRows DEF IInv, DrawnBefore
    <2>10. (TableKeys /\ KeyRowsMatch)'
      BY <2>1, <2>7 DEF IInv, TableKeys, KeyRowsMatch
    <2>11. HoldersMatch'
      BY <2>1, <2>7 DEF IInv, HoldersMatch
    <2>12. LocalsMatch'
      <3> SUFFICES ASSUME NEW q \in Requests PROVE LocalMatch(req[q])'
        BY DEF LocalsMatch
      <3>1. CASE q = p
        BY <2>4, <2>5, <3>1 DEF LocalMatch, Unsealed
      <3>2. CASE q # p
        <4>1. LocalMatch(req[q]) /\ req'[q] = req[q]
          BY <2>5, <3>2 DEF IInv, LocalsMatch
        <4>2. req[q].pc \in Unsealed => req[q].user # req[p].user
          BY <2>1, <3>2 DEF IInv, RegistrationsOwn, Unwritten
        <4> QED BY <2>1, <2>7, <4>1, <4>2 DEF LocalMatch
      <3> QED BY <3>1, <3>2
    <2>13. RegistrationsOwn'
      BY <2>1, <2>4, <2>5, <2>7 DEF IInv, RegistrationsOwn, Unwritten
    <2> QED BY <2>8, <2>9, <2>10, <2>11, <2>12, <2>13 DEF IInv
  <1> QED BY <1>1, <1>2 DEF RegisterInsertUser

\* The second INSERT gives that user its key row; no other handler unwrapped a
\* DEK for it before.
LEMMA RegisterInsertKeyStep ==
    ASSUME IInv, NEW p \in Requests, RegisterInsertKey(p)
    PROVE  IInv'
  <1> DEFINE n == [user_id |-> req[p].user, salt |-> req[p].salt,
                   encrypted_dek |->
                      Encrypt(DeriveMasterKey(req[p].new, req[p].salt), req[p].dek),
                   recovery_encrypted_dek |-> Encrypt(req[p].rk, req[p].dek)]
  <1>1. CASE Done(p) /\ UNCHANGED keys
    BY <1>1, DoneStep DEF RegisterInsertKey, tables
  <1>2. ASSUME keys' = keys \cup {n}, req[p].user \in UserIds,
               Goto(p, "register_session")
        PROVE  IInv'
    <2> DEFINE r == [req[p] EXCEPT !.pc = "register_session"]
    <2>1. /\ req[p].pc = "register_key"
          /\ UNCHANGED <<users, sessions, records, passkeys, drawn, server, held>>
      BY DEF RegisterInsertKey, At
    <2>2. /\ req[p].user \in Users /\ req[p].salt \in Salts /\ req[p].new \in Passwords
          /\ req[p].dek = req[p].user /\ req[p].rk = req[p].user
          /\ ~HasKeyRow(req[p].user)
      BY <2>1, TypedRows DEF IInv, RegistrationsOwn, Unwritten, Request
    <2>3. /\ n \in KeyRows /\ n.user_id = req[p].user
          /\ n.encrypted_dek.key.salt = n.salt /\ n.encrypted_dek.plain = n.user_id
          /\ n.recovery_encrypted_dek = Encrypt(n.user_id, n.user_id)
      BY <2>2 DEF KeyRows, EncryptedDek, Encrypt, DeriveMasterKey
    <2>4. /\ r \in Request /\ r.pc = "register_session"
          /\ r.user = req[p].user /\ r.sid = req[p].sid
          /\ r.dek = req[p].dek /\ r.rk = req[p].rk
      BY TypedRows DEF Request, Labels
    <2>5. /\ req' \in [Requests -> Request]
          /\ req'[p] = r /\ \A q \in Requests : q # p => req'[q] = req[q]
      BY <1>2, <2>4, SetLocals DEF Goto, IInv, TypeOK
    <2> HIDE DEF r, n
    <2>7. /\ UserIds' = UserIds
          /\ \A u : HasKeyRow(u)' <=> HasKeyRow(u) \/ u = req[p].user
      BY <1>2, <2>1, <2>3 DEF UserIds, HasKeyRow
    <2>8. TypeOK'
      BY <1>2, <2>1, <2>3, <2>5 DEF IInv, TypeOK
    <2>9. DrawnBefore'
      BY <2>1, <2>4, <2>5, TypedRows DEF IInv, DrawnBefore
    <2>10. TableKeys'
      BY <1>2, <2>1, <2>3, <2>7 DEF IInv, TableKeys
    <2>11. KeyRowsMatch'
      <3>1. \A k \in keys : k.user_id # n.user_id
        BY <2>2, <2>3 DEF HasKeyRow
      <3> QED BY <1>2, <2>3, <3>1 DEF IInv, KeyRowsMatch
    <2>12. HoldersMatch'
      BY <2>1, <2>7 DEF IInv, HoldersMatch
    <2>13. LocalsMatch'
      <3> SUFFICES ASSUME NEW q \in Requests PROVE LocalMatch(req[q])'
        BY DEF LocalsMatch
      <3>1. CASE q = p
        BY <2>2, <2>4, <2>5, <2>7, <3>1, TypedRows DEF LocalMatch, Unsealed, None
      <3>2. CASE q # p
        <4>1. LocalMatch(req[q]) /\ req'[q] = req[q]
          BY <2>5, <3>2 DEF IInv, LocalsMatch
        <4> QED BY <2>1, <2>7, <4>1 DEF LocalMatch
      <3> QED BY <3>1, <3>2
    <2>14. RegistrationsOwn'
      BY <2>1, <2>4, <2>5, <2>7 DEF IInv, RegistrationsOwn, Unwritten, Unsealed
    <2> QED BY <2>8, <2>9, <2>10, <2>11, <2>12, <2>13, <2>14 DEF IInv
  <1> QED BY <1>1, <1>2 DEF RegisterInsertKey

-----------------------------------------------------------------------------
\* Every step of the system keeps the invariant.
LEMMA NextIInv ==
    ASSUME IInv, Next
    PROVE  IInv'
  <1>1. ASSUME NEW p \in Requests, Begin(p)
        PROVE  IInv'
    BY <1>1, RegisterCheckStep, LoginFindUserStep, UnlockBeginStep, RotateBeginStep,
       RestoreBeginStep, SessionBeginStep, StoreBeginStep DEF Begin
  <1>2. ASSUME NEW p \in Requests, Step(p)
        PROVE  IInv'
    BY <1>2, RegisterInsertUserStep, RegisterInsertKeyStep, RegisterRespondStep,
       GetUserDekStep, CreateSessionStep, UnlockStoreStep, UnwrapStep, RewrapStep,
       WebauthnRegisterInsertStep, PasskeyInsertStep, DeleteSessionStep,
       RequireOwnerStep, DeleteUserStep, StoreInsertStep DEF Step
  <1>3. ASSUME NEW p \in Requests, Abort(p)
        PROVE  IInv'
    BY <1>3, DoneStep DEF Abort
  <1> QED BY <1>1, <1>2, <1>3, WebauthnLoginFinishStep, ExpireStep, RestartStep DEF Next

\* So does a step that changes nothing.
LEMMA StutterIInv ==
    ASSUME IInv, UNCHANGED vars
    PROVE  IInv'
  BY DEF IInv, TypeOK, DrawnBefore, TableKeys, KeyRowsMatch, HoldersMatch, LocalsMatch,
         LocalMatch, RegistrationsOwn, HasKeyRow, UserIds, vars, tables

\* The inductive invariant of the key custody holds in every reachable state,
\* for any number of clients, users, sessions and restarts.
THEOREM Inductive == Spec => []IInv
  <1>1. Init => IInv
    BY InitIInv
  <1>2. IInv /\ [Next]_vars => IInv'
    BY NextIInv, StutterIInv
  <1> QED BY <1>1, <1>2, PTL DEF Spec

\* Every row and every handler local keeps its type.
THEOREM TypeCorrect == Spec => []TypeOK
  <1>1. IInv => TypeOK
    BY DEF IInv
  <1> QED BY <1>1, Inductive, PTL

\* No interleaving of registrations, rotations, restorations and deletions
\* leaves a key row that its own salt or its recovery key does not open.
THEOREM VaultsStayConsistent == Spec => []VaultConsistent
  <1>1. IInv => VaultConsistent
    <2> SUFFICES ASSUME IInv, NEW k \in keys
                 PROVE  /\ k.encrypted_dek.key.salt = k.salt
                        /\ k.encrypted_dek.plain = k.recovery_encrypted_dek.plain
                        /\ \A l \in keys :
                              l.user_id = k.user_id
                                 \/ l.encrypted_dek.plain = k.encrypted_dek.plain
                              => l = k
      BY DEF VaultConsistent
    <2>1. \A l \in keys : l.encrypted_dek.plain = l.user_id
      BY KeyRowFacts
    <2> QED BY <2>1, KeyRowFacts DEF IInv, KeyRowsMatch
  <1> QED BY <1>1, Inductive, PTL

\* A session that holds a DEK holds the DEK of its own user's key row.
THEOREM SessionsHoldOwnDek == Spec => []SessionDekIsUsersDek
  <1>1. IInv => SessionDekIsUsersDek
    BY DEF IInv, KeyRowsMatch, HoldersMatch, HasKeyRow, SessionDekIsUsersDek,
           VaultDek, KeyRow, SessionDek
  <1> QED BY <1>1, Inductive, PTL

\* Stored data is always encrypted under the DEK its owner's key row wraps.
THEOREM RecordsStayReadable == Spec => []RecordsReadable
  <1>1. IInv => RecordsReadable
    BY DEF IInv, KeyRowsMatch, HoldersMatch, HasKeyRow, RecordsReadable,
           VaultDek, KeyRow
  <1> QED BY <1>1, Inductive, PTL

(***************************************************************************)
(* The action properties of KeyVault, and the proof that its handlers      *)
(* implement the abstract custody of DekCustody.  All rest on two facts    *)
(* about one step: what may become of a row of sessions (SessionEffects)   *)
(* and of a handler's locals (HandlerEffects).                             *)
(***************************************************************************)

Unlocking == {"unlock_key", "unlock_store"}

\* The three ways for a row to be in sessions after a step: it was there with
\* the same DEK, an unlock sealed its handler's DEK, or it was just inserted.
KeptSession(t) ==
    \E s \in sessions : /\ s.id = t.id /\ s.user_id = t.user_id
                        /\ s.encrypted_dek = t.encrypted_dek
ResealedSession(t) ==
    \E p \in Requests, s \in sessions :
        /\ At(p, "unlock_store") /\ req[p].sid = t.id
        /\ s.id = t.id /\ s.user_id = t.user_id
        /\ t.encrypted_dek = Sealed(req[p].dek) /\ server' = server
NewSession(t) ==
    /\ t.id = drawn.session + 1
    /\ server' = server
    /\ \E dek : t.encrypted_dek = Sealed(dek)

Effects == \A t \in sessions' : KeptSession(t) \/ ResealedSession(t) \/ NewSession(t)

-----------------------------------------------------------------------------
(* One step                                                                *)

\* What is sealed is empty or sealed under the key of the running process.
LEMMA SealedKey ==
    ASSUME NEW dek
    PROVE  Sealed(dek) = NoCipher \/ Sealed(dek).key = server
  BY DEF Sealed, Encrypt

\* An INSERT into sessions adds one row under the next number.
LEMMA InsertEffects ==
    ASSUME IInv, NEW user, NEW dek, InsertSession(user, dek), server' = server
    PROVE  Effects
  <1> DEFINE n == [id |-> drawn'.session, user_id |-> user,
                   encrypted_dek |-> Sealed(dek), live |-> TRUE]
  <1>1. sessions' = sessions \cup {n} /\ drawn' = [drawn EXCEPT !.session = @ + 1]
    BY DEF InsertSession
  <1>2. drawn'.session = drawn.session + 1
    BY <1>1, TypedRows DEF Draws
  <1>3. NewSession(n)
    BY <1>2 DEF NewSession
  <1> QED BY <1>1, <1>3 DEF Effects, KeptSession

\* Rows that stay as they were, or go.
LEMMA KeepEffects ==
    ASSUME sessions' \subseteq sessions
    PROVE  Effects
  BY DEF Effects, KeptSession

\* Only an unlock in flight seals a DEK into a row that is there.
LEMMA UnlockStoreEffects ==
    ASSUME IInv, NEW p \in Requests, UnlockStore(p)
    PROVE  Effects
  <1> DEFINE c == Sealed(req[p].dek)
             store(s) == IF s.id = req[p].sid THEN [s EXCEPT !.encrypted_dek = c] ELSE s
  <1>1. sessions' = {store(s) : s \in sessions} /\ At(p, "unlock_store") /\ server' = server
    BY DEF UnlockStore
  <1>2. ASSUME NEW s \in sessions
        PROVE  KeptSession(store(s)) \/ ResealedSession(store(s))
    <2>1. CASE s.id = req[p].sid
      <3>1. /\ store(s).id = s.id /\ store(s).user_id = s.user_id
            /\ store(s).encrypted_dek = c
        BY <2>1 DEF IInv, TypeOK, SessionRow
      <3> QED BY <1>1, <2>1, <3>1 DEF ResealedSession
    <2>2. CASE s.id # req[p].sid
      BY <2>2 DEF KeptSession
    <2> QED BY <2>1, <2>2
  <1> HIDE DEF store
  <1> QED BY <1>1, <1>2 DEF Effects

\* An expired row keeps its number, its user and its DEK.
LEMMA ExpireEffects ==
    ASSUME IInv, NEW s \in sessions, Expire(s)
    PROVE  Effects
  <1> DEFINE e == [s EXCEPT !.live = FALSE]
  <1>1. sessions' = (sessions \ {s}) \cup {e}
    BY DEF Expire
  <1>2. e.id = s.id /\ e.user_id = s.user_id /\ e.encrypted_dek = s.encrypted_dek
    BY DEF IInv, TypeOK, SessionRow
  <1>3. KeptSession(e)
    BY <1>2 DEF KeptSession
  <1> HIDE DEF e
  <1> QED BY <1>1, <1>3 DEF Effects, KeptSession

\* What becomes of the sessions, whatever handler runs.
LEMMA SessionEffects ==
    ASSUME IInv, [Next]_vars
    PROVE  Effects
  <1>1. ASSUME NEW p \in Requests, Begin(p) \/ Abort(p)
        PROVE  Effects
    <2>1. UNCHANGED sessions
      BY <1>1 DEF Begin, Abort, RegisterCheck, LoginFindUser, UnlockBegin, RotateBegin,
                  RestoreBegin, WebauthnRegisterBegin, PasskeyBegin, LogoutBegin,
                  DeleteUserBegin, StoreBegin, tables
    <2> QED BY <2>1, KeepEffects
  <1>2. ASSUME NEW p \in Requests, Step(p)
        PROVE  Effects
    <2>1. CASE CreateSession(p)
      <3>1. CASE InsertSession(req[p].user, req[p].dek)
        BY <2>1, <3>1, InsertEffects DEF CreateSession
      <3> QED BY <2>1, <3>1, KeepEffects DEF CreateSession
    <2>2. CASE WebauthnRegisterInsert(p)
      <3>1. CASE InsertSession(req[p].user, None)
        BY <2>2, <3>1, InsertEffects DEF WebauthnRegisterInsert
      <3> QED BY <2>2, <3>1, KeepEffects DEF WebauthnRegisterInsert
    <2>3. CASE UnlockStore(p)
      BY <2>3, UnlockStoreEffects
    <2>4. CASE DeleteSession(p) \/ DeleteUser(p)
      <3>1. sessions' \subseteq sessions
        BY <2>4 DEF DeleteSession, DeleteUser
      <3> QED BY <3>1, KeepEffects
    <2>5. CASE \/ RegisterInsertUser(p) \/ RegisterInsertKey(p) \/ RegisterRespond(p)
               \/ GetUserDek(p) \/ RotateUnwrap(p) \/ RotateUpdate(p)
               \/ RestoreUnwrap(p) \/ RestoreUpdate(p)
               \/ PasskeyInsert(p) \/ RequireOwner(p) \/ StoreInsert(p)
      <3>1. UNCHANGED sessions
        BY <2>5 DEF RegisterInsertUser, RegisterInsertKey, RegisterRespond, GetUserDek,
                    RotateUnwrap, RotateUpdate, RestoreUnwrap, RestoreUpdate, Rewrap,
                    PasskeyInsert, RequireOwner, StoreInsert, tables
      <3> QED BY <3>1, KeepEffects
    <2> QED BY <1>2, <2>1, <2>2, <2>3, <2>4, <2>5 DEF Step
  <1>3. ASSUME NEW u \in UserIds, WebauthnLoginFinish(u)
        PROVE  Effects
    BY <1>3, InsertEffects DEF WebauthnLoginFinish
  <1>4. ASSUME NEW s \in sessions, Expire(s)
        PROVE  Effects
    BY <1>4, ExpireEffects
  <1>5. CASE Restart \/ UNCHANGED vars
    BY <1>5, KeepEffects DEF Restart, tables, vars
  <1> QED BY <1>1, <1>2, <1>3, <1>4, <1>5 DEF Next

\* A handler that is at an unlock, or behind the owner check, after a step was
\* at an unlock of the same session before, has just validated the session it
\* unlocks, or has just passed the check.
HandlerEffects ==
    \A q \in Requests :
        \/ req'[q] = req[q]
        \/ req'[q].pc \notin Unlocking \cup {"delete_user"}
        \/ /\ req'[q].pc \in Unlocking /\ req'[q].sid = req[q].sid
           /\ req[q].pc \in Unlocking
        \/ /\ req'[q].pc = "unlock_key"
           /\ UNCHANGED <<sessions, server>>
           /\ \E s \in sessions : ValidSession(s) /\ req'[q].sid = s.id
        \/ /\ req'[q].pc = "delete_user"
           /\ req'[q].target # req'[q].user

\* One handler moves.
LEMMA SetEffects ==
    ASSUME IInv, NEW p \in Requests, NEW r, Set(p, r),
           \/ r.pc \notin Unlocking \cup {"delete_user"}
           \/ r.pc \in Unlocking /\ r.sid = req[p].sid /\ req[p].pc \in Unlocking
           \/ /\ r.pc = "unlock_key" /\ UNCHANGED <<sessions, server>>
              /\ \E s \in sessions : ValidSession(s) /\ r.sid = s.id
           \/ r.pc = "delete_user" /\ r.target # r.user
    PROVE  HandlerEffects
  <1>1. req'[p] = r /\ \A q \in Requests : q # p => req'[q] = req[q]
    BY DEF Set, IInv, TypeOK
  <1> QED BY <1>1 DEF HandlerEffects

\* A handler that ends.
LEMMA DoneEffects ==
    ASSUME IInv, NEW p \in Requests, Done(p)
    PROVE  HandlerEffects
  <1>1. Idle.pc \notin Unlocking \cup {"delete_user"}
    BY DEF Idle, Unlocking
  <1> QED BY <1>1, SetEffects DEF Done

\* A handler that moves on to a label of no interest here.
LEMMA GotoEffects ==
    ASSUME IInv, NEW p \in Requests, NEW pc, Goto(p, pc),
           pc \notin Unlocking \cup {"delete_user"}
    PROVE  HandlerEffects
  <1>1. [req[p] EXCEPT !.pc = pc].pc = pc
    BY TypedRows DEF Request
  <1> QED BY <1>1, SetEffects DEF Goto

\* The first steps of the handlers.
LEMMA BeginEffects ==
    ASSUME IInv, NEW p \in Requests, Begin(p)
    PROVE  HandlerEffects
  <1>1. ASSUME NEW s \in sessions, NEW pw \in Passwords, UnlockBegin(p, s, pw)
        PROVE  HandlerEffects
    <2> DEFINE r == [Idle EXCEPT !.pc = "unlock_key", !.user = s.user_id,
                                 !.sid = s.id, !.pw = pw]
    <2>1. r.pc = "unlock_key" /\ r.sid = s.id
      BY DEF Idle
    <2>2. Set(p, r) /\ ValidSession(s) /\ UNCHANGED <<sessions, server>>
      BY <1>1 DEF UnlockBegin, tables
    <2> HIDE DEF r
    <2> QED BY <2>1, <2>2, SetEffects
  <1>2. ASSUME NEW r, Set(p, r),
               r.pc \in {"register_user", "login_key", "rotate_key", "restore_key",
                         "placeholder", "passkey", "logout", "delete_owner", "store"}
        PROVE  HandlerEffects
    BY <1>2, SetEffects DEF Unlocking
  <1>3. ASSUME NEW e \in Emails, NEW pw \in Passwords, RegisterCheck(p, e, pw)
        PROVE  HandlerEffects
    <2> DEFINE r == [Idle EXCEPT !.pc = "register_user", !.email = e, !.new = pw,
                                 !.user = drawn'.user, !.dek = drawn'.user,
                                 !.rk = drawn'.user, !.salt = drawn'.salt]
    <2>1. Set(p, r)
      BY <1>3 DEF RegisterCheck
    <2>2. r.pc = "register_user"
      BY DEF Idle
    <2> HIDE DEF r
    <2> QED BY <1>2, <2>1, <2>2
  <1>4. ASSUME NEW e \in Emails, NEW pw \in Passwords, LoginFindUser(p, e, pw)
        PROVE  HandlerEffects
    <2>0. PICK u \in users :
             Set(p, [Idle EXCEPT !.pc = "login_key", !.user = u.id, !.pw = pw])
      BY <1>4 DEF LoginFindUser
    <2> DEFINE r == [Idle EXCEPT !.pc = "login_key", !.user = u.id, !.pw = pw]
    <2>1. Set(p, r)
      BY <1>4, <2>0 DEF LoginFindUser
    <2>2. r.pc = "login_key"
      BY DEF Idle
    <2> HIDE DEF r
    <2> QED BY <1>2, <2>1, <2>2
  <1>5. ASSUME NEW s \in sessions, NEW current \in Passwords,
               NEW new \in Passwords, RotateBegin(p, s, current, new)
        PROVE  HandlerEffects
    <2> DEFINE r == [Idle EXCEPT !.pc = "rotate_key", !.user = s.user_id,
                                 !.pw = current, !.new = new]
    <2>1. Set(p, r)
      BY <1>5 DEF RotateBegin
    <2>2. r.pc = "rotate_key"
      BY DEF Idle
    <2> HIDE DEF r
    <2> QED BY <1>2, <2>1, <2>2
  <1>6. ASSUME NEW s \in sessions, NEW rk \in held,
               NEW new \in Passwords, RestoreBegin(p, s, rk, new)
        PROVE  HandlerEffects
    <2> DEFINE r == [Idle EXCEPT !.pc = "restore_key", !.user = s.user_id,
                                 !.rk = rk, !.new = new]
    <2>1. Set(p, r)
      BY <1>6 DEF RestoreBegin
    <2>2. r.pc = "restore_key"
      BY DEF Idle
    <2> HIDE DEF r
    <2> QED BY <1>2, <2>1, <2>2
  <1>7. ASSUME NEW s \in sessions, WebauthnRegisterBegin(p, s)
        PROVE  HandlerEffects
    <2> DEFINE r == [Idle EXCEPT !.pc = "placeholder", !.user = s.user_id]
    <2>1. Set(p, r)
      BY <1>7 DEF WebauthnRegisterBegin
    <2>2. r.pc = "placeholder"
      BY DEF Idle
    <2> HIDE DEF r
    <2> QED BY <1>2, <2>1, <2>2
  <1>8. ASSUME NEW s \in sessions, PasskeyBegin(p, s)
        PROVE  HandlerEffects
    <2> DEFINE r == [Idle EXCEPT !.pc = "passkey", !.user = s.user_id]
    <2>1. Set(p, r)
      BY <1>8 DEF PasskeyBegin
    <2>2. r.pc = "passkey"
      BY DEF Idle
    <2> HIDE DEF r
    <2> QED BY <1>2, <2>1, <2>2
  <1>9. ASSUME NEW s \in sessions, LogoutBegin(p, s)
        PROVE  HandlerEffects
    <2> DEFINE r == [Idle EXCEPT !.pc = "logout", !.sid = s.id]
    <2>1. Set(p, r)
      BY <1>9 DEF LogoutBegin
    <2>2. r.pc = "logout"
      BY DEF Idle
    <2> HIDE DEF r
    <2> QED BY <1>2, <2>1, <2>2
  <1>10. ASSUME NEW s \in sessions, NEW target \in UserIds, DeleteUserBegin(p, s, target)
        PROVE  HandlerEffects
    <2> DEFINE r == [Idle EXCEPT !.pc = "delete_owner", !.user = s.user_id,
                                 !.target = target]
    <2>1. Set(p, r)
      BY <1>10 DEF DeleteUserBegin
    <2>2. r.pc = "delete_owner"
      BY DEF Idle
    <2> HIDE DEF r
    <2> QED BY <1>2, <2>1, <2>2
  <1>11. ASSUME NEW s \in sessions, StoreBegin(p, s)
        PROVE  HandlerEffects
    <2> DEFINE r == [Idle EXCEPT !.pc = "store", !.user = s.user_id,
                                 !.dek = SessionDek(s)]
    <2>1. Set(p, r)
      BY <1>11 DEF StoreBegin
    <2>2. r.pc = "store"
      BY DEF Idle
    <2> HIDE DEF r
    <2> QED BY <1>2, <2>1, <2>2
  <1> QED BY <1>1, <1>3, <1>4, <1>5, <1>6, <1>7, <1>8, <1>9, <1>10, <1>11 DEF Begin

\* The other steps of the handlers.
LEMMA StepEffects ==
    ASSUME IInv, NEW p \in Requests, Step(p)
    PROVE  HandlerEffects
  <1>1. CASE Done(p)
    BY <1>1, DoneEffects
  <1>2. CASE \/ Goto(p, "register_key") \/ Goto(p, "register_session")
             \/ Goto(p, "register_respond")
    BY <1>2, GotoEffects DEF Unlocking
  <1>3. CASE GetUserDek(p) /\ ~Done(p)
    <2>1. PICK k \in keys :
             Set(p, [req[p] EXCEPT
                 !.pc = IF At(p, "login_key") THEN "login_session" ELSE "unlock_store",
                 !.pw = NoPw, !.dek = k.encrypted_dek.plain])
      BY <1>3 DEF GetUserDek
    <2> DEFINE pc == IF At(p, "login_key") THEN "login_session" ELSE "unlock_store"
               r == [req[p] EXCEPT !.pc = pc, !.pw = NoPw, !.dek = k.encrypted_dek.plain]
    <2>2. /\ pc = "login_session" \/ (pc = "unlock_store" /\ req[p].pc = "unlock_key")
      BY <1>3 DEF GetUserDek, At
    <2>3. Set(p, r)
      BY <2>1
    <2> HIDE DEF pc
    <2>4. r.pc = pc /\ r.sid = req[p].sid
      BY TypedRows DEF Request
    <2> HIDE DEF r
    <2> QED BY <2>2, <2>3, <2>4, SetEffects DEF Unlocking
  <1>4. CASE (RotateUnwrap(p) \/ RestoreUnwrap(p)) /\ ~Done(p)
    <2>0. PICK pc \in {"rotate_update", "restore_update"} : \E dek : Unwrapped(p, pc, dek)
      BY <1>4 DEF RotateUnwrap, RestoreUnwrap
    <2>1. PICK dek : Unwrapped(p, pc, dek)
      BY <2>0
    <2> DEFINE r == [req[p] EXCEPT !.pc = pc, !.pw = NoPw, !.rk = None,
                                   !.dek = dek, !.salt = drawn'.salt]
    <2>2. Set(p, r) /\ r.pc = pc
      BY <2>0, <2>1, TypedRows DEF Unwrapped, Request
    <2> QED BY <2>0, <2>1, <2>2, SetEffects DEF Unlocking
  <1>5. CASE RequireOwner(p) /\ ~Done(p)
    <2> DEFINE r == [req[p] EXCEPT !.pc = "delete_user"]
    <2>1. Set(p, r) /\ req[p].target # req[p].user
      BY <1>5 DEF RequireOwner, Goto
    <2>2. r.pc = "delete_user" /\ r.target = req[p].target /\ r.user = req[p].user
      BY TypedRows DEF Request
    <2> HIDE DEF r
    <2> QED BY <2>1, <2>2, SetEffects
  <1> QED
    BY <1>1, <1>2, <1>3, <1>4, <1>5
       DEF Step, RegisterInsertUser, RegisterInsertKey, RegisterRespond, CreateSession,
           UnlockStore, RotateUpdate, RestoreUpdate, Rewrap, WebauthnRegisterInsert,
           PasskeyInsert, DeleteSession, RequireOwner, DeleteUser, StoreInsert

\* What becomes of the handlers, whatever step is taken.
LEMMA NextEffects ==
    ASSUME IInv, [Next]_vars
    PROVE  HandlerEffects
  <1>1. ASSUME NEW p \in Requests, Abort(p)
        PROVE  HandlerEffects
    BY <1>1, DoneEffects DEF Abort
  <1>2. CASE Restart
    BY <1>2 DEF Restart, HandlerEffects, Idle, Unlocking
  <1>3. CASE UNCHANGED req
    BY <1>3 DEF HandlerEffects
  <1> QED
    BY <1>1, <1>2, <1>3, BeginEffects, StepEffects
       DEF Next, WebauthnLoginFinish, Expire, vars

-----------------------------------------------------------------------------
(* The strengthening                                                       *)

\* A valid session is not stale.
LEMMA ValidIsFresh ==
    ASSUME NEW s \in sessions, ValidSession(s)
    PROVE  ~Stale(s)
  BY DEF ValidSession, Stale, Decrypts

\* The numbers in SealsMatch are integers.
LEMMA SealTypes ==
    ASSUME IInv
    PROVE  /\ server \in Int /\ drawn.restart \in Int
           /\ \A s \in sessions : s.encrypted_dek # NoCipher => s.encrypted_dek.key \in Int
           /\ \A s, t \in sessions : s.id = t.id => s = t
  BY TypedRows DEF IInv, TypeOK, SessionRow, Servers, Draws, TableKeys

\* A restart takes a key nothing is sealed under and drops every unlock.
LEMMA RestartSeals ==
    ASSUME IInv, SealsMatch, Restart
    PROVE  SealsMatch'
  <1>1. /\ drawn'.restart = drawn.restart + 1
        /\ server' \in {server, drawn'.restart + 1}
        /\ UNCHANGED sessions
        /\ \A p \in Requests : req'[p].pc = "idle"
    BY TypedRows DEF Restart, tables, Draws, Idle
  <1> QED BY <1>1, SealTypes DEF SealsMatch

\* Every other step draws no restart and keeps the key of the process.
LEMMA SameServer ==
    ASSUME IInv, [Next]_vars, ~Restart
    PROVE  server' = server /\ drawn'.restart = drawn.restart
  <1>1. drawn \in Draws
    BY TypedRows
  <1>2. ASSUME drawn' = [drawn EXCEPT !.salt = @ + 1] \/ drawn' = [drawn EXCEPT !.session = @ + 1]
               \/ drawn' = [drawn EXCEPT !.user = @ + 1, !.salt = @ + 1]
        PROVE  drawn'.restart = drawn.restart
    BY <1>1, <1>2 DEF Draws
  <1>3. ASSUME NEW p \in Requests, Begin(p) \/ Abort(p)
        PROVE  server' = server /\ drawn'.restart = drawn.restart
    BY <1>2, <1>3
       DEF Begin, Abort, RegisterCheck, LoginFindUser, UnlockBegin, RotateBegin,
           RestoreBegin, WebauthnRegisterBegin, PasskeyBegin, LogoutBegin,
           DeleteUserBegin, StoreBegin
  <1>4. ASSUME NEW p \in Requests, Step(p)
        PROVE  server' = server /\ drawn'.restart = drawn.restart
    BY <1>2, <1>4
       DEF Step, RegisterInsertUser, RegisterInsertKey, RegisterRespond, GetUserDek,
           CreateSession, InsertSession, UnlockStore, RotateUnwrap, RotateUpdate,
           RestoreUnwrap, Unwrapped, RestoreUpdate, Rewrap, WebauthnRegisterInsert,
           PasskeyInsert, DeleteSession, RequireOwner, DeleteUser, StoreInsert
  <1>5. ASSUME \/ \E u \in UserIds : WebauthnLoginFinish(u)
               \/ \E s \in sessions : Expire(s)
        PROVE  server' = server /\ drawn'.restart = drawn.restart
    BY <1>2, <1>5 DEF WebauthnLoginFinish, InsertSession, Expire
  <1> QED BY <1>3, <1>4, <1>5 DEF Next, vars

\* What an unlock seals, it seals under the key of the running process.
LEMMA OtherSeals ==
    ASSUME IInv, SealsMatch, [Next]_vars, ~Restart
    PROVE  SealsMatch'
  <1>1. server' = server /\ drawn'.restart = drawn.restart
    BY SameServer
  <1>2. ASSUME NEW t \in sessions'
        PROVE  \/ \E s \in sessions : s.id = t.id /\ s.encrypted_dek = t.encrypted_dek
               \/ t.encrypted_dek = NoCipher \/ t.encrypted_dek.key = server
    BY SessionEffects, SealedKey DEF Effects, KeptSession, ResealedSession, NewSession
  <1>3. \A t \in sessions' :
           t.encrypted_dek # NoCipher => t.encrypted_dek.key <= drawn'.restart + 1
    BY <1>1, <1>2 DEF SealsMatch
  <1>4. ASSUME NEW q \in Requests, req'[q].pc \in Unlocking,
               NEW t \in sessions', t.id = req'[q].sid, Stale(t)'
        PROVE  FALSE
    <2>1. PICK s \in sessions : s.id = t.id /\ Stale(s)
      BY <1>1, <1>2, <1>4 DEF Stale
    <2>2. ~(req[q].pc \in Unlocking /\ req[q].sid = s.id)
      BY <2>1 DEF SealsMatch, Unlocking
    <2>3. ~ \E v \in sessions : ValidSession(v) /\ v.id = s.id
      BY <2>1, SealTypes, ValidIsFresh
    <2> QED BY <1>4, <2>1, <2>2, <2>3, NextEffects DEF HandlerEffects, Unlocking
  <1> QED BY <1>1, <1>3, <1>4 DEF SealsMatch, Unlocking

\* Whoever deletes a user has passed the check against the own account.
LEMMA DeletesAnotherStep ==
    ASSUME IInv, DeletesAnother, [Next]_vars
    PROVE  DeletesAnother'
  BY NextEffects DEF HandlerEffects, DeletesAnother, At, Unlocking

\* The strengthened invariant.
LEMMA CustodyInductive == Spec => [](IInv /\ SealsMatch /\ DeletesAnother)
  <1>1. Init => SealsMatch /\ DeletesAnother
    BY DEF Init, SealsMatch, DeletesAnother, Idle, At
  <1>2. IInv /\ SealsMatch /\ DeletesAnother /\ [Next]_vars => (SealsMatch /\ DeletesAnother)'
    BY RestartSeals, OtherSeals, DeletesAnotherStep
  <1> QED BY <1>1, <1>2, Inductive, PTL DEF Spec

-----------------------------------------------------------------------------
(* The action properties                                                   *)

\* A session id that was logged out or deleted with its user never comes back:
\* a row of an old number continues a row of that number.
THEOREM LogoutStaysFinal == Spec => LogoutIsFinal
  <1>1. ASSUME IInv, [Next]_vars, NEW t \in sessions', t.id <= drawn.session
        PROVE  \E s \in sessions : s.id = t.id
    BY <1>1, SessionEffects, TypedRows
       DEF Effects, KeptSession, ResealedSession, NewSession
  <1>2. IInv /\ [Next]_vars => [\A t \in sessions' :
           t.id <= drawn.session => \E s \in sessions : s.id = t.id]_vars
    BY <1>1
  <1> QED BY <1>2, Inductive, PTL DEF Spec, LogoutIsFinal

\* A session sealed by an earlier process keeps the DEK nobody can read: the
\* unlocks in flight hold sessions of the running process.
THEOREM StaleStaysRefused == Spec => StaleSessionStaysRefused
  <1>1. ASSUME IInv, SealsMatch, [Next]_vars,
               NEW s \in sessions, NEW t \in sessions', s.id = t.id, Stale(s)
        PROVE  t.encrypted_dek = s.encrypted_dek
    <2>1. CASE KeptSession(t)
      BY <1>1, <2>1, SealTypes DEF KeptSession
    <2>2. ~ResealedSession(t)
      BY <1>1 DEF ResealedSession, SealsMatch, At
    <2>3. ~NewSession(t)
      BY <1>1, TypedRows DEF NewSession
    <2> QED BY <1>1, <2>1, <2>2, <2>3, SessionEffects DEF Effects
  <1>2. IInv /\ SealsMatch /\ [Next]_vars => [\A s \in sessions, t \in sessions' :
           s.id = t.id /\ Stale(s) => t.encrypted_dek = s.encrypted_dek]_vars
    BY <1>1
  <1> QED BY <1>2, CustodyInductive, PTL DEF Spec, StaleSessionStaysRefused

\* The last user goes only by a deletion whose own account went meanwhile.
THEOREM LastUserKept == Spec => LastUserFallsOnlyToStaleDelete
  <1>1. ASSUME IInv, DeletesAnother, [Next]_vars, users # {}, users' = {}
        PROVE  \E p \in Requests : At(p, "delete_user") /\ req[p].user \notin UserIds
    <2>1. PICK p \in Requests : DeleteUser(p)
      <3>1. ASSUME NEW p \in Requests, Begin(p) \/ Abort(p)
            PROVE  FALSE
        BY <1>1, <3>1
           DEF Begin, Abort, RegisterCheck, LoginFindUser, UnlockBegin, RotateBegin,
               RestoreBegin, WebauthnRegisterBegin, PasskeyBegin, LogoutBegin,
               DeleteUserBegin, StoreBegin, tables
      <3>2. ASSUME NEW p \in Requests, Step(p), ~DeleteUser(p)
            PROVE  FALSE
        BY <1>1, <3>2
           DEF Step, RegisterInsertUser, RegisterInsertKey, RegisterRespond, GetUserDek,
               CreateSession, UnlockStore, RotateUnwrap, RotateUpdate, RestoreUnwrap,
               RestoreUpdate, Rewrap, WebauthnRegisterInsert, PasskeyInsert,
               DeleteSession, RequireOwner, StoreInsert, tables
      <3> QED BY <1>1, <3>1, <3>2 DEF Next, WebauthnLoginFinish, Expire, Restart, tables, vars
    <2>2. \A u \in users : u.id = req[p].target
      BY <1>1, <2>1 DEF DeleteUser
    <2>3. req[p].target # req[p].user /\ At(p, "delete_user")
      BY <1>1, <2>1 DEF DeletesAnother, DeleteUser
    <2> QED BY <2>2, <2>3 DEF UserIds
  <1>2. IInv /\ DeletesAnother /\ [Next]_vars => [users # {} /\ users' = {} =>
           \E p \in Requests : At(p, "delete_user") /\ req[p].user \notin UserIds]_vars
    BY <1>1
  <1> QED BY <1>2, CustodyInductive, PTL DEF Spec, LastUserFallsOnlyToStaleDelete

-----------------------------------------------------------------------------
(* Refinement                                                              *)

\* Under IInv a vault and a holder are made of the number of their user alone.
VaultOf(u) == [user |-> u, dek |-> u, recovery |-> u]
HolderOf(s) == [session |-> s.id, user |-> s.user_id, dek |-> s.user_id]
Holds(s) == s.live /\ s.encrypted_dek # NoCipher /\ s.encrypted_dek.key = server

\* Under the invariant, the abstract vaults are those of the rows' users.
LEMMA VaultForm == IInv => AbstractVaults = {VaultOf(k.user_id) : k \in keys}
  <1>1. ASSUME IInv, NEW k \in keys
        PROVE  [user |-> k.user_id, dek |-> k.encrypted_dek.plain,
                recovery |-> k.recovery_encrypted_dek.key] = VaultOf(k.user_id)
    <2>1. /\ k.encrypted_dek.plain = k.user_id
          /\ k.recovery_encrypted_dek = [key |-> k.user_id, plain |-> k.user_id]
      BY <1>1 DEF IInv, KeyRowsMatch, Encrypt
    <2> QED BY <2>1 DEF VaultOf
  <1> QED BY <1>1 DEF AbstractVaults

\* Under the invariant, the abstract holders are the sessions that hold a DEK.
LEMMA HolderForm == IInv => AbstractHolders = {HolderOf(s) : s \in {t \in sessions : Holds(t)}}
  <1> SUFFICES ASSUME IInv
               PROVE  AbstractHolders = {HolderOf(s) : s \in {t \in sessions : Holds(t)}}
    OBVIOUS
  <1>1. ASSUME NEW s \in sessions
        PROVE  ValidSession(s) /\ SessionDek(s) # None <=> Holds(s)
    <2>1. CASE s.encrypted_dek = NoCipher
      BY <2>1 DEF Holds, SessionDek, NoCipher, None
    <2>2. CASE s.encrypted_dek # NoCipher
      <3>1. s.encrypted_dek.plain # None
        BY <2>2, TypedRows DEF IInv, HoldersMatch
      <3> QED BY <2>2, <3>1 DEF ValidSession, Decrypts, SessionDek, Holds
    <2> QED BY <2>1, <2>2
  <1>2. ASSUME NEW s \in sessions, Holds(s)
        PROVE  [session |-> s.id, user |-> s.user_id, dek |-> SessionDek(s)] = HolderOf(s)
    BY <1>2 DEF IInv, HoldersMatch, Holds, HolderOf, SessionDek
  <1> QED BY <1>1, <1>2 DEF AbstractHolders

\* The same after a step.
LEMMA VaultFormNext == IInv' => AbstractVaults' = {VaultOf(k.user_id) : k \in keys'}
  <1>1. (IInv => AbstractVaults = {VaultOf(k.user_id) : k \in keys})'
    BY VaultForm, PTL
  <1> QED BY <1>1 DEF VaultOf

\* The same of the next state.
LEMMA HolderFormNext ==
    IInv' => AbstractHolders' = {HolderOf(s) : s \in {t \in sessions' : Holds(t)'}}
  <1>1. (IInv => AbstractHolders = {HolderOf(s) : s \in {t \in sessions : Holds(t)}})'
    BY HolderForm, PTL
  <1> QED BY <1>1 DEF HolderOf

\* Nothing of the custody changes when keys, sessions and server do not.
LEMMA CustodyStutter ==
    ASSUME UNCHANGED <<keys, sessions, server>>
    PROVE  UNCHANGED Custody!custodyVars
  BY DEF Custody!custodyVars, AbstractVaults, AbstractHolders, ValidSession

\* Neither does it when every key row keeps its user and no holder changes.
LEMMA VaultsUnchanged ==
    ASSUME UNCHANGED keys
    PROVE  UNCHANGED AbstractVaults
  BY DEF AbstractVaults

\* Creating a key row creates a vault for a user who had none.
LEMMA RefineRegister ==
    ASSUME IInv, IInv', NEW p \in Requests, RegisterInsertKey(p)
    PROVE  [Custody!Next]_(Custody!custodyVars)
  <1>1. CASE UNCHANGED keys
    BY <1>1, CustodyStutter DEF RegisterInsertKey
  <1>2. CASE keys' # keys
    <2> DEFINE u == req[p].user
               n == [user_id |-> u, salt |-> req[p].salt,
                     encrypted_dek |->
                        Encrypt(DeriveMasterKey(req[p].new, req[p].salt), req[p].dek),
                     recovery_encrypted_dek |-> Encrypt(req[p].rk, req[p].dek)]
    <2>1. keys' = keys \cup {n} /\ n.user_id = u /\ UNCHANGED <<sessions, server>>
          /\ At(p, "register_key")
      BY <1>2 DEF RegisterInsertKey
    <2>2. u \in Users /\ ~HasKeyRow(u)
      BY <2>1, TypedRows DEF IInv, RegistrationsOwn, Unwritten, At, Request
    <2> HIDE DEF n
    <2>3. AbstractVaults' = AbstractVaults \cup {VaultOf(u)}
      BY <2>1, VaultForm, VaultFormNext
    <2>4. UNCHANGED AbstractHolders
      BY <2>1 DEF AbstractHolders, ValidSession
    <2>5. \A w \in AbstractVaults : w.user # u /\ w.dek # u
      BY <2>2, VaultForm, VaultFormNext DEF VaultOf, HasKeyRow
    <2>6. VaultOf(u) \in Custody!Vault /\ VaultOf(u).user = u /\ VaultOf(u).dek = u
      BY <2>2 DEF VaultOf, Custody!Vault
    <2>7. Custody!Create(VaultOf(u))
      BY <2>3, <2>4, <2>5, <2>6 DEF Custody!Create
    <2> QED BY <2>6, <2>7 DEF Custody!Next
  <1> QED BY <1>1, <1>2

\* Wrapping the same DEK again is invisible.
LEMMA RefineRewrap ==
    ASSUME IInv, IInv', NEW p \in Requests, Rewrap(p)
    PROVE  UNCHANGED Custody!custodyVars
  <1> DEFINE e == Encrypt(DeriveMasterKey(req[p].new, req[p].salt), req[p].dek)
             wrap(k) == IF k.user_id = req[p].user
                        THEN [k EXCEPT !.salt = req[p].salt, !.encrypted_dek = e]
                        ELSE k
  <1>1. keys' = {wrap(k) : k \in keys} /\ UNCHANGED <<sessions, server>>
    BY DEF Rewrap
  <1>2. \A k \in keys : wrap(k).user_id = k.user_id
    BY DEF IInv, TypeOK, KeyRows
  <1> HIDE DEF wrap
  <1>3. AbstractVaults' = AbstractVaults
    <2>1. {VaultOf(k.user_id) : k \in keys'} = {VaultOf(k.user_id) : k \in keys}
      <3>1. \A k \in keys : VaultOf(wrap(k).user_id) = VaultOf(k.user_id)
        BY <1>2
      <3>2. \A v : v \in {VaultOf(k.user_id) : k \in keys'}
                   <=> \E k \in keys : v = VaultOf(wrap(k).user_id)
        BY <1>1
      <3> QED BY <3>1, <3>2
    <2> QED BY <2>1, VaultForm, VaultFormNext
  <1>4. AbstractHolders' = AbstractHolders
    BY <1>1 DEF AbstractHolders, ValidSession
  <1> QED BY <1>3, <1>4 DEF Custody!custodyVars

\* A new session is granted the DEK of its user's vault, or gets none.
LEMMA RefineInsertSession ==
    ASSUME IInv, IInv', NEW user \in Users \cup {None}, NEW dek, InsertSession(user, dek),
           dek = None \/ (dek = user /\ HasKeyRow(user)), UNCHANGED <<keys, server>>
    PROVE  [Custody!Next]_(Custody!custodyVars)
  <1> DEFINE n == [id |-> drawn'.session, user_id |-> user,
                   encrypted_dek |-> Sealed(dek), live |-> TRUE]
  <1>1. sessions' = sessions \cup {n} /\ n.id \in 1..MaxSessions /\ n.user_id = user
        /\ n.live = TRUE /\ n.encrypted_dek = Sealed(dek)
    BY TypedRows, KeyVaultAssumption DEF InsertSession, Draws
  <1> HIDE DEF n
  <1>2. UNCHANGED AbstractVaults
    BY VaultsUnchanged
  <1>3. \A s : Holds(s)' <=> Holds(s)
    BY DEF Holds
  <1>4. CASE dek = None
    <2>1. ~Holds(n)
      BY <1>1, <1>4 DEF Holds, Sealed
    <2>2. AbstractHolders' = AbstractHolders
      BY <1>1, <1>3, <2>1, HolderForm, HolderFormNext
    <2> QED BY <1>2, <2>2 DEF Custody!custodyVars
  <1>5. CASE dek # None
    <2>1. dek = user /\ HasKeyRow(user)
      BY <1>5
    <2>2. Holds(n)
      BY <1>1, <1>5, <2>1 DEF Holds, Sealed, Encrypt, NoCipher
    <2>3. VaultOf(user) \in AbstractVaults
      BY <2>1, VaultForm, VaultFormNext DEF HasKeyRow
    <2>4. AbstractHolders' = AbstractHolders \cup {HolderOf(n)}
      BY <1>1, <1>3, <2>2, HolderForm, HolderFormNext
    <2>5. HolderOf(n) = [session |-> n.id, user |-> VaultOf(user).user, dek |-> VaultOf(user).dek]
      BY <1>1 DEF HolderOf, VaultOf
    <2>6. Custody!Grant(n.id, VaultOf(user))
      BY <1>2, <2>3, <2>4, <2>5 DEF Custody!Grant
    <2> QED BY <1>1, <2>3, <2>6 DEF Custody!Next
  <1> QED BY <1>4, <1>5

\* So is a session that is unlocked, if it is still there and not expired.
LEMMA RefineUnlock ==
    ASSUME IInv, IInv', NEW p \in Requests, UnlockStore(p)
    PROVE  [Custody!Next]_(Custody!custodyVars)
  <1> DEFINE c == Sealed(req[p].dek)
             store(s) == IF s.id = req[p].sid THEN [s EXCEPT !.encrypted_dek = c] ELSE s
  <1>1. /\ sessions' = {store(s) : s \in sessions}
        /\ At(p, "unlock_store") /\ UNCHANGED <<keys, server>>
    BY DEF UnlockStore
  <1>2. /\ req[p].user \in Users /\ req[p].dek = req[p].user
        /\ req[p].user \in UserIds => HasKeyRow(req[p].user)
        /\ \A s \in sessions : s.id = req[p].sid => s.user_id = req[p].user
    BY <1>1, TypedRows DEF At, IInv, LocalsMatch, LocalMatch, Unsealed, Request
  <1>3. c # NoCipher /\ c.key = server
    BY <1>2, TypedRows DEF Sealed, Encrypt, NoCipher, None
  <1> HIDE DEF c
  <1>4. \A s \in sessions :
           /\ store(s).id = s.id /\ store(s).user_id = s.user_id /\ store(s).live = s.live
           /\ s.id = req[p].sid => store(s).encrypted_dek = c
           /\ s.id # req[p].sid => store(s) = s
    BY DEF IInv, TypeOK, SessionRow
  <1> HIDE DEF store
  <1>5. \A s : Holds(s)' <=> Holds(s)
    BY <1>1 DEF Holds
  <1>6. \A s \in sessions : HolderOf(store(s)) = HolderOf(s)
    BY <1>4 DEF HolderOf
  <1>7. UNCHANGED AbstractVaults
    BY <1>1, VaultsUnchanged
  <1>8. CASE \E s \in sessions : s.id = req[p].sid /\ s.live
    <2>1. PICK s \in sessions : s.id = req[p].sid /\ s.live
      BY <1>8
    <2>2. \A t \in sessions : t.id = s.id => t = s
      BY DEF IInv, TableKeys
    <2>3. s.user_id = req[p].user /\ HasKeyRow(s.user_id) /\ s.id \in 1..MaxSessions
      BY <1>2, <2>1 DEF IInv, TypeOK, SessionRow, TableKeys
    <2>4. VaultOf(s.user_id) \in AbstractVaults
      BY <2>3, VaultForm, VaultFormNext DEF HasKeyRow
    <2>5. Holds(store(s)) /\ HolderOf(store(s)) = HolderOf(s)
      BY <1>3, <1>4, <1>6, <2>1 DEF Holds
    <2>6. \A t \in sessions : t # s => store(t) = t
      BY <1>4, <2>1, <2>2
    <2>7. AbstractHolders' = AbstractHolders \cup {HolderOf(s)}
      BY <1>1, <1>5, <2>5, <2>6, HolderForm, HolderFormNext
    <2>8. HolderOf(s) = [session |-> s.id, user |-> VaultOf(s.user_id).user,
                         dek |-> VaultOf(s.user_id).dek]
      BY DEF HolderOf, VaultOf
    <2>9. Custody!Grant(s.id, VaultOf(s.user_id))
      BY <1>7, <2>4, <2>7, <2>8 DEF Custody!Grant
    <2> QED BY <2>3, <2>4, <2>9 DEF Custody!Next
  <1>9. CASE \A s \in sessions : s.id = req[p].sid => ~s.live
    <2>1. \A s \in sessions : Holds(store(s)) <=> Holds(s)
      BY <1>4, <1>9 DEF Holds
    <2>2. AbstractHolders' = AbstractHolders
      BY <1>1, <1>5, <1>6, <2>1, HolderForm, HolderFormNext
    <2> QED BY <1>7, <2>2 DEF Custody!custodyVars
  <1> QED BY <1>8, <1>9

\* Logout and expiry take holders away.
LEMMA RefineRevoke ==
    ASSUME IInv, IInv', UNCHANGED <<keys, server>>,
           \A t \in sessions' : Holds(t) =>
              \E s \in sessions : Holds(s) /\ HolderOf(s) = HolderOf(t)
    PROVE  Custody!Next
  <1>1. \A s : Holds(s)' <=> Holds(s)
    BY DEF Holds
  <1>2. AbstractHolders' \subseteq AbstractHolders
    BY <1>1, HolderForm, HolderFormNext
  <1>3. UNCHANGED AbstractVaults
    BY VaultsUnchanged
  <1> QED BY <1>2, <1>3 DEF Custody!Next, Custody!Revoke

\* A session that expires is a step of the custody.
LEMMA RefineExpire ==
    ASSUME IInv, IInv', NEW s \in sessions, Expire(s)
    PROVE  Custody!Next
  <1> DEFINE e == [s EXCEPT !.live = FALSE]
  <1>1. sessions' = (sessions \ {s}) \cup {e} /\ UNCHANGED <<keys, server>>
    BY DEF Expire
  <1>2. e.live = FALSE
    BY DEF IInv, TypeOK, SessionRow
  <1> HIDE DEF e
  <1>3. ~Holds(e)
    BY <1>2 DEF Holds
  <1> QED BY <1>1, <1>3, RefineRevoke

\* A restart under another key leaves nobody with a DEK.
LEMMA RefineRestart ==
    ASSUME IInv, IInv', SealsMatch, Restart
    PROVE  [Custody!Next]_(Custody!custodyVars)
  <1>1. /\ UNCHANGED <<keys, sessions>>
        /\ server' = server \/ server' = drawn.restart + 2
    <2>1. drawn'.restart = drawn.restart + 1 /\ drawn.restart \in Nat
      BY TypedRows DEF Restart, Draws
    <2> QED BY <2>1 DEF Restart, tables
  <1>2. CASE server' = server
    BY <1>1, <1>2, CustodyStutter
  <1>3. CASE server' = drawn.restart + 2
    <2>1. \A s \in sessions : s.encrypted_dek # NoCipher => s.encrypted_dek.key # drawn.restart + 2
      BY SealTypes DEF SealsMatch
    <2>2. \A s \in sessions : ~Holds(s)'
      BY <1>1, <1>3, <2>1 DEF Holds
    <2>3. AbstractHolders' = {}
      BY <1>1, <2>2, HolderForm, HolderFormNext
    <2>4. UNCHANGED AbstractVaults
      BY <1>1, VaultsUnchanged
    <2> QED BY <2>3, <2>4 DEF Custody!Next, Custody!Revoke
  <1> QED BY <1>1, <1>2, <1>3

\* Deleting a user destroys vault and holders in one step.
LEMMA RefineDeleteUser ==
    ASSUME IInv, IInv', NEW p \in Requests, DeleteUser(p)
    PROVE  [Custody!Next]_(Custody!custodyVars)
  <1> DEFINE x == req[p].target
  <1>1. /\ keys' = {k \in keys : k.user_id # x}
        /\ sessions' = {s \in sessions : s.user_id # x}
        /\ UNCHANGED server
    BY DEF DeleteUser
  <1>2. x \in Users \cup {None}
    BY TypedRows DEF Request
  <1> HIDE DEF x
  <1>3. \A s : Holds(s)' <=> Holds(s)
    BY <1>1 DEF Holds
  <1>4. AbstractVaults' = {v \in AbstractVaults : v.user # x}
    BY <1>1, VaultForm, VaultFormNext DEF VaultOf
  <1>5. AbstractHolders' = {h \in AbstractHolders : h.user # x}
    BY <1>1, <1>3, HolderForm, HolderFormNext DEF HolderOf
  <1>6. CASE x \in Users
    BY <1>4, <1>5, <1>6 DEF Custody!Next, Custody!Destroy
  <1>7. CASE x = None
    <2>1. keys' = keys
      BY <1>1, <1>7, TypedRows DEF IInv, TypeOK, KeyRows, None
    <2>2. sessions' = sessions
      BY <1>1, <1>7, TypedRows
    <2> QED BY <1>1, <2>1, <2>2, CustodyStutter
  <1> QED BY <1>2, <1>6, <1>7

\* Every step of the handlers is a step of the custody, or none.
LEMMA RefineNext ==
    ASSUME IInv, IInv', SealsMatch, [Next]_vars
    PROVE  [Custody!Next]_(Custody!custodyVars)
  <1>1. ASSUME NEW p \in Requests, Begin(p) \/ Abort(p)
        PROVE  [Custody!Next]_(Custody!custodyVars)
    <2>1. UNCHANGED <<keys, sessions, server>>
      BY <1>1 DEF Begin, Abort, RegisterCheck, LoginFindUser, UnlockBegin, RotateBegin,
                  RestoreBegin, WebauthnRegisterBegin, PasskeyBegin, LogoutBegin,
                  DeleteUserBegin, StoreBegin, tables
    <2> QED BY <2>1, CustodyStutter
  <1>2. ASSUME NEW p \in Requests, Step(p)
        PROVE  [Custody!Next]_(Custody!custodyVars)
    <2>1. CASE CreateSession(p)
      <3>1. CASE InsertSession(req[p].user, req[p].dek)
        <4>1. req[p].user \in Users \cup {None}
          BY TypedRows DEF Request
        <4>2. req[p].dek = req[p].user /\ HasKeyRow(req[p].user)
          BY <2>1, <3>1
             DEF CreateSession, InsertSession, IInv, LocalsMatch, LocalMatch, Unsealed
        <4> QED BY <2>1, <3>1, <4>1, <4>2, RefineInsertSession DEF CreateSession
      <3> QED BY <2>1, <3>1, CustodyStutter DEF CreateSession
    <2>2. CASE WebauthnRegisterInsert(p)
      <3>1. req[p].user \in Users \cup {None}
        BY TypedRows DEF Request
      <3> QED BY <2>2, <3>1, RefineInsertSession, CustodyStutter DEF WebauthnRegisterInsert
    <2>3. CASE DeleteSession(p)
      BY <2>3, RefineRevoke DEF DeleteSession
    <2>4. CASE RotateUpdate(p) \/ RestoreUpdate(p)
      BY <2>4, RefineRewrap DEF RotateUpdate, RestoreUpdate
    <2>5. CASE \/ RegisterInsertUser(p) \/ RegisterRespond(p)
               \/ GetUserDek(p) \/ RotateUnwrap(p) \/ RestoreUnwrap(p)
               \/ PasskeyInsert(p) \/ RequireOwner(p) \/ StoreInsert(p)
      <3>1. UNCHANGED <<keys, sessions, server>>
        BY <2>5 DEF RegisterInsertUser, RegisterRespond, GetUserDek, RotateUnwrap,
                    RestoreUnwrap, PasskeyInsert, RequireOwner, StoreInsert, tables
      <3> QED BY <3>1, CustodyStutter
    <2> QED BY <1>2, <2>1, <2>2, <2>3, <2>4, <2>5, RefineRegister, RefineUnlock,
               RefineDeleteUser DEF Step
  <1>3. ASSUME NEW u \in UserIds, WebauthnLoginFinish(u)
        PROVE  [Custody!Next]_(Custody!custodyVars)
    <2>1. u \in Users
      BY TypedRows DEF UserIds
    <2> QED BY <1>3, <2>1, RefineInsertSession DEF WebauthnLoginFinish
  <1>4. ASSUME NEW s \in sessions, Expire(s)
        PROVE  [Custody!Next]_(Custody!custodyVars)
    BY <1>4, RefineExpire
  <1>5. CASE UNCHANGED vars
    BY <1>5, CustodyStutter DEF vars, tables
  <1> QED BY <1>1, <1>2, <1>3, <1>4, <1>5, RefineRestart DEF Next

\* The handlers of the api, interleaved, aborted and restarted as they may be,
\* implement the custody of DEKs that ARCHITECTURE.md describes: one DEK per
\* vault for its whole life, and only sessions of its user ever hold it.
THEOREM CustodyImplemented == Spec => ImplementsCustody
  <1>1. Init => Custody!Init
    BY DEF Init, Custody!Init, AbstractVaults, AbstractHolders
  <1>2. IInv /\ IInv' /\ SealsMatch /\ [Next]_vars => [Custody!Next]_(Custody!custodyVars)
    BY RefineNext
  <1> QED BY <1>1, <1>2, CustodyInductive, PTL DEF Spec, ImplementsCustody, Custody!Spec
==============================================================================
