----------------------------- MODULE AuthProofs -----------------------------
(***************************************************************************)
(* AuthSession for any number of requests, any addresses and limits: its   *)
(* types, how late a lockout can come, and what is final.                  *)
(***************************************************************************)
EXTENDS AuthSession, SequenceTheorems, FoldProofs, TLAPS

-----------------------------------------------------------------------------
(* Types *)

(* A sequence of rows, one of them written or one more appended. *)
LEMMA WrittenRows ==
  ASSUME NEW S, NEW s \in Seq(S), NEW row \in S
  PROVE  /\ DOMAIN s = 1..Len(s) /\ Len(s) \in Nat
         /\ \A i \in DOMAIN s : /\ s[i] \in S
                                /\ [s EXCEPT ![i] = row] \in Seq(S)
                                /\ DOMAIN [s EXCEPT ![i] = row] = DOMAIN s
         /\ Append(s, row) \in Seq(S)
         /\ DOMAIN Append(s, row) = DOMAIN s \cup {Len(s) + 1}
<1>1. DOMAIN s = 1..Len(s) /\ Len(s) \in Nat /\ \A i \in DOMAIN s : s[i] \in S
  BY LenProperties, ElementOfSeq
<1>2. ASSUME NEW i \in DOMAIN s
      PROVE  [s EXCEPT ![i] = row] \in Seq(S)
  BY <1>1, ExceptSeq
<1>3. /\ Append(s, row) \in Seq(S) /\ Len(Append(s, row)) = Len(s) + 1
      /\ DOMAIN Append(s, row) = 1..Len(Append(s, row))
  BY AppendProperties, LenProperties
<1>4. DOMAIN Append(s, row) = DOMAIN s \cup {Len(s) + 1}
  BY <1>1, <1>3
<1> QED BY <1>1, <1>2, <1>3, <1>4

(* Rows stay rows when tokens, secrets or sessions are added. *)
LEMMA RowsGrow ==
  ASSUME tokens \in Nat, tokens' \in Nat, tokens <= tokens',
         secrets \in Nat, secrets' \in Nat, secrets <= secrets',
         DOMAIN sessions \subseteq DOMAIN sessions'
  PROVE  /\ UserEntity \subseteq UserEntity' /\ SessionEntity \subseteq SessionEntity'
         /\ Rows \subseteq Rows' /\ Held \subseteq Held'
<1>1. 1..tokens \subseteq 1..tokens' /\ 1..secrets \subseteq 1..secrets'
  OBVIOUS
<1>2. UserEntity \subseteq UserEntity' /\ SessionEntity \subseteq SessionEntity'
  BY <1>1 DEF UserEntity, SessionEntity
<1>3. Rows \subseteq Rows'
  BY <1>2 DEF Rows
<1>4. Held \subseteq Held'
  BY <1>2, <1>3 DEF Held
<1> QED BY <1>2, <1>3, <1>4

(* The first state has its types. *)
LEMMA InitTypes == Init => TypeOK
<1> SUFFICES ASSUME Init PROVE TypeOK
  OBVIOUS
<1>1. sessions \in Seq(SessionEntity) /\ user \in Rows
  BY EmptySeq DEF Init, Rows
<1>2. attempts \in [Keys -> LoginAttempt]
  BY DEF Init, LoginAttempt
<1>3. request \in [Requests -> Held]
  BY DEF Init, Idle, Held
<1> QED BY <1>1, <1>2, <1>3 DEF Init, TypeOK

(* A request that goes on to a state that is one keeps the types. *)
LEMMA GoesTypes ==
  ASSUME TypeOK, NEW r \in Requests, NEW state \in Held, Goes(r, state)
  PROVE  request' \in [Requests -> Held]
BY DEF TypeOK, Goes

(* Failures are counted, and forgotten. *)
LEMMA AttemptTypes ==
  ASSUME NEW attempt \in LoginAttempt
  PROVE  /\ Recorded(attempt) \in LoginAttempt
         /\ [attempt EXCEPT !.over = TRUE] \in LoginAttempt
         /\ [count |-> 0, over |-> FALSE] \in LoginAttempt
<1>1. [count |-> 0, over |-> FALSE] \in LoginAttempt /\ [count |-> 1, over |-> FALSE] \in LoginAttempt
  BY DEF LoginAttempt
<1>2. attempt \in [count : Nat, over : BOOLEAN] /\ attempt.count + 1 \in Nat
  BY DEF LoginAttempt
<1>3. /\ [attempt EXCEPT !.over = TRUE] \in LoginAttempt
      /\ [attempt EXCEPT !.count = attempt.count + 1] \in LoginAttempt
  BY <1>2 DEF LoginAttempt
<1>4. Recorded(attempt) \in LoginAttempt
  BY <1>1, <1>3 DEF Recorded
<1> QED BY <1>1, <1>3, <1>4

(* What a request holds, by where it is. *)
LEMMA HeldRow ==
  ASSUME TypeOK, NEW r \in Requests
  PROVE  /\ request[r] \in Held
         /\ request[r].at = "comparePassword" =>
              /\ request[r].ip \in Ips /\ request[r].user \in Rows
         /\ request[r].at \in {"checkUser", "saveRefreshed", "saveRevoked"} =>
              /\ request[r].id \in DOMAIN sessions /\ request[r].row \in SessionEntity
              /\ request[r] = [at |-> request[r].at, id |-> request[r].id,
                               row |-> request[r].row]
         /\ request[r].at \in {"checkCode", "saveSecret"} =>
              /\ request[r].row \in UserEntity
BY DEF TypeOK, Held

(* Steps of registration and of the second factor keep the types. *)
LEMMA UserTypes ==
  ASSUME TypeOK, NEW r \in Requests,
         \/ StartRegister(r) \/ SaveUser(r)
         \/ SetupTotp(r) \/ StartVerify(r) \/ CheckCode(r) \/ SaveSecret(r) \/ DropPending(r)
  PROVE  TypeOK'
<1> Idle \in Held
  BY DEF Idle, Held
<1>1. CASE StartRegister(r)
  <2>1. [at |-> "saveUser"] \in Held
    BY DEF Held
  <2>2. request' \in [Requests -> Held]
    BY <1>1, <2>1, GoesTypes DEF StartRegister
  <2> QED BY <1>1, <2>2 DEF StartRegister, TypeOK, memory, history, Rows, Held, UserEntity, SessionEntity
<1>2. CASE SaveUser(r)
  <2>1. request' \in [Requests -> Held]
    BY <1>2, GoesTypes DEF SaveUser, Ends
  <2>2. user' \in Rows
    BY <1>2 DEF SaveUser, TypeOK, Rows, UserEntity
  <2> QED BY <1>2, <2>1, <2>2 DEF SaveUser, TypeOK, memory, history, Rows, Held, UserEntity, SessionEntity
<1>3. CASE SetupTotp(r)
  <2>1. /\ secrets' = secrets + 1 /\ pending' = secrets'
        /\ UNCHANGED <<user, sessions, attempts, request, tokens, history>>
    BY <1>3 DEF SetupTotp
  <2>2. /\ secrets' \in Nat /\ pending' \in 1..secrets' /\ 1..secrets \subseteq 1..secrets'
        /\ UserEntity \subseteq UserEntity' /\ SessionEntity \subseteq SessionEntity'
        /\ Rows \subseteq Rows' /\ Held \subseteq Held'
    BY <2>1, RowsGrow DEF TypeOK
  <2>3. sessions \in Seq(SessionEntity')
    BY <2>2, SeqMonotonic DEF TypeOK
  <2> QED BY <2>1, <2>2, <2>3 DEF TypeOK, history
<1>4. CASE StartVerify(r)
  <2>1. [at |-> "checkCode", row |-> user[1]] \in Held
    BY <1>4 DEF StartVerify, TypeOK, Rows, Held
  <2>2. request' \in [Requests -> Held]
    BY <1>4, <2>1, GoesTypes DEF StartVerify
  <2> QED BY <1>4, <2>2 DEF StartVerify, TypeOK, memory, history, Rows, Held, UserEntity, SessionEntity
<1>5. CASE CheckCode(r)
  <2>1. /\ pending # NoSecret =>
             [at |-> "saveSecret", row |-> [request[r].row EXCEPT !.totp = pending]] \in Held
    BY <1>5, HeldRow DEF CheckCode, TypeOK, UserEntity, Held
  <2>2. request' \in [Requests -> Held]
    BY <1>5, <2>1, GoesTypes DEF CheckCode, Ends
  <2>3. /\ pending' \in (1..secrets) \cup {NoSecret}
        /\ proved' \subseteq 1..secrets
    BY <1>5 DEF CheckCode, TypeOK
  <2> QED BY <1>5, <2>2, <2>3 DEF CheckCode, TypeOK, Rows, Held, UserEntity, SessionEntity
<1>6. CASE SaveSecret(r)
  <2>1. [at |-> "dropPending"] \in Held
    BY DEF Held
  <2>2. request' \in [Requests -> Held]
    BY <1>6, <2>1, GoesTypes DEF SaveSecret
  <2>3. user' \in Rows
    BY <1>6, HeldRow DEF SaveSecret, Rows
  <2> QED BY <1>6, <2>2, <2>3 DEF SaveSecret, TypeOK, memory, history, Rows, Held, UserEntity, SessionEntity
<1>7. CASE DropPending(r)
  <2>1. request' \in [Requests -> Held]
    BY <1>7, GoesTypes DEF DropPending, Ends
  <2> QED BY <1>7, <2>1 DEF DropPending, TypeOK, history, Rows, Held, UserEntity, SessionEntity
<1> QED BY <1>1, <1>2, <1>3, <1>4, <1>5, <1>6, <1>7

(* Steps of a login keep the types. *)
LEMMA LoginTypes ==
  ASSUME TypeOK, NEW r \in Requests,
         \/ StartLogin(r) \/ LoginFails(r) \/ LoginRefused(r) \/ LoginSucceeds(r)
         \/ SaveSession(r)
  PROVE  TypeOK'
<1> Idle \in Held
  BY DEF Idle, Held
<1>1. CASE StartLogin(r)
  <2>1. request' \in [Requests -> Held]
    <3>1. PICK ip \in Ips : Goes(r, [at |-> "comparePassword", ip |-> ip, user |-> user])
      BY <1>1 DEF StartLogin
    <3>2. [at |-> "comparePassword", ip |-> ip, user |-> user] \in Held
      BY DEF Held, TypeOK
    <3> QED BY <3>1, <3>2, GoesTypes
  <2> QED BY <1>1, <2>1 DEF StartLogin, TypeOK, memory, history, Rows, Held, UserEntity, SessionEntity
<1>2. CASE LoginFails(r)
  <2>1. request' \in [Requests -> Held]
    BY <1>2, GoesTypes DEF LoginFails, Ends
  <2>2. attempts' \in [Keys -> LoginAttempt]
    BY <1>2, AttemptTypes DEF LoginFails, RecordFailedLogin, TypeOK
  <2> QED BY <1>2, <2>1, <2>2 DEF LoginFails, TypeOK, history, Rows, Held, UserEntity, SessionEntity
<1>3. CASE LoginRefused(r)
  <2>1. request' \in [Requests -> Held]
    BY <1>3, GoesTypes DEF LoginRefused, Ends
  <2> QED BY <1>3, <2>1 DEF LoginRefused, TypeOK, memory, history, Rows, Held, UserEntity, SessionEntity
<1>4. CASE LoginSucceeds(r)
  <2>1. [at |-> "saveSession"] \in Held
    BY DEF Held
  <2>2. request' \in [Requests -> Held]
    BY <1>4, <2>1, GoesTypes DEF LoginSucceeds
  <2>3. attempts' \in [Keys -> LoginAttempt]
    BY <1>4 DEF LoginSucceeds, TypeOK, LoginAttempt
  <2> QED BY <1>4, <2>2, <2>3 DEF LoginSucceeds, TypeOK, history, Rows, Held, UserEntity, SessionEntity
<1>5. CASE SaveSession(r)
  <2>1. request' \in [Requests -> Held]
    BY <1>5, GoesTypes DEF SaveSession, Ends
  <2>2. /\ tokens' = tokens + 1
        /\ sessions' = Append(sessions, [hash |-> tokens', revoked |-> FALSE])
        /\ UNCHANGED <<user, attempts, pending, secrets, spent, proved>>
    BY <1>5 DEF SaveSession, memory, history
  <2>3. /\ tokens' \in Nat /\ 1..tokens \subseteq 1..tokens' /\ tokens' \in 1..tokens'
        /\ SessionEntity \subseteq SessionEntity'
    <3>1. tokens' \in Nat /\ tokens' \in 1..tokens' /\ 1..tokens \subseteq 1..tokens'
      BY <2>2 DEF TypeOK
    <3> QED BY <3>1 DEF SessionEntity
  <2>4. [hash |-> tokens', revoked |-> FALSE] \in SessionEntity'
    BY <2>3 DEF SessionEntity
  <2>5. sessions \in Seq(SessionEntity')
    BY <2>3, SeqMonotonic DEF TypeOK
  <2>6. /\ sessions' \in Seq(SessionEntity')
        /\ DOMAIN sessions \subseteq DOMAIN sessions'
    BY <2>2, <2>4, <2>5, WrittenRows
  <2>7. Held \subseteq Held' /\ Rows \subseteq Rows'
    BY <2>2, <2>3, <2>6, RowsGrow DEF TypeOK
  <2> QED BY <2>1, <2>2, <2>3, <2>6, <2>7 DEF TypeOK
<1> QED BY <1>1, <1>2, <1>3, <1>4, <1>5

(* A session is written: the types are kept if what is written is a row. *)
LEMMA WriteTypes ==
  ASSUME TypeOK, NEW r \in Requests, NEW id \in DOMAIN sessions, NEW row \in SessionEntity',
         tokens' \in Nat, tokens <= tokens',
         sessions' = [sessions EXCEPT ![id] = row], Ends(r),
         spent' \subseteq 1..tokens',
         UNCHANGED <<user, memory, secrets, proved>>
  PROVE  TypeOK'
<1>1. request' \in [Requests -> Held]
  BY GoesTypes DEF Ends, Idle, Held
<1>2. SessionEntity \subseteq SessionEntity'
  BY DEF SessionEntity, TypeOK
<1>3. sessions \in Seq(SessionEntity')
  BY <1>2, SeqMonotonic DEF TypeOK
<1>4. sessions' \in Seq(SessionEntity') /\ DOMAIN sessions' = DOMAIN sessions
  BY <1>3, WrittenRows
<1>5. Held \subseteq Held' /\ Rows \subseteq Rows'
  BY <1>4, RowsGrow DEF TypeOK
<1> QED BY <1>1, <1>4, <1>5 DEF TypeOK, memory

(* Steps of a refresh and of a logout keep the types. *)
LEMMA SessionTypes ==
  ASSUME TypeOK, NEW r \in Requests,
         \/ StartRefresh(r) \/ CheckUser(r) \/ SaveRefreshed(r)
         \/ StartLogout(r) \/ SaveRevoked(r)
  PROVE  TypeOK'
<1> Idle \in Held
  BY DEF Idle, Held
<1>0. \A s \in DOMAIN sessions : sessions[s] \in SessionEntity
  BY ElementOfSeq, LenProperties DEF TypeOK
<1>1. CASE StartRefresh(r) \/ StartLogout(r)
  <2>1. PICK s \in DOMAIN sessions, at \in {"checkUser", "saveRevoked"} :
          Goes(r, [at |-> at, id |-> s, row |-> sessions[s]])
    BY <1>1 DEF StartRefresh, StartLogout
  <2>2. [at |-> at, id |-> s, row |-> sessions[s]] \in Held
    BY <1>0 DEF Held
  <2>3. request' \in [Requests -> Held]
    BY <2>1, <2>2, GoesTypes
  <2> QED BY <1>1, <2>3 DEF StartRefresh, StartLogout, TypeOK, memory, history, Rows, Held, UserEntity, SessionEntity
<1>2. CASE CheckUser(r)
  <2>1. [request[r] EXCEPT !.at = "saveRefreshed"] \in Held
    BY <1>2, HeldRow DEF CheckUser, Held
  <2>2. request' \in [Requests -> Held]
    BY <1>2, <2>1, GoesTypes DEF CheckUser
  <2> QED BY <1>2, <2>2 DEF CheckUser, TypeOK, memory, history, Rows, Held, UserEntity, SessionEntity
<1>3. CASE SaveRefreshed(r)
  <2>1. request[r].id \in DOMAIN sessions /\ request[r].row \in SessionEntity
    BY <1>3, HeldRow DEF SaveRefreshed
  <2>2. /\ tokens' \in Nat /\ tokens <= tokens' /\ tokens' \in 1..tokens'
        /\ spent' \subseteq 1..tokens'
    <3>1. tokens' = tokens + 1 /\ spent' = spent \cup {request[r].row.hash}
      BY <1>3 DEF SaveRefreshed
    <3>2. request[r].row.hash \in 1..tokens
      BY <2>1 DEF SessionEntity
    <3>3. /\ tokens' \in Nat /\ tokens <= tokens' /\ tokens' \in 1..tokens'
          /\ 1..tokens \subseteq 1..tokens' /\ spent \subseteq 1..tokens
      BY <3>1 DEF TypeOK
    <3> QED BY <3>1, <3>2, <3>3
  <2>3. Rotated(request[r].row, tokens') \in SessionEntity'
    BY <2>1, <2>2 DEF Rotated, SessionEntity
  <2>4. /\ sessions' = [sessions EXCEPT ![request[r].id] = Rotated(request[r].row, tokens')]
        /\ Ends(r) /\ UNCHANGED <<user, memory, secrets, proved>>
    BY <1>3 DEF SaveRefreshed
  <2> DEFINE written == Rotated(request[r].row, tokens')
  <2>5. written \in SessionEntity' /\ sessions' = [sessions EXCEPT ![request[r].id] = written]
    BY <2>3, <2>4
  <2> HIDE DEF written
  <2> QED BY <2>1, <2>2, <2>4, <2>5, WriteTypes
<1>4. CASE SaveRevoked(r)
  <2>1. request[r].id \in DOMAIN sessions /\ request[r].row \in SessionEntity
    BY <1>4, HeldRow DEF SaveRevoked
  <2>2. tokens' = tokens /\ spent' \subseteq 1..tokens' /\ tokens \in Nat
    BY <1>4 DEF SaveRevoked, TypeOK, history
  <2>3. [request[r].row EXCEPT !.revoked = TRUE] \in SessionEntity'
    BY <2>1, <2>2 DEF SessionEntity
  <2>4. /\ sessions' = [sessions EXCEPT ![request[r].id] =
                           [request[r].row EXCEPT !.revoked = TRUE]]
        /\ Ends(r) /\ UNCHANGED <<user, memory, secrets, proved>>
    BY <1>4 DEF SaveRevoked, history
  <2>5. tokens <= tokens'
    BY <2>2
  <2> QED BY <2>1, <2>2, <2>3, <2>4, <2>5, WriteTypes
<1> QED BY <1>1, <1>2, <1>3, <1>4

(* Every step keeps the types. *)
LEMMA TypeStep == TypeOK /\ [Next]_vars => TypeOK'
<1> SUFFICES ASSUME TypeOK, [Next]_vars PROVE TypeOK'
  OBVIOUS
<1>1. ASSUME NEW key \in Keys, WindowEnds(key)
      PROVE  TypeOK'
  <2>1. attempts' \in [Keys -> LoginAttempt]
    BY <1>1, AttemptTypes DEF WindowEnds, TypeOK
  <2> QED BY <1>1, <2>1 DEF WindowEnds, TypeOK, history, Rows, Held, UserEntity, SessionEntity
<1>2. CASE Freeze
  <2>1. user' \in Rows
    <3>1. user[1] \in UserEntity
      BY <1>2 DEF Freeze, TypeOK, Rows
    <3>2. [user[1] EXCEPT !.active = FALSE] \in UserEntity
      BY <3>1 DEF UserEntity
    <3> QED BY <1>2, <3>2 DEF Freeze, Rows
  <2> QED BY <1>2, <2>1 DEF Freeze, TypeOK, memory, history, Rows, Held, UserEntity, SessionEntity
<1>3. CASE Restart
  BY <1>3 DEF Restart, TypeOK, Idle, LoginAttempt, history, Rows, Held, UserEntity, SessionEntity
<1>4. CASE UNCHANGED vars
  BY <1>4 DEF vars, memory, history, TypeOK, Rows, Held, UserEntity, SessionEntity
<1> QED BY <1>1, <1>2, <1>3, <1>4, UserTypes, LoginTypes, SessionTypes DEF Next, Step

(* The variables have their types: rows that are read, changed in memory   *)
(* and saved later are rows then, of sessions that still exist.            *)
THEOREM TypeCorrect == Spec => []TypeOK
BY InitTypes, TypeStep, PTL DEF Spec

-----------------------------------------------------------------------------
(* The second factor *)

(* A request holds the row of the user, to save it later. *)
HoldsUser(r) == request[r].at \in {"checkCode", "saveSecret"}

(* Every secret in a row, of the table or held by a request, was proved. *)
SecretInv ==
  /\ SecretProved
  /\ \A r \in Requests : HoldsUser(r) /\ request[r].row.totp # NoSecret =>
       request[r].row.totp \in proved

(* Only one request moves in a step. *)
LEMMA OneMoves ==
  ASSUME TypeOK, NEW r \in Requests, NEW state, Goes(r, state)
  PROVE  /\ request'[r] = state
         /\ \A q \in Requests : q # r => request'[q] = request[q]
BY DEF TypeOK, Goes

(* CheckUser ends the request, or passes what it holds on for an active    *)
(* user.                                                                   *)
LEMMA CheckUserMoves ==
  ASSUME TypeOK, NEW r \in Requests, CheckUser(r)
  PROVE  \/ Ends(r)
         \/ /\ user # << >> /\ user[1].active
            /\ Goes(r, [at |-> "saveRefreshed", id |-> request[r].id, row |-> request[r].row])
<1>1. [request[r] EXCEPT !.at = "saveRefreshed"] =
        [at |-> "saveRefreshed", id |-> request[r].id, row |-> request[r].row]
  <2>1. request[r] = [at |-> request[r].at, id |-> request[r].id, row |-> request[r].row]
    BY HeldRow DEF CheckUser
  <2> QED BY <2>1
<1>2. CASE user # << >> /\ user[1].active
  BY <1>1, <1>2 DEF CheckUser
<1>3. CASE ~(user # << >> /\ user[1].active)
  BY <1>3 DEF CheckUser, Ends
<1> QED BY <1>2, <1>3

(* The steps that read the session of a refresh or a logout, and a user.   *)
LEMMA StartMoves ==
  ASSUME NEW r \in Requests
  PROVE  /\ StartRefresh(r) => \E s \in DOMAIN sessions :
              /\ ~sessions[s].revoked
              /\ Goes(r, [at |-> "checkUser", id |-> s, row |-> sessions[s]])
         /\ StartLogout(r) => \E s \in DOMAIN sessions :
              Goes(r, [at |-> "saveRevoked", id |-> s, row |-> sessions[s]])
         /\ StartLogin(r) => \E ip \in Ips :
              /\ Allowed(ip) /\ Allowed("account")
              /\ Goes(r, [at |-> "comparePassword", ip |-> ip, user |-> user])
BY DEF StartRefresh, StartLogout, StartLogin, Valid

(* Secrets stay proved when no row with a new secret is written or held. *)
LEMMA SecretsKept ==
  ASSUME TypeOK, SecretInv, NEW r \in Requests, NEW state, Goes(r, state),
         user' = user, proved' = proved,
         state.at \in {"checkCode", "saveSecret"} /\ state.row.totp # NoSecret =>
           state.row.totp \in proved
  PROVE  SecretInv'
<1>1. SecretProved'
  BY DEF SecretInv, SecretProved
<1>2. ASSUME NEW q \in Requests, HoldsUser(q)', request[q]'.row.totp # NoSecret
      PROVE  request[q]'.row.totp \in proved'
  BY <1>2, OneMoves DEF SecretInv, HoldsUser
<1> QED BY <1>1, <1>2 DEF SecretInv

(* Every step keeps the secrets of the rows proved. *)
LEMMA SecretStep == SecretInv /\ TypeOK /\ [Next]_vars => SecretInv'
<1> SUFFICES ASSUME SecretInv, TypeOK, [Next]_vars PROVE SecretInv'
  OBVIOUS
<1> USE DEF Ends, Idle
<1>1. ASSUME NEW r \in Requests,
             \/ StartRegister(r) \/ LoginRefused(r) \/ LoginFails(r) \/ LoginSucceeds(r)
             \/ SaveSession(r) \/ SaveRefreshed(r) \/ SaveRevoked(r) \/ DropPending(r)
      PROVE  SecretInv'
  <2>1. user' = user /\ proved' = proved
    BY <1>1 DEF StartRegister, LoginRefused, LoginFails, LoginSucceeds, SaveSession,
                SaveRefreshed, SaveRevoked, DropPending, history
  <2>2. \E at \in {"idle", "saveUser", "saveSession"} : Goes(r, [at |-> at])
    BY <1>1 DEF StartRegister, LoginRefused, LoginFails, LoginSucceeds, SaveSession,
                SaveRefreshed, SaveRevoked, DropPending
  <2> QED BY <2>1, <2>2, SecretsKept
<1>2. ASSUME NEW r \in Requests, StartLogin(r) \/ StartRefresh(r) \/ StartLogout(r)
      PROVE  SecretInv'
  <2>1. user' = user /\ proved' = proved
    BY <1>2 DEF StartLogin, StartRefresh, StartLogout, history
  <2>2. CASE StartLogin(r)
    <3>1. PICK ip \in Ips : Goes(r, [at |-> "comparePassword", ip |-> ip, user |-> user])
      BY <2>2, StartMoves
    <3> QED BY <2>1, <3>1, SecretsKept
  <2>3. CASE StartRefresh(r) \/ StartLogout(r)
    <3>1. PICK s \in DOMAIN sessions, at \in {"checkUser", "saveRevoked"} :
            Goes(r, [at |-> at, id |-> s, row |-> sessions[s]])
      BY <2>3, StartMoves
    <3> QED BY <2>1, <3>1, SecretsKept
  <2> QED BY <1>2, <2>2, <2>3
<1>3. ASSUME NEW r \in Requests, CheckUser(r)
      PROVE  SecretInv'
  <2>1. user' = user /\ proved' = proved
    BY <1>3 DEF CheckUser, history
  <2>2. CASE Ends(r)
    BY <2>1, <2>2, SecretsKept
  <2>3. CASE Goes(r, [at |-> "saveRefreshed", id |-> request[r].id, row |-> request[r].row])
    BY <2>1, <2>3, SecretsKept
  <2> QED BY <1>3, <2>2, <2>3, CheckUserMoves
<1>4. ASSUME NEW r \in Requests, SaveUser(r)
      PROVE  SecretInv'
  <2>1. SecretProved'
    BY <1>4 DEF SaveUser, SecretInv, SecretProved, history
  <2>2. proved' = proved /\ Goes(r, [at |-> "idle"])
    BY <1>4 DEF SaveUser, history
  <2> QED BY <2>1, <2>2, OneMoves DEF SecretInv, HoldsUser
<1>5. ASSUME NEW r \in Requests, SetupTotp(r)
      PROVE  SecretInv'
  BY <1>5 DEF SetupTotp, SecretInv, SecretProved, HoldsUser, history
<1>6. ASSUME NEW r \in Requests, StartVerify(r)
      PROVE  SecretInv'
  <2>1. user' = user /\ proved' = proved /\ Goes(r, [at |-> "checkCode", row |-> user[1]])
    BY <1>6 DEF StartVerify, history
  <2>2. user # << >> /\ user[1].totp # NoSecret => user[1].totp \in proved
    BY DEF SecretInv, SecretProved
  <2>3. user # << >>
    BY <1>6 DEF StartVerify
  <2> QED BY <2>1, <2>2, <2>3, SecretsKept
<1>7. ASSUME NEW r \in Requests, CheckCode(r)
      PROVE  SecretInv'
  <2>1. user' = user
    BY <1>7 DEF CheckCode
  <2>2. CASE proved' = proved /\ Ends(r)
    BY <2>1, <2>2, SecretsKept
  <2>3. CASE /\ proved' = proved \cup {pending}
             /\ Goes(r, [at |-> "saveSecret",
                         row |-> [request[r].row EXCEPT !.totp = pending]])
    <3>1. request[r].row \in UserEntity
      BY <1>7, HeldRow DEF CheckCode
    <3>2. [request[r].row EXCEPT !.totp = pending].totp = pending
      BY <3>1 DEF UserEntity
    <3>3. request'[r].row.totp \in proved'
      <4>1. request'[r].row = [request[r].row EXCEPT !.totp = pending]
        BY <2>3, OneMoves
      <4> QED BY <2>3, <3>2, <4>1
    <3>4. \A q \in Requests : q # r => request'[q] = request[q]
      BY <2>3, OneMoves
    <3> QED BY <2>1, <2>3, <3>3, <3>4 DEF SecretInv, SecretProved, HoldsUser
  <2> QED BY <1>7, <2>2, <2>3 DEF CheckCode
<1>8. ASSUME NEW r \in Requests, SaveSecret(r)
      PROVE  SecretInv'
  <2>1. /\ user' = <<request[r].row>> /\ proved' = proved
        /\ request[r].at = "saveSecret" /\ Goes(r, [at |-> "dropPending"])
    BY <1>8 DEF SaveSecret, history
  <2>2. SecretProved'
    BY <2>1 DEF SecretInv, SecretProved, HoldsUser
  <2> QED BY <2>1, <2>2, OneMoves DEF SecretInv, HoldsUser
<1>9. CASE Freeze
  <2>1. user[1] \in UserEntity /\ user # << >>
    BY <1>9 DEF Freeze, TypeOK, Rows
  <2>2. [user[1] EXCEPT !.active = FALSE].totp = user[1].totp
    BY <2>1 DEF UserEntity
  <2>3. SecretProved'
    <3>1. user' = <<[user[1] EXCEPT !.active = FALSE]>> /\ proved' = proved
      BY <1>9 DEF Freeze, history
    <3>2. user'[1].totp = user[1].totp
      BY <2>2, <3>1
    <3> QED BY <2>1, <3>1, <3>2 DEF SecretInv, SecretProved
  <2> QED BY <1>9, <2>3 DEF Freeze, SecretInv, HoldsUser, history
<1>10. CASE Restart
  BY <1>10 DEF Restart, SecretInv, SecretProved, HoldsUser, history
<1>11. ASSUME NEW key \in Keys, WindowEnds(key)
       PROVE  SecretInv'
  BY <1>11 DEF WindowEnds, SecretInv, SecretProved, HoldsUser, history
<1>12. CASE UNCHANGED vars
  BY <1>12 DEF vars, SecretInv, SecretProved, HoldsUser, history
<1> QED BY <1>1, <1>2, <1>3, <1>4, <1>5, <1>6, <1>7, <1>8, <1>9, <1>10, <1>11, <1>12
        DEF Next, Step

(* The second factor asks for codes of a secret only after its owner has   *)
(* given one: verifyTotpForUser saves the row that it read, with the       *)
(* secret that the code was checked against.                               *)
THEOREM SecretsAreProved == Spec => []SecretProved
<1>1. Init => SecretInv
  BY DEF Init, SecretInv, SecretProved, HoldsUser, Idle
<1>2. SecretInv => SecretProved
  BY DEF SecretInv
<1> QED BY <1>1, <1>2, SecretStep, TypeCorrect, PTL DEF Spec

-----------------------------------------------------------------------------
(* Sessions and refresh tokens *)

(* A request holds the row of a session, to save it later. *)
Holds(r) == request[r].at \in {"checkUser", "saveRefreshed", "saveRevoked"}

(* A token is of one session, in the table and in the rows that requests   *)
(* hold, and a refresh holds a row that was not revoked when it was read.  *)
TokensInv ==
  /\ SpentTokensAreDead
  /\ \A s, t \in DOMAIN sessions : sessions[s].hash = sessions[t].hash => s = t
  /\ \A r \in Requests, s \in DOMAIN sessions :
       Holds(r) /\ request[r].row.hash = sessions[s].hash => request[r].id = s
  /\ \A r, q \in Requests :
       Holds(r) /\ Holds(q) /\ request[r].row.hash = request[q].row.hash =>
         request[r].id = request[q].id
  /\ \A r \in Requests : Holds(r) /\ request[r].at # "saveRevoked" => ~request[r].row.revoked

(* Every token in a row has been drawn. *)
LEMMA DrawnTokens ==
  ASSUME TypeOK
  PROVE  /\ tokens \in Nat /\ tokens + 1 \notin 1..tokens /\ spent \subseteq 1..tokens
         /\ \A s \in DOMAIN sessions : /\ sessions[s] \in SessionEntity
                                       /\ sessions[s].hash \in 1..tokens
         /\ \A r \in Requests : Holds(r) =>
              /\ request[r].id \in DOMAIN sessions /\ request[r].row \in SessionEntity
              /\ request[r].row.hash \in 1..tokens
<1>1. \A s \in DOMAIN sessions : sessions[s] \in SessionEntity
  BY ElementOfSeq, LenProperties DEF TypeOK
<1>2. \A r \in Requests : Holds(r) =>
        request[r].id \in DOMAIN sessions /\ request[r].row \in SessionEntity
  BY HeldRow DEF Holds
<1>3. \A row \in SessionEntity : row.hash \in 1..tokens
  BY DEF SessionEntity
<1>4. tokens \in Nat /\ tokens + 1 \notin 1..tokens /\ spent \subseteq 1..tokens
  BY DEF TypeOK
<1> QED BY <1>1, <1>2, <1>3, <1>4

(* The other requests leave the sessions and who holds them alone. *)
LEMMA NoSession ==
  ASSUME TypeOK, NEW r \in Requests,
         \/ StartRegister(r) \/ SaveUser(r)
         \/ StartLogin(r) \/ LoginFails(r) \/ LoginRefused(r) \/ LoginSucceeds(r)
         \/ SetupTotp(r) \/ StartVerify(r) \/ CheckCode(r) \/ SaveSecret(r) \/ DropPending(r)
  PROVE  /\ sessions' = sessions /\ spent' = spent /\ tokens' = tokens
         /\ \A q \in Requests : Holds(q)' => request'[q] = request[q]
<1>1. sessions' = sessions /\ spent' = spent /\ tokens' = tokens
  BY DEF StartRegister, SaveUser, StartLogin, LoginFails, LoginRefused, LoginSucceeds,
         SetupTotp, StartVerify, CheckCode, SaveSecret, DropPending, history
<1>2. \A q \in Requests : q # r => request'[q] = request[q]
  BY OneMoves DEF StartRegister, SaveUser, StartLogin, LoginFails, LoginRefused,
         LoginSucceeds, SetupTotp, StartVerify, CheckCode, SaveSecret, DropPending, Ends
<1>3. CASE \E at \in {"idle", "saveUser", "saveSession", "dropPending"} :
             Goes(r, [at |-> at])
  BY <1>1, <1>2, <1>3, OneMoves DEF Holds
<1>4. CASE StartRegister(r) \/ SaveUser(r) \/ LoginFails(r) \/ LoginRefused(r)
           \/ LoginSucceeds(r) \/ SaveSecret(r) \/ DropPending(r)
  BY <1>3, <1>4 DEF StartRegister, SaveUser, LoginFails, LoginRefused, LoginSucceeds,
         SaveSecret, DropPending, Ends, Idle
<1>5. CASE StartLogin(r)
  <2>1. PICK ip \in Ips : Goes(r, [at |-> "comparePassword", ip |-> ip, user |-> user])
    BY <1>5, StartMoves
  <2> QED BY <1>1, <1>2, <2>1, OneMoves DEF Holds
<1>6. CASE SetupTotp(r)
  BY <1>1, <1>6 DEF SetupTotp
<1>7. CASE StartVerify(r)
  <2>1. Goes(r, [at |-> "checkCode", row |-> user[1]])
    BY <1>7 DEF StartVerify
  <2> QED BY <1>1, <1>2, <2>1, OneMoves DEF Holds
<1>8. CASE CheckCode(r)
  <2>1. CASE Ends(r)
    BY <1>3, <2>1 DEF Ends, Idle
  <2>2. CASE Goes(r, [at |-> "saveSecret", row |-> [request[r].row EXCEPT !.totp = pending]])
    BY <1>1, <1>2, <2>2, OneMoves DEF Holds
  <2> QED BY <1>8, <2>1, <2>2 DEF CheckCode
<1> QED BY <1>4, <1>5, <1>6, <1>7, <1>8

(* What the three steps that write a session leave in the table. *)
LEMMA SavedSessions ==
  ASSUME TypeOK, NEW r \in Requests
  PROVE  /\ SaveSession(r) =>
              /\ Len(sessions) + 1 \notin DOMAIN sessions
              /\ DOMAIN sessions' = DOMAIN sessions \cup {Len(sessions) + 1}
              /\ sessions'[Len(sessions) + 1] = [hash |-> tokens + 1, revoked |-> FALSE]
              /\ \A s \in DOMAIN sessions : sessions'[s] = sessions[s]
         /\ SaveRefreshed(r) =>
              /\ DOMAIN sessions' = DOMAIN sessions
              /\ sessions'[request[r].id] =
                   [hash |-> tokens + 1, revoked |-> request[r].row.revoked]
              /\ \A s \in DOMAIN sessions : s # request[r].id => sessions'[s] = sessions[s]
         /\ SaveRevoked(r) =>
              /\ DOMAIN sessions' = DOMAIN sessions
              /\ sessions'[request[r].id] = [hash |-> request[r].row.hash, revoked |-> TRUE]
              /\ \A s \in DOMAIN sessions : s # request[r].id => sessions'[s] = sessions[s]
<1>1. ASSUME SaveSession(r)
      PROVE  /\ Len(sessions) + 1 \notin DOMAIN sessions
             /\ DOMAIN sessions' = DOMAIN sessions \cup {Len(sessions) + 1}
             /\ sessions'[Len(sessions) + 1] = [hash |-> tokens + 1, revoked |-> FALSE]
             /\ \A s \in DOMAIN sessions : sessions'[s] = sessions[s]
  <2> DEFINE row == [hash |-> tokens + 1, revoked |-> FALSE]
             S == SessionEntity \cup {row}
  <2>1. sessions' = Append(sessions, row) /\ row \in S
    BY <1>1 DEF SaveSession
  <2>2. sessions \in Seq(S)
    BY SeqMonotonic DEF TypeOK
  <2> HIDE DEF row, S
  <2>3. /\ DOMAIN sessions = 1..Len(sessions) /\ Len(sessions) \in Nat
        /\ DOMAIN sessions' = DOMAIN sessions \cup {Len(sessions) + 1}
    BY <2>1, <2>2, WrittenRows
  <2>4. /\ \A s \in 1..Len(sessions) : sessions'[s] = sessions[s]
        /\ sessions'[Len(sessions) + 1] = row
    BY <2>1, <2>2, AppendProperties
  <2> QED BY <2>3, <2>4 DEF row
<1>2. ASSUME SaveRefreshed(r)
      PROVE  /\ DOMAIN sessions' = DOMAIN sessions
             /\ sessions'[request[r].id] =
                  [hash |-> tokens + 1, revoked |-> request[r].row.revoked]
             /\ \A s \in DOMAIN sessions : s # request[r].id => sessions'[s] = sessions[s]
  <2>1. request[r].id \in DOMAIN sessions /\ request[r].row \in SessionEntity
    BY <1>2, HeldRow DEF SaveRefreshed
  <2>2. [request[r].row EXCEPT !.hash = tokens + 1] =
          [hash |-> tokens + 1, revoked |-> request[r].row.revoked]
    BY <2>1 DEF SessionEntity
  <2>3. sessions' = [sessions EXCEPT ![request[r].id] =
                       [hash |-> tokens + 1, revoked |-> request[r].row.revoked]]
    BY <1>2, <2>2 DEF SaveRefreshed, Rotated
  <2> QED BY <2>1, <2>3 DEF TypeOK
<1>3. ASSUME SaveRevoked(r)
      PROVE  /\ DOMAIN sessions' = DOMAIN sessions
             /\ sessions'[request[r].id] = [hash |-> request[r].row.hash, revoked |-> TRUE]
             /\ \A s \in DOMAIN sessions : s # request[r].id => sessions'[s] = sessions[s]
  <2>1. request[r].id \in DOMAIN sessions /\ request[r].row \in SessionEntity
    BY <1>3, HeldRow DEF SaveRevoked
  <2>2. [request[r].row EXCEPT !.revoked = TRUE] =
          [hash |-> request[r].row.hash, revoked |-> TRUE]
    <3> DEFINE saved == [request[r].row EXCEPT !.revoked = TRUE]
    <3>1. saved.hash = request[r].row.hash /\ saved.revoked = TRUE
      BY <2>1 DEF SessionEntity
    <3>2. saved \in SessionEntity
      BY <2>1 DEF SessionEntity
    <3> HIDE DEF saved
    <3>3. saved = [hash |-> saved.hash, revoked |-> saved.revoked]
      BY <3>2 DEF SessionEntity
    <3> QED BY <3>1, <3>3 DEF saved
  <2>3. sessions' = [sessions EXCEPT ![request[r].id] =
                       [hash |-> request[r].row.hash, revoked |-> TRUE]]
    BY <1>3, <2>2 DEF SaveRevoked
  <2> QED BY <2>1, <2>3 DEF TypeOK
<1> QED BY <1>1, <1>2, <1>3

(* Reading a session, and passing what is held on, is no new holder.       *)
LEMMA TokensRead ==
  ASSUME TypeOK, TokensInv, NEW r \in Requests, NEW at, NEW id, NEW row,
         Goes(r, [at |-> at, id |-> id, row |-> row]),
         sessions' = sessions, spent' = spent,
         \/ id \in DOMAIN sessions /\ row = sessions[id]
         \/ Holds(r) /\ id = request[r].id /\ row = request[r].row,
         at # "saveRevoked" => ~row.revoked
  PROVE  TokensInv'
<1>1. /\ request'[r] = [at |-> at, id |-> id, row |-> row]
      /\ \A q \in Requests : q # r => request'[q] = request[q]
  BY OneMoves
<1>2. SpentTokensAreDead'
  BY DEF TokensInv, SpentTokensAreDead
<1>3. ASSUME NEW q \in Requests, NEW s \in DOMAIN sessions, Holds(q)',
             request'[q].row.hash = sessions[s].hash
      PROVE  request'[q].id = s
  <2>1. CASE q = r
    BY <1>1, <1>3, <2>1 DEF TokensInv
  <2>2. CASE q # r
    BY <1>1, <1>3, <2>2 DEF TokensInv, Holds
  <2> QED BY <2>1, <2>2
<1>4. ASSUME NEW p \in Requests, NEW q \in Requests, Holds(p)', Holds(q)',
             request'[p].row.hash = request'[q].row.hash
      PROVE  request'[p].id = request'[q].id
  <2>1. CASE p # r /\ q # r
    BY <1>1, <1>4, <2>1 DEF TokensInv, Holds
  <2>2. CASE id \in DOMAIN sessions /\ row = sessions[id]
    BY <1>1, <1>4, <2>2 DEF TokensInv, Holds
  <2>3. CASE Holds(r) /\ id = request[r].id /\ row = request[r].row
    BY <1>1, <1>4, <2>3 DEF TokensInv, Holds
  <2> QED BY <2>1, <2>2, <2>3
<1>5. ASSUME NEW q \in Requests, Holds(q)', request'[q].at # "saveRevoked"
      PROVE  ~request'[q].row.revoked
  BY <1>1, <1>5 DEF TokensInv, Holds
<1> QED BY <1>2, <1>3, <1>4, <1>5 DEF TokensInv

(* Steps that leave the sessions and their holders alone keep the tokens.  *)
LEMMA TokensLeft ==
  ASSUME TokensInv, sessions' = sessions, spent' = spent,
         \A q \in Requests : Holds(q)' => request'[q] = request[q]
  PROVE  TokensInv'
<1>1. SpentTokensAreDead'
  BY DEF TokensInv, SpentTokensAreDead
<1>2. \A q \in Requests : Holds(q)' => Holds(q)
  BY DEF Holds
<1> QED BY <1>1, <1>2 DEF TokensInv

(* Every step keeps the tokens apart, and the spent ones dead. *)
LEMMA TokensStep == TokensInv /\ TypeOK /\ [Next]_vars => TokensInv'
<1> SUFFICES ASSUME TokensInv, TypeOK, [Next]_vars PROVE TokensInv'
  OBVIOUS
<1>1. ASSUME NEW r \in Requests,
             \/ StartRegister(r) \/ SaveUser(r)
             \/ StartLogin(r) \/ LoginFails(r) \/ LoginRefused(r) \/ LoginSucceeds(r)
             \/ SetupTotp(r) \/ StartVerify(r) \/ CheckCode(r) \/ SaveSecret(r)
             \/ DropPending(r)
      PROVE  TokensInv'
  BY <1>1, NoSession, TokensLeft
<1>2. ASSUME NEW r \in Requests, StartRefresh(r) \/ StartLogout(r)
      PROVE  TokensInv'
  <2>1. sessions' = sessions /\ spent' = spent
    BY <1>2 DEF StartRefresh, StartLogout, history
  <2>2. PICK s \in DOMAIN sessions, at \in {"checkUser", "saveRevoked"} :
          /\ Goes(r, [at |-> at, id |-> s, row |-> sessions[s]])
          /\ at # "saveRevoked" => ~sessions[s].revoked
    BY <1>2, StartMoves
  <2> QED BY <2>1, <2>2, TokensRead
<1>3. ASSUME NEW r \in Requests, CheckUser(r)
      PROVE  TokensInv'
  <2>1. sessions' = sessions /\ spent' = spent /\ Holds(r) /\ request[r].at # "saveRevoked"
    BY <1>3 DEF CheckUser, history, Holds
  <2>2. CASE Ends(r)
    <3>1. \A q \in Requests : Holds(q)' => request'[q] = request[q]
      BY <2>2, OneMoves DEF Ends, Idle, Holds
    <3> QED BY <2>1, <3>1, TokensLeft
  <2>3. CASE Goes(r, [at |-> "saveRefreshed", id |-> request[r].id, row |-> request[r].row])
    <3>1. ~request[r].row.revoked
      BY <2>1 DEF TokensInv
    <3> QED BY <2>1, <2>3, <3>1, TokensRead
  <2> QED BY <1>3, <2>2, <2>3, CheckUserMoves
<1>4. ASSUME NEW r \in Requests, SaveSession(r)
      PROVE  TokensInv'
  <2>1. \A q \in Requests : Holds(q)' => Holds(q) /\ request'[q] = request[q]
    BY <1>4, OneMoves DEF SaveSession, Ends, Idle, Holds
  <2>2. spent' = spent
    BY <1>4 DEF SaveSession, history
  <2>3. /\ Len(sessions) + 1 \notin DOMAIN sessions
        /\ DOMAIN sessions' = DOMAIN sessions \cup {Len(sessions) + 1}
        /\ sessions'[Len(sessions) + 1].hash = tokens + 1
        /\ \A s \in DOMAIN sessions : sessions'[s] = sessions[s]
    <3>1. sessions'[Len(sessions) + 1] = [hash |-> tokens + 1, revoked |-> FALSE]
      BY <1>4, SavedSessions
    <3>2. /\ Len(sessions) + 1 \notin DOMAIN sessions
          /\ DOMAIN sessions' = DOMAIN sessions \cup {Len(sessions) + 1}
          /\ \A s \in DOMAIN sessions : sessions'[s] = sessions[s]
      BY <1>4, SavedSessions
    <3> QED BY <3>1, <3>2
  <2>4. SpentTokensAreDead'
    BY <2>2, <2>3, DrawnTokens DEF TokensInv, SpentTokensAreDead
  <2>5. \A s, t \in DOMAIN sessions' : sessions'[s].hash = sessions'[t].hash => s = t
    BY <2>3, DrawnTokens DEF TokensInv
  <2>6. \A q \in Requests, s \in DOMAIN sessions' :
          Holds(q)' /\ request'[q].row.hash = sessions'[s].hash => request'[q].id = s
    BY <2>1, <2>3, DrawnTokens DEF TokensInv
  <2> QED BY <2>1, <2>4, <2>5, <2>6 DEF TokensInv
<1>5. ASSUME NEW r \in Requests, SaveRefreshed(r)
      PROVE  TokensInv'
  <2>1. \A q \in Requests : Holds(q)' => Holds(q) /\ request'[q] = request[q]
    BY <1>5, OneMoves DEF SaveRefreshed, Ends, Idle, Holds
  <2>2. spent' = spent \cup {request[r].row.hash} /\ Holds(r)
    BY <1>5 DEF SaveRefreshed, Holds
  <2>3. /\ DOMAIN sessions' = DOMAIN sessions
        /\ sessions'[request[r].id].hash = tokens + 1
        /\ \A s \in DOMAIN sessions : s # request[r].id => sessions'[s] = sessions[s]
    <3>1. sessions'[request[r].id] =
            [hash |-> tokens + 1, revoked |-> request[r].row.revoked]
      BY <1>5, SavedSessions
    <3>2. /\ DOMAIN sessions' = DOMAIN sessions
          /\ \A s \in DOMAIN sessions : s # request[r].id => sessions'[s] = sessions[s]
      BY <1>5, SavedSessions
    <3> QED BY <3>1, <3>2
  <2>4. SpentTokensAreDead'
    <3> SUFFICES ASSUME NEW s \in DOMAIN sessions, sessions'[s].hash \in spent'
                 PROVE  sessions'[s].revoked
      BY <2>3 DEF SpentTokensAreDead
    <3>1. s # request[r].id
      BY <2>2, <2>3, DrawnTokens
    <3>2. sessions[s].hash # request[r].row.hash
      BY <2>2, <3>1 DEF TokensInv
    <3> QED BY <2>2, <2>3, <3>1, <3>2 DEF TokensInv, SpentTokensAreDead
  <2>5. \A s, t \in DOMAIN sessions' : sessions'[s].hash = sessions'[t].hash => s = t
    BY <2>3, DrawnTokens DEF TokensInv
  <2>6. \A q \in Requests, s \in DOMAIN sessions' :
          Holds(q)' /\ request'[q].row.hash = sessions'[s].hash => request'[q].id = s
    BY <2>1, <2>3, DrawnTokens DEF TokensInv
  <2> QED BY <2>1, <2>4, <2>5, <2>6 DEF TokensInv
<1>6. ASSUME NEW r \in Requests, SaveRevoked(r)
      PROVE  TokensInv'
  <2>1. \A q \in Requests : Holds(q)' => Holds(q) /\ request'[q] = request[q]
    BY <1>6, OneMoves DEF SaveRevoked, Ends, Idle, Holds
  <2>2. spent' = spent /\ Holds(r)
    BY <1>6 DEF SaveRevoked, history, Holds
  <2>3. /\ DOMAIN sessions' = DOMAIN sessions
        /\ sessions'[request[r].id].hash = request[r].row.hash
        /\ sessions'[request[r].id].revoked
        /\ \A s \in DOMAIN sessions : s # request[r].id => sessions'[s] = sessions[s]
    <3>1. sessions'[request[r].id] = [hash |-> request[r].row.hash, revoked |-> TRUE]
      BY <1>6, SavedSessions
    <3>2. /\ DOMAIN sessions' = DOMAIN sessions
          /\ \A s \in DOMAIN sessions : s # request[r].id => sessions'[s] = sessions[s]
      BY <1>6, SavedSessions
    <3> QED BY <3>1, <3>2
  <2>4. SpentTokensAreDead'
    BY <2>2, <2>3 DEF TokensInv, SpentTokensAreDead
  <2>5. \A s, t \in DOMAIN sessions' : sessions'[s].hash = sessions'[t].hash => s = t
    BY <2>2, <2>3 DEF TokensInv
  <2>6. \A q \in Requests, s \in DOMAIN sessions' :
          Holds(q)' /\ request'[q].row.hash = sessions'[s].hash => request'[q].id = s
    BY <2>1, <2>2, <2>3 DEF TokensInv
  <2> QED BY <2>1, <2>4, <2>5, <2>6 DEF TokensInv
<1>7. CASE Freeze \/ Restart \/ UNCHANGED vars \/ \E key \in Keys : WindowEnds(key)
  <2>1. sessions' = sessions /\ spent' = spent
    BY <1>7 DEF Freeze, Restart, vars, WindowEnds, history
  <2>2. \A q \in Requests : Holds(q)' => request'[q] = request[q]
    BY <1>7 DEF Freeze, Restart, vars, WindowEnds, Idle, Holds
  <2> QED BY <2>1, <2>2, TokensLeft
<1> QED BY <1>1, <1>2, <1>3, <1>4, <1>5, <1>6, <1>7 DEF Next, Step

(* A refresh token that was exchanged opens no session again, though a     *)
(* late logout may write its hash back into the row: refresh takes tokens  *)
(* of live sessions, and logout saves the old row revoked.                 *)
THEOREM SpentTokensStayDead == Spec => []SpentTokensAreDead
<1>1. Init => TokensInv
  <2> SUFFICES ASSUME Init PROVE TokensInv
    OBVIOUS
  <2>1. DOMAIN sessions = {}
    BY DEF Init
  <2> QED BY <2>1 DEF Init, TokensInv, SpentTokensAreDead, Holds, Idle
<1>2. TokensInv => SpentTokensAreDead
  BY DEF TokensInv
<1> QED BY <1>1, <1>2, TokensStep, TypeCorrect, PTL DEF Spec

-----------------------------------------------------------------------------
(* What an observer saw revoked *)

(* A session that was seen revoked is as it was then; no refresh holds its *)
(* row, and what a logout holds is the row as it is.                       *)
Closed(c) ==
  /\ c[1] \in DOMAIN sessions /\ sessions[c[1]] = c[2] /\ c[2].revoked
  /\ \A r \in Requests : Holds(r) /\ request[r].id = c[1] =>
       request[r].at = "saveRevoked" /\ request[r].row = c[2]

RevokedInv == \A c \in closed : Closed(c)

(* A session stays as it was seen when its row and its holders do. *)
LEMMA ClosedLeft ==
  ASSUME NEW c, Closed(c), c[1] \in DOMAIN sessions', sessions'[c[1]] = sessions[c[1]],
         \A q \in Requests : Holds(q)' => request'[q] = request[q]
  PROVE  Closed(c)'
BY DEF Closed, Holds

(* Every step leaves what was seen revoked as it was. *)
LEMMA ClosedStep ==
  ASSUME TypeOK, Step \/ UNCHANGED vars, NEW c, Closed(c)
  PROVE  Closed(c)'
<1>1. ASSUME NEW r \in Requests,
             \/ StartRegister(r) \/ SaveUser(r)
             \/ StartLogin(r) \/ LoginFails(r) \/ LoginRefused(r) \/ LoginSucceeds(r)
             \/ SetupTotp(r) \/ StartVerify(r) \/ CheckCode(r) \/ SaveSecret(r)
             \/ DropPending(r)
      PROVE  Closed(c)'
  <2>1. c[1] \in DOMAIN sessions
    BY DEF Closed
  <2> QED BY <1>1, <2>1, NoSession, ClosedLeft
<1>2. ASSUME NEW r \in Requests, StartRefresh(r) \/ StartLogout(r)
      PROVE  Closed(c)'
  <2>1. sessions' = sessions
    BY <1>2 DEF StartRefresh, StartLogout
  <2>2. PICK s \in DOMAIN sessions, at \in {"checkUser", "saveRevoked"} :
          /\ Goes(r, [at |-> at, id |-> s, row |-> sessions[s]])
          /\ at # "saveRevoked" => ~sessions[s].revoked
    BY <1>2, StartMoves
  <2>3. /\ request'[r] = [at |-> at, id |-> s, row |-> sessions[s]]
        /\ \A q \in Requests : q # r => request'[q] = request[q]
    BY <2>2, OneMoves
  <2>4. s = c[1] => at = "saveRevoked"
    BY <2>2 DEF Closed
  <2> QED BY <2>1, <2>3, <2>4 DEF Closed, Holds
<1>3. ASSUME NEW r \in Requests, CheckUser(r)
      PROVE  Closed(c)'
  <2>1. sessions' = sessions /\ Holds(r) /\ request[r].at # "saveRevoked"
    BY <1>3 DEF CheckUser, Holds
  <2>2. c[1] \in DOMAIN sessions /\ request[r].id # c[1]
    BY <2>1 DEF Closed
  <2>3. CASE Ends(r)
    <3>1. \A q \in Requests : Holds(q)' => request'[q] = request[q]
      BY <2>3, OneMoves DEF Ends, Idle, Holds
    <3> QED BY <2>1, <2>2, <3>1, ClosedLeft
  <2>4. CASE Goes(r, [at |-> "saveRefreshed", id |-> request[r].id, row |-> request[r].row])
    <3>1. /\ request'[r] = [at |-> "saveRefreshed", id |-> request[r].id,
                            row |-> request[r].row]
          /\ \A q \in Requests : q # r => request'[q] = request[q]
      BY <2>4, OneMoves
    <3> QED BY <2>1, <2>2, <3>1 DEF Closed, Holds
  <2> QED BY <1>3, <2>3, <2>4, CheckUserMoves
<1>4. ASSUME NEW r \in Requests, SaveSession(r)
      PROVE  Closed(c)'
  <2>1. \A q \in Requests : Holds(q)' => request'[q] = request[q]
    BY <1>4, OneMoves DEF SaveSession, Ends, Idle, Holds
  <2>2. c[1] \in DOMAIN sessions
    BY DEF Closed
  <2>3. c[1] \in DOMAIN sessions' /\ sessions'[c[1]] = sessions[c[1]]
    BY <1>4, <2>2, SavedSessions
  <2> QED BY <2>1, <2>3, ClosedLeft
<1>5. ASSUME NEW r \in Requests, SaveRefreshed(r)
      PROVE  Closed(c)'
  <2>1. \A q \in Requests : Holds(q)' => request'[q] = request[q]
    BY <1>5, OneMoves DEF SaveRefreshed, Ends, Idle, Holds
  <2>2. c[1] \in DOMAIN sessions /\ c[1] # request[r].id
    BY <1>5 DEF SaveRefreshed, Closed, Holds
  <2>3. c[1] \in DOMAIN sessions' /\ sessions'[c[1]] = sessions[c[1]]
    BY <1>5, <2>2, SavedSessions
  <2> QED BY <2>1, <2>3, ClosedLeft
<1>6. ASSUME NEW r \in Requests, SaveRevoked(r)
      PROVE  Closed(c)'
  <2>1. \A q \in Requests : Holds(q)' => request'[q] = request[q]
    BY <1>6, OneMoves DEF SaveRevoked, Ends, Idle, Holds
  <2>2. c[1] \in DOMAIN sessions /\ Holds(r)
    BY <1>6 DEF SaveRevoked, Closed, Holds
  <2>3. CASE c[1] # request[r].id
    <3>1. c[1] \in DOMAIN sessions' /\ sessions'[c[1]] = sessions[c[1]]
      BY <1>6, <2>2, <2>3, SavedSessions
    <3> QED BY <2>1, <3>1, ClosedLeft
  <2>4. CASE c[1] = request[r].id
    <3>1. request[r].row = c[2] /\ sessions[c[1]] = c[2] /\ c[2].revoked
      BY <2>2, <2>4 DEF Closed
    <3>2. c[2] \in SessionEntity
      BY <2>2, <3>1, DrawnTokens
    <3>3. c[2] = [hash |-> c[2].hash, revoked |-> TRUE]
      BY <3>1, <3>2 DEF SessionEntity
    <3>4. c[1] \in DOMAIN sessions' /\ sessions'[c[1]] = [hash |-> c[2].hash, revoked |-> TRUE]
      BY <1>6, <2>2, <2>4, <3>1, SavedSessions
    <3> QED BY <2>1, <3>1, <3>3, <3>4, ClosedLeft
  <2> QED BY <2>3, <2>4
<1>7. CASE Freeze \/ Restart \/ UNCHANGED vars \/ \E key \in Keys : WindowEnds(key)
  <2>1. sessions' = sessions /\ c[1] \in DOMAIN sessions
    BY <1>7 DEF Freeze, Restart, vars, WindowEnds, Closed
  <2>2. \A q \in Requests : Holds(q)' => request'[q] = request[q]
    BY <1>7 DEF Freeze, Restart, vars, WindowEnds, Idle, Holds
  <2> QED BY <2>1, <2>2, ClosedLeft
<1> QED BY <1>1, <1>2, <1>3, <1>4, <1>5, <1>6, <1>7 DEF Step

(* What is seen revoked is noted when no request holds a row. *)
LEMMA RevokedStep == RevokedInv /\ TypeOK /\ [Next]_vars => RevokedInv'
<1> SUFFICES ASSUME RevokedInv, TypeOK, [Next]_vars, NEW c \in closed'
             PROVE  Closed(c)'
  BY DEF RevokedInv
<1>1. CASE c \in closed
  BY <1>1, ClosedStep DEF RevokedInv, Next
<1>2. CASE c \notin closed
  <2>1. Next /\ closed' # closed
    BY <1>2 DEF vars, seen
  <2>2. /\ \A r \in Requests : request'[r].at = "idle"
        /\ \E s \in DOMAIN sessions' : sessions'[s].revoked /\ c = <<s, sessions'[s]>>
    BY <1>2, <2>1 DEF Next, Observe, Quiet
  <2> QED BY <2>2 DEF Closed, Holds
<1> QED BY <1>1, <1>2

(* A session that was revoked while no request was at work stays revoked,  *)
(* and no token is drawn for it any more.                                  *)
THEOREM RevokedStaysRevoked == Spec => []RevokedForGood
<1>1. Init => RevokedInv
  BY DEF Init, RevokedInv
<1>2. RevokedInv => RevokedForGood
  BY DEF RevokedInv, RevokedForGood, Closed
<1> QED BY <1>1, <1>2, RevokedStep, TypeCorrect, PTL DEF Spec

-----------------------------------------------------------------------------
(* What an observer saw frozen *)

(* What a request may hold of a frozen account: nothing that draws a token *)
(* or makes the account active again.                                      *)
Harmless(state) ==
  /\ state.at \notin {"saveSession", "saveRefreshed"}
  /\ state.at = "comparePassword" /\ state.user # << >> => ~state.user[1].active
  /\ state.at \in {"checkCode", "saveSecret"} => ~state.row.active

(* The account is frozen, n tokens were drawn, and nobody undoes that. *)
Frozen(n) ==
  /\ tokens = n /\ user # << >> /\ ~user[1].active
  /\ \A r \in Requests : Harmless(request[r])

FrozenInv == \A n \in frozen : Frozen(n)

(* A request that goes on harmlessly leaves a frozen account frozen. *)
LEMMA FrozenLeft ==
  ASSUME TypeOK, NEW n, Frozen(n), NEW r \in Requests, NEW state, Goes(r, state),
         Harmless(state), user' = user, tokens' = tokens
  PROVE  Frozen(n)'
<1>1. \A q \in Requests : Harmless(request'[q])
  BY OneMoves DEF Frozen
<1> QED BY <1>1 DEF Frozen, Harmless

(* Every step leaves a frozen account frozen. *)
LEMMA FrozenStays ==
  ASSUME TypeOK, Step \/ UNCHANGED vars, NEW n, Frozen(n)
  PROVE  Frozen(n)'
<1>0. /\ tokens = n /\ user # << >> /\ ~user[1].active
      /\ \A r \in Requests : Harmless(request[r])
  BY DEF Frozen
<1>1. ASSUME NEW r \in Requests,
             \/ StartRegister(r) \/ SaveUser(r) \/ LoginFails(r) \/ LoginRefused(r)
             \/ SaveRevoked(r) \/ DropPending(r)
      PROVE  Frozen(n)'
  <2>1. user' = user /\ tokens' = tokens
    BY <1>0, <1>1 DEF StartRegister, SaveUser, LoginFails, LoginRefused, SaveRevoked,
                      DropPending
  <2>2. Goes(r, [at |-> "saveUser"]) \/ Goes(r, [at |-> "idle"])
    BY <1>1 DEF StartRegister, SaveUser, LoginFails, LoginRefused, SaveRevoked,
                DropPending, Ends, Idle
  <2>3. Harmless([at |-> "saveUser"]) /\ Harmless([at |-> "idle"])
    BY DEF Harmless
  <2> QED BY <2>1, <2>2, <2>3, FrozenLeft
<1>2. ASSUME NEW r \in Requests, LoginSucceeds(r) \/ SaveSession(r) \/ SaveRefreshed(r)
      PROVE  FALSE
  BY <1>0, <1>2 DEF LoginSucceeds, SaveSession, SaveRefreshed, Harmless
<1>3. ASSUME NEW r \in Requests, StartLogin(r)
      PROVE  Frozen(n)'
  <2>1. user' = user /\ tokens' = tokens
    BY <1>3 DEF StartLogin
  <2>2. PICK ip \in Ips : Goes(r, [at |-> "comparePassword", ip |-> ip, user |-> user])
    BY <1>3, StartMoves
  <2>3. Harmless([at |-> "comparePassword", ip |-> ip, user |-> user])
    BY <1>0 DEF Harmless
  <2> QED BY <2>1, <2>2, <2>3, FrozenLeft
<1>4. ASSUME NEW r \in Requests, StartRefresh(r) \/ StartLogout(r)
      PROVE  Frozen(n)'
  <2>1. user' = user /\ tokens' = tokens
    BY <1>4 DEF StartRefresh, StartLogout
  <2>2. PICK s \in DOMAIN sessions, at \in {"checkUser", "saveRevoked"} :
          Goes(r, [at |-> at, id |-> s, row |-> sessions[s]])
    BY <1>4, StartMoves
  <2>3. Harmless([at |-> at, id |-> s, row |-> sessions[s]])
    BY DEF Harmless
  <2> QED BY <2>1, <2>2, <2>3, FrozenLeft
<1>5. ASSUME NEW r \in Requests, CheckUser(r)
      PROVE  Frozen(n)'
  <2>1. user' = user /\ tokens' = tokens
    BY <1>5 DEF CheckUser
  <2>2. Goes(r, [at |-> "idle"])
    BY <1>0, <1>5, CheckUserMoves DEF Ends, Idle
  <2>3. Harmless([at |-> "idle"])
    BY DEF Harmless
  <2> QED BY <2>1, <2>2, <2>3, FrozenLeft
<1>6. ASSUME NEW r \in Requests, SetupTotp(r)
      PROVE  Frozen(n)'
  BY <1>0, <1>6 DEF SetupTotp, Frozen, Harmless
<1>7. ASSUME NEW r \in Requests, StartVerify(r)
      PROVE  Frozen(n)'
  <2>1. user' = user /\ tokens' = tokens /\ Goes(r, [at |-> "checkCode", row |-> user[1]])
    BY <1>7 DEF StartVerify
  <2>2. Harmless([at |-> "checkCode", row |-> user[1]])
    BY <1>0 DEF Harmless
  <2> QED BY <2>1, <2>2, FrozenLeft
<1>8. ASSUME NEW r \in Requests, CheckCode(r)
      PROVE  Frozen(n)'
  <2>1. user' = user /\ tokens' = tokens
    BY <1>8 DEF CheckCode
  <2>2. CASE Ends(r)
    <3>1. Harmless([at |-> "idle"])
      BY DEF Harmless
    <3> QED BY <2>1, <2>2, <3>1, FrozenLeft DEF Ends, Idle
  <2> DEFINE row == [request[r].row EXCEPT !.totp = pending]
  <2>3. CASE Goes(r, [at |-> "saveSecret", row |-> row])
    <3>1. request[r].row \in UserEntity /\ ~request[r].row.active
      BY <1>0, <1>8, HeldRow DEF CheckCode, Harmless
    <3>2. row.active = request[r].row.active
      BY <3>1 DEF UserEntity
    <3> HIDE DEF row
    <3>3. Harmless([at |-> "saveSecret", row |-> row])
      BY <3>1, <3>2 DEF Harmless
    <3> QED BY <2>1, <2>3, <3>3, FrozenLeft
  <2> QED BY <1>8, <2>2, <2>3 DEF CheckCode
<1>9. ASSUME NEW r \in Requests, SaveSecret(r)
      PROVE  Frozen(n)'
  <2>1. /\ user' = <<request[r].row>> /\ tokens' = tokens /\ ~request[r].row.active
        /\ Goes(r, [at |-> "dropPending"])
    BY <1>0, <1>9 DEF SaveSecret, Harmless
  <2>2. Harmless([at |-> "dropPending"])
    BY DEF Harmless
  <2>3. \A q \in Requests : Harmless(request'[q])
    BY <1>0, <2>1, <2>2, OneMoves
  <2> QED BY <1>0, <2>1, <2>3 DEF Frozen, Harmless
<1>10. CASE Freeze
  BY <1>0, <1>10 DEF Freeze
<1>11. CASE Restart
  BY <1>0, <1>11 DEF Restart, Idle, Frozen, Harmless
<1>12. CASE UNCHANGED vars \/ \E key \in Keys : WindowEnds(key)
  BY <1>0, <1>12 DEF vars, WindowEnds, Frozen, Harmless
<1> QED BY <1>1, <1>2, <1>3, <1>4, <1>5, <1>6, <1>7, <1>8, <1>9, <1>10, <1>11, <1>12
        DEF Step

(* What is seen frozen is noted when no request is at work. *)
LEMMA FrozenStep == FrozenInv /\ TypeOK /\ [Next]_vars => FrozenInv'
<1> SUFFICES ASSUME FrozenInv, TypeOK, [Next]_vars, NEW n \in frozen'
             PROVE  Frozen(n)'
  BY DEF FrozenInv
<1>1. CASE n \in frozen
  BY <1>1, FrozenStays DEF FrozenInv, Next
<1>2. CASE n \notin frozen
  <2>1. Next /\ frozen' # frozen
    BY <1>2 DEF vars, seen
  <2>2. /\ \A r \in Requests : request'[r].at = "idle"
        /\ n = tokens' /\ user' # << >> /\ ~user'[1].active
    BY <1>2, <2>1 DEF Next, Observe, Quiet
  <2> QED BY <2>2 DEF Frozen, Harmless
<1> QED BY <1>1, <1>2

(* An account that was frozen while no request was at work stays frozen,   *)
(* and no token is drawn for it, whatever the set-up of the second factor  *)
(* saves and whatever refresh tokens are still out.                        *)
THEOREM FrozenStaysFrozen == Spec => []FrozenForGood
<1>1. Init => FrozenInv
  BY DEF Init, FrozenInv
<1>2. FrozenInv => FrozenForGood
  BY DEF FrozenInv, FrozenForGood, Frozen
<1> QED BY <1>1, <1>2, FrozenStep, TypeCorrect, PTL DEF Spec

-----------------------------------------------------------------------------
(* Lockout *)

(* The requests are a finite number. *)
LEMMA RequestsFinite == IsFiniteSet(Requests)
BY AuthAssumption

(* The bound of one key. *)
Bounded(key) ==
  ~attempts[key].over =>
    attempts[key].count + Cardinality(Comparing(key))
      <= MaxAttempts + Cardinality(Requests) - 1

(* The counters are numbers. *)
LEMMA AttemptNumbers ==
  ASSUME TypeOK
  PROVE  /\ MaxAttempts \in Nat /\ MaxAttempts >= 1
         /\ \A key \in Keys : attempts[key] \in LoginAttempt
         /\ \A key \in Keys : attempts[key].count \in Nat /\ attempts[key].over \in BOOLEAN
         /\ \A key \in Keys : Comparing(key) \in SUBSET Requests
         /\ \A key \in Keys : Comparing(key)' \in SUBSET Requests
BY AuthAssumption DEF TypeOK, LoginAttempt, Comparing

(* A key stays within its bound when no request is added to it. *)
LEMMA BoundKept ==
  ASSUME TypeOK, NEW key \in Keys, Bounded(key), attempts'[key] = attempts[key],
         Comparing(key)' \subseteq Comparing(key)
  PROVE  Bounded(key)'
<1>1. /\ Cardinality(Comparing(key)') <= Cardinality(Comparing(key))
      /\ Cardinality(Comparing(key)') \in Nat /\ Cardinality(Comparing(key)) \in Nat
      /\ Cardinality(Requests) \in Nat
  BY AttemptNumbers, RequestsFinite, SubsetCounts
<1>2. attempts[key].count \in Nat /\ MaxAttempts \in Nat
  BY AttemptNumbers
<1> QED BY <1>1, <1>2 DEF Bounded

(* A request that is not let in adds to no key. *)
LEMMA NotLetIn ==
  ASSUME TypeOK, NEW r \in Requests, NEW state, Goes(r, state), state.at # "comparePassword"
  PROVE  \A key \in Keys : Comparing(key)' \subseteq Comparing(key) \ {r}
BY OneMoves DEF Comparing

(* Every step keeps every key within its bound. *)
LEMMA LockoutStep == LockoutHolds /\ TypeOK /\ [Next]_vars => LockoutHolds'
<1> SUFFICES ASSUME LockoutHolds, TypeOK, [Next]_vars, NEW key \in Keys
             PROVE  Bounded(key)'
  BY DEF LockoutHolds, Bounded, Keys
<1>0. Bounded(key)
  BY DEF LockoutHolds, Bounded
<1>n. /\ MaxAttempts \in Nat /\ MaxAttempts >= 1 /\ Cardinality(Requests) \in Nat
      /\ attempts[key].count \in Nat
      /\ Cardinality(Comparing(key)) \in Nat /\ Cardinality(Comparing(key)') \in Nat
      /\ Cardinality(Comparing(key)') <= Cardinality(Requests)
  BY AttemptNumbers, RequestsFinite, SubsetCounts
<1>1. ASSUME NEW r \in Requests,
             \/ StartRegister(r) \/ SaveUser(r) \/ LoginRefused(r) \/ SaveSession(r)
             \/ SaveRefreshed(r) \/ SaveRevoked(r) \/ SaveSecret(r) \/ DropPending(r)
      PROVE  Bounded(key)'
  <2>1. attempts' = attempts
    BY <1>1 DEF StartRegister, SaveUser, LoginRefused, SaveSession, SaveRefreshed,
                SaveRevoked, SaveSecret, DropPending, memory
  <2>2. PICK at \in {"idle", "saveUser", "dropPending"} : Goes(r, [at |-> at])
    BY <1>1 DEF StartRegister, SaveUser, LoginRefused, SaveSession, SaveRefreshed,
                SaveRevoked, SaveSecret, DropPending, Ends, Idle
  <2> QED BY <1>0, <2>1, <2>2, NotLetIn, BoundKept
<1>2. ASSUME NEW r \in Requests, StartRefresh(r) \/ StartLogout(r) \/ CheckUser(r)
      PROVE  Bounded(key)'
  <2>1. attempts' = attempts
    BY <1>2 DEF StartRefresh, StartLogout, CheckUser, memory
  <2>2. PICK at \in {"checkUser", "saveRefreshed", "saveRevoked", "idle"} : \E id, row :
          Goes(r, [at |-> at, id |-> id, row |-> row]) \/ Goes(r, [at |-> at])
    BY <1>2, StartMoves, CheckUserMoves DEF Ends, Idle
  <2> QED BY <1>0, <2>1, <2>2, NotLetIn, BoundKept
<1>3. ASSUME NEW r \in Requests, SetupTotp(r)
      PROVE  Bounded(key)'
  <2>1. attempts' = attempts /\ Comparing(key)' = Comparing(key)
    BY <1>3 DEF SetupTotp, Comparing
  <2> QED BY <1>0, <2>1, BoundKept
<1>4. ASSUME NEW r \in Requests, StartVerify(r) \/ CheckCode(r)
      PROVE  Bounded(key)'
  <2>1. attempts' = attempts
    BY <1>4 DEF StartVerify, CheckCode, memory
  <2>2. PICK at \in {"checkCode", "saveSecret", "idle"} : \E row :
          Goes(r, [at |-> at, row |-> row]) \/ Goes(r, [at |-> at])
    BY <1>4 DEF StartVerify, CheckCode, Ends, Idle
  <2> QED BY <1>0, <2>1, <2>2, NotLetIn, BoundKept
<1>5. ASSUME NEW r \in Requests, StartLogin(r)
      PROVE  Bounded(key)'
  <2>1. attempts' = attempts
    BY <1>5 DEF StartLogin, memory
  <2>2. PICK ip \in Ips :
          /\ Allowed(ip) /\ Allowed("account")
          /\ Goes(r, [at |-> "comparePassword", ip |-> ip, user |-> user])
    BY <1>5, StartMoves
  <2>3. CASE key \in {ip, "account"}
    <3>1. attempts[key].over \/ attempts[key].count <= MaxAttempts - 1
      BY <1>n, <2>2, <2>3 DEF Allowed
    <3> QED BY <1>n, <2>1, <3>1 DEF Bounded
  <2>4. CASE key \notin {ip, "account"}
    <3>1. Comparing(key)' \subseteq Comparing(key)
      BY <2>2, <2>4, OneMoves DEF Comparing
    <3> QED BY <1>0, <2>1, <3>1, BoundKept
  <2> QED BY <2>3, <2>4
<1>6. ASSUME NEW r \in Requests, LoginFails(r)
      PROVE  Bounded(key)'
  <2>1. /\ Comparing(key)' \subseteq Comparing(key) \ {r} /\ r \notin Comparing(key)'
        /\ request[r].at = "comparePassword"
    BY <1>6, NotLetIn DEF LoginFails, Ends, Idle
  <2>2. CASE key \in {request[r].ip, "account"}
    <3>1. r \in Comparing(key)
      BY <2>1, <2>2 DEF Comparing
    <3>2. attempts'[key] = Recorded(attempts[key])
      BY <1>6, <2>2, HeldRow DEF LoginFails, RecordFailedLogin, TypeOK, Keys
    <3>3. /\ Cardinality(Comparing(key)') <= Cardinality(Comparing(key)) - 1
          /\ Cardinality(Comparing(key)') + 1 <= Cardinality(Requests)
      <4>1. Comparing(key) \in SUBSET Requests /\ Comparing(key) \ {r} \in SUBSET Requests
        BY AttemptNumbers
      <4>2. /\ Cardinality(Comparing(key) \ {r}) = Cardinality(Comparing(key)) - 1
            /\ Cardinality(Comparing(key) \ {r}) + 1 <= Cardinality(Requests)
        BY <3>1, <4>1, RequestsFinite, SubsetCounts
      <4>3. Cardinality(Comparing(key)') <= Cardinality(Comparing(key) \ {r})
        BY <2>1, <4>1, RequestsFinite, SubsetCounts
      <4> QED BY <1>n, <4>1, <4>2, <4>3, RequestsFinite, SubsetCounts
    <3>4. CASE attempts[key].count = 0 \/ attempts[key].over
      <4>1. attempts'[key].count = 1
        BY <3>2, <3>4 DEF Recorded
      <4> QED BY <1>n, <3>3, <4>1 DEF Bounded
    <3>5. CASE ~(attempts[key].count = 0 \/ attempts[key].over)
      <4>1. attempts'[key].count = attempts[key].count + 1
        BY <3>2, <3>5, AttemptNumbers DEF Recorded, LoginAttempt
      <4> QED BY <1>0, <1>n, <3>3, <3>5, <4>1 DEF Bounded
    <3> QED BY <3>4, <3>5
  <2>3. CASE key \notin {request[r].ip, "account"}
    <3>1. attempts'[key] = attempts[key]
      BY <1>6, <2>3 DEF LoginFails, RecordFailedLogin, TypeOK
    <3> QED BY <1>0, <2>1, <3>1, BoundKept
  <2> QED BY <2>2, <2>3
<1>7. ASSUME NEW r \in Requests, LoginSucceeds(r)
      PROVE  Bounded(key)'
  <2>1. Comparing(key)' \subseteq Comparing(key)
    BY <1>7, NotLetIn DEF LoginSucceeds
  <2>2. attempts'[key] \in {attempts[key], [count |-> 0, over |-> FALSE]}
    BY <1>7 DEF LoginSucceeds, TypeOK
  <2>3. CASE attempts'[key] = attempts[key]
    BY <1>0, <2>1, <2>3, BoundKept
  <2>4. CASE attempts'[key] = [count |-> 0, over |-> FALSE]
    BY <1>n, <2>4 DEF Bounded
  <2> QED BY <2>2, <2>3, <2>4
<1>8. ASSUME NEW ended \in Keys, WindowEnds(ended)
      PROVE  Bounded(key)'
  <2>1. Comparing(key)' = Comparing(key)
    BY <1>8 DEF WindowEnds, Comparing
  <2>2. CASE key = ended
    <3>1. attempts'[key] = [attempts[key] EXCEPT !.over = TRUE]
      BY <1>8, <2>2 DEF WindowEnds, TypeOK
    <3>2. attempts'[key].over = TRUE
      BY <3>1, AttemptNumbers DEF LoginAttempt
    <3> QED BY <3>2 DEF Bounded
  <2>3. CASE key # ended
    <3>1. attempts'[key] = attempts[key]
      BY <1>8, <2>3 DEF WindowEnds, TypeOK
    <3> QED BY <1>0, <2>1, <3>1, BoundKept
  <2> QED BY <2>2, <2>3
<1>9. CASE Restart
  <2>1. attempts'[key] = [count |-> 0, over |-> FALSE]
    BY <1>9 DEF Restart
  <2> QED BY <1>n, <2>1 DEF Bounded
<1>10. CASE Freeze \/ UNCHANGED vars
  <2>1. attempts' = attempts /\ Comparing(key)' = Comparing(key)
    BY <1>10 DEF Freeze, vars, memory, Comparing
  <2> QED BY <1>0, <2>1, BoundKept
<1> QED BY <1>1, <1>2, <1>3, <1>4, <1>5, <1>6, <1>7, <1>8, <1>9, <1>10 DEF Next, Step

(* A lockout comes as late as the requests that were let in before it, and *)
(* no later: the limits are checked before the password is compared, and   *)
(* a failure is counted after it.                                          *)
THEOREM LockoutComes == Spec => []LockoutHolds
<1>1. Init => LockoutHolds
  <2> SUFFICES ASSUME Init, NEW key \in Keys PROVE Bounded(key)
    BY DEF LockoutHolds, Bounded
  <2>1. Comparing(key) = {} /\ attempts[key].count = 0
    BY DEF Init, Comparing, Idle
  <2> QED BY <2>1, AuthAssumption, RequestsFinite, SubsetCounts DEF Bounded
<1> QED BY <1>1, LockoutStep, TypeCorrect, PTL DEF Spec
=============================================================================
