---------------------------- MODULE AuthSession ----------------------------
(***************************************************************************)
(* AuthService (services/auth-service) and one account of it: register,    *)
(* login, refresh, logout, and the set-up of the second factor.            *)
(*                                                                         *)
(* Requests run side by side on one event loop: each await ends a step.    *)
(* Failed logins and pending secrets are in the memory of the service, the *)
(* user's row and the sessions in the database.  Rows are read, changed in *)
(* memory and saved as a whole.  A refusal that leaves everything as it    *)
(* was (a wrong refresh token, an expired session, a wrong code) is no     *)
(* step.                                                                   *)
(***************************************************************************)
EXTENDS Naturals, Sequences, FiniteSets

CONSTANTS
  Requests,              \* requests that the service handles at the same time
  Ips,
  NoSecret,
  MaxAttempts,           \* failed logins after which a key is locked out
  MaxRequests, MaxSecrets, MaxRestarts             \* bounds

ASSUME AuthAssumption ==
  /\ IsFiniteSet(Requests) /\ MaxAttempts \in Nat \ {0}
  /\ "account" \notin Ips /\ NoSecret \notin Nat

VARIABLES
  user,            \* the rows of the users table that have the email
  sessions,        \* the rows of the sessions table
  attempts,        \* loginAttempts: failures, and whether the window is over
  pending,         \* pendingTotpSecrets: the secret that is being set up
  request,         \* per request: where it is, and the rows that it has read
  tokens,          \* refresh tokens drawn so far
  secrets,         \* TOTP secrets drawn so far
  spent,           \* history: refresh tokens that were exchanged
  proved,          \* history: secrets of which a right code was given
  closed,          \* history: sessions seen revoked with no request at work
  frozen,          \* history: tokens drawn when the account was seen frozen then
  requests, restarts                               \* counters for the bounds

memory == <<attempts, pending>>
history == <<spent, proved>>
seen == <<closed, frozen>>
vars == <<user, sessions, memory, request, tokens, secrets, history, seen, requests,
          restarts>>

Keys == Ips \cup {"account"}

(* Rows of the two tables, and a key of loginAttempts. *)
UserEntity == [active : BOOLEAN, totp : (1..secrets) \cup {NoSecret}]
SessionEntity == [hash : 1..tokens, revoked : BOOLEAN]
LoginAttempt == [count : Nat, over : BOOLEAN]

Idle == [at |-> "idle"]

Init ==
  /\ user = << >> /\ sessions = << >>
  /\ attempts = [k \in Keys |-> [count |-> 0, over |-> FALSE]]
  /\ pending = NoSecret
  /\ request = [r \in Requests |-> Idle]
  /\ tokens = 0 /\ secrets = 0
  /\ spent = {} /\ proved = {}
  /\ closed = {} /\ frozen = {}
  /\ requests = 0 /\ restarts = 0

Begin(r) ==
  /\ request[r].at = "idle"
  /\ requests < MaxRequests
  /\ requests' = requests + 1

Goes(r, state) == request' = [request EXCEPT ![r] = state]
Ends(r) == Goes(r, Idle)

-----------------------------------------------------------------------------
(* register *)

(* No user has the email yet; the password is hashed. *)
StartRegister(r) ==
  /\ Begin(r)
  /\ user = << >>
  /\ Goes(r, [at |-> "saveUser"])
  /\ UNCHANGED <<user, sessions, memory, tokens, secrets, history, restarts>>

(* The email is unique in the table: the second of two is refused. *)
SaveUser(r) ==
  /\ request[r].at = "saveUser"
  /\ user' = IF user = << >> THEN <<[active |-> TRUE, totp |-> NoSecret]>> ELSE user
  /\ Ends(r)
  /\ UNCHANGED <<sessions, memory, tokens, secrets, history, requests, restarts>>

-----------------------------------------------------------------------------
(* login *)

(* Mutant of Allowed: one failure more than the limit. *)
AllowedAtLimit(key) == attempts[key].count <= MaxAttempts \/ attempts[key].over

(* enforceRateLimit *)
Allowed(key) == attempts[key].count < MaxAttempts \/ attempts[key].over

(* The limits are checked and the user is looked up. *)
StartLogin(r) ==
  /\ Begin(r)
  /\ \E ip \in Ips :
       /\ Allowed(ip) /\ Allowed("account")
       /\ Goes(r, [at |-> "comparePassword", ip |-> ip, user |-> user])
  /\ UNCHANGED <<user, sessions, memory, tokens, secrets, history, restarts>>

(* recordFailedLogin: a failure after the window opens a new one. *)
Recorded(attempt) ==
  IF attempt.count = 0 \/ attempt.over THEN [count |-> 1, over |-> FALSE]
  ELSE [attempt EXCEPT !.count = @ + 1]

RecordFailedLogin(ip) ==
  attempts' = [attempts EXCEPT ![ip] = Recorded(@), !["account"] = Recorded(@)]

(* Unknown user, wrong password, or wrong code of the second factor. *)
LoginFails(r) ==
  /\ request[r].at = "comparePassword"
  /\ RecordFailedLogin(request[r].ip)
  /\ Ends(r)
  /\ UNCHANGED <<user, sessions, pending, tokens, secrets, history, requests, restarts>>

(* The right password, for an account that was not active when it was read. *)
LoginRefused(r) ==
  /\ request[r].at = "comparePassword"
  /\ request[r].user # << >> /\ ~request[r].user[1].active
  /\ Ends(r)
  /\ UNCHANGED <<user, sessions, memory, tokens, secrets, history, requests, restarts>>

(* The right password, and the right code if there is a second factor. *)
LoginSucceeds(r) ==
  /\ request[r].at = "comparePassword"
  /\ request[r].user # << >> /\ request[r].user[1].active
  /\ attempts' = [attempts EXCEPT ![request[r].ip] = [count |-> 0, over |-> FALSE],
                                  !["account"] = [count |-> 0, over |-> FALSE]]
  /\ Goes(r, [at |-> "saveSession"])
  /\ UNCHANGED <<user, sessions, pending, tokens, secrets, history, requests, restarts>>

SaveSession(r) ==
  /\ request[r].at = "saveSession"
  /\ tokens' = tokens + 1
  /\ sessions' = Append(sessions, [hash |-> tokens', revoked |-> FALSE])
  /\ Ends(r)
  /\ UNCHANGED <<user, memory, secrets, history, requests, restarts>>

(* Fifteen minutes after the first failure of a window. *)
WindowEnds(key) ==
  /\ attempts[key].count > 0 /\ ~attempts[key].over
  /\ attempts' = [attempts EXCEPT ![key].over = TRUE]
  /\ UNCHANGED <<user, sessions, pending, request, tokens, secrets, history, requests,
                 restarts>>

-----------------------------------------------------------------------------
(* refresh and logout *)

(* Mutant of Valid: a revoked session is as good as any. *)
ValidIfKnown(session) == session.hash > 0

Valid(session) == ~session.revoked

(* The session is read; the token is the one whose hash it has. *)
StartRefresh(r) ==
  /\ Begin(r)
  /\ \E s \in DOMAIN sessions :
       /\ Valid(sessions[s])
       /\ Goes(r, [at |-> "checkUser", id |-> s, row |-> sessions[s]])
  /\ UNCHANGED <<user, sessions, memory, tokens, secrets, history, restarts>>

(* Mutant of CheckUser: any user that exists will do. *)
CheckUserExists(r) ==
  /\ request[r].at = "checkUser"
  /\ Goes(r, IF user # << >> THEN [request[r] EXCEPT !.at = "saveRefreshed"] ELSE Idle)
  /\ UNCHANGED <<user, sessions, memory, tokens, secrets, history, requests, restarts>>

CheckUser(r) ==
  /\ request[r].at = "checkUser"
  /\ Goes(r, IF user # << >> /\ user[1].active
             THEN [request[r] EXCEPT !.at = "saveRefreshed"] ELSE Idle)
  /\ UNCHANGED <<user, sessions, memory, tokens, secrets, history, requests, restarts>>

(* Mutant of Rotated: only the expiry of the session moves. *)
Prolonged(row, token) == row

Rotated(row, token) == [row EXCEPT !.hash = token]

(* The whole row is saved as it was read, with the hash of a new token. *)
SaveRefreshed(r) ==
  /\ request[r].at = "saveRefreshed"
  /\ tokens' = tokens + 1
  /\ sessions' = [sessions EXCEPT ![request[r].id] = Rotated(request[r].row, tokens')]
  /\ spent' = spent \cup {request[r].row.hash}
  /\ Ends(r)
  /\ UNCHANGED <<user, memory, secrets, proved, requests, restarts>>

(* The session is read, revoked or not; the token is the one of its hash. *)
StartLogout(r) ==
  /\ Begin(r)
  /\ \E s \in DOMAIN sessions :
       Goes(r, [at |-> "saveRevoked", id |-> s, row |-> sessions[s]])
  /\ UNCHANGED <<user, sessions, memory, tokens, secrets, history, restarts>>

SaveRevoked(r) ==
  /\ request[r].at = "saveRevoked"
  /\ sessions' = [sessions EXCEPT ![request[r].id] = [request[r].row EXCEPT !.revoked = TRUE]]
  /\ Ends(r)
  /\ UNCHANGED <<user, memory, tokens, secrets, history, requests, restarts>>

-----------------------------------------------------------------------------
(* The second factor *)

(* setupTotp: a new secret takes the place of a pending one. *)
SetupTotp(r) ==
  /\ Begin(r)
  /\ user # << >> /\ secrets < MaxSecrets
  /\ secrets' = secrets + 1
  /\ pending' = secrets'
  /\ UNCHANGED <<user, sessions, attempts, request, tokens, history, restarts>>

(* verifyTotpForUser *)
StartVerify(r) ==
  /\ Begin(r)
  /\ user # << >>
  /\ Goes(r, [at |-> "checkCode", row |-> user[1]])
  /\ UNCHANGED <<user, sessions, memory, tokens, secrets, history, restarts>>

(* A code of the secret that is pending now is right or wrong; or it is    *)
(* too late for that secret.  Without one, nothing changes.                *)
CheckCode(r) ==
  /\ request[r].at = "checkCode"
  /\ \/ /\ pending # NoSecret
        /\ proved' = proved \cup {pending}
        /\ Goes(r, [at |-> "saveSecret", row |-> [request[r].row EXCEPT !.totp = pending]])
        /\ UNCHANGED pending
     \/ /\ pending # NoSecret
        /\ pending' = NoSecret
        /\ Ends(r)
        /\ UNCHANGED proved
     \/ /\ Ends(r)
        /\ UNCHANGED <<pending, proved>>
  /\ UNCHANGED <<user, sessions, attempts, tokens, secrets, spent, requests, restarts>>

(* Mutant of SaveSecret: the secret that is pending by now is saved. *)
SavePending(r) ==
  /\ request[r].at = "saveSecret"
  /\ user' = <<[request[r].row EXCEPT !.totp = pending]>>
  /\ Goes(r, [at |-> "dropPending"])
  /\ UNCHANGED <<sessions, memory, tokens, secrets, history, requests, restarts>>

(* The whole row of the user is saved as it was read, with the secret. *)
SaveSecret(r) ==
  /\ request[r].at = "saveSecret"
  /\ user' = <<request[r].row>>
  /\ Goes(r, [at |-> "dropPending"])
  /\ UNCHANGED <<sessions, memory, tokens, secrets, history, requests, restarts>>

(* Whatever is pending by now is dropped. *)
DropPending(r) ==
  /\ request[r].at = "dropPending"
  /\ pending' = NoSecret
  /\ Ends(r)
  /\ UNCHANGED <<user, sessions, attempts, tokens, secrets, history, requests, restarts>>

-----------------------------------------------------------------------------
(* An operator freezes or closes the account. *)
Freeze ==
  /\ user # << >> /\ user[1].active
  /\ user' = <<[user[1] EXCEPT !.active = FALSE]>>
  /\ UNCHANGED <<sessions, memory, request, tokens, secrets, history, requests, restarts>>

(* The service restarts: requests and what it had in memory are gone. *)
Restart ==
  /\ restarts < MaxRestarts
  /\ restarts' = restarts + 1
  /\ attempts' = [k \in Keys |-> [count |-> 0, over |-> FALSE]]
  /\ pending' = NoSecret
  /\ request' = [r \in Requests |-> Idle]
  /\ UNCHANGED <<user, sessions, tokens, secrets, history, requests>>

Step ==
  \/ \E r \in Requests :
       \/ StartRegister(r) \/ SaveUser(r)
       \/ StartLogin(r) \/ LoginFails(r) \/ LoginRefused(r) \/ LoginSucceeds(r)
       \/ SaveSession(r)
       \/ StartRefresh(r) \/ CheckUser(r) \/ SaveRefreshed(r)
       \/ StartLogout(r) \/ SaveRevoked(r)
       \/ SetupTotp(r) \/ StartVerify(r) \/ CheckCode(r) \/ SaveSecret(r) \/ DropPending(r)
  \/ \E key \in Keys : WindowEnds(key)
  \/ Freeze \/ Restart

Quiet == \A r \in Requests : request[r].at = "idle"

(* What an observer notes whenever no request is at work. *)
Observe ==
  /\ closed' = IF Quiet' THEN closed \cup {<<s, sessions'[s]>> :
                                      s \in {i \in DOMAIN sessions' : sessions'[i].revoked}}
               ELSE closed
  /\ frozen' = IF Quiet' /\ frozen = {} /\ user' # << >> /\ ~user'[1].active
               THEN {tokens'} ELSE frozen

Next == Step /\ Observe

Spec == Init /\ [][Next]_vars

-----------------------------------------------------------------------------
(* Properties *)

(* The email is unique: no row, or one. *)
Rows == {<< >>} \cup {<<row>> : row \in UserEntity}

(* What a request holds between two of its steps. *)
Held ==
  [at : {"idle", "saveUser", "saveSession", "dropPending"}]
  \cup [at : {"comparePassword"}, ip : Ips, user : Rows]
  \cup [at : {"checkUser", "saveRefreshed", "saveRevoked"}, id : DOMAIN sessions,
        row : SessionEntity]
  \cup [at : {"checkCode", "saveSecret"}, row : UserEntity]

(* The variables have their types. *)
TypeOK ==
  /\ user \in Rows /\ sessions \in Seq(SessionEntity)
  /\ attempts \in [Keys -> LoginAttempt]
  /\ tokens \in Nat /\ secrets \in Nat
  /\ pending \in (1..secrets) \cup {NoSecret}
  /\ request \in [Requests -> Held]
  /\ spent \subseteq 1..tokens /\ proved \subseteq 1..secrets

Comparing(key) ==
  {r \in Requests : request[r].at = "comparePassword" /\ key \in {request[r].ip, "account"}}

(* A lockout comes as late as the requests that were let in before it, and *)
(* no later: in one window, and with no success in between, the failures   *)
(* of an account, from any addresses, and those that may still follow are  *)
(* no more than the limit and the other requests together.                 *)
LockoutHolds ==
  \A key \in Keys : ~attempts[key].over =>
    attempts[key].count + Cardinality(Comparing(key))
      <= MaxAttempts + Cardinality(Requests) - 1

(* A session that was revoked while no request was at work stays revoked,  *)
(* and no token is drawn for it any more: a refresh can bring it back only *)
(* if it overlaps the logout.                                              *)
RevokedForGood == \A c \in closed : sessions[c[1]] = c[2]

(* A refresh token that was exchanged opens no session again, though a     *)
(* late logout may write its hash back into the row.                       *)
SpentTokensAreDead ==
  \A s \in DOMAIN sessions : sessions[s].hash \in spent => sessions[s].revoked

(* An account that was frozen while no request was at work stays frozen,   *)
(* and no token is drawn for it: the set-up of the second factor saves the *)
(* whole row, and undoes a change of status only if it overlaps it.        *)
FrozenForGood == \A n \in frozen : ~user[1].active /\ tokens = n

(* The second factor asks for codes of a secret only after its owner has   *)
(* given one, whatever is set up and verified at the same time.            *)
SecretProved ==
  user # << >> /\ user[1].totp # NoSecret => user[1].totp \in proved
=============================================================================
