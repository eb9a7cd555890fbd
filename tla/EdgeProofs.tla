----------------------------- MODULE EdgeProofs -----------------------------
(***************************************************************************)
(* Theorems about ApiGateway and MarketData, as MCEdge puts them together: *)
(* every behaviour is of the one or of the other, and leaves the variables *)
(* of the other as they were.                                              *)
(***************************************************************************)
EXTENDS MCEdge, FoldProofs, SequenceTheorems

-----------------------------------------------------------------------------
(* The gateway's calls *)

(* A call that passes the guard and the check of its handler is made by    *)
(* the owner of what it is about, or by an operator.                       *)
LEMMA PermittedToOwners ==
  ASSUME NEW caller, NEW route, NEW user, Permitted(caller, route, user)
  PROVE  \/ route \in PublicRoutes \cup OpenRoutes \/ IsPrivileged(caller)
         \/ /\ caller.user # Nobody
            /\ \/ route \in OwnRoutes \cup ListRoutes /\ user = caller.user
               \/ route \in DefaultedRoutes /\ user \in {caller.user, Nobody}
<1>1. CASE route \in PublicRoutes \cup OpenRoutes
  BY <1>1
<1>2. CASE /\ route \in OwnRoutes \cup DefaultedRoutes
           /\ SelfOrPrivileged(caller, UserOf(caller, route, user))
  BY <1>2 DEF SelfOrPrivileged, UserOf, HasBearer
<1>3. CASE /\ route \in ListRoutes
           /\ IF user = Nobody THEN IsPrivileged(caller) ELSE SelfOrPrivileged(caller, user)
  BY <1>3 DEF SelfOrPrivileged, HasBearer
<1>4. CASE route \in OperatorRoutes /\ IsPrivileged(caller)
  BY <1>4
<1> QED BY <1>1, <1>2, <1>3, <1>4 DEF Permitted

(* What is about one account reaches a service only for its owner or an    *)
(* operator, whatever calls are made and however the services answer       *)
(* (GatewayAuthGuard and the handlers' checks).                            *)
THEOREM OwnersOnly == Spec => []OwnersAndOperators
<1>1. Init => OwnersAndOperators
  BY DEF Init, GatewayInit, OwnersAndOperators
<1>2. OwnersAndOperators /\ [Next]_<<gatewayVars, marketVars, part>> => OwnersAndOperators'
  <2> SUFFICES ASSUME OwnersAndOperators, [Next]_<<gatewayVars, marketVars, part>>
               PROVE  OwnersAndOperators'
    OBVIOUS
  <2>1. CASE sent' = {}
    BY <2>1 DEF OwnersAndOperators
  <2>2. CASE sent' = sent
    BY <2>2 DEF OwnersAndOperators
  <2>3. ASSUME NEW c, NEW caller, NEW route, NEW user, NEW b,
               Send(c, caller, route, user, b), sent' # {}
        PROVE  OwnersAndOperators'
    <3>1. sent' = {<<caller, route, user>>} /\ Permitted(caller, route, user)
      BY <2>3 DEF Send
    <3> QED BY <3>1, PermittedToOwners DEF OwnersAndOperators
  <2>4. CASE GatewayNext
    <3>1. CASE Tick
      BY <2>1, <3>1 DEF Tick
    <3>2. ASSUME NEW b \in Upstreams, Switch(b) PROVE OwnersAndOperators'
      BY <2>1, <3>2 DEF Switch
    <3>3. ASSUME NEW c \in Calls, Answer(c) \/ TimeOut(c) PROVE OwnersAndOperators'
      BY <2>1, <3>3 DEF Answer, TimeOut
    <3> QED BY <2>1, <2>3, <2>4, <3>1, <3>2, <3>3 DEF GatewayNext
  <2>5. CASE UNCHANGED gatewayVars
    BY <2>2, <2>5 DEF gatewayVars
  <2> QED BY <2>4, <2>5 DEF Next
<1> QED BY <1>1, <1>2, PTL DEF Spec

-----------------------------------------------------------------------------
(* The limit on calls *)

(* The last of the sums of the first elements is the sum of all. *)
LEMMA PrefixIsSum ==
  ASSUME NEW n \in Nat, NEW f \in [1..n -> Int], NEW p \in [0..n -> Int], Adds(p, f, n)
  PROVE  SumFunction(f) = p[n]
<1> DEFINE S == 1..n
           first(k) == [i \in S |-> IF i <= k THEN f[i] ELSE 0]
           N == {k \in Nat : k <= n => SumOf(first(k), S) = p[k]}
<1>0. IsFiniteSet(S) /\ \A k \in Nat : first(k) \in [S -> Int]
  BY FS_Interval
<1>1. 0 \in N
  <2>1. \A x \in S : x # 0 => first(0)[x] = 0
    OBVIOUS
  <2>2. first(0) \in [S -> Int] /\ 0 \notin S
    BY <1>0
  <2> HIDE DEF first, S
  <2>3. SumOf(first(0), S) = 0
    BY <1>0, <2>1, <2>2, SumOfOne
  <2> QED BY <2>3 DEF Adds
<1>2. ASSUME NEW k \in Nat, k \in N
      PROVE  k + 1 \in N
  <2> SUFFICES ASSUME k + 1 <= n PROVE SumOf(first(k + 1), S) = p[k + 1]
    OBVIOUS
  <2>1. /\ k + 1 \in S /\ (k + 1) - 1 = k /\ k \in 0..n
        /\ SumOf(first(k), S) = p[k] /\ p[k] \in Int /\ f[k + 1] \in Int
    BY <1>2
  <2>2. \A x \in S : x # k + 1 => first(k + 1)[x] = first(k)[x]
    OBVIOUS
  <2>3. first(k + 1)[k + 1] = f[k + 1] /\ first(k)[k + 1] = 0
    BY <2>1
  <2>4. first(k) \in [S -> Int] /\ first(k + 1) \in [S -> Int]
    BY <1>0
  <2>5. p[k + 1] = p[k] + f[k + 1]
    BY <2>1 DEF Adds
  <2> HIDE DEF first, S
  <2>6. SumOf(first(k + 1), S) = SumOf(first(k), S) + first(k + 1)[k + 1] - first(k)[k + 1]
    BY <1>0, <2>1, <2>2, <2>4, SumChanges
  <2> QED BY <2>1, <2>3, <2>5, <2>6
<1> HIDE DEF N
<1>3. n \in N
  BY <1>1, <1>2, SetInduction
<1>4. first(n) = f
  OBVIOUS
<1>5. SumFunction(f) = SumOf(f, S)
  <2>1. DOMAIN f = S
    OBVIOUS
  <2> QED BY <2>1 DEF SumFunction, SumFunctionOnSet, FoldFunctionOnSet, SumOf,
                       MapThenSumSet, MapThenFoldSet
<1> QED BY <1>3, <1>4, <1>5 DEF N

(* The calls of the last ticks after one tick more (Tick). *)
LEMMA TickShifts ==
  ASSUME NEW r \in [1..RateTicks -> Nat]
  PROVE  /\ <<0>> \o Front(r) \in [1..RateTicks -> Nat]
         /\ (<<0>> \o Front(r))[1] = 0
         /\ \A i \in 1..RateTicks - 1 : (<<0>> \o Front(r))[i + 1] = r[i]
<1>0. RateTicks \in Nat /\ RateTicks >= 1
  BY GatewayAssumption
<1>1. r \in Seq(Nat) /\ Len(r) = RateTicks
  BY <1>0
<1> DEFINE front == SubSeq(r, 1, Len(r) - 1)
<1>2. /\ front \in Seq(Nat) /\ Len(front) = RateTicks - 1
      /\ \A i \in 1..RateTicks - 1 : front[i] = r[i]
  BY <1>0, <1>1
<1>3. Front(r) = front
  BY DEF Front
<1> HIDE DEF front
<1>4. <<0>> \in Seq(Nat) /\ Len(<<0>>) = 1 /\ <<0>>[1] = 0
  OBVIOUS
<1>5. /\ <<0>> \o front \in Seq(Nat)
      /\ Len(<<0>> \o front) = RateTicks
      /\ \A i \in 1..RateTicks : (<<0>> \o front)[i] = IF i <= 1 THEN 0 ELSE front[i - 1]
  BY <1>0, <1>2, <1>4, ConcatProperties
<1>6. \A i \in 1..RateTicks - 1 : (<<0>> \o front)[i + 1] = front[i]
  <2> TAKE i \in 1..RateTicks - 1
  <2>1. i + 1 \in 1..RateTicks /\ ~(i + 1 <= 1) /\ (i + 1) - 1 = i
    BY <1>0
  <2> QED BY <1>5, <2>1
<1>7. <<0>> \o front \in [1..RateTicks -> Nat]
  <2> DEFINE cat == <<0>> \o front
  <2>1. cat \in Seq(Nat) /\ Len(cat) = RateTicks
    BY <1>5
  <2> HIDE DEF cat
  <2>2. cat \in [1..RateTicks -> Nat]
    BY <2>1
  <2> QED BY <2>2 DEF cat
<1>8. (<<0>> \o front)[1] = 0
  BY <1>0, <1>5
<1> QED BY <1>2, <1>3, <1>6, <1>7, <1>8

(* The calls of one key, `r`, and its bucket `b`: the last ticks fall into *)
(* the window that is open and, at most, one before it; no window lets     *)
(* more through than the limit.                                            *)
WindowOK(b, r) ==
  \E p \in [0..RateTicks -> Nat] :
    /\ Adds(p, r, RateTicks)
    /\ b.left = 0 => r[1] = 0 /\ p[RateTicks] <= RateLimit
    /\ b.left > 0 =>
         /\ p[RateTicks - b.left + 1] <= b.count
         /\ p[RateTicks - b.left + 1] <= RateLimit
         /\ p[RateTicks] - p[RateTicks - b.left + 1] <= RateLimit

GuardsTyped ==
  /\ buckets \in [Keys -> Bucket]
  /\ recent \in [Keys -> [1..RateTicks -> Nat]]

RateInv == GuardsTyped /\ \A k \in Keys : WindowOK(buckets[k], recent[k])

(* In two windows at most twice the limit is let through. *)
LEMMA WindowBounds ==
  ASSUME NEW b \in Bucket, NEW r \in [1..RateTicks -> Nat], WindowOK(b, r)
  PROVE  SumFunction(r) <= 2 * RateLimit
<1>0. RateTicks \in Nat /\ RateTicks >= 1 /\ RateLimit \in Nat
  BY GatewayAssumption
<1>1. b.left \in 0..RateTicks
  BY DEF Bucket
<1>2. PICK p \in [0..RateTicks -> Nat] :
        /\ Adds(p, r, RateTicks)
        /\ b.left = 0 => p[RateTicks] <= RateLimit
        /\ b.left > 0 =>
             /\ p[RateTicks - b.left + 1] <= RateLimit
             /\ p[RateTicks] - p[RateTicks - b.left + 1] <= RateLimit
  BY DEF WindowOK
<1>3. r \in [1..RateTicks -> Int] /\ p \in [0..RateTicks -> Int]
  OBVIOUS
<1>4. SumFunction(r) = p[RateTicks]
  BY <1>0, <1>2, <1>3, PrefixIsSum
<1>5. RateTicks \in 0..RateTicks /\ p[RateTicks] \in Nat
  BY <1>0
<1>6. CASE b.left = 0
  BY <1>0, <1>2, <1>4, <1>5, <1>6
<1>7. CASE b.left > 0
  <2>1. RateTicks - b.left + 1 \in 0..RateTicks
    BY <1>0, <1>1, <1>7
  <2>2. p[RateTicks - b.left + 1] \in Nat
    BY <2>1
  <2> QED BY <1>0, <1>2, <1>4, <1>5, <1>7, <2>2
<1> QED BY <1>1, <1>6, <1>7

(* A call that is let through is counted in both (GatewayRateGuard). *)
LEMMA PassKeepsWindow ==
  ASSUME NEW b \in Bucket, NEW r \in [1..RateTicks -> Nat], WindowOK(b, r)
  PROVE  /\ Counted(b) \in Bucket
         /\ WithinLimit(b) => /\ [r EXCEPT ![1] = @ + 1] \in [1..RateTicks -> Nat]
                              /\ WindowOK(Counted(b), [r EXCEPT ![1] = @ + 1])
         /\ ~WithinLimit(b) => WindowOK(Counted(b), r)
<1> DEFINE T == RateTicks
           c == Counted(b)
           q == [r EXCEPT ![1] = @ + 1]
<1>0. T \in Nat /\ T >= 1 /\ RateLimit \in Nat /\ RateLimit >= 1 /\ 1 \in 1..T
  BY GatewayAssumption
<1>1. b.left \in 0..T /\ b.count \in 0..RateLimit + 1 /\ b = [count |-> b.count, left |-> b.left]
  BY DEF Bucket
<1>2. PICK p \in [0..T -> Nat] :
        /\ Adds(p, r, T)
        /\ b.left = 0 => r[1] = 0 /\ p[T] <= RateLimit
        /\ b.left > 0 =>
             /\ p[T - b.left + 1] <= b.count
             /\ p[T - b.left + 1] <= RateLimit
             /\ p[T] - p[T - b.left + 1] <= RateLimit
  BY DEF WindowOK
<1>3. Min({b.count + 1, RateLimit + 1}) \in {b.count + 1, RateLimit + 1}
      /\ Min({b.count + 1, RateLimit + 1}) <= b.count + 1
      /\ Min({b.count + 1, RateLimit + 1}) <= RateLimit + 1
  <2> DEFINE S == {b.count + 1, RateLimit + 1}
  <2>1. \E x \in S : \A y \in S : x <= y
    BY <1>0, <1>1
  <2>2. Min(S) \in S /\ \A y \in S : Min(S) <= y
    BY <2>1 DEF Min
  <2> QED BY <2>2
<1>4. /\ Fresh(b) => c.count = 1 /\ c.left = T
      /\ ~Fresh(b) => c.count = Min({b.count + 1, RateLimit + 1}) /\ c.left = b.left
      /\ c \in Bucket
  <2>1. CASE Fresh(b)
    <3>1. c = [count |-> 1, left |-> T]
      BY <2>1 DEF Counted
    <3> QED BY <1>0, <2>1, <3>1 DEF Bucket
  <2>2. CASE ~Fresh(b)
    <3> DEFINE m == Min({b.count + 1, RateLimit + 1})
    <3>1. c = [b EXCEPT !.count = m]
      BY <2>2 DEF Counted
    <3>2. m \in 0..RateLimit + 1
      BY <1>0, <1>1, <1>3
    <3> HIDE DEF m, c
    <3>3. c = [count |-> m, left |-> b.left]
      BY <1>1, <3>1
    <3>4. c \in Bucket /\ c.count = m /\ c.left = b.left
      BY <1>1, <3>2, <3>3 DEF Bucket
    <3> QED BY <2>2, <3>4 DEF m
  <2> QED BY <2>1, <2>2
<1> HIDE DEF c
<1>5. ASSUME WithinLimit(b)
      PROVE  q \in [1..T -> Nat] /\ WindowOK(c, q)
  <2> DEFINE pp == [k \in 0..T |-> IF k = 0 THEN 0 ELSE p[k] + 1]
  <2>1. pp \in [0..T -> Nat] /\ pp[0] = 0 /\ \A k \in 1..T : pp[k] = p[k] + 1
    BY <1>0
  <2>2. q \in [1..T -> Nat] /\ q[1] = r[1] + 1 /\ \A k \in 1..T : k # 1 => q[k] = r[k]
    BY <1>0
  <2> HIDE DEF pp, q
  <2>3. Adds(pp, q, T)
    <3> SUFFICES ASSUME NEW k \in 1..T PROVE pp[k] = pp[k - 1] + q[k]
      BY <2>1 DEF Adds
    <3>1. p[k] = p[k - 1] + r[k] /\ p[0] = 0 /\ k - 1 \in 0..T /\ p[k - 1] \in Nat
          /\ r[k] \in Nat
      BY <1>0, <1>2 DEF Adds
    <3>2. CASE k = 1
      BY <2>1, <2>2, <3>1, <3>2
    <3>3. CASE k # 1
      <4>1. k - 1 \in 1..T
        BY <1>0, <3>3
      <4>2. pp[k - 1] = p[k - 1] + 1 /\ pp[k] = p[k] + 1 /\ q[k] = r[k]
        BY <2>1, <2>2, <3>3, <4>1
      <4> QED BY <3>1, <4>2
    <3> QED BY <3>2, <3>3
  <2>4. T \in 1..T /\ pp[T] = p[T] + 1 /\ p[T] \in Nat
    BY <1>0, <2>1
  <2>5. CASE Fresh(b)
    <3>1. b.left = 0 /\ c.count = 1 /\ c.left = T /\ T - T + 1 = 1
      BY <1>0, <1>4, <2>5 DEF Fresh
    <3>2. p[1] = p[0] + r[1] /\ p[0] = 0
      BY <1>0, <1>2 DEF Adds
    <3>3. pp[1] = 1 /\ p[T] <= RateLimit
      BY <1>0, <1>2, <2>1, <3>1, <3>2
    <3>4. pp[T - c.left + 1] = 1
      BY <3>1, <3>3
    <3>5. /\ c.left # 0 /\ pp[T - c.left + 1] <= c.count
          /\ pp[T - c.left + 1] <= RateLimit /\ pp[T] - pp[T - c.left + 1] <= RateLimit
      BY <1>0, <2>4, <3>1, <3>3, <3>4
    <3> QED BY <2>1, <2>2, <2>3, <3>5 DEF WindowOK
  <2>6. CASE ~Fresh(b)
    <3>1. b.left > 0 /\ b.count < RateLimit /\ c.left = b.left /\ c.count = b.count + 1
      <4>1. b.left > 0 /\ b.count < RateLimit
        BY <1>1, <1>5, <2>6 DEF Fresh, WithinLimit
      <4> QED BY <1>0, <1>1, <1>3, <1>4, <2>6, <4>1
    <3> DEFINE i == T - b.left + 1
    <3>2. i \in 1..T /\ T - c.left + 1 = i
      BY <1>0, <1>1, <3>1
    <3>3. p[i] \in Nat /\ p[i] <= b.count /\ p[T] - p[i] <= RateLimit /\ pp[i] = p[i] + 1
      BY <1>2, <2>1, <3>1, <3>2
    <3>4. pp[i] <= c.count /\ pp[i] <= RateLimit /\ pp[T] - pp[i] <= RateLimit
      BY <1>0, <1>1, <2>4, <3>1, <3>3
    <3>5. c.left > 0 /\ c.left # 0
      BY <1>1, <3>1
    <3> QED BY <2>1, <2>2, <2>3, <3>2, <3>4, <3>5 DEF WindowOK
  <2> QED BY <2>5, <2>6
<1>6. ASSUME ~WithinLimit(b)
      PROVE  WindowOK(c, r)
  <2>1. ~Fresh(b) /\ b.left > 0 /\ c.left = b.left /\ b.count >= RateLimit
    BY <1>1, <1>0, <1>4, <1>6 DEF Fresh, WithinLimit
  <2>2. c.count >= RateLimit
    BY <1>0, <1>1, <1>3, <1>4, <2>1
  <2> DEFINE i == T - b.left + 1
  <2>3. i \in 1..T /\ T - c.left + 1 = i /\ p[i] \in Nat
    BY <1>0, <1>1, <2>1
  <2>4. p[i] <= RateLimit /\ p[T] - p[i] <= RateLimit /\ p[i] <= c.count
    <3>1. c.count \in Nat
      BY <1>4 DEF Bucket
    <3>2. p[i] <= RateLimit /\ p[T] - p[i] <= RateLimit
      BY <1>2, <2>1
    <3> HIDE DEF i
    <3> QED BY <1>0, <2>2, <2>3, <3>1, <3>2
  <2>5. c.left > 0 /\ c.left # 0
    BY <1>1, <2>1
  <2> HIDE DEF i
  <2> QED BY <1>2, <2>3, <2>4, <2>5 DEF WindowOK
<1> QED BY <1>4, <1>5, <1>6 DEF c

(* A tick moves the calls on, out of the window or with it (Tick). *)
LEMMA TickKeepsWindow ==
  ASSUME NEW b \in Bucket, NEW r \in [1..RateTicks -> Nat], WindowOK(b, r)
  PROVE  /\ Later(b) \in Bucket
         /\ <<0>> \o Front(r) \in [1..RateTicks -> Nat]
         /\ WindowOK(Later(b), <<0>> \o Front(r))
<1> DEFINE T == RateTicks
           q == <<0>> \o Front(r)
           c == Later(b)
<1>0. T \in Nat /\ T >= 1 /\ RateLimit \in Nat
  BY GatewayAssumption
<1>1. b.left \in 0..T /\ b.count \in 0..RateLimit + 1 /\ b = [count |-> b.count, left |-> b.left]
  BY DEF Bucket
<1>2. PICK p \in [0..T -> Nat] :
        /\ Adds(p, r, T)
        /\ b.left = 0 => r[1] = 0 /\ p[T] <= RateLimit
        /\ b.left > 0 =>
             /\ p[T - b.left + 1] <= b.count
             /\ p[T - b.left + 1] <= RateLimit
             /\ p[T] - p[T - b.left + 1] <= RateLimit
  BY DEF WindowOK
<1>3. /\ c \in Bucket /\ c.count = b.count
      /\ b.left > 0 => c.left = b.left - 1
      /\ b.left = 0 => c.left = 0
  <2> DEFINE n == IF b.left > 0 THEN b.left - 1 ELSE 0
  <2>1. n \in 0..T
    BY <1>0, <1>1
  <2>2. c = [b EXCEPT !.left = n]
    BY DEF Later
  <2> HIDE DEF n, c
  <2>3. c = [count |-> b.count, left |-> n]
    BY <1>1, <2>2
  <2>4. c \in Bucket /\ c.count = b.count /\ c.left = n
    BY <1>1, <2>1, <2>3 DEF Bucket
  <2> QED BY <2>4 DEF n
<1>4. q \in [1..T -> Nat] /\ q[1] = 0 /\ \A i \in 1..T - 1 : q[i + 1] = r[i]
  BY TickShifts
<1> HIDE DEF c, q
<1> DEFINE pp == [k \in 0..T |-> IF k = 0 THEN 0 ELSE p[k - 1]]
<1>5. pp \in [0..T -> Nat] /\ pp[0] = 0 /\ \A k \in 1..T : pp[k] = p[k - 1]
  <2>1. \A k \in 1..T : k - 1 \in 0..T /\ k \in 0..T
    BY <1>0
  <2>2. \A k \in 0..T : k # 0 => k \in 1..T
    BY <1>0
  <2> QED BY <1>0, <2>1, <2>2
<1> HIDE DEF pp
<1>6. Adds(pp, q, T)
  <2> SUFFICES ASSUME NEW k \in 1..T PROVE pp[k] = pp[k - 1] + q[k]
    BY <1>5 DEF Adds
  <2>1. CASE k = 1
    BY <1>2, <1>4, <1>5, <2>1 DEF Adds
  <2>2. CASE k # 1
    <3>1. k - 1 \in 1..T /\ k - 1 \in 1..T - 1 /\ (k - 1) + 1 = k
      BY <1>0, <2>2
    <3>2. q[k] = r[k - 1]
      BY <1>4, <3>1
    <3>3. p[k - 1] = p[(k - 1) - 1] + r[k - 1]
      BY <1>2, <3>1 DEF Adds
    <3>4. pp[k] = p[k - 1] /\ pp[k - 1] = p[(k - 1) - 1]
      BY <1>5, <3>1
    <3> QED BY <3>2, <3>3, <3>4
  <2> QED BY <2>1, <2>2
<1>7. pp[T] \in Nat /\ p[T] \in Nat /\ pp[T] <= p[T]
  <2>1. T \in 1..T /\ T - 1 \in 0..T /\ T \in 0..T
    BY <1>0
  <2>2. p[T] = p[T - 1] + r[T] /\ r[T] \in Nat /\ p[T - 1] \in Nat /\ p[T] \in Nat
    BY <1>2, <2>1 DEF Adds
  <2>3. pp[T] = p[T - 1]
    BY <1>5, <2>1
  <2> QED BY <2>2, <2>3
<1>8. ASSUME b.left = 0
       PROVE  WindowOK(c, q)
  <2>1. c.left = 0 /\ pp[T] <= RateLimit
    BY <1>0, <1>2, <1>3, <1>7, <1>8
  <2>2. ~(c.left > 0)
    BY <2>1
  <2> QED BY <1>4, <1>5, <1>6, <2>1, <2>2 DEF WindowOK
<1>9. ASSUME b.left = 1
       PROVE  WindowOK(c, q)
  <2>1. c.left = 0 /\ T - b.left + 1 = T
    BY <1>0, <1>3, <1>9
  <2>2. p[T] <= RateLimit
    BY <1>2, <1>9, <2>1
  <2>3. pp[T] <= RateLimit /\ ~(c.left > 0)
    BY <1>0, <1>7, <2>1, <2>2
  <2> QED BY <1>4, <1>5, <1>6, <2>1, <2>3 DEF WindowOK
<1>10. ASSUME b.left > 1
       PROVE  WindowOK(c, q)
  <2> DEFINE i == T - b.left + 1
  <2>1. /\ i \in 0..T /\ i + 1 \in 1..T /\ (i + 1) - 1 = i
        /\ c.left > 0 /\ c.left # 0 /\ T - c.left + 1 = i + 1 /\ b.left > 0
    BY <1>0, <1>1, <1>3, <1>10
  <2>2. /\ p[i] \in Nat /\ p[i] <= b.count /\ p[i] <= RateLimit
        /\ p[T] - p[i] <= RateLimit /\ pp[i + 1] = p[i]
    BY <1>2, <1>5, <2>1
  <2> HIDE DEF i
  <2>3. pp[T] - pp[i + 1] <= RateLimit
    BY <1>0, <1>7, <2>2
  <2>4. /\ pp[T - c.left + 1] <= c.count /\ pp[T - c.left + 1] <= RateLimit
        /\ pp[T] - pp[T - c.left + 1] <= RateLimit
    BY <1>3, <2>1, <2>2, <2>3
  <2> QED BY <1>5, <1>6, <2>1, <2>4 DEF WindowOK
<1> QED BY <1>1, <1>3, <1>4, <1>8, <1>9, <1>10 DEF c, q

(* No step lets more of a key's calls through than its windows allow. *)
LEMMA RateStep ==
  ASSUME RateInv, [Next]_<<gatewayVars, marketVars, part>>
  PROVE  RateInv'
<1>0. /\ GuardsTyped
      /\ \A k \in Keys : /\ buckets[k] \in Bucket /\ recent[k] \in [1..RateTicks -> Nat]
                         /\ WindowOK(buckets[k], recent[k])
  BY DEF RateInv, GuardsTyped
<1>1. CASE UNCHANGED guardVars
  BY <1>1 DEF RateInv, GuardsTyped, guardVars, WindowOK
<1>2. ASSUME NEW key, Passes(key)
      PROVE  RateInv'
  <2>1. CASE key \notin Keys
    <3>1. buckets' = buckets /\ recent' = recent
      BY <1>0, <1>2, <2>1 DEF Passes, GuardsTyped
    <3> QED BY <1>1, <3>1 DEF guardVars
  <2>2. CASE key \in Keys
    <3> DEFINE b == buckets[key]
               r == recent[key]
               q == [r EXCEPT ![1] = @ + 1]
    <3>1. /\ Counted(b) \in Bucket
          /\ WithinLimit(b) => q \in [1..RateTicks -> Nat] /\ WindowOK(Counted(b), q)
          /\ ~WithinLimit(b) => WindowOK(Counted(b), r)
      BY <1>0, <2>2, PassKeepsWindow
    <3>2. buckets' = [buckets EXCEPT ![key] = Counted(b)]
      BY <1>2 DEF Passes
    <3>3. recent' = IF WithinLimit(b) THEN [recent EXCEPT ![key] = q] ELSE recent
      BY <1>2 DEF Passes
    <3> HIDE DEF b, q
    <3>4. buckets' \in [Keys -> Bucket] /\ buckets'[key] = Counted(b)
          /\ \A k \in Keys : k # key => buckets'[k] = buckets[k]
      BY <1>0, <2>2, <3>1, <3>2 DEF GuardsTyped
    <3>5. \A k \in Keys : k # key => recent'[k] = recent[k]
      BY <1>0, <2>2, <3>3 DEF GuardsTyped
    <3>6. recent' \in [Keys -> [1..RateTicks -> Nat]] /\ WindowOK(Counted(b), recent'[key])
      <4>1. CASE WithinLimit(b)
        <5>1. recent' = [recent EXCEPT ![key] = q]
          BY <3>3, <4>1
        <5>2. recent'[key] = q
          BY <1>0, <2>2, <5>1 DEF GuardsTyped
        <5> QED BY <1>0, <2>2, <3>1, <4>1, <5>1, <5>2 DEF GuardsTyped
      <4>2. CASE ~WithinLimit(b)
        BY <1>0, <2>2, <3>1, <3>3, <4>2 DEF GuardsTyped
      <4> QED BY <4>1, <4>2
    <3>7. \A k \in Keys : WindowOK(buckets'[k], recent'[k])
      BY <1>0, <3>4, <3>5, <3>6
    <3> QED BY <3>4, <3>6, <3>7 DEF RateInv, GuardsTyped, WindowOK
  <2> QED BY <2>1, <2>2
<1>3. CASE Tick
  <2>1. \A k \in Keys : /\ buckets'[k] = Later(buckets[k])
                        /\ recent'[k] = <<0>> \o Front(recent[k])
    BY <1>3 DEF Tick
  <2>2. \A k \in Keys : /\ buckets'[k] \in Bucket
                        /\ recent'[k] \in [1..RateTicks -> Nat]
                        /\ WindowOK(buckets'[k], recent'[k])
    BY <1>0, <2>1, TickKeepsWindow
  <2>3. buckets' \in [Keys -> Bucket]
    BY <1>3, <2>2 DEF Tick
  <2>4. recent' \in [Keys -> [1..RateTicks -> Nat]]
    BY <1>3, <2>2 DEF Tick
  <2> QED BY <2>2, <2>3, <2>4 DEF RateInv, GuardsTyped, WindowOK
<1>4. CASE GatewayNext
  <2>1. ASSUME NEW c, NEW caller, NEW route, NEW user, NEW b, Send(c, caller, route, user, b)
        PROVE  RateInv'
    BY <1>2, <2>1 DEF Send
  <2>2. ASSUME NEW b \in Upstreams, Switch(b) PROVE RateInv'
    BY <1>1, <2>2 DEF Switch
  <2>3. ASSUME NEW c \in Calls, Answer(c) \/ TimeOut(c) PROVE RateInv'
    BY <1>1, <2>3 DEF Answer, TimeOut
  <2> QED BY <1>3, <1>4, <2>1, <2>2, <2>3 DEF GatewayNext
<1>5. CASE UNCHANGED gatewayVars
  BY <1>1, <1>5 DEF gatewayVars
<1> QED BY <1>4, <1>5 DEF Next

(* At first no window has let a call through. *)
LEMMA RateStarts ==
  ASSUME Init
  PROVE  RateInv
<1>0. RateTicks \in Nat /\ RateTicks >= 1 /\ RateLimit \in Nat
  BY GatewayAssumption
<1> DEFINE b == [count |-> 0, left |-> 0]
           r == [i \in 1..RateTicks |-> 0]
           p == [i \in 0..RateTicks |-> 0]
<1>1. buckets = [k \in Keys |-> b] /\ recent = [k \in Keys |-> r]
  BY DEF Init, GatewayInit
<1>2. b \in Bucket /\ b.left = 0
  BY <1>0 DEF Bucket
<1>3. r \in [1..RateTicks -> Nat] /\ r[1] = 0 /\ \A i \in 1..RateTicks : r[i] = 0
  BY <1>0
<1>4. p \in [0..RateTicks -> Nat] /\ \A i \in 0..RateTicks : p[i] = 0
  OBVIOUS
<1> HIDE DEF b, r, p
<1>5. Adds(p, r, RateTicks)
  <2> SUFFICES ASSUME NEW k \in 1..RateTicks PROVE p[k] = p[k - 1] + r[k]
    BY <1>0, <1>4 DEF Adds
  <2>1. k \in 0..RateTicks /\ k - 1 \in 0..RateTicks
    BY <1>0
  <2> QED BY <1>3, <1>4, <2>1
<1>6. WindowOK(b, r)
  <2>1. p[RateTicks] = 0
    BY <1>0, <1>4
  <2> QED BY <1>0, <1>2, <1>3, <1>4, <1>5, <2>1 DEF WindowOK
<1> QED BY <1>1, <1>2, <1>3, <1>6 DEF RateInv, GuardsTyped

(* In any stretch of time as long as a window a key is let through at most *)
(* twice as often as the limit says, for every limit and every window      *)
(* (GatewayRateGuard).                                                     *)
THEOREM LimitHolds == Spec => []RateBounded
<1>1. Init => RateInv
  BY RateStarts
<1>2. RateInv => RateBounded
  BY WindowBounds DEF RateInv, GuardsTyped, RateBounded
<1>3. RateInv /\ [Next]_<<gatewayVars, marketVars, part>> => RateInv'
  BY RateStep
<1> QED BY <1>1, <1>2, <1>3, PTL DEF Spec

-----------------------------------------------------------------------------
(* The types of the gateway *)

CircuitsTyped ==
  /\ circuits \in [Upstreams -> Circuit]
  /\ call \in [Calls -> [to : Upstreams, seen : 0..CircuitFailures, late : BOOLEAN]
                          \cup {NoCall}]
  /\ up \in [Upstreams -> BOOLEAN]

(* The lesser of two numbers. *)
LEMMA LesserOfTwo ==
  ASSUME NEW m \in Int, NEW n \in Int
  PROVE  Min({m, n}) = IF m < n THEN m ELSE n
<1> DEFINE S == {m, n}
           x == IF m < n THEN m ELSE n
<1>1. x \in S /\ \A y \in S : x <= y
  OBVIOUS
<1>2. \A z \in S : (\A y \in S : z <= y) => z = x
  OBVIOUS
<1>3. Min(S) = x
  <2> HIDE DEF x
  <2> QED BY <1>1, <1>2 DEF Min
<1> QED BY <1>3

(* A failure leaves a circuit that counts no further than the limit. *)
LEMMA FailedIsCircuit ==
  ASSUME NEW seen \in 0..CircuitFailures
  PROVE  Failed(seen) \in Circuit
<1>1. CircuitFailures \in Nat /\ CircuitTicks \in Nat
  BY GatewayAssumption
<1>2. AfterFailure(seen) = IF seen < CircuitFailures THEN seen + 1 ELSE CircuitFailures
  <2>1. seen \in Int /\ seen + 1 \in Int /\ CircuitFailures \in Int
    BY <1>1
  <2>2. Min({seen + 1, CircuitFailures}) = IF seen + 1 < CircuitFailures THEN seen + 1
                                           ELSE CircuitFailures
    BY <2>1, LesserOfTwo
  <2>3. seen + 1 < CircuitFailures \/ seen + 1 >= CircuitFailures
    BY <2>1
  <2> QED BY <1>1, <2>2 DEF AfterFailure
<1>3. AfterFailure(seen) \in 0..CircuitFailures
  BY <1>1, <1>2
<1>4. 0 \in 0..CircuitTicks /\ CircuitTicks \in 0..CircuitTicks
  BY <1>1
<1> QED BY <1>3, <1>4 DEF Failed, Circuit

(* No step takes circuits and calls out of their types. *)
LEMMA CircuitsStep ==
  ASSUME CircuitsTyped, [Next]_<<gatewayVars, marketVars, part>>
  PROVE  CircuitsTyped'
<1>0. 0 \in 0..CircuitFailures /\ 0 \in 0..CircuitTicks
  BY GatewayAssumption
<1>1. CASE UNCHANGED <<circuits, call, up>>
  BY <1>1 DEF CircuitsTyped
<1>2. ASSUME NEW c \in Calls, NEW caller, NEW route, NEW user, NEW b \in Upstreams,
             Send(c, caller, route, user, b)
      PROVE  CircuitsTyped'
  <2>1. UNCHANGED <<circuits, up>>
    BY <1>2 DEF Send
  <2>2. [to |-> b, seen |-> circuits[b].failures, late |-> ~up[b]]
          \in [to : Upstreams, seen : 0..CircuitFailures, late : BOOLEAN]
    BY DEF CircuitsTyped, Circuit
  <2>3. \/ call' = call
        \/ call' = [call EXCEPT ![c] =
                      [to |-> b, seen |-> circuits[b].failures, late |-> ~up[b]]]
    BY <1>2 DEF Send
  <2> QED BY <2>1, <2>2, <2>3 DEF CircuitsTyped
<1>3. ASSUME NEW c \in Calls, Answer(c) \/ TimeOut(c)
      PROVE  CircuitsTyped'
  <2>1. /\ call' = [call EXCEPT ![c] = NoCall] /\ up' = up
        /\ call[c] \in [to : Upstreams, seen : 0..CircuitFailures, late : BOOLEAN]
    BY <1>3 DEF Answer, TimeOut, CircuitsTyped
  <2>2. [failures |-> 0, left |-> 0] \in Circuit /\ Failed(call[c].seen) \in Circuit
    BY <1>0, <2>1, FailedIsCircuit DEF Circuit
  <2>3. \/ circuits' = [circuits EXCEPT ![call[c].to] = [failures |-> 0, left |-> 0]]
        \/ circuits' = [circuits EXCEPT ![call[c].to] = Failed(call[c].seen)]
    BY <1>3 DEF Answer, TimeOut
  <2> QED BY <2>1, <2>2, <2>3 DEF CircuitsTyped
<1>4. ASSUME NEW b \in Upstreams, Switch(b)
      PROVE  CircuitsTyped'
  <2>1. /\ circuits' = circuits /\ up' = [up EXCEPT ![b] = ~@]
        /\ call' = [c \in Calls |-> IF call[c].to = b /\ up[b]
                                    THEN [call[c] EXCEPT !.late = TRUE] ELSE call[c]]
    BY <1>4 DEF Switch
  <2>2. ASSUME NEW c \in Calls
        PROVE  [call[c] EXCEPT !.late = TRUE]
                 \in [to : Upstreams, seen : 0..CircuitFailures, late : BOOLEAN] \cup {NoCall}
    <3>1. CASE call[c] \in [to : Upstreams, seen : 0..CircuitFailures, late : BOOLEAN]
      BY <3>1
    <3>2. CASE call[c] = NoCall
      <4>1. [NoCall EXCEPT !.late = TRUE] = NoCall
        BY DEF NoCall
      <4> QED BY <3>2, <4>1
    <3> QED BY <3>1, <3>2 DEF CircuitsTyped
  <2> QED BY <2>1, <2>2 DEF CircuitsTyped
<1>5. CASE Tick
  <2>1. \A b \in Upstreams : Later(circuits[b]) \in Circuit
    BY GatewayAssumption DEF Later, Circuit, CircuitsTyped
  <2> QED BY <1>5, <2>1 DEF Tick, CircuitsTyped
<1>6. CASE GatewayNext
  BY <1>2, <1>3, <1>4, <1>5, <1>6 DEF GatewayNext
<1>7. CASE UNCHANGED gatewayVars
  BY <1>1, <1>7 DEF gatewayVars, circuitVars
<1> QED BY <1>6, <1>7 DEF Next

(* The gateway's maps of buckets and circuits keep their types: no count   *)
(* and no time passes its bound, whatever calls, answers and timeouts come *)
(* (GatewayRateGuard, fetchWithCircuit).                                   *)
THEOREM GatewayTypes == Spec => []GatewayTypeOK
<1>1. Init => CircuitsTyped /\ RateInv
  <2> SUFFICES ASSUME Init PROVE CircuitsTyped
    BY RateStarts
  <2>1. 0 \in 0..CircuitFailures /\ 0 \in 0..CircuitTicks
    BY GatewayAssumption
  <2> QED BY <2>1 DEF Init, GatewayInit, CircuitsTyped, Circuit
<1>2. CircuitsTyped /\ RateInv /\ [Next]_<<gatewayVars, marketVars, part>>
        => (CircuitsTyped /\ RateInv)'
  BY CircuitsStep, RateStep
<1>3. CircuitsTyped /\ RateInv => GatewayTypeOK
  BY DEF CircuitsTyped, RateInv, GuardsTyped, GatewayTypeOK
<1> QED BY <1>1, <1>2, <1>3, PTL DEF Spec

-----------------------------------------------------------------------------
(* Lists of trades *)

Trade == [price : Nat, quantity : Nat]

Quantities(list) == [i \in 1..Len(list) |-> list[i].quantity]

(* The volume of a list, trade by trade. *)
LEMMA TotalIsSum ==
  ASSUME NEW list \in Seq(Trade)
  PROVE  \E p \in [0..Len(list) -> Int] :
           Adds(p, Quantities(list), Len(list)) /\ Total(list) = p[Len(list)]
<1> DEFINE n == Len(list)
           S == SUBSET (1..n)
           q == Quantities(list)
           Rec(g) == [s \in S |-> IF s = {} THEN 0
                                  ELSE g[s \ {Max(s)}] + list[Max(s)].quantity]
           h == CHOOSE g : g = Rec(g)
<1>1. /\ n \in Nat /\ DOMAIN list = 1..n
      /\ \A i \in 1..n : list[i].quantity \in Int
  <2>1. n \in Nat /\ DOMAIN list = 1..n /\ \A i \in 1..n : list[i] \in Trade
    OBVIOUS
  <2> QED BY <2>1 DEF Trade
<1>2. Total(list) = h[1..n]
  BY <1>1 DEF Total, FoldLeft, MapThenFoldSet
<1>3. q \in [1..n -> Int] /\ \A i \in 1..n : q[i] = list[i].quantity
  BY <1>1 DEF Quantities
<1> HIDE DEF n, q
<1>4. HasSums(q, n)
  BY <1>1, <1>3, SequenceSum
<1>5. PICK g \in [S -> Int] : SumsUp(g, q, n)
  BY <1>4 DEF HasSums
<1>6. \A s \in S : s # {} => Max(s) \in 1..n
  BY <1>1, MaxIsIn
<1>7. g = Rec(g)
  <2>1. \A s \in S : s # {} => g[s] = g[s \ {Max(s)}] + list[Max(s)].quantity
    BY <1>3, <1>5, <1>6 DEF SumsUp
  <2> QED BY <1>5, <2>1 DEF SumsUp
<1>8. h = Rec(h)
  <2> HIDE DEF Rec
  <2> QED BY <1>7
<1> HIDE DEF h
<1>9. SumsUp(h, q, n)
  <2>1. h[{}] = 0 /\ \A s \in S : s # {} => h[s] = h[s \ {Max(s)}] + list[Max(s)].quantity
    BY <1>8
  <2> QED BY <1>3, <1>6, <2>1 DEF SumsUp
<1>10. PICK p \in [0..n -> Int] :
         Adds(p, q, n) /\ \A k : SumsUp(k, q, n) => k[1..n] = p[n]
  BY <1>4 DEF HasSums
<1>11. h[1..n] = p[n]
  BY <1>9, <1>10
<1> QED BY <1>2, <1>10, <1>11 DEF n, q

(* The value of a volume that was found in some other way. *)
LEMMA TotalFound ==
  ASSUME NEW list \in Seq(Trade), NEW r, Adds(r, Quantities(list), Len(list))
  PROVE  Total(list) = r[Len(list)]
<1>1. Len(list) \in Nat
  OBVIOUS
<1> QED BY <1>1, TotalIsSum, OneSum

(* No trades and one trade. *)
LEMMA FewTrades ==
  /\ Total(<< >>) = 0 /\ PricesOf(<< >>) = {}
  /\ \A t \in Trade : Total(<<t>>) = t.quantity /\ PricesOf(<<t>>) = {t.price}
<1>1. Total(<< >>) = 0
  <2> DEFINE r == [k \in 0..0 |-> 0]
             none == << >>
  <2>1. none \in Seq(Trade) /\ Len(none) = 0
    OBVIOUS
  <2> HIDE DEF none
  <2>2. Adds(r, Quantities(none), Len(none))
    BY <2>1 DEF Adds
  <2>3. Total(none) = r[Len(none)]
    BY <2>1, <2>2, TotalFound
  <2> QED BY <2>1, <2>3 DEF none
<1>2. PricesOf(<< >>) = {}
  BY DEF PricesOf, Range
<1>3. ASSUME NEW t \in Trade
      PROVE  Total(<<t>>) = t.quantity /\ PricesOf(<<t>>) = {t.price}
  <2> DEFINE r == [k \in 0..1 |-> IF k = 0 THEN 0 ELSE t.quantity]
             one == <<t>>
  <2>1. one \in Seq(Trade) /\ Len(one) = 1 /\ one[1] = t /\ DOMAIN one = 1..1
    OBVIOUS
  <2>2. t.quantity \in Nat
    BY DEF Trade
  <2> HIDE DEF one
  <2>3. Quantities(one)[1] = t.quantity
    BY <2>1 DEF Quantities
  <2>4. Adds(r, Quantities(one), Len(one))
    BY <2>1, <2>2, <2>3 DEF Adds
  <2>5. Total(one) = r[Len(one)]
    BY <2>1, <2>4, TotalFound
  <2>6. Range(one) = {t}
    BY <2>1 DEF Range
  <2>7. PricesOf(one) = {t.price}
    BY <2>6 DEF PricesOf
  <2> QED BY <2>1, <2>5, <2>7 DEF one
<1> QED BY <1>1, <1>2, <1>3

(* What two lists come to, one after the other. *)
LEMMA ListsJoin ==
  ASSUME NEW s \in Seq(Trade), NEW t \in Seq(Trade)
  PROVE  /\ s \o t \in Seq(Trade) /\ Len(s \o t) = Len(s) + Len(t)
         /\ Total(s \o t) = Total(s) + Total(t)
         /\ PricesOf(s \o t) = PricesOf(s) \cup PricesOf(t)
<1> DEFINE n == Len(s)
           m == Len(t)
           c == s \o t
<1>1. n \in Nat /\ m \in Nat /\ DOMAIN s = 1..n /\ DOMAIN t = 1..m
  OBVIOUS
<1>2. /\ c \in Seq(Trade) /\ Len(c) = n + m
      /\ \A i \in 1..n + m : c[i] = IF i <= n THEN s[i] ELSE t[i - n]
  BY ConcatProperties
<1> HIDE DEF c
<1>3. Total(c) = Total(s) + Total(t)
  <2>1. PICK p \in [0..n -> Int] : Adds(p, Quantities(s), n) /\ Total(s) = p[n]
    BY TotalIsSum
  <2>2. PICK q \in [0..m -> Int] : Adds(q, Quantities(t), m) /\ Total(t) = q[m]
    BY TotalIsSum
  <2> HIDE DEF n, m
  <2> DEFINE r == [k \in 0..n + m |-> IF k <= n THEN p[k] ELSE p[n] + q[k - n]]
  <2>3. /\ \A k \in 1..n : p[k] = p[k - 1] + s[k].quantity
        /\ \A k \in 1..m : q[k] = q[k - 1] + t[k].quantity
        /\ p[0] = 0 /\ q[0] = 0
    BY <1>1, <2>1, <2>2 DEF Adds, Quantities, n, m
  <2>4. ASSUME NEW k \in 1..n + m
        PROVE  r[k] = r[k - 1] + c[k].quantity
    <3>1. CASE k <= n
      <4>1. k \in 1..n /\ k - 1 \in 0..n + m /\ k - 1 <= n /\ k \in 0..n + m
        BY <1>1, <3>1
      <4>2. r[k] = p[k] /\ r[k - 1] = p[k - 1] /\ c[k] = s[k]
        BY <1>2, <3>1, <4>1
      <4> QED BY <2>3, <4>1, <4>2
    <3>2. CASE k > n
      <4>1. k - n \in 1..m /\ k - 1 \in 0..n + m /\ k \in 0..n + m /\ ~(k <= n)
            /\ (k - n) - 1 = (k - 1) - n
        BY <1>1, <3>2
      <4>2. r[k] = p[n] + q[k - n] /\ c[k] = t[k - n]
        BY <1>2, <4>1
      <4>3. r[k - 1] = p[n] + q[(k - 1) - n]
        <5>1. CASE k - 1 <= n
          <6>1. k - 1 = n /\ (k - 1) - n = 0
            BY <1>1, <3>2, <5>1
          <6>2. r[k - 1] = p[n] /\ p[n] \in Int
            BY <1>1, <4>1, <6>1
          <6> QED BY <2>3, <6>1, <6>2
        <5>2. CASE ~(k - 1 <= n)
          BY <4>1, <5>2
        <5> QED BY <5>1, <5>2
      <4>4. q[k - n] = q[(k - n) - 1] + t[k - n].quantity
        BY <2>3, <4>1
      <4>5. /\ p[n] \in Int /\ q[(k - n) - 1] \in Int /\ t[k - n].quantity \in Int
        <5>1. (k - n) - 1 \in 0..m /\ n \in 0..n
          BY <1>1, <4>1
        <5>2. t[k - n] \in Trade
          BY <1>1, <4>1 DEF m
        <5> QED BY <5>1, <5>2 DEF Trade
      <4> DEFINE a == p[n]  b == q[(k - n) - 1]  d == t[k - n].quantity
      <4>6. r[k] = a + (b + d) /\ r[k - 1] = a + b /\ c[k].quantity = d
        BY <4>1, <4>2, <4>3, <4>4
      <4> HIDE DEF a, b, d, r
      <4>7. a \in Int /\ b \in Int /\ d \in Int
        BY <4>5 DEF a, b, d
      <4> QED BY <4>6, <4>7
    <3> QED BY <1>1, <3>1, <3>2
  <2>5. r[0] = 0
    BY <1>1, <2>3
  <2>6. Adds(r, Quantities(c), Len(c))
    <3>1. \A k \in 1..n + m : Quantities(c)[k] = c[k].quantity
      BY <1>2 DEF Quantities
    <3> HIDE DEF r
    <3> QED BY <1>2, <2>4, <2>5, <3>1 DEF Adds
  <2>7. Total(c) = r[n + m]
    <3> HIDE DEF r
    <3> QED BY <1>2, <2>6, TotalFound
  <2>8. r[n + m] = p[n] + q[m]
    <3>1. n + m \in 0..n + m /\ p[n] \in Int /\ (n + m) - n = m
      BY <1>1
    <3>2. CASE m = 0
      <4>1. r[n + m] = p[n]
        BY <1>1, <3>1, <3>2
      <4> QED BY <2>3, <3>1, <3>2, <4>1
    <3>3. CASE m # 0
      <4>1. ~(n + m <= n)
        BY <1>1, <3>3
      <4> QED BY <3>1, <4>1
    <3> QED BY <3>2, <3>3
  <2> QED BY <2>1, <2>2, <2>7, <2>8 DEF n, m
<1>4. Range(c) = Range(s) \cup Range(t)
  <2>1. DOMAIN c = 1..n + m
    BY <1>2
  <2> HIDE DEF n, m
  <2>2. \A i \in 1..n : i \in 1..n + m /\ c[i] = s[i]
    BY <1>1, <1>2
  <2>3. \A i \in 1..m : i + n \in 1..n + m /\ c[i + n] = t[i]
    <3> TAKE i \in 1..m
    <3>1. i + n \in 1..n + m /\ ~(i + n <= n) /\ (i + n) - n = i
      BY <1>1
    <3> QED BY <1>2, <3>1
  <2>4. \A i \in 1..n + m : i \in 1..n \/ i - n \in 1..m
    BY <1>1
  <2>5. \A i \in 1..n + m : c[i] \in Range(s) \cup Range(t)
    <3> TAKE i \in 1..n + m
    <3>1. CASE i \in 1..n
      BY <1>1, <2>2, <3>1 DEF Range
    <3>2. CASE i - n \in 1..m
      <4>1. ~(i <= n)
        BY <1>1, <3>2
      <4>2. c[i] = t[i - n]
        BY <1>2, <4>1
      <4> QED BY <1>1, <3>2, <4>2 DEF Range
    <3> QED BY <2>4, <3>1, <3>2
  <2>6. Range(c) \subseteq Range(s) \cup Range(t)
    BY <2>1, <2>5 DEF Range
  <2>7. Range(s) \cup Range(t) \subseteq Range(c)
    BY <1>1, <2>1, <2>2, <2>3 DEF Range
  <2> QED BY <2>6, <2>7
<1>5. PricesOf(c) = PricesOf(s) \cup PricesOf(t)
  BY <1>4 DEF PricesOf
<1> QED BY <1>2, <1>3, <1>5 DEF c

(* A volume is not negative. *)
LEMMA TotalType ==
  ASSUME NEW list \in Seq(Trade)
  PROVE  Total(list) \in Nat
<1> DEFINE n == Len(list)
<1>1. PICK p \in [0..n -> Int] : Adds(p, Quantities(list), n) /\ Total(list) = p[n]
  BY TotalIsSum
<1>2. n \in Nat /\ \A k \in 1..n : Quantities(list)[k] \in Nat
  <2>1. n \in Nat /\ \A k \in 1..n : list[k] \in Trade
    OBVIOUS
  <2> QED BY <2>1 DEF Quantities, Trade
<1> DEFINE q == Quantities(list)
           N == {k \in Nat : k <= n => p[k] \in Nat}
<1>3. p[0] = 0 /\ \A k \in 1..n : p[k] = p[k - 1] + q[k]
  BY <1>1 DEF Adds
<1> HIDE DEF n, q
<1>4. 0 \in N
  BY <1>3
<1>5. ASSUME NEW k \in Nat, k \in N
      PROVE  k + 1 \in N
  <2> SUFFICES ASSUME k + 1 <= n PROVE p[k + 1] \in Nat
    OBVIOUS
  <2>1. k + 1 \in 1..n /\ (k + 1) - 1 = k /\ p[k] \in Nat
    BY <1>2, <1>5
  <2>2. p[k + 1] = p[k] + q[k + 1] /\ q[k + 1] \in Nat
    BY <1>2, <1>3, <2>1 DEF q
  <2> QED BY <2>1, <2>2
<1> HIDE DEF N
<1>6. n \in N
  BY <1>2, <1>4, <1>5, SetInduction
<1> QED BY <1>1, <1>2, <1>6 DEF N

(* The greatest and the least of a set, once they are known. *)
LEMMA Bounds ==
  ASSUME NEW S \in SUBSET Int, NEW x \in S
  PROVE  /\ (\A y \in S : y <= x) => Max(S) = x
         /\ (\A y \in S : x <= y) => Min(S) = x
<1>1. ASSUME \A y \in S : y <= x
      PROVE  Max(S) = x
  <2>1. \A z \in S : (\A y \in S : z >= y) => z = x
    BY <1>1
  <2>2. \A y \in S : x >= y
    BY <1>1
  <2> QED BY <2>1, <2>2 DEF Max
<1>2. ASSUME \A y \in S : x <= y
      PROVE  Min(S) = x
  <2>1. \A z \in S : (\A y \in S : z <= y) => z = x
    BY <1>2
  <2> QED BY <1>2, <2>1 DEF Min
<1> QED BY <1>1, <1>2

(* Where the part of a list that is kept begins. *)
KeptFrom(d) == IF Len(d) > KeptTrades THEN Len(d) - KeptTrades + 1 ELSE 1

(* What is kept of a list are its last trades. *)
LEMMA KeptIsEnd ==
  ASSUME NEW d \in Seq(Trade)
  PROVE  /\ KeptFrom(d) \in 1..Len(d) + 1
         /\ Kept(d) = SubSeq(d, KeptFrom(d), Len(d))
         /\ Kept(d) \in Seq(Trade)
         /\ Len(Kept(d)) = Len(d) - KeptFrom(d) + 1
         /\ \A i \in 1..Len(d) - KeptFrom(d) + 1 : Kept(d)[i] = d[KeptFrom(d) + i - 1]
<1> DEFINE n == Len(d)
           m == KeptFrom(d)
           S == {1, n - KeptTrades + 1}
<1>1. n \in Nat /\ KeptTrades \in Nat /\ KeptTrades >= 1
  BY MarketAssumption
<1>2. m \in 1..n + 1 /\ m \in S /\ \A y \in S : y <= m
  BY <1>1 DEF KeptFrom
<1>3. Max(S) = m
  <2>1. S \in SUBSET Int
    BY <1>1
  <2> HIDE DEF S, m
  <2> QED BY <1>2, <2>1, Bounds
<1>4. Kept(d) = SubSeq(d, m, n)
  BY <1>3 DEF Kept
<1>5. \A i \in m..n : d[i] \in Trade
  BY <1>1, <1>2
<1> HIDE DEF n, m
<1>6. /\ SubSeq(d, m, n) \in Seq(Trade)
      /\ Len(SubSeq(d, m, n)) = IF m <= n THEN n - m + 1 ELSE 0
      /\ \A i \in 1..n - m + 1 : SubSeq(d, m, n)[i] = d[m + i - 1]
  <2>1. m \in Int /\ n \in Int
    BY <1>1, <1>2
  <2> QED BY <1>5, <2>1, SubSeqProperties
<1>7. Len(SubSeq(d, m, n)) = n - m + 1
  BY <1>1, <1>2, <1>6
<1> QED BY <1>2, <1>4, <1>6, <1>7 DEF n, m

(* Two lists of the same length and elements are the same. *)
LEMMA SameList ==
  ASSUME NEW s \in Seq(Trade), NEW t \in Seq(Trade), Len(s) = Len(t),
         \A i \in 1..Len(s) : s[i] = t[i]
  PROVE  s = t
OBVIOUS

(* To cut a list before a trade is added changes nothing of what is kept   *)
(* after it (recordTrade).                                                 *)
LEMMA KeptAfterCut ==
  ASSUME NEW d \in Seq(Trade), NEW t \in Trade
  PROVE  Kept(Append(Kept(d), t)) = Kept(Append(d, t))
<1> DEFINE K == KeptTrades
           a == Append(d, t)
           k == Kept(d)
           b == Append(k, t)
           n == Len(d)
           m == KeptFrom(d)
<1>1. K \in Nat /\ K >= 1 /\ n \in Nat
  BY MarketAssumption
<1>2. /\ m \in 1..n + 1 /\ k \in Seq(Trade) /\ Len(k) = n - m + 1
      /\ \A i \in 1..n - m + 1 : k[i] = d[m + i - 1]
  BY KeptIsEnd
<1>3. m = IF n > K THEN n - K + 1 ELSE 1
  BY DEF KeptFrom
<1>4. /\ a \in Seq(Trade) /\ Len(a) = n + 1 /\ a[n + 1] = t
      /\ \A i \in 1..n : a[i] = d[i]
  BY AppendProperties
<1> HIDE DEF k
<1>5. /\ b \in Seq(Trade) /\ Len(b) = n - m + 2 /\ b[n - m + 2] = t
      /\ \A i \in 1..n - m + 1 : b[i] = k[i]
  <2>1. /\ b \in Seq(Trade) /\ Len(b) = Len(k) + 1 /\ b[Len(k) + 1] = t
        /\ \A i \in 1..Len(k) : b[i] = k[i]
    BY <1>2, AppendProperties
  <2>2. Len(k) + 1 = n - m + 2
    BY <1>1, <1>2
  <2> QED BY <1>2, <2>1, <2>2
<1> HIDE DEF a, b, n, m, K
<1>6. \A i \in 1..n - m + 2 : b[i] = a[m + i - 1]
  <2> TAKE i \in 1..n - m + 2
  <2>1. CASE i = n - m + 2
    <3>1. m + i - 1 = n + 1
      BY <1>1, <1>2, <2>1
    <3> QED BY <1>4, <1>5, <2>1, <3>1
  <2>2. CASE i # n - m + 2
    <3>1. i \in 1..n - m + 1 /\ m + i - 1 \in 1..n
      BY <1>1, <1>2, <2>2
    <3> QED BY <1>2, <1>4, <1>5, <3>1
  <2> QED BY <2>1, <2>2
<1> DEFINE ma == KeptFrom(a)
           mb == KeptFrom(b)
<1>7. ma = IF n + 1 > K THEN n + 1 - K + 1 ELSE 1
  BY <1>1, <1>4 DEF KeptFrom, K
<1>8. mb = IF n - m + 2 > K THEN n - m + 2 - K + 1 ELSE 1
  BY <1>1, <1>2, <1>5 DEF KeptFrom, K
<1>9. /\ ma \in 1..n + 2 /\ mb \in 1..n - m + 3 /\ mb + m - 1 = ma
      /\ n - m + 2 - mb + 1 = n + 1 - ma + 1
  BY <1>1, <1>2, <1>3, <1>7, <1>8
<1>10. /\ Kept(a) \in Seq(Trade) /\ Len(Kept(a)) = n + 1 - ma + 1
       /\ \A i \in 1..n + 1 - ma + 1 : Kept(a)[i] = a[ma + i - 1]
  <2>1. /\ Kept(a) \in Seq(Trade) /\ Len(Kept(a)) = Len(a) - ma + 1
        /\ \A i \in 1..Len(a) - ma + 1 : Kept(a)[i] = a[ma + i - 1]
    BY <1>4, KeptIsEnd
  <2> HIDE DEF ma, mb
  <2>2. Len(a) - ma + 1 = n + 1 - ma + 1
    BY <1>1, <1>4, <1>9
  <2> QED BY <2>1, <2>2
<1>11. /\ Kept(b) \in Seq(Trade) /\ Len(Kept(b)) = n - m + 2 - mb + 1
       /\ \A i \in 1..n - m + 2 - mb + 1 : Kept(b)[i] = b[mb + i - 1]
  <2>1. /\ Kept(b) \in Seq(Trade) /\ Len(Kept(b)) = Len(b) - mb + 1
        /\ \A i \in 1..Len(b) - mb + 1 : Kept(b)[i] = b[mb + i - 1]
    BY <1>5, KeptIsEnd
  <2> HIDE DEF ma, mb
  <2>2. Len(b) - mb + 1 = n - m + 2 - mb + 1
    BY <1>1, <1>2, <1>5, <1>9
  <2> QED BY <2>1, <2>2
<1> HIDE DEF ma, mb
<1>12. \A i \in 1..n + 1 - ma + 1 : Kept(b)[i] = Kept(a)[i]
  <2> TAKE i \in 1..n + 1 - ma + 1
  <2>1. mb + i - 1 \in 1..n - m + 2 /\ m + (mb + i - 1) - 1 = ma + i - 1
    BY <1>1, <1>2, <1>9
  <2>2. b[mb + i - 1] = a[ma + i - 1]
    BY <1>6, <2>1
  <2> QED BY <1>9, <1>10, <1>11, <2>2
<1>13. Kept(b) = Kept(a)
  BY <1>9, <1>10, <1>11, <1>12, SameList
<1> QED BY <1>13 DEF a, b, k

-----------------------------------------------------------------------------
(* The ticker and the list *)

ShownTicker(d, high, low) ==
  <<[lastPrice |-> d[Len(d)].price, volume |-> Total(d), high |-> high, low |-> low]>>

Spans(d, high, low) ==
  /\ high \in PricesOf(d) /\ low \in PricesOf(d)
  /\ \A x \in PricesOf(d) : low <= x /\ x <= high

(* The ticker shows the trades of d. *)
TickerShows(tk, d) ==
  /\ d = << >> => tk = << >>
  /\ d # << >> => \E high \in Nat : \E low \in Nat :
                    Spans(d, high, low) /\ tk = ShownTicker(d, high, low)

(* Prices of trades. *)
LEMMA PricesType ==
  ASSUME NEW d \in Seq(Trade)
  PROVE  /\ PricesOf(d) \subseteq Nat
         /\ \A i \in 1..Len(d) : d[i] \in Trade /\ d[i].price \in PricesOf(d)
         /\ d # << >> => Len(d) \in 1..Len(d)
<1>1. DOMAIN d = 1..Len(d) /\ \A i \in 1..Len(d) : d[i] \in Trade
  OBVIOUS
<1>2. Range(d) \subseteq Trade /\ \A i \in 1..Len(d) : d[i] \in Range(d)
  BY <1>1 DEF Range
<1>3. \A t \in Range(d) : t.price \in Nat
  BY <1>2 DEF Trade
<1>4. d # << >> => Len(d) \in 1..Len(d)
  OBVIOUS
<1> QED BY <1>1, <1>2, <1>3, <1>4 DEF PricesOf

(* To record a trade makes list and ticker those of a list with one trade  *)
(* more (recordTrade).                                                     *)
LEMMA RecordShows ==
  ASSUME NEW d \in Seq(Trade), NEW t \in Trade, RecordTrade(t),
         trades = Kept(d), TickerShows(ticker, d)
  PROVE  trades' = Kept(Append(d, t)) /\ TickerShows(ticker', Append(d, t))
<1> DEFINE a == Append(d, t)
           n == Len(d)
<1>1. trades' = Kept(a)
  BY KeptAfterCut DEF RecordTrade
<1>2. n \in Nat /\ a \in Seq(Trade) /\ a # << >> /\ Len(a) = n + 1 /\ a[n + 1] = t
  BY AppendProperties
<1>3. Total(a) = Total(d) + t.quantity /\ PricesOf(a) = PricesOf(d) \cup {t.price}
  <2> DEFINE one == <<t>>
  <2>1. one \in Seq(Trade) /\ a = d \o one
    BY AppendIsConcat
  <2>2. Total(one) = t.quantity /\ PricesOf(one) = {t.price}
    BY FewTrades
  <2> HIDE DEF one, a
  <2> QED BY <2>1, <2>2, ListsJoin
<1>4. t.price \in Nat /\ t.quantity \in Nat
  BY DEF Trade
<1> HIDE DEF a
<1>5. ASSUME d = << >>
      PROVE  TickerShows(ticker', a)
  <2>1. ticker = << >> /\ Total(a) = t.quantity /\ PricesOf(a) = {t.price}
    BY <1>3, <1>4, <1>5, FewTrades DEF TickerShows
  <2>2. ticker' = <<[lastPrice |-> t.price, volume |-> t.quantity,
                     high |-> t.price, low |-> t.price]>>
    BY <2>1 DEF RecordTrade, Volume
  <2>3. ticker' = ShownTicker(a, t.price, t.price)
    BY <1>2, <2>1, <2>2 DEF ShownTicker
  <2>4. Spans(a, t.price, t.price)
    BY <1>4, <2>1 DEF Spans
  <2> QED BY <1>2, <1>4, <2>3, <2>4 DEF TickerShows
<1>6. ASSUME d # << >>
      PROVE  TickerShows(ticker', a)
  <2>1. PICK high \in Nat : \E low \in Nat :
               Spans(d, high, low) /\ ticker = ShownTicker(d, high, low)
    BY <1>6 DEF TickerShows
  <2>2. PICK low \in Nat : Spans(d, high, low) /\ ticker = ShownTicker(d, high, low)
    BY <2>1
  <2>3. /\ ticker # << >> /\ ticker[1].volume = Total(d)
        /\ ticker[1].high = high /\ ticker[1].low = low
    BY <2>2 DEF ShownTicker
  <2> DEFINE hi == IF t.price > high THEN t.price ELSE high
             lo == IF t.price < low THEN t.price ELSE low
  <2>4. ticker' = <<[lastPrice |-> t.price, volume |-> Total(a), high |-> hi, low |-> lo]>>
    <3>1. Volume(t) = Total(a)
      BY <1>3, <2>3 DEF Volume
    <3> QED BY <2>3, <3>1 DEF RecordTrade
  <2>5. hi \in Nat /\ lo \in Nat
    BY <1>4
  <2>6. Spans(a, hi, lo)
    <3>1. PricesOf(d) \subseteq Nat
      BY PricesType
    <3> QED BY <1>3, <1>4, <2>2, <3>1 DEF Spans
  <2> HIDE DEF hi, lo
  <2>7. ticker' = ShownTicker(a, hi, lo)
    BY <1>2, <2>4 DEF ShownTicker
  <2> QED BY <1>2, <2>5, <2>6, <2>7 DEF TickerShows
<1> QED BY <1>1, <1>5, <1>6 DEF a

(* Two lists of the same trades, in any order. *)
SameTrades(d, e) ==
  Len(d) = Len(e) /\ Total(d) = Total(e) /\ PricesOf(d) = PricesOf(e)

FeedTyped ==
  /\ published \in Seq(Trade) /\ copies \in Seq(Trade)
  /\ committed \in Nat /\ since \in Nat /\ recorded \in BOOLEAN
  /\ since <= committed /\ committed <= Len(published)
  /\ recorded => committed < Len(published)

(* List and ticker show the trades in the order in which they were         *)
(* recorded, d; these are the ones that Recorded counts.                   *)
MarketInv ==
  /\ FeedTyped
  /\ \E d \in Seq(Trade) :
       SameTrades(d, Recorded) /\ trades = Kept(d) /\ TickerShows(ticker, d)

(* The trades that were published and recorded since the start, the next   *)
(* one included or not.                                                    *)
Consumed(n) == SubSeq(published, since + 1, n)

(* What was consumed, and how it grows. *)
LEMMA ConsumedGrows ==
  ASSUME FeedTyped
  PROVE  /\ Consumed(committed) \in Seq(Trade)
         /\ Recorded = Consumed(IF recorded THEN committed + 1 ELSE committed) \o copies
         /\ committed < Len(published) =>
              /\ published[committed + 1] \in Trade
              /\ Consumed(committed + 1) = Consumed(committed) \o <<published[committed + 1]>>
<1>1. Recorded = Consumed(IF recorded THEN committed + 1 ELSE committed) \o copies
  BY DEF Recorded, Consumed
<1>2. Consumed(committed) \in Seq(Trade)
  <2>1. \A i \in since + 1..committed : published[i] \in Trade
    BY DEF FeedTyped
  <2>2. since + 1 \in Int /\ committed \in Int
    BY DEF FeedTyped
  <2> QED BY <2>1, <2>2, SubSeqProperties DEF Consumed
<1>3. ASSUME committed < Len(published)
      PROVE  /\ published[committed + 1] \in Trade
             /\ Consumed(committed + 1) = Consumed(committed) \o <<published[committed + 1]>>
  <2> DEFINE m == since + 1
             n == committed + 1
  <2>1. /\ m \in 1..Len(published) /\ n \in m..Len(published) /\ n - 1 = committed
        /\ n \in 1..Len(published)
    BY <1>3 DEF FeedTyped
  <2>2. published \in Seq(Trade)
    BY DEF FeedTyped
  <2> HIDE DEF m, n
  <2>3. SubSeq(published, m, n) = SubSeq(published, m, n - 1) \o <<published[n]>>
    BY <2>1, <2>2, SubSeqRecursiveSecond
  <2>4. published[n] \in Trade
    BY <2>1, <2>2
  <2> QED BY <2>1, <2>3, <2>4 DEF m, n, Consumed
<1> QED BY <1>1, <1>2, <1>3

(* A trade counts the same before the copies and after them. *)
LEMMA CopiesCount ==
  ASSUME NEW s \in Seq(Trade), NEW c \in Seq(Trade), NEW t \in Trade
  PROVE  /\ SameTrades((s \o <<t>>) \o c, Append(s \o c, t))
         /\ SameTrades((s \o <<t>>) \o c, s \o Append(c, t))
<1> DEFINE one == <<t>>
<1>1. one \in Seq(Trade) /\ Len(one) = 1
  OBVIOUS
<1>2. s \o c \in Seq(Trade)
  BY ListsJoin
<1>3. Append(s \o c, t) = (s \o c) \o one /\ Append(c, t) = c \o one
  BY <1>2, AppendIsConcat
<1> HIDE DEF one
<1>4. s \o one \in Seq(Trade) /\ c \o one \in Seq(Trade)
  BY <1>1, ListsJoin
<1>5. /\ Len(s) \in Nat /\ Len(c) \in Nat
      /\ Total(s) \in Nat /\ Total(c) \in Nat /\ Total(one) \in Nat
  BY <1>1, TotalType
<1>6. /\ Len((s \o one) \o c) = Len(s) + 1 + Len(c)
      /\ Total((s \o one) \o c) = Total(s) + Total(one) + Total(c)
      /\ PricesOf((s \o one) \o c) = PricesOf(s) \cup PricesOf(one) \cup PricesOf(c)
  <2> DEFINE so == s \o one
  <2>1. /\ Len(so) = Len(s) + 1 /\ Total(so) = Total(s) + Total(one)
        /\ PricesOf(so) = PricesOf(s) \cup PricesOf(one)
    <3>1. /\ Len(so) = Len(s) + Len(one) /\ Total(so) = Total(s) + Total(one)
          /\ PricesOf(so) = PricesOf(s) \cup PricesOf(one)
      BY <1>1, ListsJoin
    <3> QED BY <1>1, <3>1
  <2>2. so \in Seq(Trade)
    BY <1>4
  <2> HIDE DEF so
  <2>3. /\ Len(so \o c) = Len(so) + Len(c) /\ Total(so \o c) = Total(so) + Total(c)
        /\ PricesOf(so \o c) = PricesOf(so) \cup PricesOf(c)
    BY <2>2, ListsJoin
  <2> QED BY <2>1, <2>3 DEF so
<1>7. /\ Len((s \o c) \o one) = Len(s) + Len(c) + 1
      /\ Total((s \o c) \o one) = Total(s) + Total(c) + Total(one)
      /\ PricesOf((s \o c) \o one) = PricesOf(s) \cup PricesOf(c) \cup PricesOf(one)
  BY <1>1, <1>2, ListsJoin
<1>8. /\ Len(s \o (c \o one)) = Len(s) + (Len(c) + 1)
      /\ Total(s \o (c \o one)) = Total(s) + (Total(c) + Total(one))
      /\ PricesOf(s \o (c \o one)) = PricesOf(s) \cup (PricesOf(c) \cup PricesOf(one))
  <2> DEFINE co == c \o one
  <2>1. /\ Len(co) = Len(c) + 1 /\ Total(co) = Total(c) + Total(one)
        /\ PricesOf(co) = PricesOf(c) \cup PricesOf(one)
    <3>1. /\ Len(co) = Len(c) + Len(one) /\ Total(co) = Total(c) + Total(one)
          /\ PricesOf(co) = PricesOf(c) \cup PricesOf(one)
      BY <1>1, ListsJoin
    <3> QED BY <1>1, <3>1
  <2>2. co \in Seq(Trade)
    BY <1>4
  <2> HIDE DEF co
  <2>3. /\ Len(s \o co) = Len(s) + Len(co) /\ Total(s \o co) = Total(s) + Total(co)
        /\ PricesOf(s \o co) = PricesOf(s) \cup PricesOf(co)
    BY <2>2, ListsJoin
  <2> QED BY <2>1, <2>3 DEF co
<1>9. SameTrades((s \o one) \o c, (s \o c) \o one)
  BY <1>5, <1>6, <1>7 DEF SameTrades
<1>10. SameTrades((s \o one) \o c, s \o (c \o one))
  BY <1>5, <1>6, <1>8 DEF SameTrades
<1> QED BY <1>3, <1>9, <1>10 DEF one

(* The same trades with one trade more. *)
LEMMA SameWithOneMore ==
  ASSUME NEW d \in Seq(Trade), NEW e \in Seq(Trade), NEW t \in Trade, SameTrades(d, e)
  PROVE  SameTrades(Append(d, t), Append(e, t))
<1> DEFINE one == <<t>>
<1>1. one \in Seq(Trade) /\ Append(d, t) = d \o one /\ Append(e, t) = e \o one
  BY AppendIsConcat
<1> HIDE DEF one
<1>2. /\ Len(d \o one) = Len(d) + Len(one) /\ Total(d \o one) = Total(d) + Total(one)
      /\ PricesOf(d \o one) = PricesOf(d) \cup PricesOf(one)
  BY <1>1, ListsJoin
<1>3. /\ Len(e \o one) = Len(e) + Len(one) /\ Total(e \o one) = Total(e) + Total(one)
      /\ PricesOf(e \o one) = PricesOf(e) \cup PricesOf(one)
  BY <1>1, ListsJoin
<1> QED BY <1>1, <1>2, <1>3 DEF SameTrades

(* Before a trade is recorded nothing is shown. *)
LEMMA NothingShown ==
  << >> \in Seq(Trade) /\ Kept(<< >>) = << >> /\ TickerShows(<< >>, << >>)
<1> DEFINE none == << >>
<1>1. none \in Seq(Trade) /\ Len(none) = 0
  OBVIOUS
<1>2. none = << >>
  OBVIOUS
<1> HIDE DEF none
<1>3. Kept(none) \in Seq(Trade) /\ Len(Kept(none)) = Len(none) - KeptFrom(none) + 1
      /\ KeptFrom(none) \in 1..Len(none) + 1
  BY <1>1, KeptIsEnd
<1>4. KeptFrom(none) = 1
  BY <1>1, <1>3
<1>5. Len(Kept(none)) = 0
  BY <1>1, <1>3, <1>4
<1>6. Kept(none) = << >>
  BY <1>3, <1>5
<1> QED BY <1>1, <1>2, <1>6 DEF TickerShows

(* Each step of the service keeps list and ticker those of what was        *)
(* recorded.                                                               *)
LEMMA MarketStep ==
  ASSUME MarketInv, [Next]_<<gatewayVars, marketVars, part>>
  PROVE  MarketInv'
<1>0. FeedTyped
  BY DEF MarketInv
<1>1. PICK d \in Seq(Trade) :
        SameTrades(d, Recorded) /\ trades = Kept(d) /\ TickerShows(ticker, d)
  BY DEF MarketInv
<1> DEFINE s == Consumed(committed)
           t == published[committed + 1]
<1>2. s \in Seq(Trade) /\ copies \in Seq(Trade)
  BY <1>0, ConsumedGrows DEF FeedTyped
<1>3. committed < Len(published) => t \in Trade /\ Consumed(committed + 1) = s \o <<t>>
  BY <1>0, ConsumedGrows
<1>4. Recorded = IF recorded THEN Consumed(committed + 1) \o copies ELSE s \o copies
  BY <1>0, ConsumedGrows
<1>5. CASE UNCHANGED marketVars
  BY <1>5 DEF MarketInv, FeedTyped, Recorded, marketVars, feed
<1>6. CASE Publish
  <2>1. PICK price \in TradePrices, quantity \in TradeQuantities :
          published' = Append(published, [price |-> price, quantity |-> quantity])
    BY <1>6 DEF Publish
  <2> DEFINE e == [price |-> price, quantity |-> quantity]
             n == IF recorded THEN committed + 1 ELSE committed
  <2>2. e \in Trade
    BY MarketAssumption DEF Trade
  <2>3. published \in Seq(Trade)
    BY <1>0 DEF FeedTyped
  <2> HIDE DEF e
  <2>4. /\ published' \in Seq(Trade) /\ Len(published') = Len(published) + 1
        /\ \A i \in 1..Len(published) : published'[i] = published[i]
    BY <2>1, <2>2, <2>3, AppendProperties DEF e
  <2>5. UNCHANGED <<committed, recorded, trades, ticker, since, copies>>
    BY <1>6 DEF Publish
  <2>6. FeedTyped'
    <3>1. Len(published) \in Nat
      BY <2>3
    <3> QED BY <1>0, <2>4, <2>5, <3>1 DEF FeedTyped
  <2>7. SubSeq(published', since + 1, n) = SubSeq(published, since + 1, n)
    <3> DEFINE m == since + 1
               x == SubSeq(published', m, n)
               y == SubSeq(published, m, n)
    <3>1. m \in Int /\ n \in Int /\ m >= 1 /\ n <= Len(published)
      BY <1>0 DEF FeedTyped
    <3>2. \A i \in m..n : published'[i] = published[i] /\ published[i] \in Trade
      BY <2>3, <2>4, <3>1
    <3> HIDE DEF m, n
    <3>3. /\ y \in Seq(Trade) /\ Len(y) = (IF m <= n THEN n - m + 1 ELSE 0)
          /\ \A i \in 1..n - m + 1 : y[i] = published[m + i - 1]
      BY <3>1, <3>2, SubSeqProperties
    <3>4. \A i \in m..n : published'[i] \in Trade
      BY <3>2
    <3>5. /\ x \in Seq(Trade) /\ Len(x) = (IF m <= n THEN n - m + 1 ELSE 0)
          /\ \A i \in 1..n - m + 1 : x[i] = published'[m + i - 1]
      BY <3>1, <3>4, SubSeqProperties
    <3> HIDE DEF x, y
    <3>6. \A i \in 1..Len(x) : x[i] = y[i]
      <4> TAKE i \in 1..Len(x)
      <4>1. m <= n /\ i \in 1..n - m + 1 /\ m + i - 1 \in m..n
        BY <3>1, <3>5
      <4> QED BY <3>2, <3>3, <3>5, <4>1
    <3>7. x = y
      BY <3>3, <3>5, <3>6, SameList
    <3> QED BY <3>7 DEF x, y, m, n
  <2>8. Recorded' = Recorded
    BY <2>5, <2>7 DEF Recorded
  <2> QED BY <1>1, <2>5, <2>6, <2>8 DEF MarketInv
<1>7. CASE Consume
  <2>1. ~recorded /\ recorded' /\ committed < Len(published) /\ RecordTrade(t)
        /\ UNCHANGED <<published, committed, since, copies>>
    BY <1>7 DEF Consume
  <2>2. t \in Trade /\ trades' = Kept(Append(d, t)) /\ TickerShows(ticker', Append(d, t))
    BY <1>1, <1>3, <2>1, RecordShows
  <2>3. Recorded' = (s \o <<t>>) \o copies
    <3>1. Recorded' = Consumed(committed + 1) \o copies
      BY <2>1 DEF Recorded, Consumed
    <3> QED BY <1>3, <2>1, <3>1
  <2>4. SameTrades(d, s \o copies) /\ s \o copies \in Seq(Trade)
    BY <1>1, <1>2, <1>4, <2>1, ListsJoin
  <2>5. SameTrades(Append(d, t), Append(s \o copies, t))
    BY <2>2, <2>4, SameWithOneMore
  <2>6. SameTrades((s \o <<t>>) \o copies, Append(s \o copies, t))
    BY <1>2, <2>2, CopiesCount
  <2> HIDE DEF s, t
  <2>7. SameTrades(Append(d, t), Recorded')
    BY <2>3, <2>5, <2>6 DEF SameTrades
  <2>8. FeedTyped'
    BY <1>0, <1>7 DEF FeedTyped, Consume
  <2>9. Append(d, t) \in Seq(Trade)
    BY <2>2, AppendProperties
  <2> QED BY <2>2, <2>7, <2>8, <2>9 DEF MarketInv
<1>8. CASE CommitTrade
  <2>1. recorded /\ ~recorded' /\ committed' = committed + 1
        /\ UNCHANGED <<published, trades, ticker, since, copies>>
    BY <1>8 DEF CommitTrade
  <2>2. Recorded' = Recorded
    BY <2>1 DEF Recorded
  <2>3. FeedTyped'
    <3>1. /\ committed \in Nat /\ since \in Nat /\ since <= committed
          /\ committed < Len(published) /\ Len(published) \in Nat
          /\ published \in Seq(Trade) /\ copies \in Seq(Trade)
      BY <1>0, <2>1 DEF FeedTyped
    <3>2. /\ committed' \in Nat /\ since' \in Nat /\ since' <= committed'
          /\ committed' <= Len(published')
      BY <1>8, <3>1 DEF CommitTrade
    <3>3. recorded' = FALSE /\ published' = published /\ copies' = copies
      BY <1>8 DEF CommitTrade
    <3> QED BY <3>1, <3>2, <3>3 DEF FeedTyped
  <2> QED BY <1>1, <2>1, <2>2, <2>3 DEF MarketInv
<1>9. CASE DeliverAgain
  <2>1. recorded /\ ~recorded' /\ copies' = Append(copies, t) /\ committed < Len(published)
        /\ UNCHANGED <<published, committed, trades, ticker, since>>
    BY <1>0, <1>9 DEF DeliverAgain, FeedTyped
  <2>2. Recorded' = s \o Append(copies, t)
    BY <2>1 DEF Recorded, Consumed
  <2>3. Recorded = (s \o <<t>>) \o copies /\ t \in Trade
    BY <1>3, <1>4, <2>1
  <2>4. SameTrades((s \o <<t>>) \o copies, s \o Append(copies, t))
    BY <1>2, <2>3, CopiesCount
  <2>5. Append(copies, t) \in Seq(Trade)
    BY <1>2, <2>3, AppendProperties
  <2>6. FeedTyped'
    <3> HIDE DEF t
    <3> QED BY <1>0, <1>9, <2>1, <2>5 DEF FeedTyped, DeliverAgain
  <2> HIDE DEF s, t
  <2>7. SameTrades(d, Recorded')
    BY <1>1, <2>2, <2>3, <2>4 DEF SameTrades
  <2> QED BY <1>1, <2>1, <2>6, <2>7 DEF MarketInv
<1>10. CASE RestartMarket
  <2>1. ~recorded' /\ trades' = << >> /\ ticker' = << >> /\ since' = committed
        /\ copies' = << >> /\ UNCHANGED <<published, committed>>
    BY <1>10 DEF RestartMarket
  <2> DEFINE none == << >>
  <2>2. none \in Seq(Trade) /\ Kept(none) = none /\ TickerShows(none, none)
    BY NothingShown
  <2>3. Recorded' = none
    <3>1. SubSeq(published, committed + 1, committed) = << >>
      BY <1>0, SubSeqEmpty DEF FeedTyped
    <3>2. Recorded' = SubSeq(published, committed + 1, committed) \o << >>
      BY <2>1 DEF Recorded
    <3> QED BY <3>1, <3>2
  <2>4. FeedTyped'
    <3>1. /\ committed' \in Nat /\ since' \in Nat /\ since' <= committed'
          /\ committed' <= Len(published')
      BY <1>0, <2>1 DEF FeedTyped
    <3>2. recorded' = FALSE /\ copies' = none
      BY <1>10 DEF RestartMarket
    <3>3. published' \in Seq(Trade)
      BY <1>0, <2>1 DEF FeedTyped
    <3> HIDE DEF none
    <3> QED BY <2>2, <3>1, <3>2, <3>3 DEF FeedTyped
  <2>5. trades' = none /\ ticker' = none
    BY <2>1
  <2> HIDE DEF none
  <2>6. SameTrades(none, Recorded') /\ trades' = Kept(none) /\ TickerShows(ticker', none)
    BY <2>2, <2>3, <2>5 DEF SameTrades
  <2> QED BY <2>2, <2>4, <2>6 DEF MarketInv
<1> QED BY <1>5, <1>6, <1>7, <1>8, <1>9, <1>10 DEF Next, MarketNext

(* What the service shows is what it has recorded, in some order, since it *)
(* started.                                                                *)
THEOREM MarketInductive == Spec => []MarketInv
<1>1. Init => MarketInv
  <2> SUFFICES ASSUME Init PROVE MarketInv
    OBVIOUS
  <2> DEFINE none == << >>
  <2>1. /\ published = none /\ committed = 0 /\ recorded = FALSE /\ trades = none
        /\ ticker = none /\ since = 0 /\ copies = none
    BY DEF Init, MarketInit
  <2>2. none \in Seq(Trade) /\ Kept(none) = none /\ TickerShows(none, none)
    BY NothingShown
  <2>3. Len(none) = 0 /\ none \o none = none
    OBVIOUS
  <2>4. SubSeq(published, since + 1, committed) = none
    <3>1. since + 1 \in Int /\ committed \in Int /\ committed < since + 1
      BY <2>1
    <3> QED BY <3>1, SubSeqEmpty
  <2> HIDE DEF none
  <2>5. FeedTyped
    <3>1. /\ committed \in Nat /\ since \in Nat /\ since <= committed
          /\ committed <= Len(published)
      BY <2>1, <2>3
    <3> QED BY <2>1, <2>2, <3>1 DEF FeedTyped
  <2>6. Recorded = none
    BY <2>1, <2>3, <2>4 DEF Recorded
  <2>7. SameTrades(none, Recorded) /\ trades = Kept(none) /\ TickerShows(ticker, none)
    BY <2>1, <2>2, <2>6 DEF SameTrades
  <2> QED BY <2>2, <2>5, <2>7 DEF MarketInv
<1>2. MarketInv /\ [Next]_<<gatewayVars, marketVars, part>> => MarketInv'
  BY MarketStep
<1> QED BY <1>1, <1>2, PTL DEF Spec

(* A set of numbers with a bound has a greatest element and a least. *)
LEMMA Extremes ==
  ASSUME NEW S \in SUBSET Nat, S # {}, NEW h \in Nat, \A x \in S : x <= h
  PROVE  /\ Max(S) \in S /\ Min(S) \in S
         /\ \A x \in S : Min(S) <= x /\ x <= Max(S)
<1>1. \E x \in S : \A y \in S : x >= y
  <2> DEFINE U == {x + 1 : x \in S}
  <2>1. U \in SUBSET (1..h + 1) /\ U # {} /\ h + 1 \in Nat
    <3>1. \A x \in S : x + 1 \in 1..h + 1
      OBVIOUS
    <3>2. U # {} /\ h + 1 \in Nat
      <4>1. PICK x \in S : TRUE
        OBVIOUS
      <4>2. x + 1 \in U
        BY <4>1
      <4> QED BY <4>2
    <3> QED BY <3>1, <3>2
  <2> DEFINE n == h + 1
  <2>2. n \in Nat /\ U \in SUBSET (1..n)
    BY <2>1
  <2> HIDE DEF U, n
  <2>3. Max(U) \in U /\ \A x \in U : Max(U) >= x
    BY <2>1, <2>2, MaxIsIn
  <2>4. PICK x \in S : Max(U) = x + 1
    BY <2>3 DEF U
  <2>5. \A y \in S : x + 1 >= y + 1
    BY <2>3, <2>4 DEF U
  <2>6. \A y \in S : x >= y
    BY <2>5
  <2> QED BY <2>6
<1>2. \E x \in S : \A y \in S : x <= y
  <2> DEFINE D == {h + 1 - x : x \in S}
             n == h + 1
  <2>1. D \in SUBSET (1..n) /\ D # {} /\ n \in Nat
    <3>1. \A x \in S : h + 1 - x \in 1..n
      OBVIOUS
    <3>2. D # {} /\ n \in Nat
      <4>1. PICK x \in S : TRUE
        OBVIOUS
      <4>2. h + 1 - x \in D
        BY <4>1
      <4> QED BY <4>2
    <3> HIDE DEF n
    <3> QED BY <3>1, <3>2
  <2> HIDE DEF D, n
  <2>2. Max(D) \in D /\ \A x \in D : Max(D) >= x
    BY <2>1, MaxIsIn
  <2>3. PICK x \in S : Max(D) = h + 1 - x
    BY <2>2 DEF D
  <2>4. \A y \in S : h + 1 - x >= h + 1 - y
    BY <2>2, <2>3 DEF D
  <2>5. \A y \in S : x <= y
    BY <2>4
  <2> QED BY <2>5
<1>3. Max(S) \in S /\ \A y \in S : Max(S) >= y
  BY <1>1 DEF Max
<1>4. Min(S) \in S /\ \A y \in S : Min(S) <= y
  BY <1>2 DEF Min
<1> QED BY <1>3, <1>4

(* What was recorded is a list of trades. *)
LEMMA RecordedType ==
  ASSUME FeedTyped
  PROVE  Recorded \in Seq(Trade)
<1>1. copies \in Seq(Trade) /\ Consumed(committed) \in Seq(Trade)
  BY ConsumedGrows DEF FeedTyped
<1>2. CASE recorded
  <2> DEFINE one == <<published[committed + 1]>>
  <2>1. committed < Len(published)
    BY <1>2 DEF FeedTyped
  <2>2. Consumed(committed + 1) = Consumed(committed) \o one /\ one \in Seq(Trade)
    BY <2>1, ConsumedGrows
  <2> HIDE DEF one
  <2>3. Consumed(committed + 1) \in Seq(Trade)
    BY <1>1, <2>2, ListsJoin
  <2>4. Recorded = Consumed(committed + 1) \o copies
    BY <1>2, ConsumedGrows
  <2> QED BY <1>1, <2>3, <2>4, ListsJoin
<1>3. CASE ~recorded
  <2>1. Recorded = Consumed(committed) \o copies
    BY <1>3, ConsumedGrows
  <2> QED BY <1>1, <2>1, ListsJoin
<1> QED BY <1>2, <1>3

(* The ticker counts every trade that was recorded since the service       *)
(* started, as often as it was delivered, whatever was cut from the list   *)
(* (recordTrade, getTicker).                                               *)
THEOREM TickerIsRight == Spec => []TickerCounts
<1>1. ASSUME MarketInv
      PROVE  TickerCounts
  <2>1. FeedTyped
    BY <1>1 DEF MarketInv
  <2>2. PICK d \in Seq(Trade) : SameTrades(d, Recorded) /\ TickerShows(ticker, d)
    BY <1>1 DEF MarketInv
  <2> DEFINE r == Recorded
  <2>3. r \in Seq(Trade)
    BY <2>1, RecordedType
  <2>4. CASE d = << >>
    <3>1. ticker = << >>
      BY <2>2, <2>4 DEF TickerShows
    <3>2. Len(r) = 0
      BY <2>2, <2>4 DEF SameTrades
    <3> HIDE DEF r
    <3>3. r = << >>
      BY <2>3, <3>2
    <3> QED BY <3>1, <3>3 DEF TickerCounts, r
  <2>5. CASE d # << >>
    <3>1. PICK high \in Nat : \E low \in Nat :
                 Spans(d, high, low) /\ ticker = ShownTicker(d, high, low)
      BY <2>2, <2>5 DEF TickerShows
    <3>2. PICK low \in Nat : Spans(d, high, low) /\ ticker = ShownTicker(d, high, low)
      BY <3>1
    <3>3. /\ ticker # << >> /\ ticker[1].volume = Total(d)
          /\ ticker[1].high = high /\ ticker[1].low = low
      BY <3>2 DEF ShownTicker
    <3> DEFINE S == PricesOf(d)
    <3>4. S \in SUBSET Int
      BY PricesType
    <3>5. high \in S /\ low \in S /\ \A x \in S : low <= x /\ x <= high
      BY <3>2 DEF Spans
    <3> HIDE DEF S
    <3>6. Max(S) = high /\ Min(S) = low
      BY <3>4, <3>5, Bounds
    <3>7. Total(Recorded) = Total(d) /\ PricesOf(Recorded) = S
      BY <2>2 DEF SameTrades, S
    <3> QED BY <3>3, <3>6, <3>7 DEF TickerCounts
  <2> QED BY <2>4, <2>5
<1> QED BY <1>1, MarketInductive, PTL

(* The candle, which is computed from the list, and the ticker tell the    *)
(* same (getKlines, getTicker).                                            *)
THEOREM CandleIsRight == Spec => []CandleMatchesTicker
<1>1. ASSUME MarketInv
      PROVE  CandleMatchesTicker
  <2>1. PICK d \in Seq(Trade) :
          SameTrades(d, Recorded) /\ trades = Kept(d) /\ TickerShows(ticker, d)
    BY <1>1 DEF MarketInv
  <2> DEFINE n == Len(d)
             m == KeptFrom(d)
             k == Kept(d)
  <2>2. /\ n \in Nat /\ m \in 1..n + 1 /\ k \in Seq(Trade) /\ Len(k) = n - m + 1
        /\ k = SubSeq(d, m, n)
        /\ \A i \in 1..n - m + 1 : k[i] = d[m + i - 1]
    <3>1. n \in Nat
      OBVIOUS
    <3>2. /\ m \in 1..n + 1 /\ k \in Seq(Trade) /\ Len(k) = n - m + 1
          /\ k = SubSeq(d, m, n)
      BY KeptIsEnd
    <3>3. \A i \in 1..n - m + 1 : k[i] = d[m + i - 1]
      BY KeptIsEnd
    <3> QED BY <3>1, <3>2, <3>3
  <2>3. CASE d = << >>
    <3>1. ticker = << >> /\ trades = << >>
      BY <2>1, <2>3, NothingShown DEF TickerShows
    <3> QED BY <3>1 DEF CandleMatchesTicker
  <2>4. CASE d # << >>
    <3>1. PICK high \in Nat : \E low \in Nat :
                 Spans(d, high, low) /\ ticker = ShownTicker(d, high, low)
      BY <2>1, <2>4 DEF TickerShows
    <3>2. PICK low \in Nat : Spans(d, high, low) /\ ticker = ShownTicker(d, high, low)
      BY <3>1
    <3>3. /\ ticker # << >> /\ ticker[1].volume = Total(d)
          /\ ticker[1].lastPrice = d[n].price
          /\ ticker[1].high = high /\ ticker[1].low = low
      BY <3>2 DEF ShownTicker
    <3>4. m \in 1..n /\ n >= 1
      <4>1. n \in 1..n
        BY <2>4, PricesType
      <4>2. KeptTrades \in Nat /\ KeptTrades >= 1
        BY MarketAssumption
      <4> QED BY <2>2, <4>1, <4>2 DEF KeptFrom
    <3> HIDE DEF n, m, k
    <3>5. k # << >> /\ Len(k) \in 1..Len(k) /\ k[Len(k)] = d[n]
      <4>1. n - m + 1 \in 1..n - m + 1 /\ m + (n - m + 1) - 1 = n
        BY <2>2, <3>4
      <4>2. Len(k) # 0 /\ k[Len(k)] = d[n]
        BY <2>2, <4>1
      <4> QED BY <2>2, <4>1, <4>2
    <3> DEFINE S == PricesOf(d)
               U == PricesOf(k)
               first == SubSeq(d, 1, m - 1)
    <3>6. S \in SUBSET Nat /\ U \in SUBSET Nat /\ U # {}
      BY <2>2, <3>5, PricesType
    <3>7. first \in Seq(Trade) /\ d = first \o k
      <4>1. 1 \in 1..Len(d) + 1 /\ m - 1 \in 1 - 1..Len(d) /\ Len(d) \in m - 1..Len(d)
            /\ (m - 1) + 1 = m
        BY <2>2, <3>4 DEF n
      <4>2. SubSeq(d, 1, m - 1) \o SubSeq(d, m, Len(d)) = SubSeq(d, 1, Len(d))
        <5> DEFINE j == m - 1
        <5>1. j \in 1 - 1..Len(d) /\ Len(d) \in j..Len(d) /\ j + 1 = m
          BY <4>1
        <5> HIDE DEF j
        <5>2. SubSeq(d, 1, j) \o SubSeq(d, j + 1, Len(d)) = SubSeq(d, 1, Len(d))
          BY <4>1, <5>1, ConcatAdjacentSubSeq
        <5> QED BY <5>1, <5>2 DEF j
      <4>3. SubSeq(d, 1, Len(d)) = d
        BY SubSeqFull
      <4>4. \A i \in 1..m - 1 : d[i] \in Trade
        BY <2>2 DEF n
      <4>5. first \in Seq(Trade)
        BY <4>1, <4>4, SubSeqProperties
      <4> QED BY <2>2, <4>2, <4>3, <4>5 DEF n
    <3> HIDE DEF first
    <3>8. Total(d) = Total(first) + Total(k) /\ S = PricesOf(first) \cup U
      BY <2>2, <3>7, ListsJoin
    <3>9. Total(first) \in Nat /\ Total(k) \in Nat
      BY <2>2, <3>7, TotalType
    <3>10. high \in S /\ low \in S /\ \A x \in S : low <= x /\ x <= high
      BY <3>2 DEF Spans
    <3> HIDE DEF S, U
    <3>11. Max(U) \in U /\ Min(U) \in U /\ Max(U) <= high /\ low <= Min(U)
      <4>1. \A x \in U : x <= high /\ low <= x
        BY <3>8, <3>10
      <4>2. Max(U) \in U /\ Min(U) \in U
        BY <3>6, <4>1, Extremes
      <4> QED BY <4>1, <4>2
    <3>12. ASSUME Len(Recorded) <= KeptTrades
           PROVE  Total(k) = Total(d) /\ Max(U) = high /\ Min(U) = low
      <4>1. m = 1
        BY <2>1, <2>2, <3>12, MarketAssumption DEF SameTrades, KeptFrom, n, m
      <4>2. k = d
        BY <2>2, <4>1, SubSeqFull DEF n
      <4>3. U = S /\ S \in SUBSET Int
        BY <3>6, <4>2 DEF U, S
      <4> QED BY <3>10, <4>2, <4>3, Bounds
    <3>13. Kline(trades) = [open |-> Head(k).price, close |-> d[n].price,
                            volume |-> Total(k), high |-> Max(U), low |-> Min(U)]
      BY <2>1, <3>5 DEF Kline, Last, U, k
    <3>14. trades # << >>
      BY <2>1, <3>5 DEF k
    <3> DEFINE kl == Kline(trades)
    <3>15. /\ kl.close = d[n].price /\ kl.volume = Total(k)
           /\ kl.high = Max(U) /\ kl.low = Min(U) /\ kl.open = Head(k).price
      BY <3>13
    <3>16. ASSUME Len(Recorded) <= KeptTrades
           PROVE  kl = [open |-> kl.open, close |-> ticker[1].lastPrice,
                        volume |-> ticker[1].volume, high |-> ticker[1].high,
                        low |-> ticker[1].low]
      BY <3>3, <3>12, <3>13, <3>15, <3>16
    <3> HIDE DEF kl
    <3>17. kl.volume <= ticker[1].volume
      BY <3>3, <3>8, <3>9, <3>15
    <3>18. /\ kl.close = ticker[1].lastPrice
           /\ ticker[1].low <= kl.low /\ kl.high <= ticker[1].high
      BY <3>3, <3>11, <3>15
    <3> QED BY <3>3, <3>14, <3>16, <3>17, <3>18 DEF CandleMatchesTicker, kl
  <2> QED BY <2>3, <2>4
<1> QED BY <1>1, MarketInductive, PTL
=============================================================================
