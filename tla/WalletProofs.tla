---------------------------- MODULE WalletProofs ----------------------------
(***************************************************************************)
(* Wallet for any users, assets, amounts and number of transactions: its   *)
(* types, that no wallet is overdrawn, that the money of an account that   *)
(* is frozen stays put, that nothing is created or destroyed, and that     *)
(* transactions side by side do what one operation after the other does.   *)
(***************************************************************************)
EXTENDS Wallet, MovementProofs, SequenceTheorems, TLAPS

-----------------------------------------------------------------------------
(* The invariant *)

(* What a transaction reads of a wallet is an account. *)
LEMMA ReadType ==
  ASSUME TypeOK, NEW t \in Txs, NEW w \in Wallets
  PROVE  Read(t, w) \in Account
BY DEF TypeOK, Read

(* The service starts with no transaction open. *)
LEMMA InitIInv == Init => IInv
<1> SUFFICES ASSUME Init PROVE IInv
  OBVIOUS
<1> USE DEF Init
<1>1. TypeOK
  <2>1. accounts \in [Wallets -> Account]
    BY OpeningAssumption
  <2>2. unchecked \in [Txs -> Seq(Users)] /\ legs \in [Txs -> Seq(Legs)]
    OBVIOUS
  <2>3. inflow \in [Txs -> [Assets -> Int]] /\ flow \in [Assets -> Int]
    OBVIOUS
  <2>4. draft \in [Txs -> [Wallets -> Account]]
    BY OpeningAssumption
  <2> QED BY <2>1, <2>2, <2>3, <2>4 DEF TypeOK
<1>2. NeverOverdrawn
  BY OpeningAssumption DEF NeverOverdrawn
<1>3. DraftsNonNegative
  BY DEF DraftsNonNegative
<1>4. OwnersChecked
  BY DEF OwnersChecked
<1>5. CheckedStayActive /\ MovesAfterChecks
  BY DEF CheckedStayActive, MovesAfterChecks
<1> QED BY <1>1, <1>2, <1>3, <1>4, <1>5 DEF IInv

(* A transaction begins with an operation that has not checked anything. *)
LEMMA BeginOK ==
  ASSUME IInv, NEW t \in Txs, Begin(t)
  PROVE  IInv'
<1> PICK op \in Asked :
      /\ unchecked' = [unchecked EXCEPT ![t] = op.users]
      /\ legs' = [legs EXCEPT ![t] = op.legs]
      /\ inflow' = [inflow EXCEPT ![t] = op.inflow]
  BY DEF Begin
<1>1. /\ op.users \in Seq(Users) /\ op.legs \in Seq(Legs)
      /\ op.inflow \in [Assets -> Int]
      /\ \A i \in DOMAIN op.legs : op.legs[i].wallet[1] \in Range(op.users)
  BY AskedType DEF Operations, OwnersAreUsers
<1>2. /\ stage' = [stage EXCEPT ![t] = "checking"]
      /\ operations' = operations + 1
      /\ UNCHANGED <<accounts, active, draft, shared, stale, locker, flow,
                     statusChanges, failures>>
  BY DEF Begin
<1>3. TypeOK'
  BY <1>1, <1>2 DEF IInv, TypeOK
<1>4. NeverOverdrawn' /\ DraftsNonNegative' /\ CheckedStayActive'
  BY <1>2 DEF IInv, NeverOverdrawn, DraftsNonNegative, CheckedStayActive
<1>5. OwnersChecked'
  <2>1. \A s \in Txs : \A i \in DOMAIN legs'[s] :
          legs'[s][i].wallet[1] \in shared'[s] \cup Range(unchecked'[s])
    <3> SUFFICES ASSUME NEW s \in Txs, NEW i \in DOMAIN legs'[s]
                 PROVE  legs'[s][i].wallet[1] \in shared'[s] \cup Range(unchecked'[s])
      OBVIOUS
    <3>1. CASE s = t
      BY <1>1, <3>1 DEF IInv, TypeOK
    <3>2. CASE s # t
      BY <1>2, <3>2 DEF IInv, TypeOK, OwnersChecked
    <3> QED BY <3>1, <3>2
  <2> QED BY <1>2, <2>1 DEF IInv, OwnersChecked
<1>6. MovesAfterChecks'
  BY <1>2 DEF IInv, TypeOK, MovesAfterChecks
<1> QED BY <1>3, <1>4, <1>5, <1>6 DEF IInv

(* The users of a list are its first and those of the rest. *)
LEMMA RangeOfList ==
  ASSUME NEW list \in Seq(Users), list # << >>
  PROVE  /\ Head(list) \in Users /\ Tail(list) \in Seq(Users)
         /\ Range(list) \subseteq {Head(list)} \cup Range(Tail(list))
         /\ Len(list) = 1 => Tail(list) = << >>
<1>1. /\ Head(list) \in Users /\ Tail(list) \in Seq(Users)
      /\ Head(list) = list[1]
      /\ \A i \in 1..Len(list) - 1 : Tail(list)[i] = list[i + 1]
      /\ Len(Tail(list)) = Len(list) - 1 /\ Len(list) \in Nat
  OBVIOUS
<1>2. ASSUME NEW i \in DOMAIN list
      PROVE  list[i] \in {Head(list)} \cup Range(Tail(list))
  <2>1. CASE i = 1
    BY <1>1, <2>1
  <2>2. CASE i # 1
    <3>1. i - 1 \in DOMAIN Tail(list) /\ list[i] = Tail(list)[i - 1]
      BY <1>1, <2>2, LenProperties
    <3> QED BY <3>1 DEF Range
  <2> QED BY <2>1, <2>2
<1>3. Range(list) \subseteq {Head(list)} \cup Range(Tail(list))
  BY <1>2 DEF Range
<1>4. Len(list) = 1 => Tail(list) = << >>
  <2>1. Tail(list) # << >> => Len(Tail(list)) \in Nat \ {0}
    BY <1>1, EmptySeq
  <2> QED BY <1>1, <2>1
<1> QED BY <1>1, <1>3, <1>4

(* A user that is checked is active, and its row is held. *)
LEMMA CheckUserOK ==
  ASSUME IInv, NEW t \in Txs, CheckUser(t)
  PROVE  IInv'
<1> DEFINE list == unchecked[t]
           user == Head(list)
<1>1. list \in Seq(Users) /\ list # << >>
  BY DEF IInv, TypeOK, CheckUser
<1>2. /\ user \in Users /\ Tail(list) \in Seq(Users)
      /\ Range(list) \subseteq {user} \cup Range(Tail(list))
      /\ Len(list) = 1 => Tail(list) = << >>
  BY <1>1, RangeOfList
<1>3. /\ active[user]
      /\ shared' = [shared EXCEPT ![t] = @ \cup {user}]
      /\ unchecked' = [unchecked EXCEPT ![t] = Tail(list)]
      /\ stage' = [stage EXCEPT ![t] = IF Len(list) = 1 THEN "moving" ELSE @]
      /\ stage[t] = "checking"
      /\ UNCHANGED <<accounts, active, legs, inflow, draft, stale, locker, flow,
                     operations, statusChanges, failures>>
  BY DEF CheckUser, counters
<1> HIDE DEF list, user
<1>4. TypeOK'
  BY <1>2, <1>3 DEF IInv, TypeOK
<1>5. NeverOverdrawn' /\ DraftsNonNegative'
  BY <1>3 DEF IInv, NeverOverdrawn, DraftsNonNegative
<1>6. OwnersChecked'
  <2>1. \A w \in Wallets : locker'[w] # NoTx => w[1] \in shared'[locker'[w]]
    BY <1>3 DEF IInv, TypeOK, OwnersChecked
  <2>2. ASSUME NEW s \in Txs, NEW i \in DOMAIN legs'[s]
        PROVE  legs'[s][i].wallet[1] \in shared'[s] \cup Range(unchecked'[s])
    <3>1. legs[s][i].wallet[1] \in shared[s] \cup Range(unchecked[s])
      BY <1>3, <2>2 DEF IInv, OwnersChecked
    <3>2. CASE s = t
      BY <1>2, <1>3, <3>1, <3>2 DEF IInv, TypeOK, list
    <3>3. CASE s # t
      BY <1>3, <3>1, <3>3 DEF IInv, TypeOK
    <3> QED BY <3>2, <3>3
  <2> QED BY <2>1, <2>2 DEF OwnersChecked
<1>7. CheckedStayActive'
  BY <1>3 DEF IInv, TypeOK, CheckedStayActive
<1>8. MovesAfterChecks'
  BY <1>2, <1>3 DEF IInv, TypeOK, MovesAfterChecks
<1> QED BY <1>4, <1>5, <1>6, <1>7, <1>8 DEF IInv

(* The rest of a list of legs is part of it. *)
LEMMA RestOfLegs ==
  ASSUME NEW list \in Seq(Legs), list # << >>
  PROVE  /\ Head(list) \in Legs /\ Tail(list) \in Seq(Legs)
         /\ 1 \in DOMAIN list /\ Head(list) = list[1]
         /\ \A i \in DOMAIN Tail(list) : /\ i + 1 \in DOMAIN list
                                        /\ Tail(list)[i] = list[i + 1]
<1>1. /\ Head(list) \in Legs /\ Tail(list) \in Seq(Legs)
      /\ Head(list) = list[1] /\ Len(list) \in Nat \ {0}
      /\ \A i \in 1..Len(list) - 1 : Tail(list)[i] = list[i + 1]
      /\ Len(Tail(list)) = Len(list) - 1
  BY EmptySeq
<1>2. DOMAIN list = 1..Len(list) /\ DOMAIN Tail(list) = 1..Len(list) - 1
  BY <1>1, LenProperties
<1> QED BY <1>1, <1>2

(* A leg is drafted on a row that the transaction then holds, if nothing   *)
(* of the wallet falls below zero; the owner has been checked.             *)
LEMMA ApplyLegOK ==
  ASSUME IInv, NEW t \in Txs, ApplyLeg(t)
  PROVE  IInv'
<1> DEFINE leg == Head(legs[t])
           w == leg.wallet
           moved == Moved(Read(t, w), leg)
<1>1. /\ leg \in Legs /\ Tail(legs[t]) \in Seq(Legs)
      /\ 1 \in DOMAIN legs[t] /\ leg = legs[t][1]
      /\ \A i \in DOMAIN Tail(legs[t]) : /\ i + 1 \in DOMAIN legs[t]
                                        /\ Tail(legs[t])[i] = legs[t][i + 1]
  BY RestOfLegs DEF IInv, TypeOK, ApplyLeg
<1>2. w \in Wallets /\ moved \in Account
  BY <1>1, ReadType, MovedType DEF Legs, IInv
<1>3. /\ NonNegative(moved)
      /\ draft' = [draft EXCEPT ![t][w] = moved]
      /\ locker' = [locker EXCEPT ![w] = t]
      /\ legs' = [legs EXCEPT ![t] = Tail(@)]
      /\ locker[w] \in {NoTx, t}
      /\ unchecked[t] = << >>
      /\ UNCHANGED <<accounts, active, stage, unchecked, inflow, shared, stale, flow,
                     operations, statusChanges, failures>>
  BY DEF ApplyLeg, MayLock, counters, IInv, MovesAfterChecks
<1>4. w[1] \in shared[t]
  BY <1>1, <1>3 DEF IInv, OwnersChecked, Range
<1> HIDE DEF moved, w, leg
<1>5. TypeOK'
  <2>1. draft' \in [Txs -> [Wallets -> Account]]
    BY <1>2, <1>3 DEF IInv, TypeOK
  <2>2. legs' \in [Txs -> Seq(Legs)] /\ locker' \in [Wallets -> Txs \cup {NoTx}]
    BY <1>1, <1>3 DEF IInv, TypeOK
  <2> QED BY <1>3, <2>1, <2>2 DEF IInv, TypeOK
<1>6. NeverOverdrawn' /\ CheckedStayActive' /\ MovesAfterChecks'
  BY <1>3 DEF IInv, NeverOverdrawn, CheckedStayActive, MovesAfterChecks
<1>7. DraftsNonNegative'
  <2> SUFFICES ASSUME NEW v \in Wallets, locker'[v] # NoTx
               PROVE  NonNegative(draft'[locker'[v]][v])
    BY DEF DraftsNonNegative
  <2>1. CASE v = w
    <3>1. locker'[v] = t
      BY <1>3, <2>1 DEF IInv, TypeOK
    <3>2. draft'[t][v] = moved
      BY <1>2, <1>3, <2>1 DEF IInv, TypeOK
    <3> QED BY <1>3, <3>1, <3>2
  <2>2. CASE v # w
    <3>1. locker'[v] = locker[v]
      BY <1>3, <2>2 DEF IInv, TypeOK
    <3>2. draft'[locker[v]][v] = draft[locker[v]][v]
      BY <1>3, <2>2, <3>1 DEF IInv, TypeOK
    <3> QED BY <3>1, <3>2 DEF IInv, DraftsNonNegative
  <2> QED BY <2>1, <2>2
<1>8. OwnersChecked'
  <2>1. \A v \in Wallets : locker'[v] # NoTx => v[1] \in shared'[locker'[v]]
    BY <1>3, <1>4 DEF IInv, TypeOK, OwnersChecked
  <2>2. ASSUME NEW s \in Txs, NEW i \in DOMAIN legs'[s]
        PROVE  legs'[s][i].wallet[1] \in shared'[s] \cup Range(unchecked'[s])
    <3>1. CASE s = t
      <4>1. legs'[s] = Tail(legs[t])
        BY <1>3, <3>1 DEF IInv, TypeOK
      <4>2. i + 1 \in DOMAIN legs[s] /\ legs'[s][i] = legs[s][i + 1]
        BY <1>1, <2>2, <3>1, <4>1
      <4> QED BY <1>3, <4>2 DEF IInv, OwnersChecked
    <3>2. CASE s # t
      BY <1>3, <2>2, <3>2 DEF IInv, TypeOK, OwnersChecked
    <3> QED BY <3>1, <3>2
  <2> QED BY <2>1, <2>2 DEF OwnersChecked
<1> QED BY <1>5, <1>6, <1>7, <1>8 DEF IInv

(* A transaction that ends gives back what it held; whatever rows it makes *)
(* out of date, and whatever it leaves in the wallets that is typed and    *)
(* not overdrawn, the invariant holds.                                     *)
LEMMA EndOK ==
  ASSUME IInv, NEW t \in Txs, End(t),
         accounts' \in [Wallets -> Account], NeverOverdrawn',
         stale' \in [Txs -> SUBSET (Users \cup Wallets)],
         flow' \in [Assets -> Int],
         operations' \in Nat, statusChanges' \in Nat, failures' \in Nat,
         active' = active
  PROVE  IInv'
<1>1. TypeOK'
  <2>1. /\ unchecked' \in [Txs -> Seq(Users)] /\ legs' \in [Txs -> Seq(Legs)]
        /\ stage' \in [Txs -> {"idle", "checking", "moving"}]
    BY DEF End, IInv, TypeOK
  <2>2. /\ inflow' \in [Txs -> [Assets -> Int]]
        /\ shared' \in [Txs -> SUBSET Users]
    BY DEF End, IInv, TypeOK
  <2>3. draft' \in [Txs -> [Wallets -> Account]]
    BY OpeningAssumption DEF End, IInv, TypeOK
  <2>4. locker' \in [Wallets -> Txs \cup {NoTx}]
    BY DEF End, IInv, TypeOK
  <2>5. active' \in [Users -> BOOLEAN]
    BY DEF IInv, TypeOK
  <2> QED BY <2>1, <2>2, <2>3, <2>4, <2>5 DEF TypeOK
<1>2. \A w \in Wallets : locker'[w] # NoTx => locker'[w] = locker[w] /\ locker[w] # t
  BY DEF End
<1>3. \A s \in Txs : s # t => /\ draft'[s] = draft[s] /\ shared'[s] = shared[s]
                              /\ legs'[s] = legs[s] /\ unchecked'[s] = unchecked[s]
                              /\ stage'[s] = stage[s]
  BY DEF End, IInv, TypeOK
<1>4. /\ legs'[t] = << >> /\ shared'[t] = {} /\ stage'[t] = "idle"
  BY DEF End, IInv, TypeOK
<1>5. DraftsNonNegative'
  BY <1>2, <1>3 DEF IInv, TypeOK, DraftsNonNegative
<1>6. OwnersChecked'
  <2>1. \A w \in Wallets : locker'[w] # NoTx => w[1] \in shared'[locker'[w]]
    BY <1>2, <1>3 DEF IInv, TypeOK, OwnersChecked
  <2>2. \A s \in Txs : \A i \in DOMAIN legs'[s] :
          legs'[s][i].wallet[1] \in shared'[s] \cup Range(unchecked'[s])
    BY <1>3, <1>4 DEF IInv, OwnersChecked
  <2> QED BY <2>1, <2>2 DEF OwnersChecked
<1>7. CheckedStayActive' /\ MovesAfterChecks'
  BY <1>3, <1>4 DEF IInv, CheckedStayActive, MovesAfterChecks
<1> QED BY <1>1, <1>5, <1>6, <1>7 DEF IInv

(* What a transaction held and drafted becomes the wallets' contents. *)
LEMMA CommitOK ==
  ASSUME IInv, NEW t \in Txs, Commit(t)
  PROVE  IInv'
<1>1. accounts' \in [Wallets -> Account]
  BY DEF Commit, IInv, TypeOK
<1>2. NeverOverdrawn'
  BY TxsAssumption DEF Commit, IInv, NeverOverdrawn, DraftsNonNegative, NonNegative
<1>3. stale' \in [Txs -> SUBSET (Users \cup Wallets)]
  BY DEF Commit, Outdates, Held, IInv, TypeOK
<1>4. flow' \in [Assets -> Int]
  BY DEF Commit, IInv, TypeOK
<1>5. /\ operations' \in Nat /\ statusChanges' \in Nat /\ failures' \in Nat
      /\ active' = active /\ End(t)
  BY DEF Commit, counters, IInv, TypeOK
<1> QED BY <1>1, <1>2, <1>3, <1>4, <1>5, EndOK

(* A transaction that is rolled back leaves the wallets alone. *)
LEMMA RollbackOK ==
  ASSUME IInv, NEW t \in Txs, Rollback(t),
         operations' \in Nat, statusChanges' \in Nat, failures' \in Nat
  PROVE  IInv'
<1>1. accounts' \in [Wallets -> Account] /\ NeverOverdrawn'
  BY DEF Rollback, IInv, TypeOK, NeverOverdrawn
<1>2. stale' \in [Txs -> SUBSET (Users \cup Wallets)] /\ flow' \in [Assets -> Int]
  BY DEF Rollback, IInv, TypeOK
<1>3. active' = active /\ End(t)
  BY DEF Rollback
<1> QED BY <1>1, <1>2, <1>3, EndOK

(* No user that a transaction has checked changes status. *)
LEMMA SetStatusOK ==
  ASSUME IInv, SetStatus
  PROVE  IInv'
<1> PICK u \in Users :
      /\ \A t \in Txs : u \notin shared[t]
      /\ active' = [active EXCEPT ![u] = ~@]
      /\ Outdates({u}, NoTx)
  BY DEF SetStatus
<1>1. UNCHANGED <<accounts, stage, unchecked, legs, inflow, draft, shared, locker,
                  flow, operations, failures>>
  BY DEF SetStatus
<1>2. TypeOK'
  <2>1. stale' \in [Txs -> SUBSET (Users \cup Wallets)]
    BY DEF Outdates, IInv, TypeOK
  <2>2. active' \in [Users -> BOOLEAN] /\ statusChanges' \in Nat
    BY DEF IInv, TypeOK, SetStatus
  <2> QED BY <1>1, <2>1, <2>2 DEF IInv, TypeOK
<1>3. NeverOverdrawn' /\ DraftsNonNegative' /\ OwnersChecked' /\ MovesAfterChecks'
  BY <1>1 DEF IInv, NeverOverdrawn, DraftsNonNegative, OwnersChecked, MovesAfterChecks
<1>4. CheckedStayActive'
  BY <1>1 DEF IInv, TypeOK, CheckedStayActive
<1> QED BY <1>2, <1>3, <1>4 DEF IInv

(* Every step preserves the invariant. *)
LEMMA NextIInv == IInv /\ [Next]_vars => IInv'
<1> SUFFICES ASSUME IInv, [Next]_vars PROVE IInv'
  OBVIOUS
<1>1. CASE SetStatus
  BY <1>1, SetStatusOK
<1>2. ASSUME NEW t \in Txs, Begin(t) \/ Step(t) \/ Fail(t)
      PROVE  IInv'
  <2>1. CASE Begin(t)
    BY <2>1, BeginOK
  <2>2. CASE CheckUser(t)
    BY <2>2, CheckUserOK
  <2>3. CASE ApplyLeg(t)
    BY <2>3, ApplyLegOK
  <2>4. CASE Commit(t)
    BY <2>4, CommitOK
  <2>5. CASE Refuse(t) \/ BreakDeadlock(t)
    <3>1. Rollback(t) /\ UNCHANGED counters
      BY <2>5 DEF Refuse, BreakDeadlock
    <3> QED BY <3>1, RollbackOK DEF counters, IInv, TypeOK
  <2>6. CASE Fail(t)
    <3>1. /\ Rollback(t) /\ failures' = failures + 1
          /\ UNCHANGED <<operations, statusChanges>>
      BY <2>6 DEF Fail
    <3> QED BY <3>1, RollbackOK DEF IInv, TypeOK
  <2> QED BY <1>2, <2>1, <2>2, <2>3, <2>4, <2>5, <2>6 DEF Step
<1>3. CASE UNCHANGED vars
  BY <1>3 DEF vars, tx, counters, IInv, TypeOK, NeverOverdrawn, DraftsNonNegative,
              OwnersChecked, CheckedStayActive, MovesAfterChecks
<1> QED BY <1>1, <1>2, <1>3 DEF Next

-----------------------------------------------------------------------------
(* The theorems *)

(* The invariant holds in every state of the wallet service. *)
THEOREM Inductive == Spec => []IInv
BY InitIInv, NextIInv, PTL DEF Spec

(* The variables of WalletService's transactions keep their types. *)
THEOREM TypeCorrect == Spec => []TypeOK
<1>1. IInv => TypeOK
  BY DEF IInv
<1> QED BY Inductive, <1>1, PTL

(* No operations that run side by side take more from a wallet than it     *)
(* holds (assertNonNegative under the row's lock).                         *)
THEOREM NoOverdraft == Spec => []NeverOverdrawn
<1>1. IInv => NeverOverdrawn
  BY DEF IInv
<1> QED BY Inductive, <1>1, PTL

(* The wallets of a frozen or closed account do not change: what is        *)
(* committed belongs to users whose rows are locked since they were seen   *)
(* active (assertUserCanTransact).                                         *)
THEOREM FrozenMoneyStays == Spec => FrozenStaysPut
<1> DEFINE StaysPut == \A u \in Users, a \in Assets :
                         ~active[u] => accounts'[<<u, a>>] = accounts[<<u, a>>]
<1>1. IInv /\ [Next]_vars => [StaysPut]_vars
  <2> SUFFICES ASSUME IInv, Next, NEW u \in Users, NEW a \in Assets, ~active[u]
               PROVE  accounts'[<<u, a>>] = accounts[<<u, a>>]
    BY DEF StaysPut
  <2>1. CASE accounts' = accounts
    BY <2>1
  <2>2. ASSUME NEW t \in Txs, Commit(t)
        PROVE  accounts'[<<u, a>>] = accounts[<<u, a>>]
    <3>1. <<u, a>> \in Wallets
      BY DEF Wallets
    <3>2. locker[<<u, a>>] # t
      BY <3>1, TxsAssumption DEF IInv, OwnersChecked, CheckedStayActive
    <3> QED BY <2>2, <3>1, <3>2 DEF Commit
  <2> QED BY <2>1, <2>2 DEF Next, SetStatus, Begin, Step, CheckUser, ApplyLeg,
                            Refuse, BreakDeadlock, Fail, Rollback
<1> QED BY Inductive, <1>1, PTL DEF Spec, FrozenStaysPut


-----------------------------------------------------------------------------
(* One operation after the other *)

(* What a transaction has still to do completes its operation, whatever    *)
(* else is committed meanwhile: a row that it holds is as it was when the  *)
(* transaction locked it, and its legs have not touched the other rows.    *)
Follows(t, op) ==
  /\ inflow[t] = op.inflow
  /\ Range(op.users) \subseteq shared[t] \cup Range(unchecked[t])
  /\ \A w \in Wallets :
       IF locker[w] = t
       THEN AfterLegs(w, draft[t][w], legs[t]) = AfterLegs(w, accounts[w], op.legs)
       ELSE \A v \in Account : AfterLegs(w, v, legs[t]) = AfterLegs(w, v, op.legs)

InOrder(t) ==
  /\ stage[t] # "moving" => \A w \in Wallets : locker[w] # t
  /\ stage[t] # "idle" => \E op \in Asked : Follows(t, op)

SerialInv == IInv /\ \A t \in Txs : InOrder(t)

LEMMA InitSerial == Init => SerialInv
<1> SUFFICES ASSUME Init PROVE SerialInv
  OBVIOUS
<1>1. IInv
  BY InitIInv
<1>2. \A t \in Txs : stage[t] = "idle" /\ \A w \in Wallets : locker[w] # t
  BY TxsAssumption DEF Init
<1> QED BY <1>1, <1>2 DEF SerialInv, InOrder

(* A transaction whose rows and legs are left alone is still in order. *)
LEMMA StaysInOrder ==
  ASSUME NEW s \in Txs, InOrder(s),
         inflow'[s] = inflow[s], legs'[s] = legs[s],
         shared[s] \cup Range(unchecked[s]) \subseteq shared'[s] \cup Range(unchecked'[s]),
         stage'[s] # "idle" => stage[s] # "idle",
         stage'[s] # "moving" => stage[s] # "moving",
         \A w \in Wallets : locker'[w] = s <=> locker[w] = s,
         \A w \in Wallets : locker[w] = s => /\ draft'[s][w] = draft[s][w]
                                             /\ accounts'[w] = accounts[w]
  PROVE  InOrder(s)'
<1>1. ASSUME NEW op \in Asked, Follows(s, op)
      PROVE  Follows(s, op)'
  <2>1. ASSUME NEW w \in Wallets
        PROVE  IF locker'[w] = s
               THEN AfterLegs(w, draft'[s][w], legs'[s]) = AfterLegs(w, accounts'[w], op.legs)
               ELSE \A v \in Account : AfterLegs(w, v, legs'[s]) = AfterLegs(w, v, op.legs)
    BY <1>1 DEF Follows
  <2> QED BY <1>1, <2>1 DEF Follows
<1> QED BY <1>1 DEF InOrder

(* A transaction that is idle and holds no row is in order. *)
LEMMA IdleInOrder ==
  ASSUME NEW s \in Txs, stage[s] = "idle", \A w \in Wallets : locker[w] # s
  PROVE  InOrder(s)
BY DEF InOrder

LEMMA BeginInOrder ==
  ASSUME SerialInv, NEW t \in Txs, Begin(t), NEW s \in Txs
  PROVE  InOrder(s)'
<1> PICK op \in Asked :
      /\ unchecked' = [unchecked EXCEPT ![t] = op.users]
      /\ legs' = [legs EXCEPT ![t] = op.legs]
      /\ inflow' = [inflow EXCEPT ![t] = op.inflow]
  BY DEF Begin
<1>1. /\ stage[t] = "idle" /\ stage' = [stage EXCEPT ![t] = "checking"]
      /\ UNCHANGED <<accounts, draft, shared, locker>>
      /\ InOrder(s)
  BY DEF Begin, SerialInv
<1>2. CASE s = t
  <2>1. /\ stage'[t] = "checking" /\ unchecked'[t] = op.users
        /\ legs'[t] = op.legs /\ inflow'[t] = op.inflow
        /\ \A w \in Wallets : locker'[w] # t
    BY <1>1, <1>2 DEF SerialInv, IInv, TypeOK, InOrder
  <2>2. Follows(t, op)'
    BY <2>1 DEF Follows
  <2> QED BY <1>2, <2>1, <2>2 DEF InOrder
<1>3. CASE s # t
  BY <1>1, <1>3, StaysInOrder DEF SerialInv, IInv, TypeOK
<1> QED BY <1>2, <1>3

LEMMA CheckUserInOrder ==
  ASSUME SerialInv, NEW t \in Txs, CheckUser(t), NEW s \in Txs
  PROVE  InOrder(s)'
<1> DEFINE list == unchecked[t]
           user == Head(list)
<1>1. list \in Seq(Users) /\ list # << >>
  BY DEF SerialInv, IInv, TypeOK, CheckUser
<1>2. Range(list) \subseteq {user} \cup Range(Tail(list))
  BY <1>1, RangeOfList
<1>3. /\ shared' = [shared EXCEPT ![t] = @ \cup {user}]
      /\ unchecked' = [unchecked EXCEPT ![t] = Tail(list)]
      /\ stage' = [stage EXCEPT ![t] = IF Len(list) = 1 THEN "moving" ELSE @]
      /\ stage[t] = "checking"
      /\ UNCHANGED <<accounts, legs, inflow, draft, locker>>
      /\ InOrder(s)
  BY DEF CheckUser, counters, SerialInv
<1>4. shared[s] \cup Range(unchecked[s]) \subseteq shared'[s] \cup Range(unchecked'[s])
  BY <1>2, <1>3 DEF SerialInv, IInv, TypeOK
<1>5. /\ stage'[s] # "idle" => stage[s] # "idle"
      /\ stage'[s] # "moving" => stage[s] # "moving"
  BY <1>3 DEF SerialInv, IInv, TypeOK
<1> HIDE DEF list, user
<1> QED BY <1>3, <1>4, <1>5, StaysInOrder

(* The leg that is applied moves its own wallet, and only that. *)
LEMMA ApplyLegInOrder ==
  ASSUME SerialInv, NEW t \in Txs, ApplyLeg(t), NEW s \in Txs
  PROVE  InOrder(s)'
<1> DEFINE leg == Head(legs[t])
           w == leg.wallet
           moved == Moved(Read(t, w), leg)
<1>1. /\ leg \in Legs /\ Tail(legs[t]) \in Seq(Legs)
      /\ legs[t] \in Seq(Legs) /\ legs[t] # << >>
  BY RestOfLegs DEF SerialInv, IInv, TypeOK, ApplyLeg
<1>2. w \in Wallets /\ Read(t, w) \in Account /\ moved \in Account
  BY <1>1, ReadType, MovedType DEF Legs, SerialInv, IInv
<1>3. /\ draft' = [draft EXCEPT ![t][w] = moved]
      /\ locker' = [locker EXCEPT ![w] = t]
      /\ legs' = [legs EXCEPT ![t] = Tail(@)]
      /\ locker[w] \in {NoTx, t}
      /\ stage[t] = "moving"
      /\ UNCHANGED <<accounts, stage, unchecked, inflow, shared>>
      /\ InOrder(s)
  BY DEF ApplyLeg, MayLock, SerialInv
<1>4. \A v \in Wallets : /\ locker'[v] = IF v = w THEN t ELSE locker[v]
                         /\ draft'[t][v] = IF v = w THEN moved ELSE draft[t][v]
  BY <1>2, <1>3 DEF SerialInv, IInv, TypeOK
<1>5. legs'[t] = Tail(legs[t])
  BY <1>3 DEF SerialInv, IInv, TypeOK
<1>6. CASE s = t
  <2> PICK op \in Asked : Follows(t, op)
    BY <1>3, <1>6 DEF InOrder
  <2>1. ASSUME NEW v \in Wallets, NEW a \in Account
        PROVE  /\ v # w => AfterLegs(v, a, legs[t]) = AfterLegs(v, a, legs'[t])
               /\ v = w => AfterLegs(v, a, legs[t]) = AfterLegs(v, Moved(a, leg), legs'[t])
    <3>1. AfterLegs(v, a, legs[t]) = AfterLegs(v, AfterLeg(v, a, leg), legs'[t])
      BY <1>1, <1>5, FirstLeg
    <3>2. AfterLeg(v, a, leg) = IF v = w THEN Moved(a, leg) ELSE a
      BY DEF AfterLeg
    <3> QED BY <3>1, <3>2
  <2> HIDE DEF w, leg
  <2>2. ASSUME NEW v \in Wallets
        PROVE  IF locker'[v] = t
               THEN AfterLegs(v, draft'[t][v], legs'[t]) = AfterLegs(v, accounts'[v], op.legs)
               ELSE \A a \in Account : AfterLegs(v, a, legs'[t]) = AfterLegs(v, a, op.legs)
    <3>1. CASE v = w
      <4>1. AfterLegs(v, moved, legs'[t]) = AfterLegs(v, Read(t, w), legs[t])
        BY <1>2, <2>1, <3>1 DEF moved
      <4>2. AfterLegs(v, Read(t, w), legs[t]) = AfterLegs(v, accounts[v], op.legs)
        <5>1. CASE locker[w] = t
          BY <3>1, <5>1 DEF Follows, Read
        <5>2. CASE locker[w] # t
          BY <1>2, <3>1, <5>2 DEF Follows, Read
        <5> QED BY <5>1, <5>2
      <4> QED BY <1>3, <1>4, <3>1, <4>1, <4>2
    <3>2. CASE v # w
      <4>1. locker'[v] = locker[v] /\ draft'[t][v] = draft[t][v] /\ draft[t][v] \in Account
        BY <1>4, <3>2 DEF SerialInv, IInv, TypeOK
      <4>2. CASE locker[v] = t
        <5>1. AfterLegs(v, draft[t][v], legs[t]) = AfterLegs(v, accounts[v], op.legs)
          BY <4>2 DEF Follows
        <5> QED BY <1>3, <2>1, <3>2, <4>1, <4>2, <5>1
      <4>3. CASE locker[v] # t
        <5>1. \A a \in Account : AfterLegs(v, a, legs[t]) = AfterLegs(v, a, op.legs)
          BY <4>3 DEF Follows
        <5> QED BY <2>1, <3>2, <4>1, <4>3, <5>1
      <4> QED BY <4>2, <4>3
    <3> QED BY <3>1, <3>2
  <2>3. Follows(t, op)'
    BY <1>3, <2>2 DEF Follows
  <2> QED BY <1>3, <1>6, <2>3 DEF InOrder
<1>7. CASE s # t
  <2> HIDE DEF moved, w, leg
  <2>1. \A v \in Wallets : locker'[v] = s <=> locker[v] = s
    BY <1>3, <1>4, <1>7, TxsAssumption
  <2>2. draft'[s] = draft[s] /\ legs'[s] = legs[s]
    BY <1>3, <1>7 DEF SerialInv, IInv, TypeOK
  <2> QED BY <1>3, <2>1, <2>2, StaysInOrder
<1> QED BY <1>6, <1>7

(* Transactions other than the one that ends keep what they hold. *)
LEMMA EndInOrder ==
  ASSUME SerialInv, NEW t \in Txs, End(t), NEW s \in Txs,
         \A w \in Wallets : locker[w] # t => accounts'[w] = accounts[w]
  PROVE  InOrder(s)'
<1>1. InOrder(s)
  BY DEF SerialInv
<1>2. \A w \in Wallets : locker'[w] = IF locker[w] = t THEN NoTx ELSE locker[w]
  BY DEF End
<1>3. CASE s = t
  <2>1. stage'[t] = "idle" /\ \A w \in Wallets : locker'[w] # t
    BY <1>2, TxsAssumption DEF End, SerialInv, IInv, TypeOK
  <2> QED BY <1>3, <2>1 DEF InOrder
<1>4. CASE s # t
  <2>1. /\ draft'[s] = draft[s] /\ shared'[s] = shared[s] /\ inflow'[s] = inflow[s]
        /\ legs'[s] = legs[s] /\ unchecked'[s] = unchecked[s] /\ stage'[s] = stage[s]
    BY <1>4 DEF End, SerialInv, IInv, TypeOK
  <2>2. \A w \in Wallets : locker'[w] = s <=> locker[w] = s
    BY <1>2, <1>4, TxsAssumption
  <2> QED BY <1>1, <1>4, <2>1, <2>2, StaysInOrder
<1> QED BY <1>3, <1>4

(* Every step preserves the order. *)
LEMMA NextSerial == SerialInv /\ [Next]_vars => SerialInv'
<1> SUFFICES ASSUME SerialInv, [Next]_vars PROVE SerialInv'
  OBVIOUS
<1>1. IInv'
  BY NextIInv DEF SerialInv
<1> SUFFICES ASSUME NEW s \in Txs PROVE InOrder(s)'
  BY <1>1 DEF SerialInv
<1>2. InOrder(s)
  BY DEF SerialInv
<1>3. CASE SetStatus
  BY <1>2, <1>3, StaysInOrder DEF SetStatus
<1>4. ASSUME NEW t \in Txs, Begin(t) \/ Step(t) \/ Fail(t)
      PROVE  InOrder(s)'
  <2>1. CASE Begin(t)
    BY <2>1, BeginInOrder
  <2>2. CASE CheckUser(t)
    BY <2>2, CheckUserInOrder
  <2>3. CASE ApplyLeg(t)
    BY <2>3, ApplyLegInOrder
  <2>4. CASE Commit(t)
    BY <2>4, EndInOrder DEF Commit
  <2>5. CASE Refuse(t) \/ BreakDeadlock(t) \/ Fail(t)
    <3>1. End(t) /\ accounts' = accounts
      BY <2>5 DEF Refuse, BreakDeadlock, Fail, Rollback
    <3> QED BY <3>1, EndInOrder
  <2> QED BY <1>4, <2>1, <2>2, <2>3, <2>4, <2>5 DEF Step
<1>5. CASE UNCHANGED vars
  BY <1>2, <1>5, StaysInOrder DEF vars, tx
<1> QED BY <1>3, <1>4, <1>5 DEF Next

LEMMA Serial == Spec => []SerialInv
BY InitSerial, NextSerial, PTL DEF Spec

(* What is committed is an operation that was asked for, as a whole, over  *)
(* users that are still active.                                            *)
LEMMA CommitMoves ==
  ASSUME SerialInv, NEW t \in Txs, Commit(t)
  PROVE  \E op \in Asked : /\ inflow[t] = op.inflow
                           /\ accounts' = Applied(accounts, op.legs)
                           /\ \A u \in Range(op.users) : active[u]
<1>1. stage[t] = "moving" /\ legs[t] = << >> /\ unchecked[t] = << >>
  BY DEF Commit, SerialInv, IInv, MovesAfterChecks
<1> PICK op \in Asked : Follows(t, op)
  BY <1>1 DEF SerialInv, InOrder
<1>2. << >> \in Seq(Legs)
  OBVIOUS
<1>3. \A w, v : v \in Account => AfterLegs(w, v, << >>) = v
  BY <1>2, AfterLegsType
<1>4. ASSUME NEW w \in Wallets
      PROVE  accounts'[w] = AfterLegs(w, accounts[w], op.legs)
  <2>1. draft[t][w] \in Account /\ accounts[w] \in Account
    BY DEF SerialInv, IInv, TypeOK
  <2>2. accounts'[w] = IF locker[w] = t THEN draft[t][w] ELSE accounts[w]
    BY DEF Commit
  <2> QED BY <1>1, <1>3, <2>1, <2>2 DEF Follows
<1>5. accounts' = Applied(accounts, op.legs)
  BY <1>4 DEF Applied, Commit
<1>6. Range(op.users) \subseteq shared[t]
  <2>1. Range(unchecked[t]) = {}
    BY <1>1 DEF Range
  <2> QED BY <2>1 DEF Follows
<1> QED BY <1>5, <1>6 DEF Follows, SerialInv, IInv, CheckedStayActive


-----------------------------------------------------------------------------
(* Money is neither created nor destroyed *)

LEMMA TotalIsHolding ==
  ASSUME NEW a, NEW table
  PROVE  Total(a, table) = Holding(table, a)
BY DEF Total, Holding, InWallet

LEMMA ConservationKept ==
  ASSUME SerialInv, Conservation, [Next]_vars
  PROVE  Conservation'
<1> SUFFICES ASSUME NEW a \in Assets
             PROVE  Total(a, accounts') = Total(a, Opening) + flow'[a]
  BY DEF Conservation
<1>1. Total(a, accounts) = Total(a, Opening) + flow[a]
  BY DEF Conservation
<1>2. CASE accounts' = accounts /\ flow' = flow
  BY <1>1, <1>2
<1>3. ASSUME NEW t \in Txs, Commit(t)
      PROVE  Total(a, accounts') = Total(a, Opening) + flow'[a]
  <2> PICK op \in Asked : /\ inflow[t] = op.inflow
                          /\ accounts' = Applied(accounts, op.legs)
    BY <1>3, CommitMoves
  <2>1. accounts \in [Wallets -> Account] /\ flow[a] \in Int /\ op.inflow[a] \in Int
    BY AskedType DEF SerialInv, IInv, TypeOK, Operations
  <2>2. Holding(Applied(accounts, op.legs), a) = Holding(accounts, a) + op.inflow[a]
    BY <2>1, AskedInflow DEF BringsInflow, Bring
  <2>3. flow'[a] = flow[a] + op.inflow[a]
    BY <1>3 DEF Commit
  <2>4. Holding(Opening, a) \in Int
    BY HoldingType, OpeningAssumption
  <2>5. Holding(accounts', a) = Holding(Opening, a) + flow'[a]
    BY <1>1, <2>1, <2>2, <2>3, <2>4, TotalIsHolding
  <2> QED BY <2>5, TotalIsHolding
<1> QED BY <1>2, <1>3 DEF Next, Step, SetStatus, Begin, CheckUser, ApplyLeg, Refuse,
                          BreakDeadlock, Fail, Rollback, vars

(* The wallets of an asset hold what they held at first, and what the      *)
(* committed operations brought in: whatever runs side by side, is refused *)
(* or is rolled back, no leg is lost and none is applied twice.            *)
THEOREM NothingCreated == Spec => []Conservation
<1>1. Init => Conservation
  <2> SUFFICES ASSUME Init, NEW a \in Assets
               PROVE  Total(a, accounts) = Total(a, Opening) + flow[a]
    BY DEF Conservation
  <2>1. accounts = Opening /\ flow[a] = 0
    BY DEF Init
  <2>2. Holding(Opening, a) \in Int
    BY HoldingType, OpeningAssumption
  <2> QED BY <2>1, <2>2, TotalIsHolding
<1>2. SerialInv /\ Conservation /\ [Next]_vars => Conservation'
  BY ConservationKept
<1> QED BY Serial, <1>1, <1>2, PTL DEF Spec

-----------------------------------------------------------------------------
(* The service implements Ledger *)

(* Ledger means the same operations as the service. *)
LEMMA SameOperations == AsLedger!Asked = Asked
BY DEF AsLedger!Asked, Asked, AsLedger!Credit, Credit, AsLedger!Debit, Debit,
       AsLedger!Lock, Lock, AsLedger!Unlock, Unlock,
       AsLedger!InternalTransfer, InternalTransfer,
       AsLedger!SettleTrade, SettleTrade, AsLedger!Trades, Trades,
       AsLedger!Operation, Operation, AsLedger!Leg, Leg

LEMMA SameEffect ==
  ASSUME NEW op
  PROVE  AsLedger!AfterAll(op) = Applied(accounts, op.legs)
BY DEF AsLedger!AfterAll, AsLedger!Wallets, AsLedger!Moved, AsLedger!FoldLeft,
       AsLedger!MapThenFoldSet, AsLedger!Max,
       Applied, AfterLegs, Moved, Wallets, FoldLeft, MapThenFoldSet, Max

(* A step of the service is an operation of the ledger as a whole, a       *)
(* change of a status, or nothing that the ledger shows.                   *)
LEMMA StepMoves ==
  ASSUME SerialInv, SerialInv', [Next]_vars
  PROVE  [AsLedger!Move \/ AsLedger!SetStatus]_(AsLedger!ledgerVars)
<1>1. CASE SetStatus
  <2>1. AsLedger!SetStatus
    BY <1>1 DEF SetStatus, AsLedger!SetStatus
  <2> QED BY <2>1
<1>2. CASE UNCHANGED <<accounts, active>>
  BY <1>2 DEF AsLedger!ledgerVars
<1>3. ASSUME NEW t \in Txs, Commit(t)
      PROVE  [AsLedger!Move \/ AsLedger!SetStatus]_(AsLedger!ledgerVars)
  <2> PICK op \in Asked : /\ accounts' = Applied(accounts, op.legs)
                          /\ \A u \in Range(op.users) : active[u]
    BY <1>3, CommitMoves
  <2>1. \A w \in Wallets : accounts'[w].available >= 0 /\ accounts'[w].locked >= 0
    BY DEF SerialInv, IInv, NeverOverdrawn
  <2>2. active' = active
    BY <1>3 DEF Commit
  <2>3. CASE accounts' # accounts
    <3>1. op \in AsLedger!Asked /\ accounts' = AsLedger!AfterAll(op)
      BY SameOperations, SameEffect
    <3>2. AsLedger!Move
      BY <2>1, <2>2, <2>3, <3>1 DEF AsLedger!Move, AsLedger!Wallets, Wallets,
                                       AsLedger!Range, Range
    <3> QED BY <3>2
  <2>4. CASE accounts' = accounts
    BY <2>2, <2>4 DEF AsLedger!ledgerVars
  <2> QED BY <2>3, <2>4
<1> QED BY <1>1, <1>2, <1>3 DEF Next, Step, Begin, CheckUser, ApplyLeg, Refuse,
                                BreakDeadlock, Fail, Rollback, vars

(* Transactions that run side by side do what one whole operation after    *)
(* the other would: WalletService implements Ledger.                       *)
THEOREM LedgerImplemented == Spec => ImplementsLedger
<1>1. Init => AsLedger!LedgerInit
  BY DEF Init, AsLedger!LedgerInit
<1>2. SerialInv /\ SerialInv' /\ [Next]_vars
        => [AsLedger!Move \/ AsLedger!SetStatus]_(AsLedger!ledgerVars)
  BY StepMoves
<1> QED BY Serial, <1>1, <1>2, PTL DEF Spec, ImplementsLedger, AsLedger!LedgerSpec
=============================================================================
