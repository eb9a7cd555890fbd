------------------------------- MODULE Wallet -------------------------------
(***************************************************************************)
(* WalletService (services/wallet-service) over its database: operations   *)
(* run concurrently, each in a SERIALIZABLE transaction of its own.        *)
(*                                                                         *)
(* A transaction reads and share-locks the rows of its users, then takes   *)
(* its legs one by one: it locks the wallet's row for update, checks and   *)
(* writes the new balance, and adds a ledger entry.  Any error rolls it    *)
(* back; the service does not retry.  The database is external and modelled *)
(* by what the code relies on: locks are held until the transaction ends,  *)
(* a row that another transaction changed since this one's first read is   *)
(* refused (SERIALIZABLE), one of the transactions that wait for each      *)
(* other is rolled back, and a wallet without a row counts as zero.        *)
(***************************************************************************)
EXTENDS Movements, FiniteSets

CONSTANTS
  Txs,             \* requests that the service handles at the same time
  NoTx,
  MaxOperations, MaxStatusChanges, MaxFailures      \* bounds

ASSUME TxsAssumption == NoTx \notin Txs
ASSUME WalletBoundsAssumption ==
  MaxOperations \in Nat /\ MaxStatusChanges \in Nat /\ MaxFailures \in Nat

VARIABLES
  accounts,        \* wallets, and the sums of ledger_transactions: committed
  active,          \* users: neither frozen nor closed
  stage,           \* per transaction: "idle", "checking" or "moving"
  unchecked,       \* users it has still to check
  legs,            \* legs it has still to apply
  inflow,          \* what its operation brings into the exchange
  draft,           \* the new contents of the rows that it has locked
  shared,          \* users whose rows it has locked in share mode
  stale,           \* rows changed by others since its first read
  locker,          \* the transaction that has locked a wallet's row
  flow,            \* history: what committed operations brought in, per asset
  operations, statusChanges, failures              \* counters for the bounds

counters == <<operations, statusChanges, failures>>
tx == <<stage, unchecked, legs, inflow, draft, shared, stale, locker>>
vars == <<accounts, active, tx, flow, counters>>

Init ==
  /\ accounts = Opening
  /\ active = [u \in Users |-> TRUE]
  /\ stage = [t \in Txs |-> "idle"]
  /\ unchecked = [t \in Txs |-> << >>]
  /\ legs = [t \in Txs |-> << >>]
  /\ inflow = [t \in Txs |-> [a \in Assets |-> 0]]
  /\ draft = [t \in Txs |-> Opening]
  /\ shared = [t \in Txs |-> {}]
  /\ stale = [t \in Txs |-> {}]
  /\ locker = [w \in Wallets |-> NoTx]
  /\ flow = [a \in Assets |-> 0]
  /\ operations = 0 /\ statusChanges = 0 /\ failures = 0

-----------------------------------------------------------------------------
(* The steps of a transaction *)

Begin(t) ==
  /\ stage[t] = "idle"
  /\ operations < MaxOperations
  /\ operations' = operations + 1
  /\ \E op \in Asked :
       /\ unchecked' = [unchecked EXCEPT ![t] = op.users]
       /\ legs' = [legs EXCEPT ![t] = op.legs]
       /\ inflow' = [inflow EXCEPT ![t] = op.inflow]
  /\ stage' = [stage EXCEPT ![t] = "checking"]
  /\ UNCHANGED <<accounts, active, draft, shared, stale, locker, flow,
                 statusChanges, failures>>

(* Mutant of CheckUser: the row is read without a lock. *)
CheckUserUnlocked(t) ==
  /\ stage[t] = "checking" /\ unchecked[t] # << >>
  /\ LET user == Head(unchecked[t])
     IN /\ active[user] /\ user \notin stale[t]
        /\ shared' = shared
  /\ unchecked' = [unchecked EXCEPT ![t] = Tail(@)]
  /\ stage' = [stage EXCEPT ![t] = IF Len(unchecked[t]) = 1 THEN "moving" ELSE @]
  /\ UNCHANGED <<accounts, active, legs, inflow, draft, stale, locker, flow,
                 counters>>

(* assertUserCanTransact: the next user exists and is active. *)
CheckUser(t) ==
  /\ stage[t] = "checking" /\ unchecked[t] # << >>
  /\ LET user == Head(unchecked[t])
     IN /\ active[user] /\ user \notin stale[t]
        /\ shared' = [shared EXCEPT ![t] = @ \cup {user}]
  /\ unchecked' = [unchecked EXCEPT ![t] = Tail(@)]
  /\ stage' = [stage EXCEPT ![t] = IF Len(unchecked[t]) = 1 THEN "moving" ELSE @]
  /\ UNCHANGED <<accounts, active, legs, inflow, draft, stale, locker, flow,
                 counters>>

(* What a transaction reads of a wallet: its own writes, or the table. *)
Read(t, w) == IF locker[w] = t THEN draft[t][w] ELSE accounts[w]

(* Whether a row can be locked for update now, and is not out of date. *)
MayLock(t, w) == locker[w] \in {NoTx, t}

(* Mutant of NonNegative: only the available part is checked. *)
AvailableNonNegative(account) == account.available >= 0

NonNegative(account) == account.available >= 0 /\ account.locked >= 0

(* Mutant of ApplyLeg: the leg is saved outside of the transaction. *)
ApplyLegOutside(t) ==
  /\ stage[t] = "moving" /\ legs[t] # << >>
  /\ LET leg == Head(legs[t])
         w   == leg.wallet
     IN /\ MayLock(t, w) /\ w \notin stale[t]
        /\ NonNegative(Moved(Read(t, w), leg))
        /\ draft' = [draft EXCEPT ![t][w] = Moved(Read(t, w), leg)]
        /\ accounts' = [accounts EXCEPT ![w] = Moved(Read(t, w), leg)]
        /\ locker' = [locker EXCEPT ![w] = t]
  /\ legs' = [legs EXCEPT ![t] = Tail(@)]
  /\ UNCHANGED <<active, stage, unchecked, inflow, shared, stale, flow, counters>>

(* adjustAvailable or adjustLocked with findOrCreateWallet, and            *)
(* recordTypeOrm: the next leg.                                            *)
ApplyLeg(t) ==
  /\ stage[t] = "moving" /\ legs[t] # << >>
  /\ LET leg == Head(legs[t])
         w   == leg.wallet
     IN /\ MayLock(t, w) /\ w \notin stale[t]
        /\ NonNegative(Moved(Read(t, w), leg))
        /\ draft' = [draft EXCEPT ![t][w] = Moved(Read(t, w), leg)]
        /\ locker' = [locker EXCEPT ![w] = t]
  /\ legs' = [legs EXCEPT ![t] = Tail(@)]
  /\ UNCHANGED <<accounts, active, stage, unchecked, inflow, shared, stale, flow,
                 counters>>

Held(t) == {w \in Wallets : locker[w] = t}

(* Mutant of End: the rows stay locked. *)
EndHoldingRows(t) ==
  /\ stage' = [stage EXCEPT ![t] = "idle"]
  /\ unchecked' = [unchecked EXCEPT ![t] = << >>]
  /\ legs' = [legs EXCEPT ![t] = << >>]
  /\ inflow' = [inflow EXCEPT ![t] = [a \in Assets |-> 0]]
  /\ draft' = [draft EXCEPT ![t] = Opening]
  /\ shared' = [shared EXCEPT ![t] = {}]
  /\ locker' = locker

(* The locks are given back, whether the transaction took effect or not. *)
End(t) ==
  /\ stage' = [stage EXCEPT ![t] = "idle"]
  /\ unchecked' = [unchecked EXCEPT ![t] = << >>]
  /\ legs' = [legs EXCEPT ![t] = << >>]
  /\ inflow' = [inflow EXCEPT ![t] = [a \in Assets |-> 0]]
  /\ draft' = [draft EXCEPT ![t] = Opening]
  /\ shared' = [shared EXCEPT ![t] = {}]
  /\ locker' = [w \in Wallets |-> IF locker[w] = t THEN NoTx ELSE locker[w]]

Started(t) == stage[t] = "moving" \/ shared[t] # {}

(* Transactions that have begun to read cannot use the new rows. *)
Outdates(rows, except) ==
  stale' = [t \in Txs |-> IF t = except THEN {}
                          ELSE IF Started(t) THEN stale[t] \cup rows
                          ELSE stale[t]]

Commit(t) ==
  /\ stage[t] = "moving" /\ legs[t] = << >>
  /\ accounts' = [w \in Wallets |-> IF locker[w] = t THEN draft[t][w]
                                    ELSE accounts[w]]
  /\ flow' = [a \in Assets |-> flow[a] + inflow[t][a]]
  /\ Outdates(Held(t), t)
  /\ End(t)
  /\ UNCHANGED <<active, counters>>

Rollback(t) ==
  /\ End(t)
  /\ stale' = [stale EXCEPT ![t] = {}]
  /\ UNCHANGED <<accounts, active, flow>>

(* A check of the code or of the database refuses the operation. *)
Refuse(t) ==
  /\ \/ /\ stage[t] = "checking" /\ unchecked[t] # << >>
        /\ ~active[Head(unchecked[t])] \/ Head(unchecked[t]) \in stale[t]
     \/ /\ stage[t] = "moving" /\ legs[t] # << >>
        /\ LET leg == Head(legs[t])
           IN /\ MayLock(t, leg.wallet)
              /\ \/ leg.wallet \in stale[t]
                 \/ ~NonNegative(Moved(Read(t, leg.wallet), leg))
  /\ Rollback(t)
  /\ UNCHANGED counters

WaitsFor(t, other) ==
  /\ stage[t] = "moving" /\ legs[t] # << >>
  /\ other # t /\ locker[Head(legs[t]).wallet] = other

(* The database picks one of the transactions that wait in a circle. *)
BreakDeadlock(t) ==
  /\ \E circle \in SUBSET Txs :
       /\ t \in circle
       /\ \A s \in circle : /\ \E other \in circle : WaitsFor(s, other)
                            /\ \E other \in circle : WaitsFor(other, s)
  /\ Rollback(t)
  /\ UNCHANGED counters

(* The connection or the service is lost before the commit. *)
Fail(t) ==
  /\ stage[t] # "idle"
  /\ failures < MaxFailures
  /\ failures' = failures + 1
  /\ Rollback(t)
  /\ UNCHANGED <<operations, statusChanges>>

(* An operator changes the status of a user, once no transaction holds the *)
(* row in share mode.                                                      *)
SetStatus ==
  /\ statusChanges < MaxStatusChanges
  /\ statusChanges' = statusChanges + 1
  /\ \E u \in Users :
       /\ \A t \in Txs : u \notin shared[t]
       /\ active' = [active EXCEPT ![u] = ~@]
       /\ Outdates({u}, NoTx)
  /\ UNCHANGED <<accounts, stage, unchecked, legs, inflow, draft, shared, locker,
                 flow, operations, failures>>

-----------------------------------------------------------------------------
Step(t) ==
  CheckUser(t) \/ ApplyLeg(t) \/ Commit(t) \/ Refuse(t) \/ BreakDeadlock(t)

Next == SetStatus \/ \E t \in Txs : Begin(t) \/ Step(t) \/ Fail(t)

Spec == Init /\ [][Next]_vars

(* The database serves each transaction, finds deadlocks, and lets a       *)
(* waiting one have the lock once it is given back.                        *)
FairSpec == Spec /\ \A t \in Txs : WF_vars(Step(t))

-----------------------------------------------------------------------------
(* Properties *)

(* The variables have their types. *)
TypeOK ==
  /\ accounts \in [Wallets -> Account]
  /\ active \in [Users -> BOOLEAN]
  /\ stage \in [Txs -> {"idle", "checking", "moving"}]
  /\ unchecked \in [Txs -> Seq(Users)]
  /\ legs \in [Txs -> Seq(Legs)]
  /\ inflow \in [Txs -> [Assets -> Int]]
  /\ draft \in [Txs -> [Wallets -> Account]]
  /\ shared \in [Txs -> SUBSET Users]
  /\ stale \in [Txs -> SUBSET (Users \cup Wallets)]
  /\ locker \in [Wallets -> Txs \cup {NoTx}]
  /\ flow \in [Assets -> Int]
  /\ operations \in Nat /\ statusChanges \in Nat /\ failures \in Nat

(* No wallet is overdrawn, whatever operations ran side by side. *)
NeverOverdrawn ==
  \A w \in Wallets : accounts[w].available >= 0 /\ accounts[w].locked >= 0

(* The strengthening of NeverOverdrawn and FrozenStaysPut that is inductive: *)
(* what a transaction holds can be committed, the owners of the rows that it *)
(* holds and of the legs that it has still to apply are users that it has    *)
(* checked or will check, and a user that it has checked stays active.       *)
DraftsNonNegative ==
  \A w \in Wallets : locker[w] # NoTx => NonNegative(draft[locker[w]][w])

OwnersChecked ==
  /\ \A w \in Wallets : locker[w] # NoTx => w[1] \in shared[locker[w]]
  /\ \A t \in Txs : \A i \in DOMAIN legs[t] :
       legs[t][i].wallet[1] \in shared[t] \cup Range(unchecked[t])

CheckedStayActive == \A t \in Txs : \A u \in shared[t] : active[u]

MovesAfterChecks ==
  \A t \in Txs : stage[t] = "moving" => unchecked[t] = << >>

IInv == /\ TypeOK /\ NeverOverdrawn /\ DraftsNonNegative
        /\ OwnersChecked /\ CheckedStayActive /\ MovesAfterChecks

Total(asset, table) ==
  MapThenSumSet(LAMBDA u : table[<<u, asset>>].available
                           + table[<<u, asset>>].locked, Users)

(* Nothing is created or destroyed: the wallets of an asset hold what they *)
(* held at first, and what committed deposits, withdrawals and fees added. *)
Conservation ==
  \A a \in Assets : Total(a, accounts) = Total(a, Opening) + flow[a]

(* The money of a frozen or closed account does not move: an operation     *)
(* that had seen it active holds up the change of status until it ends.    *)
FrozenStaysPut ==
  [][\A u \in Users, a \in Assets :
       ~active[u] => accounts'[<<u, a>>] = accounts[<<u, a>>]]_vars

(* Each operation is answered: the transactions that wait for the rows of  *)
(* one another are told apart.                                             *)
EveryOperationEnds == \A t \in Txs : stage[t] # "idle" ~> stage[t] = "idle"

AsLedger == INSTANCE Ledger

(* Concurrent transactions do what one operation after the other would. *)
ImplementsLedger == AsLedger!LedgerSpec
=============================================================================
