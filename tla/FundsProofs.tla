---------------------------- MODULE FundsProofs ----------------------------
(***************************************************************************)
(* FundsFlow for any number of requests, rows and faults: its types, that  *)
(* the wallet pays only on grounds, and that no event is passed over.      *)
(***************************************************************************)
EXTENDS FundsFlow, MovementProofs, SequenceTheorems, TLAPS

-----------------------------------------------------------------------------
(* Payments *)

(* An operation applies its legs to each wallet. *)
LEMMA AppliedAll ==
  ASSUME NEW op
  PROVE  AfterAll(op) = Applied(accounts, op.legs)
BY DEF AfterAll, Applied, AfterLegs

(* What an event is about. *)
LEMMA EventFields ==
  ASSUME NEW e \in KafkaEvent
  PROVE  /\ e.topic \in Topics /\ e.id \in Ids /\ e.amount \in Nat
         /\ Ref(e) \in References /\ Ref(e)[1] = e.topic
<1>1. e.amount \in DepositAmounts \cup WithdrawalAmounts
  BY DEF KafkaEvent
<1> QED BY <1>1, FundsAssumption DEF KafkaEvent, Ref, References

(* The wallets stay accounts when an event is paid. *)
LEMMA PaymentTypes ==
  ASSUME accounts \in [Wallets -> Account], NEW e \in KafkaEvent
  PROVE  AfterAll(Payment(e)) \in [Wallets -> Account]
<1> DEFINE n == IF e.topic = "deposits" THEN e.amount ELSE -(e.amount + Fee(e.amount))
           leg == Leg(Customer, Asset, n, 0, n)
<1>1. n \in Int
  BY EventFields DEF Fee
<1>2. Payment(e).legs = <<leg>>
  BY DEF Payment, Credit, Debit, Operation
<1> HIDE DEF n
<1>3. leg \in Legs
  BY <1>1, FundsAssumption DEF Leg, Legs, Wallets
<1> HIDE DEF leg
<1>4. <<leg>> \in Seq(Legs)
  BY <1>3
<1>5. AfterAll(Payment(e)) = Applied(accounts, <<leg>>)
  BY <1>2, AppliedAll
<1> QED BY <1>4, <1>5, AppliedType

-----------------------------------------------------------------------------
(* Types, and room for the identifiers *)

Saving(at) == {r \in Requests : request[r].at = at}

(* Every row, and every row about to be inserted, is of a request of its   *)
(* own: there is an identifier for it.                                     *)
RoomInv ==
  /\ Len(deposits) + Cardinality(Saving("saveDeposit")) <= requests
  /\ Len(withdrawals) + Cardinality(Saving("saveWithdrawal")) <= requests

(* What a request holds, by where it is. *)
LEMMA HeldRow ==
  ASSUME TypeOK, NEW r \in Requests
  PROVE  /\ request[r] \in Held
         /\ request[r].at \in {"idle", "saveDeposit", "saveConfirmed", "saveWithdrawal",
                               "saveReview", "produce"}
         /\ request[r].at \in {"saveDeposit", "saveConfirmed"} =>
              request[r].row \in DepositEntity
         /\ request[r].at = "saveConfirmed" => request[r].id \in DOMAIN deposits
         /\ request[r].at \in {"saveWithdrawal", "saveReview"} =>
              request[r].row \in WithdrawalEntity
         /\ request[r].at = "saveReview" => request[r].id \in DOMAIN withdrawals
         /\ request[r].at = "produce" =>
              /\ request[r].row \in DepositEntity \cup WithdrawalEntity
              /\ request[r].events \in Seq(KafkaEvent) /\ request[r].events # << >>
         /\ request[r].at # "idle" =>
              /\ request[r].id \in Nat
              /\ request[r] = [at |-> request[r].at, id |-> request[r].id,
                               row |-> request[r].row, events |-> request[r].events]
<1>1. request[r] \in Held
  BY DEF TypeOK
<1>2. DOMAIN deposits \subseteq Nat /\ DOMAIN withdrawals \subseteq Nat
  BY LenProperties DEF TypeOK
<1> QED BY <1>1, <1>2 DEF Held, Idle

(* Only one request moves in a step. *)
LEMMA OneMoves ==
  ASSUME TypeOK, NEW r \in Requests, NEW state, request' = [request EXCEPT ![r] = state]
  PROVE  /\ request'[r] = state
         /\ \A q \in Requests : q # r => request'[q] = request[q]
BY DEF TypeOK

(* A request goes on to a state that is one; rows are only added. *)
LEMMA HeldGrows ==
  ASSUME TypeOK, NEW r \in Requests, NEW state, request' = [request EXCEPT ![r] = state],
         state \in Held', DOMAIN deposits \subseteq DOMAIN deposits',
         DOMAIN withdrawals \subseteq DOMAIN withdrawals'
  PROVE  request' \in [Requests -> Held']
<1>1. Held \subseteq Held'
  BY DEF Held
<1> QED BY <1>1 DEF TypeOK

(* Requests that do not reach a table make no more rows to insert. *)
LEMMA SavingChanges ==
  ASSUME TypeOK, NEW r \in Requests, NEW at,
         \A q \in Requests : q # r => request'[q] = request[q]
  PROVE  /\ Cardinality(Saving(at)) \in Nat /\ Cardinality(Saving(at)') \in Nat
         /\ Cardinality(Saving(at)') <= Cardinality(Saving(at)) + 1
         /\ request'[r].at # at => Cardinality(Saving(at)') <= Cardinality(Saving(at))
         /\ request'[r].at # at /\ request[r].at = at =>
              Cardinality(Saving(at)') <= Cardinality(Saving(at)) - 1
<1>1. IsFiniteSet(Requests) /\ Saving(at) \in SUBSET Requests /\ Saving(at)' \in SUBSET Requests
  BY FundsAssumption DEF Saving
<1>2. \A q \in Saving(at)' : q # r => q \in Saving(at)
  BY DEF Saving
<1>3. /\ r \in Saving(at) <=> request[r].at = at
      /\ r \in Saving(at)' <=> request'[r].at = at
  BY DEF Saving
<1> QED BY <1>1, <1>2, <1>3, CountChanges

(* The identifiers of the rows, and of those about to be inserted. *)
LEMMA RoomLeft ==
  ASSUME TypeOK, RoomInv
  PROVE  /\ DOMAIN deposits \subseteq Ids /\ DOMAIN withdrawals \subseteq Ids
         /\ \A r \in Requests :
              /\ request[r].at = "saveDeposit" => Len(deposits) + 1 \in Ids
              /\ request[r].at = "saveWithdrawal" => Len(withdrawals) + 1 \in Ids
<1>1. /\ Len(deposits) \in Nat /\ DOMAIN deposits = 1..Len(deposits)
      /\ Len(withdrawals) \in Nat /\ DOMAIN withdrawals = 1..Len(withdrawals)
  BY LenProperties DEF TypeOK
<1>2. \A at : Saving(at) \in SUBSET Requests
  BY DEF Saving
<1>3. \A at : /\ IsFiniteSet(Saving(at)) /\ Cardinality(Saving(at)) \in Nat
              /\ \A r \in Saving(at) : Cardinality(Saving(at)) >= 1
  <2> TAKE at
  <2>1. IsFiniteSet(Saving(at)) /\ Cardinality(Saving(at)) \in Nat
    BY <1>2, FundsAssumption, SubsetCounts
  <2>2. \A r \in Saving(at) : Cardinality(Saving(at)) # 0
    BY <2>1, FS_EmptySet
  <2> QED BY <2>1, <2>2
<1>4. requests \in Nat /\ requests <= MaxRequests /\ MaxRequests \in Nat
  BY FundsAssumption DEF TypeOK
<1>5. \A r \in Requests : r \in Saving(request[r].at)
  BY DEF Saving
<1>6. DOMAIN deposits \subseteq Ids /\ DOMAIN withdrawals \subseteq Ids
  BY <1>1, <1>3, <1>4 DEF RoomInv, Ids
<1>7. ASSUME NEW r \in Requests, request[r].at = "saveDeposit"
      PROVE  Len(deposits) + 1 \in Ids
  <2>1. Cardinality(Saving("saveDeposit")) \in Nat /\ Cardinality(Saving("saveDeposit")) >= 1
    BY <1>3, <1>5, <1>7
  <2> QED BY <1>1, <1>4, <2>1 DEF RoomInv, Ids
<1>8. ASSUME NEW r \in Requests, request[r].at = "saveWithdrawal"
      PROVE  Len(withdrawals) + 1 \in Ids
  <2>1. /\ Cardinality(Saving("saveWithdrawal")) \in Nat
        /\ Cardinality(Saving("saveWithdrawal")) >= 1
    BY <1>3, <1>5, <1>8
  <2> QED BY <1>1, <1>4, <2>1 DEF RoomInv, Ids
<1> QED BY <1>6, <1>7, <1>8

(* An event that is created from a row is an event. *)
LEMMA EventType ==
  ASSUME NEW t \in Topics, NEW id \in Ids, NEW row \in DepositEntity \cup WithdrawalEntity,
         NEW type \in {"DepositDetected", "DepositConfirmed", "WithdrawalRequested",
                       "WithdrawalApproved"}
  PROVE  Event(t, type, id, row) \in KafkaEvent
<1>1. /\ row.amount \in DepositAmounts \cup WithdrawalAmounts
      /\ row.status \in {"Pending", "Confirmed", "Failed"}
  BY DEF DepositEntity, WithdrawalEntity
<1> QED BY <1>1 DEF Event, KafkaEvent

Producing(r, events) ==
  [at |-> "produce", id |-> request[r].id, row |-> request[r].row, events |-> events]

(* The record of a request that goes on to produce events. *)
LEMMA ExceptProducing ==
  ASSUME TypeOK, NEW r \in Requests, request[r].at # "idle", NEW events
  PROVE  [request[r] EXCEPT !.at = "produce", !.events = events] = Producing(r, events)
<1>1. request[r] = [at |-> request[r].at, id |-> request[r].id,
                    row |-> request[r].row, events |-> request[r].events]
  BY HeldRow
<1> DEFINE id == request[r].id
           row == request[r].row
<1>2. [request[r] EXCEPT !.at = "produce", !.events = events]
        = [at |-> "produce", id |-> id, row |-> row, events |-> events]
  <2>1. DOMAIN request[r] = {"at", "id", "row", "events"}
    BY <1>1
  <2>2. [request[r] EXCEPT !.at = "produce", !.events = events]
          = [f \in {"at", "id", "row", "events"} |->
               IF f = "events" THEN events ELSE IF f = "at" THEN "produce" ELSE request[r][f]]
    BY <2>1
  <2> QED BY <2>2
<1> QED BY <1>2 DEF Producing

(* A request that has saved its row produces events from then on. *)
LEMMA SaveMoves ==
  ASSUME TypeOK, NEW r \in Requests, request[r].at # "idle", NEW events,
         request' = [request EXCEPT ![r].at = "produce", ![r].events = events]
  PROVE  request' = [request EXCEPT ![r] = Producing(r, events)]
BY ExceptProducing DEF TypeOK

(* What a request that produces holds is one of the states it may hold. *)
LEMMA ProducingHeld ==
  ASSUME TypeOK, NEW r \in Requests, request[r].at # "idle",
         NEW events \in Seq(KafkaEvent) \ {<< >>}
  PROVE  Producing(r, events) \in Held'
<1> DEFINE id == request[r].id
           row == request[r].row
<1>1. id \in Nat /\ row \in DepositEntity \cup WithdrawalEntity
  BY HeldRow
<1>2. Producing(r, events) = [at |-> "produce", id |-> id, row |-> row, events |-> events]
  BY DEF Producing
<1> HIDE DEF id, row
<1>3. Producing(r, events)
        \in [at: {"produce"}, id: Nat, row: DepositEntity \cup WithdrawalEntity,
            events: Seq(KafkaEvent) \ {<< >>}]
  BY <1>1, <1>2
<1> QED BY <1>3 DEF Held

(* What Produce leaves of a request. *)
LEMMA ProduceMoves ==
  ASSUME TypeOK, NEW r \in Requests, Produce(r)
  PROVE  LET events == request[r].events
             event == Head(events)
         IN /\ events \in Seq(KafkaEvent) /\ events # << >> /\ event \in KafkaEvent
            /\ topic' = [topic EXCEPT ![event.topic] = Append(topic[event.topic], event)]
            /\ \/ /\ \/ Len(events) = 1 /\ request' = [request EXCEPT ![r] = Idle]
                     \/ /\ Len(events) # 1 /\ Tail(events) \in Seq(KafkaEvent) \ {<< >>}
                        /\ request' = [request EXCEPT ![r] = Producing(r, Tail(events))]
                  /\ copies' = copies
               \/ /\ copies' = IF Pays(event)
                               THEN [copies EXCEPT ![Ref(event)] = copies[Ref(event)] + 1]
                               ELSE copies
                  /\ request' = request
<1> DEFINE events == request[r].events
           event == Head(events)
<1>1. /\ request[r].at = "produce" /\ events \in Seq(KafkaEvent) /\ events # << >>
      /\ request[r] = [at |-> request[r].at, id |-> request[r].id,
                       row |-> request[r].row, events |-> events]
  BY HeldRow DEF Produce
<1>2. event \in KafkaEvent /\ Tail(events) \in Seq(KafkaEvent)
      /\ (Len(events) # 1 => Tail(events) # << >>)
  <2> HIDE DEF events
  <2>1. Head(events) \in KafkaEvent /\ Tail(events) \in Seq(KafkaEvent)
        /\ Len(Tail(events)) = Len(events) - 1 /\ Len(events) \in Nat
    BY <1>1, HeadTailProperties, LenProperties
  <2>2. Len(<< >>) = 0
    OBVIOUS
  <2>3. Len(events) # 1 => Len(Tail(events)) # 0
    BY <2>1
  <2>4. Len(events) # 1 => Tail(events) # << >>
    BY <2>2, <2>3
  <2> QED BY <2>1, <2>4
<1>3. topic' = [topic EXCEPT ![event.topic] = Append(topic[event.topic], event)]
  BY DEF Produce
<1>4. [request[r] EXCEPT !.events = Tail(events)] = Producing(r, Tail(events))
  BY <1>1 DEF Producing
<1>5. CASE request' = [request EXCEPT ![r] = IF Len(events) = 1 THEN Idle
                         ELSE [request[r] EXCEPT !.events = Tail(events)]]
           /\ copies' = copies
  <2>1. CASE Len(events) = 1
    BY <1>1, <1>2, <1>3, <1>5, <2>1
  <2>2. CASE Len(events) # 1
    <3>1. request' = [request EXCEPT ![r] = Producing(r, Tail(events))]
      BY <1>4, <1>5, <2>2
    <3> QED BY <1>1, <1>2, <1>3, <1>5, <2>2, <3>1
  <2> QED BY <2>1, <2>2
<1>6. CASE /\ copies' = IF Pays(event)
                        THEN [copies EXCEPT ![Ref(event)] = copies[Ref(event)] + 1]
                        ELSE copies
           /\ request' = request
  BY <1>1, <1>2, <1>3, <1>6
<1>7. \/ /\ request' = [request EXCEPT ![r] = IF Len(events) = 1 THEN Idle
                         ELSE [request[r] EXCEPT !.events = Tail(events)]]
         /\ copies' = copies
      \/ /\ copies' = IF Pays(event)
                      THEN [copies EXCEPT ![Ref(event)] = copies[Ref(event)] + 1]
                      ELSE copies
         /\ request' = request
  BY DEF Produce
<1> QED BY <1>5, <1>6, <1>7

(* The event that a consumer handles, or has handled. *)
LEMMA UpcomingEvent ==
  ASSUME TypeOK, NEW t \in Topics, Waiting(t)
  PROVE  /\ Upcoming(t) \in KafkaEvent
         /\ offset[t] + 1 \in DOMAIN topic[t] /\ Upcoming(t) = topic[t][offset[t] + 1]
         /\ offset[t] + 1 <= Len(topic[t])
<1>1. topic[t] \in Seq(KafkaEvent) /\ offset[t] \in Nat
  BY DEF TypeOK
<1>2. Len(topic[t]) \in Nat /\ DOMAIN topic[t] = 1..Len(topic[t])
  BY <1>1, LenProperties
<1>3. offset[t] + 1 \in DOMAIN topic[t] /\ offset[t] + 1 <= Len(topic[t])
  BY <1>1, <1>2 DEF Waiting
<1> QED BY <1>1, <1>3, ElementOfSeq DEF Upcoming

(* The first state has its types and room. *)
LEMMA InitTypes == Init => TypeOK /\ RoomInv
<1> SUFFICES ASSUME Init PROVE TypeOK /\ RoomInv
  OBVIOUS
<1>1. /\ << >> \in Seq(DepositEntity) /\ << >> \in Seq(WithdrawalEntity)
      /\ << >> \in Seq(KafkaEvent) /\ Len(<< >>) = 0
  BY EmptySeq
<1>2. request \in [Requests -> Held]
  BY DEF Init, Held
<1>3. \A t \in Topics : topic[t] = << >> /\ offset[t] = 0 /\ consumer[t] = "idle"
  BY DEF Init
<1>4. requests \in 0..MaxRequests
  BY FundsAssumption DEF Init
<1>5. accounts \in [Wallets -> Account] /\ active \in [Users -> BOOLEAN]
  BY OpeningAssumption DEF Init, LedgerInit
<1>6. topic \in [Topics -> Seq(KafkaEvent)] /\ offset \in [Topics -> Nat]
      /\ consumer \in [Topics -> {"idle", "deadLetter", "commit"}]
      /\ paid \in [References -> Nat]
      /\ grounds \in [References -> Nat] /\ copies \in [References -> Nat]
  BY <1>1 DEF Init
<1>7. Saving("saveDeposit") = {} /\ Saving("saveWithdrawal") = {}
  BY DEF Init, Saving, Idle
<1>8. RoomInv
  <2>1. Cardinality({}) = 0
    BY FS_EmptySet
  <2>2. requests = 0 /\ Len(deposits) = 0 /\ Len(withdrawals) = 0
    BY <1>1 DEF Init
  <2> QED BY <1>7, <2>1, <2>2 DEF RoomInv
<1> QED BY <1>1, <1>2, <1>3, <1>4, <1>5, <1>6, <1>8 DEF Init, TypeOK


(* Steps of requests keep the types when what they change has its type. *)
LEMMA RequestsKeepTypes ==
  ASSUME TypeOK, request' \in [Requests -> Held'], requests' \in 0..MaxRequests,
         deposits' \in Seq(DepositEntity), withdrawals' \in Seq(WithdrawalEntity),
         grounds' \in [References -> Nat], UNCHANGED <<kafka, paid, copies, ledgerVars>>
  PROVE  TypeOK'
<1>1. \A t \in Topics : Waiting(t)' <=> Waiting(t)
  BY DEF Waiting, kafka
<1> QED BY <1>1 DEF TypeOK, kafka, ledgerVars

(* Counting keeps a number for every reference. *)
LEMMA CountedType ==
  ASSUME NEW f \in [References -> Nat], NEW k \in References
  PROVE  [f EXCEPT ![k] = f[k] + 1] \in [References -> Nat]
<1>1. f[k] + 1 \in Nat
  OBVIOUS
<1> QED BY <1>1

LEMMA GroundsType ==
  ASSUME TypeOK, NEW k \in References
  PROVE  Counted(k) \in [References -> Nat]
BY CountedType DEF TypeOK, Counted

(* A request that begins has an identifier to spare. *)
LEMMA BeginTypes ==
  ASSUME TypeOK, RoomInv, NEW r \in Requests, Begin(r), NEW state \in Held,
         request' = [request EXCEPT ![r] = state],
         grounds' = grounds \/ \E k \in References : grounds' = Counted(k),
         UNCHANGED <<deposits, withdrawals, kafka, paid, copies, ledgerVars>>
  PROVE  TypeOK' /\ RoomInv'
<1>1. state \in Held'
  BY DEF Held
<1>2. request' \in [Requests -> Held']
  BY <1>1, HeldGrows
<1>3. requests' = requests + 1 /\ requests \in 0..MaxRequests /\ requests < MaxRequests
  BY DEF Begin, TypeOK
<1>4. requests' \in 0..MaxRequests
  BY <1>3, FundsAssumption
<1>5. grounds' \in [References -> Nat]
  BY GroundsType DEF TypeOK
<1>6. TypeOK'
  BY <1>2, <1>4, <1>5, RequestsKeepTypes DEF TypeOK
<1>7. \A at : /\ Cardinality(Saving(at)) \in Nat /\ Cardinality(Saving(at)') \in Nat
              /\ Cardinality(Saving(at)') <= Cardinality(Saving(at)) + 1
  BY OneMoves, SavingChanges
<1>8. Len(deposits) \in Nat /\ Len(withdrawals) \in Nat
      /\ Len(deposits)' = Len(deposits) /\ Len(withdrawals)' = Len(withdrawals)
  BY LenProperties DEF TypeOK
<1>9. RoomInv'
  <2>1. /\ Cardinality(Saving("saveDeposit")) \in Nat
        /\ Cardinality(Saving("saveDeposit")') \in Nat
        /\ Cardinality(Saving("saveDeposit")') <= Cardinality(Saving("saveDeposit")) + 1
        /\ Cardinality(Saving("saveWithdrawal")) \in Nat
        /\ Cardinality(Saving("saveWithdrawal")') \in Nat
        /\ Cardinality(Saving("saveWithdrawal")')
             <= Cardinality(Saving("saveWithdrawal")) + 1
    BY <1>7
  <2> QED BY <1>3, <1>8, <2>1 DEF RoomInv
<1> QED BY <1>6, <1>9

LEMMA SimulateDepositTypes ==
  ASSUME TypeOK, RoomInv, NEW r \in Requests, SimulateDeposit(r)
  PROVE  TypeOK' /\ RoomInv'
<1>1. PICK hash \in Hashes, amount \in DepositAmounts :
        request' = [request EXCEPT ![r] =
            [at |-> "saveDeposit", id |-> Len(deposits) + 1, events |-> << >>,
             row |-> [hash |-> hash, amount |-> amount, confirmations |-> 0,
                      status |-> "Pending"]]]
  BY DEF SimulateDeposit
<1>2. Len(deposits) + 1 \in Nat
  BY LenProperties DEF TypeOK
<1>3. [hash |-> hash, amount |-> amount, confirmations |-> 0, status |-> "Pending"]
        \in DepositEntity
  BY DEF DepositEntity
<1>4. [at |-> "saveDeposit", id |-> Len(deposits) + 1, events |-> << >>,
       row |-> [hash |-> hash, amount |-> amount, confirmations |-> 0,
                status |-> "Pending"]] \in Held
  BY <1>2, <1>3 DEF Held
<1> QED BY <1>1, <1>4, BeginTypes DEF SimulateDeposit, tables, history

LEMMA ConfirmTypes ==
  ASSUME TypeOK, RoomInv, NEW r \in Requests, Confirm(r)
  PROVE  TypeOK' /\ RoomInv'
<1>1. PICK d \in DOMAIN deposits, n \in {RequiredConfirmations - 1, RequiredConfirmations} :
        /\ request' = [request EXCEPT ![r] =
             [at |-> "saveConfirmed", id |-> d, row |-> Confirmed(deposits[d], n),
              events |-> << >>]]
        /\ grounds' = grounds \/ grounds' = Counted(<<"deposits", d>>)
  BY DEF Confirm
<1>2. n \in Nat
  BY FundsAssumption
<1>3. deposits[d] \in DepositEntity
  BY ElementOfSeq, LenProperties DEF TypeOK
<1>4. Confirmed(deposits[d], n) \in DepositEntity
  BY <1>2, <1>3 DEF Confirmed, DepositEntity
<1>5. [at |-> "saveConfirmed", id |-> d, row |-> Confirmed(deposits[d], n),
       events |-> << >>] \in Held
  BY <1>4 DEF Held
<1>6. <<"deposits", d>> \in References
  BY RoomLeft DEF References, Topics
<1> QED BY <1>1, <1>5, <1>6, BeginTypes DEF Confirm, tables

LEMMA RequestWithdrawalTypes ==
  ASSUME TypeOK, RoomInv, NEW r \in Requests, RequestWithdrawal(r)
  PROVE  TypeOK' /\ RoomInv'
<1>1. PICK amount \in WithdrawalAmounts :
        request' = [request EXCEPT ![r] =
            [at |-> "saveWithdrawal", id |-> 0, events |-> << >>,
             row |-> [amount |-> amount,
                      status |-> IF ApprovalTier(amount) = "AUTO" THEN "Confirmed"
                                 ELSE "Pending"]]]
  BY DEF RequestWithdrawal
<1>2. [at |-> "saveWithdrawal", id |-> 0, events |-> << >>,
       row |-> [amount |-> amount,
                status |-> IF ApprovalTier(amount) = "AUTO" THEN "Confirmed"
                           ELSE "Pending"]] \in Held
  BY DEF Held, WithdrawalEntity
<1> QED BY <1>1, <1>2, BeginTypes DEF RequestWithdrawal, tables, history

LEMMA ReviewTypes ==
  ASSUME TypeOK, RoomInv, NEW r \in Requests, Review(r)
  PROVE  TypeOK' /\ RoomInv'
<1>1. PICK w \in DOMAIN withdrawals, status \in {"Confirmed", "Failed"} :
        /\ request' = [request EXCEPT ![r] =
             [at |-> "saveReview", id |-> w, events |-> << >>,
              row |-> [withdrawals[w] EXCEPT !.status = status]]]
        /\ grounds' = grounds \/ grounds' = Counted(<<"withdrawals", w>>)
  BY DEF Review
<1>2. withdrawals[w] \in WithdrawalEntity
  BY ElementOfSeq, LenProperties DEF TypeOK
<1>3. [withdrawals[w] EXCEPT !.status = status] \in WithdrawalEntity
  BY <1>2 DEF WithdrawalEntity
<1>4. [at |-> "saveReview", id |-> w, events |-> << >>,
       row |-> [withdrawals[w] EXCEPT !.status = status]] \in Held
  BY <1>3 DEF Held
<1>5. <<"withdrawals", w>> \in References
  BY RoomLeft DEF References, Topics
<1> QED BY <1>1, <1>4, <1>5, BeginTypes DEF Review, tables

LEMMA WhitelistTypes ==
  ASSUME TypeOK, RoomInv, NEW r \in Requests, Whitelist(r)
  PROVE  TypeOK' /\ RoomInv'
<1>1. request' = [request EXCEPT ![r] = request[r]] /\ request[r] \in Held
  BY DEF Whitelist, TypeOK
<1> QED BY <1>1, BeginTypes DEF Whitelist, history


(* A request that has inserted its row, or that changes one, leaves as     *)
(* much room as there was.                                                 *)
LEMMA GoOnRoom ==
  ASSUME TypeOK, RoomInv, NEW r \in Requests, NEW state,
         request' = [request EXCEPT ![r] = state],
         state.at \notin {"saveDeposit", "saveWithdrawal"}, requests' = requests,
         \/ Len(deposits)' = Len(deposits)
         \/ /\ request[r].at = "saveDeposit" /\ Len(deposits)' = Len(deposits) + 1,
         \/ Len(withdrawals)' = Len(withdrawals)
         \/ /\ request[r].at = "saveWithdrawal" /\ Len(withdrawals)' = Len(withdrawals) + 1
  PROVE  RoomInv'
<1> DEFINE cd == Cardinality(Saving("saveDeposit"))
           cw == Cardinality(Saving("saveWithdrawal"))
<1>1. request'[r] = state /\ \A q \in Requests : q # r => request'[q] = request[q]
  BY OneMoves
<1>2. /\ cd \in Nat /\ cd' \in Nat /\ cd' <= cd
      /\ request[r].at = "saveDeposit" => cd' <= cd - 1
  BY <1>1, SavingChanges
<1>3. /\ cw \in Nat /\ cw' \in Nat /\ cw' <= cw
      /\ request[r].at = "saveWithdrawal" => cw' <= cw - 1
  BY <1>1, SavingChanges
<1>4. /\ requests \in Nat /\ Len(deposits) \in Nat /\ Len(withdrawals) \in Nat
      /\ Len(deposits) + cd <= requests /\ Len(withdrawals) + cw <= requests
  BY LenProperties DEF TypeOK, RoomInv
<1> HIDE DEF cd, cw
<1>5. Len(deposits)' + cd' <= requests /\ Len(withdrawals)' + cw' <= requests
  BY <1>2, <1>3, <1>4
<1> QED BY <1>5 DEF RoomInv, cd, cw

LEMMA SaveDepositTypes ==
  ASSUME TypeOK, RoomInv, NEW r \in Requests, SaveDeposit(r)
  PROVE  TypeOK' /\ RoomInv'
<1> DEFINE row == request[r].row
           e == Event("deposits", "DepositDetected", Len(deposits'), row)
<1>1. /\ request[r].at = "saveDeposit" /\ row \in DepositEntity
      /\ deposits' = Append(deposits, row) /\ requests' = requests
      /\ UNCHANGED <<withdrawals, kafka, paid, grounds, copies, ledgerVars>>
  BY HeldRow DEF SaveDeposit, history
<1>2. deposits' \in Seq(DepositEntity) /\ Len(deposits') = Len(deposits) + 1
  BY <1>1, AppendProperties DEF TypeOK
<1>3. e \in KafkaEvent
  BY <1>1, <1>2, RoomLeft, EventType DEF Topics
<1>4. request' = [request EXCEPT ![r] = Producing(r, <<e>>)]
  BY <1>1, SaveMoves DEF SaveDeposit
<1> HIDE DEF e
<1>5. Producing(r, <<e>>) \in Held'
  <2>1. <<e>> \in Seq(KafkaEvent) \ {<< >>}
    BY <1>3
  <2> QED BY <1>1, <2>1, ProducingHeld
<1>6. DOMAIN deposits \subseteq DOMAIN deposits'
  BY <1>1, <1>2, LenProperties DEF TypeOK
<1>7. request' \in [Requests -> Held']
  BY <1>1, <1>4, <1>5, <1>6, HeldGrows
<1>8. TypeOK'
  BY <1>1, <1>2, <1>7, RequestsKeepTypes DEF TypeOK
<1>9. Producing(r, <<e>>).at = "produce"
  BY DEF Producing
<1>10. RoomInv'
  BY <1>1, <1>2, <1>4, <1>9, GoOnRoom
<1> QED BY <1>8, <1>10

LEMMA SaveConfirmedTypes ==
  ASSUME TypeOK, RoomInv, NEW r \in Requests, SaveConfirmed(r)
  PROVE  TypeOK' /\ RoomInv'
<1> DEFINE d == request[r].id
           row == request[r].row
           type == IF row.status = "Confirmed" THEN "DepositConfirmed" ELSE "DepositDetected"
           e == Event("deposits", type, d, row)
<1>1. /\ request[r].at = "saveConfirmed" /\ row \in DepositEntity /\ d \in DOMAIN deposits
      /\ deposits' = [deposits EXCEPT ![d] = row] /\ requests' = requests
      /\ UNCHANGED <<withdrawals, kafka, paid, grounds, copies, ledgerVars>>
  BY HeldRow DEF SaveConfirmed, history
<1>2. /\ deposits' \in Seq(DepositEntity) /\ Len(deposits') = Len(deposits)
      /\ DOMAIN deposits' = DOMAIN deposits
  BY <1>1, ExceptSeq, LenProperties DEF TypeOK
<1>3. e \in KafkaEvent
  BY <1>1, RoomLeft, EventType DEF Topics
<1>4. request' = [request EXCEPT ![r] = Producing(r, <<e>>)]
  BY <1>1, SaveMoves DEF SaveConfirmed
<1> HIDE DEF e
<1>5. Producing(r, <<e>>) \in Held'
  <2>1. <<e>> \in Seq(KafkaEvent) \ {<< >>}
    BY <1>3
  <2> QED BY <1>1, <2>1, ProducingHeld
<1>7. request' \in [Requests -> Held']
  BY <1>1, <1>2, <1>4, <1>5, HeldGrows
<1>8. TypeOK'
  BY <1>1, <1>2, <1>7, RequestsKeepTypes DEF TypeOK
<1>9. Producing(r, <<e>>).at = "produce"
  BY DEF Producing
<1>10. RoomInv'
  BY <1>1, <1>2, <1>4, <1>9, GoOnRoom
<1> QED BY <1>8, <1>10

LEMMA SaveWithdrawalTypes ==
  ASSUME TypeOK, RoomInv, NEW r \in Requests, SaveWithdrawal(r)
  PROVE  TypeOK' /\ RoomInv'
<1> DEFINE row == request[r].row
           w == Len(withdrawals')
           asked == Event("withdrawals", "WithdrawalRequested", w, row)
           approved == Event("withdrawals", "WithdrawalApproved", w, row)
           events == IF row.status = "Confirmed" THEN <<asked, approved>> ELSE <<asked>>
<1>1. /\ request[r].at = "saveWithdrawal" /\ row \in WithdrawalEntity
      /\ withdrawals' = Append(withdrawals, row) /\ requests' = requests
      /\ UNCHANGED <<deposits, kafka, paid, copies, ledgerVars>>
      /\ grounds' = grounds \/ grounds' = Counted(<<"withdrawals", w>>)
  BY HeldRow DEF SaveWithdrawal
<1>2. withdrawals' \in Seq(WithdrawalEntity) /\ Len(withdrawals') = Len(withdrawals) + 1
  BY <1>1, AppendProperties DEF TypeOK
<1>3. asked \in KafkaEvent /\ approved \in KafkaEvent /\ <<"withdrawals", w>> \in References
  BY <1>1, <1>2, RoomLeft, EventType DEF Topics, References
<1>4. request' = [request EXCEPT ![r] = Producing(r, events)]
  BY <1>1, SaveMoves DEF SaveWithdrawal
<1>5. events \in Seq(KafkaEvent) \ {<< >>}
  <2> HIDE DEF asked, approved
  <2> QED BY <1>3
<1> HIDE DEF events
<1>6. Producing(r, events) \in Held'
  BY <1>1, <1>5, ProducingHeld
<1>7. DOMAIN withdrawals \subseteq DOMAIN withdrawals'
  BY <1>1, <1>2, LenProperties DEF TypeOK
<1>8. request' \in [Requests -> Held']
  BY <1>1, <1>4, <1>6, <1>7, HeldGrows
<1>9. grounds' \in [References -> Nat]
  BY <1>1, <1>3, GroundsType DEF TypeOK
<1>10. TypeOK'
  BY <1>1, <1>2, <1>8, <1>9, RequestsKeepTypes DEF TypeOK
<1>11. Producing(r, events).at = "produce"
  BY DEF Producing
<1>12. RoomInv'
  BY <1>1, <1>2, <1>4, <1>11, GoOnRoom
<1> QED BY <1>10, <1>12


(* A request that is over leaves as much room as there was. *)
LEMMA EndsTypes ==
  ASSUME TypeOK, RoomInv, NEW r \in Requests, request' = [request EXCEPT ![r] = Idle],
         UNCHANGED <<deposits, withdrawals, requests>>
  PROVE  request' \in [Requests -> Held'] /\ RoomInv'
<1>1. Idle \in Held' /\ Idle.at = "idle"
  BY DEF Held, Idle
<1>2. request' \in [Requests -> Held']
  BY <1>1, HeldGrows
<1> QED BY <1>1, <1>2, GoOnRoom

LEMMA SaveReviewTypes ==
  ASSUME TypeOK, RoomInv, NEW r \in Requests, SaveReview(r)
  PROVE  TypeOK' /\ RoomInv'
<1> DEFINE w == request[r].id
           row == request[r].row
           e == Event("withdrawals", "WithdrawalApproved", w, row)
<1>1. /\ request[r].at = "saveReview" /\ row \in WithdrawalEntity
      /\ w \in DOMAIN withdrawals
      /\ withdrawals' = [withdrawals EXCEPT ![w] = row] /\ requests' = requests
      /\ UNCHANGED <<deposits, kafka, paid, grounds, copies, ledgerVars>>
  BY HeldRow DEF SaveReview, history
<1>2. /\ withdrawals' \in Seq(WithdrawalEntity) /\ Len(withdrawals') = Len(withdrawals)
      /\ DOMAIN withdrawals' = DOMAIN withdrawals
  BY <1>1, ExceptSeq, LenProperties DEF TypeOK
<1>3. e \in KafkaEvent
  BY <1>1, RoomLeft, EventType DEF Topics
<1>4. [request[r] EXCEPT !.at = "produce", !.events = <<e>>] = Producing(r, <<e>>)
  BY <1>1, ExceptProducing
<1>5. \/ request' = [request EXCEPT ![r] = Producing(r, <<e>>)]
      \/ request' = [request EXCEPT ![r] = Idle]
  BY <1>4 DEF SaveReview
<1> HIDE DEF e
<1>6. Producing(r, <<e>>) \in Held' /\ Idle \in Held'
      /\ Producing(r, <<e>>).at = "produce" /\ Idle.at = "idle"
  <2>1. <<e>> \in Seq(KafkaEvent) \ {<< >>}
    BY <1>3
  <2>2. Producing(r, <<e>>) \in Held'
    BY <1>1, <2>1, ProducingHeld
  <2>3. Producing(r, <<e>>).at = "produce"
    BY DEF Producing
  <2>4. Idle \in Held' /\ Idle.at = "idle"
    BY DEF Held, Idle
  <2> QED BY <2>2, <2>3, <2>4
<1>7. request' \in [Requests -> Held']
  BY <1>1, <1>2, <1>5, <1>6, HeldGrows
<1>8. TypeOK'
  BY <1>1, <1>2, <1>7, RequestsKeepTypes DEF TypeOK
<1>9. RoomInv'
  BY <1>1, <1>2, <1>5, <1>6, GoOnRoom
<1> QED BY <1>8, <1>9

(* Topics only grow at their end. *)
LEMMA TopicGrows ==
  ASSUME TypeOK, NEW e \in KafkaEvent,
         topic' = [topic EXCEPT ![e.topic] = Append(topic[e.topic], e)]
  PROVE  /\ topic' \in [Topics -> Seq(KafkaEvent)] /\ e.topic \in Topics
         /\ \A t \in Topics : /\ Len(topic[t]) \in Nat /\ Len(topic[t]) <= Len(topic'[t])
                              /\ DOMAIN topic[t] = 1..Len(topic[t])
                              /\ DOMAIN topic'[t] = 1..Len(topic'[t])
                              /\ \A i \in DOMAIN topic[t] : topic'[t][i] = topic[t][i]
                              /\ t # e.topic => topic'[t] = topic[t]
         /\ Len(topic'[e.topic]) = Len(topic[e.topic]) + 1
         /\ topic'[e.topic][Len(topic[e.topic]) + 1] = e
<1>1. e.topic \in Topics
  BY EventFields
<1>2. \A t \in Topics : topic'[t] = IF t = e.topic THEN Append(topic[t], e) ELSE topic[t]
  BY <1>1 DEF TypeOK
<1>3. \A t \in Topics :
        /\ topic[t] \in Seq(KafkaEvent) /\ Len(topic[t]) \in Nat
        /\ DOMAIN topic[t] = 1..Len(topic[t])
  BY LenProperties DEF TypeOK
<1>4. \A t \in Topics :
        /\ Append(topic[t], e) \in Seq(KafkaEvent)
        /\ Len(Append(topic[t], e)) = Len(topic[t]) + 1
        /\ DOMAIN Append(topic[t], e) = 1..Len(Append(topic[t], e))
        /\ \A i \in 1..Len(topic[t]) : Append(topic[t], e)[i] = topic[t][i]
        /\ Append(topic[t], e)[Len(topic[t]) + 1] = e
  BY <1>3, AppendProperties, LenProperties
<1>5. topic' \in [Topics -> Seq(KafkaEvent)]
  <2>1. \A t \in Topics : topic'[t] \in Seq(KafkaEvent)
    BY <1>2, <1>3, <1>4
  <2> QED BY <2>1 DEF TypeOK
<1>6. ASSUME NEW t \in Topics
      PROVE  /\ Len(topic[t]) \in Nat /\ Len(topic[t]) <= Len(topic'[t])
             /\ DOMAIN topic[t] = 1..Len(topic[t])
             /\ DOMAIN topic'[t] = 1..Len(topic'[t])
             /\ \A i \in DOMAIN topic[t] : topic'[t][i] = topic[t][i]
             /\ t # e.topic => topic'[t] = topic[t]
  BY <1>2, <1>3, <1>4
<1> QED BY <1>1, <1>2, <1>4, <1>5, <1>6

LEMMA ProduceTypes ==
  ASSUME TypeOK, RoomInv, NEW r \in Requests, Produce(r)
  PROVE  TypeOK' /\ RoomInv'
<1> DEFINE events == request[r].events
           e == Head(events)
<1>1. /\ e \in KafkaEvent
      /\ topic' = [topic EXCEPT ![e.topic] = Append(topic[e.topic], e)]
      /\ \/ request' = [request EXCEPT ![r] = Idle]
         \/ /\ Tail(events) \in Seq(KafkaEvent) \ {<< >>}
            /\ request' = [request EXCEPT ![r] = Producing(r, Tail(events))]
         \/ request' = request
      /\ copies' = copies \/ copies' = [copies EXCEPT ![Ref(e)] = copies[Ref(e)] + 1]
  BY ProduceMoves
<1>2. /\ request[r].at = "produce"
      /\ UNCHANGED <<tables, offset, consumer, deadLetters, paid, grounds, requests,
                     ledgerVars>>
  BY DEF Produce
<1> HIDE DEF e, events
<1>3. copies' \in [References -> Nat]
  <2>1. Ref(e) \in References /\ copies \in [References -> Nat]
    BY <1>1, EventFields DEF TypeOK
  <2>2. [copies EXCEPT ![Ref(e)] = copies[Ref(e)] + 1] \in [References -> Nat]
    BY <2>1, CountedType
  <2> QED BY <1>1, <2>1, <2>2
<1>4. /\ topic' \in [Topics -> Seq(KafkaEvent)]
      /\ \A t \in Topics : Len(topic[t]) \in Nat /\ Len(topic'[t]) \in Nat
                           /\ Len(topic[t]) <= Len(topic'[t])
  BY <1>1, TopicGrows, LenProperties
<1>5. \A t \in Topics : /\ offset'[t] <= Len(topic'[t])
                        /\ consumer'[t] # "idle" => Waiting(t)'
  <2> TAKE t \in Topics
  <2>1. /\ offset[t] \in Nat /\ offset[t] <= Len(topic[t])
        /\ consumer[t] # "idle" => offset[t] < Len(topic[t])
    BY DEF TypeOK, Waiting
  <2> QED BY <1>2, <1>4, <2>1 DEF Waiting
<1>6. request' \in [Requests -> Held'] /\ RoomInv'
  <2>1. CASE request' = [request EXCEPT ![r] = Idle]
    BY <1>2, <2>1, EndsTypes DEF tables
  <2>2. CASE /\ Tail(events) \in Seq(KafkaEvent) \ {<< >>}
             /\ request' = [request EXCEPT ![r] = Producing(r, Tail(events))]
    <3>1. Producing(r, Tail(events)) \in Held'
      BY <1>2, <2>2, ProducingHeld
    <3>2. Producing(r, Tail(events)).at = "produce"
      BY DEF Producing
    <3>3. request' \in [Requests -> Held']
      BY <1>2, <2>2, <3>1, HeldGrows DEF tables
    <3> QED BY <1>2, <2>2, <3>2, <3>3, GoOnRoom DEF tables
  <2>3. CASE request' = request
    BY <1>2, <2>3 DEF TypeOK, RoomInv, Held, Saving, tables
  <2> QED BY <1>1, <2>1, <2>2, <2>3
<1> QED BY <1>2, <1>3, <1>4, <1>5, <1>6 DEF TypeOK, tables, ledgerVars


LEMMA AbandonTypes ==
  ASSUME TypeOK, RoomInv, NEW r \in Requests, Abandon(r)
  PROVE  TypeOK' /\ RoomInv'
<1>1. request' \in [Requests -> Held'] /\ RoomInv'
  BY EndsTypes DEF Abandon, tables
<1>2. TypeOK'
  BY <1>1, RequestsKeepTypes DEF TypeOK, Abandon, tables
<1> QED BY <1>1, <1>2

(* Consumers keep the types when what they change has its type. *)
LEMMA ConsumersKeepTypes ==
  ASSUME TypeOK, RoomInv, NEW t \in Topics, NEW c \in {"idle", "deadLetter", "commit"},
         consumer' = [consumer EXCEPT ![t] = c],
         c # "idle" => Waiting(t), offset' = offset,
         UNCHANGED <<deposits, withdrawals, request, topic, grounds, requests>>,
         paid' \in [References -> Nat], copies' \in [References -> Nat],
         accounts' \in [Wallets -> Account], active' \in [Users -> BOOLEAN]
  PROVE  TypeOK' /\ RoomInv'
<1>1. consumer' \in [Topics -> {"idle", "deadLetter", "commit"}]
  BY DEF TypeOK
<1>2. \A s \in Topics : consumer'[s] # "idle" => Waiting(s)'
  BY DEF TypeOK, Waiting
<1>3. TypeOK'
  BY <1>1, <1>2 DEF TypeOK, Held
<1>4. RoomInv'
  BY DEF RoomInv, Saving
<1> QED BY <1>3, <1>4

LEMMA HandleTypes ==
  ASSUME TypeOK, RoomInv, NEW t \in Topics, Handle(t)
  PROVE  TypeOK' /\ RoomInv'
<1> DEFINE e == Upcoming(t)
<1>1. /\ Waiting(t) /\ e \in KafkaEvent
      /\ UNCHANGED <<tables, request, topic, offset, history, requests, active>>
  BY UpcomingEvent DEF Handle
<1>2. /\ \/ UNCHANGED <<accounts, paid>>
         \/ /\ accounts' = AfterAll(Payment(e))
            /\ paid' = [paid EXCEPT ![Ref(e)] = paid[Ref(e)] + 1]
      /\ \/ consumer' = [consumer EXCEPT ![t] = "commit"]
         \/ consumer' = [consumer EXCEPT ![t] = "deadLetter"]
  BY DEF Handle
<1> HIDE DEF e
<1>3. paid' \in [References -> Nat] /\ accounts' \in [Wallets -> Account]
  <2>1. /\ paid \in [References -> Nat] /\ accounts \in [Wallets -> Account]
        /\ Ref(e) \in References
    BY <1>1, EventFields DEF TypeOK
  <2>2. [paid EXCEPT ![Ref(e)] = paid[Ref(e)] + 1] \in [References -> Nat]
    BY <2>1, CountedType
  <2>3. AfterAll(Payment(e)) \in [Wallets -> Account]
    BY <1>1, <2>1, PaymentTypes
  <2> QED BY <1>2, <2>1, <2>2, <2>3
<1> QED BY <1>1, <1>2, <1>3, ConsumersKeepTypes DEF TypeOK, tables, history

LEMMA SendToDlqTypes ==
  ASSUME TypeOK, RoomInv, NEW t \in Topics, SendToDlq(t)
  PROVE  TypeOK' /\ RoomInv'
<1>1. Waiting(t)
  BY DEF SendToDlq, TypeOK
<1> QED BY <1>1, ConsumersKeepTypes DEF SendToDlq, TypeOK, tables, ledgerVars

LEMMA RedeliverTypes ==
  ASSUME TypeOK, RoomInv, NEW t \in Topics, Redeliver(t)
  PROVE  TypeOK' /\ RoomInv'
<1> DEFINE k == Ref(Upcoming(t))
<1>1. Waiting(t)
  BY DEF Redeliver, TypeOK
<1>2. k \in References
  BY <1>1, UpcomingEvent, EventFields
<1>3. copies' = copies \/ copies' = [copies EXCEPT ![k] = copies[k] + 1]
  BY DEF Redeliver
<1> HIDE DEF k
<1>4. copies' \in [References -> Nat]
  <2>1. copies \in [References -> Nat]
    BY DEF TypeOK
  <2>2. [copies EXCEPT ![k] = copies[k] + 1] \in [References -> Nat]
    BY <1>2, <2>1, CountedType
  <2> QED BY <1>3, <2>1, <2>2
<1> QED BY <1>1, <1>4, ConsumersKeepTypes DEF Redeliver, TypeOK, tables, ledgerVars

LEMMA CommitOffsetTypes ==
  ASSUME TypeOK, RoomInv, NEW t \in Topics, CommitOffset(t)
  PROVE  TypeOK' /\ RoomInv'
<1>1. /\ consumer[t] = "commit" /\ offset' = [offset EXCEPT ![t] = offset[t] + 1]
      /\ consumer' = [consumer EXCEPT ![t] = "idle"]
      /\ UNCHANGED <<tables, request, topic, deadLetters, paid, history, requests,
                     faults, ledgerVars>>
  BY DEF CommitOffset, NextOffset
<1>2. offset[t] + 1 <= Len(topic[t])
  BY <1>1, UpcomingEvent DEF TypeOK
<1>3. consumer' \in [Topics -> {"idle", "deadLetter", "commit"}]
  BY <1>1 DEF TypeOK
<1>4. offset' \in [Topics -> Nat]
  <2>1. offset \in [Topics -> Nat] /\ offset[t] + 1 \in Nat
    BY DEF TypeOK
  <2> QED BY <1>1, <2>1
<1>5. \A s \in Topics : /\ offset'[s] <= Len(topic'[s])
                        /\ consumer'[s] # "idle" => Waiting(s)'
  <2> TAKE s \in Topics
  <2>1. CASE s = t
    <3>1. offset'[t] = offset[t] + 1 /\ consumer'[t] = "idle"
      BY <1>1 DEF TypeOK
    <3> QED BY <1>1, <1>2, <2>1, <3>1
  <2>2. CASE s # t
    <3>1. offset'[s] = offset[s] /\ consumer'[s] = consumer[s]
      BY <1>1, <2>2 DEF TypeOK
    <3> QED BY <1>1, <3>1 DEF TypeOK, Waiting
  <2> QED BY <2>1, <2>2
<1>6. TypeOK'
  BY <1>1, <1>3, <1>4, <1>5 DEF TypeOK, Held, tables, history, ledgerVars
<1>7. RoomInv'
  BY <1>1 DEF RoomInv, Saving, tables
<1> QED BY <1>6, <1>7

(* Steps outside the requests and consumers. *)
LEMMA OtherTypes ==
  ASSUME TypeOK, RoomInv, Cool \/ ChangeStatus \/ UNCHANGED vars
  PROVE  TypeOK' /\ RoomInv'
<1>1. /\ UNCHANGED <<deposits, withdrawals, request, kafka, paid, history, requests>>
      /\ accounts' = accounts /\ active' \in [Users -> BOOLEAN]
  <2>1. CASE Cool
    BY <2>1 DEF Cool, TypeOK, ledgerVars
  <2>2. CASE ChangeStatus
    BY <2>2 DEF ChangeStatus, SetStatus, TypeOK, tables
  <2>3. CASE UNCHANGED vars
    BY <2>3 DEF vars, TypeOK, tables
  <2> QED BY <2>1, <2>2, <2>3
<1>2. \A t \in Topics : Waiting(t)' <=> Waiting(t)
  BY <1>1 DEF Waiting, kafka
<1>3. TypeOK'
  BY <1>1, <1>2 DEF TypeOK, Held, kafka, history
<1>4. RoomInv'
  BY <1>1 DEF RoomInv, Saving
<1> QED BY <1>3, <1>4

(* Every step keeps the types, and room for the rows to be inserted. *)
LEMMA StepTypes == TypeOK /\ RoomInv /\ [Next]_vars => TypeOK' /\ RoomInv'
<1> SUFFICES ASSUME TypeOK, RoomInv, [Next]_vars PROVE TypeOK' /\ RoomInv'
  OBVIOUS
<1>1. ASSUME NEW r \in Requests,
             \/ SimulateDeposit(r) \/ Confirm(r) \/ Whitelist(r)
             \/ RequestWithdrawal(r) \/ Review(r)
             \/ RequestStep(r) \/ Abandon(r)
      PROVE  TypeOK' /\ RoomInv'
  BY <1>1, SimulateDepositTypes, ConfirmTypes, WhitelistTypes, RequestWithdrawalTypes,
     ReviewTypes, SaveDepositTypes, SaveConfirmedTypes, SaveWithdrawalTypes,
     SaveReviewTypes, ProduceTypes, AbandonTypes DEF RequestStep
<1>2. ASSUME NEW t \in Topics, ConsumerStep(t) \/ Redeliver(t)
      PROVE  TypeOK' /\ RoomInv'
  BY <1>2, HandleTypes, SendToDlqTypes, CommitOffsetTypes, RedeliverTypes DEF ConsumerStep
<1> QED BY <1>1, <1>2, OtherTypes DEF Next

(* The variables always have their types; no consumer is ever ahead of its *)
(* topic.                                                                  *)
THEOREM TypeCorrect == Spec => []TypeOK
<1>1. Init => TypeOK /\ RoomInv
  BY InitTypes
<1>2. TypeOK /\ RoomInv /\ [Next]_vars => (TypeOK /\ RoomInv)'
  BY StepTypes
<1> QED BY <1>1, <1>2, PTL DEF Spec


-----------------------------------------------------------------------------
(* No event is passed over *)

(* The event at a place of a topic has been paid, asks for nothing, or is  *)
(* among the dead letters, written or lost.                                *)
Settled(t, i) ==
  LET k == Ref(topic[t][i])
  IN Pays(topic[t][i]) => paid[k] > 0 \/ <<t, i>> \in deadLetters \/ k \in dropped

(* Before the offset of an event is committed, the event is settled. *)
AccountedInv ==
  /\ EventsAccounted
  /\ \A t \in Topics : consumer[t] = "commit" => Settled(t, offset[t] + 1)

(* What only grows: payments, dead letters, and topics at their end. *)
Grows ==
  /\ \A k \in References : paid[k] <= paid'[k]
  /\ deadLetters \subseteq deadLetters' /\ dropped \subseteq dropped'
  /\ \A t \in Topics : \A i \in DOMAIN topic[t] : topic'[t][i] = topic[t][i]

(* What is settled stays settled. *)
LEMMA SettledStays ==
  ASSUME TypeOK, TypeOK', Grows, NEW t \in Topics, NEW i \in DOMAIN topic[t], Settled(t, i)
  PROVE  Settled(t, i)'
<1>1. topic'[t][i] = topic[t][i] /\ topic[t][i] \in KafkaEvent
  BY ElementOfSeq, LenProperties DEF Grows, TypeOK
<1>2. Ref(topic[t][i]) \in References
  BY <1>1, EventFields
<1>3. paid[Ref(topic[t][i])] > 0 => paid'[Ref(topic[t][i])] > 0
  BY <1>2 DEF Grows, TypeOK
<1> QED BY <1>1, <1>3 DEF Settled, Grows, Pays

(* Every step only adds to what the history holds. *)
LEMMA StepGrows ==
  ASSUME TypeOK, RoomInv, [Next]_vars
  PROVE  Grows
<1>1. /\ paid \in [References -> Nat]
      /\ \A k \in References : /\ paid[k] <= paid[k] + 1 /\ paid[k] <= paid[k]
  BY DEF TypeOK
<1>2. CASE UNCHANGED <<topic, paid, deadLetters, dropped>>
  BY <1>1, <1>2 DEF Grows
<1>3. ASSUME NEW r \in Requests, Produce(r)
      PROVE  Grows
  <2>1. UNCHANGED <<paid, deadLetters, dropped>>
    BY <1>3 DEF Produce
  <2>2. \A t \in Topics : \A i \in DOMAIN topic[t] : topic'[t][i] = topic[t][i]
    BY <1>3, ProduceMoves, TopicGrows
  <2> QED BY <1>1, <2>1, <2>2 DEF Grows
<1>4. ASSUME NEW r \in Requests, Abandon(r)
      PROVE  Grows
  BY <1>1, <1>4 DEF Abandon, Grows, kafka
<1>5. ASSUME NEW t \in Topics, Handle(t)
      PROVE  Grows
  <2>1. UNCHANGED <<topic, deadLetters, dropped>>
    BY <1>5 DEF Handle, history
  <2>2. \/ paid' = paid
        \/ paid' = [paid EXCEPT ![Ref(Upcoming(t))] = paid[Ref(Upcoming(t))] + 1]
    BY <1>5 DEF Handle
  <2>3. \A k \in References : paid[k] <= paid'[k]
    BY <1>1, <2>2
  <2> QED BY <2>1, <2>3 DEF Grows
<1>6. ASSUME NEW t \in Topics, SendToDlq(t)
      PROVE  Grows
  BY <1>1, <1>6 DEF SendToDlq, Grows
<1>7. ASSUME NEW r \in Requests,
             \/ SimulateDeposit(r) \/ Confirm(r) \/ Whitelist(r)
             \/ RequestWithdrawal(r) \/ Review(r)
             \/ SaveDeposit(r) \/ SaveConfirmed(r) \/ SaveWithdrawal(r) \/ SaveReview(r)
      PROVE  UNCHANGED <<topic, paid, deadLetters, dropped>>
  BY <1>7 DEF SimulateDeposit, Confirm, Whitelist, RequestWithdrawal, Review, SaveDeposit,
     SaveConfirmed, SaveWithdrawal, SaveReview, kafka, history
<1>8. ASSUME NEW t \in Topics, CommitOffset(t) \/ Redeliver(t)
      PROVE  UNCHANGED <<topic, paid, deadLetters, dropped>>
  BY <1>8 DEF CommitOffset, Redeliver, history
<1>9. ASSUME Cool \/ ChangeStatus \/ UNCHANGED vars
      PROVE  UNCHANGED <<topic, paid, deadLetters, dropped>>
  BY <1>9 DEF Cool, ChangeStatus, vars, kafka, history
<1> QED BY <1>2, <1>3, <1>4, <1>5, <1>6, <1>7, <1>8, <1>9 DEF Next, RequestStep, ConsumerStep

(* Which steps commit, and which decide that an offset may be committed. *)
LEMMA AccountedStep ==
  ASSUME TypeOK, RoomInv, TypeOK', AccountedInv, [Next]_vars
  PROVE  AccountedInv'
<1>1. Grows
  BY StepGrows
<1>2. \A t \in Topics :
        /\ offset[t] \in Nat /\ offset[t] <= Len(topic[t]) /\ Len(topic[t]) \in Nat
        /\ DOMAIN topic[t] = 1..Len(topic[t])
        /\ offset'[t] <= Len(topic'[t])
        /\ \A i \in 1..offset[t] : i \in DOMAIN topic[t] /\ Settled(t, i)
  BY LenProperties DEF TypeOK, AccountedInv, EventsAccounted, Settled
<1>3. \A t \in Topics : \A i \in 1..offset[t] : Settled(t, i)'
  BY <1>1, <1>2, SettledStays
<1>4. \A t \in Topics : consumer[t] # "idle" =>
        /\ offset[t] + 1 \in DOMAIN topic[t]
        /\ Upcoming(t) = topic[t][offset[t] + 1] /\ Upcoming(t) \in KafkaEvent
  BY UpcomingEvent DEF TypeOK
<1>5. \A t \in Topics : \A i \in DOMAIN topic[t] :
        consumer[t] = "commit" /\ i = offset[t] + 1 => Settled(t, i)'
  <2> TAKE t \in Topics
  <2> TAKE i \in DOMAIN topic[t]
  <2> HAVE consumer[t] = "commit" /\ i = offset[t] + 1
  <2>1. Settled(t, i)
    BY DEF AccountedInv
  <2> QED BY <1>1, <2>1, SettledStays
<1>5a. ASSUME NEW t \in Topics, consumer[t] = "commit", offset'[t] = offset[t]
      PROVE  Settled(t, offset[t] + 1)'
  <2>1. PICK i \in DOMAIN topic[t] : i = offset[t] + 1
    BY <1>4, <1>5a
  <2>2. Settled(t, i)' /\ i = offset'[t] + 1
    BY <1>5, <1>5a, <2>1
  <2> QED BY <2>2 DEF Settled, Pays, Ref
<1> DEFINE Ready(t) == consumer'[t] = "commit" => Settled(t, offset[t] + 1)'
<1>6. CASE offset' = offset /\ \A t \in Topics : Ready(t)
  BY <1>2, <1>3, <1>6 DEF AccountedInv, EventsAccounted, Settled
<1>7. ASSUME NEW t \in Topics, Handle(t)
      PROVE  offset' = offset /\ \A s \in Topics : Ready(s)
  <2>1. /\ offset' = offset /\ topic' = topic /\ Waiting(t)
        /\ \A s \in Topics : s # t => consumer'[s] = consumer[s]
    BY <1>7 DEF Handle, TypeOK
  <2>2. /\ Upcoming(t) = topic[t][offset[t] + 1] /\ Ref(Upcoming(t)) \in References
    BY <2>1, UpcomingEvent, EventFields
  <2>3. consumer'[t] = "commit" => ~Pays(Upcoming(t)) \/ paid'[Ref(Upcoming(t))] > 0
    BY <1>7, <2>2 DEF Handle, TypeOK
  <2>4. Ready(t)
    BY <2>1, <2>2, <2>3 DEF Settled, Pays
  <2> QED BY <1>5a, <2>1, <2>4
<1>8. ASSUME NEW t \in Topics, SendToDlq(t)
      PROVE  offset' = offset /\ \A s \in Topics : Ready(s)
  <2>1. /\ offset' = offset /\ topic' = topic
        /\ \A s \in Topics : s # t => consumer'[s] = consumer[s]
        /\ <<t, offset[t] + 1>> \in deadLetters' \/ Ref(Upcoming(t)) \in dropped'
    BY <1>8 DEF SendToDlq, TypeOK
  <2>2. Upcoming(t) = topic[t][offset[t] + 1]
    BY <1>4, <1>8 DEF SendToDlq
  <2>3. Settled(t, offset[t] + 1)'
    BY <2>1, <2>2 DEF Settled
  <2> QED BY <1>5a, <2>1, <2>3
<1>9. ASSUME NEW t \in Topics, CommitOffset(t)
      PROVE  AccountedInv'
  <2>1. /\ consumer[t] = "commit" /\ topic' = topic
        /\ offset' = [offset EXCEPT ![t] = offset[t] + 1]
        /\ consumer' = [consumer EXCEPT ![t] = "idle"]
    BY <1>9 DEF CommitOffset, NextOffset
  <2>2. \A s \in Topics : \A i \in 1..offset'[s] : Settled(s, i)'
    <3> TAKE s \in Topics
    <3>1. CASE s = t
      <4>1. offset'[t] = offset[t] + 1
        BY <2>1 DEF TypeOK
      <4>2. \A i \in 1..offset'[t] : i \in 1..offset[t] \/ i = offset[t] + 1
        BY <1>2, <4>1
      <4>3. offset[t] + 1 \in DOMAIN topic[t]
        BY <1>4, <2>1
      <4>4. \A i \in DOMAIN topic[t] : i = offset[t] + 1 => Settled(t, i)'
        BY <1>5, <2>1
      <4> QED BY <1>3, <3>1, <4>2, <4>3, <4>4
    <3>2. CASE s # t
      BY <1>3, <2>1, <3>2 DEF TypeOK
    <3> QED BY <3>1, <3>2
  <2>3. \A s \in Topics : consumer'[s] = "commit" => s # t /\ consumer[s] = "commit"
    BY <2>1 DEF TypeOK
  <2>4. \A s \in Topics : s # t => offset'[s] = offset[s]
    BY <2>1 DEF TypeOK
  <2>5. \A s \in Topics : consumer'[s] = "commit" => Settled(s, offset[s] + 1)'
    <3> TAKE s \in Topics
    <3> HAVE consumer'[s] = "commit"
    <3>1. consumer[s] = "commit" /\ offset'[s] = offset[s]
      BY <2>3, <2>4
    <3> QED BY <1>5a, <3>1
  <2> QED BY <1>2, <2>2, <2>5 DEF AccountedInv, EventsAccounted, Settled
<1>10. ASSUME NEW t \in Topics, Redeliver(t)
       PROVE  offset' = offset /\ \A s \in Topics : Ready(s)
  <2>1. offset' = offset /\ consumer' = [consumer EXCEPT ![t] = "idle"]
    BY <1>10 DEF Redeliver
  <2>2. \A s \in Topics : consumer'[s] = "commit" => consumer[s] = "commit"
    BY <2>1 DEF TypeOK
  <2> QED BY <1>5a, <2>1, <2>2
<1>11. ASSUME UNCHANGED <<offset, consumer>>
       PROVE  offset' = offset /\ \A s \in Topics : Ready(s)
  BY <1>5a, <1>11
<1>12. ASSUME NEW r \in Requests,
              \/ SimulateDeposit(r) \/ Confirm(r) \/ Whitelist(r)
              \/ RequestWithdrawal(r) \/ Review(r)
              \/ RequestStep(r) \/ Abandon(r)
       PROVE  UNCHANGED <<offset, consumer>>
  BY <1>12 DEF RequestStep, SimulateDeposit, Confirm, Whitelist, RequestWithdrawal, Review,
     SaveDeposit, SaveConfirmed, SaveWithdrawal, SaveReview, Produce, Abandon, kafka
<1>13. ASSUME Cool \/ ChangeStatus \/ UNCHANGED vars
       PROVE  UNCHANGED <<offset, consumer>>
  BY <1>13 DEF Cool, ChangeStatus, vars, kafka
<1> QED BY <1>6, <1>7, <1>8, <1>9, <1>10, <1>11, <1>12, <1>13 DEF Next, ConsumerStep

(* No consumer is ahead of its topic, and no event that asks for a payment *)
(* is passed over: once its offset is committed it has been paid, or it is *)
(* a dead letter, or its dead letter could not be written.                 *)
THEOREM NothingPassedOver == Spec => []EventsAccounted
<1>1. Init => TypeOK /\ RoomInv
  BY InitTypes
<1>2. Init => AccountedInv
  <2> SUFFICES ASSUME Init PROVE AccountedInv
    OBVIOUS
  <2>1. \A t \in Topics : offset[t] = 0 /\ consumer[t] = "idle" /\ topic[t] = << >>
    BY DEF Init
  <2>2. Len(<< >>) = 0
    OBVIOUS
  <2> QED BY <2>1, <2>2 DEF AccountedInv, EventsAccounted
<1>3. TypeOK /\ RoomInv /\ AccountedInv /\ [Next]_vars => (TypeOK /\ RoomInv /\ AccountedInv)'
  BY StepTypes, AccountedStep
<1>4. AccountedInv => EventsAccounted
  BY DEF AccountedInv
<1> QED BY <1>1, <1>2, <1>3, <1>4, PTL DEF Spec


-----------------------------------------------------------------------------
(* Every payment has its grounds *)

(* A request in this state is going to produce a paying event about k. *)
Asks(state, k) ==
  \/ /\ state.at = "saveConfirmed" /\ state.row.status = "Confirmed"
     /\ k = <<"deposits", state.id>>
  \/ /\ state.at = "saveReview" /\ state.row.status = "Confirmed"
     /\ k = <<"withdrawals", state.id>>
  \/ /\ state.at = "produce"
     /\ \E i \in DOMAIN state.events : Pays(state.events[i]) /\ Ref(state.events[i]) = k

Asking(k) == {r \in Requests : Asks(request[r], k)}

(* No request holds more than one paying event. *)
AsksOnce(state) ==
  state.at = "produce" =>
    \A i, j \in DOMAIN state.events :
      Pays(state.events[i]) /\ Pays(state.events[j]) => i = j

(* How far the consumer has got; its offset may not be committed yet. *)
Handled(t) == IF consumer[t] = "idle" THEN offset[t] ELSE offset[t] + 1

(* The place of its topic asks for a payment of k. *)
AsksAt(k, i) == Pays(topic[k[1]][i]) /\ Ref(topic[k[1]][i]) = k

Unhandled(k) == {i \in DOMAIN topic[k[1]] : i > Handled(k[1]) /\ AsksAt(k, i)}

(* What has been paid, and what can still be, is within the grounds and    *)
(* the copies.                                                             *)
Balanced(k) ==
  paid[k] + Cardinality(Asking(k)) + Cardinality(Unhandled(k)) <= grounds[k] + copies[k]

Grounded(k) ==
  \/ paid[k] > 0
  \/ \E r \in Requests : Asks(request[r], k)
  \/ \E i \in DOMAIN topic[k[1]] : AsksAt(k, i)
  => grounds[k] > 0

PaidInv ==
  /\ \A k \in References : Balanced(k) /\ Grounded(k)
  /\ \A r \in Requests : AsksOnce(request[r])
  /\ \A t \in Topics : \A i \in DOMAIN topic[t] : topic[t][i].topic = t

(* The numbers that a balance is made of. *)
LEMMA BalanceTypes ==
  ASSUME TypeOK, NEW k \in References
  PROVE  /\ k[1] \in Topics /\ paid[k] \in Nat /\ grounds[k] \in Nat /\ copies[k] \in Nat
         /\ Asking(k) \in SUBSET Requests /\ Cardinality(Asking(k)) \in Nat
         /\ topic[k[1]] \in Seq(KafkaEvent) /\ Len(topic[k[1]]) \in Nat
         /\ DOMAIN topic[k[1]] = 1..Len(topic[k[1]])
         /\ Unhandled(k) \in SUBSET (1..Len(topic[k[1]]))
         /\ Cardinality(Unhandled(k)) \in Nat
         /\ IsFiniteSet(1..Len(topic[k[1]]))
<1>1. k[1] \in Topics /\ paid[k] \in Nat /\ grounds[k] \in Nat /\ copies[k] \in Nat
  BY DEF References, TypeOK
<1>2. topic[k[1]] \in Seq(KafkaEvent)
  BY <1>1 DEF TypeOK
<1>3. Len(topic[k[1]]) \in Nat /\ DOMAIN topic[k[1]] = 1..Len(topic[k[1]])
  BY <1>2, LenProperties
<1>4. Asking(k) \in SUBSET Requests /\ Unhandled(k) \in SUBSET (1..Len(topic[k[1]]))
  BY <1>3 DEF Asking, Unhandled
<1>5. IsFiniteSet(1..Len(topic[k[1]]))
  BY <1>3, FS_Interval
<1> QED BY <1>1, <1>2, <1>3, <1>4, <1>5, SubsetCounts, FundsAssumption

(* How many requests ask for a payment of k after a step of one. *)
LEMMA AskingChanges ==
  ASSUME TypeOK, NEW r \in Requests, NEW k,
         \A q \in Requests : q # r => request'[q] = request[q]
  PROVE  /\ Cardinality(Asking(k)) \in Nat /\ Cardinality(Asking(k)') \in Nat
         /\ Cardinality(Asking(k)') <= Cardinality(Asking(k)) + 1
         /\ ~Asks(request'[r], k) \/ Asks(request[r], k) =>
              Cardinality(Asking(k)') <= Cardinality(Asking(k))
         /\ ~Asks(request'[r], k) /\ Asks(request[r], k) =>
              Cardinality(Asking(k)') <= Cardinality(Asking(k)) - 1
<1>1. IsFiniteSet(Requests) /\ Asking(k) \in SUBSET Requests /\ Asking(k)' \in SUBSET Requests
  BY FundsAssumption DEF Asking
<1>2. \A q \in Requests : (Asks(request[q], k))' <=> Asks(request'[q], k)
  BY DEF Asks, Pays, Ref
<1>3. \A q \in Asking(k)' : q # r => q \in Asking(k)
  BY <1>2 DEF Asking
<1>4. /\ r \in Asking(k) <=> Asks(request[r], k)
      /\ r \in Asking(k)' <=> Asks(request'[r], k)
  BY <1>2 DEF Asking
<1> QED BY <1>1, <1>3, <1>4, CountChanges

(* A step of a request that leaves the topics alone: it may ask for a      *)
(* payment that it did not ask for when it adds the grounds.               *)
LEMMA RequestKeepsPaid ==
  ASSUME TypeOK, TypeOK', PaidInv, NEW r \in Requests,
         \A q \in Requests : q # r => request'[q] = request[q],
         UNCHANGED <<topic, offset, consumer, paid, copies>>,
         AsksOnce(request'[r]),
         \A k \in References :
           /\ grounds'[k] >= grounds[k]
           /\ Asks(request'[r], k) =>
                Asks(request[r], k) \/ grounds'[k] = grounds[k] + 1
  PROVE  PaidInv'
<1>1. ASSUME NEW k \in References
      PROVE  Balanced(k)' /\ Grounded(k)'
  <2>1. /\ paid[k] \in Nat /\ grounds[k] \in Nat /\ grounds'[k] \in Nat /\ copies[k] \in Nat
        /\ Cardinality(Unhandled(k)) \in Nat
    BY BalanceTypes DEF TypeOK
  <2>2. Unhandled(k)' = Unhandled(k)
    BY DEF Unhandled, Handled, AsksAt, Pays, Ref
  <2>3. /\ Cardinality(Asking(k)) \in Nat /\ Cardinality(Asking(k)') \in Nat
        /\ \/ Cardinality(Asking(k)') <= Cardinality(Asking(k)) /\ grounds'[k] >= grounds[k]
           \/ /\ Cardinality(Asking(k)') <= Cardinality(Asking(k)) + 1
              /\ grounds'[k] = grounds[k] + 1
    BY AskingChanges
  <2>4. paid[k] + Cardinality(Asking(k)) + Cardinality(Unhandled(k)) <= grounds[k] + copies[k]
    BY DEF PaidInv, Balanced
  <2>5. paid[k] + Cardinality(Asking(k)') + Cardinality(Unhandled(k)) <= grounds'[k] + copies[k]
    BY <2>1, <2>3, <2>4
  <2>6. Balanced(k)'
    BY <2>2, <2>5 DEF Balanced
  <2>7. \A q \in Requests : Asks(request'[q], k) =>
          Asks(request[q], k) \/ grounds'[k] = grounds[k] + 1
    OBVIOUS
  <2>8. grounds[k] > 0 \/ grounds'[k] = grounds[k] + 1 => grounds'[k] > 0
    BY <2>1
  <2>9. Grounded(k)'
    BY <2>7, <2>8 DEF PaidInv, Grounded, AsksAt, Asks, Pays, Ref
  <2> QED BY <2>6, <2>9
<1>2. \A q \in Requests : AsksOnce(request'[q])
  BY DEF PaidInv
<1> QED BY <1>1, <1>2 DEF PaidInv, AsksOnce, Pays


LEMMA CountedGrows ==
  ASSUME TypeOK, NEW l \in References, grounds' = Counted(l)
  PROVE  /\ \A k \in References : grounds'[k] >= grounds[k]
         /\ grounds'[l] = grounds[l] + 1
<1>1. \A k \in References :
        grounds[k] \in Nat /\ grounds'[k] = IF k = l THEN grounds[k] + 1 ELSE grounds[k]
  BY DEF TypeOK, Counted
<1> QED BY <1>1

(* Requests that begin without a paying event in sight. *)
LEMMA QuietPaid ==
  ASSUME TypeOK, RoomInv, TypeOK', PaidInv, NEW r \in Requests,
         \/ SimulateDeposit(r) \/ RequestWithdrawal(r) \/ Whitelist(r) \/ Abandon(r)
  PROVE  PaidInv'
<1>1. /\ UNCHANGED <<topic, offset, consumer, paid, copies, grounds>>
      /\ \/ request' = request
         \/ \E state : /\ request' = [request EXCEPT ![r] = state]
                       /\ state.at \in {"idle", "saveDeposit", "saveWithdrawal"}
  <2>1. CASE SimulateDeposit(r)
    <3>1. PICK hash \in Hashes, amount \in DepositAmounts :
            request' = [request EXCEPT ![r] =
                [at |-> "saveDeposit", id |-> Len(deposits) + 1, events |-> << >>,
                 row |-> [hash |-> hash, amount |-> amount, confirmations |-> 0,
                          status |-> "Pending"]]]
      BY <2>1 DEF SimulateDeposit
    <3> DEFINE state ==
          [at |-> "saveDeposit", id |-> Len(deposits) + 1, events |-> << >>,
           row |-> [hash |-> hash, amount |-> amount, confirmations |-> 0,
                    status |-> "Pending"]]
    <3>2. request' = [request EXCEPT ![r] = state] /\ state.at = "saveDeposit"
      BY <3>1
    <3> HIDE DEF state
    <3> QED BY <2>1, <3>2 DEF SimulateDeposit, kafka, history
  <2>2. CASE RequestWithdrawal(r)
    <3>1. PICK amount \in WithdrawalAmounts :
            request' = [request EXCEPT ![r] =
                [at |-> "saveWithdrawal", id |-> 0, events |-> << >>,
                 row |-> [amount |-> amount,
                          status |-> IF ApprovalTier(amount) = "AUTO" THEN "Confirmed"
                                     ELSE "Pending"]]]
      BY <2>2 DEF RequestWithdrawal
    <3> DEFINE state ==
          [at |-> "saveWithdrawal", id |-> 0, events |-> << >>,
           row |-> [amount |-> amount,
                    status |-> IF ApprovalTier(amount) = "AUTO" THEN "Confirmed"
                               ELSE "Pending"]]
    <3>2. request' = [request EXCEPT ![r] = state] /\ state.at = "saveWithdrawal"
      BY <3>1
    <3> HIDE DEF state
    <3> QED BY <2>2, <3>2 DEF RequestWithdrawal, kafka, history
  <2>3. CASE Whitelist(r)
    BY <2>3 DEF Whitelist, kafka, history
  <2>4. CASE Abandon(r)
    <3>1. request' = [request EXCEPT ![r] = Idle] /\ Idle.at = "idle"
      BY <2>4 DEF Abandon, Idle
    <3> QED BY <2>4, <3>1 DEF Abandon, kafka
  <2> QED BY <2>1, <2>2, <2>3, <2>4
<1>2. /\ \A q \in Requests : q # r => request'[q] = request[q]
      /\ \A k : Asks(request'[r], k) => Asks(request[r], k)
      /\ AsksOnce(request'[r])
  <2>1. CASE request' = request
    BY <2>1 DEF PaidInv
  <2>2. ASSUME NEW state, request' = [request EXCEPT ![r] = state],
               state.at \in {"idle", "saveDeposit", "saveWithdrawal"}
        PROVE  /\ \A q \in Requests : q # r => request'[q] = request[q]
               /\ \A k : Asks(request'[r], k) => Asks(request[r], k)
               /\ AsksOnce(request'[r])
    <3>1. request'[r] = state /\ \A q \in Requests : q # r => request'[q] = request[q]
      BY <2>2, OneMoves
    <3> QED BY <2>2, <3>1 DEF Asks, AsksOnce
  <2> QED BY <1>1, <2>1, <2>2
<1>3. \A k \in References : grounds'[k] >= grounds[k]
  BY <1>1 DEF TypeOK
<1> QED BY <1>1, <1>2, <1>3, RequestKeepsPaid

LEMMA ConfirmPaid ==
  ASSUME TypeOK, RoomInv, TypeOK', PaidInv, NEW r \in Requests, Confirm(r)
  PROVE  PaidInv'
<1>1. PICK d \in DOMAIN deposits, n \in {RequiredConfirmations - 1, RequiredConfirmations} :
        /\ request' = [request EXCEPT ![r] =
             [at |-> "saveConfirmed", id |-> d, row |-> Confirmed(deposits[d], n),
              events |-> << >>]]
        /\ grounds' = IF n >= RequiredConfirmations \/ deposits[d].status = "Confirmed"
                      THEN Counted(<<"deposits", d>>) ELSE grounds
  BY DEF Confirm
<1>2. deposits[d] \in DepositEntity
  BY ElementOfSeq, LenProperties DEF TypeOK
<1>3. Confirmed(deposits[d], n).status = "Confirmed" =>
        grounds' = Counted(<<"deposits", d>>)
  BY <1>1, <1>2 DEF Confirmed, DepositEntity
<1>4. <<"deposits", d>> \in References
  BY RoomLeft DEF References, Topics
<1>5. /\ request'[r].at = "saveConfirmed" /\ request'[r].id = d
      /\ request'[r].row = Confirmed(deposits[d], n)
      /\ \A q \in Requests : q # r => request'[q] = request[q]
  <2> DEFINE state == [at |-> "saveConfirmed", id |-> d,
                       row |-> Confirmed(deposits[d], n), events |-> << >>]
  <2>1. /\ state.at = "saveConfirmed" /\ state.id = d
        /\ state.row = Confirmed(deposits[d], n)
        /\ request' = [request EXCEPT ![r] = state]
    BY <1>1
  <2> HIDE DEF state
  <2> QED BY <2>1, OneMoves
<1>6. AsksOnce(request'[r])
  BY <1>5 DEF AsksOnce
<1>7. \A k \in References :
        /\ grounds'[k] >= grounds[k]
        /\ Asks(request'[r], k) => grounds'[k] = grounds[k] + 1
  <2>1. CASE grounds' = grounds /\ Confirmed(deposits[d], n).status # "Confirmed"
    BY <1>5, <2>1 DEF TypeOK, Asks
  <2>2. CASE grounds' = Counted(<<"deposits", d>>)
    BY <1>4, <1>5, <2>2, CountedGrows DEF Asks
  <2> QED BY <1>1, <1>3, <2>1, <2>2
<1> QED BY <1>5, <1>6, <1>7, RequestKeepsPaid DEF Confirm, kafka

LEMMA ReviewPaid ==
  ASSUME TypeOK, RoomInv, TypeOK', PaidInv, NEW r \in Requests, Review(r)
  PROVE  PaidInv'
<1>1. PICK w \in DOMAIN withdrawals, status \in {"Confirmed", "Failed"} :
        /\ request' = [request EXCEPT ![r] =
             [at |-> "saveReview", id |-> w, events |-> << >>,
              row |-> [withdrawals[w] EXCEPT !.status = status]]]
        /\ grounds' = IF status = "Confirmed" THEN Counted(<<"withdrawals", w>>) ELSE grounds
  BY DEF Review
<1>2. withdrawals[w] \in WithdrawalEntity
  BY ElementOfSeq, LenProperties DEF TypeOK
<1>3. [withdrawals[w] EXCEPT !.status = status].status = status
  BY <1>2 DEF WithdrawalEntity
<1>4. <<"withdrawals", w>> \in References
  BY RoomLeft DEF References, Topics
<1>5. /\ request'[r].at = "saveReview" /\ request'[r].id = w
      /\ request'[r].row.status = status
      /\ \A q \in Requests : q # r => request'[q] = request[q]
  <2> DEFINE row == [withdrawals[w] EXCEPT !.status = status]
             state == [at |-> "saveReview", id |-> w, events |-> << >>, row |-> row]
  <2>1. row.status = status
    BY <1>3
  <2>2. request' = [request EXCEPT ![r] = state]
    BY <1>1
  <2> HIDE DEF row
  <2>3. state.at = "saveReview" /\ state.id = w /\ state.row = row
    OBVIOUS
  <2> HIDE DEF state
  <2> QED BY <2>1, <2>2, <2>3, OneMoves
<1>6. AsksOnce(request'[r])
  BY <1>5 DEF AsksOnce
<1>7. \A k \in References :
        /\ grounds'[k] >= grounds[k]
        /\ Asks(request'[r], k) => grounds'[k] = grounds[k] + 1
  <2>1. CASE grounds' = grounds /\ status # "Confirmed"
    BY <1>5, <2>1 DEF TypeOK, Asks
  <2>2. CASE grounds' = Counted(<<"withdrawals", w>>)
    BY <1>4, <1>5, <2>2, CountedGrows DEF Asks
  <2> QED BY <1>1, <2>1, <2>2
<1> QED BY <1>5, <1>6, <1>7, RequestKeepsPaid DEF Review, kafka

(* What one event asks for. *)
LEMMA OneEvent ==
  ASSUME NEW r \in Requests, NEW e, NEW k
  PROVE  /\ Asks(Producing(r, <<e>>), k) <=> Pays(e) /\ Ref(e) = k
         /\ AsksOnce(Producing(r, <<e>>))
<1>1. /\ Producing(r, <<e>>).at = "produce" /\ Producing(r, <<e>>).events = <<e>>
      /\ DOMAIN <<e>> = {1} /\ <<e>>[1] = e
  BY DEF Producing
<1> QED BY <1>1 DEF Asks, AsksOnce

LEMMA SaveDepositPaid ==
  ASSUME TypeOK, RoomInv, TypeOK', PaidInv, NEW r \in Requests, SaveDeposit(r)
  PROVE  PaidInv'
<1> DEFINE e == Event("deposits", "DepositDetected", Len(deposits'), request[r].row)
<1>1. /\ request[r].at = "saveDeposit"
      /\ UNCHANGED <<topic, offset, consumer, paid, copies, grounds>>
  BY DEF SaveDeposit, kafka, history
<1>2. request' = [request EXCEPT ![r] = Producing(r, <<e>>)]
  BY <1>1, SaveMoves DEF SaveDeposit
<1>3. ~Pays(e)
  BY DEF Pays, Event
<1> HIDE DEF e
<1>4. /\ \A k : ~Asks(request'[r], k)
      /\ AsksOnce(request'[r])
      /\ \A q \in Requests : q # r => request'[q] = request[q]
  BY <1>2, <1>3, OneMoves, OneEvent
<1>5. \A k \in References : grounds'[k] >= grounds[k]
  BY <1>1 DEF TypeOK
<1> QED BY <1>1, <1>4, <1>5, RequestKeepsPaid

LEMMA SaveConfirmedPaid ==
  ASSUME TypeOK, RoomInv, TypeOK', PaidInv, NEW r \in Requests, SaveConfirmed(r)
  PROVE  PaidInv'
<1> DEFINE row == request[r].row
           type == IF row.status = "Confirmed" THEN "DepositConfirmed" ELSE "DepositDetected"
           e == Event("deposits", type, request[r].id, row)
<1>1. /\ request[r].at = "saveConfirmed"
      /\ UNCHANGED <<topic, offset, consumer, paid, copies, grounds>>
  BY DEF SaveConfirmed, kafka, history
<1>2. request' = [request EXCEPT ![r] = Producing(r, <<e>>)]
  BY <1>1, SaveMoves DEF SaveConfirmed
<1>3. Pays(e) => row.status = "Confirmed" /\ Ref(e) = <<"deposits", request[r].id>>
  BY DEF Pays, Event, Ref
<1>4. \A k : Pays(e) /\ Ref(e) = k => Asks(request[r], k)
  BY <1>1, <1>3 DEF Asks
<1> HIDE DEF e
<1>5. /\ \A k : Asks(request'[r], k) => Asks(request[r], k)
      /\ AsksOnce(request'[r])
      /\ \A q \in Requests : q # r => request'[q] = request[q]
  <2>1. request'[r] = Producing(r, <<e>>)
    BY <1>2, OneMoves
  <2>2. \A q \in Requests : q # r => request'[q] = request[q]
    BY <1>2, OneMoves
  <2>3. \A k : Asks(Producing(r, <<e>>), k) => Pays(e) /\ Ref(e) = k
    BY OneEvent
  <2>4. AsksOnce(Producing(r, <<e>>))
    BY OneEvent
  <2> QED BY <1>4, <2>1, <2>2, <2>3, <2>4
<1>6. \A k \in References : grounds'[k] >= grounds[k]
  BY <1>1 DEF TypeOK
<1> QED BY <1>1, <1>5, <1>6, RequestKeepsPaid


LEMMA SaveReviewPaid ==
  ASSUME TypeOK, RoomInv, TypeOK', PaidInv, NEW r \in Requests, SaveReview(r)
  PROVE  PaidInv'
<1> DEFINE row == request[r].row
           e == Event("withdrawals", "WithdrawalApproved", request[r].id, row)
<1>1. /\ request[r].at = "saveReview"
      /\ UNCHANGED <<topic, offset, consumer, paid, copies, grounds>>
  BY DEF SaveReview, kafka, history
<1>2. \/ request' = [request EXCEPT ![r] = Producing(r, <<e>>)]
      \/ request' = [request EXCEPT ![r] = Idle]
  BY <1>1, ExceptProducing DEF SaveReview
<1>3. Pays(e) => row.status = "Confirmed" /\ Ref(e) = <<"withdrawals", request[r].id>>
  BY DEF Pays, Event, Ref
<1>4. \A k : Pays(e) /\ Ref(e) = k => Asks(request[r], k)
  BY <1>1, <1>3 DEF Asks
<1> HIDE DEF e
<1>5. /\ \A k : Asks(request'[r], k) => Asks(request[r], k)
      /\ AsksOnce(request'[r])
      /\ \A q \in Requests : q # r => request'[q] = request[q]
  <2>1. CASE request' = [request EXCEPT ![r] = Producing(r, <<e>>)]
    <3>1. /\ request'[r] = Producing(r, <<e>>)
          /\ \A q \in Requests : q # r => request'[q] = request[q]
      BY <2>1, OneMoves
    <3>2. \A k : Asks(Producing(r, <<e>>), k) => Pays(e) /\ Ref(e) = k
      BY OneEvent
    <3>3. AsksOnce(Producing(r, <<e>>))
      BY OneEvent
    <3> QED BY <1>4, <3>1, <3>2, <3>3
  <2>2. CASE request' = [request EXCEPT ![r] = Idle]
    <3>1. request'[r] = Idle /\ \A q \in Requests : q # r => request'[q] = request[q]
      BY <2>2, OneMoves
    <3> QED BY <3>1 DEF Idle, Asks, AsksOnce
  <2> QED BY <1>2, <2>1, <2>2
<1>6. \A k \in References : grounds'[k] >= grounds[k]
  BY <1>1 DEF TypeOK
<1> QED BY <1>1, <1>5, <1>6, RequestKeepsPaid

LEMMA SaveWithdrawalPaid ==
  ASSUME TypeOK, RoomInv, TypeOK', PaidInv, NEW r \in Requests, SaveWithdrawal(r)
  PROVE  PaidInv'
<1> DEFINE row == request[r].row
           w == Len(withdrawals')
           asked == Event("withdrawals", "WithdrawalRequested", w, row)
           approved == Event("withdrawals", "WithdrawalApproved", w, row)
           events == IF row.status = "Confirmed" THEN <<asked, approved>> ELSE <<asked>>
           state == Producing(r, events)
<1>1. /\ request[r].at = "saveWithdrawal" /\ row \in WithdrawalEntity
      /\ withdrawals' = Append(withdrawals, row)
      /\ UNCHANGED <<topic, offset, consumer, paid, copies>>
      /\ grounds' = IF row.status = "Confirmed" THEN Counted(<<"withdrawals", w>>)
                    ELSE grounds
  BY HeldRow DEF SaveWithdrawal, kafka
<1>2. <<"withdrawals", w>> \in References
  <2>1. w = Len(withdrawals) + 1
    BY <1>1, AppendProperties DEF TypeOK
  <2> QED BY <1>1, <2>1, RoomLeft DEF Topics, References
<1>3. request' = [request EXCEPT ![r] = state]
  BY <1>1, SaveMoves DEF SaveWithdrawal
<1>4. ~Pays(asked)
  BY DEF Pays, Event
<1>5. Pays(approved) => row.status = "Confirmed"
  BY DEF Pays, Event
<1>6. Ref(approved) = <<"withdrawals", w>>
  BY DEF Event, Ref
<1>7. state.at = "produce" /\ state.events = events
  BY DEF Producing
<1> HIDE DEF state, asked, approved
<1>8. \A i \in DOMAIN events : Pays(events[i]) =>
        row.status = "Confirmed" /\ i = 2 /\ events[i] = approved
  BY <1>4
<1> HIDE DEF events
<1>9. /\ \A k : Asks(state, k) => row.status = "Confirmed" /\ k = <<"withdrawals", w>>
      /\ AsksOnce(state)
  BY <1>6, <1>7, <1>8 DEF Asks, AsksOnce
<1>10. request'[r] = state /\ \A q \in Requests : q # r => request'[q] = request[q]
  BY <1>3, OneMoves
<1>11. \A k \in References :
         /\ grounds'[k] >= grounds[k]
         /\ Asks(request'[r], k) => grounds'[k] = grounds[k] + 1
  <2>1. CASE grounds' = grounds /\ row.status # "Confirmed"
    BY <1>9, <1>10, <2>1 DEF TypeOK
  <2>2. CASE grounds' = Counted(<<"withdrawals", w>>)
    <3>1. /\ \A k \in References : grounds'[k] >= grounds[k]
          /\ grounds'[<<"withdrawals", w>>] = grounds[<<"withdrawals", w>>] + 1
      BY <1>2, <2>2, CountedGrows
    <3> QED BY <1>9, <1>10, <3>1
  <2> QED BY <1>1, <2>1, <2>2
<1> QED BY <1>1, <1>9, <1>10, <1>11, RequestKeepsPaid

(* What becomes of the paying events that a request holds. *)
LEMMA ProduceAsks ==
  ASSUME TypeOK, PaidInv, NEW r \in Requests, Produce(r)
  PROVE  LET e == Head(request[r].events)
         IN /\ \A q \in Requests : q # r => request'[q] = request[q]
            /\ \A k : Asks(request'[r], k) => Asks(request[r], k)
            /\ Pays(e) => Asks(request[r], Ref(e))
            /\ AsksOnce(request'[r])
            /\ \/ /\ copies' = copies
                  /\ Pays(e) => ~Asks(request'[r], Ref(e))
               \/ copies' = IF Pays(e) THEN [copies EXCEPT ![Ref(e)] = copies[Ref(e)] + 1]
                            ELSE copies
<1> DEFINE events == request[r].events
           e == Head(events)
<1>1. /\ events \in Seq(KafkaEvent) /\ events # << >> /\ request[r].at = "produce"
      /\ \/ /\ \/ Len(events) = 1 /\ request' = [request EXCEPT ![r] = Idle]
               \/ /\ Len(events) # 1 /\ Tail(events) \in Seq(KafkaEvent) \ {<< >>}
                  /\ request' = [request EXCEPT ![r] = Producing(r, Tail(events))]
            /\ copies' = copies
         \/ /\ copies' = IF Pays(e) THEN [copies EXCEPT ![Ref(e)] = copies[Ref(e)] + 1]
                         ELSE copies
            /\ request' = request
  BY ProduceMoves DEF Produce
<1>2. AsksOnce(request[r]) /\ request[r].events = events
  BY DEF PaidInv
<1>3. /\ Len(events) \in Nat /\ DOMAIN events = 1..Len(events) /\ 1 \in DOMAIN events
      /\ Head(events) = events[1]
      /\ DOMAIN Tail(events) = 1..(Len(events) - 1)
      /\ \A i \in 1..(Len(events) - 1) : Tail(events)[i] = events[i + 1]
  <2> HIDE DEF events
  <2>1. Len(events) \in Nat /\ DOMAIN events = 1..Len(events) /\ Len(events) # 0
    BY <1>1, LenProperties, EmptySeq
  <2>2. /\ Head(events) = events[1] /\ Tail(events) \in Seq(KafkaEvent)
        /\ Len(Tail(events)) = Len(events) - 1
        /\ \A i \in 1..Len(Tail(events)) : Tail(events)[i] = events[i + 1]
    BY <1>1, HeadTailProperties
  <2>3. DOMAIN Tail(events) = 1..(Len(events) - 1)
    BY <2>2, LenProperties
  <2> QED BY <2>1, <2>2, <2>3
<1> HIDE DEF events, e
<1>4. Pays(e) => Asks(request[r], Ref(e))
  BY <1>1, <1>2, <1>3 DEF Asks, e
<1>5. CASE request' = [request EXCEPT ![r] = Idle] /\ copies' = copies
  <2>1. request'[r] = Idle /\ \A q \in Requests : q # r => request'[q] = request[q]
    BY <1>5, OneMoves
  <2> QED BY <1>4, <1>5, <2>1 DEF Idle, Asks, AsksOnce, e, events
<1>6. CASE /\ Len(events) # 1 /\ Tail(events) \in Seq(KafkaEvent) \ {<< >>}
           /\ request' = [request EXCEPT ![r] = Producing(r, Tail(events))]
           /\ copies' = copies
  <2> DEFINE state == Producing(r, Tail(events))
  <2>1. request'[r] = state /\ \A q \in Requests : q # r => request'[q] = request[q]
    BY <1>6, OneMoves
  <2>2. state.at = "produce" /\ state.events = Tail(events)
    BY DEF Producing
  <2> HIDE DEF state
  <2>3. \A i \in DOMAIN state.events :
          /\ i + 1 \in DOMAIN events /\ state.events[i] = events[i + 1]
          /\ i + 1 # 1 /\ i \in Int
    BY <1>3, <2>2
  <2>4. \A k : Asks(state, k) => Asks(request[r], k)
    BY <1>1, <1>2, <2>2, <2>3 DEF Asks
  <2>5. \A i, j \in DOMAIN events : Pays(events[i]) /\ Pays(events[j]) => i = j
    BY <1>1, <1>2 DEF AsksOnce
  <2>6. AsksOnce(state)
    <3>1. ASSUME NEW i \in DOMAIN state.events, NEW j \in DOMAIN state.events,
                 Pays(state.events[i]), Pays(state.events[j])
          PROVE  i = j
      <4>1. i + 1 = j + 1
        BY <2>3, <2>5, <3>1
      <4> QED BY <2>3, <4>1
    <3> QED BY <3>1 DEF AsksOnce
  <2>7. Pays(e) => \A k : ~Asks(state, k)
    <3>1. Pays(e) => \A i \in DOMAIN state.events : ~Pays(state.events[i])
      BY <1>3, <2>3, <2>5 DEF e
    <3> QED BY <2>2, <3>1 DEF Asks
  <2> QED BY <1>4, <1>6, <2>1, <2>4, <2>6, <2>7 DEF e, events
<1>7. CASE /\ copies' = IF Pays(e) THEN [copies EXCEPT ![Ref(e)] = copies[Ref(e)] + 1]
                        ELSE copies
           /\ request' = request
  BY <1>2, <1>4, <1>7 DEF e, events
<1> QED BY <1>1, <1>5, <1>6, <1>7


LEMMA ProducePaid ==
  ASSUME TypeOK, RoomInv, TypeOK', PaidInv, NEW r \in Requests, Produce(r)
  PROVE  PaidInv'
<1> DEFINE e == Head(request[r].events)
<1>1. /\ e \in KafkaEvent
      /\ topic' = [topic EXCEPT ![e.topic] = Append(topic[e.topic], e)]
  BY ProduceMoves
<1>2. /\ \A q \in Requests : q # r => request'[q] = request[q]
      /\ \A k : Asks(request'[r], k) => Asks(request[r], k)
      /\ Pays(e) => Asks(request[r], Ref(e))
      /\ AsksOnce(request'[r])
      /\ \/ /\ copies' = copies
            /\ Pays(e) => ~Asks(request'[r], Ref(e))
         \/ copies' = IF Pays(e) THEN [copies EXCEPT ![Ref(e)] = copies[Ref(e)] + 1]
                      ELSE copies
  BY ProduceAsks
<1>3. UNCHANGED <<offset, consumer, paid, grounds>>
  BY DEF Produce
<1> HIDE DEF e
<1>4. /\ e.topic \in Topics /\ Ref(e) \in References /\ Ref(e)[1] = e.topic
  BY <1>1, EventFields
<1> DEFINE last == Len(topic[e.topic]) + 1
<1>5. /\ \A t \in Topics : /\ Len(topic[t]) \in Nat /\ Len(topic[t]) <= Len(topic'[t])
                           /\ DOMAIN topic[t] = 1..Len(topic[t])
                           /\ DOMAIN topic'[t] = 1..Len(topic'[t])
                           /\ \A i \in DOMAIN topic[t] : topic'[t][i] = topic[t][i]
                           /\ t # e.topic => topic'[t] = topic[t]
      /\ Len(topic'[e.topic]) = last /\ topic'[e.topic][last] = e
  BY <1>1, TopicGrows
<1>6. \A k \in References : k[1] \in Topics
  BY BalanceTypes
<1>7. ASSUME NEW k \in References, NEW i \in DOMAIN topic'[k[1]], AsksAt(k, i)'
      PROVE  \/ i \in DOMAIN topic[k[1]] /\ AsksAt(k, i)
             \/ i = last /\ k[1] = e.topic /\ Pays(e) /\ Ref(e) = k
  <2>1. Pays(topic'[k[1]][i]) /\ Ref(topic'[k[1]][i]) = k
    BY <1>7 DEF AsksAt, Pays, Ref
  <2>2. CASE i \in DOMAIN topic[k[1]]
    BY <1>5, <1>6, <2>1, <2>2 DEF AsksAt
  <2>3. CASE i \notin DOMAIN topic[k[1]]
    <3>1. k[1] = e.topic /\ i = last
      BY <1>5, <1>6, <1>7, <2>3
    <3> QED BY <1>5, <2>1, <3>1
  <2> QED BY <2>2, <2>3
<1>8. ASSUME NEW k \in References
      PROVE  Grounded(k)'
  <2>1. \A q \in Requests : Asks(request'[q], k) => Asks(request[q], k)
    BY <1>2
  <2>2. (\E i \in DOMAIN topic'[k[1]] : AsksAt(k, i)') =>
          (\E i \in DOMAIN topic[k[1]] : AsksAt(k, i)) \/ Asks(request[r], k)
    BY <1>2, <1>7
  <2>3. Grounded(k)
    BY DEF PaidInv
  <2> QED BY <1>3, <2>1, <2>2, <2>3 DEF Grounded, AsksAt, Asks, Pays, Ref
<1>9. ASSUME NEW k \in References
      PROVE  Balanced(k)'
  <2> DEFINE one == Pays(e) /\ Ref(e) = k
             a == Cardinality(Asking(k))
             u == Cardinality(Unhandled(k))
  <2>1. /\ k[1] \in Topics /\ paid[k] \in Nat /\ grounds[k] \in Nat /\ copies[k] \in Nat
        /\ a \in Nat /\ u \in Nat
        /\ paid[k] + a + u <= grounds[k] + copies[k]
    BY BalanceTypes DEF PaidInv, Balanced
  <2>2. /\ a' \in Nat /\ a' <= a
        /\ one /\ ~Asks(request'[r], k) => a' <= a - 1
    <3>1. ~Asks(request'[r], k) \/ Asks(request[r], k)
      BY <1>2
    <3> HIDE DEF e
    <3>2. /\ Cardinality(Asking(k)) \in Nat /\ Cardinality(Asking(k)') \in Nat
          /\ Cardinality(Asking(k)') <= Cardinality(Asking(k))
          /\ ~Asks(request'[r], k) /\ Asks(request[r], k) =>
               Cardinality(Asking(k)') <= Cardinality(Asking(k)) - 1
      BY <1>2, <3>1, AskingChanges
    <3> QED BY <1>2, <3>2
  <2>3. /\ u' \in Nat /\ u' <= u + 1
        /\ ~one => u' <= u
    <3> DEFINE R == 1..Len(topic'[k[1]])
               S == Unhandled(k)
               T == Unhandled(k)'
    <3>1. IsFiniteSet(R) /\ S \in SUBSET R /\ T \in SUBSET R
      <4>1. Len(topic[k[1]]) \in Nat /\ Len(topic'[k[1]]) \in Nat
        <5>1. topic'[k[1]] \in Seq(KafkaEvent)
          BY <2>1 DEF TypeOK
        <5> QED BY <1>5, <2>1, <5>1, LenProperties
      <4>2. IsFiniteSet(R)
        BY <4>1, FS_Interval
      <4>3. T = {i \in DOMAIN topic'[k[1]] : i > Handled(k[1])' /\ AsksAt(k, i)'}
        BY DEF Unhandled
      <4>4. T \subseteq DOMAIN topic'[k[1]] /\ S \subseteq DOMAIN topic[k[1]]
        BY <4>3 DEF Unhandled
      <4>5. DOMAIN topic'[k[1]] = R /\ DOMAIN topic[k[1]] \subseteq R
        BY <1>5, <2>1, <4>1
      <4> QED BY <4>2, <4>4, <4>5
    <3>2. \A i \in T : i \in DOMAIN topic'[k[1]] /\ i > Handled(k[1]) /\ AsksAt(k, i)'
      BY <1>3 DEF Unhandled, Handled
    <3>3. \A i \in T : i # last => i \in S
      BY <1>7, <3>2 DEF Unhandled
    <3>4. ~one => last \notin T \/ last \in S
      BY <1>7, <3>2 DEF Unhandled
    <3> HIDE DEF R, S, T, last
    <3>5. /\ Cardinality(S) \in Nat /\ Cardinality(T) \in Nat
          /\ Cardinality(T) <= Cardinality(S) + 1
          /\ last \notin T \/ last \in S => Cardinality(T) <= Cardinality(S)
      BY <3>1, <3>3, CountChanges
    <3> QED BY <3>4, <3>5 DEF S, T
  <2>4. \/ copies'[k] = copies[k] /\ (one => ~Asks(request'[r], k))
        \/ copies'[k] = IF one THEN copies[k] + 1 ELSE copies[k]
    BY <1>2, <1>4 DEF TypeOK
  <2> HIDE DEF one, a, u
  <2>5. paid[k] + a' + u' <= grounds[k] + copies'[k]
    BY <2>1, <2>2, <2>3, <2>4
  <2> QED BY <1>3, <2>5 DEF Balanced, a, u
<1>10. \A q \in Requests : AsksOnce(request'[q])
  BY <1>2 DEF PaidInv
<1>11. ASSUME NEW t \in Topics, NEW i \in DOMAIN topic'[t]
       PROVE  topic'[t][i].topic = t
  <2>1. CASE i \in DOMAIN topic[t]
    BY <1>5, <2>1 DEF PaidInv
  <2>2. CASE i \notin DOMAIN topic[t]
    <3>1. t = e.topic /\ i = last
      BY <1>5, <1>11, <2>2
    <3> QED BY <1>5, <3>1
  <2> QED BY <2>1, <2>2
<1> QED BY <1>8, <1>9, <1>10, <1>11 DEF PaidInv, AsksOnce, Pays


(* A step of a consumer: what it pays was waiting to be paid, and what is  *)
(* waiting once more is a copy.                                            *)
LEMMA ConsumerKeepsPaid ==
  ASSUME TypeOK, TypeOK', PaidInv, UNCHANGED <<request, topic, grounds>>,
         \A k \in References :
           /\ paid'[k] + Cardinality(Unhandled(k)') + copies[k]
                <= paid[k] + Cardinality(Unhandled(k)) + copies'[k]
           /\ paid'[k] > 0 => paid[k] > 0 \/ \E i \in DOMAIN topic[k[1]] : AsksAt(k, i)
  PROVE  PaidInv'
<1>1. ASSUME NEW k \in References
      PROVE  Balanced(k)' /\ Grounded(k)'
  <2>1. /\ paid[k] \in Nat /\ grounds[k] \in Nat /\ copies[k] \in Nat
        /\ Cardinality(Asking(k)) \in Nat /\ Cardinality(Unhandled(k)) \in Nat
    BY BalanceTypes
  <2>2. paid'[k] \in Nat /\ copies'[k] \in Nat
    BY DEF TypeOK
  <2>3. Cardinality(Unhandled(k)') \in Nat
    <3>1. Unhandled(k)' \in SUBSET (1..Len(topic[k[1]])) /\ IsFiniteSet(1..Len(topic[k[1]]))
      BY BalanceTypes DEF Unhandled
    <3> QED BY <3>1, SubsetCounts
  <2>4. Asking(k)' = Asking(k)
    BY DEF Asking, Asks, Pays, Ref
  <2> DEFINE u == Cardinality(Unhandled(k))
             v == Cardinality(Unhandled(k)')
             a == Cardinality(Asking(k))
  <2>5. paid[k] + a + u <= grounds[k] + copies[k]
    BY DEF PaidInv, Balanced
  <2>6. paid'[k] + v + copies[k] <= paid[k] + u + copies'[k]
    OBVIOUS
  <2>7. a \in Nat /\ u \in Nat /\ v \in Nat
    BY <2>1, <2>3
  <2> HIDE DEF a, u, v
  <2>8. paid'[k] + a + v <= grounds[k] + copies'[k]
    BY <2>1, <2>2, <2>5, <2>6, <2>7
  <2>9. Balanced(k)'
    BY <2>4, <2>8 DEF Balanced, a, v
  <2>10. Grounded(k)'
    <3>1. Grounded(k)
      BY DEF PaidInv
    <3> QED BY <3>1 DEF Grounded, AsksAt, Asks, Pays, Ref
  <2> QED BY <2>9, <2>10
<1> QED BY <1>1 DEF PaidInv, AsksOnce, Pays

(* The payment that an event asks for is waiting while no consumer has     *)
(* handled the event, and no longer.                                       *)
LEMMA UnhandledChanges ==
  ASSUME TypeOK, TypeOK', PaidInv, NEW t \in Topics, Waiting(t),
         UNCHANGED <<topic, offset>>,
         \A s \in Topics : s # t => consumer'[s] = consumer[s],
         NEW k \in References
  PROVE  LET one == Pays(Upcoming(t)) /\ Ref(Upcoming(t)) = k
             u   == Cardinality(Unhandled(k))
             v   == Cardinality(Unhandled(k)')
         IN /\ u \in Nat /\ v \in Nat
            /\ v <= IF one THEN u + 1 ELSE u
            /\ (consumer[t] = "idle" <=> consumer'[t] = "idle") => v = u
            /\ consumer[t] = "idle" /\ consumer'[t] # "idle" => v <= IF one THEN u - 1 ELSE u
            /\ one => \E i \in DOMAIN topic[k[1]] : AsksAt(k, i)
<1> DEFINE e == Upcoming(t)
           n == offset[t] + 1
           one == Pays(e) /\ Ref(e) = k
           R == 1..Len(topic[k[1]])
           S == Unhandled(k)
           T == Unhandled(k)'
<1>1. /\ e \in KafkaEvent /\ n \in DOMAIN topic[t] /\ e = topic[t][n]
  BY UpcomingEvent
<1>2. e.topic = t /\ Ref(e)[1] = t
  BY <1>1, EventFields DEF PaidInv
<1>3. /\ IsFiniteSet(R) /\ S \in SUBSET R /\ T \in SUBSET R /\ k[1] \in Topics
      /\ DOMAIN topic[k[1]] = R
  BY BalanceTypes DEF Unhandled
<1>4. \A i : /\ i \in S <=> i \in R /\ i > Handled(k[1]) /\ AsksAt(k, i)
             /\ i \in T <=> i \in R /\ i > Handled(k[1])' /\ AsksAt(k, i)
  <2>1. \A i : AsksAt(k, i)' <=> AsksAt(k, i)
    BY DEF AsksAt, Pays, Ref
  <2>2. T = {i \in DOMAIN topic[k[1]] : i > Handled(k[1])' /\ AsksAt(k, i)'}
    BY DEF Unhandled
  <2>3. S = {i \in DOMAIN topic[k[1]] : i > Handled(k[1]) /\ AsksAt(k, i)}
    BY DEF Unhandled
  <2> QED BY <1>3, <2>1, <2>2, <2>3
<1>5. /\ Handled(k[1]) = IF consumer[k[1]] = "idle" THEN offset[k[1]] ELSE offset[k[1]] + 1
      /\ Handled(k[1])' = IF consumer'[k[1]] = "idle" THEN offset[k[1]] ELSE offset[k[1]] + 1
      /\ offset[k[1]] \in Nat
  BY <1>3 DEF Handled, TypeOK
<1>6. one => k[1] = t /\ n \in R /\ AsksAt(k, n)
  BY <1>1, <1>2, <1>3 DEF AsksAt
<1>7. k[1] = t /\ AsksAt(k, n) => one
  BY <1>1 DEF AsksAt
<1> HIDE DEF e, one, R, S, T
<1>8. \A i \in T : i # n => i \in S
  <2>1. CASE k[1] = t
    <3>1. R \subseteq Nat
      BY <1>3 DEF R
    <3>2. \A i \in Nat : i > offset[t] /\ i # n => i > n
      BY <1>5, <2>1
    <3>3. \A i \in T : i \in Nat /\ i > offset[t]
      <4>1. Handled(k[1])' \in Nat /\ Handled(k[1])' >= offset[t] /\ offset[t] \in Nat
        BY <1>5, <2>1
      <4>2. \A i \in T : i \in Nat /\ i > Handled(k[1])'
        BY <1>4, <3>1
      <4> QED BY <4>1, <4>2
    <3>4. \A i \in Nat : i > n => i > Handled(k[1])
      BY <1>5, <2>1
    <3> QED BY <1>4, <3>2, <3>3, <3>4
  <2>2. CASE k[1] # t
    BY <1>3, <1>4, <1>5, <2>2
  <2> QED BY <2>1, <2>2
<1>9. n \in T /\ n \notin S => one
  <2>1. CASE k[1] = t
    BY <1>4, <1>7, <2>1
  <2>2. CASE k[1] # t
    BY <1>3, <1>4, <1>5, <2>2
  <2> QED BY <2>1, <2>2
<1>10. /\ Cardinality(S) \in Nat /\ Cardinality(T) \in Nat
       /\ Cardinality(T) <= Cardinality(S) + 1
       /\ n \notin T \/ n \in S => Cardinality(T) <= Cardinality(S)
       /\ n \notin T /\ n \in S => Cardinality(T) <= Cardinality(S) - 1
  BY <1>3, <1>8, CountChanges
<1>11. (consumer[t] = "idle" <=> consumer'[t] = "idle") => T = S
  <2>1. (consumer[t] = "idle" <=> consumer'[t] = "idle") => Handled(k[1])' = Handled(k[1])
    BY <1>3, <1>5
  <2> QED BY <1>4, <2>1
<1>12. consumer[t] = "idle" /\ consumer'[t] # "idle" /\ one => n \notin T /\ n \in S
  BY <1>4, <1>5, <1>6
<1>13. consumer[t] = "idle" /\ consumer'[t] # "idle" => n \notin T \/ n \in S
  <2>1. CASE k[1] = t
    BY <1>4, <1>5, <2>1
  <2>2. CASE k[1] # t
    BY <1>3, <1>4, <1>5, <2>2
  <2> QED BY <2>1, <2>2
<1>14. one => \E i \in DOMAIN topic[k[1]] : AsksAt(k, i)
  BY <1>3, <1>6
<1>15. /\ Cardinality(T) <= IF one THEN Cardinality(S) + 1 ELSE Cardinality(S)
       /\ consumer[t] = "idle" /\ consumer'[t] # "idle" =>
            Cardinality(T) <= IF one THEN Cardinality(S) - 1 ELSE Cardinality(S)
  BY <1>9, <1>10, <1>12, <1>13
<1> QED BY <1>10, <1>11, <1>14, <1>15 DEF S, T, one, e


LEMMA ConsumerPaid ==
  ASSUME TypeOK, RoomInv, TypeOK', PaidInv, NEW t \in Topics, ConsumerStep(t) \/ Redeliver(t)
  PROVE  PaidInv'
<1>1. UNCHANGED <<request, topic, grounds>>
  BY DEF ConsumerStep, Handle, SendToDlq, CommitOffset, Redeliver, history
<1>2. ASSUME NEW k \in References
      PROVE  paid[k] \in Nat /\ copies[k] \in Nat /\ Cardinality(Unhandled(k)) \in Nat
  BY BalanceTypes
<1> DEFINE e == Upcoming(t)
           one(k) == Pays(e) /\ Ref(e) = k
           u(k) == Cardinality(Unhandled(k))
           v(k) == Cardinality(Unhandled(k)')
           Kept(k) ==
             /\ paid'[k] + v(k) + copies[k] <= paid[k] + u(k) + copies'[k]
             /\ paid'[k] > 0 => paid[k] > 0 \/ \E i \in DOMAIN topic[k[1]] : AsksAt(k, i)
<1>3. CASE Handle(t)
  <2>1. /\ Waiting(t) /\ UNCHANGED <<topic, offset, copies>> /\ consumer[t] = "idle"
        /\ consumer'[t] # "idle" /\ \A s \in Topics : s # t => consumer'[s] = consumer[s]
        /\ \/ paid' = paid
           \/ Pays(e) /\ paid' = [paid EXCEPT ![Ref(e)] = paid[Ref(e)] + 1]
    BY <1>3 DEF Handle, TypeOK, history
  <2>2. ASSUME NEW k \in References
        PROVE  Kept(k)
    <3>1. /\ u(k) \in Nat /\ v(k) \in Nat /\ v(k) <= IF one(k) THEN u(k) - 1 ELSE u(k)
          /\ one(k) => \E i \in DOMAIN topic[k[1]] : AsksAt(k, i)
      BY <2>1, UnhandledChanges
    <3>2. paid'[k] = paid[k] \/ (one(k) /\ paid'[k] = paid[k] + 1)
      BY <2>1 DEF TypeOK
    <3> HIDE DEF u, v, one
    <3>3. paid'[k] + v(k) + copies[k] <= paid[k] + u(k) + copies'[k]
      BY <1>2, <2>1, <3>1, <3>2 DEF u
    <3> QED BY <3>1, <3>2, <3>3
  <2> HIDE DEF u, v
  <2> QED BY <1>1, <2>2, ConsumerKeepsPaid DEF u, v
<1>4. CASE Redeliver(t)
  <2>1. /\ Waiting(t) /\ UNCHANGED <<topic, offset, paid>>
        /\ \A s \in Topics : s # t => consumer'[s] = consumer[s]
        /\ copies' = IF Pays(e) THEN [copies EXCEPT ![Ref(e)] = copies[Ref(e)] + 1] ELSE copies
    BY <1>4 DEF Redeliver, TypeOK
  <2>2. ASSUME NEW k \in References
        PROVE  Kept(k)
    <3>1. u(k) \in Nat /\ v(k) \in Nat /\ v(k) <= IF one(k) THEN u(k) + 1 ELSE u(k)
      BY <2>1, UnhandledChanges
    <3>2. copies'[k] = IF one(k) THEN copies[k] + 1 ELSE copies[k]
      <4> HIDE DEF e
      <4>1. copies \in [References -> Nat]
        BY DEF TypeOK
      <4>2. CASE Pays(e)
        BY <2>1, <4>1, <4>2
      <4>3. CASE ~Pays(e)
        BY <2>1, <4>3
      <4> QED BY <4>2, <4>3
    <3> HIDE DEF u, v, one
    <3>3. paid'[k] + v(k) + copies[k] <= paid[k] + u(k) + copies'[k]
      BY <1>2, <2>1, <3>1, <3>2
    <3> QED BY <2>1, <3>3
  <2> HIDE DEF u, v
  <2> QED BY <1>1, <2>2, ConsumerKeepsPaid DEF u, v
<1>5. CASE SendToDlq(t)
  <2>1. /\ Waiting(t) /\ UNCHANGED <<topic, offset, paid, copies>>
        /\ consumer[t] # "idle" /\ consumer'[t] # "idle"
        /\ \A s \in Topics : s # t => consumer'[s] = consumer[s]
    BY <1>5 DEF SendToDlq, TypeOK
  <2>2. ASSUME NEW k \in References
        PROVE  Kept(k)
    <3>1. u(k) \in Nat /\ v(k) = u(k)
      BY <2>1, UnhandledChanges
    <3> HIDE DEF u, v
    <3> QED BY <1>2, <2>1, <3>1
  <2> HIDE DEF u, v
  <2> QED BY <1>1, <2>2, ConsumerKeepsPaid DEF u, v
<1>6. CASE CommitOffset(t)
  <2>1. /\ UNCHANGED <<topic, paid, copies>>
        /\ consumer[t] = "commit"
        /\ offset' = [offset EXCEPT ![t] = offset[t] + 1]
        /\ consumer' = [consumer EXCEPT ![t] = "idle"]
    BY <1>6 DEF CommitOffset, NextOffset, history
  <2>2. \A s \in Topics : Handled(s)' = Handled(s)
    BY <2>1 DEF Handled, TypeOK
  <2>3. ASSUME NEW k \in References
        PROVE  Kept(k)
    <3>1. Unhandled(k)' = Unhandled(k)
      BY <2>1, <2>2, BalanceTypes DEF Unhandled, AsksAt, Pays, Ref
    <3>2. v(k) = u(k)
      BY <3>1
    <3> HIDE DEF u, v
    <3> QED BY <1>2, <2>1, <3>2 DEF u
  <2> HIDE DEF u, v
  <2> QED BY <1>1, <2>3, ConsumerKeepsPaid DEF u, v
<1> QED BY <1>3, <1>4, <1>5, <1>6 DEF ConsumerStep

LEMMA OtherPaid ==
  ASSUME TypeOK, PaidInv, Cool \/ ChangeStatus \/ UNCHANGED vars
  PROVE  PaidInv'
<1>1. UNCHANGED <<request, topic, offset, consumer, paid, grounds, copies>>
  <2>1. CASE Cool
    BY <2>1 DEF Cool, kafka, history
  <2>2. CASE ChangeStatus
    BY <2>2 DEF ChangeStatus, kafka, history
  <2>3. CASE UNCHANGED vars
    BY <2>3 DEF vars, kafka, history
  <2> QED BY <2>1, <2>2, <2>3
<1>2. ASSUME NEW k \in References
      PROVE  Balanced(k)' /\ Grounded(k)'
  <2>1. Asking(k)' = Asking(k)
    BY <1>1 DEF Asking, Asks, Pays, Ref
  <2>2. Unhandled(k)' = Unhandled(k)
    BY <1>1 DEF Unhandled, Handled, AsksAt, Pays, Ref
  <2>3. Balanced(k)'
    BY <1>1, <2>1, <2>2 DEF Balanced, PaidInv
  <2>4. Grounded(k)'
    BY <1>1 DEF Grounded, PaidInv, AsksAt, Asks, Pays, Ref
  <2> QED BY <2>3, <2>4
<1> QED BY <1>1, <1>2 DEF PaidInv, AsksOnce, Pays

LEMMA InitPaid == Init => PaidInv
<1> SUFFICES ASSUME Init PROVE PaidInv
  OBVIOUS
<1>1. TypeOK
  BY InitTypes
<1>2. \A t \in Topics : topic[t] = << >> /\ DOMAIN topic[t] = {}
  BY DEF Init
<1>3. \A r \in Requests : request[r].at = "idle"
  BY DEF Init, Idle
<1>4. ASSUME NEW k \in References
      PROVE  Balanced(k) /\ Grounded(k)
  <2>1. k[1] \in Topics /\ paid[k] = 0 /\ grounds[k] = 0 /\ copies[k] = 0
    BY BalanceTypes, <1>1 DEF Init
  <2>2. Asking(k) = {} /\ Unhandled(k) = {}
    BY <1>2, <1>3, <2>1 DEF Asking, Asks, Unhandled
  <2>3. Cardinality(Asking(k)) = 0 /\ Cardinality(Unhandled(k)) = 0
    BY <2>2, FS_EmptySet
  <2>4. Balanced(k)
    BY <2>1, <2>3 DEF Balanced
  <2>5. Grounded(k)
    BY <1>2, <1>3, <2>1 DEF Grounded, Asks
  <2> QED BY <2>4, <2>5
<1> QED BY <1>2, <1>3, <1>4 DEF PaidInv, AsksOnce

LEMMA StepPaid ==
  TypeOK /\ RoomInv /\ TypeOK' /\ PaidInv /\ [Next]_vars => PaidInv'
<1> SUFFICES ASSUME TypeOK, RoomInv, TypeOK', PaidInv, [Next]_vars PROVE PaidInv'
  OBVIOUS
<1>1. ASSUME NEW r \in Requests,
             \/ SimulateDeposit(r) \/ Confirm(r) \/ Whitelist(r)
             \/ RequestWithdrawal(r) \/ Review(r)
             \/ RequestStep(r) \/ Abandon(r)
      PROVE  PaidInv'
  BY <1>1, QuietPaid, ConfirmPaid, ReviewPaid, SaveDepositPaid, SaveConfirmedPaid,
     SaveWithdrawalPaid, SaveReviewPaid, ProducePaid DEF RequestStep
<1>2. ASSUME NEW t \in Topics, ConsumerStep(t) \/ Redeliver(t)
      PROVE  PaidInv'
  BY <1>2, ConsumerPaid
<1> QED BY <1>1, <1>2, OtherPaid DEF Next

(* The wallet pays a deposit or a withdrawal only if some request has      *)
(* confirmed or approved it, and not more often than that: once more for   *)
(* each time the event was sent or delivered twice.                        *)
THEOREM PaidOnlyOnGrounds == Spec => []PaidOnGrounds
<1>1. Init => TypeOK /\ RoomInv /\ PaidInv
  BY InitTypes, InitPaid
<1>2. /\ TypeOK /\ RoomInv /\ PaidInv /\ [Next]_vars
      => (TypeOK /\ RoomInv /\ PaidInv)'
  BY StepTypes, StepPaid
<1>3. TypeOK /\ PaidInv => PaidOnGrounds
  <2> SUFFICES ASSUME TypeOK, PaidInv, NEW k \in References
               PROVE  paid[k] <= grounds[k] + copies[k] /\ (paid[k] > 0 => grounds[k] > 0)
    BY DEF PaidOnGrounds
  <2> DEFINE a == Cardinality(Asking(k))
             u == Cardinality(Unhandled(k))
  <2>1. /\ paid[k] \in Nat /\ grounds[k] \in Nat /\ copies[k] \in Nat
        /\ a \in Nat /\ u \in Nat
        /\ paid[k] + a + u <= grounds[k] + copies[k]
    BY BalanceTypes DEF PaidInv, Balanced
  <2>2. Grounded(k)
    BY DEF PaidInv
  <2> HIDE DEF a, u
  <2>3. paid[k] <= grounds[k] + copies[k]
    BY <2>1
  <2> QED BY <2>2, <2>3 DEF Grounded
<1> QED BY <1>1, <1>2, <1>3, PTL DEF Spec
=============================================================================
