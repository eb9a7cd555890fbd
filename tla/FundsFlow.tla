----------------------------- MODULE FundsFlow -----------------------------
(***************************************************************************)
(* Money in and out: DepositService and WithdrawalService save rows and    *)
(* produce events; the wallet service consumes them and credits or debits. *)
(*                                                                         *)
(* Requests run side by side and write whole rows that they have read      *)
(* earlier.  Events are produced after the row is saved; KafkaService      *)
(* repeats a send whose answer it missed.  A consumer handles one event at *)
(* a time, puts it into the dead-letter topic when the handler fails, and  *)
(* commits the offset in any case; when it dies first, the event comes     *)
(* again.  The wallet is Ledger, one operation at a time.                  *)
(***************************************************************************)
EXTENDS Ledger

CONSTANTS
  Requests,        \* requests that the services handle at the same time
  Customer, Asset,
  Hashes,          \* transaction hashes of deposits
  DepositAmounts, MinDeposit, WithdrawalAmounts,
  RequiredConfirmations,
  MaxRequests, MaxFaults                           \* bounds

ASSUME FundsAssumption ==
  /\ IsFiniteSet(Requests) /\ MaxRequests \in Nat
  /\ Customer \in Users /\ Asset \in Assets
  /\ DepositAmounts \cup WithdrawalAmounts \cup {MinDeposit} \in SUBSET Nat
  /\ RequiredConfirmations \in Nat \ {0}

VARIABLES
  deposits,        \* rows, by identifier
  withdrawals,     \* rows, by identifier
  whitelisted,     \* the customer's address: "no", "cooling" or "yes"
  request,         \* per request: where it is, its row, events to produce
  topic,           \* per topic: the events, in order
  offset,          \* per topic: events the wallet's group has committed
  consumer,        \* per topic: "idle", "deadLetter" or "commit"
  deadLetters,     \* <<topic, position>> of events in the dead-letter topic
  paid,            \* per <<topic, id>>: ledger entries with this reference
  grounds,         \* history: requests that justify a payment
  copies,          \* history: paying events sent or delivered once more
  dropped,         \* history: payments whose event or dead letter was lost
  requests, faults                                 \* counters for the bounds

tables == <<deposits, withdrawals, whitelisted>>
kafka == <<topic, offset, consumer, deadLetters>>
history == <<grounds, copies, dropped>>
vars == <<tables, request, kafka, paid, history, requests, faults, accounts, active>>

Topics == {"deposits", "withdrawals"}
Ids == 1..MaxRequests
References == Topics \X Ids

(* Rows, as far as the flow of money depends on them. *)
DepositEntity ==
  [hash : Hashes, amount : DepositAmounts, confirmations : Nat,
   status : {"Pending", "Confirmed"}]

WithdrawalEntity ==
  [amount : WithdrawalAmounts, status : {"Pending", "Confirmed", "Failed"}]

(* An event, with the row it was created from. *)
KafkaEvent ==
  [topic : Topics, id : Ids, amount : DepositAmounts \cup WithdrawalAmounts,
   type : {"DepositDetected", "DepositConfirmed", "WithdrawalRequested",
           "WithdrawalApproved"},
   status : {"Pending", "Confirmed", "Failed"}]

Idle == [at |-> "idle", id |-> 0, row |-> <<>>, events |-> << >>]

Init ==
  /\ LedgerInit
  /\ deposits = << >> /\ withdrawals = << >> /\ whitelisted = "no"
  /\ request = [r \in Requests |-> Idle]
  /\ topic = [t \in Topics |-> << >>]
  /\ offset = [t \in Topics |-> 0]
  /\ consumer = [t \in Topics |-> "idle"]
  /\ deadLetters = {}
  /\ paid = [k \in References |-> 0]
  /\ grounds = [k \in References |-> 0] /\ copies = [k \in References |-> 0]
  /\ dropped = {}
  /\ requests = 0 /\ faults = 0

(* createEvent: the payload is the row as the request has it. *)
Event(t, type, id, row) ==
  [topic |-> t, type |-> type, id |-> id, amount |-> row.amount, status |-> row.status]

Ref(event) == <<event.topic, event.id>>

(* Events upon which the wallet acts. *)
Pays(event) ==
  /\ event.type \in {"DepositConfirmed", "WithdrawalApproved"}
  /\ event.status = "Confirmed"

Counted(k) == [grounds EXCEPT ![k] = @ + 1]

-----------------------------------------------------------------------------
(* Requests.  A new one passes the checks, all of which only read, in its  *)
(* first step.                                                             *)

Begin(r) ==
  /\ request[r].at = "idle"
  /\ requests < MaxRequests
  /\ requests' = requests + 1
  /\ active[Customer]

(* simulateDeposit: no deposit has the hash yet. *)
SimulateDeposit(r) ==
  /\ Begin(r)
  /\ \E hash \in Hashes, amount \in DepositAmounts :
       /\ \A d \in DOMAIN deposits : deposits[d].hash # hash
       /\ amount >= MinDeposit
       /\ request' = [request EXCEPT ![r] =
            [at |-> "saveDeposit", id |-> Len(deposits) + 1, events |-> << >>,
             row |-> [hash |-> hash, amount |-> amount, confirmations |-> 0,
                      status |-> "Pending"]]]
  /\ UNCHANGED <<tables, kafka, paid, history, faults, ledgerVars>>

SaveDeposit(r) ==
  /\ request[r].at = "saveDeposit"
  /\ deposits' = Append(deposits, request[r].row)
  /\ request' = [request EXCEPT ![r].at = "produce",
       ![r].events = <<Event("deposits", "DepositDetected", Len(deposits'), request[r].row)>>]
  /\ UNCHANGED <<withdrawals, whitelisted, kafka, paid, history, requests, faults,
                 ledgerVars>>

(* Mutant of Confirmed: one confirmation too few. *)
ConfirmedEarly(row, n) ==
  [row EXCEPT !.confirmations = n,
              !.status = IF n + 1 >= RequiredConfirmations THEN "Confirmed" ELSE @]

Confirmed(row, n) ==
  [row EXCEPT !.confirmations = n,
              !.status = IF n >= RequiredConfirmations THEN "Confirmed" ELSE @]

(* confirm: the row is read, and changed in memory. *)
Confirm(r) ==
  /\ Begin(r)
  /\ \E d \in DOMAIN deposits, n \in {RequiredConfirmations - 1, RequiredConfirmations} :
       /\ request' = [request EXCEPT ![r] =
            [at |-> "saveConfirmed", id |-> d, row |-> Confirmed(deposits[d], n),
             events |-> << >>]]
       /\ grounds' = IF n >= RequiredConfirmations \/ deposits[d].status = "Confirmed"
                     THEN Counted(<<"deposits", d>>) ELSE grounds
  /\ UNCHANGED <<tables, kafka, paid, copies, dropped, faults, ledgerVars>>

(* The whole row is written, as it was read and changed. *)
SaveConfirmed(r) ==
  /\ request[r].at = "saveConfirmed"
  /\ LET d    == request[r].id
         row  == request[r].row
         type == IF row.status = "Confirmed" THEN "DepositConfirmed" ELSE "DepositDetected"
     IN /\ deposits' = [deposits EXCEPT ![d] = row]
        /\ request' = [request EXCEPT ![r].at = "produce",
                                      ![r].events = <<Event("deposits", type, d, row)>>]
  /\ UNCHANGED <<withdrawals, whitelisted, kafka, paid, history, requests, faults,
                 ledgerVars>>

(* whitelist: an address that is there already keeps its age. *)
Whitelist(r) ==
  /\ Begin(r)
  /\ whitelisted' = IF whitelisted = "no" THEN "cooling" ELSE whitelisted
  /\ UNCHANGED <<deposits, withdrawals, request, kafka, paid, history, faults, ledgerVars>>

(* The cooldown of the address passes. *)
Cool ==
  /\ whitelisted = "cooling"
  /\ whitelisted' = "yes"
  /\ UNCHANGED <<deposits, withdrawals, request, kafka, paid, history, requests, faults,
                 ledgerVars>>

Fee(amount) == amount \div 1000

ApprovalTier(amount) ==
  CASE amount >= 1000000 -> "COLD_CEREMONY"
    [] amount >= 100000 /\ amount < 1000000 -> "MULTI_PARTY"
    [] amount >= 10000 /\ amount < 100000 -> "OPERATOR"
    [] OTHER -> "AUTO"

(* verifyBalance: the wallet is asked, and locks nothing. *)
BalanceSuffices(amount) == accounts[<<Customer, Asset>>].available >= amount + Fee(amount)

(* request: the code, the address and the balance are good. *)
RequestWithdrawal(r) ==
  /\ Begin(r)
  /\ whitelisted = "yes"
  /\ \E amount \in WithdrawalAmounts :
       /\ BalanceSuffices(amount)
       /\ request' = [request EXCEPT ![r] =
            [at |-> "saveWithdrawal", id |-> 0, events |-> << >>,
             row |-> [amount |-> amount,
                      status |-> IF ApprovalTier(amount) = "AUTO" THEN "Confirmed"
                                 ELSE "Pending"]]]
  /\ UNCHANGED <<tables, kafka, paid, history, faults, ledgerVars>>

(* A small withdrawal is approved by its request. *)
SaveWithdrawal(r) ==
  /\ request[r].at = "saveWithdrawal"
  /\ withdrawals' = Append(withdrawals, request[r].row)
  /\ LET w     == Len(withdrawals')
         row   == request[r].row
         asked == Event("withdrawals", "WithdrawalRequested", w, row)
         auto  == row.status = "Confirmed"
     IN /\ request' = [request EXCEPT ![r].at = "produce",
             ![r].events = IF auto
                           THEN <<asked, Event("withdrawals", "WithdrawalApproved", w, row)>>
                           ELSE <<asked>>]
        /\ grounds' = IF auto THEN Counted(<<"withdrawals", w>>) ELSE grounds
  /\ UNCHANGED <<deposits, whitelisted, kafka, paid, copies, dropped, requests, faults,
                 ledgerVars>>

(* approve and reject: the row is read, whatever its status. *)
Review(r) ==
  /\ Begin(r)
  /\ \E w \in DOMAIN withdrawals, status \in {"Confirmed", "Failed"} :
       /\ request' = [request EXCEPT ![r] =
            [at |-> "saveReview", id |-> w, events |-> << >>,
             row |-> [withdrawals[w] EXCEPT !.status = status]]]
       /\ grounds' = IF status = "Confirmed" THEN Counted(<<"withdrawals", w>>) ELSE grounds
  /\ UNCHANGED <<tables, kafka, paid, copies, dropped, faults, ledgerVars>>

SaveReview(r) ==
  /\ request[r].at = "saveReview"
  /\ LET w   == request[r].id
         row == request[r].row
     IN /\ withdrawals' = [withdrawals EXCEPT ![w] = row]
        /\ request' = [request EXCEPT ![r] =
             IF row.status = "Confirmed"
             THEN [@ EXCEPT !.at = "produce",
                            !.events = <<Event("withdrawals", "WithdrawalApproved", w, row)>>]
             ELSE Idle]
  /\ UNCHANGED <<deposits, whitelisted, kafka, paid, history, requests, faults, ledgerVars>>

(* KafkaService.produce: the broker has the event; a send whose answer is  *)
(* missed is repeated, and the broker has it twice.                        *)
Produce(r) ==
  /\ request[r].at = "produce"
  /\ LET event == Head(request[r].events)
     IN /\ topic' = [topic EXCEPT ![event.topic] = Append(@, event)]
        /\ \/ /\ request' = [request EXCEPT ![r] =
                   IF Len(@.events) = 1 THEN Idle
                   ELSE [@ EXCEPT !.events = Tail(request[r].events)]]
              /\ UNCHANGED <<copies, faults>>
           \/ /\ faults < MaxFaults /\ faults' = faults + 1
              /\ copies' = IF Pays(event) THEN [copies EXCEPT ![Ref(event)] = @ + 1]
                           ELSE copies
              /\ UNCHANGED request
  /\ UNCHANGED <<tables, offset, consumer, deadLetters, paid, grounds, dropped, requests,
                 ledgerVars>>

(* A call fails for good, or the service dies: events that are left are    *)
(* never produced.                                                         *)
Abandon(r) ==
  /\ request[r].at # "idle"
  /\ faults < MaxFaults
  /\ faults' = faults + 1
  /\ request' = [request EXCEPT ![r] = Idle]
  /\ dropped' = dropped \cup {Ref(e) : e \in {e \in Range(request[r].events) : Pays(e)}}
  /\ UNCHANGED <<tables, kafka, paid, grounds, copies, requests, ledgerVars>>

RequestStep(r) ==
  SaveDeposit(r) \/ SaveConfirmed(r) \/ SaveWithdrawal(r) \/ SaveReview(r) \/ Produce(r)

-----------------------------------------------------------------------------
(* The wallet's consumers *)

Upcoming(t) == topic[t][offset[t] + 1]
Waiting(t) == offset[t] < Len(topic[t])

Payment(event) ==
  IF event.topic = "deposits" THEN Credit(Customer, Asset, event.amount)
  ELSE Debit(Customer, Asset, event.amount + Fee(event.amount))

Granted(op) ==
  /\ \A u \in Range(op.users) : active[u]
  /\ \A w \in Wallets : AfterAll(op)[w].available >= 0 /\ AfterAll(op)[w].locked >= 0

(* The handler: pays, or ignores the event, or fails: the wallet refuses   *)
(* the payment, or the database breaks the transaction off.                *)
Handle(t) ==
  /\ consumer[t] = "idle" /\ Waiting(t)
  /\ \/ /\ ~Pays(Upcoming(t))
        /\ consumer' = [consumer EXCEPT ![t] = "commit"]
        /\ UNCHANGED <<accounts, paid, faults>>
     \/ /\ Pays(Upcoming(t)) /\ Granted(Payment(Upcoming(t)))
        /\ accounts' = AfterAll(Payment(Upcoming(t)))
        /\ paid' = [paid EXCEPT ![Ref(Upcoming(t))] = @ + 1]
        /\ consumer' = [consumer EXCEPT ![t] = "commit"]
        /\ UNCHANGED faults
     \/ /\ Pays(Upcoming(t))
        /\ \/ ~Granted(Payment(Upcoming(t))) /\ UNCHANGED faults
           \/ faults < MaxFaults /\ faults' = faults + 1
        /\ consumer' = [consumer EXCEPT ![t] = "deadLetter"]
        /\ UNCHANGED <<accounts, paid>>
  /\ UNCHANGED <<tables, request, topic, offset, deadLetters, history, requests, active>>

(* Mutant of SendToDlq: an event that cannot be handled is only logged. *)
SendNowhere(t) ==
  /\ consumer[t] = "deadLetter"
  /\ consumer' = [consumer EXCEPT ![t] = "commit"]
  /\ UNCHANGED <<tables, request, topic, offset, deadLetters, paid, history, requests,
                 faults, ledgerVars>>

(* Mutant of SendToDlq: the offset of the event is not committed. *)
SendAndRetry(t) ==
  /\ consumer[t] = "deadLetter"
  /\ deadLetters' = deadLetters \cup {<<t, offset[t] + 1>>}
  /\ consumer' = [consumer EXCEPT ![t] = "idle"]
  /\ UNCHANGED <<tables, request, topic, offset, paid, history, requests, faults,
                 ledgerVars>>

(* sendToDlq: its own failure is only logged. *)
SendToDlq(t) ==
  /\ consumer[t] = "deadLetter"
  /\ consumer' = [consumer EXCEPT ![t] = "commit"]
  /\ \/ /\ deadLetters' = deadLetters \cup {<<t, offset[t] + 1>>}
        /\ UNCHANGED <<dropped, faults>>
     \/ /\ faults < MaxFaults /\ faults' = faults + 1
        /\ dropped' = dropped \cup {Ref(Upcoming(t))}
        /\ UNCHANGED deadLetters
  /\ UNCHANGED <<tables, request, topic, offset, paid, grounds, copies, requests,
                 ledgerVars>>

NextOffset(n) == n + 1

CommitOffset(t) ==
  /\ consumer[t] = "commit"
  /\ offset' = [offset EXCEPT ![t] = NextOffset(@)]
  /\ consumer' = [consumer EXCEPT ![t] = "idle"]
  /\ UNCHANGED <<tables, request, topic, deadLetters, paid, history, requests, faults,
                 ledgerVars>>

(* The wallet service dies, or the commit fails: the event comes again. *)
Redeliver(t) ==
  /\ consumer[t] # "idle"
  /\ faults < MaxFaults
  /\ faults' = faults + 1
  /\ consumer' = [consumer EXCEPT ![t] = "idle"]
  /\ copies' = IF Pays(Upcoming(t)) THEN [copies EXCEPT ![Ref(Upcoming(t))] = @ + 1] ELSE copies
  /\ UNCHANGED <<tables, request, topic, offset, deadLetters, paid, grounds, dropped,
                 requests, ledgerVars>>

ConsumerStep(t) == Handle(t) \/ SendToDlq(t) \/ CommitOffset(t)

-----------------------------------------------------------------------------
(* An operator freezes the account, or reopens it. *)
ChangeStatus ==
  /\ faults < MaxFaults
  /\ faults' = faults + 1
  /\ SetStatus
  /\ UNCHANGED <<tables, request, kafka, paid, history, requests>>

Next ==
  \/ \E r \in Requests :
       \/ SimulateDeposit(r) \/ Confirm(r) \/ Whitelist(r)
       \/ RequestWithdrawal(r) \/ Review(r)
       \/ RequestStep(r) \/ Abandon(r)
  \/ \E t \in Topics : ConsumerStep(t) \/ Redeliver(t)
  \/ Cool \/ ChangeStatus

Spec == Init /\ [][Next]_vars

(* Requests and consumers go on; nothing is assumed of new requests. *)
FairSpec ==
  /\ Spec
  /\ \A r \in Requests : WF_vars(RequestStep(r))
  /\ \A t \in Topics : WF_vars(ConsumerStep(t))

-----------------------------------------------------------------------------
(* Properties *)

(* What a request holds between two of its steps. *)
Held ==
  {Idle}
  \cup [at: {"saveDeposit"}, id: Nat, row: DepositEntity, events: {<< >>}]
  \cup [at: {"saveConfirmed"}, id: DOMAIN deposits, row: DepositEntity, events: {<< >>}]
  \cup [at: {"saveWithdrawal"}, id: {0}, row: WithdrawalEntity, events: {<< >>}]
  \cup [at: {"saveReview"}, id: DOMAIN withdrawals, row: WithdrawalEntity, events: {<< >>}]
  \cup [at: {"produce"}, id: Nat, row: DepositEntity \cup WithdrawalEntity,
        events: Seq(KafkaEvent) \ {<< >>}]

(* The variables have their types; no consumer is ahead of its topic. *)
TypeOK ==
  /\ request \in [Requests -> Held]
  /\ requests \in 0..MaxRequests
  /\ deposits \in Seq(DepositEntity) /\ withdrawals \in Seq(WithdrawalEntity)
  /\ topic \in [Topics -> Seq(KafkaEvent)] /\ offset \in [Topics -> Nat]
  /\ consumer \in [Topics -> {"idle", "deadLetter", "commit"}]
  /\ \A t \in Topics : /\ offset[t] <= Len(topic[t])
                       /\ consumer[t] # "idle" => Waiting(t)
  /\ paid \in [References -> Nat]
  /\ grounds \in [References -> Nat] /\ copies \in [References -> Nat]
  /\ accounts \in [Wallets -> Account] /\ active \in [Users -> BOOLEAN]

(* The wallet pays a deposit or a withdrawal only if some request has      *)
(* confirmed or approved it, and not more often than that: once more for   *)
(* each time the event was sent or delivered twice.                        *)
PaidOnGrounds ==
  \A k \in References :
    /\ paid[k] <= grounds[k] + copies[k]
    /\ paid[k] > 0 => grounds[k] > 0

DeadLettered(k) == \E d \in deadLetters : Ref(topic[d[1]][d[2]]) = k

(* No consumer is ahead of its topic, and no event is passed over: each    *)
(* one that asks for a payment, and whose offset is committed, has been    *)
(* paid, is a dead letter, or its dead letter could not be written.        *)
EventsAccounted ==
  \A t \in Topics :
    /\ offset[t] <= Len(topic[t])
    /\ \A i \in 1..offset[t] :
         LET k == Ref(topic[t][i])
         IN Pays(topic[t][i]) =>
              paid[k] > 0 \/ <<t, i>> \in deadLetters \/ k \in dropped

RowOf(k) ==
  IF k[1] = "deposits" THEN deposits[k[2]] ELSE withdrawals[k[2]]

Known(k) == k[2] \in DOMAIN (IF k[1] = "deposits" THEN deposits ELSE withdrawals)

(* Confirmed or approved, and neither paid nor among the dead letters. *)
Owed(k) ==
  /\ Known(k) /\ RowOf(k).status = "Confirmed"
  /\ ~(paid[k] > 0 \/ DeadLettered(k) \/ k \in dropped)

(* What is owed for deposits that are confirmed and withdrawals that are   *)
(* approved reaches the wallet or the dead letters, unless its event was   *)
(* dropped: an event that cannot be handled holds up none behind it.       *)
ConfirmedIsSettled == (\E k \in References : Owed(k)) ~> (\A k \in References : ~Owed(k))
=============================================================================
