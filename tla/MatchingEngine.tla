--------------------------- MODULE MatchingEngine ---------------------------
(***************************************************************************)
(* MatchingEngineCore (services/matching-engine): request threads that     *)
(* share one order book, its write-ahead log and its snapshot file, and    *)
(* the crashes, shutdowns and restarts of the process.                     *)
(*                                                                         *)
(* A request is first written to the log, record and newline apart, and    *)
(* only then takes the book's mutex: other threads may come in between.    *)
(* A thread whose trades complete a snapshot interval copies the book      *)
(* under the mutex and then, without it, writes the copy to a temporary    *)
(* file, renames that file and empties the log.  A restart loads the       *)
(* snapshot and submits what the log holds once more.                      *)
(*                                                                         *)
(* The steps under the mutex are those of OrderBook.  The log is the       *)
(* sequence of what was written to it; each write and each file operation  *)
(* takes effect at once, and what is synced survives a crash.              *)
(***************************************************************************)
EXTENDS OrderBook

CONSTANTS
  Clients,                     \* the threads that serve requests
  Main,                        \* the task that waits for the signal to stop
  snapshot_interval_trades,
  NoRequest, NoFile, NewLine,
  EarlyCancels,                \* whether clients cancel unseen orders
  MaxRequests, MaxSignals, MaxCrashes, MaxFailures      \* bounds

ASSUME ThreadsAssumption == Main \notin Clients
ASSUME IntervalAssumption == snapshot_interval_trades \in Nat \ {0}
ASSUME EngineBoundsAssumption ==
  /\ EarlyCancels \in BOOLEAN
  /\ MaxRequests \in Nat /\ MaxSignals \in Nat
  /\ MaxCrashes \in Nat /\ MaxFailures \in Nat

Threads == Clients \cup {Main}

VARIABLES
  mode,                 \* "replaying" the log, or "running"
  pc,                   \* where each thread is
  request,              \* the request that it serves
  counted,              \* trade_count of its submission
  captured,             \* the snapshot that it has taken
  wal,                  \* the file at wal_path
  temp,                 \* the file at temp_path
  saved,                \* the file at path
  unread,               \* the part of the log that replay_wal has still to read
  trades_since_snapshot,
  shown,                \* history: the book as it was when the mutex was last free
  interrupted,          \* history: whether a stop has cut a request short since
  requests, signals, crashes, failures      \* counters for the bounds

files == <<wal, temp, saved>>
history == <<shown, interrupted, requests, signals, crashes, failures>>
engine == <<mode, pc, request, counted, captured, files, unread,
            trades_since_snapshot, history>>
allVars == <<vars, engine>>

-----------------------------------------------------------------------------
(* Snapshots *)

Queues(lv) ==
  [side \in Sides |-> [price \in DOMAIN lv[side] |-> lv[side][price].orders]]

(* What to_snapshot copies: not the index, nor the totals of the levels. *)
ToSnapshot ==
  [queues |-> Queues(levels), stopOrders |-> stopOrders, status |-> status,
   auditLog |-> auditLog, nextSequence |-> nextSequence]

EmptySnapshot ==
  [queues |-> [side \in Sides |-> << >>], stopOrders |-> << >>,
   status |-> << >>, auditLog |-> << >>, nextSequence |-> 0]

RestoredLevels(queues) ==
  [side \in Sides |-> [price \in DOMAIN queues[side] |->
     [orders |-> queues[side][price],
      total  |-> FoldLeft(LAMBDA sum, o : sum + o.remaining, 0,
                          queues[side][price])]]]

(* Mutant of RestoredIndex: restore_level forgets the index. *)
RestoredWithoutIndex(queues) == << >>

RestoredIndex(queues) ==
  LET places == {at \in Sides \X Prices : at[2] \in DOMAIN queues[at[1]]}
      ids(at) == {o.id : o \in Range(queues[at[1]][at[2]])}
  IN [id \in UNION {ids(at) : at \in places} |->
        CHOOSE at \in places : id \in ids(at)]

-----------------------------------------------------------------------------
(* The process starts with no file, the threads with no request. *)
EngineInit ==
  /\ Init
  /\ mode = "running"
  /\ pc = [t \in Threads |-> "ready"]
  /\ request = [t \in Threads |-> NoRequest]
  /\ counted = [t \in Threads |-> 0]
  /\ captured = [t \in Threads |-> NoFile]
  /\ wal = << >> /\ temp = NoFile /\ saved = NoFile
  /\ unread = << >>
  /\ trades_since_snapshot = 0
  /\ shown = EmptySnapshot
  /\ interrupted = FALSE
  /\ requests = 0 /\ signals = 0 /\ crashes = 0 /\ failures = 0

Goto(t, next) == pc' = [pc EXCEPT ![t] = next]

(* A request is answered; the signal's task goes on to stop the server. *)
AfterSnapshot(t) == Goto(t, IF t = Main THEN "stopping" ELSE "ready")

-----------------------------------------------------------------------------
(* submit_order and cancel_order: append_wal *)

(* What clients may cancel: orders they have heard of, or others too. *)
Cancellable == IF EarlyCancels THEN OrderIds ELSE DOMAIN shown.status

Asked ==
  [type: {"Submit"}, order: Requests]
    \cup [type: {"Cancel"}, id: Cancellable, user: Users]

StartRequest(t) ==
  /\ mode = "running"
  /\ pc[t] = "ready" /\ pc[Main] # "stopping"
  /\ requests < MaxRequests
  /\ requests' = requests + 1
  /\ \E r \in Asked : request' = [request EXCEPT ![t] = r]
  /\ Goto(t, "append")
  /\ UNCHANGED <<vars, mode, counted, captured, files, unread,
                 trades_since_snapshot, shown, interrupted, signals, crashes,
                 failures>>

AppendRecord(t) ==
  /\ pc[t] = "append"
  /\ wal' = Append(wal, request[t])
  /\ Goto(t, "newline")
  /\ UNCHANGED <<vars, mode, request, counted, captured, temp, saved, unread,
                 trades_since_snapshot, history>>

(* The newline is written and the file synced. *)
AppendNewLine(t) ==
  /\ pc[t] = "newline"
  /\ wal' = Append(wal, NewLine)
  /\ Goto(t, "apply")
  /\ UNCHANGED <<vars, mode, request, counted, captured, temp, saved, unread,
                 trades_since_snapshot, history>>

(* An error of the log: the request is refused, its record may be written. *)
AppendFails(t) ==
  /\ failures < MaxFailures
  /\ failures' = failures + 1
  /\ pc[t] \in {"append", "newline"}
  /\ Goto(t, "ready")
  /\ UNCHANGED <<vars, mode, request, counted, captured, files, unread,
                 trades_since_snapshot, shown, interrupted, requests, signals,
                 crashes>>

-----------------------------------------------------------------------------
(* submit_order and cancel_order: under the book's mutex *)

Submit(t) ==
  /\ pc[t] = "apply" /\ request[t].type = "Submit"
  /\ phase = "idle"
  /\ Enter(request[t].order)
  /\ Goto(t, "holding")
  /\ UNCHANGED <<fills, cascade, mode, request, counted, captured, files, unread,
                 trades_since_snapshot, history>>

Work(t) ==
  /\ pc[t] = "holding"
  /\ \/ FillBest \/ PreventSelfTrade \/ Finish
     \/ PopTriggerPrice \/ DrainStop \/ SubmitTriggered
  /\ UNCHANGED engine

(* Mutant of ReleaseBook: the mutex is kept while trades are counted. *)
ReleaseLate(t) ==
  /\ pc[t] = "holding"
  /\ phase = "triggering"
  /\ ready = << >> /\ drained = << >> /\ triggerPrices = << >>
  /\ counted' = [counted EXCEPT ![t] = tradeCount]
  /\ IF tradeCount > 0
     THEN Goto(t, "count") /\ UNCHANGED <<vars, shown, interrupted>>
     ELSE Release /\ Goto(t, "ready") /\ shown' = ToSnapshot /\ interrupted' = FALSE
  /\ UNCHANGED <<mode, request, captured, files, unread, trades_since_snapshot,
                 requests, signals, crashes, failures>>

(* The mutex is released; trades are counted before the reply is sent. *)
ReleaseBook(t) ==
  /\ pc[t] = "holding"
  /\ Release
  /\ counted' = [counted EXCEPT ![t] = tradeCount]
  /\ shown' = ToSnapshot /\ interrupted' = FALSE
  /\ Goto(t, IF tradeCount > 0 THEN "count" ELSE "ready")
  /\ UNCHANGED <<mode, request, captured, files, unread, trades_since_snapshot,
                 requests, signals, crashes, failures>>

(* OrderBook::cancel for any identifier and user: a resting order, a stop  *)
(* order, or neither.                                                      *)
CancelOf(id, user) ==
  LET rests(o) == o.id = id /\ o.user = user
  IN \/ /\ \E o \in RestingOrders : rests(o)
        /\ CancelAtLevel(id)
     \/ \E i \in DOMAIN stopOrders : rests(stopOrders[i]) /\ CancelStopAt(i)
     \/ /\ ~\E o \in RestingOrders \cup Range(stopOrders) : rests(o)
        /\ UNCHANGED book

Cancel(t) ==
  /\ pc[t] = "apply" /\ request[t].type = "Cancel"
  /\ phase = "idle"
  /\ CancelOf(request[t].id, request[t].user)
  /\ shown' = ToSnapshot' /\ interrupted' = FALSE
  /\ Goto(t, "ready")
  /\ UNCHANGED <<phase, incoming, fills, report, cascade, mode, request, counted,
                 captured, files, unread, trades_since_snapshot, requests,
                 signals, crashes, failures>>

-----------------------------------------------------------------------------
(* record_trade_count and snapshot_to_disk *)

CountTrades(t) ==
  /\ pc[t] = "count"
  /\ LET sum == trades_since_snapshot + counted[t]
     IN IF sum >= snapshot_interval_trades
        THEN trades_since_snapshot' = 0 /\ Goto(t, "capture")
        ELSE trades_since_snapshot' = sum /\ Goto(t, "ready")
  /\ UNCHANGED <<vars, mode, request, counted, captured, files, unread, history>>

(* The signal to stop: the snapshot is taken while requests are served. *)
Signal ==
  /\ mode = "running" /\ pc[Main] = "ready"
  /\ signals < MaxSignals
  /\ signals' = signals + 1
  /\ Goto(Main, "capture")
  /\ UNCHANGED <<vars, mode, request, counted, captured, files, unread,
                 trades_since_snapshot, shown, interrupted, requests, crashes,
                 failures>>

(* Mutant of Capture: the log is emptied before the snapshot is on disk. *)
CaptureAndTruncate(t) ==
  /\ pc[t] = "capture"
  /\ phase = "idle"
  /\ captured' = [captured EXCEPT ![t] = ToSnapshot]
  /\ wal' = << >>
  /\ Goto(t, "write")
  /\ UNCHANGED <<vars, mode, request, counted, temp, saved, unread,
                 trades_since_snapshot, history>>

Capture(t) ==
  /\ pc[t] = "capture"
  /\ phase = "idle"
  /\ captured' = [captured EXCEPT ![t] = ToSnapshot]
  /\ Goto(t, "write")
  /\ UNCHANGED <<vars, mode, request, counted, files, unread,
                 trades_since_snapshot, history>>

WriteTemp(t) ==
  /\ pc[t] = "write"
  /\ temp' = captured[t]
  /\ captured' = [captured EXCEPT ![t] = NoFile]
  /\ Goto(t, "rename")
  /\ UNCHANGED <<vars, mode, request, counted, wal, saved, unread,
                 trades_since_snapshot, history>>

(* All threads use one temporary file: another may have renamed it. *)
Rename(t) ==
  /\ pc[t] = "rename"
  /\ IF temp = NoFile THEN AfterSnapshot(t) /\ UNCHANGED <<temp, saved>>
     ELSE saved' = temp /\ temp' = NoFile /\ Goto(t, "truncate")
  /\ UNCHANGED <<vars, mode, request, counted, captured, wal, unread,
                 trades_since_snapshot, history>>

Truncate(t) ==
  /\ pc[t] = "truncate"
  /\ wal' = << >>
  /\ AfterSnapshot(t)
  /\ UNCHANGED <<vars, mode, request, counted, captured, temp, saved, unread,
                 trades_since_snapshot, history>>

(* An error of the file system: the rest of snapshot_to_disk is left out. *)
SnapshotFails(t) ==
  /\ failures < MaxFailures
  /\ failures' = failures + 1
  /\ pc[t] \in {"write", "rename", "truncate"}
  /\ captured' = [captured EXCEPT ![t] = NoFile]
  /\ AfterSnapshot(t)
  /\ UNCHANGED <<vars, mode, request, counted, files, unread,
                 trades_since_snapshot, shown, interrupted, requests, signals,
                 crashes>>

-----------------------------------------------------------------------------
(* The process stops and starts again: with_persistence *)

(* The book is loaded from the snapshot and the log read from its start. *)
Restart ==
  LET file == IF saved = NoFile THEN EmptySnapshot ELSE saved
  IN /\ levels' = RestoredLevels(file.queues)
     /\ orderIndex' = RestoredIndex(file.queues)
     /\ stopOrders' = file.stopOrders
     /\ status' = file.status
     /\ auditLog' = file.auditLog
     /\ nextSequence' = file.nextSequence
     /\ phase' = "idle" /\ incoming' = NoOrder /\ fills' = << >>
     /\ report' = NoReport /\ triggerPrices' = << >> /\ lastPrice' = NoPrice
     /\ drained' = << >> /\ ready' = << >> /\ tradeCount' = 0
     /\ mode' = "replaying"
     /\ pc' = [t \in Threads |-> "ready"]
     /\ request' = [t \in Threads |-> NoRequest]
     /\ counted' = [t \in Threads |-> 0]
     /\ captured' = [t \in Threads |-> NoFile]
     /\ unread' = wal
     /\ trades_since_snapshot' = 0
     /\ UNCHANGED <<files, shown, requests, signals, failures>>

(* The process dies, wherever its threads are. *)
Crash ==
  /\ crashes < MaxCrashes
  /\ crashes' = crashes + 1
  /\ interrupted' = (interrupted \/
       \E t \in Clients : pc[t] \in {"newline", "apply", "holding"})
  /\ Restart

(* The process ends once the snapshot is done and all requests answered. *)
Exit ==
  /\ pc[Main] = "stopping"
  /\ \A t \in Clients : pc[t] = "ready"
  /\ UNCHANGED <<interrupted, crashes>>
  /\ Restart

(* Where the first line of the unread part of the log ends. *)
LineEnd ==
  IF NewLine \in Range(unread)
  THEN CHOOSE i \in DOMAIN unread :
         unread[i] = NewLine /\ \A j \in 1 .. i - 1 : unread[j] # NewLine
  ELSE Len(unread) + 1

(* Mutant of ReplayLine: cancellations are not replayed. *)
ReplaySubmits ==
  /\ mode = "replaying" /\ phase = "idle" /\ unread # << >>
  /\ unread' = SubSeq(unread, LineEnd + 1, Len(unread))
  /\ IF LineEnd = 2 /\ unread[1].type = "Submit"
     THEN Enter(unread[1].order) /\ UNCHANGED <<fills, cascade>>
     ELSE UNCHANGED vars
  /\ UNCHANGED <<mode, pc, request, counted, captured, files,
                 trades_since_snapshot, history>>

(* Mutant of ReplayLine: a line that cannot be read is an error. *)
ReplayStrictly ==
  /\ mode = "replaying" /\ phase = "idle" /\ unread # << >>
  /\ LineEnd <= 2
  /\ unread' = SubSeq(unread, LineEnd + 1, Len(unread))
  /\ IF LineEnd # 2 THEN UNCHANGED vars
     ELSE IF unread[1].type = "Submit"
     THEN Enter(unread[1].order) /\ UNCHANGED <<fills, cascade>>
     ELSE /\ CancelOf(unread[1].id, unread[1].user)
          /\ UNCHANGED <<phase, incoming, fills, report, cascade>>
  /\ UNCHANGED <<mode, pc, request, counted, captured, files,
                 trades_since_snapshot, history>>

(* A line with one record is applied; an empty one, or one where the       *)
(* records of two threads ran together, is skipped.                        *)
ReplayLine ==
  /\ mode = "replaying" /\ phase = "idle" /\ unread # << >>
  /\ unread' = SubSeq(unread, LineEnd + 1, Len(unread))
  /\ IF LineEnd # 2 THEN UNCHANGED vars
     ELSE IF unread[1].type = "Submit"
     THEN Enter(unread[1].order) /\ UNCHANGED <<fills, cascade>>
     ELSE /\ CancelOf(unread[1].id, unread[1].user)
          /\ UNCHANGED <<phase, incoming, fills, report, cascade>>
  /\ UNCHANGED <<mode, pc, request, counted, captured, files,
                 trades_since_snapshot, history>>

ReplayWork ==
  /\ mode = "replaying"
  /\ FillBest \/ PreventSelfTrade \/ Finish
  /\ UNCHANGED engine

(* The report of a replayed order is dropped; no stop order is triggered. *)
ReplayNext ==
  /\ mode = "replaying" /\ phase = "triggering"
  /\ phase' = "idle" /\ report' = NoReport
  /\ triggerPrices' = << >> /\ tradeCount' = 0
  /\ UNCHANGED <<book, incoming, fills, lastPrice, drained, ready, engine>>

Serve ==
  /\ mode = "replaying" /\ phase = "idle" /\ unread = << >>
  /\ mode' = "running"
  /\ UNCHANGED <<vars, pc, request, counted, captured, files, unread,
                 trades_since_snapshot, history>>

-----------------------------------------------------------------------------
ClientStep(t) ==
  \/ AppendRecord(t) \/ AppendNewLine(t)
  \/ Submit(t) \/ Work(t) \/ ReleaseBook(t) \/ Cancel(t)
  \/ CountTrades(t)

SnapshotStep(t) == Capture(t) \/ WriteTemp(t) \/ Rename(t) \/ Truncate(t)

RecoveryStep == ReplayLine \/ ReplayWork \/ ReplayNext \/ Serve

EngineNext ==
  \/ \E t \in Clients : StartRequest(t) \/ ClientStep(t) \/ AppendFails(t)
  \/ \E t \in Threads : SnapshotStep(t) \/ SnapshotFails(t)
  \/ Signal \/ Crash \/ Exit \/ RecoveryStep

EngineSpec == EngineInit /\ [][EngineNext]_allVars

(* Threads are scheduled; the mutexes are held for a bounded time.  The    *)
(* requests are bounded, so that a thread that waits for the mutex gets it *)
(* with weak fairness.                                                     *)
EngineFairSpec ==
  /\ EngineSpec
  /\ \A t \in Clients : WF_allVars(ClientStep(t))
  /\ \A t \in Threads : WF_allVars(SnapshotStep(t))
  /\ WF_allVars(RecoveryStep)

-----------------------------------------------------------------------------
(* Properties *)

Record == [type: {"Submit"}, order: Requests]
            \cup [type: {"Cancel"}, id: OrderIds, user: Users]

(* The variables of the threads and the files have their types, and the    *)
(* book's mutex has a holder whenever the book is not idle.                *)
EngineTypeOK ==
  /\ TypeOK
  /\ mode \in {"running", "replaying"}
  /\ pc \in [Threads -> {"ready", "append", "newline", "apply", "holding", "count",
                         "capture", "write", "rename", "truncate", "stopping"}]
  /\ \A t \in Threads : request[t] \in Record \cup {NoRequest}
  /\ counted \in [Threads -> Nat]
  /\ Range(wal) \cup Range(unread) \subseteq Record \cup {NewLine}
  /\ trades_since_snapshot \in 0 .. snapshot_interval_trades - 1
  /\ mode = "running" =>
       Cardinality({t \in Clients : pc[t] = "holding"})
         = IF phase = "idle" THEN 0 ELSE 1

Running == mode = "running" /\ phase = "idle"

(* A restart that interrupted no request brings back the book that clients *)
(* saw: the same levels, queues, stop orders, statuses and fills, wherever *)
(* between the steps of a snapshot the process died.                       *)
RestartRestores ==
  Running /\ ~interrupted => ToSnapshot = shown

(* No restart takes back what a client could read of an order: the order   *)
(* stays known, its fills stay, and if it was closed it stays so.          *)
NothingTakenBack ==
  Running => \A id \in DOMAIN shown.status :
    /\ id \in DOMAIN status
    /\ status[id].filled >= shown.status[id].filled
    /\ shown.status[id].state \in Closed => status[id] = shown.status[id]

(* Whatever a crash, a shutdown or a file error has lost, run together or  *)
(* let in twice, the book that is served, restored or replayed is sound in *)
(* itself: levels, totals, index, live orders and fills agree.             *)
RestoredSound == LevelsSound /\ IndexAgrees /\ LiveOnce /\ FilledMatchesTrades

(* A request is answered, or ends with the process; threads that wait for  *)
(* the mutex of the book do not wait for one another.                      *)
EveryRequestAnswered ==
  \A t \in Clients : pc[t] # "ready" ~> pc[t] = "ready"

(* The log is read to its end and the service comes back.                  *)
ServiceComesBack == mode = "replaying" ~> mode = "running"
=============================================================================
