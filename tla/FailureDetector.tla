-------------------------- MODULE FailureDetector --------------------------
(***************************************************************************)
(* Heartbeats and failure detection: the sender of every storage node      *)
(* (pkg/node/heartbeat_sender.go), the heartbeat endpoint with UpsertNode, *)
(* and the detector loop (pkg/coordinator/failure_detector.go), which      *)
(* reads all rows, then the clock, and marks row by row what it read.      *)
(*                                                                         *)
(* A sender has one goroutine: while a heartbeat waits for its answer none *)
(* is sent, and of the ticks that pass meanwhile the ticker's channel      *)
(* keeps one.                                                              *)
(*                                                                         *)
(* Time is discrete.  Tick is held back by what must happen first, so the  *)
(* constants are upper bounds on delays: that is where the timing          *)
(* assumptions are.  One clock serves all processes.                       *)
(*                                                                         *)
(* alreadyOffline only decides what is printed, never what is marked or    *)
(* logged to system_logs, and is left out.                                 *)
(***************************************************************************)
EXTENDS Naturals, FiniteSets

CONSTANTS
    Node,
    Interval,   \* HEARTBEAT_INTERVAL_SECONDS of the nodes ...
    Check,      \* ... and of the coordinator: from sweep to sweep
    Timeout,    \* HEARTBEAT_TIMEOUT_SECONDS
    CallTime,   \* sendHeartbeat returns within CallTime: the walk through
                \* the files, and a call that the client's timeout ends
    Delay,      \* a heartbeat is recorded or lost within Delay
    Gap,        \* from the answer of GetAllNodes to time.Now()
    Sweep,      \* from the tick to the last MarkNodeOffline
    Losses,     \* heartbeats of a node lost in a row
    Failures,   \* bound: failures of each node in a behaviour
    DbErrors,   \* bound: failed statements of the detector
    Horizon     \* bound: the clock stops here

ASSUME TimingAssumption ==
    /\ Interval \in Nat \ {0} /\ Check \in Nat \ {0}
    /\ Timeout \in Nat /\ Check < Timeout
    /\ CallTime \in Nat /\ Delay \in Nat /\ Losses \in Nat
    /\ Gap \in Nat /\ Sweep \in Nat /\ Gap <= Sweep /\ Sweep <= Check

VARIABLES
    now,
    up,        \* the node's process runs
    since,     \* when it last started or failed
    beat,      \* its sender: what it does, its latest heartbeat, its ticker
    lost,      \* its heartbeats lost in a row
    inFlight,  \* heartbeats under way: node, begin of the call, timestamp
    row,       \* storage_nodes: status and last_heartbeat
    fd,        \* the detector: control state, copy of the rows, its clock
    failures,  \* how often the node has failed
    logged,    \* NODE_FAILURE entries written for it
    errors     \* failed statements of the detector so far

nodeVars == <<up, since, beat, lost, failures>>
vars == <<now, nodeVars, inFlight, row, fd, logged, errors>>

Sender == [doing: {"wait", "measure", "call"},
           began: Nat,        \* the latest call of sendHeartbeat
           due: Nat,          \* the ticker's next tick; 0 before it exists
           ticks: 0..1]       \* ticks in its channel, which holds one
NodeRow == [status: {"ONLINE", "OFFLINE"}, last: Nat]

TypeOK ==
    /\ now \in Nat
    /\ up \in [Node -> BOOLEAN] /\ since \in [Node -> Nat]
    /\ beat \in [Node -> Sender] /\ lost \in [Node -> Nat]
    /\ inFlight \subseteq Node \X Nat \X Nat
    /\ row \in [Node -> NodeRow]
    /\ fd \in [pc: {"idle", "clock", "sweep"}, next: Nat, started: Nat,
               at: Nat, rows: [Node -> NodeRow], todo: SUBSET Node]
    /\ failures \in [Node -> Nat] /\ logged \in [Node -> Nat]
    /\ errors \in Nat

Fresh == [n \in Node |-> [status |-> "ONLINE", last |-> 0]]

(* The nodes' latest heartbeats have just been recorded.                   *)
Init ==
    /\ now = 0
    /\ up = [n \in Node |-> TRUE] /\ since = [n \in Node |-> 0]
    /\ beat \in [Node -> {[doing |-> "wait", began |-> 0, due |-> d,
                            ticks |-> 0] : d \in 1..Interval}]
    /\ lost = [n \in Node |-> 0] /\ inFlight = {}
    /\ row = Fresh
    /\ fd = [pc |-> "idle", next |-> Check, started |-> 0, at |-> 0,
             rows |-> Fresh, todo |-> {}]
    /\ failures = [n \in Node |-> 0] /\ logged = [n \in Node |-> 0]
    /\ errors = 0

-----------------------------------------------------------------------------
(* Time passes when nothing is overdue.                                    *)

SenderWaits(s) ==
    /\ s.due # 0 => now < s.due
    /\ s.doing = "wait" => s.ticks = 0
    /\ s.doing # "wait" => now < s.began + CallTime
    /\ s.doing = "measure" => now < s.began + Delay

DetectorWaits ==
    CASE fd.pc = "idle"  -> now < fd.next + Sweep
      [] fd.pc = "clock" -> now < fd.started + Gap /\ now + Check < fd.next + Sweep
      [] fd.pc = "sweep" -> now + Check < fd.next + Sweep

Tick ==
    /\ now < Horizon
    /\ \A n \in Node : up[n] => SenderWaits(beat[n])
    /\ \A h \in inFlight : now < h[2] + Delay
    /\ DetectorWaits
    /\ now' = now + 1
    /\ UNCHANGED <<nodeVars, inFlight, row, fd, logged, errors>>

-----------------------------------------------------------------------------
(* Storage nodes.                                                          *)

(* time.NewTicker's goroutine: a tick that finds one in the channel is     *)
(* dropped.                                                                *)
TickerFires(n) ==
    /\ up[n] /\ beat[n].due # 0 /\ now = beat[n].due
    /\ beat' = [beat EXCEPT ![n].due = now + Interval, ![n].ticks = 1]
    /\ UNCHANGED <<now, up, since, lost, failures, inFlight, row, fd, logged, errors>>

(* Run receives the tick; sendHeartbeat first adds up the files.           *)
BeginHeartbeat(n) ==
    /\ up[n] /\ beat[n].doing = "wait" /\ beat[n].ticks = 1
    /\ beat' = [beat EXCEPT ![n].doing = "measure", ![n].began = now,
                            ![n].ticks = 0]
    /\ UNCHANGED <<now, up, since, lost, failures, inFlight, row, fd, logged, errors>>

(* The timestamp is taken and the heartbeat posted.                        *)
SendHeartbeat(n) ==
    /\ up[n] /\ beat[n].doing = "measure"
    /\ beat' = [beat EXCEPT ![n].doing = "call"]
    /\ inFlight' = inFlight \cup {<<n, beat[n].began, now>>}
    /\ UNCHANGED <<now, up, since, lost, failures, row, fd, logged, errors>>

(* client.Do returns, with an answer or with an error, which says nothing  *)
(* of what becomes of the heartbeat; after the first one the ticker is     *)
(* created.                                                                *)
CallReturns(n) ==
    /\ up[n] /\ beat[n].doing = "call"
    /\ beat' = [beat EXCEPT ![n].doing = "wait",
                            ![n].due = IF @ = 0 THEN now + Interval ELSE @]
    /\ UNCHANGED <<now, up, since, lost, failures, inFlight, row, fd, logged, errors>>

NodeFails(n) ==
    /\ up[n] /\ failures[n] < Failures
    /\ up' = [up EXCEPT ![n] = FALSE]
    /\ since' = [since EXCEPT ![n] = now]
    /\ beat' = [beat EXCEPT ![n].doing = "wait", ![n].due = 0, ![n].ticks = 0]
    /\ failures' = [failures EXCEPT ![n] = @ + 1]
    /\ UNCHANGED <<now, lost, inFlight, row, fd, logged, errors>>

(* Run sends a heartbeat at once.                                          *)
NodeStarts(n) ==
    /\ ~up[n]
    /\ up' = [up EXCEPT ![n] = TRUE]
    /\ since' = [since EXCEPT ![n] = now]
    /\ beat' = [beat EXCEPT ![n].doing = "measure", ![n].began = now]
    /\ UNCHANGED <<now, lost, failures, inFlight, row, fd, logged, errors>>

(* UpsertNode: whatever the order of arrival, the row takes the timestamp  *)
(* of the heartbeat and an OFFLINE node is ONLINE again.                   *)
HeartbeatRecorded(n, b, t) ==
    /\ <<n, b, t>> \in inFlight
    /\ inFlight' = inFlight \ {<<n, b, t>>}
    /\ row' = [row EXCEPT ![n] = [status |-> "ONLINE", last |-> t]]
    /\ lost' = [lost EXCEPT ![n] = 0]
    /\ UNCHANGED <<now, up, since, beat, failures, fd, logged, errors>>

(* The coordinator is not reached, or UpsertNode fails; not retried.       *)
HeartbeatLost(n, b, t) ==
    /\ <<n, b, t>> \in inFlight /\ lost[n] < Losses
    /\ inFlight' = inFlight \ {<<n, b, t>>}
    /\ lost' = [lost EXCEPT ![n] = @ + 1]
    /\ UNCHANGED <<now, up, since, beat, failures, row, fd, logged, errors>>

-----------------------------------------------------------------------------
(* Detect.                                                                 *)

(* GetAllNodes answers, some time after the tick.                          *)
ReadRows ==
    /\ fd.pc = "idle" /\ now >= fd.next
    /\ fd' = [fd EXCEPT !.pc = "clock", !.started = now, !.rows = row,
                        !.next = @ + Check]
    /\ UNCHANGED <<now, nodeVars, inFlight, row, logged, errors>>

(* GetAllNodes fails: the whole sweep is left to the next tick.            *)
ReadFails ==
    /\ fd.pc = "idle" /\ now >= fd.next /\ errors < DbErrors
    /\ fd' = [fd EXCEPT !.next = @ + Check]
    /\ errors' = errors + 1
    /\ UNCHANGED <<now, nodeVars, inFlight, row, logged>>

ReadClock ==
    /\ fd.pc = "clock"
    /\ fd' = [fd EXCEPT !.pc = "sweep", !.at = now, !.todo = Node]
    /\ UNCHANGED <<now, nodeVars, inFlight, row, logged, errors>>

(* Mutants of TimedOut: one unit too early, one too late.                  *)
TimedOutEarly(n) == fd.at >= fd.rows[n].last + Timeout
TimedOutLate(n) == fd.at > fd.rows[n].last + Timeout + 1

(* now.Sub(node.LastHeartbeat) > TimeoutSeconds, on the copy of the row.   *)
TimedOut(n) == fd.at > fd.rows[n].last + Timeout
(* Mutant of Failed: the status of the row is not looked at.               *)
FailedAgain(n) == TimedOut(n)

Failed(n) == fd.rows[n].status = "ONLINE" /\ TimedOut(n)

Examined(n) == fd' = [fd EXCEPT !.todo = @ \ {n}]

(* Mutant of MarkOffline: the status of a replica is written.              *)
MarkNodeLost(n) ==
    /\ fd.pc = "sweep" /\ n \in fd.todo /\ Failed(n)
    /\ row' = [row EXCEPT ![n].status = "LOST"]
    /\ logged' = [logged EXCEPT ![n] = @ + 1]
    /\ Examined(n)
    /\ UNCHANGED <<now, nodeVars, inFlight, errors>>

(* MarkNodeOffline does not look at the row again; then the log entry,     *)
(* whose failure is ignored.                                               *)
MarkOffline(n) ==
    /\ fd.pc = "sweep" /\ n \in fd.todo /\ Failed(n)
    /\ row' = [row EXCEPT ![n].status = "OFFLINE"]
    /\ logged' \in {logged, [logged EXCEPT ![n] = @ + 1]}
    /\ Examined(n)
    /\ UNCHANGED <<now, nodeVars, inFlight, errors>>

(* The statement fails, or takes effect without the detector knowing: left *)
(* to the next sweep.                                                      *)
MarkFails(n) ==
    /\ fd.pc = "sweep" /\ n \in fd.todo /\ Failed(n)
    /\ errors < DbErrors
    /\ errors' = errors + 1
    /\ row' \in {row, [row EXCEPT ![n].status = "OFFLINE"]}
    /\ Examined(n)
    /\ UNCHANGED <<now, nodeVars, inFlight, logged>>

(* The other three cases of the switch change no row.                      *)
SkipNode(n) ==
    /\ fd.pc = "sweep" /\ n \in fd.todo /\ ~Failed(n)
    /\ Examined(n)
    /\ UNCHANGED <<now, nodeVars, inFlight, row, logged, errors>>

DetectDone ==
    /\ fd.pc = "sweep" /\ fd.todo = {}
    /\ fd' = [fd EXCEPT !.pc = "idle", !.rows = Fresh, !.at = 0, !.started = 0]
    /\ UNCHANGED <<now, nodeVars, inFlight, row, logged, errors>>

Sends(n) == TickerFires(n) \/ BeginHeartbeat(n) \/ SendHeartbeat(n) \/ CallReturns(n)

Next ==
    \/ Tick
    \/ \E n \in Node : Sends(n) \/ NodeFails(n) \/ NodeStarts(n)
    \/ \E h \in inFlight : \/ HeartbeatRecorded(h[1], h[2], h[3])
                          \/ HeartbeatLost(h[1], h[2], h[3])
    \/ ReadRows \/ ReadFails \/ ReadClock \/ DetectDone
    \/ \E n \in Node : MarkOffline(n) \/ MarkFails(n) \/ SkipNode(n)

Spec == Init /\ [][Next]_vars

-----------------------------------------------------------------------------
(* Properties.                                                             *)

(* From one heartbeat to the next, and from the first to the second of a   *)
(* node that has started, whose ticker is not there yet.                   *)
Pause == IF CallTime > Interval THEN CallTime ELSE Interval
FirstPause == CallTime + Interval

(* The timeout covers the lost heartbeats and the next one, its way, the   *)
(* way of an older one that a restarted node overtook and that takes the   *)
(* row back, and the pause of the detector before it reads the clock.      *)
TimeoutIsLongEnough == Timeout >= Losses * Pause + FirstPause + 2 * Delay + Gap

(* A node that runs is ONLINE, but for a time after its start: until a     *)
(* heartbeat arrives, and once more when a sweep that read the row before  *)
(* that marks it OFFLINE after it.                                         *)
RecoveryTime == 2 * Losses * Pause + FirstPause + 2 * Delay + Sweep
UpMeansOnline ==
    TimeoutIsLongEnough =>
        \A n \in Node : up[n] /\ now > since[n] + RecoveryTime
                            => row[n].status = "ONLINE"

(* A node that has failed is OFFLINE after the timeout, one interval, and  *)
(* one more for every statement that failed, whether it was to read the    *)
(* rows or to mark one, and whichever heartbeat was recorded last.         *)
DetectionTime == Timeout + Check + Sweep
DownMeansOffline ==
    Delay <= Timeout =>
        \A n \in Node : ~up[n] /\ now > since[n] + DetectionTime + errors * Check
                            => row[n].status = "OFFLINE"

(* "Each ONLINE->OFFLINE transition is logged exactly once per failure     *)
(* event" (failure_detector.go:31): no more log entries than failures.  A  *)
(* timeout too short for lost or slow heartbeats, or for a sender that     *)
(* waits for its answers, marks a node that runs, and then its failure has *)
(* two entries.                                                            *)
LoggedOnce == TimeoutIsLongEnough => \A n \in Node : logged[n] <= failures[n]
=============================================================================
