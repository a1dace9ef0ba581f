----------------------- MODULE FailureDetector_proofs -----------------------
(***************************************************************************)
(* Proofs about FailureDetector, for every number of nodes and all values  *)
(* of the delays that TimingAssumption allows, calls that outlast the      *)
(* heartbeat interval among them: its types; that a node that has failed   *)
(* is OFFLINE in time; and, when the timeout is long enough, that a node   *)
(* that runs is ONLINE and that no failure has two entries in the log.     *)
(*                                                                         *)
(* The argument counts heartbeats.  A node's sender begins its heartbeats  *)
(* at most Pause apart, but for the second one.  Those that it sent after  *)
(* the one in its row and that are no longer under way have been lost, all *)
(* in a row, so they are Losses at most: Losses + 1 stretches of Pause     *)
(* without a recorded heartbeat cannot be.  From this follows how old a    *)
(* row can be when Detect reads it, and what the detector can still do to  *)
(* a node: the entries it Owes are never more than the failures that have  *)
(* none yet.                                                               *)
(*                                                                         *)
(* When the heartbeats were sent is not in the state: the invariant says   *)
(* that there is a history of them.                                        *)
(***************************************************************************)
EXTENDS FailureDetector, Integers, FiniteSetTheorems, TLAPS

-----------------------------------------------------------------------------
(* Types.                                                                  *)

Detector == [pc: {"idle", "clock", "sweep"}, next: Nat, started: Nat,
             at: Nat, rows: [Node -> NodeRow], todo: SUBSET Node]

LEMMA TypeStarts ==
    ASSUME Init PROVE TypeOK
<1>1. Fresh \in [Node -> NodeRow]
  BY DEF Fresh, NodeRow
<1>2. Check \in Nat /\ 1..Interval \subseteq Nat
  BY TimingAssumption
<1>3. fd \in Detector
  BY <1>1, <1>2 DEF Init, Detector
<1>4. beat \in [Node -> Sender]
  BY <1>2 DEF Init, Sender
<1> QED
  BY <1>1, <1>3, <1>4 DEF Init, TypeOK, Detector

LEMMA TypeKept ==
    ASSUME TypeOK, [Next]_vars PROVE TypeOK'
<1> USE DEF TypeOK
<1>1. Interval \in Nat /\ Check \in Nat /\ fd \in Detector
      /\ now + Interval \in Nat /\ fd.next + Check \in Nat
  BY TimingAssumption DEF Detector
<1>2. CASE Tick
  BY <1>2 DEF Tick, nodeVars
<1>3. ASSUME NEW n \in Node, Sends(n) PROVE TypeOK'
  <2>1. beat[n] \in Sender
    OBVIOUS
  <2>2. CASE TickerFires(n)
    <3>1. beat' \in [Node -> Sender]
      <4>1. now + Interval \in Nat /\ 1 \in 0..1
        BY <1>1
      <4>2. \A d \in Nat, i \in 0..1 : [beat[n] EXCEPT !.due = d, !.ticks = i] \in Sender
        BY <2>1 DEF Sender
      <4>3. [beat[n] EXCEPT !.due = now + Interval, !.ticks = 1] \in Sender
        BY <4>1, <4>2
      <4> QED BY <2>2, <4>3 DEF TickerFires
    <3> QED BY <2>2, <3>1 DEF TickerFires
  <2>3. CASE BeginHeartbeat(n)
    <3>1. beat' \in [Node -> Sender]
      BY <2>1, <2>3 DEF BeginHeartbeat, Sender
    <3> QED BY <2>3, <3>1 DEF BeginHeartbeat
  <2>4. CASE SendHeartbeat(n)
    <3>1. beat' \in [Node -> Sender]
      BY <2>1, <2>4 DEF SendHeartbeat, Sender
    <3>2. inFlight' \subseteq Node \X Nat \X Nat
      BY <2>1, <2>4 DEF SendHeartbeat, Sender
    <3> QED BY <2>4, <3>1, <3>2 DEF SendHeartbeat
  <2>5. CASE CallReturns(n)
    <3>1. beat' \in [Node -> Sender]
      BY <1>1, <2>1, <2>5 DEF CallReturns, Sender
    <3> QED BY <2>5, <3>1 DEF CallReturns
  <2> QED BY <1>3, <2>2, <2>3, <2>4, <2>5 DEF Sends
<1>4. ASSUME NEW n \in Node, NodeFails(n) \/ NodeStarts(n) PROVE TypeOK'
  <2>1. beat[n] \in Sender
    OBVIOUS
  <2>2. beat' \in [Node -> Sender]
    BY <1>4, <2>1 DEF NodeFails, NodeStarts, Sender
  <2>3. CASE NodeFails(n)
    BY <2>2, <2>3 DEF NodeFails
  <2>4. CASE NodeStarts(n)
    BY <2>2, <2>4 DEF NodeStarts
  <2> QED BY <1>4, <2>3, <2>4
<1>5. ASSUME NEW n \in Node, NEW b \in Nat, NEW t \in Nat,
             HeartbeatRecorded(n, b, t) \/ HeartbeatLost(n, b, t)
      PROVE  TypeOK'
  <2>1. row' \in [Node -> NodeRow]
    BY <1>5 DEF HeartbeatRecorded, HeartbeatLost, NodeRow
  <2>2. lost' \in [Node -> Nat]
    BY <1>5 DEF HeartbeatRecorded, HeartbeatLost
  <2> QED BY <1>5, <2>1, <2>2 DEF HeartbeatRecorded, HeartbeatLost
<1>6. CASE ReadRows
  <2>1. fd' \in Detector
    BY <1>1, <1>6 DEF ReadRows, Detector
  <2> QED BY <1>6, <2>1 DEF ReadRows, nodeVars, Detector
<1>7. CASE ReadFails
  <2>1. fd' \in Detector
    BY <1>1, <1>7 DEF ReadFails, Detector
  <2> QED BY <1>7, <2>1 DEF ReadFails, nodeVars, Detector
<1>8. CASE ReadClock
  <2>1. fd' \in Detector
    BY <1>1, <1>8 DEF ReadClock, Detector
  <2> QED BY <1>8, <2>1 DEF ReadClock, nodeVars, Detector
<1>9. CASE DetectDone
  <2>1. Fresh \in [Node -> NodeRow]
    BY DEF Fresh, NodeRow
  <2>2. fd' \in Detector
    BY <1>1, <1>9, <2>1 DEF DetectDone, Detector
  <2> QED BY <1>9, <2>2 DEF DetectDone, nodeVars, Detector
<1>10. ASSUME NEW n \in Node, MarkOffline(n) \/ MarkFails(n) \/ SkipNode(n) PROVE TypeOK'
  <2>1. Examined(n)
    BY <1>10 DEF MarkOffline, MarkFails, SkipNode
  <2>2. fd' \in Detector
    BY <1>1, <2>1 DEF Examined, Detector
  <2>3. row' \in [Node -> NodeRow]
    <3>1. row' \in {row, [row EXCEPT ![n].status = "OFFLINE"]}
      BY <1>10 DEF MarkOffline, MarkFails, SkipNode
    <3>2. [row EXCEPT ![n].status = "OFFLINE"] \in [Node -> NodeRow]
      BY DEF NodeRow
    <3> QED BY <3>1, <3>2
  <2>4. logged' \in [Node -> Nat] /\ errors' \in Nat
    BY <1>10 DEF MarkOffline, MarkFails, SkipNode
  <2> QED BY <1>10, <2>2, <2>3, <2>4
          DEF MarkOffline, MarkFails, SkipNode, nodeVars, Detector
<1>11. CASE UNCHANGED vars
  BY <1>11 DEF vars, nodeVars
<1>12. \A h \in inFlight : h[1] \in Node /\ h[2] \in Nat /\ h[3] \in Nat
  OBVIOUS
<1> QED
  BY <1>2, <1>3, <1>4, <1>5, <1>6, <1>7, <1>8, <1>9, <1>10, <1>11, <1>12 DEF Next

-----------------------------------------------------------------------------
(* What the steps of a sender and of its node do.                          *)

OthersSame(n) ==
    \A m \in Node \ {n} : up'[m] = up[m] /\ since'[m] = since[m] /\ beat'[m] = beat[m]

LEMMA TickerEffect ==
    ASSUME TypeOK, NEW n \in Node, TickerFires(n)
    PROVE  /\ UNCHANGED <<now, up, since, lost, failures, inFlight, row, fd, logged, errors>>
           /\ OthersSame(n) /\ up[n]
           /\ beat[n].due # 0 /\ now = beat[n].due
           /\ beat'[n].doing = beat[n].doing /\ beat'[n].began = beat[n].began
           /\ beat'[n].due = now + Interval /\ beat'[n].ticks = 1
BY DEF TickerFires, OthersSame, TypeOK, Sender

LEMMA BeginEffect ==
    ASSUME TypeOK, NEW n \in Node, BeginHeartbeat(n)
    PROVE  /\ UNCHANGED <<now, up, since, lost, failures, inFlight, row, fd, logged, errors>>
           /\ OthersSame(n) /\ up[n]
           /\ beat[n].doing = "wait" /\ beat[n].ticks = 1
           /\ beat'[n].doing = "measure" /\ beat'[n].began = now
           /\ beat'[n].due = beat[n].due /\ beat'[n].ticks = 0
BY DEF BeginHeartbeat, OthersSame, TypeOK, Sender

LEMMA SendEffect ==
    ASSUME TypeOK, NEW n \in Node, SendHeartbeat(n)
    PROVE  /\ UNCHANGED <<now, up, since, lost, failures, row, fd, logged, errors>>
           /\ OthersSame(n) /\ up[n]
           /\ inFlight' = inFlight \cup {<<n, beat[n].began, now>>}
           /\ beat[n].doing = "measure" /\ beat'[n].doing = "call"
           /\ beat'[n].began = beat[n].began
           /\ beat'[n].due = beat[n].due /\ beat'[n].ticks = beat[n].ticks
BY DEF SendHeartbeat, OthersSame, TypeOK, Sender

LEMMA ReturnEffect ==
    ASSUME TypeOK, NEW n \in Node, CallReturns(n)
    PROVE  /\ UNCHANGED <<now, up, since, lost, failures, inFlight, row, fd, logged, errors>>
           /\ OthersSame(n) /\ up[n]
           /\ beat[n].doing = "call" /\ beat'[n].doing = "wait"
           /\ beat'[n].began = beat[n].began /\ beat'[n].ticks = beat[n].ticks
           /\ beat'[n].due = IF beat[n].due = 0 THEN now + Interval ELSE beat[n].due
BY DEF CallReturns, OthersSame, TypeOK, Sender

LEMMA FailEffect ==
    ASSUME TypeOK, NEW n \in Node, NodeFails(n)
    PROVE  /\ UNCHANGED <<now, lost, inFlight, row, fd, logged, errors>>
           /\ OthersSame(n) /\ up[n] /\ ~up'[n] /\ since'[n] = now
           /\ failures'[n] = failures[n] + 1
           /\ beat'[n].due = 0 /\ beat'[n].ticks = 0
BY DEF NodeFails, OthersSame, TypeOK, Sender

LEMMA StartEffect ==
    ASSUME TypeOK, NEW n \in Node, NodeStarts(n)
    PROVE  /\ UNCHANGED <<now, lost, failures, inFlight, row, fd, logged, errors>>
           /\ OthersSame(n) /\ ~up[n] /\ up'[n] /\ since'[n] = now
           /\ beat'[n].doing = "measure" /\ beat'[n].began = now
           /\ beat'[n].due = beat[n].due /\ beat'[n].ticks = beat[n].ticks
BY DEF NodeStarts, OthersSame, TypeOK, Sender

-----------------------------------------------------------------------------
(* Time.                                                                   *)

(* When the node's next heartbeat begins at the latest.                    *)
NextBy(n) == beat[n].began + IF beat[n].began = since[n] THEN FirstPause ELSE Pause

(* What is under way is not overdue.                                       *)
SenderTimes(n) ==
    /\ since[n] <= beat[n].began /\ beat[n].began <= now
    /\ beat[n].doing # "wait" => now <= beat[n].began + CallTime
    /\ beat[n].doing = "measure" => now <= beat[n].began + Delay
    /\ beat[n].due # 0 => now <= beat[n].due /\ beat[n].due <= now + Interval
    /\ beat[n].due = 0 => /\ beat[n].doing # "wait" /\ beat[n].ticks = 0
                          /\ beat[n].began = since[n]
    /\ beat[n].doing = "wait" =>
         IF beat[n].ticks = 0 THEN beat[n].due <= NextBy(n) ELSE now <= NextBy(n)
    /\ beat[n].doing # "wait" /\ beat[n].ticks = 0 => beat[n].due <= beat[n].began + Interval
NodeTimes(n) ==
    /\ up[n] => SenderTimes(n)
    /\ ~up[n] => beat[n].due = 0 /\ beat[n].ticks = 0
    /\ since[n] <= now /\ lost[n] <= Losses
    /\ row[n].last <= now /\ fd.rows[n].last <= now
DetectorTimes ==
    /\ fd.pc = "idle" => fd.next <= now + Check /\ now <= fd.next + Sweep
    /\ fd.pc # "idle" => /\ fd.started <= now /\ fd.next <= fd.started + Check
                         /\ now + Check <= fd.next + Sweep
    /\ fd.pc = "clock" => now <= fd.started + Gap
    /\ fd.pc = "sweep" => /\ fd.started <= fd.at /\ fd.at <= now
                          /\ fd.at <= fd.started + Gap
HeartbeatTimes(h) == h[2] <= h[3] /\ h[3] <= now /\ now <= h[2] + Delay
Times ==
    /\ \A n \in Node : NodeTimes(n)
    /\ \A h \in inFlight : HeartbeatTimes(h)
    /\ DetectorTimes

(* The pauses of a sender; the first is longer by Warm.                    *)
Warm == FirstPause - Pause

LEMMA Pauses ==
    /\ Pause \in Nat \ {0} /\ Warm \in Nat /\ FirstPause = Pause + Warm
    /\ CallTime <= Pause /\ Interval <= Pause /\ FirstPause = CallTime + Interval
    /\ CallTime \in Nat /\ Interval \in Nat \ {0} /\ Check \in Nat \ {0}
    /\ Delay \in Nat /\ Gap \in Nat /\ Sweep \in Nat /\ Gap <= Sweep /\ Sweep <= Check
    /\ Losses \in Nat /\ Timeout \in Nat
BY TimingAssumption DEF Pause, FirstPause, Warm

LEMMA TypedNumbers ==
    ASSUME TypeOK
    PROVE  /\ now \in Nat /\ errors \in Nat
           /\ fd \in Detector /\ fd.next \in Nat /\ fd.started \in Nat /\ fd.at \in Nat
           /\ fd.pc \in {"idle", "clock", "sweep"} /\ fd.todo \subseteq Node
           /\ fd.rows \in [Node -> NodeRow]
           /\ \A n \in Node : /\ since[n] \in Nat /\ lost[n] \in Nat
                              /\ beat[n].began \in Nat /\ beat[n].due \in Nat
                              /\ beat[n].ticks \in 0..1
                              /\ beat[n].doing \in {"wait", "measure", "call"}
                              /\ row[n].last \in Nat /\ fd.rows[n].last \in Nat
                              /\ row[n].status \in {"ONLINE", "OFFLINE"}
                              /\ fd.rows[n].status \in {"ONLINE", "OFFLINE"}
           /\ \A h \in inFlight : /\ h[1] \in Node /\ h[2] \in Nat /\ h[3] \in Nat
                                  /\ h = <<h[1], h[2], h[3]>>
<1>1. fd \in Detector
  BY DEF TypeOK, Detector
<1>2. fd.next \in Nat /\ fd.started \in Nat /\ fd.at \in Nat
      /\ fd.pc \in {"idle", "clock", "sweep"} /\ fd.todo \subseteq Node
      /\ fd.rows \in [Node -> NodeRow]
  BY <1>1 DEF Detector
<1>3. ASSUME NEW n \in Node
      PROVE  /\ beat[n].began \in Nat /\ beat[n].due \in Nat /\ beat[n].ticks \in 0..1
             /\ beat[n].doing \in {"wait", "measure", "call"}
  BY DEF TypeOK, Sender
<1>4. ASSUME NEW n \in Node
      PROVE  /\ row[n].last \in Nat /\ row[n].status \in {"ONLINE", "OFFLINE"}
             /\ fd.rows[n].last \in Nat /\ fd.rows[n].status \in {"ONLINE", "OFFLINE"}
  <2>1. row[n] \in NodeRow /\ fd.rows[n] \in NodeRow
    BY <1>2 DEF TypeOK
  <2> QED BY <2>1 DEF NodeRow
<1>5. \A h \in inFlight : /\ h[1] \in Node /\ h[2] \in Nat /\ h[3] \in Nat
                          /\ h = <<h[1], h[2], h[3]>>
  BY DEF TypeOK
<1> QED
  BY <1>1, <1>2, <1>3, <1>4, <1>5 DEF TypeOK

LEMMA TimesStart ==
    ASSUME Init PROVE Times
<1>1. \A n \in Node : NodeTimes(n)
  <2> SUFFICES ASSUME NEW n \in Node PROVE NodeTimes(n)
    OBVIOUS
  <2>1. PICK d \in 1..Interval :
          beat[n] = [doing |-> "wait", began |-> 0, due |-> d, ticks |-> 0]
    BY DEF Init
  <2>2. NextBy(n) = FirstPause
    BY <2>1, Pauses DEF Init, NextBy
  <2>3. SenderTimes(n)
    BY <2>1, <2>2, Pauses DEF Init, SenderTimes
  <2> QED BY <2>3, Pauses DEF Init, NodeTimes, Fresh
<1>2. DetectorTimes
  BY Pauses DEF Init, DetectorTimes
<1> QED
  BY <1>1, <1>2 DEF Init, Times

(* The sender's own steps, and its start.                                  *)
LEMMA SenderKept ==
    ASSUME TypeOK, Times, NEW n \in Node, Sends(n) \/ NodeStarts(n)
    PROVE  SenderTimes(n)'
<1> USE Pauses, TypedNumbers
<1>1. up[n] => SenderTimes(n)
  BY DEF Times, NodeTimes
<1>2. ~up[n] => beat[n].due = 0 /\ beat[n].ticks = 0
  BY DEF Times, NodeTimes
<1>3. CASE TickerFires(n)
  <2>1. NextBy(n)' = NextBy(n)
    BY <1>3, TickerEffect DEF NextBy
  <2>2. NextBy(n) \in Nat
    BY DEF NextBy
  <2> QED BY <1>1, <1>3, <2>1, <2>2, TickerEffect DEF SenderTimes
<1>4. CASE BeginHeartbeat(n)
  <2>1. /\ up[n] /\ now' = now /\ since' = since
        /\ beat[n].doing = "wait" /\ beat'[n].doing = "measure"
        /\ beat'[n].began = now /\ beat'[n].due = beat[n].due /\ beat'[n].ticks = 0
    BY <1>4, BeginEffect
  <2> QED BY <1>1, <2>1 DEF SenderTimes
<1>5. CASE SendHeartbeat(n)
  <2>1. /\ up[n] /\ now' = now /\ since' = since
        /\ beat[n].doing = "measure" /\ beat'[n].doing = "call"
        /\ beat'[n].began = beat[n].began /\ beat'[n].due = beat[n].due
        /\ beat'[n].ticks = beat[n].ticks
    BY <1>5, SendEffect
  <2> QED BY <1>1, <2>1 DEF SenderTimes
<1>6. CASE CallReturns(n)
  <2>1. /\ up[n] /\ now' = now /\ since' = since
        /\ beat[n].doing = "call" /\ beat'[n].doing = "wait"
        /\ beat'[n].began = beat[n].began /\ beat'[n].ticks = beat[n].ticks
        /\ beat'[n].due = IF beat[n].due = 0 THEN now + Interval ELSE beat[n].due
    BY <1>6, ReturnEffect
  <2>2. NextBy(n)' = NextBy(n)
    BY <2>1 DEF NextBy
  <2>3. /\ NextBy(n) \in Nat /\ beat[n].began + Pause <= NextBy(n)
        /\ beat[n].began = since[n] => NextBy(n) = beat[n].began + CallTime + Interval
    BY DEF NextBy
  <2>4. SenderTimes(n)
    BY <1>1, <2>1
  <2>5. CASE beat[n].due = 0
    BY <2>1, <2>2, <2>3, <2>4, <2>5 DEF SenderTimes
  <2>6. CASE beat[n].due # 0
    BY <2>1, <2>2, <2>3, <2>4, <2>6 DEF SenderTimes
  <2> QED BY <2>5, <2>6
<1>7. CASE NodeStarts(n)
  <2>1. /\ ~up[n] /\ now' = now /\ since'[n] = now
        /\ beat'[n].doing = "measure" /\ beat'[n].began = now
        /\ beat'[n].due = beat[n].due /\ beat'[n].ticks = beat[n].ticks
    BY <1>7, StartEffect
  <2> QED BY <1>2, <2>1 DEF SenderTimes
<1> QED
  BY <1>3, <1>4, <1>5, <1>6, <1>7 DEF Sends

LEMMA TimesKept ==
    ASSUME TypeOK, TypeOK', Times, [Next]_vars PROVE Times'
<1> USE Pauses, TypedNumbers
<1>1. /\ \A n \in Node : NodeTimes(n)
      /\ \A h \in inFlight : HeartbeatTimes(h)
      /\ DetectorTimes
  BY DEF Times
<1>2. CASE Tick
  <2>1. /\ now' = now + 1 /\ UNCHANGED <<up, since, beat, lost, inFlight, row, fd>>
        /\ \A n \in Node : up[n] => SenderWaits(beat[n])
        /\ \A h \in inFlight : now < h[2] + Delay
        /\ DetectorWaits
    BY <1>2 DEF Tick, nodeVars
  <2>2. ASSUME NEW n \in Node PROVE NodeTimes(n)'
    <3>1. ASSUME up[n] PROVE SenderTimes(n)'
      <4>1. SenderWaits(beat[n]) /\ SenderTimes(n) /\ NextBy(n)' = NextBy(n)
        BY <1>1, <2>1, <3>1 DEF NodeTimes, NextBy
      <4> QED BY <2>1, <4>1 DEF SenderTimes, SenderWaits
    <3> QED BY <1>1, <2>1, <3>1 DEF NodeTimes
  <2>3. \A h \in inFlight : HeartbeatTimes(h)'
    BY <1>1, <2>1 DEF HeartbeatTimes
  <2>4. DetectorTimes'
    <3>1. CASE fd.pc = "idle"
      BY <1>1, <2>1, <3>1 DEF DetectorTimes, DetectorWaits
    <3>2. CASE fd.pc = "clock"
      BY <1>1, <2>1, <3>2 DEF DetectorTimes, DetectorWaits
    <3>3. CASE fd.pc = "sweep"
      BY <1>1, <2>1, <3>3 DEF DetectorTimes, DetectorWaits
    <3> QED BY <3>1, <3>2, <3>3
  <2> QED BY <2>1, <2>2, <2>3, <2>4 DEF Times
<1>3. ASSUME NEW m \in Node, Sends(m) \/ NodeStarts(m) PROVE Times'
  <2>1. UNCHANGED <<now, lost, row, fd>> /\ OthersSame(m) /\ up'[m]
    BY <1>3, TickerEffect, BeginEffect, SendEffect, ReturnEffect, StartEffect DEF Sends
  <2>2. ASSUME NEW n \in Node PROVE NodeTimes(n)'
    <3>1. CASE n = m
      <4>1. SenderTimes(n)'
        BY <1>3, <3>1, SenderKept
      <4>2. since'[n] <= now
        <5>1. beat'[n].began \in Nat /\ since'[n] \in Nat
          BY DEF TypeOK, Sender
        <5>2. since'[n] <= beat'[n].began /\ beat'[n].began <= now
          BY <2>1, <4>1 DEF SenderTimes
        <5> QED BY <5>1, <5>2
      <4> QED BY <1>1, <2>1, <3>1, <4>1, <4>2 DEF NodeTimes
    <3>2. CASE n # m
      <4>1. up'[n] = up[n] /\ since'[n] = since[n] /\ beat'[n] = beat[n]
        BY <2>1, <3>2 DEF OthersSame
      <4>2. SenderTimes(n) => SenderTimes(n)'
        BY <2>1, <4>1 DEF SenderTimes, NextBy
      <4> QED BY <1>1, <2>1, <4>1, <4>2 DEF NodeTimes
    <3> QED BY <3>1, <3>2
  <2>3. ASSUME NEW h \in inFlight' PROVE HeartbeatTimes(h)'
    <3>1. CASE h \in inFlight
      BY <1>1, <2>1, <3>1 DEF HeartbeatTimes
    <3>2. CASE h \notin inFlight
      <4>1. SendHeartbeat(m) /\ h = <<m, beat[m].began, now>>
        BY <1>3, <2>3, <3>2, TickerEffect, BeginEffect, SendEffect, ReturnEffect, StartEffect
           DEF Sends
      <4>2. up[m] /\ beat[m].doing = "measure"
        BY <4>1, SendEffect
      <4> QED BY <1>1, <2>1, <4>1, <4>2 DEF HeartbeatTimes, NodeTimes, SenderTimes
    <3> QED BY <3>1, <3>2
  <2> QED BY <1>1, <2>1, <2>2, <2>3 DEF Times, DetectorTimes
<1>4. ASSUME NEW m \in Node, NodeFails(m) PROVE Times'
  <2>1. /\ UNCHANGED <<now, lost, inFlight, row, fd>> /\ OthersSame(m)
        /\ ~up'[m] /\ since'[m] = now /\ beat'[m].due = 0 /\ beat'[m].ticks = 0
    BY <1>4, FailEffect
  <2>2. ASSUME NEW n \in Node PROVE NodeTimes(n)'
    <3>1. CASE n = m
      BY <1>1, <2>1, <3>1 DEF NodeTimes
    <3>2. CASE n # m
      <4>1. up'[n] = up[n] /\ since'[n] = since[n] /\ beat'[n] = beat[n]
        BY <2>1, <3>2 DEF OthersSame
      <4>2. SenderTimes(n) => SenderTimes(n)'
        BY <2>1, <4>1 DEF SenderTimes, NextBy
      <4> QED BY <1>1, <2>1, <4>1, <4>2 DEF NodeTimes
    <3> QED BY <3>1, <3>2
  <2> QED BY <1>1, <2>1, <2>2 DEF Times, DetectorTimes, HeartbeatTimes
<1>5. ASSUME NEW h \in inFlight,
             HeartbeatRecorded(h[1], h[2], h[3]) \/ HeartbeatLost(h[1], h[2], h[3])
      PROVE  Times'
  <2>1. UNCHANGED <<now, up, since, beat, fd>> /\ inFlight' \subseteq inFlight
    BY <1>5 DEF HeartbeatRecorded, HeartbeatLost
  <2>2. ASSUME NEW n \in Node
        PROVE  lost'[n] <= Losses /\ row'[n].last \in {row[n].last, h[3]}
    <3>1. CASE HeartbeatRecorded(h[1], h[2], h[3])
      <4>1. lost' = [lost EXCEPT ![h[1]] = 0]
            /\ row' = [row EXCEPT ![h[1]] = [status |-> "ONLINE", last |-> h[3]]]
        BY <3>1 DEF HeartbeatRecorded
      <4> QED BY <1>1, <4>1 DEF NodeTimes, TypeOK
    <3>2. CASE HeartbeatLost(h[1], h[2], h[3])
      <4>1. lost' = [lost EXCEPT ![h[1]] = @ + 1] /\ lost[h[1]] < Losses /\ row' = row
        BY <3>2 DEF HeartbeatLost
      <4> QED BY <1>1, <4>1 DEF NodeTimes, TypeOK
    <3> QED BY <1>5, <3>1, <3>2
  <2>3. ASSUME NEW n \in Node PROVE NodeTimes(n)'
    <3>1. SenderTimes(n) => SenderTimes(n)'
      BY <2>1 DEF SenderTimes, NextBy
    <3> QED BY <1>1, <2>1, <2>2, <3>1 DEF NodeTimes, HeartbeatTimes
  <2> QED BY <1>1, <2>1, <2>3 DEF Times, DetectorTimes, HeartbeatTimes
<1>6. ASSUME UNCHANGED <<now, up, since, beat, lost, inFlight>>, DetectorTimes',
             \A n \in Node : /\ row'[n].last = row[n].last
                             /\ fd'.rows[n].last \in {fd.rows[n].last, row[n].last, 0}
      PROVE  Times'
  <2>1. ASSUME NEW n \in Node PROVE NodeTimes(n)'
    <3>1. SenderTimes(n) => SenderTimes(n)'
      BY <1>6 DEF SenderTimes, NextBy
    <3> QED BY <1>1, <1>6, <3>1 DEF NodeTimes
  <2> QED BY <1>1, <1>6, <2>1 DEF Times, HeartbeatTimes
<1>7. CASE ReadRows
  <2>1. /\ UNCHANGED <<now, up, since, beat, lost, inFlight, row>>
        /\ fd.pc = "idle" /\ now >= fd.next
        /\ fd' = [fd EXCEPT !.pc = "clock", !.started = now, !.rows = row,
                            !.next = @ + Check]
    BY <1>7 DEF ReadRows, nodeVars
  <2>2. fd'.pc = "clock" /\ fd'.started = now /\ fd'.rows = row /\ fd'.next = fd.next + Check
    BY <2>1 DEF Detector
  <2>3. DetectorTimes'
    BY <1>1, <2>1, <2>2 DEF DetectorTimes
  <2> QED BY <1>6, <2>1, <2>2, <2>3
<1>8. CASE ReadFails
  <2>1. /\ UNCHANGED <<now, up, since, beat, lost, inFlight, row>>
        /\ fd.pc = "idle" /\ now >= fd.next /\ fd' = [fd EXCEPT !.next = @ + Check]
    BY <1>8 DEF ReadFails, nodeVars
  <2>2. fd'.pc = "idle" /\ fd'.rows = fd.rows /\ fd'.next = fd.next + Check
    BY <2>1 DEF Detector
  <2>3. DetectorTimes'
    BY <1>1, <2>1, <2>2 DEF DetectorTimes
  <2> QED BY <1>6, <2>1, <2>2, <2>3
<1>9. CASE ReadClock
  <2>1. /\ UNCHANGED <<now, up, since, beat, lost, inFlight, row>>
        /\ fd.pc = "clock"
        /\ fd' = [fd EXCEPT !.pc = "sweep", !.at = now, !.todo = Node]
    BY <1>9 DEF ReadClock, nodeVars
  <2>2. fd'.pc = "sweep" /\ fd'.started = fd.started /\ fd'.rows = fd.rows
        /\ fd'.next = fd.next /\ fd'.at = now
    BY <2>1 DEF Detector
  <2>3. DetectorTimes'
    BY <1>1, <2>1, <2>2 DEF DetectorTimes
  <2> QED BY <1>6, <2>1, <2>2, <2>3
<1>10. CASE DetectDone
  <2>1. /\ UNCHANGED <<now, up, since, beat, lost, inFlight, row>>
        /\ fd.pc = "sweep"
        /\ fd' = [fd EXCEPT !.pc = "idle", !.rows = Fresh, !.at = 0, !.started = 0]
    BY <1>10 DEF DetectDone, nodeVars
  <2>2. fd'.pc = "idle" /\ fd'.rows = Fresh /\ fd'.next = fd.next
    BY <2>1 DEF Detector
  <2>3. DetectorTimes' /\ \A n \in Node : fd'.rows[n].last = 0
    BY <1>1, <2>1, <2>2 DEF DetectorTimes, Fresh
  <2> QED BY <1>6, <2>1, <2>3
<1>11. ASSUME NEW m \in Node, MarkOffline(m) \/ MarkFails(m) \/ SkipNode(m) PROVE Times'
  <2>1. /\ UNCHANGED <<now, up, since, beat, lost, inFlight>>
        /\ fd' = [fd EXCEPT !.todo = @ \ {m}]
        /\ row' = row \/ row' = [row EXCEPT ![m].status = "OFFLINE"]
    BY <1>11 DEF MarkOffline, MarkFails, SkipNode, nodeVars, Examined
  <2>2. fd'.pc = fd.pc /\ fd'.started = fd.started /\ fd'.rows = fd.rows
        /\ fd'.next = fd.next /\ fd'.at = fd.at
    BY <2>1 DEF Detector
  <2>3. ASSUME NEW n \in Node PROVE row'[n].last = row[n].last
    <3>1. row \in [Node -> NodeRow] /\ row[n] \in NodeRow /\ row[m] \in NodeRow
      BY DEF TypeOK
    <3> QED BY <2>1, <3>1 DEF NodeRow
  <2>4. DetectorTimes'
    BY <1>1, <2>1, <2>2 DEF DetectorTimes
  <2> QED BY <1>6, <2>1, <2>2, <2>3, <2>4
<1>12. CASE UNCHANGED vars
  <2>1. DetectorTimes'
    BY <1>1, <1>12 DEF vars, DetectorTimes
  <2> QED BY <1>6, <1>12, <2>1 DEF vars, nodeVars
<1> QED
  BY <1>2, <1>3, <1>4, <1>5, <1>7, <1>8, <1>9, <1>10, <1>11, <1>12 DEF Next

-----------------------------------------------------------------------------
(* Heartbeats that are missing.                                            *)

(* Of the heartbeats that were begun and sent at the times S, those, at or *)
(* after x, of which nothing is under way.                                 *)
UnderWay(n, p) == \E t \in Nat : <<n, p, t>> \in inFlight
Missing(n, S, x) == {p \in S : p >= x /\ ~UnderWay(n, p)}
Enough(n, S, x) == Cardinality(Missing(n, S, x)) <= lost[n]

(* What the node has begun: one that it still measures for is not sent.    *)
Begun(n, S) == IF up[n] THEN S \cup {beat[n].began} ELSE S

(* Between two of its heartbeats there is no more than Pause, but for the  *)
(* first two.                                                              *)
Dense(b, S) ==
    \A y \in Nat : y >= b + Warm /\ (\E s \in S : s > y)
                       => \E q \in S : y < q /\ q <= y + Pause

(* S is a history of what node n has sent since it started at b.           *)
History(n, b, S) ==
    /\ S \in SUBSET (0..now)
    /\ up[n] => /\ b = since[n] /\ b \in Begun(n, S)
                /\ \A p \in S : p <= beat[n].began
                /\ beat[n].doing # "measure" => beat[n].began \in S
    /\ \A p \in Nat : UnderWay(n, p) /\ p > b => p \in S
    /\ Dense(b, Begun(n, S))

LEMMA MissingIsFinite ==
    ASSUME TypeOK, NEW n, NEW S \in SUBSET (0..now), NEW x
    PROVE  /\ IsFiniteSet(Missing(n, S, x)) /\ Cardinality(Missing(n, S, x)) \in Nat
           /\ \A M \in SUBSET Missing(n, S, x) :
                  /\ IsFiniteSet(M) /\ Cardinality(M) \in Nat
                  /\ Cardinality(M) <= Cardinality(Missing(n, S, x))
<1>1. IsFiniteSet(0..now)
  BY TypedNumbers, FS_Interval
<1>2. Missing(n, S, x) \subseteq 0..now
  BY DEF Missing
<1>3. IsFiniteSet(Missing(n, S, x))
  BY <1>1, <1>2, FS_Subset
<1> QED
  BY <1>3, FS_Subset, FS_CardinalityType

LEMMA NoneMissing ==
    ASSUME TypeOK, NEW n \in Node, NEW S \in SUBSET (0..now), NEW x \in Nat, x > now
    PROVE  Missing(n, S, x) = {} /\ Enough(n, S, x)
<1>1. Missing(n, S, x) = {}
  BY TypedNumbers DEF Missing
<1> QED
  BY <1>1, FS_EmptySet, TypedNumbers DEF Enough

LEMMA Numbered ==
    ASSUME NEW k \in Nat
    PROVE  Cardinality(1..k) = k /\ \A i, j \in 1..k : i = j \/ i < j \/ j < i
<1>1. 1 \in Int /\ k \in Int
  OBVIOUS
<1>2. Cardinality(1..k) = IF 1 > k THEN 0 ELSE k - 1 + 1
  BY <1>1, FS_Interval
<1>3. Cardinality(1..k) = k
  BY <1>2
<1>4. \A i, j \in Int : i = j \/ i < j \/ j < i
  OBVIOUS
<1>5. 1..k \subseteq Int
  OBVIOUS
<1> QED
  BY <1>3, <1>4, <1>5

(* In k stretches of Pause, from y on, of which nothing can be under way   *)
(* any more, at least k heartbeats are missing.                            *)
LEMMA StretchesAreMissing ==
    ASSUME TypeOK, Times, NEW n \in Node, NEW b \in Nat, NEW S, History(n, b, S),
           up[n] \/ \E p \in Nat : UnderWay(n, p),
           NEW x \in Nat, NEW y \in Nat, NEW k \in Nat, y >= b + Warm, y + 1 >= x,
           y + k * Pause + Delay < now
    PROVE  \E M \in SUBSET Missing(n, S, x) :
               k <= Cardinality(M) /\ IsFiniteSet(M) /\ \A p \in M : p > y
<1> USE Pauses, TypedNumbers
<1> DEFINE M == {p \in Missing(n, S, x) : p > y}
<1>1. k * Pause \in Nat
  OBVIOUS
<1>2. \A p \in Nat : UnderWay(n, p) => now <= p + Delay
  BY DEF UnderWay, Times, HeartbeatTimes
<1>3. up[n] => now <= NextBy(n) /\ (beat[n].doing = "measure" => now <= beat[n].began + Delay)
  BY DEF Times, NodeTimes, SenderTimes, NextBy
<1>4. ASSUME NEW z \in Nat, z >= y, z + Pause + Delay < now
      PROVE  \E q \in M : z < q /\ q <= z + Pause
  <2>1. \E s \in Begun(n, S) : s > z
    <3>1. CASE up[n]
      <4>1. beat[n].began \in Begun(n, S)
        BY <3>1 DEF Begun
      <4>2. CASE beat[n].began > z
        BY <4>1, <4>2
      <4>3. CASE beat[n].began <= z
        <5>1. b = since[n]
          BY <3>1 DEF History
        <5> QED BY <1>3, <1>4, <3>1, <4>3, <5>1 DEF NextBy
      <4> QED BY <4>2, <4>3
    <3>2. CASE ~up[n]
      <4>1. PICK p \in Nat : UnderWay(n, p)
        BY <3>2
      <4>2. now <= p + Delay
        BY <1>2, <4>1
      <4>3. p > z /\ p > b
        BY <1>4, <4>2
      <4> QED BY <3>2, <4>1, <4>3 DEF History, Begun
    <3> QED BY <3>1, <3>2
  <2>2. z >= b + Warm
    BY <1>4
  <2>3. PICK q \in Begun(n, S) : z < q /\ q <= z + Pause
    BY <2>1, <2>2 DEF History, Dense
  <2>4. q \in Nat /\ q \in S
    <3>1. CASE q \in S
      BY <3>1 DEF History
    <3>2. CASE q \notin S
      <4>1. up[n] /\ q = beat[n].began
        BY <3>2 DEF Begun
      <4>2. beat[n].doing = "measure"
        BY <3>2, <4>1 DEF History
      <4>3. now <= q + Delay
        BY <1>3, <4>1, <4>2
      <4> QED BY <1>4, <2>3, <4>1, <4>3
    <3> QED BY <3>1, <3>2
  <2>5. ~UnderWay(n, q)
    BY <1>2, <1>4, <2>3, <2>4
  <2> QED BY <1>4, <2>3, <2>4, <2>5 DEF Missing
<1>5. S \in SUBSET (0..now)
  BY DEF History
<1>6. M \in SUBSET Missing(n, S, x)
  OBVIOUS
<1>7. IsFiniteSet(M) /\ Cardinality(M) \in Nat
  BY <1>5, <1>6, MissingIsFinite
<1>8. M \subseteq Nat
  BY <1>5 DEF Missing
<1> DEFINE In(i, q) == y + (i - 1) * Pause < q /\ q <= y + i * Pause
           f == [i \in 1..k |-> CHOOSE q \in M : In(i, q)]
<1> HIDE DEF M
<1>9. ASSUME NEW i \in 1..k PROVE \E q \in M : In(i, q)
  <2>1. PICK j \in Nat : i = j + 1
    <3>1. i - 1 \in Nat /\ i = (i - 1) + 1
      OBVIOUS
    <3> QED BY <3>1
  <2>2. j * Pause \in Nat /\ i * Pause = j * Pause + Pause /\ i - 1 = j
    BY <2>1
  <2>3. i * Pause <= k * Pause
    <3>1. PICK e \in Nat : k = i + e
      <4>1. k - i \in Nat /\ k = i + (k - i)
        OBVIOUS
      <4> QED BY <4>1
    <3>2. i \in Nat /\ k * Pause = i * Pause + e * Pause /\ e * Pause \in Nat
      BY <3>1
    <3> QED BY <1>1, <2>2, <3>2
  <2>4. PICK z \in Nat : z = y + j * Pause
    BY <2>2
  <2>5. z >= y /\ z + Pause + Delay < now
    BY <1>1, <2>2, <2>3, <2>4
  <2> QED BY <1>4, <2>2, <2>4, <2>5
<1>10. ASSUME NEW i \in 1..k PROVE f[i] \in M /\ In(i, f[i])
  BY <1>9
<1>11. ASSUME NEW i \in 1..k, NEW j \in 1..k, f[i] = f[j], i < j PROVE FALSE
  <2>1. PICK e \in Nat : j = i + 1 + e
    <3>1. j - i - 1 \in Nat /\ j = i + 1 + (j - i - 1)
      BY <1>11
    <3> QED BY <3>1
  <2>2. (j - 1) * Pause = i * Pause + e * Pause /\ e * Pause \in Nat /\ i * Pause \in Nat
    <3>1. j - 1 = i + e /\ i \in Nat
      BY <2>1
    <3> QED BY <3>1
  <2>3. f[i] \in Nat /\ f[i] <= y + i * Pause /\ y + (j - 1) * Pause < f[i]
    BY <1>8, <1>10, <1>11
  <2> HIDE DEF f
  <2> QED BY <2>2, <2>3
<1>12. f \in Injection(1..k, M)
  <2>1. f \in [1..k -> M]
    BY <1>10
  <2>2. \A i, j \in 1..k : f[i] = f[j] => i = j
    <3> HIDE DEF f
    <3> SUFFICES ASSUME NEW i \in 1..k, NEW j \in 1..k, f[i] = f[j], i # j PROVE FALSE
      OBVIOUS
    <3>1. k \in Nat /\ (i < j \/ j < i)
      BY Numbered
    <3> QED BY <1>11, <3>1
  <2> QED BY <2>1, <2>2 DEF Injection, IsInjective
<1>13. Cardinality(1..k) <= Cardinality(M)
  BY <1>7, <1>12, FS_Injection
<1>14. Cardinality(1..k) = k
  BY Numbered
<1> QED
  BY <1>6, <1>7, <1>13, <1>14 DEF M

(* Losses + 1 such stretches cannot be: more than can have been lost.      *)
LEMMA StretchIsHeard ==
    ASSUME TypeOK, Times, NEW n \in Node, NEW b \in Nat, NEW S, History(n, b, S),
           up[n] \/ \E p \in Nat : UnderWay(n, p),
           NEW x \in Nat, NEW y \in Nat, y >= b + Warm, y + 1 >= x,
           y + Losses * Pause + Pause + Delay < now
    PROVE  ~Enough(n, S, x)
<1>0. /\ Pause \in Nat /\ Warm \in Nat /\ Losses \in Nat /\ Delay \in Nat
      /\ Losses * Pause \in Nat /\ now \in Nat /\ lost[n] \in Nat
  BY Pauses, TypedNumbers
<1>1. PICK k \in Nat : k = Losses + 1
  BY <1>0
<1>2. k * Pause = Losses * Pause + Pause
  BY <1>0, <1>1
<1>3. y + k * Pause + Delay < now
  BY <1>0, <1>2
<1>4. PICK M \in SUBSET Missing(n, S, x) : k <= Cardinality(M)
  BY <1>3, StretchesAreMissing
<1>5. S \in SUBSET (0..now)
  BY DEF History
<1>6. Cardinality(M) \in Nat /\ Cardinality(M) <= Cardinality(Missing(n, S, x))
      /\ Cardinality(Missing(n, S, x)) \in Nat
  BY <1>5, MissingIsFinite
<1>7. lost[n] <= Losses
  BY DEF Times, NodeTimes
<1> QED
  BY <1>0, <1>1, <1>4, <1>6, <1>7 DEF Enough

(* So after a heartbeat has been recorded another one is in time.          *)
LEMMA NextIsHeard ==
    ASSUME TypeOK, Times, NEW n \in Node, NEW b \in Nat, NEW S, History(n, b, S),
           up[n] \/ \E p \in Nat : UnderWay(n, p),
           NEW x \in Nat, x > b, x + Warm + Losses * Pause + Pause + Delay <= now
    PROVE  ~Enough(n, S, x)
<1>1. /\ Pause \in Nat /\ Warm \in Nat /\ Delay \in Nat
      /\ Losses * Pause \in Nat /\ now \in Nat
  BY Pauses, TypedNumbers
<1>2. PICK y \in Nat : y + 1 = x + Warm
  <2>1. x + Warm - 1 \in Nat /\ (x + Warm - 1) + 1 = x + Warm
    BY <1>1
  <2> QED BY <2>1
<1>3. /\ y >= b + Warm /\ y + 1 >= x
      /\ y + Losses * Pause + Pause + Delay < now
  BY <1>1, <1>2
<1> QED
  BY <1>3, StretchIsHeard

(* Nor can the first heartbeat of a life and Losses stretches after it.    *)
LEMMA StartIsHeard ==
    ASSUME TypeOK, Times, NEW n \in Node, NEW b \in Nat, NEW S, History(n, b, S), up[n],
           NEW x \in Nat, x <= b, b + Warm + Losses * Pause + Delay < now
    PROVE  ~Enough(n, S, x)
<1>0. /\ Pause \in Nat /\ Warm \in Nat /\ Losses \in Nat /\ Delay \in Nat
      /\ Losses * Pause \in Nat /\ now \in Nat /\ lost[n] \in Nat
  BY Pauses, TypedNumbers
<1>1. PICK y \in Nat : y = b + Warm
  BY <1>0
<1>2. y + Losses * Pause + Delay < now /\ y + 1 >= x /\ y >= b + Warm /\ b + Delay < now
  BY <1>0, <1>1
<1>3. PICK M \in SUBSET Missing(n, S, x) :
        Losses <= Cardinality(M) /\ IsFiniteSet(M) /\ \A p \in M : p > y
  BY <1>0, <1>2, StretchesAreMissing
<1>4. S \in SUBSET (0..now)
  BY DEF History
<1>5. b \in Missing(n, S, x)
  <2>1. b \in S
    <3>1. CASE beat[n].doing = "measure"
      <4>1. now <= beat[n].began + Delay
        BY <3>1 DEF Times, NodeTimes, SenderTimes
      <4>2. b # beat[n].began
        BY <1>0, <1>2, <4>1
      <4> QED BY <4>2 DEF History, Begun
    <3>2. CASE beat[n].doing # "measure"
      BY <3>2 DEF History, Begun
    <3> QED BY <3>1, <3>2
  <2>2. ASSUME NEW t \in Nat, <<n, b, t>> \in inFlight PROVE FALSE
    <3>1. HeartbeatTimes(<<n, b, t>>)
      BY <2>2 DEF Times
    <3> QED BY <1>0, <1>2, <3>1 DEF HeartbeatTimes
  <2> QED BY <2>1, <2>2 DEF Missing, UnderWay
<1>6. b \notin M
  BY <1>0, <1>1, <1>3
<1>7. M \cup {b} \in SUBSET Missing(n, S, x)
  BY <1>5
<1>8. Cardinality(M \cup {b}) = Cardinality(M) + 1
  BY <1>3, <1>6, FS_AddElement
<1>9. /\ Cardinality(M) \in Nat /\ Cardinality(M \cup {b}) \in Nat
      /\ Cardinality(M \cup {b}) <= Cardinality(Missing(n, S, x))
      /\ Cardinality(Missing(n, S, x)) \in Nat
  BY <1>4, <1>7, MissingIsFinite
<1>10. lost[n] <= Losses
  BY DEF Times, NodeTimes
<1> QED
  BY <1>0, <1>3, <1>8, <1>9, <1>10 DEF Enough

-----------------------------------------------------------------------------
(* What holds of each node.                                                *)

Settled(n) == since[n] + Delay + Losses * Pause + Warm
LateBy == Losses * Pause + Pause + Warm + 2 * Delay

(* Nothing of a node that is down is younger than its failure, and the     *)
(* detector is on its way to it.                                           *)
DownOK(n) ==
    ~up[n] => /\ row[n].last <= since[n] /\ fd.rows[n].last <= since[n]
              /\ \A b, t \in Nat : <<n, b, t>> \in inFlight => t <= since[n]
SeenBy(n) == since[n] + Timeout + errors * Check
Detected(n) ==
    Delay <= Timeout /\ ~up[n] /\ row[n].status = "ONLINE" =>
      /\ fd.pc = "idle" => fd.next <= SeenBy(n) + Check
      /\ fd.pc # "idle" =>
           \/ fd.next <= SeenBy(n) + Check
           \/ /\ since[n] + Timeout < fd.started /\ fd.next <= SeenBy(n) + 2 * Check
              /\ fd.rows[n].status = "ONLINE"
              /\ fd.pc = "sweep" => n \in fd.todo

(* What the detector has read of a node that runs is recent, but early in  *)
(* its life.                                                               *)
UpOK(n) ==
    up[n] /\ fd.pc # "idle" =>
        fd.started <= Settled(n) \/ fd.rows[n].last + LateBy >= fd.started

(* The row has the timestamp of a heartbeat, and what was sent after that  *)
(* one's way is lost or under way.  A node that runs was marked by a sweep *)
(* that ended early in its life.                                           *)
Counted(n, S) ==
    /\ Enough(n, S, row[n].last + Delay + 1)
    /\ up[n] /\ TimeoutIsLongEnough /\ row[n].status = "OFFLINE"
           => Enough(n, S, Settled(n) + Sweep + 1)

(* The detector may still mark the node for the row it has read.           *)
Marking(n) ==
    /\ fd.pc # "idle" /\ (fd.pc = "sweep" => n \in fd.todo)
    /\ fd.rows[n].status = "ONLINE"
    /\ fd.rows[n].last + Timeout < fd.started + Gap

(* The entries that are still to come: one for a row or a copy of it from  *)
(* before the node's start; one for a failure; and one more for a          *)
(* heartbeat that arrives when the node is down and marked.                *)
Stale(n, b) == Marking(n) \/ (row[n].status = "ONLINE" /\ row[n].last + Delay < b)
Coming(n) == \E p \in Nat : UnderWay(n, p)
Owed(n, b) ==
    IF up[n] THEN IF Stale(n, b) THEN 1 ELSE 0
    ELSE IF Coming(n) /\ Stale(n, b) THEN 2
    ELSE IF Coming(n) \/ Marking(n) \/ row[n].status = "ONLINE" THEN 1 ELSE 0
Accounted(n, b) == TimeoutIsLongEnough => logged[n] + Owed(n, b) <= failures[n]

Lives(n, b, S) == b <= since[n] /\ History(n, b, S) /\ Counted(n, S) /\ Accounted(n, b)
Life(n) == \E b \in Nat : \E S \in SUBSET Nat : Lives(n, b, S)
NodeOK(n) == DownOK(n) /\ Detected(n) /\ UpOK(n) /\ Life(n)
IInv == TypeOK /\ Times /\ \A n \in Node : NodeOK(n)

LEMMA Numbers ==
    ASSUME TypeOK
    PROVE  /\ Pause \in Nat /\ Warm \in Nat /\ FirstPause = Pause + Warm
           /\ Check \in Nat /\ Delay \in Nat /\ Gap \in Nat
           /\ Sweep \in Nat /\ Gap <= Sweep /\ Sweep <= Check /\ Losses \in Nat
           /\ Timeout \in Nat /\ Losses * Pause \in Nat
           /\ now \in Nat /\ errors \in Nat /\ errors * Check \in Nat
           /\ (errors + 1) * Check = errors * Check + Check
           /\ fd \in Detector /\ fd.next \in Nat /\ fd.started \in Nat /\ fd.at \in Nat
           /\ fd.pc \in {"idle", "clock", "sweep"}
BY Pauses, TypedNumbers

LEMMA NodeNumbers ==
    ASSUME TypeOK, Times, NEW n \in Node
    PROVE  /\ since[n] \in Nat /\ lost[n] \in Nat /\ beat[n].began \in Nat
           /\ row[n].last \in Nat /\ fd.rows[n].last \in Nat
           /\ row[n].status \in {"ONLINE", "OFFLINE"}
           /\ fd.rows[n].status \in {"ONLINE", "OFFLINE"}
           /\ logged[n] \in Nat /\ failures[n] \in Nat /\ up[n] \in BOOLEAN
           /\ Settled(n) \in Nat /\ SeenBy(n) \in Nat
           /\ NodeTimes(n)
           /\ \A p, t \in Nat : <<n, p, t>> \in inFlight =>
                  p <= t /\ t <= now /\ now <= p + Delay
<1>1. Settled(n) \in Nat /\ SeenBy(n) \in Nat
  BY Numbers, TypedNumbers DEF Settled, SeenBy
<1>2. ASSUME NEW p \in Nat, NEW t \in Nat, <<n, p, t>> \in inFlight
      PROVE  p <= t /\ t <= now /\ now <= p + Delay
  BY <1>2 DEF Times, HeartbeatTimes
<1> QED
  BY <1>1, <1>2, TypedNumbers DEF TypeOK, Times

(* The row of a node that has run for long is recent.                      *)
LEMMA SettledIsRecent ==
    ASSUME TypeOK, Times, NEW n \in Node, NEW b \in Nat, NEW S, Lives(n, b, S), up[n],
           now > Settled(n)
    PROVE  row[n].last + LateBy >= now
<1>1. History(n, b, S) /\ Counted(n, S) /\ b = since[n]
  BY DEF Lives, History
<1>2. PICK x \in Nat : x = row[n].last + Delay + 1
  BY Numbers, NodeNumbers
<1>3. Enough(n, S, x)
  BY <1>1, <1>2 DEF Counted
<1>4. CASE x > b
  <2>1. ~(x + Warm + Losses * Pause + Pause + Delay <= now)
    BY <1>1, <1>3, <1>4, NextIsHeard
  <2> QED BY <1>2, <2>1, Numbers, NodeNumbers DEF LateBy
<1>5. CASE x <= b
  <2>1. b + Warm + Losses * Pause + Delay < now
    BY <1>1, Numbers, NodeNumbers DEF Settled
  <2> QED BY <1>1, <1>3, <1>5, <2>1, StartIsHeard
<1> QED
  BY <1>4, <1>5

(* A row of this life is read in time, while the node runs or something of *)
(* it is under way.                                                        *)
LEMMA ReadInTime ==
    ASSUME TypeOK, Times, TimeoutIsLongEnough, NEW n \in Node, NEW b \in Nat, NEW S,
           Lives(n, b, S), up[n] \/ Coming(n), row[n].last + Delay >= b
    PROVE  row[n].last + Timeout >= now + Gap
<1>1. History(n, b, S) /\ Counted(n, S)
  BY DEF Lives
<1>2. PICK x \in Nat : x = row[n].last + Delay + 1
  BY Numbers, NodeNumbers
<1>3. Enough(n, S, x)
  BY <1>1, <1>2 DEF Counted
<1>4. x > b
  BY <1>2, Numbers, NodeNumbers
<1>5. ~(x + Warm + Losses * Pause + Pause + Delay <= now)
  BY <1>1, <1>3, <1>4, NextIsHeard DEF Coming
<1> QED
  BY <1>2, <1>5, Numbers, NodeNumbers DEF TimeoutIsLongEnough

-----------------------------------------------------------------------------
(* The steps of other nodes.                                               *)

SameNode(n) ==
    /\ now' = now /\ up'[n] = up[n] /\ since'[n] = since[n] /\ beat'[n] = beat[n]
    /\ lost'[n] = lost[n] /\ failures'[n] = failures[n] /\ logged'[n] = logged[n]
    /\ row'[n] = row[n]
    /\ \A p, t : <<n, p, t>> \in inFlight' <=> <<n, p, t>> \in inFlight
    /\ fd'.pc = fd.pc /\ fd'.next = fd.next /\ fd'.started = fd.started
    /\ fd'.rows[n] = fd.rows[n] /\ (n \in fd'.todo <=> n \in fd.todo)
    /\ errors' \in {errors, errors + 1}

LEMMA SameKept ==
    ASSUME IInv, NEW n \in Node, SameNode(n) PROVE NodeOK(n)'
<1>1. TypeOK /\ Times /\ NodeOK(n)
  BY DEF IInv
<1>2. \A p : UnderWay(n, p)' <=> UnderWay(n, p)
  BY DEF UnderWay, SameNode
<1>3. DownOK(n)'
  BY <1>1 DEF NodeOK, DownOK, SameNode
<1>4. Detected(n)'
  <2>1. SeenBy(n)' \in {SeenBy(n), SeenBy(n) + Check}
    BY <1>1, Numbers, NodeNumbers DEF SameNode, SeenBy
  <2> QED BY <1>1, <2>1, Numbers, NodeNumbers DEF NodeOK, Detected, SameNode
<1>5. UpOK(n)' /\ Settled(n)' = Settled(n)
  BY <1>1 DEF NodeOK, UpOK, SameNode, Settled
<1>6. Life(n)'
  <2>1. PICK b \in Nat, S \in SUBSET Nat : Lives(n, b, S)
    BY <1>1 DEF NodeOK, Life
  <2>2. History(n, b, S)'
    BY <1>2, <2>1 DEF Lives, History, Begun, SameNode
  <2>3. Counted(n, S)'
    BY <1>2, <1>5, <2>1 DEF Lives, Counted, Enough, Missing, SameNode
  <2>4. (Marking(n)' <=> Marking(n)) /\ (Coming(n)' <=> Coming(n))
    BY <1>2 DEF Marking, Coming, SameNode
  <2>5. Owed(n, b)' = Owed(n, b)
    BY <2>4 DEF Owed, Stale, SameNode
  <2>6. Lives(n, b, S)'
    BY <2>1, <2>2, <2>3, <2>5 DEF Lives, Accounted, SameNode
  <2> QED BY <2>6 DEF Life
<1> QED
  BY <1>3, <1>4, <1>5, <1>6 DEF NodeOK

-----------------------------------------------------------------------------
(* The steps of a node.                                                    *)

LEMMA Known ==
    ASSUME IInv, NEW n \in Node
    PROVE  /\ TypeOK /\ Times
           /\ DownOK(n) /\ Detected(n) /\ UpOK(n)
           /\ \E b \in Nat : \E S \in SUBSET Nat : Lives(n, b, S)
BY DEF IInv, NodeOK, Life

(* What fewer missing heartbeats leave true.                               *)
LEMMA StillEnough ==
    ASSUME TypeOK, NEW n \in Node, NEW S \in SUBSET (0..now), NEW T, NEW x \in Nat,
           Enough(n, S, x), lost'[n] = lost[n], Missing(n, T, x)' \subseteq Missing(n, S, x)
    PROVE  Enough(n, T, x)'
<1>1. Missing(n, T, x)' \in SUBSET Missing(n, S, x)
  OBVIOUS
<1>2. /\ Cardinality(Missing(n, T, x)') <= Cardinality(Missing(n, S, x))
      /\ Cardinality(Missing(n, T, x)') \in Nat /\ Cardinality(Missing(n, S, x)) \in Nat
  BY <1>1, MissingIsFinite
<1> QED
  BY <1>2, TypedNumbers DEF Enough

LEMMA StillCounted ==
    ASSUME TypeOK, Times, NEW n \in Node, NEW S \in SUBSET (0..now), NEW T, Counted(n, S),
           row'[n] = row[n], lost'[n] = lost[n],
           up'[n] => up[n] /\ since'[n] = since[n],
           \A x \in Nat : Missing(n, T, x)' \subseteq Missing(n, S, x)
    PROVE  Counted(n, T)'
<1>1. PICK x \in Nat : x = row[n].last + Delay + 1
  BY Numbers, NodeNumbers
<1>2. Enough(n, T, x)'
  BY <1>1, StillEnough DEF Counted
<1>3. Enough(n, T, row[n].last + Delay + 1)'
  BY <1>1, <1>2 DEF Enough, Missing
<1>4. ASSUME up'[n], TimeoutIsLongEnough, row'[n].status = "OFFLINE"
      PROVE  Enough(n, T, Settled(n) + Sweep + 1)'
  <2>1. PICK z \in Nat : z = Settled(n) + Sweep + 1
    BY Numbers, NodeNumbers
  <2>2. z = (Settled(n) + Sweep + 1)'
    BY <1>4, <2>1 DEF Settled
  <2>3. Enough(n, T, z)'
    BY <1>4, <2>1, StillEnough DEF Counted
  <2> QED BY <2>2, <2>3 DEF Enough, Missing
<1> QED
  BY <1>3, <1>4 DEF Counted

LEMMA OwedIsSmall ==
    ASSUME NEW n \in Node, NEW b PROVE Owed(n, b) \in 0..2
BY DEF Owed

(* No step adds to what a node owes but its failure.                       *)
LEMMA StillAccounted ==
    ASSUME TypeOK, Times, NEW n \in Node, NEW b, NEW c, Accounted(n, b),
           logged'[n] = logged[n], failures'[n] = failures[n],
           TimeoutIsLongEnough => Owed(n, c)' <= Owed(n, b), Owed(n, c)' \in 0..2
    PROVE  Accounted(n, c)'
<1>1. logged[n] \in Nat /\ failures[n] \in Nat /\ Owed(n, b) \in 0..2
  BY NodeNumbers, OwedIsSmall
<1> QED
  BY <1>1 DEF Accounted

(* The ticker and the answers have no part in the history.                 *)
LEMMA TickerKept ==
    ASSUME IInv, NEW n \in Node, TickerFires(n) \/ CallReturns(n) PROVE NodeOK(n)'
<1>1. /\ TypeOK /\ Times /\ DownOK(n) /\ Detected(n) /\ UpOK(n)
      /\ UNCHANGED <<now, up, since, lost, failures, inFlight, row, fd, logged, errors>>
      /\ beat'[n].began = beat[n].began
      /\ beat[n].doing # "measure" => beat'[n].doing # "measure"
      /\ beat'[n].doing # "measure" => beat[n].doing # "measure"
  BY Known, TickerEffect, ReturnEffect
<1>2. PICK b \in Nat, S \in SUBSET Nat : Lives(n, b, S)
  BY Known
<1>3. History(n, b, S)'
  BY <1>1, <1>2 DEF Lives, History, Begun, UnderWay
<1>4. Counted(n, S)'
  BY <1>1, <1>2 DEF Lives, Counted, Enough, Missing, UnderWay, Settled
<1>5. Accounted(n, b)'
  BY <1>1, <1>2 DEF Lives, Accounted, Owed, Stale, Marking, Coming, UnderWay
<1>6. DownOK(n)' /\ Detected(n)' /\ UpOK(n)'
  BY <1>1 DEF DownOK, Detected, SeenBy, UpOK, Settled
<1> QED
  BY <1>1, <1>2, <1>3, <1>4, <1>5, <1>6 DEF Lives, Life, NodeOK

LEMMA BeginKept ==
    ASSUME IInv, NEW n \in Node, BeginHeartbeat(n) PROVE NodeOK(n)'
<1>1. /\ TypeOK /\ Times /\ DownOK(n) /\ Detected(n) /\ UpOK(n) /\ up[n]
      /\ UNCHANGED <<now, up, since, lost, failures, inFlight, row, fd, logged, errors>>
      /\ beat[n].doing = "wait" /\ beat[n].ticks = 1
      /\ beat'[n].doing = "measure" /\ beat'[n].began = now
  BY Known, BeginEffect
<1>2. PICK b \in Nat, S \in SUBSET Nat : Lives(n, b, S)
  BY Known
<1>3. /\ b = since[n] /\ beat[n].began \in S /\ Begun(n, S) = S /\ Begun(n, S)' = S \cup {now}
      /\ S \in SUBSET (0..now) /\ b \in S /\ Dense(b, S)
      /\ \A p \in S : p <= beat[n].began
  BY <1>1, <1>2 DEF Lives, History, Begun
<1>4. now <= NextBy(n)
  BY <1>1 DEF Times, NodeTimes, SenderTimes
<1>5. Dense(b, S \cup {now})
  <2> SUFFICES ASSUME NEW y \in Nat, y >= b + Warm, NEW s \in S \cup {now}, s > y
               PROVE  \E q \in S \cup {now} : y < q /\ q <= y + Pause
    BY DEF Dense
  <2>1. CASE beat[n].began > y
    BY <1>3, <2>1 DEF Dense
  <2>2. CASE beat[n].began <= y
    <3>1. s = now
      BY <1>1, <1>3, <2>2, Numbers, NodeNumbers
    <3>2. now <= y + Pause
      BY <1>1, <1>3, <1>4, <2>2, Numbers, NodeNumbers DEF NextBy
    <3> QED BY <3>1, <3>2
  <2> QED BY <1>1, <2>1, <2>2, Numbers, NodeNumbers
<1>6. History(n, b, S)'
  <2>1. \A p \in S : p <= now
    BY <1>1, <1>3, Numbers
  <2>2. Dense(b, Begun(n, S))'
    BY <1>3, <1>5 DEF Dense
  <2>3. \A p \in Nat : UnderWay(n, p)' /\ p > b => p \in S
    BY <1>1, <1>2 DEF Lives, History, UnderWay
  <2> QED BY <1>1, <1>3, <2>1, <2>2, <2>3 DEF History
<1>7. Counted(n, S)'
  BY <1>1, <1>2 DEF Lives, Counted, Enough, Missing, UnderWay, Settled
<1>8. Accounted(n, b)'
  BY <1>1, <1>2 DEF Lives, Accounted, Owed, Stale, Marking, Coming, UnderWay
<1>9. DownOK(n)' /\ Detected(n)' /\ UpOK(n)'
  BY <1>1 DEF DownOK, Detected, SeenBy, UpOK, Settled
<1> QED
  BY <1>1, <1>2, <1>6, <1>7, <1>8, <1>9 DEF Lives, Life, NodeOK

LEMMA SendKept ==
    ASSUME IInv, NEW n \in Node, SendHeartbeat(n) PROVE NodeOK(n)'
<1>1. /\ TypeOK /\ Times /\ DownOK(n) /\ Detected(n) /\ UpOK(n) /\ up[n]
      /\ UNCHANGED <<now, up, since, lost, failures, row, fd, logged, errors>>
      /\ inFlight' = inFlight \cup {<<n, beat[n].began, now>>}
      /\ beat[n].doing = "measure" /\ beat'[n].doing = "call"
      /\ beat'[n].began = beat[n].began
  BY Known, SendEffect
<1>2. PICK b \in Nat, S \in SUBSET Nat : Lives(n, b, S)
  BY Known
<1>3. PICK T \in SUBSET Nat : T = S \cup {beat[n].began}
  BY <1>1, NodeNumbers
<1>4. S \in SUBSET (0..now) /\ T \in SUBSET (0..now)
  <2>1. beat[n].began \in 0..now
    BY <1>1, Numbers, NodeNumbers DEF NodeTimes, SenderTimes
  <2> QED BY <1>2, <1>3, <2>1 DEF Lives, History
<1>5. \A p : UnderWay(n, p)' <=> UnderWay(n, p) \/ p = beat[n].began
  <2>1. now \in Nat
    BY <1>1, Numbers
  <2> QED BY <1>1, <2>1 DEF UnderWay
<1>6. History(n, b, T)'
  <2>1. Begun(n, S) = T /\ Begun(n, T)' = T
    BY <1>1, <1>3 DEF Begun
  <2>2. Dense(b, Begun(n, T))'
    BY <1>2, <2>1 DEF Lives, History, Dense
  <2>3. b = since[n] /\ b \in T /\ \A p \in T : p <= beat[n].began
    BY <1>1, <1>2, <1>3, <2>1, NodeNumbers DEF Lives, History
  <2>4. \A p \in Nat : UnderWay(n, p)' /\ p > b => p \in T
    BY <1>2, <1>3, <1>5 DEF Lives, History
  <2> QED BY <1>1, <1>3, <1>4, <2>1, <2>2, <2>3, <2>4 DEF History
<1>7. Counted(n, T)'
  <2>1. \A x \in Nat : Missing(n, T, x)' \subseteq Missing(n, S, x)
    BY <1>3, <1>5 DEF Missing
  <2> QED BY <1>1, <1>2, <1>4, <2>1, StillCounted DEF Lives
<1>8. Accounted(n, b)'
  <2>1. Owed(n, b)' = Owed(n, b)
    BY <1>1 DEF Owed, Stale, Marking
  <2> QED BY <1>1, <1>2, <2>1 DEF Lives, Accounted
<1>9. DownOK(n)' /\ Detected(n)' /\ UpOK(n)'
  BY <1>1 DEF DownOK, Detected, SeenBy, UpOK, Settled
<1> QED
  BY <1>1, <1>2, <1>6, <1>7, <1>8, <1>9 DEF Lives, Life, NodeOK

LEMMA FailKept ==
    ASSUME IInv, NEW n \in Node, NodeFails(n) PROVE NodeOK(n)'
<1>1. /\ TypeOK /\ Times /\ DownOK(n) /\ Detected(n) /\ UpOK(n) /\ up[n] /\ ~up'[n]
      /\ UNCHANGED <<now, lost, inFlight, row, fd, logged, errors>>
      /\ since'[n] = now /\ failures'[n] = failures[n] + 1
  BY Known, FailEffect
<1>2. PICK b \in Nat, S \in SUBSET Nat : Lives(n, b, S)
  BY Known
<1>3. DownOK(n)'
  BY <1>1, NodeNumbers DEF DownOK, NodeTimes
<1>4. Detected(n)'
  <2>1. SeenBy(n)' = now + Timeout + errors * Check
    BY <1>1 DEF SeenBy
  <2>2. fd.next <= now + Timeout + errors * Check + Check
    BY <1>1, Numbers DEF Times, DetectorTimes
  <2> QED BY <1>1, <2>1, <2>2 DEF Detected
<1>5. UpOK(n)'
  BY <1>1 DEF UpOK
<1>6. History(n, b, S)'
  <2>1. Dense(b, S)
    <3> SUFFICES ASSUME NEW y \in Nat, y >= b + Warm, NEW s \in S, s > y
                 PROVE  \E q \in S : y < q /\ q <= y + Pause
      BY DEF Dense
    <3>1. Dense(b, S \cup {beat[n].began})
      BY <1>1, <1>2 DEF Lives, History, Begun
    <3>2. PICK q \in S \cup {beat[n].began} : y < q /\ q <= y + Pause
      BY <3>1 DEF Dense
    <3>3. CASE q = beat[n].began
      <4>1. s <= beat[n].began /\ s \in Nat
        BY <1>1, <1>2 DEF Lives, History
      <4>2. s <= y + Pause
        BY <1>1, <3>2, <3>3, <4>1, Numbers, NodeNumbers
      <4> QED BY <4>2
    <3> QED BY <3>2, <3>3
  <2>2. Dense(b, Begun(n, S))'
    BY <1>1, <2>1 DEF Begun, Dense
  <2> QED BY <1>1, <1>2, <2>2 DEF Lives, History, UnderWay
<1>7. Counted(n, S)'
  BY <1>1, <1>2 DEF Lives, Counted, Enough, Missing, UnderWay
<1>8. Accounted(n, b)'
  <2>1. Owed(n, b)' <= Owed(n, b) + 1 /\ Owed(n, b)' \in 0..2 /\ Owed(n, b) \in 0..2
    BY <1>1 DEF Owed, Stale, Marking, Coming, UnderWay
  <2> QED BY <1>1, <1>2, <2>1, NodeNumbers DEF Lives, Accounted
<1>9. b <= since'[n]
  BY <1>1, <1>2, Numbers, NodeNumbers DEF Lives, NodeTimes
<1> QED
  BY <1>3, <1>4, <1>5, <1>6, <1>7, <1>8, <1>9 DEF Lives, Life, NodeOK

LEMMA StartKept ==
    ASSUME IInv, NEW n \in Node, NodeStarts(n) PROVE NodeOK(n)'
<1>1. /\ TypeOK /\ Times /\ DownOK(n) /\ Detected(n) /\ UpOK(n) /\ ~up[n] /\ up'[n]
      /\ UNCHANGED <<now, lost, failures, inFlight, row, fd, logged, errors>>
      /\ since'[n] = now /\ beat'[n].doing = "measure" /\ beat'[n].began = now
  BY Known, StartEffect
<1>2. PICK b \in Nat, S \in SUBSET Nat : Lives(n, b, S)
  BY Known
<1>3. PICK c \in Nat : c = now
  BY <1>1, Numbers
<1>4. History(n, c, {})'
  <2>1. Begun(n, {})' = {c}
    BY <1>1, <1>3 DEF Begun
  <2>2. Dense(c, Begun(n, {}))'
    <3> SUFFICES ASSUME NEW y \in Nat, y >= c + Warm, NEW s \in {c}, s > y PROVE FALSE
      BY <2>1 DEF Dense
    <3> QED BY <1>1, Numbers
  <2>3. ASSUME NEW p \in Nat, UnderWay(n, p)' PROVE ~(p > c)
    <3>1. PICK t \in Nat : <<n, p, t>> \in inFlight
      BY <1>1, <2>3 DEF UnderWay
    <3>2. p <= t /\ t <= now
      BY <1>1, <3>1, NodeNumbers
    <3> QED BY <1>1, <1>3, <3>2, Numbers
  <2> QED BY <1>1, <1>3, <2>1, <2>2, <2>3 DEF History
<1>5. Counted(n, {})'
  <2>1. Cardinality({}) = 0 /\ lost[n] \in Nat
    BY <1>1, FS_EmptySet, NodeNumbers
  <2>2. Cardinality({}) <= lost'[n]
    BY <1>1, <2>1
  <2>3. Enough(n, {}, row[n].last + Delay + 1)' /\ Enough(n, {}, Settled(n) + Sweep + 1)'
    BY <2>2 DEF Enough, Missing
  <2> QED BY <2>3 DEF Counted
<1>6. UpOK(n)'
  <2>1. Settled(n)' = now + Delay + Losses * Pause + Warm
    BY <1>1 DEF Settled
  <2>2. fd.pc # "idle" => fd.started <= now + Delay + Losses * Pause + Warm
    BY <1>1, Numbers DEF Times, DetectorTimes
  <2> QED BY <1>1, <2>1, <2>2 DEF UpOK
<1>7. Accounted(n, c)'
  <2>1. Owed(n, c)' <= Owed(n, b) /\ Owed(n, c)' \in 0..2
    <3>1. Marking(n)' <=> Marking(n)
      BY <1>1 DEF Marking
    <3> QED BY <1>1, <3>1 DEF Owed, Stale
  <2> QED BY <1>1, <1>2, <2>1, StillAccounted DEF Lives
<1>8. DownOK(n)' /\ Detected(n)'
  BY <1>1 DEF DownOK, Detected
<1>9. c <= since'[n]
  BY <1>1, <1>3, Numbers
<1>10. Lives(n, c, {})' /\ {} \in SUBSET Nat
  BY <1>4, <1>5, <1>7, <1>9 DEF Lives
<1> QED
  BY <1>6, <1>8, <1>10 DEF Life, NodeOK

LEMMA RecordedKept ==
    ASSUME IInv, NEW n \in Node, NEW p \in Nat, NEW t \in Nat, HeartbeatRecorded(n, p, t)
    PROVE  NodeOK(n)'
<1>1. /\ TypeOK /\ Times /\ DownOK(n) /\ Detected(n) /\ UpOK(n)
      /\ UNCHANGED <<now, up, since, beat, failures, fd, logged, errors>>
      /\ <<n, p, t>> \in inFlight /\ inFlight' = inFlight \ {<<n, p, t>>}
      /\ row'[n] = [status |-> "ONLINE", last |-> t] /\ lost'[n] = 0
  BY Known DEF HeartbeatRecorded, TypeOK
<1>2. PICK b \in Nat, S \in SUBSET Nat : Lives(n, b, S)
  BY Known
<1>3. /\ t <= now /\ now <= t + Delay /\ since[n] <= now
      /\ row'[n].status = "ONLINE" /\ row'[n].last = t
  BY <1>1, Numbers, NodeNumbers DEF NodeTimes
<1>4. DownOK(n)'
  BY <1>1 DEF DownOK
<1>5. Detected(n)'
  <2> SUFFICES ASSUME Delay <= Timeout, ~up[n] PROVE fd.next <= SeenBy(n) + Check
    BY <1>1 DEF Detected, SeenBy
  <2>1. t <= since[n]
    BY <1>1 DEF DownOK
  <2>2. now <= SeenBy(n)
    BY <1>1, <1>3, <2>1, Numbers, NodeNumbers DEF SeenBy
  <2> QED BY <1>1, <2>2, Numbers, NodeNumbers DEF Times, DetectorTimes
<1>6. UpOK(n)'
  BY <1>1 DEF UpOK, Settled
<1>7. History(n, b, S)'
  BY <1>1, <1>2 DEF Lives, History, Begun, UnderWay
<1>8. Counted(n, S)'
  <2>1. PICK x \in Nat : x = t + Delay + 1
    BY <1>1, Numbers
  <2>2. Missing(n, S, x)' = {}
    <3>1. \A q \in S : q \in Nat /\ q <= now
      BY <1>1, <1>2, Numbers DEF Lives, History
    <3>2. x > now
      BY <1>1, <1>3, <2>1, Numbers
    <3>3. \A q \in S : ~(q >= x)
      BY <1>1, <2>1, <3>1, <3>2, Numbers
    <3> QED BY <3>3 DEF Missing
  <2>3. Missing(n, S, row[n].last + Delay + 1)' = {}
    BY <1>3, <2>1, <2>2 DEF Missing
  <2>4. Enough(n, S, row[n].last + Delay + 1)'
    <3>1. Cardinality({}) <= lost'[n]
      BY <1>1, FS_EmptySet
    <3> QED BY <2>3, <3>1 DEF Enough
  <2> QED BY <1>3, <2>4 DEF Counted
<1>9. Accounted(n, b)'
  <2>1. Marking(n)' <=> Marking(n)
    BY <1>1 DEF Marking
  <2>2. Stale(n, b)' <=> Marking(n)
    <3>1. ~(row'[n].last + Delay < b)
      BY <1>1, <1>2, <1>3, Numbers, NodeNumbers DEF Lives
    <3> QED BY <2>1, <3>1 DEF Stale
  <2>3. Coming(n) /\ (Marking(n) => Stale(n, b))
    BY <1>1 DEF Coming, Stale, UnderWay
  <2>4. Owed(n, b)' <= Owed(n, b) /\ Owed(n, b)' \in 0..2
    BY <1>1, <2>1, <2>2, <2>3 DEF Owed
  <2> QED BY <1>1, <1>2, <2>4, StillAccounted DEF Lives
<1> QED
  BY <1>1, <1>2, <1>4, <1>5, <1>6, <1>7, <1>8, <1>9 DEF Lives, Life, NodeOK

(* One more is missing, and one more lost.                                 *)
LEMMA OneMoreMissing ==
    ASSUME TypeOK, Times, NEW n \in Node, NEW p \in Nat, NEW t \in Nat,
           HeartbeatLost(n, p, t), NEW S \in SUBSET (0..now), NEW x \in Nat, Enough(n, S, x)
    PROVE  Enough(n, S, x)'
<1> DEFINE M == Missing(n, S, x)
           N == Missing(n, S, x)'
<1>1. /\ inFlight' = inFlight \ {<<n, p, t>>}
      /\ lost'[n] = lost[n] + 1 /\ lost[n] \in Nat
  BY NodeNumbers DEF HeartbeatLost, TypeOK
<1>2. N \subseteq M \cup {p}
  BY <1>1 DEF Missing, UnderWay
<1>3. IsFiniteSet(M) /\ Cardinality(M) \in Nat
  BY MissingIsFinite
<1> HIDE DEF M, N
<1>4. IsFiniteSet(M \cup {p})
      /\ Cardinality(M \cup {p}) = IF p \in M THEN Cardinality(M) ELSE Cardinality(M) + 1
  BY <1>3, FS_AddElement
<1>5. Cardinality(N) <= Cardinality(M \cup {p}) /\ IsFiniteSet(N)
  BY <1>2, <1>4, FS_Subset
<1>6. Cardinality(N) \in Nat /\ Cardinality(M) <= lost[n]
  BY <1>5, FS_CardinalityType DEF M, Enough
<1>7. Cardinality(N) <= lost[n] + 1
  BY <1>1, <1>3, <1>4, <1>5, <1>6
<1> QED
  BY <1>1, <1>7 DEF N, Enough

LEMMA LostKept ==
    ASSUME IInv, NEW n \in Node, NEW p \in Nat, NEW t \in Nat, HeartbeatLost(n, p, t)
    PROVE  NodeOK(n)'
<1>1. /\ TypeOK /\ Times /\ DownOK(n) /\ Detected(n) /\ UpOK(n)
      /\ UNCHANGED <<now, up, since, beat, failures, row, fd, logged, errors>>
      /\ <<n, p, t>> \in inFlight /\ inFlight' = inFlight \ {<<n, p, t>>}
  BY Known DEF HeartbeatLost, TypeOK
<1>2. PICK b \in Nat, S \in SUBSET Nat : Lives(n, b, S)
  BY Known
<1>3. DownOK(n)' /\ Detected(n)' /\ UpOK(n)'
  BY <1>1 DEF DownOK, Detected, SeenBy, UpOK, Settled
<1>4. History(n, b, S)' /\ S \in SUBSET (0..now)
  BY <1>1, <1>2 DEF Lives, History, Begun, UnderWay
<1>5. Counted(n, S)'
  <2>1. row[n].last + Delay + 1 \in Nat /\ Settled(n) + Sweep + 1 \in Nat
    BY <1>1, Numbers, NodeNumbers
  <2>2. PICK x \in Nat, z \in Nat : x = row[n].last + Delay + 1 /\ z = Settled(n) + Sweep + 1
    BY <2>1
  <2>3. x = (row[n].last + Delay + 1)' /\ z = (Settled(n) + Sweep + 1)'
    BY <1>1, <2>2 DEF Settled
  <2>4. Enough(n, S, x)'
    BY <1>1, <1>2, <1>4, <2>2, OneMoreMissing DEF Lives, Counted
  <2>5. Enough(n, S, z) => Enough(n, S, z)'
    BY <1>1, <1>4, OneMoreMissing
  <2>6. Enough(n, S, row[n].last + Delay + 1)'
    BY <2>3, <2>4 DEF Enough, Missing
  <2>7. Enough(n, S, z)' => Enough(n, S, Settled(n) + Sweep + 1)'
    BY <2>3 DEF Enough, Missing
  <2> QED BY <1>1, <1>2, <2>2, <2>5, <2>6, <2>7 DEF Lives, Counted
<1>6. Accounted(n, b)'
  <2>1. /\ Marking(n)' <=> Marking(n)
        /\ Stale(n, b)' <=> Stale(n, b)
        /\ Coming(n)
    BY <1>1 DEF Marking, Stale, Coming, UnderWay
  <2>2. Owed(n, b)' <= Owed(n, b) /\ Owed(n, b)' \in 0..2
    BY <1>1, <2>1 DEF Owed
  <2> QED BY <1>1, <1>2, <2>2, StillAccounted DEF Lives
<1> QED
  BY <1>1, <1>2, <1>3, <1>4, <1>5, <1>6 DEF Lives, Life, NodeOK

-----------------------------------------------------------------------------
(* The steps of the detector, and time.                                    *)

LEMMA TickKept ==
    ASSUME IInv, Tick, NEW n \in Node PROVE NodeOK(n)'
<1>1. /\ TypeOK /\ Times /\ DownOK(n) /\ Detected(n) /\ UpOK(n)
      /\ now' = now + 1
      /\ UNCHANGED <<up, since, beat, lost, failures, inFlight, row, fd, logged, errors>>
  BY Known DEF Tick, nodeVars
<1>2. PICK b \in Nat, S \in SUBSET Nat : Lives(n, b, S)
  BY Known
<1>3. DownOK(n)' /\ Detected(n)' /\ UpOK(n)'
  BY <1>1 DEF DownOK, Detected, SeenBy, UpOK, Settled
<1>4. History(n, b, S)'
  <2>1. S \in SUBSET (0..(now + 1))
    BY <1>1, <1>2, Numbers DEF Lives, History
  <2> QED BY <1>1, <1>2, <2>1 DEF Lives, History, Begun, UnderWay
<1>5. Counted(n, S)'
  BY <1>1, <1>2 DEF Lives, Counted, Enough, Missing, UnderWay, Settled
<1>6. Accounted(n, b)'
  BY <1>1, <1>2 DEF Lives, Accounted, Owed, Stale, Marking, Coming, UnderWay
<1> QED
  BY <1>1, <1>2, <1>3, <1>4, <1>5, <1>6 DEF Lives, Life, NodeOK

(* A step of the detector that leaves the nodes and their rows alone.      *)
LEMMA DetectorSteps ==
    ASSUME IInv, NEW n \in Node,
           UNCHANGED <<now, up, since, beat, lost, failures, inFlight, row, logged>>,
           Detected(n)',
           up[n] /\ fd'.pc # "idle" =>
               fd'.started <= Settled(n) \/ fd'.rows[n].last + LateBy >= fd'.started,
           ~up[n] => fd'.rows[n].last <= since[n],
           Marking(n)' => \/ Marking(n)
                          \/ /\ row[n].status = "ONLINE"
                             /\ TimeoutIsLongEnough /\ (up[n] \/ Coming(n)) =>
                                 \A b \in Nat : \A S \in SUBSET Nat :
                                     Lives(n, b, S) => row[n].last + Delay < b
    PROVE  NodeOK(n)'
<1>1. TypeOK /\ Times /\ DownOK(n) /\ UpOK(n)
  BY Known
<1>2. PICK b \in Nat, S \in SUBSET Nat : Lives(n, b, S)
  BY Known
<1>3. DownOK(n)' /\ UpOK(n)'
  BY <1>1 DEF DownOK, UpOK, Settled
<1>4. History(n, b, S)'
  BY <1>2 DEF Lives, History, Begun, UnderWay
<1>5. Counted(n, S)'
  BY <1>2 DEF Lives, Counted, Enough, Missing, UnderWay, Settled
<1>6. Accounted(n, b)'
  <2>1. Coming(n)' <=> Coming(n)
    BY DEF Coming, UnderWay
  <2>2. ASSUME TimeoutIsLongEnough, up[n] \/ Coming(n), Stale(n, b)' PROVE Stale(n, b)
    BY <1>2, <2>2 DEF Stale
  <2>3. Marking(n)' => Marking(n) \/ row[n].status = "ONLINE"
    OBVIOUS
  <2>4. Owed(n, b)' \in 0..2 /\ (TimeoutIsLongEnough => Owed(n, b)' <= Owed(n, b))
    BY <2>1, <2>2, <2>3 DEF Owed
  <2>5. Accounted(n, b)
    BY <1>2 DEF Lives
  <2> QED BY <1>1, <2>4, <2>5, StillAccounted
<1> QED
  BY <1>2, <1>3, <1>4, <1>5, <1>6 DEF Lives, Life, NodeOK

LEMMA ReadRowsKept ==
    ASSUME IInv, ReadRows, NEW n \in Node PROVE NodeOK(n)'
<1>1. /\ TypeOK /\ Times /\ DownOK(n) /\ Detected(n) /\ UpOK(n)
      /\ UNCHANGED <<now, up, since, beat, lost, failures, inFlight, row, logged, errors>>
      /\ fd.pc = "idle" /\ now >= fd.next
  BY Known DEF ReadRows, nodeVars
<1>2. fd'.pc = "clock" /\ fd'.started = now /\ fd'.rows = row /\ fd'.next = fd.next + Check
  BY <1>1, Numbers DEF ReadRows, Detector
<1>3. PICK b \in Nat, S \in SUBSET Nat : Lives(n, b, S)
  BY Known
<1>4. Detected(n)'
  <2> SUFFICES ASSUME Delay <= Timeout, ~up[n], row[n].status = "ONLINE"
               PROVE  \/ fd.next + Check <= SeenBy(n) + Check
                      \/ since[n] + Timeout < now /\ fd.next + Check <= SeenBy(n) + 2 * Check
    BY <1>1, <1>2 DEF Detected, SeenBy
  <2>1. fd.next <= SeenBy(n) + Check
    BY <1>1 DEF Detected
  <2> QED BY <1>1, <2>1, Numbers, NodeNumbers DEF SeenBy
<1>5. ASSUME up[n] PROVE now <= Settled(n) \/ row[n].last + LateBy >= now
  BY <1>1, <1>3, <1>5, SettledIsRecent, Numbers, NodeNumbers
<1>6. ~up[n] => row[n].last <= since[n]
  BY <1>1 DEF DownOK
<1>7. ASSUME Marking(n)', TimeoutIsLongEnough, up[n] \/ Coming(n),
             NEW c \in Nat, NEW T \in SUBSET Nat, Lives(n, c, T)
      PROVE  row[n].last + Delay < c
  <2>1. row[n].last + Timeout < now + Gap
    BY <1>1, <1>2, <1>7 DEF Marking
  <2> QED BY <1>1, <1>7, <2>1, ReadInTime, Numbers, NodeNumbers
<1>8. Marking(n)' => row[n].status = "ONLINE"
  BY <1>1, <1>2 DEF Marking
<1> QED
  BY <1>1, <1>2, <1>4, <1>5, <1>6, <1>7, <1>8, DetectorSteps

LEMMA ReadFailsKept ==
    ASSUME IInv, ReadFails, NEW n \in Node PROVE NodeOK(n)'
<1>1. /\ TypeOK /\ Times /\ DownOK(n) /\ Detected(n)
      /\ UNCHANGED <<now, up, since, beat, lost, failures, inFlight, row, logged>>
      /\ fd.pc = "idle" /\ errors' = errors + 1
  BY Known DEF ReadFails, nodeVars
<1>2. fd'.pc = "idle" /\ fd'.rows = fd.rows /\ fd'.next = fd.next + Check
  BY <1>1, Numbers DEF ReadFails, Detector
<1>3. Detected(n)'
  <2>1. SeenBy(n)' = SeenBy(n) + Check
    BY <1>1, Numbers, NodeNumbers DEF SeenBy
  <2> QED BY <1>1, <1>2, <2>1, Numbers, NodeNumbers DEF Detected
<1>4. ~Marking(n)'
  BY <1>2 DEF Marking
<1>5. ~up[n] => fd'.rows[n].last <= since[n]
  BY <1>1, <1>2 DEF DownOK
<1> QED
  BY <1>1, <1>2, <1>3, <1>4, <1>5, DetectorSteps

LEMMA ReadClockKept ==
    ASSUME IInv, ReadClock, NEW n \in Node PROVE NodeOK(n)'
<1>1. /\ TypeOK /\ Times /\ DownOK(n) /\ Detected(n) /\ UpOK(n)
      /\ UNCHANGED <<now, up, since, beat, lost, failures, inFlight, row, logged, errors>>
      /\ fd.pc = "clock"
  BY Known DEF ReadClock, nodeVars
<1>2. /\ fd'.pc = "sweep" /\ fd'.started = fd.started /\ fd'.rows = fd.rows
      /\ fd'.next = fd.next /\ fd'.todo = Node
  BY <1>1, Numbers DEF ReadClock, Detector
<1>3. Detected(n)' /\ (Marking(n)' => Marking(n))
  BY <1>1, <1>2 DEF Detected, SeenBy, Marking
<1>4. up[n] => fd.started <= Settled(n) \/ fd.rows[n].last + LateBy >= fd.started
  BY <1>1 DEF UpOK
<1>5. ~up[n] => fd.rows[n].last <= since[n]
  BY <1>1 DEF DownOK
<1> QED
  BY <1>1, <1>2, <1>3, <1>4, <1>5, DetectorSteps

LEMMA DetectDoneKept ==
    ASSUME IInv, DetectDone, NEW n \in Node PROVE NodeOK(n)'
<1>1. /\ TypeOK /\ Times /\ Detected(n)
      /\ UNCHANGED <<now, up, since, beat, lost, failures, inFlight, row, logged, errors>>
      /\ fd.pc = "sweep" /\ fd.todo = {}
  BY Known DEF DetectDone, nodeVars
<1>2. fd'.pc = "idle" /\ fd'.next = fd.next /\ fd'.rows = Fresh
  BY <1>1, Numbers DEF DetectDone, Detector
<1>3. Detected(n)'
  BY <1>1, <1>2 DEF Detected, SeenBy
<1>4. ~Marking(n)'
  BY <1>2 DEF Marking
<1>5. fd'.rows[n].last <= since[n]
  BY <1>1, <1>2, NodeNumbers DEF Fresh
<1> QED
  BY <1>1, <1>2, <1>3, <1>4, <1>5, DetectorSteps

LEMMA ExaminedIt ==
    ASSUME TypeOK, NEW n \in Node, Examined(n)
    PROVE  /\ fd'.pc = fd.pc /\ fd'.next = fd.next /\ fd'.started = fd.started
           /\ fd'.rows = fd.rows /\ fd'.at = fd.at /\ fd'.todo = fd.todo \ {n}
BY DEF Examined, TypeOK

(* What the detector times out it has read before Timeout and Gap.         *)
LEMMA TimedOutIsOld ==
    ASSUME TypeOK, Times, NEW n \in Node, fd.pc = "sweep", TimedOut(n)
    PROVE  fd.rows[n].last + Timeout < fd.started + Gap
BY Numbers, NodeNumbers DEF Times, DetectorTimes, TimedOut

(* A row is marked, with an entry in the log or without one.               *)
LEMMA MarkedKept ==
    ASSUME IInv, NEW n \in Node,
           UNCHANGED <<now, up, since, beat, lost, failures, inFlight>>,
           errors' \in {errors, errors + 1}, Examined(n),
           fd.pc = "sweep", n \in fd.todo, Failed(n),
           row'[n].status = "OFFLINE", row'[n].last = row[n].last,
           logged'[n] \in {logged[n], logged[n] + 1}
    PROVE  NodeOK(n)'
<1>1. TypeOK /\ Times /\ DownOK(n) /\ UpOK(n)
  BY Known
<1>2. fd'.pc = fd.pc /\ fd'.started = fd.started /\ fd'.rows = fd.rows /\ n \notin fd'.todo
  BY <1>1, ExaminedIt
<1>3. PICK b \in Nat, S \in SUBSET Nat : Lives(n, b, S)
  BY Known
<1>4. fd.rows[n].last + Timeout < fd.started + Gap
  BY <1>1, TimedOutIsOld DEF Failed
<1>5. DownOK(n)' /\ Detected(n)' /\ UpOK(n)'
  BY <1>1, <1>2 DEF DownOK, Detected, UpOK, Settled
<1>6. History(n, b, S)' /\ S \in SUBSET (0..now)
  BY <1>3 DEF Lives, History, Begun, UnderWay
<1>7. ASSUME TimeoutIsLongEnough, up[n] PROVE Enough(n, S, Settled(n) + Sweep + 1)
  <2>1. ~(fd.rows[n].last + LateBy >= fd.started)
    BY <1>1, <1>4, <1>7, Numbers, NodeNumbers DEF TimeoutIsLongEnough, LateBy
  <2>2. fd.started <= Settled(n)
    BY <1>1, <1>7, <2>1 DEF UpOK
  <2>3. Settled(n) + Sweep + 1 \in Nat /\ Settled(n) + Sweep + 1 > now
    BY <1>1, <2>2, Numbers, NodeNumbers DEF Times, DetectorTimes
  <2> QED BY <1>1, <1>6, <2>3, NoneMissing
<1>8. Counted(n, S)'
  <2>1. Enough(n, S, row[n].last + Delay + 1)'
    BY <1>3 DEF Lives, Counted, Enough, Missing, UnderWay
  <2>2. ASSUME TimeoutIsLongEnough, up[n] PROVE Enough(n, S, Settled(n) + Sweep + 1)'
    BY <1>7, <2>2 DEF Enough, Missing, UnderWay, Settled
  <2> QED BY <2>1, <2>2 DEF Counted
<1>9. Accounted(n, b)'
  <2>1. Marking(n) /\ ~Marking(n)' /\ (Coming(n)' <=> Coming(n))
    BY <1>2, <1>4 DEF Marking, Failed, Coming, UnderWay
  <2>2. Stale(n, b) /\ ~Stale(n, b)'
    BY <2>1 DEF Stale
  <2>3. Owed(n, b)' + 1 = Owed(n, b) /\ Owed(n, b)' \in 0..2 /\ Owed(n, b) \in 0..2
    BY <2>1, <2>2 DEF Owed
  <2> QED BY <1>1, <1>3, <2>3, NodeNumbers DEF Lives, Accounted
<1> QED
  BY <1>3, <1>5, <1>6, <1>8, <1>9 DEF Lives, Life, NodeOK

(* A row is not marked.                                                    *)
LEMMA LeftKept ==
    ASSUME IInv, NEW n \in Node,
           UNCHANGED <<now, up, since, beat, lost, failures, inFlight, row, logged>>,
           Examined(n), fd.pc = "sweep", n \in fd.todo,
           errors' = errors + 1 \/ (errors' = errors /\ ~Failed(n))
    PROVE  NodeOK(n)'
<1>1. TypeOK /\ Times /\ DownOK(n) /\ Detected(n) /\ UpOK(n)
  BY Known
<1>2. /\ fd'.pc = fd.pc /\ fd'.started = fd.started /\ fd'.rows = fd.rows
      /\ fd'.next = fd.next /\ n \notin fd'.todo
  BY <1>1, ExaminedIt
<1>3. Detected(n)'
  <2> SUFFICES ASSUME Delay <= Timeout, ~up[n], row[n].status = "ONLINE"
               PROVE  fd.next <= SeenBy(n)' + Check
    BY <1>2 DEF Detected
  <2>1. \/ fd.next <= SeenBy(n) + Check
        \/ /\ since[n] + Timeout < fd.started /\ fd.next <= SeenBy(n) + 2 * Check
           /\ fd.rows[n].status = "ONLINE"
    BY <1>1 DEF Detected
  <2>2. CASE errors' = errors + 1
    <3>1. SeenBy(n)' = SeenBy(n) + Check
      BY <1>1, <2>2, Numbers, NodeNumbers DEF SeenBy
    <3> QED BY <1>1, <2>1, <3>1, Numbers, NodeNumbers
  <2>3. CASE errors' = errors /\ ~Failed(n)
    <3>1. SeenBy(n)' = SeenBy(n)
      BY <2>3 DEF SeenBy
    <3>2. fd.rows[n].last <= since[n] /\ fd.started <= fd.at
      BY <1>1 DEF DownOK, Times, DetectorTimes
    <3>3. fd.rows[n].status = "ONLINE" => ~(since[n] + Timeout < fd.started)
      BY <1>1, <2>3, <3>2, Numbers, NodeNumbers DEF Failed, TimedOut
    <3> QED BY <2>1, <3>1, <3>3
  <2> QED BY <2>2, <2>3
<1>4. ~Marking(n)'
  BY <1>2 DEF Marking
<1>5. up[n] => fd.started <= Settled(n) \/ fd.rows[n].last + LateBy >= fd.started
  BY <1>1 DEF UpOK
<1>6. ~up[n] => fd.rows[n].last <= since[n]
  BY <1>1 DEF DownOK
<1> QED
  BY <1>2, <1>3, <1>4, <1>5, <1>6, DetectorSteps

LEMMA SweepKept ==
    ASSUME IInv, NEW n \in Node, MarkOffline(n) \/ MarkFails(n) \/ SkipNode(n)
    PROVE  NodeOK(n)'
<1>1. TypeOK
  BY DEF IInv
<1>2. CASE MarkOffline(n)
  BY <1>1, <1>2, MarkedKept DEF MarkOffline, nodeVars, TypeOK, NodeRow
<1>3. CASE MarkFails(n)
  <2>1. CASE row' = row
    BY <1>3, <2>1, LeftKept DEF MarkFails, nodeVars
  <2>2. CASE row' = [row EXCEPT ![n].status = "OFFLINE"]
    <3>1. row'[n].status = "OFFLINE" /\ row'[n].last = row[n].last
      BY <1>1, <2>2 DEF TypeOK, NodeRow
    <3> QED BY <1>3, <3>1, MarkedKept DEF MarkFails, nodeVars
  <2> QED BY <1>3, <2>1, <2>2 DEF MarkFails
<1>4. CASE SkipNode(n)
  BY <1>4, LeftKept DEF SkipNode, nodeVars
<1> QED
  BY <1>2, <1>3, <1>4

-----------------------------------------------------------------------------
(* The invariant.                                                          *)

LEMMA IInvStarts ==
    ASSUME Init PROVE IInv
<1>1. TypeOK /\ Times
  BY TypeStarts, TimesStart
<1>2. SUFFICES ASSUME NEW n \in Node PROVE NodeOK(n)
  BY <1>1 DEF IInv
<1>3. /\ now = 0 /\ up[n] /\ since[n] = 0 /\ inFlight = {}
      /\ beat[n].began = 0 /\ beat[n].doing = "wait"
      /\ row[n].status = "ONLINE" /\ row[n].last = 0 /\ fd.pc = "idle"
      /\ failures[n] = 0 /\ logged[n] = 0
  BY DEF Init, Fresh
<1>4. DownOK(n) /\ Detected(n) /\ UpOK(n)
  BY <1>3 DEF DownOK, Detected, UpOK
<1>5. History(n, 0, {0})
  <2>1. Begun(n, {0}) = {0}
    BY <1>3 DEF Begun
  <2>2. Dense(0, {0})
    BY DEF Dense
  <2> QED BY <1>3, <2>1, <2>2 DEF History, UnderWay
<1>6. Counted(n, {0})
  <2>1. PICK x \in Nat : x = row[n].last + Delay + 1
    BY <1>1, <1>3, Numbers
  <2>2. x > now /\ {0} \in SUBSET (0..now)
    BY <1>1, <1>3, <2>1, Numbers
  <2>3. Enough(n, {0}, x)
    BY <1>1, <2>2, NoneMissing
  <2> QED BY <1>3, <2>1, <2>3 DEF Counted
<1>7. Accounted(n, 0)
  <2>1. ~(row[n].last + Delay < 0) /\ ~Marking(n)
    BY <1>1, <1>3, Numbers DEF Marking
  <2>2. Owed(n, 0) = 0
    BY <1>3, <2>1 DEF Owed, Stale
  <2> QED BY <1>3, <2>2 DEF Accounted
<1>8. Lives(n, 0, {0}) /\ {0} \in SUBSET Nat
  BY <1>3, <1>5, <1>6, <1>7 DEF Lives
<1> QED
  BY <1>4, <1>8 DEF NodeOK, Life

(* What a step of another node or of its row leaves alone.                 *)
LEMMA NodeSteps ==
    ASSUME IInv, NEW m \in Node, NEW n \in Node, n # m,
           Sends(m) \/ NodeFails(m) \/ NodeStarts(m)
    PROVE  NodeOK(n)'
<1>1. TypeOK
  BY DEF IInv
<1>2. OthersSame(m) /\ UNCHANGED <<now, lost, row, fd, logged, errors>>
  BY <1>1, TickerEffect, BeginEffect, SendEffect, ReturnEffect, FailEffect, StartEffect
     DEF Sends
<1>3. failures'[n] = failures[n]
  BY <1>1 DEF Sends, TickerFires, BeginHeartbeat, SendHeartbeat, CallReturns,
              NodeFails, NodeStarts, TypeOK
<1>4. inFlight' = inFlight \/ \E p, t : inFlight' = inFlight \cup {<<m, p, t>>}
  BY DEF Sends, TickerFires, BeginHeartbeat, SendHeartbeat, CallReturns,
         NodeFails, NodeStarts
<1>5. SameNode(n)
  BY <1>2, <1>3, <1>4 DEF SameNode, OthersSame
<1> QED
  BY <1>5, SameKept

LEMMA HeartbeatSteps ==
    ASSUME IInv, NEW m \in Node, NEW p \in Nat, NEW t \in Nat, NEW n \in Node, n # m,
           HeartbeatRecorded(m, p, t) \/ HeartbeatLost(m, p, t)
    PROVE  NodeOK(n)'
<1>1. TypeOK
  BY DEF IInv
<1>2. SameNode(n)
  BY <1>1 DEF HeartbeatRecorded, HeartbeatLost, SameNode, TypeOK
<1> QED
  BY <1>2, SameKept

LEMMA SweepSteps ==
    ASSUME IInv, NEW m \in Node, NEW n \in Node, n # m,
           MarkOffline(m) \/ MarkFails(m) \/ SkipNode(m)
    PROVE  NodeOK(n)'
<1>1. TypeOK
  BY DEF IInv
<1>2. Examined(m)
  BY DEF MarkOffline, MarkFails, SkipNode
<1>3. /\ fd'.pc = fd.pc /\ fd'.next = fd.next /\ fd'.started = fd.started
      /\ fd'.rows[n] = fd.rows[n] /\ (n \in fd'.todo <=> n \in fd.todo)
  BY <1>1, <1>2, ExaminedIt
<1>4. row'[n] = row[n] /\ logged'[n] = logged[n]
  BY <1>1 DEF MarkOffline, MarkFails, SkipNode, TypeOK
<1>5. SameNode(n)
  BY <1>3, <1>4 DEF MarkOffline, MarkFails, SkipNode, nodeVars, SameNode
<1> QED
  BY <1>5, SameKept

LEMMA StutterKept ==
    ASSUME IInv, UNCHANGED vars, NEW n \in Node PROVE NodeOK(n)'
<1>1. SameNode(n)
  BY DEF vars, nodeVars, SameNode
<1> QED
  BY <1>1, SameKept

LEMMA IInvKept ==
    ASSUME IInv, [Next]_vars PROVE IInv'
<1>1. TypeOK' /\ Times'
  BY TypeKept, TimesKept DEF IInv
<1>2. SUFFICES ASSUME NEW n \in Node PROVE NodeOK(n)'
  BY <1>1 DEF IInv
<1>3. CASE Tick
  BY <1>3, TickKept
<1>4. ASSUME NEW m \in Node, Sends(m) PROVE NodeOK(n)'
  BY <1>4, NodeSteps, TickerKept, BeginKept, SendKept DEF Sends
<1>5. ASSUME NEW m \in Node, NodeFails(m) \/ NodeStarts(m) PROVE NodeOK(n)'
  BY <1>5, NodeSteps, FailKept, StartKept
<1>6. ASSUME NEW m \in Node, NEW p \in Nat, NEW t \in Nat,
             HeartbeatRecorded(m, p, t) \/ HeartbeatLost(m, p, t)
      PROVE  NodeOK(n)'
  BY <1>6, HeartbeatSteps, RecordedKept, LostKept
<1>7. CASE ReadRows \/ ReadFails
  BY <1>7, ReadRowsKept, ReadFailsKept
<1>8. CASE ReadClock
  BY <1>8, ReadClockKept
<1>9. CASE DetectDone
  BY <1>9, DetectDoneKept
<1>10. ASSUME NEW m \in Node, MarkOffline(m) \/ MarkFails(m) \/ SkipNode(m)
       PROVE  NodeOK(n)'
  BY <1>10, SweepSteps, SweepKept
<1>11. CASE UNCHANGED vars
  BY <1>11, StutterKept
<1>12. \A h \in inFlight : h[1] \in Node /\ h[2] \in Nat /\ h[3] \in Nat
  BY DEF IInv, TypeOK
<1> QED
  BY <1>3, <1>4, <1>5, <1>6, <1>7, <1>8, <1>9, <1>10, <1>11, <1>12 DEF Next

LEMMA Invariant == Spec => []IInv
<1>1. Init => IInv
  BY IInvStarts
<1>2. IInv /\ [Next]_vars => IInv'
  BY IInvKept
<1> QED
  BY <1>1, <1>2, PTL DEF Spec

-----------------------------------------------------------------------------
(* The properties.                                                         *)

(* The detector, the rows and the senders only ever hold what their types  *)
(* say: the rows of storage_nodes stay ONLINE or OFFLINE.                  *)
THEOREM TypeCorrect == Spec => []TypeOK
<1>1. IInv => TypeOK
  BY DEF IInv
<1> QED
  BY <1>1, Invariant, PTL

(* When the timeout covers the heartbeats that may be lost, the pauses of  *)
(* a sender that waits for its answers and whose ticker comes after its    *)
(* first heartbeat, the way of a heartbeat and the pause of Detect before  *)
(* it reads the clock, a node that has run for RecoveryTime is ONLINE,     *)
(* though Detect marks what it has read and UpsertNode takes the           *)
(* heartbeats in any order.                                                *)
THEOREM RunningNodesAreOnline == Spec => []UpMeansOnline
<1>1. ASSUME IInv PROVE UpMeansOnline
  <2> SUFFICES ASSUME TimeoutIsLongEnough, NEW n \in Node, up[n],
                      now > since[n] + RecoveryTime, row[n].status # "ONLINE"
               PROVE  FALSE
    BY DEF UpMeansOnline
  <2>1. TypeOK /\ Times
    BY <1>1, Known
  <2>2. PICK b \in Nat, S \in SUBSET Nat : Lives(n, b, S)
    BY <1>1, Known
  <2>3. row[n].status = "OFFLINE"
    BY <2>1, NodeNumbers
  <2>4. PICK x \in Nat : x = Settled(n) + Sweep + 1
    BY <2>1, Numbers, NodeNumbers
  <2>5. Enough(n, S, x)
    BY <2>2, <2>3, <2>4 DEF Lives, Counted
  <2>6. History(n, b, S) /\ b = since[n]
    BY <2>2 DEF Lives, History
  <2>7. RecoveryTime = 2 * (Losses * Pause) + Pause + Warm + 2 * Delay + Sweep
    <3>1. 2 * Losses * Pause = 2 * (Losses * Pause)
      BY Pauses
    <3> QED BY <2>1, <3>1, Numbers DEF RecoveryTime
  <2>8. PICK y \in Nat, l \in Nat : y = Settled(n) + Sweep /\ l = Losses * Pause
    BY <2>1, Numbers, NodeNumbers
  <2>9. y >= b + Warm /\ y + 1 >= x /\ y + l + Pause + Delay < now
    <3>1. now > b + (2 * l + Pause + Warm + 2 * Delay + Sweep)
      BY <2>6, <2>7, <2>8
    <3>2. x = y + 1 /\ y = b + Delay + l + Warm + Sweep
      BY <2>4, <2>6, <2>8 DEF Settled
    <3>3. Pause \in Nat /\ Warm \in Nat /\ Delay \in Nat /\ Sweep \in Nat /\ now \in Nat
      BY <2>1, Numbers
    <3> QED BY <3>1, <3>2, <3>3
  <2> QED BY <2>1, <2>5, <2>6, <2>8, <2>9, StretchIsHeard
<1> QED
  BY <1>1, Invariant, PTL

(* A node that has failed is OFFLINE once DetectionTime has passed and one *)
(* more interval for every statement of the detector that failed, whether  *)
(* GetAllNodes or MarkNodeOffline, whatever was still under way when it    *)
(* failed.                                                                 *)
THEOREM FailedNodesAreOffline == Spec => []DownMeansOffline
<1>1. ASSUME IInv PROVE DownMeansOffline
  <2> SUFFICES ASSUME Delay <= Timeout, NEW n \in Node, ~up[n],
                      now > since[n] + DetectionTime + errors * Check,
                      row[n].status # "OFFLINE"
               PROVE  FALSE
    BY DEF DownMeansOffline
  <2>1. TypeOK /\ Times /\ Detected(n)
    BY <1>1, Known
  <2>2. row[n].status = "ONLINE"
    BY <2>1, NodeNumbers
  <2>3. now > SeenBy(n) + Check + Sweep
    BY <2>1, Numbers, NodeNumbers DEF DetectionTime, SeenBy
  <2>4. CASE fd.pc = "idle"
    BY <2>1, <2>2, <2>3, <2>4, Numbers, NodeNumbers DEF Detected, Times, DetectorTimes
  <2>5. CASE fd.pc # "idle"
    <3>1. fd.next <= SeenBy(n) + Check \/ fd.next <= SeenBy(n) + 2 * Check
      BY <2>1, <2>2, <2>5 DEF Detected
    <3> QED BY <2>1, <2>3, <2>5, <3>1, Numbers, NodeNumbers DEF Times, DetectorTimes
  <2> QED BY <2>4, <2>5
<1> QED
  BY <1>1, Invariant, PTL

(* When the timeout is long enough, a failure is logged once at most: the  *)
(* sweeps that read a row before it changed, the heartbeats that arrive    *)
(* after the failure, the senders held up by a slow answer and the node's  *)
(* restarts bring no second entry.                                         *)
THEOREM FailuresAreLoggedOnce == Spec => []LoggedOnce
<1>1. ASSUME IInv PROVE LoggedOnce
  <2> SUFFICES ASSUME TimeoutIsLongEnough, NEW n \in Node PROVE logged[n] <= failures[n]
    BY DEF LoggedOnce
  <2>1. TypeOK /\ Times
    BY <1>1, Known
  <2>2. PICK b \in Nat : Accounted(n, b)
    BY <1>1, Known DEF Lives
  <2>3. Owed(n, b) \in 0..2
    BY OwedIsSmall
  <2> QED BY <2>1, <2>2, <2>3, NodeNumbers DEF Accounted
<1> QED
  BY <1>1, Invariant, PTL
=============================================================================
