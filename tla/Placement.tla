----------------------------- MODULE Placement -----------------------------
(***************************************************************************)
(* The placement engine (pkg/coordinator/placement.go): SelectNodes as the *)
(* uploads, the self-healing engine and the replication manager call it,   *)
(* several at once.  A call reads the ONLINE nodes, drops the excluded and *)
(* the loaded ones, and orders the rest by the configured strategy; the    *)
(* mutex only protects the index of round robin, so the list a call works  *)
(* on is as old as its query.                                              *)
(*                                                                         *)
(* Metrics are integers: percentages, storage in hundredths of a node's    *)
(* total, latency in milliseconds.  Scores and weights are scaled by 100.  *)
(***************************************************************************)
EXTENDS Integers, FiniteSets

CONSTANTS
    Node, Host,      \* the nodes, and the rank of each one's hostname
    Caller,          \* goroutines that place replicas
    Strategies,      \* PlacementConfig.Strategy takes one of these values
    Weight,          \* WeightStorage, WeightCPU, ...: sum 100, give or take one
    MaxCPUThreshold, MaxRAMThreshold, MinFreeStorage,
    Reports,         \* the metrics a heartbeat may carry
    Counts           \* numbers of replicas asked for

Metrics == [cpu: 0..100, mem: 0..100, free: 0..100, latency: Nat]

ASSUME PlacementAssumption ==
    /\ IsFiniteSet(Node)
    /\ Host \in [Node -> Nat] /\ \A m, n \in Node : Host[m] = Host[n] => m = n
    /\ Strategies \subseteq {"weighted", "least_loaded", "round_robin"}
    /\ Weight \in [{"storage", "cpu", "ram", "latency", "health"} -> Int]
    /\ Weight.storage + Weight.cpu + Weight.ram + Weight.latency
         + Weight.health \in 99..101
    /\ Reports \subseteq Metrics /\ Counts \subseteq Nat

VARIABLES
    strategy,   \* from the configuration
    rrIndex,    \* where round robin goes on
    call,       \* per caller, the call under way
    lists,      \* history: the one list round robin has worked on; or many
    picks       \* history: turns of each node, above the fewest of any

vars == <<strategy, rrIndex, call, lists, picks>>

TypeOK ==
    /\ strategy \in Strategies
    /\ rrIndex \in Nat /\ (rrIndex < Cardinality(Node) \/ rrIndex = 0)
    /\ call \in [Caller ->
           [count: Nat,    \* 0 when no call is under way
            seen: UNION {[S -> Reports] : S \in SUBSET Node}]]
    /\ lists \subseteq SUBSET Node
    /\ picks \in [Node -> Nat]

Idle == [count |-> 0, seen |-> [n \in {} |-> n]]

Init ==
    /\ strategy \in Strategies
    /\ rrIndex = 0
    /\ call = [c \in Caller |-> Idle]
    /\ lists = {} /\ picks = [n \in Node |-> 0]

-----------------------------------------------------------------------------
(* SelectNodes.                                                            *)

(* The hard exclusion thresholds.                                          *)
WithinThresholds(m) ==
    /\ m.cpu <= MaxCPUThreshold /\ m.mem <= MaxRAMThreshold
    /\ m.free >= MinFreeStorage

Candidates(nodes, exclude) ==
    {n \in DOMAIN nodes \ exclude : WithinThresholds(nodes[n])}

(* GetOnlineNodes and the loop over them.  Heartbeats and the failure      *)
(* detector rewrite the table between any two calls, so a call finds any   *)
(* set of ONLINE nodes with any metrics.  Too few candidates, a count of   *)
(* zero or a failed query are an error: nothing changes.                   *)
ReadNodes(c) ==
    /\ call[c] = Idle
    /\ \E online, exclude \in SUBSET Node, count \in Counts :
       \E nodes \in [online -> Reports] :
        LET found == Candidates(nodes, exclude)
        IN  /\ count > 0 /\ Cardinality(found) >= count
            /\ call' = [call EXCEPT ![c] =
                  [count |-> count, seen |-> [n \in found |-> nodes[n]]]]
    /\ UNCHANGED <<strategy, rrIndex, lists, picks>>

(* scoreNode, as a fraction: the latency score is 1 / (1 + latency / 100), *)
(* so 100 + latency is the denominator.                                    *)
SteadyScore(m) ==
    Weight.storage * m.free + Weight.cpu * (100 - m.cpu)
      + Weight.ram * (100 - m.mem) + Weight.health * 100
Score(m) == SteadyScore(m) * (100 + m.latency) + Weight.latency * 10000

ScoresHigher(m1, m2) ==
    Score(m1) * (100 + m2.latency) > Score(m2) * (100 + m1.latency)

(* Combined CPU and RAM utilization, ties broken by free storage.  The     *)
(* tolerance of 0.001 in the comparison is below the unit of the metrics.  *)
LessLoaded(m1, m2) ==
    \/ m1.cpu + m1.mem < m2.cpu + m2.mem
    \/ m1.cpu + m1.mem = m2.cpu + m2.mem /\ m1.free > m2.free

(* Mutant of GoesBefore: the scores are sorted the other way round.         *)
LowScoreBefore(m1, m2) ==
    IF strategy = "weighted" THEN ScoresHigher(m2, m1) ELSE LessLoaded(m1, m2)

GoesBefore(m1, m2) ==
    IF strategy = "weighted" THEN ScoresHigher(m1, m2) ELSE LessLoaded(m1, m2)

(* The first count nodes of the sorted list; ties fall either way.         *)
FirstOf(count, seen) ==
    {S \in SUBSET DOMAIN seen :
        /\ Cardinality(S) = count
        /\ \A n \in S, m \in DOMAIN seen \ S : ~GoesBefore(seen[m], seen[n])}

(* The element at index i of a set of nodes sorted by hostname.            *)
ByHostname(set, i) ==
    CHOOSE n \in set : Cardinality({m \in set : Host[m] < Host[n]}) = i

(* Mutant of Slot: the end of the list is a stop, not a wrap.              *)
SlotAtEnd(i, len) == IF rrIndex + i < len THEN rrIndex + i ELSE len - 1
Slot(i, len) == (rrIndex + i) % len

(* Mutants of Advanced: by one whatever the count; without the wrap.       *)
AdvancedByOne(count, len) == (rrIndex + 1) % len
AdvancedFar(count, len) == rrIndex + count
Advanced(count, len) == (rrIndex + count) % len

NextInTurn(count, list) ==
    {ByHostname(list, Slot(i, Cardinality(list))) : i \in 0..(count - 1)}

Return(c) == call' = [call EXCEPT ![c] = Idle]

(* sort.Slice, then the head of the list.                                  *)
ChooseSorted(c, S) ==
    /\ call[c] # Idle /\ strategy # "round_robin"
    /\ S \in FirstOf(call[c].count, call[c].seen)
    /\ Return(c)
    /\ UNCHANGED <<strategy, rrIndex, lists, picks>>

(* The turns so far, counted while all calls have had the same list.       *)
CountTurns(list, S) ==
    /\ lists' = IF lists \subseteq {list} THEN {list} ELSE SUBSET Node
    /\ picks' = IF lists' # {list} THEN [n \in Node |-> 0]
                ELSE LET turns == [n \in list |-> picks[n] + (IF n \in S THEN 1 ELSE 0)]
                     IN  [n \in Node |->
                            IF n \in list /\ \A m \in list : turns[m] > 0
                            THEN turns[n] - 1
                            ELSE IF n \in list THEN turns[n] ELSE 0]

(* Under the mutex.                                                        *)
ChooseInTurn(c, S) ==
    /\ call[c] # Idle /\ strategy = "round_robin"
    /\ LET list == DOMAIN call[c].seen
       IN  /\ S = NextInTurn(call[c].count, list)
           /\ Return(c)
           /\ rrIndex' = Advanced(call[c].count, Cardinality(list))
           /\ CountTurns(list, S)
    /\ UNCHANGED strategy

(* The call of c is answered with the nodes S.                             *)
Selects(c, S) == ChooseSorted(c, S) \/ ChooseInTurn(c, S)

Next == \E c \in Caller : ReadNodes(c) \/ \E S \in SUBSET Node : Selects(c, S)

Spec == Init /\ [][Next]_vars

-----------------------------------------------------------------------------
(* Properties.                                                             *)

(* What all callers, and the models of the replica components, rely on: an *)
(* answer is exactly as many different nodes as were asked for, each of    *)
(* them eligible when the call read the table, although the index of round *)
(* robin was left there by calls with other and longer lists.              *)
ExactlyCount ==
    [][\A c \in Caller, S \in SUBSET Node : Selects(c, S) =>
          Cardinality(S) = call[c].count /\ S \subseteq DOMAIN call[c].seen]_vars

(* "SelectNodes selects the optimal storage nodes" (placement.go:21): with *)
(* weights or by load, no candidate is left out that reported better in    *)
(* every metric than one that was chosen.  Validate checks the sum of the  *)
(* weights only: this needs that none is negative, and that not all of the *)
(* weight is on the health, which is the same for all.                     *)
WeightsCount ==
    /\ \A k \in DOMAIN Weight : Weight[k] >= 0
    /\ \E k \in DOMAIN Weight \ {"health"} : Weight[k] > 0
Better(m1, m2) ==
    /\ m1.cpu < m2.cpu /\ m1.mem < m2.mem
    /\ m1.free > m2.free /\ m1.latency < m2.latency
NoBetterLeftOut ==
    [][WeightsCount =>
        \A c \in Caller, S \in SUBSET Node : ChooseSorted(c, S) =>
          \A n \in S, m \in DOMAIN call[c].seen :
              Better(call[c].seen[m], call[c].seen[n]) => m \in S]_vars

(* "Nodes are picked sequentially across invocations" (placement.go:61):   *)
(* while all calls find the same candidates, no node is a turn ahead of    *)
(* another by more than one, however many replicas each call asks for and  *)
(* however the calls of several goroutines interleave.                     *)
EvenTurns == \A n \in Node : picks[n] <= 1
=============================================================================
