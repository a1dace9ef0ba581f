----------------------------- MODULE ReplicaSet -----------------------------
(***************************************************************************)
(* What the coordinator's two loops promise about the replicas of an       *)
(* object, with no word on how: which rows it may have and where its bytes *)
(* may be.  No process, call or transaction appears here; SelfHealing is   *)
(* shown to implement HealSpec, Replication to implement ScaleSpec.        *)
(***************************************************************************)
EXTENDS Naturals, FiniteSets

CONSTANTS Node, Object,
          EmptyObject,   \* objects without bytes: nothing to copy
          MinRF          \* the number of copies a scale-down leaves

VARIABLES
    healthy,      \* per object, the nodes that readers are sent to
    recovering,   \* those reserved for a copy that is under way
    lost,         \* those written off
    good,         \* those whose file is whole
    decayed,      \* a file has been damaged by itself
    mishap        \* a metadata write has failed, or a handler or the
                  \* process did not live as long as its counterpart

rows == <<healthy, recovering, lost>>
vars == <<rows, good, decayed, mishap>>

TypeOK ==
    /\ healthy \in [Object -> SUBSET Node]
    /\ recovering \in [Object -> SUBSET Node]
    /\ lost \in [Object -> SUBSET Node]
    /\ good \in [Object -> SUBSET Node]
    /\ decayed \in BOOLEAN /\ mishap \in BOOLEAN

Init ==
    /\ healthy \in [Object -> SUBSET Node] /\ good = healthy
    /\ recovering = [o \in Object |-> {}] /\ lost = [o \in Object |-> {}]
    /\ decayed = FALSE /\ mishap = FALSE

With(sets, o, n) == [sets EXCEPT ![o] = @ \cup {n}]
Without(sets, o, n) == [sets EXCEPT ![o] = @ \ {n}]

(* A file decays.                                                          *)
Decay(o, n) ==
    /\ n \in good[o] /\ good' = Without(good, o, n)
    /\ decayed' = TRUE
    /\ UNCHANGED rows

-----------------------------------------------------------------------------
(* Self-healing.                                                           *)

(* A row is written off only against another, on a node without one, and   *)
(* while there are bytes to copy to it.                                    *)
Replace(o, n, m) ==
    /\ o \notin EmptyObject
    /\ n \in healthy[o] \cup recovering[o]
    /\ m \notin healthy[o] \cup recovering[o] \cup lost[o]
    /\ good[o] \ {m} # {} \/ decayed
    /\ healthy' = Without(healthy, o, n)
    /\ recovering' = With(Without(recovering, o, n), o, m)
    /\ lost' = With(lost, o, n)
    /\ UNCHANGED <<good, decayed>>

(* A file is written or lost only where no reader is sent, and never when  *)
(* it may be the last good one.                                            *)
Write(o, n) ==
    /\ n \notin healthy[o]
    /\ good[o] \ {n} # {} \/ decayed
    /\ good' \in {With(good, o, n), Without(good, o, n)}
    /\ UNCHANGED <<rows, decayed>>

(* Readers are sent to a node once its file is whole.                      *)
Publish(o, n) ==
    /\ n \in recovering[o]
    /\ n \in good[o] \/ decayed
    /\ healthy' = With(healthy, o, n)
    /\ recovering' = Without(recovering, o, n)
    /\ UNCHANGED <<lost, good, decayed>>

GiveUp(o, n) ==
    /\ n \in recovering[o]
    /\ recovering' = Without(recovering, o, n)
    /\ lost' = With(lost, o, n)
    /\ UNCHANGED <<healthy, good, decayed>>

HealNext ==
    /\ \E o \in Object, n \in Node :
         \/ \E m \in Node : Replace(o, n, m)
         \/ Write(o, n) \/ Publish(o, n) \/ GiveUp(o, n) \/ Decay(o, n)
    /\ UNCHANGED mishap

HealSpec == Init /\ [][HealNext]_vars

(* What HealSpec means for a reader: every node it is sent to has the      *)
(* bytes, unless files decay.                                              *)
ReadersFindBytes ==
    ~decayed => \A o \in Object : healthy[o] \subseteq good[o]

-----------------------------------------------------------------------------
(* Scaling: rows come and go, none is reserved or written off.             *)

(* A file appears, or changes, where no reader is sent, or by a mishap.    *)
Copy(o, n) ==
    /\ n \notin healthy[o] \/ mishap
    /\ good' \in {With(good, o, n), Without(good, o, n)}
    /\ UNCHANGED <<rows, decayed>>

(* Readers are sent to a file that is whole.                               *)
Grow(o, n) ==
    /\ n \notin healthy[o]
    /\ n \in good[o] \/ decayed \/ mishap
    /\ healthy' = With(healthy, o, n)
    /\ UNCHANGED <<recovering, lost, good, decayed>>

(* A file goes, then its row: each only while more than MinRF rows are     *)
(* there to be counted, and no second file before the first row.           *)
Purge(o, n) ==
    /\ n \in healthy[o] /\ Cardinality(healthy[o]) > MinRF
    /\ healthy[o] \subseteq good[o] \/ decayed \/ mishap
    /\ good' = Without(good, o, n)
    /\ UNCHANGED <<rows, decayed>>

Shrink(o, n) ==
    /\ n \in healthy[o] /\ Cardinality(healthy[o]) > MinRF
    /\ healthy' = Without(healthy, o, n)
    /\ UNCHANGED <<recovering, lost, good, decayed>>

ScaleNext ==
    /\ mishap => mishap'
    /\ \/ \E o \in Object, n \in Node :
            \/ Copy(o, n) \/ Grow(o, n) \/ Purge(o, n) \/ Shrink(o, n)
            \/ Decay(o, n)
       \/ mishap' /\ UNCHANGED <<rows, good, decayed>>

ScaleSpec == Init /\ [][ScaleNext]_vars
=============================================================================
