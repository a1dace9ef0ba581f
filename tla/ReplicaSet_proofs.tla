------------------------- MODULE ReplicaSet_proofs -------------------------
(***************************************************************************)
(* What the abstract specification of self-healing is worth to a reader,   *)
(* for every number of nodes and objects.                                  *)
(***************************************************************************)
EXTENDS ReplicaSet, TLAPS

(* Healing keeps the types of the abstract state.                          *)
LEMMA HealTyped == TypeOK /\ [HealNext]_vars => TypeOK'
<1> SUFFICES ASSUME TypeOK, [HealNext]_vars PROVE TypeOK'
  OBVIOUS
<1> USE DEF TypeOK, vars, rows, With, Without
<1>1. ASSUME NEW o \in Object, NEW n \in Node, NEW m \in Node,
             Replace(o, n, m), UNCHANGED mishap
      PROVE  TypeOK'
  BY <1>1 DEF Replace
<1>2. ASSUME NEW o \in Object, NEW n \in Node, UNCHANGED mishap,
             Write(o, n) \/ Publish(o, n) \/ GiveUp(o, n) \/ Decay(o, n)
      PROVE  TypeOK'
  <2>1. CASE Write(o, n) \/ Decay(o, n)
    BY <1>2, <2>1 DEF Write, Decay
  <2>2. CASE Publish(o, n) \/ GiveUp(o, n)
    BY <1>2, <2>2 DEF Publish, GiveUp
  <2> QED
    BY <1>2, <2>1, <2>2
<1>3. CASE UNCHANGED vars
  BY <1>3
<1> QED
  BY <1>1, <1>2, <1>3 DEF HealNext

(* Every node a reader is sent to keeps its bytes: rows become healthy     *)
(* only over whole files, and only the files of other rows are written.    *)
THEOREM ReadersAreServed == HealSpec => []ReadersFindBytes
<1>1. Init => TypeOK /\ ReadersFindBytes
  BY DEF Init, TypeOK, ReadersFindBytes
<1>2. TypeOK /\ ReadersFindBytes /\ [HealNext]_vars => ReadersFindBytes'
  <2> SUFFICES ASSUME TypeOK, ReadersFindBytes, [HealNext]_vars
               PROVE  ReadersFindBytes'
    OBVIOUS
  <2> USE DEF TypeOK, ReadersFindBytes, rows, With, Without
  <2>1. ASSUME NEW o \in Object, NEW n \in Node, NEW m \in Node,
               Replace(o, n, m)
        PROVE  ReadersFindBytes'
    BY <2>1 DEF Replace
  <2>2. ASSUME NEW o \in Object, NEW n \in Node,
               Write(o, n) \/ Publish(o, n) \/ GiveUp(o, n) \/ Decay(o, n)
        PROVE  ReadersFindBytes'
    BY <2>2 DEF Write, Publish, GiveUp, Decay
  <2>3. CASE UNCHANGED vars
    BY <2>3 DEF vars
  <2> QED
    BY <2>1, <2>2, <2>3 DEF HealNext
<1> QED
  BY <1>1, <1>2, HealTyped, PTL DEF HealSpec
=============================================================================
