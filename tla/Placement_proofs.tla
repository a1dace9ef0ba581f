-------------------------- MODULE Placement_proofs --------------------------
(***************************************************************************)
(* Proofs about the placement engine: types, the exactness of answers, the *)
(* dominance of the sorted strategies and the even turns of round robin.   *)
(***************************************************************************)
EXTENDS Placement, FiniteSetTheorems, TLAPS

-----------------------------------------------------------------------------
(* Arithmetic.                                                             *)

LEMMA ModIs ==
    ASSUME NEW a \in Nat, NEW n \in Nat, n > 0
    PROVE  /\ a % n \in Nat /\ a % n < n
           /\ a \div n \in Nat /\ a = n * (a \div n) + (a % n)
<1>1. a % n \in Nat
  BY SMT
<1>2. a % n < n
  BY SMT
<1>3. a \div n \in Nat
  BY SMT
<1>4. a = n * (a \div n) + (a % n)
  BY SMT
<1> QED
  BY <1>1, <1>2, <1>3, <1>4

LEMMA Grows ==
    ASSUME NEW w \in Nat, NEW a \in Nat, NEW b \in Nat
    PROVE  /\ w * a \in Nat
           /\ a <= b => w * a <= w * b
           /\ w > 0 /\ a < b => w * a < w * b
<1>1. w * a \in Nat
  BY SMT
<1>2. a <= b => w * a <= w * b
  BY SMT
<1>3. w > 0 /\ a < b => w * a < w * b
  BY SMT
<1> QED
  BY <1>1, <1>2, <1>3

(* Two numbers less than n apart have different remainders.                *)
LEMMA ModSame ==
    ASSUME NEW n \in Nat, NEW a \in Nat, NEW b \in Nat,
           n > 0, a < b, b < a + n
    PROVE  a % n # b % n
<1> SUFFICES ASSUME a % n = b % n PROVE FALSE
  OBVIOUS
<1> DEFINE p == a \div n
           q == b \div n
           r == a % n
<1>1. /\ p \in Nat /\ q \in Nat /\ r \in Nat
      /\ a = n * p + r /\ b = n * q + r
  BY ModIs
<1> HIDE DEF p, q, r
<1>2. n * p \in Nat /\ n * q \in Nat
  BY <1>1, Grows
<1>3. n * p < n * q /\ n * q < n * p + n
  BY <1>1, <1>2
<1>4. ~(q <= p)
  BY <1>1, <1>2, <1>3, Grows
<1>5. n * (p + 1) <= n * q
  BY <1>1, <1>4, Grows
<1>6. n * (p + 1) = n * p + n
  BY <1>1
<1> QED
  BY <1>2, <1>3, <1>5, <1>6

(* A remainder takes away one round at most, when there was one at most.   *)
LEMMA ModWraps ==
    ASSUME NEW n \in Nat, NEW a \in Nat, n > 0, a < n + n
    PROVE  a % n = IF a < n THEN a ELSE a - n
<1>1. a < n => a % n = a
  BY SMT
<1>2. a >= n => a % n = a - n
  BY SMT
<1> QED
  BY <1>1, <1>2

-----------------------------------------------------------------------------
(* The sorted list of a set of nodes.                                      *)
Rank(L, n) == Cardinality({m \in L : Host[m] < Host[n]})

LEMMA RankOf ==
    ASSUME NEW L \in SUBSET Node, NEW n \in L
    PROVE  Rank(L, n) \in 0..(Cardinality(L) - 1) /\ IsFiniteSet(L)
           /\ Cardinality(L) \in Nat
<1> DEFINE B == {m \in L : Host[m] < Host[n]}
<1>1. IsFiniteSet(L) /\ Cardinality(L) \in Nat
  BY PlacementAssumption, FS_Subset, FS_CardinalityType
<1>2. Host[n] \in Nat
  BY PlacementAssumption
<1>3. B \subseteq L \ {n}
  BY <1>2
<1> HIDE DEF B
<1>4. IsFiniteSet(L \ {n}) /\ Cardinality(L \ {n}) = Cardinality(L) - 1
  BY <1>1, FS_RemoveElement
<1>5. IsFiniteSet(B) /\ Cardinality(B) <= Cardinality(L \ {n}) /\ Cardinality(B) \in Nat
  BY <1>3, <1>4, FS_Subset, FS_CardinalityType
<1>6. Cardinality(B) \in 0..(Cardinality(L) - 1)
  BY <1>1, <1>4, <1>5
<1> QED
  BY <1>1, <1>6 DEF Rank, B

LEMMA RankGrows ==
    ASSUME NEW L \in SUBSET Node, NEW n \in L, NEW m \in L, Host[n] < Host[m]
    PROVE  Rank(L, n) < Rank(L, m)
<1> DEFINE A == {k \in L : Host[k] < Host[n]}
           B == {k \in L : Host[k] < Host[m]}
<1>1. IsFiniteSet(L)
  BY RankOf
<1>2. \A k \in L : Host[k] \in Nat
  BY PlacementAssumption
<1>3. A \cup {n} \subseteq B /\ n \notin A /\ A \subseteq L /\ B \subseteq L
  BY <1>2
<1> HIDE DEF A, B
<1>4. IsFiniteSet(A) /\ IsFiniteSet(B)
  BY <1>1, <1>3, FS_Subset
<1>5. Cardinality(A \cup {n}) = Cardinality(A) + 1
  BY <1>3, <1>4, FS_AddElement
<1>6. Cardinality(A \cup {n}) <= Cardinality(B) /\ Cardinality(A) \in Nat
      /\ Cardinality(B) \in Nat
  BY <1>3, <1>4, FS_Subset, FS_CardinalityType
<1>7. Cardinality(A) < Cardinality(B)
  BY <1>5, <1>6
<1> QED
  BY <1>7 DEF Rank, A, B

LEMMA RanksDiffer ==
    ASSUME NEW L \in SUBSET Node, NEW n \in L, NEW m \in L, Rank(L, n) = Rank(L, m)
    PROVE  n = m
<1>1. Host[n] \in Nat /\ Host[m] \in Nat /\ (Host[n] = Host[m] => n = m)
  BY PlacementAssumption
<1>2. Rank(L, n) \in Nat /\ Rank(L, m) \in Nat
  BY RankOf
<1>3. ~(Host[n] < Host[m]) /\ ~(Host[m] < Host[n])
  BY <1>2, RankGrows
<1> QED
  BY <1>1, <1>3

LEMMA RanksReached ==
    ASSUME NEW L \in SUBSET Node, NEW i \in 0..(Cardinality(L) - 1)
    PROVE  \E n \in L : Rank(L, n) = i
<1> DEFINE len == Cardinality(L)
           I == 0..(len - 1)
           f == [n \in L |-> Rank(L, n)]
<1>1. IsFiniteSet(L) /\ len \in Nat
  BY PlacementAssumption, FS_Subset, FS_CardinalityType
<1>2. IsFiniteSet(I) /\ Cardinality(I) = len
  <2>1. len - 1 \in Int /\ 0 \in Int /\ 0 <= len - 1
    BY <1>1
  <2>2. IsFiniteSet(I) /\ Cardinality(I) = (len - 1) - 0 + 1
    BY <2>1, FS_Interval, Z3
  <2> QED
    BY <1>1, <2>2
<1>3. f \in [L -> I]
  BY RankOf
<1>4. \A n, m \in L : f[n] = f[m] => n = m
  BY RanksDiffer
<1> HIDE DEF f, I
<1>5. f \in Injection(L, I)
  BY <1>3, <1>4 DEF Injection, IsInjective
<1>6. f \in Surjection(L, I)
  BY <1>2, <1>5, FS_Injection
<1>7. \E n \in L : f[n] = i
  BY <1>6 DEF Surjection, I
<1> QED
  BY <1>7 DEF f

LEMMA ByHostnameIs ==
    ASSUME NEW L \in SUBSET Node, NEW i \in 0..(Cardinality(L) - 1)
    PROVE  ByHostname(L, i) \in L /\ Rank(L, ByHostname(L, i)) = i
BY RanksReached DEF ByHostname, Rank

(* The head of the list, from where round robin goes on, has as many nodes *)
(* as were asked for: it wraps around before it meets itself.              *)
LEMMA TurnsAreExact ==
    ASSUME NEW L \in SUBSET Node, NEW count \in 1..Cardinality(L), rrIndex \in Nat
    PROVE  /\ Cardinality(NextInTurn(count, L)) = count
           /\ NextInTurn(count, L) \subseteq L
<1> DEFINE len == Cardinality(L)
           I == 0..(count - 1)
           f == [i \in I |-> ByHostname(L, Slot(i, len))]
           S == NextInTurn(count, L)
<1>1. IsFiniteSet(L) /\ len \in Nat /\ count \in Nat \ {0} /\ count <= len
  BY PlacementAssumption, FS_Subset, FS_CardinalityType
<1>2. IsFiniteSet(I) /\ Cardinality(I) = count
  <2>1. count - 1 \in Int /\ 0 \in Int /\ 0 <= count - 1
    BY <1>1
  <2>2. IsFiniteSet(I) /\ Cardinality(I) = (count - 1) - 0 + 1
    BY <2>1, FS_Interval, Z3
  <2> QED
    BY <1>1, <2>2
<1>3. \A i \in I : Slot(i, len) \in 0..(len - 1)
  BY <1>1, ModIs DEF Slot
<1>4. \A i \in I : f[i] \in L /\ Rank(L, f[i]) = Slot(i, len)
  BY <1>3, ByHostnameIs
<1>5. S = {f[i] : i \in I}
  BY DEF NextInTurn
<1>6. ASSUME NEW i \in I, NEW j \in I, i < j
      PROVE  Slot(i, len) # Slot(j, len)
  <2>1. i \in Nat /\ j \in Nat /\ j < i + len
    BY <1>1
  <2>2. /\ rrIndex + i \in Nat /\ rrIndex + j \in Nat
        /\ rrIndex + i < rrIndex + j /\ rrIndex + j < (rrIndex + i) + len
    BY <1>1, <1>6, <2>1
  <2>3. ASSUME NEW a \in Nat, NEW b \in Nat, a < b, b < a + len
        PROVE  a % len # b % len
    BY <1>1, <2>3, ModSame
  <2>4. (rrIndex + i) % len # (rrIndex + j) % len
    BY <2>2, <2>3
  <2> QED
    BY <2>4 DEF Slot
<1>7. \A i, j \in I : f[i] = f[j] => i = j
  <2> SUFFICES ASSUME NEW i \in I, NEW j \in I, f[i] = f[j], i # j PROVE FALSE
    OBVIOUS
  <2>1. Slot(i, len) = Slot(j, len)
    BY <1>4
  <2>2. i < j \/ j < i
    BY <1>1
  <2> QED
    BY <1>6, <2>1, <2>2
<1>8. f \in [I -> S] /\ (\A n \in S : \E i \in I : f[i] = n) /\ S \subseteq L
  BY <1>4, <1>5
<1> HIDE DEF f, I, S
<1>9. f \in Surjection(I, S)
  BY <1>8 DEF Surjection
<1>10. f \in Injection(I, S)
  BY <1>7, <1>8 DEF Injection, IsInjective
<1>11. Cardinality(S) = count
  BY <1>2, <1>9, <1>10, FS_Surjection
<1> QED
  BY <1>8, <1>11 DEF S
-----------------------------------------------------------------------------
(* The inductive invariant.                                                *)

(* A call has found at least as many candidates as it was asked for.       *)
Enough(k) ==
    k = Idle \/ k.count \in 1..Cardinality(DOMAIN k.seen)

NoTurns == [n \in Node |-> 0]

(* Round robin has been at the first k nodes of the list L once more than  *)
(* at the others.                                                          *)
TurnsOf(L, k) ==
    [n \in Node |-> IF n \in L /\ Rank(L, n) < k THEN 1 ELSE 0]

Even ==
    \/ lists = {} /\ rrIndex = 0 /\ picks = NoTurns
    \/ \E L \in SUBSET Node :
          /\ lists = {L} /\ rrIndex < Cardinality(L)
          /\ picks = TurnsOf(L, rrIndex)
    \/ {} \in lists /\ picks = NoTurns

PlacementInv ==
    /\ TypeOK
    /\ \A c \in Caller : Enough(call[c])
    /\ Even

LEMMA IdleIsTyped ==
    Idle \in [count: Nat, seen: UNION {[S -> Reports] : S \in SUBSET Node}]
<1>1. [n \in {} |-> n] \in [{} -> Reports]
  OBVIOUS
<1>2. {} \in SUBSET Node
  OBVIOUS
<1> QED
  BY <1>1, <1>2 DEF Idle

LEMMA SeenIs ==
    ASSUME TypeOK, NEW c \in Caller
    PROVE  /\ call[c].count \in Nat
           /\ DOMAIN call[c].seen \in SUBSET Node
           /\ call[c].seen \in [DOMAIN call[c].seen -> Reports]
<1>1. /\ call[c].count \in Nat
      /\ call[c].seen \in UNION {[S -> Reports] : S \in SUBSET Node}
  BY DEF TypeOK
<1>2. PICK S \in SUBSET Node : call[c].seen \in [S -> Reports]
  BY <1>1
<1> QED
  BY <1>1, <1>2

(* A call under way.                                                       *)
LEMMA CallIs ==
    ASSUME PlacementInv, NEW c \in Caller, call[c] # Idle
    PROVE  /\ DOMAIN call[c].seen \in SUBSET Node
           /\ call[c].count \in 1..Cardinality(DOMAIN call[c].seen)
BY SeenIs DEF PlacementInv, Enough

LEMMA SizeIs ==
    ASSUME NEW L \in SUBSET Node
    PROVE  /\ IsFiniteSet(L) /\ Cardinality(L) \in Nat
           /\ Cardinality(L) <= Cardinality(Node) /\ Cardinality(Node) \in Nat
BY PlacementAssumption, FS_Subset, FS_CardinalityType

-----------------------------------------------------------------------------
(* Round robin.                                                            *)

(* Who is picked: the ranks from rrIndex on, past the end of the list.     *)
LEMMA WhoIsPicked ==
    ASSUME NEW L \in SUBSET Node, NEW count \in 1..Cardinality(L), rrIndex \in Nat,
           rrIndex < Cardinality(L), NEW n \in L
    PROVE  n \in NextInTurn(count, L) <=>
             \/ rrIndex <= Rank(L, n) /\ Rank(L, n) < rrIndex + count
             \/ Rank(L, n) < rrIndex + count - Cardinality(L)
<1> DEFINE len == Cardinality(L)
           r == Rank(L, n)
<1>1. len \in Nat /\ len > 0 /\ count \in Nat /\ count <= len /\ count > 0
  BY SizeIs
<1>2. r \in Nat /\ r < len
  BY <1>1, RankOf
<1>3. ASSUME NEW i \in 0..(count - 1)
      PROVE  /\ i \in Nat /\ i < count
             /\ Slot(i, len) = IF rrIndex + i < len THEN rrIndex + i
                               ELSE rrIndex + i - len
  <2>1. i \in Nat /\ i < count
    BY <1>1
  <2>2. rrIndex + i \in Nat /\ rrIndex + i < len + len
    BY <1>1, <2>1
  <2> HIDE DEF len
  <2>3. (rrIndex + i) % len =
          IF rrIndex + i < len THEN rrIndex + i ELSE rrIndex + i - len
    BY <1>1, <2>2, ModWraps
  <2> QED
    BY <2>1, <2>3 DEF Slot
<1>4. \A i \in 0..(count - 1) : Slot(i, len) \in 0..(len - 1)
  BY <1>1, <1>3
<1>5. ASSUME n \in NextInTurn(count, L)
      PROVE  \E i \in 0..(count - 1) : r = Slot(i, len)
  <2>1. PICK i \in 0..(count - 1) : n = ByHostname(L, Slot(i, len))
    BY <1>5 DEF NextInTurn
  <2>2. Rank(L, ByHostname(L, Slot(i, len))) = Slot(i, len)
    BY <1>4, ByHostnameIs
  <2> QED
    BY <2>1, <2>2
<1>6. ASSUME NEW i \in 0..(count - 1), r = Slot(i, len)
      PROVE  n \in NextInTurn(count, L)
  <2> DEFINE m == ByHostname(L, Slot(i, len))
  <2>1. m \in L /\ Rank(L, m) = Slot(i, len)
    BY <1>4, ByHostnameIs
  <2>2. m \in NextInTurn(count, L)
    BY DEF NextInTurn
  <2> HIDE DEF m
  <2>3. n = m
    BY <1>6, <2>1, RanksDiffer
  <2> QED
    BY <2>2, <2>3
<1> HIDE DEF r, len
<1>7. ASSUME rrIndex <= r, r < rrIndex + count
      PROVE  n \in NextInTurn(count, L)
  <2>1. r - rrIndex \in 0..(count - 1)
    BY <1>1, <1>2, <1>7
  <2>2. Slot(r - rrIndex, len) = r
    BY <1>1, <1>2, <1>3, <2>1
  <2> QED
    BY <1>6, <2>1, <2>2
<1>8. ASSUME r < rrIndex + count - len
      PROVE  n \in NextInTurn(count, L)
  <2>1. r + len - rrIndex \in 0..(count - 1)
    BY <1>1, <1>2, <1>8 DEF len
  <2>2. Slot(r + len - rrIndex, len) = r
    BY <1>1, <1>2, <1>3, <2>1
  <2> QED
    BY <1>6, <2>1, <2>2
<1>9. ASSUME n \in NextInTurn(count, L)
      PROVE  \/ rrIndex <= r /\ r < rrIndex + count
             \/ r < rrIndex + count - len
  <2>1. PICK i \in 0..(count - 1) : r = Slot(i, len)
    BY <1>5, <1>9
  <2> QED
    BY <1>1, <1>2, <1>3, <2>1
<1> QED
  BY <1>7, <1>8, <1>9 DEF r, len

(* After a call the turns are those of the nodes before the new index.     *)
LEMMA TurnsGoOn ==
    ASSUME NEW L \in SUBSET Node, NEW count \in 1..Cardinality(L), rrIndex \in Nat,
           rrIndex < Cardinality(L), picks = TurnsOf(L, rrIndex),
           rrIndex' = Advanced(count, Cardinality(L)),
           lists \subseteq {L}, CountTurns(L, NextInTurn(count, L))
    PROVE  /\ rrIndex' \in Nat /\ rrIndex' < Cardinality(L)
           /\ lists' = {L} /\ picks' = TurnsOf(L, rrIndex')
<1> DEFINE len == Cardinality(L)
           S == NextInTurn(count, L)
           turns == [n \in L |-> picks[n] + (IF n \in S THEN 1 ELSE 0)]
<1>1. len \in Nat /\ len > 0 /\ count \in Nat /\ count <= len /\ count > 0
  BY SizeIs
<1>2. \A n \in L : Rank(L, n) \in Nat /\ Rank(L, n) < len
  BY <1>1, RankOf
<1>3. rrIndex' = IF rrIndex + count < len THEN rrIndex + count
                 ELSE rrIndex + count - len
  <2>1. rrIndex + count \in Nat /\ rrIndex + count < len + len
    BY <1>1
  <2> HIDE DEF len
  <2>2. (rrIndex + count) % len =
          IF rrIndex + count < len THEN rrIndex + count ELSE rrIndex + count - len
    BY <1>1, <2>1, ModWraps
  <2> QED
    BY <2>2 DEF Advanced, len
<1>4. lists' = {L}
  BY DEF CountTurns
<1>5. \A n \in L : turns[n] = (IF Rank(L, n) < rrIndex THEN 1 ELSE 0)
                               + (IF n \in S THEN 1 ELSE 0)
  BY DEF TurnsOf
<1>6. picks' = [n \in Node |-> IF n \in L /\ \A m \in L : turns[m] > 0
                               THEN turns[n] - 1
                               ELSE IF n \in L THEN turns[n] ELSE 0]
  BY <1>4 DEF CountTurns
<1>7. \A n \in L : n \in S <=>
             \/ rrIndex <= Rank(L, n) /\ Rank(L, n) < rrIndex + count
             \/ Rank(L, n) < rrIndex + count - len
  BY WhoIsPicked
<1> HIDE DEF turns, S, len
<1>8. CASE rrIndex + count < len
  <2>1. \A n \in L : turns[n] = IF Rank(L, n) < rrIndex + count THEN 1 ELSE 0
    BY <1>1, <1>2, <1>5, <1>7, <1>8
  <2>2. \E m \in L : ~(turns[m] > 0)
    <3>1. rrIndex + count \in 0..(len - 1)
      BY <1>1, <1>8
    <3>2. PICK m \in L : Rank(L, m) = rrIndex + count
      BY <3>1, RanksReached DEF len
    <3> QED
      BY <1>1, <2>1, <3>2
  <2>3. picks' = [n \in Node |-> IF n \in L THEN turns[n] ELSE 0]
    BY <1>6, <2>2
  <2> QED
    BY <1>1, <1>3, <1>4, <1>8, <2>1, <2>3 DEF TurnsOf, len
<1>9. CASE ~(rrIndex + count < len)
  <2>1. \A n \in L : turns[n] =
          IF Rank(L, n) < rrIndex + count - len THEN 2 ELSE 1
    BY <1>1, <1>2, <1>5, <1>7, <1>9 DEF len
  <2>2. \A m \in L : turns[m] > 0
    BY <2>1
  <2>3. picks' = [n \in Node |-> IF n \in L THEN turns[n] - 1 ELSE 0]
    BY <1>6, <2>2
  <2>4. \A n \in L : turns[n] - 1 =
          IF Rank(L, n) < rrIndex + count - len THEN 1 ELSE 0
    BY <2>1
  <2>5. rrIndex' = rrIndex + count - len /\ rrIndex' \in Nat /\ rrIndex' < len
    BY <1>1, <1>3, <1>9 DEF len
  <2>6. picks' = TurnsOf(L, rrIndex + count - len)
    BY <2>3, <2>4 DEF TurnsOf
  <2> QED
    BY <1>4, <2>5, <2>6 DEF len
<1> QED
  BY <1>8, <1>9

-----------------------------------------------------------------------------
(* The invariant is kept.                                                  *)

LEMMA InitInv == Init => PlacementInv
<1> SUFFICES ASSUME Init PROVE PlacementInv
  OBVIOUS
<1>1. TypeOK
  BY IdleIsTyped DEF Init, TypeOK
<1>2. \A c \in Caller : Enough(call[c])
  BY DEF Init, Enough
<1>3. Even
  BY DEF Init, Even, NoTurns
<1> QED
  BY <1>1, <1>2, <1>3 DEF PlacementInv

LEMMA ReadKeeps ==
    ASSUME PlacementInv, NEW c \in Caller, ReadNodes(c)
    PROVE  PlacementInv'
<1>0. PICK online \in SUBSET Node, exclude \in SUBSET Node, count \in Counts :
        \E nodes \in [online -> Reports] :
          LET found == Candidates(nodes, exclude)
          IN  /\ count > 0 /\ Cardinality(found) >= count
              /\ call' = [call EXCEPT ![c] =
                    [count |-> count, seen |-> [n \in found |-> nodes[n]]]]
  BY DEF ReadNodes
<1>1. PICK nodes \in [online -> Reports] :
        LET found == Candidates(nodes, exclude)
        IN  /\ count > 0 /\ Cardinality(found) >= count
            /\ call' = [call EXCEPT ![c] =
                  [count |-> count, seen |-> [n \in found |-> nodes[n]]]]
  BY <1>0
<1> DEFINE found == Candidates(nodes, exclude)
           seen == [n \in found |-> nodes[n]]
           new == [count |-> count, seen |-> seen]
<1>2. found \in SUBSET online /\ found \in SUBSET Node
  BY DEF Candidates
<1>3. seen \in [found -> Reports] /\ DOMAIN seen = found
  BY <1>2
<1>4. count \in Nat /\ count > 0 /\ Cardinality(found) >= count
      /\ Cardinality(found) \in Nat
  BY <1>1, <1>2, PlacementAssumption, SizeIs
<1> HIDE DEF found
<1>5. new \in [count: Nat, seen: UNION {[S -> Reports] : S \in SUBSET Node}]
  BY <1>2, <1>3, <1>4
<1>6. Enough(new)
  BY <1>3, <1>4 DEF Enough
<1>7. call' = [call EXCEPT ![c] = new]
  BY <1>1 DEF found
<1> HIDE DEF new
<1>8. call \in [Caller ->
           [count: Nat, seen: UNION {[S -> Reports] : S \in SUBSET Node}]]
  BY DEF PlacementInv, TypeOK
<1>9. UNCHANGED <<strategy, rrIndex, lists, picks>>
  BY DEF ReadNodes
<1>10. TypeOK'
  BY <1>5, <1>7, <1>8, <1>9 DEF PlacementInv, TypeOK
<1>11. \A a \in Caller : Enough(call[a])'
  <2> SUFFICES ASSUME NEW a \in Caller PROVE Enough(call[a])'
    OBVIOUS
  <2>1. call'[a] = new \/ call'[a] = call[a]
    BY <1>7, <1>8
  <2>2. Enough(call'[a])
    BY <1>6, <2>1 DEF PlacementInv
  <2> QED
    BY <2>2 DEF Enough
<1>12. Even'
  BY <1>9 DEF PlacementInv, Even, NoTurns, TurnsOf, Rank
<1> QED
  BY <1>10, <1>11, <1>12 DEF PlacementInv

(* An answered call leaves the others alone.                               *)
LEMMA ReturnKeeps ==
    ASSUME PlacementInv, NEW c \in Caller, Return(c)
    PROVE  /\ call' \in [Caller ->
                 [count: Nat, seen: UNION {[S -> Reports] : S \in SUBSET Node}]]
           /\ \A a \in Caller : Enough(call[a])'
<1>1. call \in [Caller ->
           [count: Nat, seen: UNION {[S -> Reports] : S \in SUBSET Node}]]
  BY DEF PlacementInv, TypeOK
<1>2. call' = [call EXCEPT ![c] = Idle]
  BY DEF Return
<1>3. \A a \in Caller : call'[a] = Idle \/ call'[a] = call[a]
  BY <1>1, <1>2
<1>4. \A a \in Caller : Enough(call'[a])
  BY <1>3 DEF PlacementInv, Enough
<1> QED
  BY <1>1, <1>2, <1>4, IdleIsTyped DEF Enough

LEMMA SortedKeeps ==
    ASSUME PlacementInv, NEW c \in Caller, NEW S, ChooseSorted(c, S)
    PROVE  PlacementInv'
<1>1. UNCHANGED <<strategy, rrIndex, lists, picks>> /\ Return(c)
  BY DEF ChooseSorted
<1>2. TypeOK'
  BY <1>1, ReturnKeeps DEF PlacementInv, TypeOK
<1>3. Even'
  BY <1>1 DEF PlacementInv, Even, NoTurns, TurnsOf, Rank
<1> QED
  BY <1>1, <1>2, <1>3, ReturnKeeps DEF PlacementInv

LEMMA InTurnKeeps ==
    ASSUME PlacementInv, NEW c \in Caller, NEW S, ChooseInTurn(c, S)
    PROVE  PlacementInv'
<1> DEFINE L == DOMAIN call[c].seen
           count == call[c].count
<1>1. /\ call[c] # Idle /\ S = NextInTurn(count, L) /\ Return(c)
      /\ rrIndex' = Advanced(count, Cardinality(L))
      /\ CountTurns(L, S) /\ UNCHANGED strategy
  BY DEF ChooseInTurn
<1>2. L \in SUBSET Node /\ count \in 1..Cardinality(L)
  BY <1>1, CallIs
<1> HIDE DEF L, count
<1>3. /\ Cardinality(L) \in Nat /\ count \in Nat /\ Cardinality(L) > 0 /\ L # {}
      /\ Cardinality(L) <= Cardinality(Node) /\ Cardinality(Node) \in Nat
  BY <1>2, SizeIs, FS_EmptySet
<1>4. rrIndex \in Nat /\ picks \in [Node -> Nat] /\ lists \subseteq SUBSET Node
      /\ strategy \in Strategies
  BY DEF PlacementInv, TypeOK
<1>5. CASE lists \subseteq {L}
  <2>1. rrIndex < Cardinality(L) /\ picks = TurnsOf(L, rrIndex)
    <3>1. CASE lists = {} /\ rrIndex = 0 /\ picks = NoTurns
      <4>1. \A n \in L : ~(Rank(L, n) < 0)
        BY <1>2, RankOf
      <4> QED
        BY <1>3, <3>1, <4>1 DEF NoTurns, TurnsOf
    <3>2. ASSUME NEW M \in SUBSET Node, lists = {M}, rrIndex < Cardinality(M),
                 picks = TurnsOf(M, rrIndex)
          PROVE  rrIndex < Cardinality(L) /\ picks = TurnsOf(L, rrIndex)
      <4>1. M = L
        BY <1>5, <3>2
      <4> QED
        BY <3>2, <4>1
    <3>3. ~({} \in lists)
      BY <1>3, <1>5
    <3> QED
      BY <3>1, <3>2, <3>3 DEF PlacementInv, Even
  <2>2. /\ rrIndex' \in Nat /\ rrIndex' < Cardinality(L)
        /\ lists' = {L} /\ picks' = TurnsOf(L, rrIndex')
    BY <1>1, <1>2, <1>4, <1>5, <2>1, TurnsGoOn
  <2>3. rrIndex' < Cardinality(Node)
    BY <1>3, <2>2
  <2>4. picks' \in [Node -> Nat]
    BY <2>2 DEF TurnsOf
  <2>5. TypeOK'
    BY <1>1, <1>2, <1>4, <2>2, <2>3, <2>4, ReturnKeeps DEF TypeOK
  <2>6. Even'
    <3>1. \E M \in SUBSET Node : /\ lists' = {M} /\ rrIndex' < Cardinality(M)
                                 /\ picks' = TurnsOf(M, rrIndex')
      BY <1>2, <2>2
    <3> QED
      BY <3>1 DEF Even, TurnsOf, Rank
  <2> QED
    BY <1>1, <2>5, <2>6, ReturnKeeps DEF PlacementInv
<1>6. CASE ~(lists \subseteq {L})
  <2>1. lists' = SUBSET Node /\ lists' # {L}
    BY <1>1, <1>3, <1>6 DEF CountTurns
  <2>2. picks' = NoTurns
    BY <1>1, <2>1 DEF CountTurns, NoTurns
  <2>3. rrIndex' \in Nat /\ rrIndex' < Cardinality(Node)
    <3>1. rrIndex + count \in Nat
      BY <1>3, <1>4
    <3>2. (rrIndex + count) % Cardinality(L) \in Nat
          /\ (rrIndex + count) % Cardinality(L) < Cardinality(L)
      BY <1>3, <3>1, ModIs
    <3> QED
      BY <1>1, <1>3, <3>2 DEF Advanced
  <2>4. picks' \in [Node -> Nat]
    BY <2>2 DEF NoTurns
  <2>5. TypeOK'
    BY <1>1, <1>4, <2>1, <2>3, <2>4, ReturnKeeps DEF TypeOK
  <2>6. Even'
    BY <2>1, <2>2 DEF Even, NoTurns
  <2> QED
    BY <1>1, <2>5, <2>6, ReturnKeeps DEF PlacementInv
<1> QED
  BY <1>5, <1>6

LEMMA StutterKeeps ==
    ASSUME PlacementInv, UNCHANGED vars
    PROVE  PlacementInv'
<1>1. UNCHANGED <<strategy, rrIndex, call, lists, picks>>
  BY DEF vars
<1>2. TypeOK'
  BY <1>1 DEF PlacementInv, TypeOK
<1>3. \A a \in Caller : Enough(call[a])'
  BY <1>1 DEF PlacementInv, Enough
<1>4. Even'
  BY <1>1 DEF PlacementInv, Even, NoTurns, TurnsOf, Rank
<1> QED
  BY <1>2, <1>3, <1>4 DEF PlacementInv

LEMMA NextKeeps ==
    ASSUME PlacementInv, [Next]_vars
    PROVE  PlacementInv'
<1>1. ASSUME NEW c \in Caller, ReadNodes(c) PROVE PlacementInv'
  BY <1>1, ReadKeeps
<1>2. ASSUME NEW c \in Caller, NEW S \in SUBSET Node, Selects(c, S)
      PROVE  PlacementInv'
  BY <1>2, SortedKeeps, InTurnKeeps DEF Selects
<1> QED
  BY <1>1, <1>2, StutterKeeps DEF Next

(* What a call has under way it can be given, and round robin stands where *)
(* the turns it has given say it does.                                     *)
THEOREM PlacementInvariant == Spec => []PlacementInv
<1>1. Init => PlacementInv
  BY InitInv
<1>2. PlacementInv /\ [Next]_vars => PlacementInv'
  BY NextKeeps
<1> QED
  BY <1>1, <1>2, PTL DEF Spec

(* The index of round robin stays inside the table, for any clusters.      *)
THEOREM PlacementTypeCorrect == Spec => []TypeOK
<1>1. PlacementInv => TypeOK
  BY DEF PlacementInv
<1> QED
  BY <1>1, PlacementInvariant, PTL

(* While all calls find the same candidates, the turns are even, whatever  *)
(* the calls ask for and however goroutines interleave.                    *)
THEOREM TurnsAreEven == Spec => []EvenTurns
<1>1. PlacementInv => EvenTurns
  <2> SUFFICES ASSUME PlacementInv, NEW n \in Node PROVE picks[n] <= 1
    BY DEF EvenTurns
  <2>1. CASE picks = NoTurns
    BY <2>1 DEF NoTurns
  <2>2. ASSUME NEW L \in SUBSET Node, picks = TurnsOf(L, rrIndex)
        PROVE  picks[n] <= 1
    BY <2>2 DEF TurnsOf
  <2> QED
    BY <2>1, <2>2 DEF PlacementInv, Even
<1> QED
  BY <1>1, PlacementInvariant, PTL

(* Every answer has as many different, eligible nodes as were asked for.   *)
THEOREM AnswersAreExact == Spec => ExactlyCount
<1>1. ASSUME PlacementInv, NEW c \in Caller, NEW S \in SUBSET Node, Selects(c, S)
      PROVE  Cardinality(S) = call[c].count /\ S \subseteq DOMAIN call[c].seen
  <2>1. CASE ChooseSorted(c, S)
    BY <2>1 DEF ChooseSorted, FirstOf
  <2>2. CASE ChooseInTurn(c, S)
    <3>1. /\ call[c] # Idle
          /\ S = NextInTurn(call[c].count, DOMAIN call[c].seen)
      BY <2>2 DEF ChooseInTurn
    <3>2. /\ DOMAIN call[c].seen \in SUBSET Node
          /\ call[c].count \in 1..Cardinality(DOMAIN call[c].seen)
      BY <1>1, <3>1, CallIs
    <3>3. rrIndex \in Nat
      BY <1>1 DEF PlacementInv, TypeOK
    <3> QED
      BY <3>1, <3>2, <3>3, TurnsAreExact
  <2> QED
    BY <1>1, <2>1, <2>2 DEF Selects
<1>2. PlacementInv => [\A c \in Caller, S \in SUBSET Node : Selects(c, S) =>
          Cardinality(S) = call[c].count /\ S \subseteq DOMAIN call[c].seen]_vars
  BY <1>1
<1> QED
  BY <1>2, PlacementInvariant, PTL DEF ExactlyCount

-----------------------------------------------------------------------------
(* Weights.                                                                *)

(* Better metrics never lower what is added up, and raise it when one of   *)
(* the first three weights counts.                                         *)
LEMMA SteadyGrows ==
    ASSUME WeightsCount, NEW m1 \in Metrics, NEW m2 \in Metrics, Better(m1, m2)
    PROVE  /\ SteadyScore(m1) \in Nat /\ SteadyScore(m2) \in Nat
           /\ SteadyScore(m1) >= SteadyScore(m2)
           /\ Weight.latency \in Nat
           /\ Weight.latency = 0 => SteadyScore(m1) > SteadyScore(m2)
<1> DEFINE ws == Weight["storage"]
           wc == Weight["cpu"]
           wr == Weight["ram"]
           wh == Weight["health"]
           wl == Weight["latency"]
<1>1. /\ ws \in Nat /\ wc \in Nat /\ wr \in Nat /\ wh \in Nat /\ wl \in Nat
      /\ ws > 0 \/ wc > 0 \/ wr > 0 \/ wl > 0
  BY PlacementAssumption DEF WeightsCount
<1>2. /\ m2.free \in Nat /\ m1.free \in Nat /\ m2.free < m1.free
      /\ 100 - m1.cpu \in Nat /\ 100 - m2.cpu \in Nat /\ 100 - m2.cpu < 100 - m1.cpu
      /\ 100 - m1.mem \in Nat /\ 100 - m2.mem \in Nat /\ 100 - m2.mem < 100 - m1.mem
  BY DEF Metrics, Better
<1> DEFINE f1 == m1.free  f2 == m2.free
           c1 == 100 - m1.cpu  c2 == 100 - m2.cpu
           r1 == 100 - m1.mem  r2 == 100 - m2.mem
<1>3. /\ SteadyScore(m1) = ws * f1 + wc * c1 + wr * r1 + wh * 100
      /\ SteadyScore(m2) = ws * f2 + wc * c2 + wr * r2 + wh * 100
      /\ Weight.latency = wl
  BY DEF SteadyScore
<1> HIDE DEF ws, wc, wr, wh, wl, f1, f2, c1, c2, r1, r2
<1>4. /\ f1 \in Nat /\ f2 \in Nat /\ f2 < f1
      /\ c1 \in Nat /\ c2 \in Nat /\ c2 < c1
      /\ r1 \in Nat /\ r2 \in Nat /\ r2 < r1
  BY <1>2 DEF f1, f2, c1, c2, r1, r2
<1>5. /\ ws * f1 \in Nat /\ ws * f2 \in Nat /\ ws * f2 <= ws * f1
      /\ ws > 0 => ws * f2 < ws * f1
  BY <1>1, <1>4, Grows
<1>6. /\ wc * c1 \in Nat /\ wc * c2 \in Nat /\ wc * c2 <= wc * c1
      /\ wc > 0 => wc * c2 < wc * c1
  BY <1>1, <1>4, Grows
<1>7. /\ wr * r1 \in Nat /\ wr * r2 \in Nat /\ wr * r2 <= wr * r1
      /\ wr > 0 => wr * r2 < wr * r1
  BY <1>1, <1>4, Grows
<1>8. wh * 100 \in Nat
  BY <1>1, Grows
<1> QED
  BY <1>1, <1>3, <1>5, <1>6, <1>7, <1>8

(* Fractions with a common addend over growing denominators.               *)
LEMMA FractionsGrow ==
    ASSUME NEW a \in Nat, NEW b \in Nat, NEW d \in Nat, NEW e \in Nat, NEW k \in Nat,
           a >= b, 0 < d, d < e, a > b \/ k > 0
    PROVE  (a * d + k) * e > (b * e + k) * d
<1> DEFINE p == d * e
<1>1. p \in Nat /\ p > 0
  BY Grows
<1>2. p * a \in Nat /\ p * b \in Nat /\ p * a >= p * b /\ (a > b => p * a > p * b)
  BY <1>1, Grows
<1>3. k * e \in Nat /\ k * d \in Nat /\ k * e >= k * d /\ (k > 0 => k * e > k * d)
  BY Grows
<1>4. (a * d + k) * e = p * a + k * e
  BY SMT
<1>5. (b * e + k) * d = p * b + k * d
  BY SMT
<1> QED
  BY <1>2, <1>3, <1>4, <1>5

LEMMA BetterScoresHigher ==
    ASSUME WeightsCount, NEW m1 \in Metrics, NEW m2 \in Metrics, Better(m1, m2)
    PROVE  ScoresHigher(m1, m2)
<1> DEFINE a == SteadyScore(m1)
           b == SteadyScore(m2)
           d == 100 + m1.latency
           e == 100 + m2.latency
           k == Weight.latency * 10000
<1>1. a \in Nat /\ b \in Nat /\ a >= b
  BY SteadyGrows
<1>2. k \in Nat /\ (a > b \/ k > 0)
  BY SteadyGrows
<1>3. d \in Nat /\ e \in Nat /\ 0 < d /\ d < e
  BY DEF Metrics, Better
<1>4. ScoresHigher(m1, m2) <=> (a * d + k) * e > (b * e + k) * d
  BY DEF ScoresHigher, Score
<1> HIDE DEF a, b, d, e, k
<1>5. (a * d + k) * e > (b * e + k) * d
  BY <1>1, <1>2, <1>3, FractionsGrow
<1> QED
  BY <1>4, <1>5

(* Neither of the sorted strategies leaves out a node that is better than  *)
(* one it takes, for all weights that count.                               *)
THEOREM NothingBetterIsLeftOut == Spec => NoBetterLeftOut
<1>1. ASSUME PlacementInv, WeightsCount, NEW c \in Caller, NEW S \in SUBSET Node,
             ChooseSorted(c, S), NEW n \in S, NEW m \in DOMAIN call[c].seen,
             Better(call[c].seen[m], call[c].seen[n])
      PROVE  m \in S
  <2> DEFINE mm == call[c].seen[m]
             mn == call[c].seen[n]
  <2>1. /\ S \subseteq DOMAIN call[c].seen
        /\ m \notin S => ~GoesBefore(mm, mn)
    BY <1>1 DEF ChooseSorted, FirstOf
  <2>2. mm \in Metrics /\ mn \in Metrics
    BY <1>1, <2>1, SeenIs, PlacementAssumption DEF PlacementInv
  <2>3. Better(mm, mn)
    BY <1>1
  <2> HIDE DEF mm, mn
  <2>4. ScoresHigher(mm, mn)
    BY <1>1, <2>2, <2>3, BetterScoresHigher
  <2>5. LessLoaded(mm, mn)
    <3>1. mm.cpu \in Int /\ mm.mem \in Int /\ mn.cpu \in Int /\ mn.mem \in Int
      BY <2>2 DEF Metrics
    <3>2. mm.cpu + mm.mem < mn.cpu + mn.mem
      BY <2>3, <3>1 DEF Better
    <3> QED
      BY <3>2 DEF LessLoaded
  <2> QED
    BY <2>1, <2>4, <2>5 DEF GoesBefore
<1>2. PlacementInv => [WeightsCount =>
        \A c \in Caller, S \in SUBSET Node : ChooseSorted(c, S) =>
          \A n \in S, m \in DOMAIN call[c].seen :
              Better(call[c].seen[m], call[c].seen[n]) => m \in S]_vars
  BY <1>1
<1> QED
  BY <1>2, PlacementInvariant, PTL DEF NoBetterLeftOut
=============================================================================
