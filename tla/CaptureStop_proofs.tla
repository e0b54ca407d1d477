--------------------------- MODULE CaptureStop_proofs ---------------------------
(***************************************************************************)
(* Proof that ~CaptureCenter loses no block of the pool, for any number of *)
(* sessions and blocks and wherever T2 is when it is told to stop.         *)
(***************************************************************************)
EXTENDS CaptureStop, WellFoundedInduction, NaturalsInduction, TLAPS

-------------------------------------------------------------------------------
(* Induction, for a set of numbers.                                        *)
LEMMA Least ==
  ASSUME NEW T, T \subseteq Nat, T # {}
  PROVE  \E x \in T : \A y \in T : x <= y
<1>1. IsWellFoundedOn(OpToRel(<, Nat), Nat)
  BY NatLessThanWellFounded
<1>2. PICK x \in T : \A y \in T : ~(<<y, x>> \in OpToRel(<, Nat))
  BY <1>1, WFMin
<1>3. ASSUME NEW y \in T PROVE x <= y
  <2>1. x \in Nat /\ y \in Nat
    OBVIOUS
  <2>2. ~(y < x)
    BY <1>2, <2>1 DEF OpToRel
  <2> QED  BY <2>1, <2>2
<1> QED  BY <1>3

LEMMA Ladder ==
  ASSUME NEW n \in Nat, NEW S, 0 \in S, \A m \in 0..n : m \in S /\ m < n => m + 1 \in S
  PROVE  0..n \subseteq S
<1> DEFINE T == {m \in 0..n : m \notin S}
<1>1. T = {}
  <2> SUFFICES ASSUME T # {} PROVE FALSE
    OBVIOUS
  <2>1. T \subseteq Nat
    OBVIOUS
  <2>2. PICK x \in T : \A y \in T : x <= y
    <3> HIDE DEF T
    <3> QED  BY <2>1, Least
  <2>3. x # 0 /\ x \in 0..n /\ x \notin S
    BY <2>2
  <2>4. x - 1 \in 0..n /\ x - 1 < n /\ x - 1 < x /\ (x - 1) + 1 = x
    BY <2>3
  <2>5. x - 1 \in S
    BY <2>2, <2>4
  <2> QED  BY <2>3, <2>4, <2>5
<1> QED  BY <1>1

-------------------------------------------------------------------------------
(* The sum over the sessions.                                              *)
Indexes == 0..NumSessions
Counts == [Positions -> Nat]

Sum(list, f, i) == IF i = 0 THEN 0 ELSE f[i - 1] + list[i]

LEMMA Unfold ==
  ASSUME NEW list
  PROVE  QueuedUpTo(list) = CHOOSE f : f = [i \in Indexes |-> Sum(list, f, i)]
BY DEF QueuedUpTo, Indexes, Sum

RightUpTo(list, f, m) ==
  f = [i \in Indexes |-> f[i]] /\ \A i \in Indexes : i <= m => f[i] = Sum(list, f, i)

LEMMA RightExists ==
  ASSUME NEW list
  PROVE  \E f : RightUpTo(list, f, NumSessions)
<1> DEFINE S == {m \in Nat : \E f : RightUpTo(list, f, m)}
<1>0. NumSessions \in Nat
  BY StopAssumption
<1>1. 0 \in S
  <2> DEFINE f == [i \in Indexes |-> 0]
  <2>1. \A i \in Indexes : i <= 0 => f[i] = Sum(list, f, i)
    BY <1>0 DEF Sum, Indexes
  <2>2. f = [i \in Indexes |-> f[i]]
    OBVIOUS
  <2>3. RightUpTo(list, f, 0)
    <3> HIDE DEF f
    <3> QED  BY <2>1, <2>2 DEF RightUpTo
  <2> QED  BY <2>3
<1>2. ASSUME NEW m \in Indexes, m \in S, m < NumSessions PROVE m + 1 \in S
  <2>1. PICK f : RightUpTo(list, f, m)
    BY <1>2
  <2> DEFINE g == [i \in Indexes |-> IF i = m + 1 THEN f[m] + list[m + 1] ELSE f[i]]
  <2>2. m \in Nat /\ m + 1 \in Indexes /\ m \in Indexes
    BY <1>0, <1>2 DEF Indexes
  <2>3. ASSUME NEW i \in Indexes, i <= m + 1 PROVE g[i] = Sum(list, g, i)
    <3>1. i \in Nat
      BY <1>0 DEF Indexes
    <3>2. CASE i = m + 1
      <4>1. g[i] = f[m] + list[i] /\ g[m] = f[m] /\ i - 1 = m /\ i # 0
        BY <2>2, <3>2
      <4> HIDE DEF g
      <4> QED  BY <4>1 DEF Sum
    <3>3. CASE i <= m
      <4>1. g[i] = f[i] /\ f[i] = Sum(list, f, i)
        BY <2>1, <2>2, <3>1, <3>3 DEF RightUpTo
      <4>2. i # 0 => i - 1 \in Indexes /\ i - 1 # m + 1
        BY <1>0, <2>2, <3>1, <3>3 DEF Indexes
      <4>3. i # 0 => g[i - 1] = f[i - 1]
        BY <4>2
      <4> HIDE DEF g
      <4> QED  BY <4>1, <4>3 DEF Sum
    <3> QED  BY <2>2, <2>3, <3>1, <3>2, <3>3
  <2>4. g = [i \in Indexes |-> g[i]]
    OBVIOUS
  <2>5. RightUpTo(list, g, m + 1)
    <3> HIDE DEF g
    <3> QED  BY <2>3, <2>4 DEF RightUpTo
  <2> QED  BY <2>2, <2>5
<1> HIDE DEF S
<1>3. 0..NumSessions \subseteq S
  BY <1>0, <1>1, <1>2, Ladder DEF Indexes
<1>4. NumSessions \in S
  BY <1>0, <1>3
<1> QED  BY <1>4 DEF S

LEMMA Adds ==
  ASSUME NEW list, NEW i \in Indexes
  PROVE  QueuedUpTo(list)[i] = IF i = 0 THEN 0 ELSE QueuedUpTo(list)[i - 1] + list[i]
<1>1. PICK f : RightUpTo(list, f, NumSessions)
  BY RightExists
<1>2. ASSUME NEW k \in Indexes PROVE f[k] = Sum(list, f, k)
  <2>1. k <= NumSessions
    BY StopAssumption DEF Indexes
  <2> QED  BY <1>1, <2>1 DEF RightUpTo
<1>3. f = [k \in Indexes |-> Sum(list, f, k)]
  BY <1>1, <1>2 DEF RightUpTo
<1>4. QueuedUpTo(list) = [k \in Indexes |-> Sum(list, QueuedUpTo(list), k)]
  BY <1>3, Unfold
<1> QED  BY <1>4 DEF Sum

LEMMA SumNat ==
  ASSUME NEW list \in Counts
  PROVE  \A i \in Indexes : QueuedUpTo(list)[i] \in Nat
<1> DEFINE S == {m \in Indexes : QueuedUpTo(list)[m] \in Nat}
<1>0. NumSessions \in Nat /\ 0 \in Indexes
  BY StopAssumption DEF Indexes
<1>1. 0 \in S
  BY <1>0, Adds
<1>2. ASSUME NEW m \in Indexes, m \in S, m < NumSessions PROVE m + 1 \in S
  <2>1. m + 1 \in Indexes /\ m + 1 # 0 /\ (m + 1) - 1 = m /\ m + 1 \in Positions
    BY <1>0, <1>2 DEF Indexes, Positions
  <2>2. list[m + 1] \in Nat
    BY <2>1 DEF Counts
  <2>3. QueuedUpTo(list)[m + 1] = QueuedUpTo(list)[m] + list[m + 1]
    BY <2>1, Adds
  <2> QED  BY <1>2, <2>1, <2>2, <2>3
<1> HIDE DEF S
<1>3. Indexes \subseteq S
  BY <1>0, <1>1, <1>2, Ladder DEF Indexes
<1> QED  BY <1>3 DEF S

(* Each session's queue is a part of it.                                   *)
LEMMA SumBound ==
  ASSUME NEW list \in Counts, NEW k \in Positions
  PROVE  list[k] <= QueuedUpTo(list)[NumSessions]
<1> DEFINE S == {m \in Indexes : m >= k => list[k] <= QueuedUpTo(list)[m]}
<1>0. NumSessions \in Nat /\ 0 \in Indexes /\ k \in Nat /\ k >= 1 /\ k <= NumSessions /\ list[k] \in Nat
  BY StopAssumption DEF Indexes, Positions, Counts
<1>1. 0 \in S
  BY <1>0
<1>2. ASSUME NEW m \in Indexes, m \in S, m < NumSessions PROVE m + 1 \in S
  <2>1. m \in Nat /\ m + 1 \in Indexes /\ m + 1 # 0 /\ (m + 1) - 1 = m /\ m + 1 \in Positions
    BY <1>0, <1>2 DEF Indexes, Positions
  <2>2. list[m + 1] \in Nat /\ QueuedUpTo(list)[m] \in Nat
    BY <2>1, SumNat DEF Counts
  <2>3. QueuedUpTo(list)[m + 1] = QueuedUpTo(list)[m] + list[m + 1]
    BY <2>1, Adds
  <2>4. CASE m + 1 = k
    BY <2>1, <2>2, <2>3, <2>4
  <2>5. CASE m >= k
    <3>1. list[k] <= QueuedUpTo(list)[m]
      BY <1>2, <2>5
    <3> QED  BY <1>0, <2>1, <2>2, <2>3, <3>1
  <2>6. CASE m + 1 < k
    BY <1>0, <2>1, <2>6
  <2> QED  BY <1>0, <2>1, <2>4, <2>5, <2>6
<1> HIDE DEF S
<1>3. Indexes \subseteq S
  BY <1>0, <1>1, <1>2, Ladder DEF Indexes
<1>4. NumSessions \in S
  BY <1>0, <1>3 DEF Indexes
<1> QED  BY <1>0, <1>4 DEF S

(* A packet more or less in one queue.                                     *)
Changed(list, list2, k, e) ==
  /\ list \in Counts /\ k \in Positions /\ e \in Int /\ list[k] + e \in Nat
  /\ list2 = [list EXCEPT ![k] = list[k] + e]

LEMMA SumChange ==
  ASSUME NEW list, NEW list2, NEW k, NEW e, Changed(list, list2, k, e)
  PROVE  /\ list2 \in Counts
         /\ QueuedUpTo(list2)[NumSessions] = QueuedUpTo(list)[NumSessions] + e
<1> USE DEF Changed
<1> DEFINE S == {m \in Indexes : QueuedUpTo(list2)[m] = QueuedUpTo(list)[m] + (IF m >= k THEN e ELSE 0)}
<1>0. NumSessions \in Nat /\ 0 \in Indexes /\ k \in Nat /\ k >= 1 /\ k <= NumSessions
  BY StopAssumption DEF Indexes, Positions
<1>A. list2 \in Counts /\ list2[k] = list[k] + e /\ \A i \in Positions : i # k => list2[i] = list[i]
  BY DEF Counts
<1>1. 0 \in S
  <2>1. QueuedUpTo(list2)[0] = 0 /\ QueuedUpTo(list)[0] = 0
    BY <1>0, Adds
  <2> QED  BY <1>0, <2>1
<1>2. ASSUME NEW m \in Indexes, m \in S, m < NumSessions PROVE m + 1 \in S
  <2>1. m \in Nat /\ m + 1 \in Indexes /\ m + 1 # 0 /\ (m + 1) - 1 = m /\ m + 1 \in Positions
    BY <1>0, <1>2 DEF Indexes, Positions
  <2>2. /\ list[m + 1] \in Nat /\ QueuedUpTo(list)[m] \in Nat
        /\ list2[m + 1] \in Nat /\ QueuedUpTo(list2)[m] \in Nat
    BY <1>A, <2>1, SumNat DEF Counts
  <2>3. /\ QueuedUpTo(list)[m + 1] = QueuedUpTo(list)[m] + list[m + 1]
        /\ QueuedUpTo(list2)[m + 1] = QueuedUpTo(list2)[m] + list2[m + 1]
    BY <2>1, Adds
  <2>4. QueuedUpTo(list2)[m] = QueuedUpTo(list)[m] + (IF m >= k THEN e ELSE 0)
    BY <1>2
  <2>5. CASE m + 1 = k
    <3>1. ~(m >= k) /\ list2[m + 1] = list[m + 1] + e
      BY <1>A, <2>1, <2>5
    <3> QED  BY <2>1, <2>2, <2>3, <2>4, <2>5, <3>1
  <2>6. CASE m + 1 # k
    <3>1. list2[m + 1] = list[m + 1] /\ (m >= k <=> m + 1 >= k)
      BY <1>0, <1>A, <2>1, <2>6
    <3> QED  BY <2>1, <2>2, <2>3, <2>4, <3>1
  <2> QED  BY <2>5, <2>6
<1> HIDE DEF S
<1>3. Indexes \subseteq S
  BY <1>0, <1>1, <1>2, Ladder DEF Indexes
<1>4. NumSessions \in S
  BY <1>0, <1>3 DEF Indexes
<1> QED  BY <1>0, <1>4, <1>A DEF S

LEMMA SumZero ==
  QueuedUpTo([i \in Positions |-> 0])[NumSessions] = 0
<1> DEFINE list == [i \in Positions |-> 0]
           S == {m \in Indexes : QueuedUpTo(list)[m] = 0}
<1>0. NumSessions \in Nat /\ 0 \in Indexes
  BY StopAssumption DEF Indexes
<1>1. 0 \in S
  BY <1>0, Adds
<1>2. ASSUME NEW m \in Indexes, m \in S, m < NumSessions PROVE m + 1 \in S
  <2>1. m + 1 \in Indexes /\ m + 1 # 0 /\ (m + 1) - 1 = m /\ m + 1 \in Positions
    BY <1>0, <1>2 DEF Indexes, Positions
  <2>2. list[m + 1] = 0
    BY <2>1
  <2> HIDE DEF list
  <2>3. QueuedUpTo(list)[m + 1] = QueuedUpTo(list)[m] + list[m + 1]
    BY <2>1, Adds
  <2> QED  BY <1>2, <2>1, <2>2, <2>3
<1> HIDE DEF S
<1>3. Indexes \subseteq S
  BY <1>0, <1>1, <1>2, Ladder DEF Indexes
<1>4. NumSessions \in S
  BY <1>0, <1>3 DEF Indexes
<1> QED  BY <1>4 DEF S

-------------------------------------------------------------------------------
(* The inductive invariant: the sum, that T2 has a block in hand exactly   *)
(* while it records, and that it is at a session then and while it drains. *)
(* That no counter exceeds the pool follows from the sum.                  *)
StopInv ==
  /\ m_stop \in BOOLEAN /\ joined \in BOOLEAN
  /\ available \in Nat /\ filled \in Nat
  /\ bufferList \in Counts
  /\ t2 \in [pc : {"look", "scan", "drain", "record", "ended"},
             it : 1..(NumSessions + 1), inHand : {0, 1}]
  /\ t2.inHand = 1 <=> t2.pc = "record"
  /\ t2.pc \in {"drain", "record"} => t2.it \in Positions
  /\ available + filled + t2.inHand + Queued = NumBlocks

LEMMA StopInit == Init => StopInv
<1> SUFFICES ASSUME Init PROVE StopInv
  OBVIOUS
<1>1. NumSessions \in Nat /\ NumBlocks \in Nat
  BY StopAssumption
<1>2. /\ bufferList = [i \in Positions |-> 0] /\ t2 = [pc |-> "look", it |-> 1, inHand |-> 0]
      /\ available = NumBlocks /\ filled = 0 /\ m_stop = FALSE /\ joined = FALSE
  BY DEF Init
<1>3. Queued = 0
  BY <1>2, SumZero DEF Queued
<1>4. bufferList \in Counts
  BY <1>2 DEF Counts
<1>5. /\ t2 \in [pc : {"look", "scan", "drain", "record", "ended"},
                 it : 1..(NumSessions + 1), inHand : {0, 1}]
      /\ t2.inHand = 0 /\ t2.pc = "look"
  <2>1. 1 \in 1..(NumSessions + 1)
    BY <1>1
  <2> QED  BY <1>2, <2>1
<1>6. available + filled + t2.inHand + Queued = NumBlocks
  BY <1>1, <1>2, <1>3, <1>5
<1>7. (t2.inHand = 1 <=> t2.pc = "record") /\ (t2.pc \in {"drain", "record"} => t2.it \in Positions)
  BY ONLY <1>5
<1>8. m_stop \in BOOLEAN /\ joined \in BOOLEAN /\ available \in Nat /\ filled \in Nat
  BY <1>1, <1>2
<1> QED  BY ONLY <1>4, <1>5, <1>6, <1>7, <1>8 DEF StopInv

LEMMA StopNext == StopInv /\ [Next]_vars => StopInv'
<1> SUFFICES ASSUME StopInv, [Next]_vars PROVE StopInv'
  OBVIOUS
<1> USE DEF StopInv
<1>0. NumSessions \in Nat /\ NumBlocks \in Nat /\ Queued \in Nat
  BY StopAssumption, SumNat DEF Queued, Indexes
<1>1. CASE UNCHANGED vars
  BY <1>1 DEF vars, Queued
<1>2. CASE GetBlock
  BY <1>0, <1>2 DEF GetBlock, Queued
<1>3. ASSUME NEW i \in Positions, Push(i) PROVE StopInv'
  <2>1. /\ filled > 0 /\ filled' = filled - 1
        /\ bufferList' = [bufferList EXCEPT ![i] = @ + 1]
        /\ m_stop' = m_stop /\ joined' = joined /\ available' = available /\ t2' = t2
    BY <1>3 DEF Push
  <2>2. bufferList[i] + 1 \in Nat
    BY DEF Counts
  <2>3. Changed(bufferList, bufferList', i, 1)
    BY <2>1, <2>2 DEF Changed
  <2>4. bufferList' \in Counts /\ Queued' = Queued + 1
    BY <2>3, SumChange DEF Queued
  <2> QED  BY <1>0, <2>1, <2>4
<1>4. CASE Look
  <2>1. /\ t2.pc = "look" /\ Queued' = Queued
        /\ m_stop' = m_stop /\ joined' = joined /\ available' = available /\ filled' = filled
        /\ bufferList' = bufferList
    BY <1>4 DEF Look, Queued
  <2>2. /\ t2' \in [pc : {"scan", "ended"}, it : 1..(NumSessions + 1), inHand : {0, 1}]
        /\ t2'.inHand = t2.inHand
    <3>1. CASE m_stop
      BY <1>4, <3>1 DEF Look
    <3>2. CASE ~m_stop
      <4>1. t2' = [t2 EXCEPT !.pc = "scan", !.it = 1] /\ 1 \in 1..(NumSessions + 1)
        BY <1>0, <1>4, <3>2 DEF Look
      <4> QED  BY <4>1
    <3> QED  BY <3>1, <3>2
  <2> QED  BY <2>1, <2>2
<1>5. CASE Scan
  <2>1. /\ t2.pc = "scan" /\ Queued' = Queued
        /\ m_stop' = m_stop /\ joined' = joined /\ available' = available /\ filled' = filled
        /\ bufferList' = bufferList
    BY <1>5 DEF Scan, Queued
  <2>2. /\ t2' \in [pc : {"drain", "look"}, it : 1..(NumSessions + 1), inHand : {0, 1}]
        /\ t2'.inHand = t2.inHand /\ t2'.it = t2.it
        /\ t2'.pc = "drain" => t2.it \in Positions
    BY <1>5 DEF Scan
  <2> QED  BY <2>1, <2>2
<1>6. CASE Take
  <2> DEFINE i == t2.it
  <2>1. /\ t2.pc = "drain" /\ bufferList[i] > 0
        /\ bufferList' = [bufferList EXCEPT ![i] = @ - 1]
        /\ t2' = [t2 EXCEPT !.pc = "record", !.inHand = 1]
        /\ m_stop' = m_stop /\ joined' = joined /\ available' = available /\ filled' = filled
    BY <1>6 DEF Take
  <2>2. i \in Positions /\ bufferList[i] \in Nat
    BY <2>1 DEF Counts
  <2> HIDE DEF i
  <2>3. Changed(bufferList, bufferList', i, -1)
    <3>1. bufferList[i] - 1 = bufferList[i] + (-1) /\ bufferList[i] + (-1) \in Nat /\ -1 \in Int
      BY <2>1, <2>2
    <3>2. bufferList' = [bufferList EXCEPT ![i] = bufferList[i] + (-1)]
      BY <2>1, <3>1
    <3> QED  BY <2>2, <3>1, <3>2 DEF Changed
  <2>4. bufferList' \in Counts /\ Queued' = Queued + (-1)
    BY <2>3, SumChange DEF Queued
  <2>5. t2'.pc = "record" /\ t2'.inHand = 1 /\ t2'.it = i /\ t2.inHand = 0
    BY <2>1 DEF i
  <2>6. t2' \in [pc : {"look", "scan", "drain", "record", "ended"},
                 it : 1..(NumSessions + 1), inHand : {0, 1}]
    BY <2>1
  <2>7. available' + filled' + t2'.inHand + Queued' = NumBlocks
    BY <1>0, <2>1, <2>4, <2>5
  <2> QED  BY <2>1, <2>2, <2>4, <2>5, <2>6, <2>7
<1>7. CASE FinishRecord
  <2>1. /\ t2.pc = "record" /\ t2.inHand = 1 /\ Queued' = Queued
        /\ available' = available + 1
        /\ t2' = [t2 EXCEPT !.pc = "drain", !.inHand = 0]
        /\ m_stop' = m_stop /\ joined' = joined /\ filled' = filled /\ bufferList' = bufferList
    BY <1>7 DEF FinishRecord, Returned, Queued
  <2>2. /\ t2' \in [pc : {"look", "scan", "drain", "record", "ended"},
                    it : 1..(NumSessions + 1), inHand : {0, 1}]
        /\ t2'.pc = "drain" /\ t2'.inHand = 0 /\ t2'.it = t2.it
    BY <2>1
  <2> QED  BY <1>0, <2>1, <2>2
<1>8. CASE NextSession
  <2>1. /\ t2.pc = "drain" /\ Queued' = Queued
        /\ t2' = [t2 EXCEPT !.pc = "scan", !.it = @ + 1]
        /\ m_stop' = m_stop /\ joined' = joined /\ available' = available /\ filled' = filled
        /\ bufferList' = bufferList
    BY <1>8 DEF NextSession, Queued
  <2>2. t2.it + 1 \in 1..(NumSessions + 1)
    BY <1>0, <2>1 DEF Positions
  <2>3. /\ t2' \in [pc : {"look", "scan", "drain", "record", "ended"},
                    it : 1..(NumSessions + 1), inHand : {0, 1}]
        /\ t2'.pc = "scan" /\ t2'.inHand = t2.inHand
    BY <2>1, <2>2
  <2> QED  BY <2>1, <2>3
<1>9. CASE Stop
  BY <1>9 DEF Stop, Queued
<1>10. CASE Join
  BY <1>10 DEF Join, Queued
<1> QED  BY <1>1, <1>2, <1>3, <1>4, <1>5, <1>6, <1>7, <1>8, <1>9, <1>10 DEF Next, Receivers, T2Step

LEMMA StopAccounted == StopInv => BlocksAccounted
<1> SUFFICES ASSUME StopInv PROVE BlocksAccounted
  OBVIOUS
<1> USE DEF StopInv
<1>0. NumSessions \in Nat /\ NumBlocks \in Nat /\ Queued \in Nat
  BY StopAssumption, SumNat DEF Queued, Indexes
<1>1. available \in 0..NumBlocks /\ filled \in 0..NumBlocks /\ Queued <= NumBlocks
  BY <1>0
<1>2. ASSUME NEW i \in Positions PROVE bufferList[i] \in 0..NumBlocks
  <2>1. bufferList[i] <= Queued /\ bufferList[i] \in Nat
    BY SumBound DEF Queued, Counts
  <2> QED  BY <1>0, <1>1, <2>1
<1>3. bufferList \in [Positions -> 0..NumBlocks]
  BY <1>2 DEF Counts
<1> QED  BY <1>1, <1>3 DEF BlocksAccounted, TypeOK

(* However many sessions there are, and however full or empty the pool,    *)
(* every block is free, with a receiver, queued, or in T2's hand, before   *)
(* and after ~CaptureCenter sets m_stop and after it has joined T2.        *)
THEOREM NoneLostByStopping == Spec => []BlocksAccounted
<1>1. Init => StopInv
  BY StopInit
<1>2. StopInv /\ [Next]_vars => StopInv'
  BY StopNext
<1>3. StopInv => BlocksAccounted
  BY StopAccounted
<1> QED  BY <1>1, <1>2, <1>3, PTL DEF Spec

===============================================================================
