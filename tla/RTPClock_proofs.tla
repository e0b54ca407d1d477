---------------------------- MODULE RTPClock_proofs ----------------------------
(***************************************************************************)
(* Proofs about RTPClock, for ints of any width, any clock rate and gap,   *)
(* and any set of steps: the tags follow the recorded time, also when      *)
(* packets overtake one another, as long as the recording is shorter than  *)
(* half the range of an int, nothing older than the first packet comes     *)
(* and the base never is the number 0.                                     *)
(***************************************************************************)
EXTENDS RTPClock, TLAPS

Sane == /\ MaxPos < Half
        /\ ~LateAtStart
        /\ ~ZeroBase

-------------------------------------------------------------------------------
(* The inductive invariant.  The distance of the last timestamp from the   *)
(* base is the recorded time, whatever turn of the int the two are in.     *)

Distance ==
  IF begun
  THEN /\ base \in -Half..(Half - 1) /\ base # 0
       /\ last \in -Half..(Half - 1)
       /\ pos \in 0..MaxPos
       /\ Wrap(last - base) = pos
  ELSE base = 0 /\ pos = 0 /\ tag = NoTag

IInv == Distance /\ Tracks

-------------------------------------------------------------------------------
(* The tag before the last one is a time, and a packet without a tag comes *)
(* before the first millisecond written.                                   *)
Near == /\ prev \in Nat
        /\ begun /\ tag = NoTag => pos \div Ticks < Least

(* Wrap is an int, and the same as its argument but for a turn.            *)
LEMMA WrapRange ==
  ASSUME NEW x \in Int, x >= -2 * Half, x < 2 * Half
  PROVE  /\ Wrap(x) \in -Half..(Half - 1)
         /\ Wrap(x) \in {x, x - 2 * Half, x + 2 * Half}
BY ClockAssumption DEF Wrap

LEMMA WrapInt ==
  ASSUME NEW x \in Int
  PROVE  Wrap(x) \in Int
BY ClockAssumption DEF Wrap

(* Dividing by the clock rate makes a recorded time no longer.             *)
LEMMA QuotRange ==
  ASSUME NEW p \in Nat
  PROVE  p \div Ticks \in Nat /\ p \div Ticks <= p
BY ClockAssumption, Z3

(* A step within the gap is a tag within the gap.                          *)
LEMMA QuotStep ==
  ASSUME NEW p \in Nat, NEW q \in Nat, q <= p + Gap * Ticks
  PROVE  q \div Ticks <= p \div Ticks + Gap
<1> DEFINE a == p \div Ticks
           b == q \div Ticks
<1>1. Gap \in Nat /\ Ticks \in Nat /\ Ticks > 0 /\ Gap * Ticks \in Nat
  BY ClockAssumption, Z3
<1>2. a \in Nat /\ b \in Nat
  BY QuotRange
<1>3. p < (a + 1) * Ticks /\ b * Ticks <= q
  BY <1>1, Z3
<1> HIDE DEF a, b
<1>4. b * Ticks < (a + 1 + Gap) * Ticks
  BY <1>1, <1>2, <1>3, Z3
<1>5. b < a + 1 + Gap
  BY <1>1, <1>2, <1>4, Z3
<1>6. b <= a + Gap
  BY <1>1, <1>2, <1>5
<1> QED  BY <1>6 DEF a, b

(* Two packets that are `step' ticks apart have timestamps whose wrapped   *)
(* difference is `step' again.                                             *)
LEMMA StepRecovered ==
  ASSUME NEW l \in -Half..(Half - 1), NEW step \in (1 - Half)..(Half - 1)
  PROVE  Wrap(Wrap(l + step) - l) = step
BY ClockAssumption DEF Wrap

(* A packet that is no gap after the last one is `step' further from the   *)
(* same base.                                                              *)
LEMMA DistanceGrows ==
  ASSUME NEW b \in -Half..(Half - 1), NEW l \in -Half..(Half - 1),
         NEW step \in (1 - Half)..(Half - 1), NEW p \in 0..(Half - 1),
         Wrap(l - b) = p, p + step \in 0..(Half - 1)
  PROVE  Wrap(Wrap(l + step) - b) = p + step
BY ClockAssumption DEF Wrap

(* When the base moves with the packet the distance stays.                 *)
LEMMA DistanceStays ==
  ASSUME NEW b \in -Half..(Half - 1), NEW l \in -Half..(Half - 1),
         NEW step \in (1 - Half)..(Half - 1), NEW p \in 0..(Half - 1),
         Wrap(l - b) = p
  PROVE  Wrap(Wrap(l + step) - Wrap(b + step)) = p
BY ClockAssumption DEF Wrap

(* A distance that has not left the positive ints comes out in its tag.    *)
LEMMA TagOf ==
  ASSUME NEW p \in 0..(Half - 1)
  PROVE  /\ p \div Ticks \in Nat /\ p \div Ticks < Half
         /\ Unsigned(Quot(p)) = p \div Ticks
         /\ Masked(Unsigned(Quot(p))) = p \div Ticks
<1>1. p \div Ticks \in Nat /\ p \div Ticks < Half
  BY QuotRange, ClockAssumption
<1> QED  BY <1>1, ClockAssumption DEF Quot, Unsigned, Masked

-------------------------------------------------------------------------------
LEMMA FirstStep ==
  ASSUME Sane, IInv, First
  PROVE  IInv'
<1>1. PICK time \in Starts : Handle(time)
  BY DEF First
<1>2. time \in -Half..(Half - 1) /\ Half \in Nat
  BY ClockAssumption
<1>3. base = 0 /\ ~begun
  BY DEF IInv, Distance, First
<1>4. ~IsGap(0)
  BY ClockAssumption, Z3 DEF IsGap
<1>5. base' = time /\ last' = time /\ pos' = 0 /\ begun' = TRUE /\ base' # 0
  BY <1>1, <1>3, <1>4 DEF Handle, TakeOut, First, Sane
<1>6. Wrap(last' - base') = 0
  BY <1>2, <1>5 DEF Wrap
<1>7. Distance'
  BY <1>2, <1>5, <1>6, ClockAssumption DEF Distance
<1>8. Wrap(time - base') = 0
  BY <1>5, <1>6
<1>9. tag' # NoTag => tag' = 0 \div Ticks
  BY <1>1, <1>2, <1>8, TagOf, ClockAssumption DEF Handle
<1> QED  BY <1>5, <1>7, <1>9 DEF IInv, Tracks

LEMMA LaterStep ==
  ASSUME Sane, IInv, Later
  PROVE  IInv'
<1>1. PICK step \in Steps : /\ Handle(Wrap(last + step))
                            /\ pos' = IF IsGap(step) THEN pos ELSE pos + step
  BY DEF Later
<1> DEFINE time == Wrap(last + step)
<1>2. step \in (1 - Half)..(Half - 1) /\ Half \in Nat /\ MaxPos \in Nat
  BY ClockAssumption
<1>3. /\ base \in -Half..(Half - 1) /\ base # 0
      /\ last \in -Half..(Half - 1)
      /\ pos \in 0..MaxPos
      /\ Wrap(last - base) = pos
      /\ begun
  BY DEF IInv, Distance, Later
<1>4. pos \in 0..(Half - 1)
  BY <1>2, <1>3 DEF Sane
<1>5. time \in -Half..(Half - 1)
  BY <1>2, <1>3, WrapRange
<1>6. Wrap(time - last) = step
  BY <1>2, <1>3, StepRecovered
<1>7. last' = time /\ base' = TakeOut(base, step) /\ begun' /\ base' # 0
  BY <1>1, <1>3, <1>6 DEF Handle, Later, Sane
<1>8. pos' \in 0..MaxPos
  BY <1>1, <1>2, <1>3 DEF Later, Sane
<1>9. base' \in -Half..(Half - 1) /\ Wrap(time - base') = pos'
  <2>1. CASE IsGap(step)
    <3>1. base' = Wrap(base + step) /\ pos' = pos
      BY <1>1, <1>7, <2>1 DEF TakeOut
    <3>2. Wrap(time - Wrap(base + step)) = pos
      BY <1>2, <1>3, <1>4, DistanceStays
    <3>3. Wrap(base + step) \in -Half..(Half - 1)
      BY <1>2, <1>3, WrapRange
    <3> QED  BY <3>1, <3>2, <3>3
  <2>2. CASE ~IsGap(step)
    <3>1. base' = base /\ pos' = pos + step
      BY <1>1, <1>7, <2>2 DEF TakeOut
    <3>2. pos + step \in 0..(Half - 1)
      BY <1>2, <1>8, <3>1 DEF Sane
    <3>3. Wrap(time - base) = pos + step
      <4>1. /\ base \in -Half..(Half - 1) /\ last \in -Half..(Half - 1)
            /\ step \in (1 - Half)..(Half - 1) /\ pos \in 0..(Half - 1)
            /\ Wrap(last - base) = pos /\ pos + step \in 0..(Half - 1)
        BY <1>2, <1>3, <1>4, <3>2
      <4> QED  BY <4>1, DistanceGrows, ZenonT(30)
    <3> QED  BY <1>3, <3>1, <3>3
  <2> QED  BY <2>1, <2>2
<1>10. Distance'
  BY <1>5, <1>7, <1>8, <1>9 DEF Distance
<1>11. pos' \in 0..(Half - 1)
  BY <1>2, <1>8 DEF Sane
<1>12. tag' # NoTag => tag' = Masked(Unsigned(Quot(Wrap(time - base'))))
  BY <1>1 DEF Handle
<1>13. Tracks'
  BY <1>9, <1>11, <1>12, TagOf DEF Tracks
<1> QED  BY <1>10, <1>13 DEF IInv

LEMMA Invariance == Sane => (Spec => []IInv)
<1> SUFFICES ASSUME Sane PROVE Spec => []IInv
  OBVIOUS
<1>1. Init => IInv
  BY DEF Init, IInv, Distance, Tracks
<1>2. IInv /\ [Next]_vars => IInv'
  <2> SUFFICES ASSUME IInv, [Next]_vars PROVE IInv'
    OBVIOUS
  <2>1. CASE UNCHANGED vars
    BY <2>1 DEF IInv, Distance, Tracks, vars
  <2> QED  BY <2>1, FirstStep, LaterStep DEF Next
<1> QED  BY <1>1, <1>2, PTL DEF Spec

(* A tag is the recorded time of its packet, for every clock rate, gap and *)
(* width of an int, with packets that overtake one another and timestamps  *)
(* that wrap.  Each part of Sane is needed: with MaxPos >= Half, with       *)
(* LateAtStart or with ZeroBase TLC finds a tag that is not.               *)
THEOREM TagsTrack == Sane => (Spec => []Tracks)
<1>1. IInv => Tracks
  BY DEF IInv
<1> QED  BY Invariance, <1>1, PTL

-------------------------------------------------------------------------------
(* What a step of the clock does to the tag before.                        *)
LEMMA PrevStep ==
  ASSUME First \/ Later
  PROVE  prev' = IF tag = NoTag THEN prev ELSE tag
BY DEF First, Later, Handle

(* A packet without a tag is from before the first millisecond written.    *)
LEMMA TagWritten ==
  ASSUME Sane, IInv, Distance', First \/ Later, tag' = NoTag
  PROVE  pos' \div Ticks < Least
<1>1. PICK time \in Int : Handle(time)
  <2>1. CASE First
    BY <2>1, ClockAssumption DEF First
  <2>2. CASE Later
    <3>1. PICK step \in Steps : Handle(Wrap(last + step))
      BY <2>2 DEF Later
    <3>2. last \in Int /\ step \in Int
      BY <2>2, <3>1, ClockAssumption DEF Later, IInv, Distance
    <3> QED  BY <3>1, <3>2, WrapInt
  <2> QED  BY <2>1, <2>2
<1>2. last' = time /\ begun'
  BY <1>1 DEF Handle, First, Later
<1>3. Wrap(time - base') = pos' /\ pos' \in 0..(Half - 1)
  BY <1>2, ClockAssumption DEF Distance, Sane
<1>4. pos' \div Ticks \in Nat /\ pos' \div Ticks < Half
  BY <1>3, TagOf
<1>5. Unsigned(Quot(pos')) = pos' \div Ticks
  BY <1>3, TagOf
<1>6. tag' = IF pos' \div Ticks >= Least THEN Masked(pos' \div Ticks) ELSE NoTag
  BY <1>1, <1>3, <1>5 DEF Handle
<1>7. Masked(pos' \div Ticks) # NoTag
  BY <1>4, ClockAssumption DEF Masked, NoTag
<1> QED  BY <1>4, <1>6, <1>7, ClockAssumption

LEMMA NearStep ==
  ASSUME Sane, IInv, IInv', Near, NoLeap, [Next]_vars
  PROVE  Near' /\ NoLeap'
<1> USE ClockAssumption
<1>1. CASE UNCHANGED vars
  BY <1>1 DEF Near, NoLeap, vars
<1>2. CASE Next
  <2>1. pos \in Nat /\ pos' \in Nat /\ pos' <= pos + Gap * Ticks
    <3>0. Gap * Ticks \in Nat
      BY Z3
    <3>1. CASE First
      BY <3>0, <3>1 DEF First, IInv, Distance
    <3>2. CASE Later
      <4>1. PICK step \in Steps : pos' = IF IsGap(step) THEN pos ELSE pos + step
        BY <3>2 DEF Later
      <4>2. pos \in Nat /\ pos' \in Nat
        BY <3>2 DEF IInv, Distance, Later
      <4>3. step \in Int
        BY <4>1
      <4> QED  BY <3>0, <4>1, <4>2, <4>3 DEF IsGap
    <3> QED  BY <1>2, <3>1, <3>2 DEF Next
  <2> DEFINE now == pos \div Ticks
             then == pos' \div Ticks
  <2>2. now \in Nat /\ then \in Nat /\ then <= now + Gap
    BY <2>1, QuotRange, QuotStep
  <2>3. prev' = IF tag = NoTag THEN prev ELSE tag
    BY <1>2, PrevStep DEF Next
  <2>4. (tag # NoTag => tag = now) /\ (tag' # NoTag => tag' = then)
    BY DEF IInv, Tracks
  <2>5. tag = NoTag => now <= Least
    <3>1. CASE begun
      BY <2>2, <3>1 DEF Near
    <3>2. CASE ~begun
      <4>1. pos = 0
        BY <3>2 DEF IInv, Distance
      <4>2. now <= 0
        BY <4>1, QuotRange
      <4> QED  BY <2>2, <4>2
    <3> QED  BY <3>1, <3>2
  <2>6. begun' /\ tag' = NoTag => then < Least
    BY <1>2, TagWritten DEF Next, IInv
  <2> HIDE DEF now, then
  <2>7. prev' \in Nat
    BY <2>2, <2>3, <2>4 DEF Near
  <2>8. NoLeap'
    BY <2>2, <2>3, <2>4, <2>5 DEF NoLeap, Near
  <2> QED  BY <2>6, <2>7, <2>8 DEF Near, now, then
<1> QED  BY <1>1, <1>2

(* No tag is further from the one before than a gap may be, also with      *)
(* packets that overtake one another.                                      *)
THEOREM TagsNear == Sane => (Spec => []NoLeap)
<1> SUFFICES ASSUME Sane PROVE Spec => []NoLeap
  OBVIOUS
<1>1. Init => Near /\ NoLeap
  BY DEF Init, Near, NoLeap
<1>2. IInv /\ IInv' /\ Near /\ NoLeap /\ [Next]_vars => Near' /\ NoLeap'
  BY NearStep
<1> QED  BY <1>1, <1>2, Invariance, PTL DEF Spec
===============================================================================
