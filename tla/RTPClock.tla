------------------------------- MODULE RTPClock --------------------------------
(***************************************************************************)
(* The two clocks of RTPDump: how the RTP timestamps of one medium become  *)
(* the milliseconds of its FLV tags.  A clock remembers its base, the RTP  *)
(* time of millisecond 0, and the time of the packet before; a jump of     *)
(* more than Gap milliseconds is taken out of the recording by moving the  *)
(* base.  Times are ints, and their differences wrap (a signed overflow,   *)
(* which the compilers of the project let wrap).                           *)
(*                                                                         *)
(* audioHandler and videoHandler compute the same with other constants: 8  *)
(* ticks to a millisecond and no tag before millisecond 2 for audio,       *)
(* videoFrequency / 1000 ticks and every tag for video.  The float in      *)
(* which the jump is compared is exact at the threshold.                   *)
(***************************************************************************)
EXTENDS Integers

CONSTANTS
  Half,         (* 2^31: an int is in -Half..Half-1.                          *)
  Ticks,        (* RTP clock ticks per millisecond.                           *)
  Gap,          (* Milliseconds that a jump must exceed to be taken out.      *)
  Least,        (* The first millisecond that is written.                     *)
  Starts,       (* RTP timestamps that a stream may begin with.               *)
  Steps,        (* Ticks from a packet to the next to arrive; a packet that   *)
                (* was overtaken comes with a negative step.                  *)
  MaxPos,       (* Bound: ticks that are recorded.                            *)
  LateAtStart,  (* May a packet come that is older than the first one?        *)
  ZeroBase      (* May the RTP time of millisecond 0 be the number 0?         *)

ASSUME ClockAssumption ==
  /\ Half \in Nat /\ Ticks \in Nat \ {0} /\ Gap \in Nat /\ Least \in Nat
  /\ Starts \subseteq -Half..(Half - 1)
  /\ Steps \subseteq (1 - Half)..(Half - 1)
  /\ MaxPos \in Nat
  /\ LateAtStart \in BOOLEAN /\ ZeroBase \in BOOLEAN

VARIABLES
  base,   (* base_audio_time or base_video_time.                              *)
  last,   (* audioLastTime or videoLastTime.                                  *)
  begun,  (* Has a packet been handled?                                       *)
  pos,    (* The recorded time at the last packet, in ticks: the sum of the   *)
          (* steps since the first packet that were not taken out.            *)
  tag,    (* The milliseconds in the last packet's tag, NoTag when it has     *)
          (* none.                                                            *)
  prev    (* The milliseconds in the tag before that one.                     *)

vars == <<base, last, begun, pos, tag, prev>>

NoTag == -1

(* Arithmetic of ints, and the conversions to and from u_int32_t, for      *)
(* arguments at most one turn out of range.                                *)
Wrap(x) == IF x >= Half THEN x - 2 * Half ELSE IF x < -Half THEN x + 2 * Half ELSE x
Quot(x) == IF x >= 0 THEN x \div Ticks ELSE -((-x) \div Ticks)
Unsigned(x) == IF x < 0 THEN x + 2 * Half ELSE x

(* The tag keeps 31 bits of the u_int32_t.                                 *)
Masked(u) == IF u >= Half THEN u - Half ELSE u

Init ==
  /\ base = 0 /\ last = 0
  /\ begun = FALSE
  /\ pos = 0
  /\ tag = NoTag /\ prev = 0

-------------------------------------------------------------------------------
IsGap(diff) == diff > Gap * Ticks

(* Mutants: the jump becomes part of the recording; the stream begins anew *)
(* at 0 after it.                                                          *)
KeepGap(from, diff) == from
StartAnew(from, diff) == IF IsGap(diff) THEN last' ELSE from
TakeOut(from, diff) == IF IsGap(diff) THEN Wrap(from + diff) ELSE from

(* A packet with RTP timestamp `time'.  A base of 0 means `not yet set'.   *)
Handle(time) ==
  LET from == IF base = 0 THEN time ELSE base
      diff == IF base = 0 THEN 0 ELSE Wrap(time - last)
      timestamp == Unsigned(Quot(Wrap(time - base')))
  IN  /\ last' = time
      /\ base' = TakeOut(from, diff)
      /\ tag' = IF timestamp >= Least THEN Masked(timestamp) ELSE NoTag
      /\ prev' = IF tag = NoTag THEN prev ELSE tag

First ==
  /\ ~begun
  /\ begun' = TRUE
  /\ \E time \in Starts : Handle(time)
  /\ pos' = 0
  /\ ZeroBase \/ base' # 0

Later ==
  /\ begun
  /\ \E step \in Steps :
       /\ Handle(Wrap(last + step))
       /\ pos' = IF IsGap(step) THEN pos ELSE pos + step
  /\ pos' <= MaxPos
  /\ LateAtStart \/ pos' >= 0
  /\ ZeroBase \/ base' # 0
  /\ UNCHANGED begun

Next == First \/ Later

Spec == Init /\ [][Next]_vars

-------------------------------------------------------------------------------
(* Every tag says where in the recording its packet is: the time since the *)
(* first packet without the gaps, in milliseconds, whatever the timestamps *)
(* that the camera began with, where they wrap, how often a gap moved the  *)
(* base and however packets overtake one another.                          *)
Tracks == tag # NoTag => tag = pos \div Ticks

(* No tag is further from the one before than a gap may be: a player never *)
(* waits for longer, also when the camera was away for hours.              *)
NoLeap == tag # NoTag => tag <= prev + Gap + Least
===============================================================================
