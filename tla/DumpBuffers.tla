------------------------------ MODULE DumpBuffers ------------------------------
(***************************************************************************)
(* The lengths in RTPDump: m_nal_length, which grows with each FU-A        *)
(* fragment and shrinks only at a start fragment, m_length, which grows    *)
(* with each slice and shrinks only at a marker, and the size of the SPS.  *)
(* Nothing in the code bounds them: what keeps them inside their arrays is *)
(* what a camera sends and how much of it the network loses.               *)
(*                                                                         *)
(* A camera sends frames of at most MaxSlices units of at most MaxUnit     *)
(* bytes, and SPS of at most MaxSps.  A packet arrives or is lost; at most *)
(* MaxMissedStarts starts and MaxMissedMarkers markers in a row are.       *)
(* RTPDump's whole control is in RTPDump.tla; here is what moves lengths.  *)
(***************************************************************************)
EXTENDS Integers

CONSTANTS MaxUnit, MaxSlices, MaxSps, MaxMissedStarts, MaxMissedMarkers,
  JoinsInside   (* May the session begin inside a fragmented unit, before it  *)
                (* has parameter sets?                                        *)

ASSUME CameraAssumption ==
  /\ MaxUnit \in Nat \ {0} /\ MaxSlices \in Nat \ {0}
  /\ MaxSps \in 1..MaxUnit
  /\ MaxMissedStarts \in Nat /\ MaxMissedMarkers \in Nat
  /\ JoinsInside \in BOOLEAN

VARIABLES
  nalLength,      (* m_nal_length.                                            *)
  nalKnown,       (* Has a start fragment set m_nal_data[0]?                  *)
  length,         (* m_length.                                                *)
  spsPpsOk,       (* is_sps_pps_ok.                                           *)
  spsSize,        (* sps_size, 0 before it is set.                            *)
  written,        (* Where the last copy into video_data ended.               *)
  unit,           (* Bytes of the camera's last fragmented unit so far.       *)
  inside,         (* Is the camera between its start and its end?             *)
  slices,         (* Units of the camera's frame that are sent.               *)
  missedStarts, missedMarkers

dumpVars == <<nalLength, nalKnown, length, spsPpsOk, spsSize, written>>
cameraVars == <<unit, inside, slices>>
vars == <<dumpVars, cameraVars, missedStarts, missedMarkers>>

Types == {"slice", "sps", "pps"}

TypeOK ==
  /\ nalLength \in Nat /\ length \in Nat /\ written \in Nat /\ spsSize \in Nat
  /\ nalKnown \in BOOLEAN
  /\ spsPpsOk \in 0..2
  /\ unit \in 0..MaxUnit /\ inside \in BOOLEAN
  /\ slices \in 0..(MaxSlices - 1)
  /\ missedStarts \in 0..MaxMissedStarts
  /\ missedMarkers \in 0..MaxMissedMarkers

Init ==
  /\ nalLength = 0 /\ nalKnown = FALSE
  /\ length = 0 /\ written = 0
  /\ spsPpsOk = 0 /\ spsSize = 0
  /\ unit = 0 /\ inside = FALSE /\ slices = 0
  /\ missedStarts = 0 /\ missedMarkers = 0

-------------------------------------------------------------------------------
(* Mutant: m_length is not reset by the marker.                            *)
LengthKept(sum, marker) == sum
LengthAfter(sum, marker) == IF marker THEN 0 ELSE sum

(* Mutant: parameter sets are taken for ever.                              *)
TakesAlways == TRUE
TakesParameterSets == spsPpsOk # 2

(* videoHandler with a unit of n bytes.                                    *)
VideoHandler(type, n, marker) ==
  IF TakesParameterSets
  THEN /\ spsPpsOk' = IF type = "slice" THEN spsPpsOk ELSE spsPpsOk + 1
       /\ spsSize' = IF type = "sps" THEN n ELSE spsSize
       /\ UNCHANGED <<length, written>>
  ELSE /\ IF type = "slice"
          THEN /\ written' = 5 + length + 4 + n
               /\ length' = LengthAfter(length + 4 + n, marker)
          ELSE UNCHANGED <<length, written>>
       /\ UNCHANGED <<spsPpsOk, spsSize>>

NoVideo == UNCHANGED <<length, written, spsPpsOk, spsSize>>

(* The camera's frame goes on with `sent' units, or ends with the marker.  *)
(* Once RTPDump takes slices, a marker is missed when its packet is lost,  *)
(* or its unit is not taken for a slice.                                   *)
FrameGoesOn(sent, marker, taken) ==
  /\ sent = MaxSlices => marker
  /\ slices' = IF marker THEN 0 ELSE sent
  /\ missedMarkers' = IF ~marker \/ spsPpsOk # 2 THEN missedMarkers
                      ELSE IF taken THEN 0 ELSE missedMarkers + 1
  /\ missedMarkers' <= MaxMissedMarkers

(* A slice that fits into a packet.                                        *)
Whole(n, marker, arrives) ==
  /\ ~inside
  /\ IF arrives THEN VideoHandler("slice", n, marker) ELSE NoVideo
  /\ FrameGoesOn(slices + 1, marker, arrives)
  /\ UNCHANGED <<nalLength, nalKnown, unit, inside, missedStarts>>

(* An SPS or a PPS.                                                        *)
ParameterSet(type, n, arrives) ==
  /\ ~inside
  /\ IF arrives THEN VideoHandler(type, n, FALSE) ELSE NoVideo
  /\ UNCHANGED <<nalLength, nalKnown, cameraVars, missedStarts, missedMarkers>>

(* Mutants: m_nal_length goes on from the last unit; the NAL header is not *)
(* set.                                                                    *)
LengthGoesOn(n) == nalLength + 1 + n
LengthAtStart(n) == 1 + n
HeaderNotSet == nalKnown
HeaderSet == TRUE

(* The first fragment of a slice, with its header and n bytes.             *)
Start(n, arrives) ==
  /\ ~inside
  /\ 1 + n < MaxUnit
  /\ inside' = TRUE
  /\ unit' = 1 + n
  /\ IF arrives
     THEN /\ nalLength' = LengthAtStart(n)
          /\ nalKnown' = HeaderSet
          /\ missedStarts' = 0
     ELSE /\ missedStarts < MaxMissedStarts
          /\ JoinsInside \/ nalKnown \/ spsPpsOk = 2
          /\ missedStarts' = missedStarts + 1
          /\ UNCHANGED <<nalLength, nalKnown>>
  /\ NoVideo
  /\ UNCHANGED <<slices, missedMarkers>>

Middle(n, arrives) ==
  /\ inside
  /\ unit + n < MaxUnit
  /\ unit' = unit + n
  /\ nalLength' = IF arrives THEN nalLength + n ELSE nalLength
  /\ NoVideo
  /\ UNCHANGED <<nalKnown, inside, slices, missedStarts, missedMarkers>>

(* The last one.  The type is that of the last start, or, when there was   *)
(* none, whatever is in the first byte of m_nal_data.                      *)
End(n, type, marker, arrives) ==
  /\ inside
  /\ unit + n <= MaxUnit
  /\ nalKnown => type = "slice"
  /\ inside' = FALSE
  /\ unit' = unit + n
  /\ nalLength' = IF arrives THEN nalLength + n ELSE nalLength
  /\ IF arrives THEN VideoHandler(type, nalLength', marker) ELSE NoVideo
  /\ FrameGoesOn(slices + 1, marker, arrives /\ type = "slice")
  /\ UNCHANGED <<nalKnown, missedStarts>>

Next ==
  \E arrives \in BOOLEAN :
    \/ \E n \in 1..MaxUnit, marker \in BOOLEAN : Whole(n, marker, arrives)
    \/ \E n \in 1..MaxSps, type \in {"sps", "pps"} : ParameterSet(type, n, arrives)
    \/ \E n \in 1..MaxUnit : Start(n, arrives) \/ Middle(n, arrives)
    \/ \E n \in 1..MaxUnit, type \in Types, marker \in BOOLEAN : End(n, type, marker, arrives)

Spec == Init /\ [][Next]_vars

-------------------------------------------------------------------------------
(* How long m_nal_data and video_data must be for such a camera.           *)
NalBound == (MaxMissedStarts + 1) * MaxUnit
SliceBound == NalBound + 4
FrameBound == (MaxMissedMarkers + 1) * MaxSlices * SliceBound

(* m_nal_data holds no more than as many units as lost their start in a    *)
(* row, and one: what a unit that is finished leaves there, and is never   *)
(* reset, does not add up over a recording.                                *)
NalFits == nalLength <= NalBound

(* No copy into video_data ends behind the frames whose markers were lost  *)
(* in a row, and one, each slice of them as long as m_nal_data may be.     *)
FrameFits == written <= 5 + FrameBound

(* The SPS that is copied is one that the camera sent as such, and never   *)
(* the rest of a unit whose header byte is missing, unless the session     *)
(* begins inside a unit.                                                   *)
SpsFits == ~JoinsInside => spsSize <= MaxSps
===============================================================================
