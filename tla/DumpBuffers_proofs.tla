-------------------------- MODULE DumpBuffers_proofs ---------------------------
(***************************************************************************)
(* Proofs about DumpBuffers: how long the two arrays of RTPDump must be,   *)
(* for any unit size, any number of slices in a frame and any number of    *)
(* starts and markers that are lost in a row.                              *)
(***************************************************************************)
EXTENDS DumpBuffers, TLAPS

(* m_nal_data holds the units that lost their start, as far as they were   *)
(* sent, and the one before them.                                          *)
NalShare == nalLength <= missedStarts * MaxUnit + unit

(* video_data holds the slices of the frames that lost their marker and of *)
(* this one, and none before there are parameter sets.                     *)
FrameShare ==
  /\ length <= (missedMarkers * MaxSlices + slices) * SliceBound
  /\ spsPpsOk # 2 => length = 0 /\ missedMarkers = 0

(* A unit without a header byte is put together only where parameter sets  *)
(* are no longer taken.                                                    *)
HeaderShare == ~JoinsInside /\ inside /\ spsPpsOk # 2 => nalKnown

IInv == TypeOK /\ NalShare /\ FrameShare /\ HeaderShare /\ FrameFits /\ SpsFits

-------------------------------------------------------------------------------
(* Products of naturals, which the steps below use only through these.     *)
LEMMA Times ==
  ASSUME NEW a \in Nat, NEW u \in Nat
  PROVE  a * u \in Nat /\ (a + 1) * u = a * u + u
BY Z3

LEMMA TimesMonotonic ==
  ASSUME NEW a \in Nat, NEW b \in Nat, NEW u \in Nat, a <= b
  PROVE  a * u <= b * u
BY Z3

LEMMA Bounds == NalBound \in Nat /\ SliceBound \in Nat /\ FrameBound \in Nat /\ MaxUnit <= NalBound
<1>1. NalBound \in Nat /\ MaxUnit <= NalBound
  BY Times, CameraAssumption DEF NalBound
<1>2. SliceBound \in Nat
  BY <1>1 DEF SliceBound
<1>3. (MaxMissedMarkers + 1) * MaxSlices \in Nat
  BY Times, CameraAssumption
<1> QED  BY <1>1, <1>2, <1>3, Times DEF FrameBound

(* What m_nal_data may hold at any point of a unit.                        *)
LEMMA NalRoom ==
  ASSUME NEW m \in 0..MaxMissedStarts, NEW u \in 0..MaxUnit
  PROVE  /\ m * MaxUnit \in Nat
         /\ m * MaxUnit + u <= (m + 1) * MaxUnit
         /\ m * MaxUnit + u <= NalBound
<1>1. (m + 1) * MaxUnit = m * MaxUnit + MaxUnit /\ m * MaxUnit \in Nat
  BY Times, CameraAssumption
<1>2. (m + 1) * MaxUnit <= (MaxMissedStarts + 1) * MaxUnit
  BY TimesMonotonic, CameraAssumption
<1> QED  BY <1>1, <1>2, CameraAssumption, Times DEF NalBound

(* What video_data may hold when one more slice is copied to it.           *)
LEMMA SliceRoom ==
  ASSUME NEW m \in 0..MaxMissedMarkers, NEW s \in 0..(MaxSlices - 1),
         NEW l \in Nat, l <= (m * MaxSlices + s) * SliceBound,
         NEW n \in Nat, n <= NalBound
  PROVE  /\ l + 4 + n <= (m * MaxSlices + s + 1) * SliceBound
         /\ l + 4 + n <= ((m + 1) * MaxSlices) * SliceBound
         /\ l + 4 + n <= FrameBound
<1> DEFINE k == m * MaxSlices + s
<1>1. m * MaxSlices \in Nat /\ (m + 1) * MaxSlices = m * MaxSlices + MaxSlices
  BY Times, CameraAssumption
<1>2. k \in Nat /\ k + 1 <= (m + 1) * MaxSlices /\ (m + 1) * MaxSlices \in Nat
  BY <1>1, CameraAssumption
<1>3. (m + 1) * MaxSlices <= (MaxMissedMarkers + 1) * MaxSlices
      /\ (MaxMissedMarkers + 1) * MaxSlices \in Nat
  BY TimesMonotonic, Times, CameraAssumption
<1>4. (k + 1) * SliceBound = k * SliceBound + SliceBound /\ k * SliceBound \in Nat
  BY <1>2, Times, Bounds
<1>5. l + 4 + n <= (k + 1) * SliceBound
  BY <1>4, Bounds DEF SliceBound
<1>6. (k + 1) * SliceBound <= ((m + 1) * MaxSlices) * SliceBound
  BY <1>2, TimesMonotonic, Bounds
<1>7. ((m + 1) * MaxSlices) * SliceBound <= FrameBound
  BY <1>2, <1>3, TimesMonotonic, Bounds DEF FrameBound
<1>8. /\ (k + 1) * SliceBound \in Nat
      /\ ((m + 1) * MaxSlices) * SliceBound \in Nat
  BY <1>2, Times, Bounds
<1> HIDE DEF k
<1>9. /\ l + 4 + n <= ((m + 1) * MaxSlices) * SliceBound
      /\ l + 4 + n <= FrameBound
  BY <1>5, <1>6, <1>7, <1>8, Bounds
<1> QED  BY <1>5, <1>9 DEF k

(* A frame's share does not shrink with another frame or slice.            *)
LEMMA ShareGrows ==
  ASSUME NEW m \in 0..MaxMissedMarkers, NEW s \in 0..(MaxSlices - 1)
  PROVE  /\ (m * MaxSlices + s) * SliceBound \in Nat
         /\ (m * MaxSlices + s) * SliceBound <= (m * MaxSlices + s + 1) * SliceBound
         /\ (m * MaxSlices + s) * SliceBound <= ((m + 1) * MaxSlices) * SliceBound
<1>1. m * MaxSlices \in Nat /\ (m + 1) * MaxSlices = m * MaxSlices + MaxSlices
  BY Times, CameraAssumption
<1>2. /\ m * MaxSlices + s \in Nat /\ m * MaxSlices + s + 1 \in Nat
      /\ (m + 1) * MaxSlices \in Nat /\ m * MaxSlices + s <= (m + 1) * MaxSlices
  BY <1>1, CameraAssumption
<1> QED  BY <1>2, Times, TimesMonotonic, Bounds

-------------------------------------------------------------------------------
(* videoHandler with a unit that m_nal_data may hold, or its packet lost.  *)
LEMMA VideoStep ==
  ASSUME IInv,
         NEW type \in Types, NEW n \in Nat, n <= NalBound,
         NEW marker \in BOOLEAN, NEW arrives \in BOOLEAN,
         arrives /\ type = "sps" => n <= MaxSps \/ JoinsInside \/ spsPpsOk = 2,
         IF arrives THEN VideoHandler(type, n, marker) ELSE NoVideo,
         FrameGoesOn(slices + 1, marker, arrives /\ type = "slice")
  PROVE  /\ length' \in Nat /\ written' \in Nat /\ spsSize' \in Nat
         /\ spsPpsOk' \in 0..2
         /\ slices' \in 0..(MaxSlices - 1)
         /\ missedMarkers' \in 0..MaxMissedMarkers
         /\ FrameShare' /\ FrameFits' /\ SpsFits'
         /\ spsPpsOk' # 2 => spsPpsOk # 2
<1> USE CameraAssumption
<1>1. TypeOK /\ FrameShare /\ FrameFits /\ SpsFits
  BY DEF IInv
<1> DEFINE m == missedMarkers
           s == slices
<1>2. /\ m \in 0..MaxMissedMarkers /\ s \in 0..(MaxSlices - 1) /\ length \in Nat
      /\ length <= (m * MaxSlices + s) * SliceBound
  BY <1>1 DEF TypeOK, FrameShare
<1>3. /\ slices' = IF marker THEN 0 ELSE s + 1
      /\ slices' \in 0..(MaxSlices - 1)
  BY <1>2 DEF FrameGoesOn
<1>4. missedMarkers' \in 0..MaxMissedMarkers
  BY <1>2 DEF FrameGoesOn
<1>5. /\ (m * MaxSlices + s) * SliceBound \in Nat
      /\ (m * MaxSlices + s) * SliceBound <= (m * MaxSlices + s + 1) * SliceBound
      /\ (m * MaxSlices + s) * SliceBound <= ((m + 1) * MaxSlices) * SliceBound
  BY <1>2, ShareGrows
<1>6. /\ length + 4 + n <= (m * MaxSlices + s + 1) * SliceBound
      /\ length + 4 + n <= ((m + 1) * MaxSlices) * SliceBound
      /\ length + 4 + n <= FrameBound
  BY <1>2, SliceRoom
<1>7. /\ m * MaxSlices \in Nat /\ (m + 1) * MaxSlices \in Nat /\ 0 * MaxSlices = 0
      /\ (m * MaxSlices + s + 1) * SliceBound \in Nat
      /\ ((m + 1) * MaxSlices) * SliceBound \in Nat
  <2>1. m * MaxSlices \in Nat /\ (m + 1) * MaxSlices \in Nat /\ 0 * MaxSlices = 0
    BY <1>2, Times
  <2> QED  BY <1>2, <2>1, Times, Bounds
(* A slice is taken: it has its place, or is the end of a frame.           *)
<1>8. CASE arrives /\ spsPpsOk = 2 /\ type = "slice"
  <2>1. /\ written' = 5 + length + 4 + n
        /\ length' = IF marker THEN 0 ELSE length + 4 + n
        /\ spsPpsOk' = spsPpsOk /\ spsSize' = spsSize
    BY <1>8 DEF VideoHandler, TakesParameterSets, LengthAfter
  <2>2. missedMarkers' = IF marker THEN 0 ELSE m
    BY <1>8 DEF FrameGoesOn
  <2>3. length' <= (missedMarkers' * MaxSlices + slices') * SliceBound
    <3>1. CASE marker
      <4>1. length' = 0 /\ (missedMarkers' * MaxSlices + slices') = 0
        BY <3>1, <2>1, <2>2, <1>3, <1>7
      <4> QED  BY <4>1, Bounds, Times
    <3>2. CASE ~marker
      <4>1. length' = length + 4 + n /\ missedMarkers' = m /\ slices' = s + 1
        BY <3>2, <2>1, <2>2, <1>3
      <4>2. missedMarkers' * MaxSlices + slices' = m * MaxSlices + s + 1
        BY <4>1, <1>7, <1>2
      <4> QED  BY <4>1, <4>2, <1>6
    <3> QED  BY <3>1, <3>2
  <2> QED  BY <1>1, <1>2, <1>3, <1>4, <1>6, <1>8, <2>1, <2>2, <2>3, Bounds
           DEF TypeOK, FrameShare, FrameFits, SpsFits
(* Nothing is added, while slices are taken: a marker is one more missed.  *)
<1>9. CASE spsPpsOk = 2 /\ ~(arrives /\ type = "slice")
  <2>1. UNCHANGED <<length, written, spsPpsOk, spsSize>>
    BY <1>9 DEF VideoHandler, TakesParameterSets, NoVideo
  <2>2. missedMarkers' = IF marker THEN m + 1 ELSE m
    BY <1>9 DEF FrameGoesOn
  <2>3. length' <= (missedMarkers' * MaxSlices + slices') * SliceBound
    <3>1. CASE marker
      <4>1. missedMarkers' * MaxSlices + slices' = (m + 1) * MaxSlices
        BY <3>1, <2>2, <1>3, <1>7
      <4> QED  BY <4>1, <2>1, <1>2, <1>5, <1>7
    <3>2. CASE ~marker
      <4>1. missedMarkers' * MaxSlices + slices' = m * MaxSlices + s + 1
        BY <3>2, <2>2, <1>2, <1>3, <1>7
      <4> QED  BY <4>1, <2>1, <1>2, <1>5, <1>7
    <3> QED  BY <3>1, <3>2
  <2> QED  BY <1>1, <1>3, <1>4, <1>9, <2>1, <2>3
           DEF TypeOK, FrameShare, FrameFits, SpsFits
(* Before that there is nothing in video_data.                             *)
<1>10. CASE spsPpsOk # 2
  <2>1. length = 0 /\ m = 0
    BY <1>1, <1>10 DEF FrameShare
  <2>2. UNCHANGED <<length, written>> /\ missedMarkers' = 0
    BY <1>10, <2>1 DEF VideoHandler, TakesParameterSets, NoVideo, FrameGoesOn
  <2>3. spsPpsOk' \in 0..2 /\ spsSize' \in Nat /\ SpsFits'
    BY <1>1, <1>10 DEF VideoHandler, TakesParameterSets, NoVideo, TypeOK, SpsFits, Types
  <2>4. (missedMarkers' * MaxSlices + slices') * SliceBound \in Nat
    <3>1. missedMarkers' * MaxSlices + slices' \in Nat
      BY <2>2, <1>3, <1>7
    <3> QED  BY <3>1, Bounds, Times
  <2> QED  BY <1>1, <1>3, <1>4, <1>10, <2>1, <2>2, <2>3, <2>4
           DEF TypeOK, FrameShare, FrameFits
<1> QED  BY <1>8, <1>9, <1>10

-------------------------------------------------------------------------------
LEMMA WholeStep ==
  ASSUME IInv, NEW n \in 1..MaxUnit, NEW marker \in BOOLEAN, NEW arrives \in BOOLEAN,
         Whole(n, marker, arrives)
  PROVE  IInv'
<1>1. n \in Nat /\ n <= NalBound /\ "slice" \in Types
  BY Bounds, CameraAssumption DEF Types
<1>2. /\ IF arrives THEN VideoHandler("slice", n, marker) ELSE NoVideo
      /\ FrameGoesOn(slices + 1, marker, arrives /\ "slice" = "slice")
      /\ UNCHANGED <<nalLength, nalKnown, unit, inside, missedStarts>>
  BY DEF Whole
<1>3. /\ length' \in Nat /\ written' \in Nat /\ spsSize' \in Nat
      /\ spsPpsOk' \in 0..2
      /\ slices' \in 0..(MaxSlices - 1)
      /\ missedMarkers' \in 0..MaxMissedMarkers
      /\ FrameShare' /\ FrameFits' /\ SpsFits'
      /\ spsPpsOk' # 2 => spsPpsOk # 2
  BY <1>1, <1>2, VideoStep
<1> QED  BY <1>2, <1>3 DEF IInv, TypeOK, NalShare, HeaderShare

(* A parameter set is no slice and ends no frame.                          *)
LEMMA ParameterStep ==
  ASSUME IInv, NEW n \in 1..MaxSps, NEW type \in {"sps", "pps"}, NEW arrives \in BOOLEAN,
         ParameterSet(type, n, arrives)
  PROVE  IInv'
<1> USE CameraAssumption
<1>1. /\ UNCHANGED <<nalLength, nalKnown, unit, inside, slices, missedStarts, missedMarkers,
                     length, written>>
      /\ spsPpsOk' \in 0..2 /\ spsSize' \in Nat
      /\ spsSize' = n \/ spsSize' = spsSize
      /\ spsPpsOk' # 2 => spsPpsOk # 2
  <2>1. UNCHANGED <<nalLength, nalKnown, unit, inside, slices, missedStarts, missedMarkers>>
    BY DEF ParameterSet, cameraVars
  <2>2. spsPpsOk \in 0..2 /\ spsSize \in Nat /\ n \in Nat /\ type # "slice"
    BY DEF IInv, TypeOK
  <2>3. CASE arrives /\ spsPpsOk # 2
    BY <2>1, <2>2, <2>3 DEF ParameterSet, VideoHandler, TakesParameterSets
  <2>4. CASE ~(arrives /\ spsPpsOk # 2)
    <3>1. UNCHANGED <<length, written, spsPpsOk, spsSize>>
      BY <2>2, <2>4 DEF ParameterSet, VideoHandler, TakesParameterSets, NoVideo
    <3> QED  BY <2>1, <2>2, <3>1
  <2> QED  BY <2>3, <2>4
<1> QED  BY <1>1 DEF IInv, TypeOK, NalShare, FrameShare, HeaderShare, FrameFits, SpsFits

LEMMA StartStep ==
  ASSUME IInv, NEW n \in 1..MaxUnit, NEW arrives \in BOOLEAN, Start(n, arrives)
  PROVE  IInv'
<1> USE CameraAssumption
<1>1. /\ UNCHANGED <<length, written, spsPpsOk, spsSize, slices, missedMarkers>>
      /\ unit' = 1 + n /\ unit' \in 0..MaxUnit /\ inside' = TRUE
  BY DEF Start, NoVideo
<1>2. /\ nalLength' \in Nat /\ nalKnown' \in BOOLEAN /\ missedStarts' \in 0..MaxMissedStarts
      /\ HeaderShare'
  <2>1. nalLength' \in Nat /\ missedStarts' \in 0..MaxMissedStarts
    BY DEF Start, LengthAtStart, IInv, TypeOK
  <2>2. CASE arrives
    BY <2>1, <2>2 DEF Start, HeaderSet, HeaderShare
  <2>3. CASE ~arrives
    <3>1. nalKnown' = nalKnown /\ (JoinsInside \/ nalKnown \/ spsPpsOk = 2)
      BY <2>3 DEF Start
    <3>2. nalKnown \in BOOLEAN
      BY DEF IInv, TypeOK
    <3> QED  BY <1>1, <2>1, <3>1, <3>2 DEF HeaderShare
  <2> QED  BY <2>2, <2>3
<1>3. NalShare'
  <2>1. CASE arrives
    <3>1. nalLength' = 1 + n /\ missedStarts' = 0
      BY <2>1 DEF Start, LengthAtStart
    <3>2. 0 * MaxUnit = 0
      BY Times
    <3> QED  BY <1>1, <3>1, <3>2 DEF NalShare
  <2>2. CASE ~arrives
    <3>1. nalLength' = nalLength /\ missedStarts' = missedStarts + 1
      BY <2>2 DEF Start
    <3>2. nalLength <= missedStarts * MaxUnit + unit /\ unit \in 0..MaxUnit
          /\ missedStarts \in 0..MaxMissedStarts /\ nalLength \in Nat
      BY DEF IInv, NalShare, TypeOK
    <3>3. missedStarts * MaxUnit \in Nat
          /\ (missedStarts + 1) * MaxUnit = missedStarts * MaxUnit + MaxUnit
      BY <3>2, Times
    <3>4. nalLength <= (missedStarts + 1) * MaxUnit
      BY <3>2, <3>3
    <3>5. nalLength <= (missedStarts + 1) * MaxUnit + unit'
      BY <3>2, <3>3, <3>4, <1>1
    <3> QED  BY <3>1, <3>5 DEF NalShare
  <2> QED  BY <2>1, <2>2
<1> QED  BY <1>1, <1>2, <1>3 DEF IInv, TypeOK, FrameShare, FrameFits, SpsFits

(* What a fragment adds to m_nal_data, if it arrives, the camera's unit    *)
(* grows by as well.                                                       *)
LEMMA FragmentStep ==
  ASSUME IInv, NEW n \in 1..MaxUnit, NEW arrives \in BOOLEAN,
         unit + n <= MaxUnit, unit' = unit + n,
         nalLength' = IF arrives THEN nalLength + n ELSE nalLength,
         missedStarts' = missedStarts
  PROVE  nalLength' \in Nat /\ NalShare' /\ unit' \in 0..MaxUnit
<1>1. /\ nalLength \in Nat /\ unit \in 0..MaxUnit /\ missedStarts \in 0..MaxMissedStarts
      /\ nalLength <= missedStarts * MaxUnit + unit
  BY DEF IInv, TypeOK, NalShare
<1>2. missedStarts * MaxUnit \in Nat
  BY <1>1, Times, CameraAssumption
<1>3. nalLength' <= missedStarts * MaxUnit + unit'
  BY <1>1, <1>2
<1> QED  BY <1>1, <1>3, CameraAssumption DEF NalShare

LEMMA MiddleStep ==
  ASSUME IInv, NEW n \in 1..MaxUnit, NEW arrives \in BOOLEAN, Middle(n, arrives)
  PROVE  IInv'
<1>1. /\ unit + n <= MaxUnit /\ unit' = unit + n
      /\ nalLength' = IF arrives THEN nalLength + n ELSE nalLength
      /\ UNCHANGED <<nalKnown, inside, slices, missedStarts, missedMarkers,
                     length, written, spsPpsOk, spsSize>>
  <2>1. unit \in 0..MaxUnit
    BY DEF IInv, TypeOK
  <2> QED  BY <2>1, CameraAssumption DEF Middle, NoVideo
<1>2. nalLength' \in Nat /\ NalShare' /\ unit' \in 0..MaxUnit
  BY <1>1, FragmentStep
<1> QED  BY <1>1, <1>2 DEF IInv, TypeOK, FrameShare, HeaderShare, FrameFits, SpsFits

LEMMA EndStep ==
  ASSUME IInv, NEW n \in 1..MaxUnit, NEW type \in Types, NEW marker \in BOOLEAN,
         NEW arrives \in BOOLEAN, End(n, type, marker, arrives)
  PROVE  IInv'
<1>1. /\ inside /\ unit + n <= MaxUnit /\ unit' = unit + n /\ inside' = FALSE
      /\ nalKnown => type = "slice"
      /\ nalLength' = IF arrives THEN nalLength + n ELSE nalLength
      /\ UNCHANGED <<nalKnown, missedStarts>>
      /\ IF arrives THEN VideoHandler(type, nalLength', marker) ELSE NoVideo
      /\ FrameGoesOn(slices + 1, marker, arrives /\ type = "slice")
  BY DEF End
<1>2. nalLength' \in Nat /\ NalShare' /\ unit' \in 0..MaxUnit
  BY <1>1, FragmentStep
<1>3. nalLength' <= NalBound
  <2>1. missedStarts \in 0..MaxMissedStarts /\ missedStarts' = missedStarts
    BY <1>1 DEF IInv, TypeOK
  <2>2. missedStarts * MaxUnit \in Nat /\ missedStarts * MaxUnit + unit' <= NalBound
    BY <2>1, <1>2, NalRoom
  <2>3. nalLength' <= missedStarts * MaxUnit + unit'
    BY <1>2, <2>1 DEF NalShare
  <2> QED  BY <1>2, <2>2, <2>3, Bounds, CameraAssumption
(* Without a header byte the type may be that of an SPS, but then the      *)
(* session has its parameter sets, or began inside a unit.                 *)
<1>4. type = "sps" => JoinsInside \/ spsPpsOk = 2
  BY <1>1 DEF IInv, HeaderShare
<1>5. PICK k \in Nat : k = nalLength'
  BY <1>2
<1>6. /\ length' \in Nat /\ written' \in Nat /\ spsSize' \in Nat
      /\ spsPpsOk' \in 0..2
      /\ slices' \in 0..(MaxSlices - 1)
      /\ missedMarkers' \in 0..MaxMissedMarkers
      /\ FrameShare' /\ FrameFits' /\ SpsFits'
      /\ spsPpsOk' # 2 => spsPpsOk # 2
  <2>1. IF arrives THEN VideoHandler(type, k, marker) ELSE NoVideo
    BY <1>1, <1>5 DEF VideoHandler
  <2> QED  BY <1>1, <1>3, <1>4, <1>5, <2>1, VideoStep
<1> QED  BY <1>1, <1>2, <1>6 DEF IInv, TypeOK, HeaderShare

LEMMA Initially == Init => IInv
<1> SUFFICES ASSUME Init PROVE IInv
  OBVIOUS
<1>1. 0 * MaxUnit = 0 /\ 0 * MaxSlices = 0 /\ 0 * SliceBound = 0
  BY Times, Bounds, CameraAssumption
<1>2. TypeOK /\ HeaderShare /\ FrameFits /\ SpsFits
  <2>1. TypeOK
    <3>1. nalKnown \in BOOLEAN /\ inside \in BOOLEAN
      BY DEF Init
    <3>2. /\ nalLength = 0 /\ length = 0 /\ written = 0 /\ spsSize = 0 /\ spsPpsOk = 0
          /\ unit = 0 /\ slices = 0 /\ missedStarts = 0 /\ missedMarkers = 0
      BY DEF Init
    <3> QED  BY <3>1, <3>2, CameraAssumption DEF TypeOK
  <2>2. HeaderShare
    BY DEF Init, HeaderShare
  <2>3. FrameFits
    BY Bounds DEF Init, FrameFits
  <2>4. SpsFits
    BY CameraAssumption DEF Init, SpsFits
  <2> QED  BY <2>1, <2>2, <2>3, <2>4
<1>3. NalShare
  BY <1>1 DEF Init, NalShare
<1>4. missedMarkers * MaxSlices + slices = 0
  BY <1>1 DEF Init
<1>5. FrameShare
  BY <1>1, <1>4 DEF Init, FrameShare
<1> QED  BY <1>2, <1>3, <1>5 DEF IInv

LEMMA Inductive == IInv /\ [Next]_vars => IInv'
<1> SUFFICES ASSUME IInv, [Next]_vars PROVE IInv'
  OBVIOUS
<1>1. CASE Next
  BY <1>1, WholeStep, ParameterStep, StartStep, MiddleStep, EndStep DEF Next
<1>2. CASE UNCHANGED vars
  BY <1>2 DEF vars, dumpVars, cameraVars, IInv, TypeOK, NalShare, FrameShare, HeaderShare,
              FrameFits, SpsFits
<1> QED  BY <1>1, <1>2

LEMMA Invariance == Spec => []IInv
BY Initially, Inductive, PTL DEF Spec

(* m_nal_data is as long as needed when it holds MaxMissedStarts + 1 units *)
(* of the camera (RTPDump::rtpHandler).                                    *)
THEOREM NalLengthBounded == Spec => []NalFits
<1>1. IInv => NalFits
  <2> SUFFICES ASSUME IInv PROVE NalFits
    OBVIOUS
  <2>1. /\ missedStarts \in 0..MaxMissedStarts /\ unit \in 0..MaxUnit /\ nalLength \in Nat
        /\ nalLength <= missedStarts * MaxUnit + unit
    BY DEF IInv, TypeOK, NalShare
  <2>2. missedStarts * MaxUnit \in Nat /\ missedStarts * MaxUnit + unit <= NalBound
    BY <2>1, NalRoom
  <2> QED  BY <2>1, <2>2, Bounds DEF NalFits
<1> QED  BY <1>1, Invariance, PTL

(* video_data is as long as needed when it holds MaxMissedMarkers + 1      *)
(* frames, each slice of them as long as m_nal_data (videoHandler).        *)
THEOREM FrameLengthBounded == Spec => []FrameFits
<1>1. IInv => FrameFits
  BY DEF IInv
<1> QED  BY <1>1, Invariance, PTL

(* The SPS that videoHandler copies is no longer than the camera's, for a  *)
(* session that does not begin inside a unit.                              *)
THEOREM SpsLengthBounded == Spec => []SpsFits
<1>1. IInv => SpsFits
  BY DEF IInv
<1> QED  BY <1>1, Invariance, PTL

(* Every length and count keeps its range: in particular the camera's unit *)
(* never outgrows MaxUnit and at most two parameter sets are counted.      *)
THEOREM BufferTypes == Spec => []TypeOK
<1>1. IInv => TypeOK
  BY DEF IInv
<1> QED  BY <1>1, Invariance, PTL
===============================================================================
