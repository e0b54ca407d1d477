------------------------------- MODULE RTPDump --------------------------------
(***************************************************************************)
(* RTPDump: what one session's packets become in its file.  Packets are    *)
(* dispatched on the payload type; H.264 fragments are put together to NAL *)
(* units and slices to frames; the first parameter sets become the FLV     *)
(* sequence header; a program stream is written as it comes.               *)
(*                                                                         *)
(* A packet's payload is a fragment id, data; the bits that decide are     *)
(* fields: the NAL unit type, FU-A or not with its start and end bits,     *)
(* and how the payload's first bytes look to the camera detection.         *)
(* Lengths are left out: a payload has at least two bytes and everything   *)
(* fits its buffer.  Whether an audio tag is written also depends on the   *)
(* audio clock, which is left open here.  Opening either file may fail;    *)
(* once one is open, what is handed to it counts as written.               *)
(***************************************************************************)
EXTENDS Integers, Sequences

CONSTANTS
  OtherTypes,   (* NAL unit types that RTPDump ignores (SEI, ...).            *)
  OpenMayFail   (* May srs_flv_open_write and m_psOutfile.open fail?          *)

ASSUME DumpAssumption ==
  /\ OtherTypes \subseteq Nat \ {1, 5, 7, 8, 28}
  /\ OpenMayFail \in BOOLEAN

VARIABLES
  isVideoBegin,  (* m_is_video_begin.                                         *)
  flv,           (* m_flv: NULL, open, or closed by the destructor.           *)
  spsPpsOk,      (* is_sps_pps_ok, how many parameter sets were taken.        *)
  sps, pps,      (* The parameter sets, Unset while the memory is not         *)
                 (* initialised.                                              *)
  videoData,     (* video_data up to m_length: the slices of a frame so far.  *)
  nal,           (* m_nal_data up to m_nal_length: the unit so far.           *)
  cameraType,    (* m_cameraType.                                             *)
  file,          (* What was written through m_flv.                           *)
  psOutfile,     (* m_psOutfile: not opened, open, or failed to open.         *)
  psFile         (* What m_psOutfile took.                                    *)

dumpVars ==
  <<isVideoBegin, flv, spsPpsOk, sps, pps, videoData, nal, cameraType, file, psOutfile, psFile>>

SliceTypes == {1, 5}
NalTypes == SliceTypes \cup {7, 8} \cup OtherTypes
Unset == <<>>
NoNal == [type |-> 0, parts |-> <<>>]

DumpTypeOK ==
  /\ isVideoBegin \in BOOLEAN
  /\ flv \in {"NULL", "open", "closed"}
  /\ spsPpsOk \in 0..2
  /\ nal = NoNal \/ nal.type \in NalTypes
  /\ \A i \in 1..Len(videoData) : videoData[i].type \in SliceTypes
  /\ cameraType \in {"DEFAULT", "RTSP_CAMERA", "PS_CAMERA"}
  /\ psOutfile \in {"unopened", "open", "failed"}
  /\ \A i \in 1..Len(file) : file[i].tag \in {"header", "audio", "params", "frame"}

DumpInit ==
  /\ isVideoBegin = FALSE
  /\ flv = "NULL"
  /\ spsPpsOk = 0
  /\ sps = Unset /\ pps = Unset
  /\ videoData = <<>>
  /\ nal = NoNal
  /\ cameraType = "DEFAULT"
  /\ file = <<>>
  /\ psOutfile = "unopened"
  /\ psFile = <<>>

-------------------------------------------------------------------------------
(* videoHandler, for NAL unit u, after what is in the file as `written'.   *)

(* Mutants: parameter sets are taken for ever, or not waited for.          *)
HeaderDueAlways == TRUE
HeaderDueNever == FALSE
HeaderDue == spsPpsOk # 2

(* Mutant: everything that is no slice counts as a parameter set.          *)
IsParameterSetAny(u) == u.type \notin SliceTypes
IsParameterSet(u) == u.type \in {7, 8}

(* Before the parameter sets are complete: each SPS or PPS counts, and the *)
(* second one writes both arrays as the sequence header.                   *)
ParameterSet(u, written) ==
  /\ HeaderDue
  /\ IsParameterSet(u)
  /\ spsPpsOk' = spsPpsOk + 1
  /\ sps' = IF u.type = 7 THEN u.parts ELSE sps
  /\ pps' = IF u.type = 8 THEN u.parts ELSE pps
  /\ file' = IF spsPpsOk' = 2
             THEN Append(written, [tag |-> "params", sps |-> sps', pps |-> pps'])
             ELSE written
  /\ UNCHANGED videoData

(* Mutant: the last slice is added after the frame is written.             *)
FrameTagEarly(u, frame) == [tag |-> "frame", key |-> u.type = 5, slices |-> videoData]
FrameTag(u, frame) == [tag |-> "frame", key |-> u.type = 5, slices |-> frame]

(* Mutant: m_length is not reset when the frame is written.                *)
RestKept(frame, marker) == frame
Rest(frame, marker) == IF marker THEN <<>> ELSE frame

(* After that: a slice is added to the frame, which the marker ends.       *)
Slice(u, marker, written) ==
  /\ ~HeaderDue
  /\ u.type \in SliceTypes
  /\ LET frame == Append(videoData, u)
     IN  /\ videoData' = Rest(frame, marker)
         /\ file' = IF marker THEN Append(written, FrameTag(u, frame)) ELSE written
  /\ UNCHANGED <<spsPpsOk, sps, pps>>

OtherUnit(u, written) ==
  /\ IF HeaderDue THEN ~IsParameterSet(u) ELSE u.type \notin SliceTypes
  /\ file' = written
  /\ UNCHANGED <<videoData, spsPpsOk, sps, pps>>

VideoHandler(u, marker, written) ==
  /\ isVideoBegin' = TRUE
  /\ \/ ParameterSet(u, written)
     \/ Slice(u, marker, written)
     \/ OtherUnit(u, written)

-------------------------------------------------------------------------------
(* Mutant: a start fragment does not reset m_nal_length.                   *)
BeginsAnewNever(p) == FALSE
BeginsAnew(p) == p.start

(* The unit that m_nal_data holds after fragment p.  A start fragment      *)
(* begins it anew.  Without one the fragment is added to what is there;    *)
(* when nothing is, the first payload byte is taken for the NAL header.    *)
Reassembled(p) ==
  IF BeginsAnew(p) THEN {[type |-> p.type, parts |-> <<p.data>>]}
  ELSE {[type |-> t, parts |-> Append(nal.parts, p.data)] :
          t \in IF nal = NoNal THEN NalTypes ELSE {nal.type}}

H264(p, written) ==
  \/ /\ ~p.fua
     /\ VideoHandler([type |-> p.type, parts |-> <<p.data>>], p.marker, written)
     /\ UNCHANGED nal
  \/ /\ p.fua
     /\ \E u \in Reassembled(p) :
          /\ nal' = u
          /\ IF p.stop
             THEN VideoHandler(u, p.marker, written)
             ELSE /\ file' = written
                  /\ UNCHANGED <<isVideoBegin, spsPpsOk, sps, pps, videoData>>

-------------------------------------------------------------------------------
(* rtpHandler.  A packet that is too short or of another version changes   *)
(* nothing, and neither do other payload types.                            *)

(* PCMU and PCMA, once there has been video.                               *)
Audio(p) ==
  /\ p.pt \in {0, 8}
  /\ isVideoBegin
  /\ file' = Append(file, [tag |-> "audio", data |-> p.data])
  /\ UNCHANGED <<isVideoBegin, flv, spsPpsOk, sps, pps, videoData, nal, cameraType>>
  /\ UNCHANGED <<psOutfile, psFile>>

Dropped(p) ==
  /\ \/ ~p.rtp
     \/ p.pt \in {0, 8}
     \/ p.pt \notin {0, 8, 96, 98}
  /\ UNCHANGED dumpVars

(* Mutant: the camera type is detected anew with every packet.             *)
DetectedAgain(p) == IF p.looks = "h264" THEN "RTSP_CAMERA" ELSE "PS_CAMERA"

(* The camera type is decided by the first packet of type 96: an SPS, a    *)
(* PPS or an FU-A fragment comes from an RTSP camera, unless its bytes are *)
(* also those that a program stream begins with.                           *)
Detected(p) ==
  IF cameraType # "DEFAULT" THEN cameraType
  ELSE IF p.looks = "h264" THEN "RTSP_CAMERA"
  ELSE "PS_CAMERA"

(* Mutant: a file that could not be opened is tried again.                 *)
OpensUntilOpen == psOutfile # "open"
(* The file is opened where the camera is detected, once and never again.  *)
Opens == cameraType = "DEFAULT"

(* Nobody asks m_psOutfile whether it could be opened, or written: one     *)
(* that is not open takes each packet and writes nothing.                  *)
ProgramStream(p) ==
  /\ p.pt = 96
  /\ Detected(p) = "PS_CAMERA"
  /\ cameraType' = "PS_CAMERA"
  /\ \/ Opens /\ psOutfile' = "open"
     \/ Opens /\ OpenMayFail /\ psOutfile' = "failed"
     \/ ~Opens /\ UNCHANGED psOutfile
  /\ psFile' = IF psOutfile' = "open" THEN Append(psFile, p.data) ELSE psFile
  /\ UNCHANGED <<isVideoBegin, flv, spsPpsOk, sps, pps, videoData, nal, file>>

IsH264(p) == p.pt = 98 \/ (p.pt = 96 /\ Detected(p) = "RTSP_CAMERA")

Video(p) ==
  /\ IsH264(p)
  /\ cameraType' = IF p.pt = 96 THEN Detected(p) ELSE cameraType
  /\ flv' = "open"
  /\ H264(p, IF flv = "open" THEN file ELSE <<[tag |-> "header"]>>)
  /\ UNCHANGED <<psOutfile, psFile>>

(* initFLVHeader fails: the packet is dropped, the next one tries again.   *)
OpenFails(p) ==
  /\ OpenMayFail
  /\ IsH264(p)
  /\ flv = "NULL"
  /\ cameraType' = IF p.pt = 96 THEN Detected(p) ELSE cameraType
  /\ UNCHANGED <<isVideoBegin, flv, spsPpsOk, sps, pps, videoData, nal, file, psOutfile, psFile>>

RtpHandler(p) ==
  \/ p.rtp /\ (Audio(p) \/ ProgramStream(p) \/ Video(p) \/ OpenFails(p))
  \/ Dropped(p)

(* The destructor.  A frame whose marker has not come is not written; what *)
(* m_psOutfile took is in its file.                                        *)
CloseDump ==
  /\ flv' = IF flv = "open" THEN "closed" ELSE flv
  /\ UNCHANGED <<isVideoBegin, spsPpsOk, sps, pps, videoData, nal, cameraType, file>>
  /\ UNCHANGED <<psOutfile, psFile>>
===============================================================================
