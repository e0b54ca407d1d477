------------------------------- MODULE MCStream -------------------------------
(***************************************************************************)
(* Streams for RTPStream: an RTSP camera's, with parameter sets before     *)
(* each key frame, frames of one and of two slices, whole and fragmented,  *)
(* and audio between them; and a program stream's.                         *)
(***************************************************************************)
EXTENDS RTPStream

Packet(pt, fua, start, stop, marker, type, looks, frame, data) ==
  [rtp |-> TRUE, pt |-> pt, fua |-> fua, start |-> start, stop |-> stop,
   marker |-> marker, type |-> type, looks |-> looks, frame |-> frame, data |-> data]

Sps(d) == Packet(96, FALSE, FALSE, FALSE, FALSE, 7, "h264", 0, d)
Pps(d) == Packet(96, FALSE, FALSE, FALSE, FALSE, 8, "h264", 0, d)
Sei(d) == Packet(96, FALSE, FALSE, FALSE, FALSE, 6, "other", 0, d)
Sound(d) == Packet(8, FALSE, FALSE, FALSE, FALSE, 0, "other", 0, d)
Unit(type, marker, frame, d) == Packet(96, FALSE, FALSE, FALSE, marker, type, "other", frame, d)
FragA(type, frame, d) == Packet(96, TRUE, TRUE, FALSE, FALSE, type, "h264", frame, d)
FragB(type, frame, d) == Packet(96, TRUE, FALSE, FALSE, FALSE, type, "h264", frame, d)
FragC(type, marker, frame, d) == Packet(96, TRUE, FALSE, TRUE, marker, type, "h264", frame, d)
Pack(looks, d) == Packet(96, FALSE, FALSE, FALSE, FALSE, 0, looks, 0, d)

(* What rtpHandler ignores: another payload type, and what is no RTP.      *)
OtherType(d) == [Sound(d) EXCEPT !.pt = 97]
NoRtp(d) == [Sound(d) EXCEPT !.rtp = FALSE]

(* The stream with payload type 98, which needs no camera detection.       *)
As98(stream) == [i \in 1..Len(stream) |-> IF stream[i].pt = 96 THEN [stream[i] EXCEPT !.pt = 98]
                                          ELSE stream[i]]

MCStreamH264 ==
  As98(<< Sps(1), Pps(2),
          FragA(5, 1, 3), FragB(5, 1, 4), FragC(5, FALSE, 1, 5), Unit(5, TRUE, 1, 6),
          Sound(7), OtherType(14),
          FragA(1, 2, 8), FragC(1, TRUE, 2, 9), NoRtp(15),
          Sps(1), Pps(2), Sei(10), Unit(5, TRUE, 3, 11), Sound(12), Unit(1, TRUE, 4, 13) >>)

(* The shorter one, for a session that begins anywhere and loses packets.  *)
MCStreamShort ==
  << Sps(1), Pps(2),
     FragA(5, 1, 3), FragC(5, FALSE, 1, 4), Unit(5, TRUE, 1, 5),
     Pps(2), FragA(1, 2, 7), FragC(1, TRUE, 2, 8), Unit(1, TRUE, 3, 9) >>

(* Parameter sets and whole units only.                                    *)
MCStreamPlain ==
  << Sps(1), Pps(2), Unit(5, TRUE, 1, 3), Sps(1), Pps(2), Unit(5, TRUE, 2, 4) >>

MCStreamPS ==
  << Pack("ps", 1), Pack("other", 2), Pack("ps", 3), Pack("other", 4), Pack("ps", 5), Pack("other", 6) >>

From(stream, n, sounds) ==
  [stream |-> stream, joins |-> 1..Len(stream), maxLost |-> n, asides |-> sounds]
MCSenders == {From(MCStreamH264, 0, {Sound(20)}),
              From(MCStreamShort, 2, {Sound(20)}),
              From(MCStreamPS, 3, {Sound(20)})}
MCPlainSender == {From(MCStreamPlain, 1, {})}

(* The hypotheses of the theorems in RTPStream_proofs hold here.           *)
ASSUME MCHypotheses == WellPacketised /\ OneVideoType
===============================================================================
