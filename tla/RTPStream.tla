------------------------------ MODULE RTPStream -------------------------------
(***************************************************************************)
(* A session's RTPDump at the end of the way that its packets take: a      *)
(* sender sends a fixed sequence of RTP packets, the session is added      *)
(* while the sender is somewhere in it, and UDP brings the rest in order,  *)
(* but for a few packets that are lost or late.  Packets that are no video *)
(* have a socket of their own and come in between at any time.             *)
(***************************************************************************)
EXTENDS RTPDump, FiniteSetsExt

CONSTANT
  Senders  (* What sends to the session: its stream of packets, joins, where  *)
           (* it may be in it when the session is added, and the bound        *)
           (* maxLost on packets that are lost or overtaken; asides, the      *)
           (* packets that come in between.  The field frame of a packet      *)
           (* numbers the video frame that it belongs to, 0 for the others.   *)

(* The packets that rtpHandler takes for video, by their payload type.     *)
IsVideo(p) == p.rtp /\ p.pt \in {96, 98}

ASSUME StreamAssumption ==
  \A x \in Senders :
    /\ Len(x.stream) \in Nat
    /\ x.joins \subseteq 1..Len(x.stream)
    /\ x.maxLost \in Nat
    /\ \A p \in x.asides : ~IsVideo(p)
    /\ \A i \in 1..Len(x.stream) : x.stream[i].fua => x.stream[i].type \in NalTypes

VARIABLES
  sender,    (* The sender, which does not change.                            *)
  next,      (* The packet that the network has next.                         *)
  lost,      (* How many packets were lost or overtaken.                      *)
  late,      (* A packet that others overtake, or 0.                          *)
  asides,    (* The packets that still come in between.                       *)
  got,       (* The packets of the stream that rtpHandler got, each with what *)
             (* RTPDump was ready for when it came.                           *)
  unbroken,  (* Did every packet since the beginning of a unit come, in       *)
             (* order, and find its file open or to be opened?                *)
  deleted    (* Is the session deleted, and its RTPDump with it?              *)

netVars == <<sender, next, lost, late, asides, got, unbroken>>
vars == <<dumpVars, netVars, deleted>>

Stream == sender.stream

(* A unit begins at every packet that is whole or has the start bit, and   *)
(* ends at every one that is whole or has the end bit.                     *)
BeginsUnit(p) == ~p.fua \/ p.start
EndsUnit(p) == ~p.fua \/ p.stop
Begins == {i \in 1..Len(Stream) : BeginsUnit(Stream[i])}

Init ==
  /\ DumpInit
  /\ sender \in Senders
  /\ next \in sender.joins
  /\ lost = 0
  /\ late = 0
  /\ asides = sender.asides
  /\ got = <<>>
  /\ unbroken = (next \in Begins)
  /\ deleted = FALSE

Deliver(i) ==
  /\ ~deleted
  /\ RtpHandler(Stream[i])
  /\ got' = Append(got, [pos |-> i, params |-> spsPpsOk = 2, empty |-> videoData = <<>>])
  /\ unbroken' = (unbroken /\ ~(IsH264(Stream[i]) /\ flv' = "NULL"))
  /\ UNCHANGED <<sender, asides, deleted>>

InOrder ==
  /\ next <= Len(Stream)
  /\ Deliver(next)
  /\ next' = next + 1
  /\ UNCHANGED <<lost, late>>

(* The network's next packet does not come, or not yet.                    *)
Miss ==
  /\ lost < sender.maxLost
  /\ lost' = lost + 1
  /\ next <= Len(Stream)
  /\ next' = next + 1
  /\ unbroken' = FALSE
  /\ UNCHANGED <<dumpVars, sender, asides, got, deleted>>

Lose == Miss /\ UNCHANGED late

Delay ==
  /\ late = 0
  /\ Miss
  /\ late' = next

Late ==
  /\ late # 0
  /\ Deliver(late)
  /\ late' = 0
  /\ UNCHANGED <<next, lost>>

(* A packet of the audio socket, which lies in bufferList between any two. *)
Aside ==
  /\ ~deleted
  /\ \E p \in asides : RtpHandler(p) /\ asides' = asides \ {p}
  /\ UNCHANGED <<sender, next, lost, late, got, unbroken, deleted>>

(* delCaptureRtpSession.                                                   *)
Delete ==
  /\ ~deleted
  /\ deleted' = TRUE
  /\ CloseDump
  /\ UNCHANGED netVars

Next == InOrder \/ Lose \/ Delay \/ Late \/ Aside \/ Delete

Spec == Init /\ [][Next]_vars

-------------------------------------------------------------------------------
(* The place of x among the members of S, and that s lists what v has for  *)
(* each member of S, in their order.                                       *)
Rank(S, x) == Cardinality({y \in S : y <= x})
Lists(s, S, v) ==
  /\ Len(s) = Cardinality(S)
  /\ \A x \in S : s[Rank(S, x)] = v[x]

(* The sender's side of a frame: its packets are Stream[FirstOf(k)..LastOf(k)],*)
(* and its slices are its unfragmented units and what its fragments make.  *)

Frames == {Stream[i].frame : i \in 1..Len(Stream)} \ {0}
PacketsOf == [k \in Frames |-> {i \in 1..Len(Stream) : Stream[i].frame = k}]
FirstOf == [k \in Frames |-> Min(PacketsOf[k])]
LastOf == [k \in Frames |-> Max(PacketsOf[k])]

(* What packets i to n make together, and the unit that begins at packet   *)
(* i, up to packet last at most.                                           *)
Together(i, n) ==
  [type |-> Stream[i].type, parts |-> [m \in 1..(n - i + 1) |-> Stream[i + m - 1].data]]

UnitAt(i, last) ==
  Together(i, CHOOSE n \in i..last : /\ n = last \/ n + 1 \in Begins
                                    /\ (i + 1)..n \cap Begins = {})

IsFrame(slices, k) ==
  Lists(slices, PacketsOf[k] \cap Begins, [i \in 1..Len(Stream) |-> UnitAt(i, LastOf[k])])

(* What a sender's packetiser sees to: units are fragmented from their     *)
(* start to their end without another packet of the stream between; a      *)
(* frame is what its slices make, in one piece, and has the marker on its  *)
(* last packet.  (What comes in between are the asides, at any place.)     *)
WellFormed(s) ==
  /\ s # <<>> => BeginsUnit(s[1]) /\ EndsUnit(s[Len(s)])
  /\ \A i \in 1..(Len(s) - 1) :
       /\ EndsUnit(s[i]) <=> BeginsUnit(s[i + 1])
       /\ BeginsUnit(s[i + 1]) \/ (s[i + 1].type = s[i].type /\ s[i + 1].frame = s[i].frame)
  /\ \A i \in 1..Len(s) :
       /\ s[i].frame \in Nat
       /\ IF IsVideo(s[i]) THEN s[i].frame # 0 <=> s[i].type \in SliceTypes
          ELSE s[i].frame = 0 /\ ~s[i].fua /\ s[i].type \notin {7, 8}
       /\ s[i].frame # 0 => (s[i].marker <=> i = Len(s) \/ s[i + 1].frame # s[i].frame)
  /\ \A i, j \in 1..Len(s) : i < j /\ s[j].frame # 0 =>
       /\ s[i].frame <= s[j].frame
       /\ s[i].frame = s[j].frame => \A m \in i..j : s[m].frame = s[i].frame

WellPacketised == \A x \in Senders : WellFormed(x.stream)

(* What a session must not get for its two files to stay apart: video of   *)
(* both payload types.                                                     *)
OneVideoType ==
  \A x \in Senders : \A i, j \in 1..Len(x.stream) :
    ~(x.stream[i].pt = 96 /\ x.stream[j].pt = 98)

Positions(tag) == {i \in 1..Len(file) : file[i].tag = tag}

(* Frame k came with nothing missing, from got[j] on.                      *)
WholeAt(k, j) ==
  /\ got[j].pos = FirstOf[k]
  /\ j + LastOf[k] - FirstOf[k] <= Len(got)
  /\ \A m \in 0..(LastOf[k] - FirstOf[k]) : got[j + m].pos = FirstOf[k] + m

-------------------------------------------------------------------------------
(* The file is a sequence of tags that a player can read, whatever was     *)
(* lost: it starts with the only header, has at most one sequence header,  *)
(* and no frame comes before that one.                                     *)
FileWellFormed ==
  /\ Positions("header") \subseteq {1}
  /\ file # <<>> => file[1].tag = "header"
  /\ \A i, j \in Positions("params") : i = j
  /\ \A i \in Positions("frame") : \E j \in Positions("params") : j < i

(* RTPDump finds its feet again: a frame whose packets all came in one     *)
(* piece when no rest of an older frame lay in video_data is in the file,  *)
(* whole and alone, whatever was lost or late before it.                   *)
Resynchronises ==
  \A k \in Frames : \A j \in 1..Len(got) :
    WholeAt(k, j) /\ got[j].params /\ got[j].empty =>
      \E i \in Positions("frame") : IsFrame(file[i].slices, k)

(* The marker of a frame that came in one piece leaves no rest behind for  *)
(* the next one, whatever the frame began with.                            *)
MarkerFlushes ==
  \A k \in Frames : \A j \in 1..Len(got) :
    LET after == j + LastOf[k] - FirstOf[k] + 1
    IN  WholeAt(k, j) /\ got[j].params /\ after <= Len(got) => got[after].empty

(* Without loss the frame tags are exactly the frames sent since the       *)
(* parameter sets were complete, in order, each once and whole.            *)
FramesInOrder ==
  LET due == {k \in Frames : \E j \in 1..Len(got) : WholeAt(k, j) /\ got[j].params}
      tags == Positions("frame")
  IN  unbroken =>
        /\ Cardinality(tags) = Cardinality(due)
        /\ \A i \in tags, k \in due :
             Rank(tags, i) = Rank(due, k) =>
               /\ IsFrame(file[i].slices, k)
               /\ file[i].key <=> Stream[LastOf[k]].type = 5

(* The sequence header has both parameter sets: two of one kind never      *)
(* count as one of each.  (This is not so when packets are lost.)          *)
HeaderComplete ==
  \A i \in Positions("params") : file[i].sps # Unset /\ file[i].pps # Unset

(* The sender's SPS and PPS alternate: between two of one kind there is    *)
(* one of the other.                                                       *)
Paired ==
  \A i, j \in 1..Len(Stream) :
    i < j /\ Stream[i].type \in {7, 8} /\ Stream[j].type = Stream[i].type =>
      \E m \in (i + 1)..(j - 1) : Stream[m].type \in {7, 8} \ {Stream[i].type}

(* Without loss the sequence header of a sender whose SPS and PPS          *)
(* alternate has both, also when the session begins between the two.       *)
HeaderUnbroken == unbroken /\ Paired => HeaderComplete

(* One writer at a time: a session whose video has one payload type never  *)
(* has the FLV file and the program stream's file open, which have the     *)
(* same name.                                                              *)
OneWriter == ~(flv # "NULL" /\ cameraType = "PS_CAMERA")

(* What is taken for a program stream is all in its file, as it came from  *)
(* its first packet on and without the audio, or, when m_psOutfile could   *)
(* not be opened, none of it ever is: a file never begins in the middle.   *)
ProgramStreamVerbatim ==
  LET video == {j \in 1..Len(got) : Stream[got[j].pos].rtp /\ Stream[got[j].pos].pt = 96}
      taken == IF psOutfile = "open" THEN video ELSE {}
  IN  cameraType = "PS_CAMERA" =>
        /\ psOutfile # "unopened"
        /\ Lists(psFile, taken, [j \in 1..Len(got) |-> Stream[got[j].pos].data])
===============================================================================
