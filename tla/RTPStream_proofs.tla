---------------------------- MODULE RTPStream_proofs ----------------------------
(***************************************************************************)
(* Proofs about RTPDump behind a network, for every stream of packets and  *)
(* any losses and delays.                                                  *)
(*   For any packets, in any order: the types, the FLV file that a player  *)
(*     can read, and the program stream that is written as it comes.       *)
(*   For a session whose video has one payload type: one writer for its    *)
(*     file name.                                                          *)
(*   For senders whose packets make units and frames as well (Orderly):    *)
(*     what comes in one piece is in the file whole and leaves nothing     *)
(*     behind, and a session that lost nothing has all frames in order.    *)
(***************************************************************************)
EXTENDS RTPStream, SequenceTheorems, FiniteSetTheorems, TLAPS

-------------------------------------------------------------------------------
(* Sequences whose elements have no type, as the payloads have none.       *)
IsSequence(q) == \E S : q \in Seq(S)

LEMMA AppendAny ==
  ASSUME NEW q, IsSequence(q), NEW x
  PROVE  /\ IsSequence(Append(q, x))
         /\ Len(q) \in Nat /\ Len(Append(q, x)) = Len(q) + 1
         /\ \A i \in 1..Len(q) : Append(q, x)[i] = q[i]
         /\ Append(q, x)[Len(q) + 1] = x
<1>1. PICK S : q \in Seq(S)
  BY DEF IsSequence
<1>2. q \in Seq(S \cup {x})
  <2>1. Len(q) \in Nat /\ q \in [1..Len(q) -> S]
    BY <1>1, LenProperties
  <2>2. q \in [1..Len(q) -> S \cup {x}]
    BY <2>1
  <2> QED  BY <2>1, <2>2, SeqDef
<1>3. /\ Append(q, x) \in Seq(S \cup {x})
      /\ Len(Append(q, x)) = Len(q) + 1
      /\ \A i \in 1..Len(q) : Append(q, x)[i] = q[i]
      /\ Append(q, x)[Len(q) + 1] = x
  BY <1>2, AppendProperties
<1> QED  BY <1>1, <1>3, LenProperties DEF IsSequence

-------------------------------------------------------------------------------
(* A set of natural numbers has a least element, and a bounded one a       *)
(* greatest.                                                               *)
LEMMA Least ==
  ASSUME NEW T, T \subseteq Nat, T # {}
  PROVE  \E x \in T : \A y \in T : x <= y
<1>1. IsWellFoundedOn(OpToRel(<, Nat), Nat)
  BY NatLessThanWellFounded
<1>2. PICK x \in T : \A y \in T : ~(<<y, x>> \in OpToRel(<, Nat))
  BY <1>1, WFMin
<1>3. ASSUME NEW y \in T PROVE x <= y
  <2>1. x \in Nat /\ y \in Nat
    OBVIOUS
  <2>2. ~(y < x)
    BY <1>2, <2>1 DEF OpToRel
  <2> QED  BY <2>1, <2>2
<1> QED  BY <1>3

LEMMA Greatest ==
  ASSUME NEW n \in Nat, NEW T, T \subseteq 0..n, T # {}
  PROVE  \E x \in T : \A y \in T : y <= x
<1> DEFINE U == {m \in Nat : n - m \in T}
<1>1. U \subseteq Nat /\ U # {}
  <2>1. PICK y \in T : TRUE
    OBVIOUS
  <2>2. n - y \in Nat /\ n - (n - y) = y
    OBVIOUS
  <2> QED  BY <2>1, <2>2
<1>2. PICK m \in U : \A l \in U : m <= l
  BY <1>1, Least
<1>3. ASSUME NEW y \in T PROVE y <= n - m
  <2>1. n - y \in U /\ y \in 0..n
    OBVIOUS
  <2>2. m <= n - y
    BY <1>2, <2>1
  <2> QED  BY <2>1, <2>2
<1> QED  BY <1>2, <1>3

LEMMA FrameEnds ==
  ASSUME NEW n \in Nat, NEW T, T \subseteq 1..n, T # {}
  PROVE  /\ Min(T) \in T /\ \A y \in T : Min(T) <= y
         /\ Max(T) \in T /\ \A y \in T : y <= Max(T)
<1>0. T \subseteq Nat /\ T \subseteq 0..n
  OBVIOUS
<1>1. \E x \in T : \A y \in T : x <= y
  BY <1>0, Least
<1>2. \E x \in T : \A y \in T : y <= x
  BY <1>0, Greatest
<1>3. \E x \in T : \A y \in T : x >= y
  BY <1>2
<1> QED  BY <1>1, <1>3 DEF Min, Max

-------------------------------------------------------------------------------
(* A new greatest member of a set takes the last place, and the others     *)
(* keep theirs.                                                            *)
LEMMA RankLast ==
  ASSUME NEW S, S \subseteq Nat, IsFiniteSet(S),
         NEW b \in Nat, \A x \in S : x < b
  PROVE  /\ IsFiniteSet(S \cup {b})
         /\ Cardinality(S) \in Nat
         /\ Cardinality(S \cup {b}) = Cardinality(S) + 1
         /\ Rank(S \cup {b}, b) = Cardinality(S) + 1
         /\ \A x \in S : /\ Rank(S \cup {b}, x) = Rank(S, x)
                         /\ Rank(S, x) \in 1..Cardinality(S)
<1>1. b \notin S
  OBVIOUS
<1>2. /\ IsFiniteSet(S \cup {b})
      /\ Cardinality(S \cup {b}) = Cardinality(S) + 1
      /\ Cardinality(S) \in Nat
  BY <1>1, FS_AddElement, FS_CardinalityType
<1>3. {y \in S \cup {b} : y <= b} = S \cup {b}
  <2>1. \A y \in S \cup {b} : y <= b
    OBVIOUS
  <2> QED  BY <2>1
<1>4. ASSUME NEW x \in S
      PROVE  /\ Rank(S \cup {b}, x) = Rank(S, x)
             /\ Rank(S, x) \in 1..Cardinality(S)
  <2> DEFINE U == {y \in S : y <= x}
  <2>1. {y \in S \cup {b} : y <= x} = U
    OBVIOUS
  <2>2. U \in SUBSET S /\ x \in U
    OBVIOUS
  <2>3. IsFiniteSet(U) /\ Cardinality(U) <= Cardinality(S) /\ Cardinality(U) \in Nat
    BY <2>2, FS_Subset, FS_CardinalityType
  <2>4. Cardinality(U) # 0
    BY <2>2, <2>3, FS_EmptySet
  <2> QED  BY <1>2, <2>1, <2>3, <2>4 DEF Rank
<1> QED  BY <1>2, <1>3, <1>4 DEF Rank

LEMMA ListsAppend ==
  ASSUME NEW s, IsSequence(s), NEW S, S \subseteq Nat, IsFiniteSet(S),
         NEW b \in Nat, \A x \in S : x < b,
         NEW v, Lists(s, S, v), NEW w, \A x \in S : w[x] = v[x]
  PROVE  Lists(Append(s, w[b]), S \cup {b}, w)
<1> DEFINE r == Append(s, w[b])
<1>1. /\ Len(s) \in Nat /\ Len(r) = Len(s) + 1
      /\ \A i \in 1..Len(s) : r[i] = s[i]
      /\ r[Len(s) + 1] = w[b]
  BY AppendAny
<1>2. Len(s) = Cardinality(S) /\ \A x \in S : s[Rank(S, x)] = v[x]
  BY DEF Lists
<1> HIDE DEF r
<1>3. Len(r) = Cardinality(S \cup {b})
  BY <1>1, <1>2, RankLast
<1>4. ASSUME NEW x \in S \cup {b} PROVE r[Rank(S \cup {b}, x)] = w[x]
  <2>1. CASE x = b
    <3>1. Rank(S \cup {b}, b) = Cardinality(S) + 1
      BY RankLast
    <3> QED  BY <1>1, <1>2, <2>1, <3>1
  <2>2. CASE x \in S
    <3>1. Rank(S \cup {b}, x) = Rank(S, x) /\ Rank(S, x) \in 1..Cardinality(S)
      BY <2>2, RankLast
    <3>2. r[Rank(S, x)] = s[Rank(S, x)] /\ s[Rank(S, x)] = v[x]
      BY <1>1, <1>2, <2>2, <3>1
    <3> QED  BY <2>2, <3>1, <3>2
  <2> QED  BY <2>1, <2>2
<1>5. Lists(r, S \cup {b}, w)
  BY <1>3, <1>4 DEF Lists
<1> QED  BY <1>5 DEF r

(* Nothing lists nothing, and only what v says of S matters.               *)
LEMMA ListsNothing == ASSUME NEW v PROVE Lists(<<>>, {}, v)
BY FS_EmptySet DEF Lists

LEMMA ListsSame ==
  ASSUME NEW s, NEW S, NEW v, NEW w, Lists(s, S, v), \A x \in S : w[x] = v[x]
  PROVE  Lists(s, S, w)
BY DEF Lists

-------------------------------------------------------------------------------
(* An FLV file as it should be when n parameter sets have been taken: the  *)
(* header and no other, and before the second parameter set no sequence    *)
(* header and no frame, after it one sequence header before all frames.    *)
NoVideoYet(q) == \A i \in 1..Len(q) : q[i].tag \notin {"params", "frame"}

ParamsAt(q, j) ==
  /\ j \in 1..Len(q) /\ q[j].tag = "params"
  /\ \A i \in 1..Len(q) : /\ q[i].tag = "params" => i = j
                          /\ q[i].tag = "frame" => j < i

Good(q, n) ==
  /\ IsSequence(q)
  /\ Len(q) >= 1 /\ q[1].tag = "header"
  /\ \A i \in 1..Len(q) : q[i].tag = "header" => i = 1
  /\ IF n = 2 THEN \E j : ParamsAt(q, j) ELSE NoVideoYet(q)

LEMMA GoodHeader == Good(<<[tag |-> "header"]>>, 0)
<1> DEFINE h == [tag |-> "header"]
           q == <<h>>
<1>1. q \in Seq({h}) /\ Len(q) = 1 /\ q[1] = h /\ h.tag = "header"
  OBVIOUS
<1> HIDE DEF h, q
<1>2. IsSequence(q) /\ \A i \in 1..Len(q) : q[i].tag = "header" /\ i = 1
  BY <1>1 DEF IsSequence
<1>3. Good(q, 0)
  BY <1>1, <1>2 DEF Good, NoVideoYet
<1> QED  BY <1>3 DEF h, q

(* Audio at any time, and frames after the sequence header.                *)
LEMMA GoodAppend ==
  ASSUME NEW q, NEW n, Good(q, n), NEW x,
         x.tag = "audio" \/ (x.tag = "frame" /\ n = 2)
  PROVE  Good(Append(q, x), n)
<1> DEFINE r == Append(q, x)
<1>0. IsSequence(q) /\ Len(q) >= 1
  BY DEF Good
<1>1. /\ IsSequence(r) /\ Len(q) \in Nat /\ Len(q) >= 1 /\ Len(r) = Len(q) + 1
      /\ \A i \in 1..Len(q) : r[i] = q[i]
      /\ r[Len(q) + 1] = x
  BY <1>0, AppendAny
<1> HIDE DEF r
<1>2. \A i \in 1..Len(r) : (i \in 1..Len(q) /\ r[i] = q[i]) \/ (i = Len(q) + 1 /\ r[i] = x)
  BY <1>1
<1>3. r[1].tag = "header" /\ \A i \in 1..Len(r) : r[i].tag = "header" => i = 1
  BY <1>1, <1>2 DEF Good
<1>4. CASE n = 2
  <2>1. PICK j : ParamsAt(q, j)
    BY <1>4 DEF Good
  <2>2. ParamsAt(r, j)
    BY <1>1, <1>2, <2>1 DEF ParamsAt
  <2>3. Good(r, n)
    BY <1>1, <1>3, <1>4, <2>2 DEF Good
  <2> QED  BY <2>3 DEF r
<1>5. CASE n # 2
  <2>1. NoVideoYet(r)
    BY <1>2, <1>5 DEF Good, NoVideoYet
  <2>2. Good(r, n)
    BY <1>1, <1>3, <1>5, <2>1 DEF Good
  <2> QED  BY <2>2 DEF r
<1> QED  BY <1>4, <1>5

(* The sequence header, when the second parameter set is taken.            *)
LEMMA GoodParams ==
  ASSUME NEW q, NEW n, n # 2, Good(q, n), NEW x, x.tag = "params"
  PROVE  Good(Append(q, x), 2)
<1> DEFINE r == Append(q, x)
<1>0. IsSequence(q) /\ Len(q) >= 1
  BY DEF Good
<1>1. /\ IsSequence(r) /\ Len(q) \in Nat /\ Len(q) >= 1 /\ Len(r) = Len(q) + 1
      /\ \A i \in 1..Len(q) : r[i] = q[i]
      /\ r[Len(q) + 1] = x
  BY <1>0, AppendAny
<1> HIDE DEF r
<1>2. \A i \in 1..Len(r) : (i \in 1..Len(q) /\ r[i] = q[i]) \/ (i = Len(q) + 1 /\ r[i] = x)
  BY <1>1
<1>3. r[1].tag = "header" /\ \A i \in 1..Len(r) : r[i].tag = "header" => i = 1
  BY <1>1, <1>2 DEF Good
<1>4. ParamsAt(r, Len(q) + 1)
  BY <1>1, <1>2 DEF Good, NoVideoYet, ParamsAt
<1>5. Good(r, 2)
  BY <1>1, <1>3, <1>4 DEF Good
<1> QED  BY <1>5 DEF r

-------------------------------------------------------------------------------
(* The inductive invariant.  It ties the file to flv and to the number of  *)
(* parameter sets: videoHandler decides by is_sps_pps_ok what may follow,  *)
(* and audio by m_is_video_begin whether there is a file at all.           *)
FileInv ==
  /\ spsPpsOk \in 0..2
  /\ \/ /\ flv = "NULL" /\ file = <<>>
        /\ ~isVideoBegin /\ spsPpsOk = 0
     \/ /\ flv \in {"open", "closed"}
        /\ Good(file, spsPpsOk)
  /\ flv = "closed" => deleted

(* Whatever unit comes, the file that videoHandler leaves is good.         *)
LEMMA VideoHandlerGood ==
  ASSUME spsPpsOk \in 0..2, NEW w, Good(w, spsPpsOk),
         NEW u, NEW marker, VideoHandler(u, marker, w)
  PROVE  spsPpsOk' \in 0..2 /\ Good(file', spsPpsOk')
<1>1. CASE ParameterSet(u, w)
  <2>1. spsPpsOk \in {0, 1} /\ spsPpsOk' = spsPpsOk + 1
    BY <1>1 DEF ParameterSet, HeaderDue
  <2>2. CASE spsPpsOk' = 2
    <3> DEFINE x == [tag |-> "params", sps |-> sps', pps |-> pps']
    <3>1. file' = Append(w, x) /\ x.tag = "params"
      BY <1>1, <2>2 DEF ParameterSet
    <3> HIDE DEF x
    <3>2. Good(Append(w, x), 2)
      BY <2>1, <3>1, GoodParams
    <3> QED  BY <2>2, <3>1, <3>2
  <2>3. CASE spsPpsOk' # 2
    <3>1. file' = w
      BY <1>1, <2>3 DEF ParameterSet
    <3> QED  BY <2>1, <2>3, <3>1 DEF Good
  <2> QED  BY <2>2, <2>3
<1>2. CASE Slice(u, marker, w)
  <2>1. spsPpsOk = 2 /\ spsPpsOk' = 2
    BY <1>2 DEF Slice, HeaderDue
  <2> DEFINE x == FrameTag(u, Append(videoData, u))
  <2>2. file' = IF marker THEN Append(w, x) ELSE w
    BY <1>2 DEF Slice
  <2>3. x.tag = "frame"
    BY DEF FrameTag
  <2> HIDE DEF x
  <2>4. Good(Append(w, x), 2)
    BY <2>1, <2>3, GoodAppend
  <2> QED  BY <2>1, <2>2, <2>4
<1>3. CASE OtherUnit(u, w)
  BY <1>3 DEF OtherUnit
<1> QED  BY <1>1, <1>2, <1>3 DEF VideoHandler

(* One packet through rtpHandler, while the session is there.              *)
LEMMA RtpHandlerInv ==
  ASSUME FileInv, ~deleted, NEW p, RtpHandler(p), UNCHANGED deleted
  PROVE  FileInv'
<1>0. flv # "closed" /\ spsPpsOk \in 0..2
  BY DEF FileInv
<1>1. ASSUME UNCHANGED <<spsPpsOk, flv, file, isVideoBegin>>
      PROVE  FileInv'
  BY <1>1 DEF FileInv
<1>2. CASE Audio(p)
  <2> DEFINE x == [tag |-> "audio", data |-> p.data]
  <2>1. /\ isVideoBegin /\ file' = Append(file, x)
        /\ UNCHANGED <<isVideoBegin, flv, spsPpsOk>>
    BY <1>2 DEF Audio
  <2>2. flv = "open" /\ Good(file, spsPpsOk)
    BY <1>0, <2>1 DEF FileInv
  <2>3. x.tag = "audio"
    OBVIOUS
  <2> HIDE DEF x
  <2>4. Good(Append(file, x), spsPpsOk)
    BY <2>2, <2>3, GoodAppend
  <2> QED  BY <1>0, <2>1, <2>2, <2>4 DEF FileInv
<1>3. CASE ProgramStream(p)
  BY <1>1, <1>3 DEF ProgramStream
<1>4. CASE OpenFails(p)
  BY <1>1, <1>4 DEF OpenFails
<1>5. CASE Dropped(p)
  BY <1>1, <1>5 DEF Dropped, dumpVars
<1>6. CASE Video(p)
  <2> DEFINE w == IF flv = "open" THEN file ELSE <<[tag |-> "header"]>>
  <2>1. Good(w, spsPpsOk)
    BY <1>0, GoodHeader DEF FileInv
  <2>2. flv' = "open" /\ H264(p, w)
    BY <1>6 DEF Video
  <2> HIDE DEF w
  <2>3. spsPpsOk' \in 0..2 /\ Good(file', spsPpsOk')
    <3>1. ASSUME NEW u, VideoHandler(u, p.marker, w)
          PROVE  spsPpsOk' \in 0..2 /\ Good(file', spsPpsOk')
      BY <1>0, <2>1, <3>1, VideoHandlerGood
    <3>2. CASE file' = w /\ UNCHANGED spsPpsOk
      BY <1>0, <2>1, <3>2
    <3> QED  BY <2>2, <3>1, <3>2 DEF H264
  <2> QED  BY <2>2, <2>3 DEF FileInv
<1> QED  BY <1>2, <1>3, <1>4, <1>5, <1>6 DEF RtpHandler

LEMMA InitFileInv == Init => FileInv
BY DEF Init, DumpInit, FileInv

LEMMA NextFileInv == FileInv /\ [Next]_vars => FileInv'
<1> SUFFICES ASSUME FileInv, [Next]_vars PROVE FileInv'
  OBVIOUS
<1>1. ASSUME UNCHANGED <<dumpVars, deleted>> PROVE FileInv'
  BY <1>1 DEF FileInv, dumpVars
<1>2. ASSUME NEW i, Deliver(i) PROVE FileInv'
  BY <1>2, RtpHandlerInv DEF Deliver
<1>3. CASE InOrder
  BY <1>2, <1>3 DEF InOrder
<1>4. CASE Late
  BY <1>2, <1>4 DEF Late
<1>5. CASE Lose \/ Delay
  BY <1>1, <1>5 DEF Lose, Delay, Miss
<1>6. CASE Aside
  BY <1>6, RtpHandlerInv DEF Aside
<1>7. CASE Delete
  BY <1>7 DEF Delete, CloseDump, FileInv
<1>8. CASE UNCHANGED vars
  BY <1>1, <1>8 DEF vars
<1> QED  BY <1>3, <1>4, <1>5, <1>6, <1>7, <1>8 DEF Next

LEMMA FileInvImplies == FileInv => FileWellFormed
<1> SUFFICES ASSUME FileInv PROVE FileWellFormed
  OBVIOUS
<1>1. CASE file = <<>>
  <2>1. \A i \in 1..Len(file) : FALSE
    BY <1>1
  <2> QED  BY <1>1, <2>1 DEF FileWellFormed, Positions
<1>2. CASE file # <<>>
  <2>1. Good(file, spsPpsOk)
    BY <1>2 DEF FileInv
  <2>2. /\ Positions("header") \subseteq {1}
        /\ file[1].tag = "header"
    BY <2>1 DEF Good, Positions
  <2>3. CASE spsPpsOk = 2
    <3>1. PICK j : ParamsAt(file, j)
      BY <2>1, <2>3 DEF Good
    <3> QED  BY <2>2, <3>1 DEF ParamsAt, FileWellFormed, Positions
  <2>4. CASE spsPpsOk # 2
    <3>1. NoVideoYet(file)
      BY <2>1, <2>4 DEF Good
    <3>2. Positions("params") = {} /\ Positions("frame") = {}
      BY <3>1 DEF NoVideoYet, Positions
    <3> QED  BY <2>2, <3>2 DEF FileWellFormed
  <2> QED  BY <2>3, <2>4
<1> QED  BY <1>1, <1>2

(* Whatever packets a sender sends, and whatever the network loses or      *)
(* delays, the file starts with its only header, has at most one sequence  *)
(* header, and no frame comes before that one.                             *)
THEOREM FileReadable == Spec => []FileWellFormed
BY InitFileInv, NextFileInv, FileInvImplies, PTL DEF Spec

-------------------------------------------------------------------------------
Is98 == \E i \in 1..Len(Stream) : Stream[i].pt = 98

(* The camera is not even asked for when the packets have type 98, and an  *)
(* FLV file of packets with type 96 is one of a camera that was found to   *)
(* be none of program streams.                                             *)
WriterInv ==
  /\ Is98 => cameraType = "DEFAULT"
  /\ flv # "NULL" => cameraType = "RTSP_CAMERA" \/ Is98

(* The network has nothing that was not sent.                              *)
Travelling ==
  /\ sender \in Senders
  /\ next \in Nat \ {0} /\ late \in 0..Len(Stream)
  /\ asides \subseteq sender.asides

LEMMA DeliverWriter ==
  ASSUME OneVideoType, WriterInv, sender \in Senders, UNCHANGED sender,
         NEW i \in 1..Len(Stream), RtpHandler(Stream[i])
  PROVE  WriterInv'
<1> DEFINE p == Stream[i]
<1>1. UNCHANGED Is98 /\ (p.pt = 96 => ~Is98) /\ (p.pt = 98 => Is98)
  BY DEF Is98, OneVideoType, Stream
<1> HIDE DEF p
<1>2. CASE Audio(p) \/ Dropped(p)
  BY <1>1, <1>2 DEF WriterInv, Audio, Dropped, dumpVars
<1>3. CASE ProgramStream(p)
  <2>1. p.pt = 96 /\ cameraType # "RTSP_CAMERA" /\ ~Is98
    BY <1>1, <1>3 DEF ProgramStream, Detected
  <2> QED  BY <1>1, <1>3, <2>1 DEF ProgramStream, WriterInv
<1>4. CASE Video(p)
  <2>1. CASE p.pt = 96
    <3>1. cameraType' = "RTSP_CAMERA" /\ ~Is98
      BY <1>1, <1>4, <2>1 DEF Video, IsH264
    <3> QED  BY <1>1, <3>1 DEF WriterInv
  <2>2. CASE p.pt # 96
    <3>1. Is98 /\ UNCHANGED cameraType
      BY <1>1, <1>4, <2>2 DEF Video, IsH264
    <3> QED  BY <1>1, <3>1 DEF WriterInv
  <2> QED  BY <2>1, <2>2
<1>5. CASE OpenFails(p)
  <2>1. flv' = "NULL"
    BY <1>5 DEF OpenFails
  <2>2. p.pt # 96 => UNCHANGED cameraType
    BY <1>5 DEF OpenFails
  <2> QED  BY <1>1, <2>1, <2>2 DEF WriterInv
<1> QED  BY <1>2, <1>3, <1>4, <1>5 DEF RtpHandler, p

LEMMA NextTravels ==
  ASSUME Travelling, [Next]_vars
  PROVE  Travelling' /\ UNCHANGED sender
<1>0. Len(Stream) \in Nat
  BY StreamAssumption DEF Travelling, Stream
<1>1. UNCHANGED sender
  BY DEF Next, InOrder, Lose, Delay, Miss, Late, Deliver, Aside, Delete, vars, netVars
<1>2. UNCHANGED Stream
  BY <1>1 DEF Stream
<1>3. CASE InOrder
  BY <1>1, <1>2, <1>3 DEF InOrder, Deliver, Travelling
<1>4. CASE Late
  BY <1>0, <1>1, <1>2, <1>4 DEF Late, Deliver, Travelling
<1>5. CASE Lose \/ Delay
  <2>1. next <= Len(Stream) /\ next' = next + 1 /\ late' \in {late, next} /\ UNCHANGED asides
    BY <1>5 DEF Lose, Delay, Miss
  <2> QED  BY <1>0, <1>1, <1>2, <2>1 DEF Travelling
<1>6. CASE Aside
  BY <1>1, <1>2, <1>6 DEF Aside, Travelling
<1>7. CASE Delete \/ UNCHANGED vars
  BY <1>1, <1>2, <1>7 DEF Delete, vars, netVars, Travelling
<1> QED  BY <1>1, <1>3, <1>4, <1>5, <1>6, <1>7 DEF Next

(* What is no video leaves videoHandler alone, and writes audio at most.   *)
LEMMA OtherStep ==
  ASSUME NEW p, RtpHandler(p), ~IsVideo(p)
  PROVE  /\ UNCHANGED <<spsPpsOk, sps, pps, videoData, nal, flv, isVideoBegin, cameraType>>
         /\ UNCHANGED <<psOutfile, psFile>>
         /\ file' = file \/ \E x : file' = Append(file, x) /\ x.tag = "audio" /\ flv' = flv /\ isVideoBegin
<1>1. ~(p.rtp /\ (ProgramStream(p) \/ Video(p) \/ OpenFails(p)))
  BY DEF IsVideo, ProgramStream, Video, OpenFails, IsH264
<1>2. CASE Audio(p)
  <2> DEFINE x == [tag |-> "audio", data |-> p.data]
  <2>1. x.tag = "audio" /\ file' = Append(file, x)
    BY <1>2 DEF Audio
  <2> HIDE DEF x
  <2> QED  BY <1>2, <2>1 DEF Audio
<1>3. CASE Dropped(p)
  BY <1>3 DEF Dropped, dumpVars
<1> QED  BY <1>1, <1>2, <1>3 DEF RtpHandler

AudioAtMost == file' = file \/ \E x : file' = Append(file, x) /\ x.tag = "audio"

LEMMA AsideStep ==
  ASSUME Travelling, Aside
  PROVE  /\ UNCHANGED <<sender, next, late, got, unbroken, deleted>>
         /\ UNCHANGED <<spsPpsOk, sps, pps, videoData, nal, flv, isVideoBegin, cameraType>>
         /\ UNCHANGED <<psOutfile, psFile>>
         /\ AudioAtMost
<1>1. PICK p \in asides : RtpHandler(p)
  BY DEF Aside
<1>2. ~IsVideo(p)
  BY StreamAssumption DEF Travelling
<1> QED  BY <1>1, <1>2, OtherStep DEF Aside, AudioAtMost

(* What a session gets, and what changes when it gets no packet of the     *)
(* stream.                                                                 *)
LEMMA Deliveries ==
  ASSUME Travelling, [Next]_vars
  PROVE  \/ \E n \in 1..Len(Stream) : Deliver(n)
         \/ /\ UNCHANGED <<sender, got, spsPpsOk, sps, pps, videoData, nal, cameraType>>
            /\ UNCHANGED <<psOutfile, psFile>>
            /\ AudioAtMost
            /\ flv' # "NULL" => flv # "NULL"
<1>0. Len(Stream) \in Nat
  BY StreamAssumption DEF Travelling, Stream
<1>1. CASE InOrder
  <2>1. next \in 1..Len(Stream) /\ Deliver(next)
    BY <1>0, <1>1 DEF InOrder, Travelling
  <2> QED  BY <2>1
<1>2. CASE Late
  <2>1. late \in 1..Len(Stream) /\ Deliver(late)
    BY <1>0, <1>2 DEF Late, Travelling
  <2> QED  BY <2>1
<1>3. CASE Lose \/ Delay
  BY <1>3 DEF Lose, Delay, Miss, dumpVars, AudioAtMost
<1>4. CASE Aside
  BY <1>4, AsideStep
<1>5. CASE Delete
  BY <1>5 DEF Delete, CloseDump, netVars, AudioAtMost
<1>6. CASE UNCHANGED vars
  BY <1>6 DEF vars, netVars, dumpVars, AudioAtMost
<1> QED  BY <1>1, <1>2, <1>3, <1>4, <1>5, <1>6 DEF Next

LEMMA NextWriter ==
  ASSUME OneVideoType, WriterInv, Travelling, [Next]_vars
  PROVE  WriterInv' /\ Travelling'
<1>1. Travelling' /\ UNCHANGED sender
  BY NextTravels
<1>2. UNCHANGED Is98
  BY <1>1 DEF Is98, Stream
<1>3. ASSUME NEW n \in 1..Len(Stream), Deliver(n) PROVE WriterInv'
  BY <1>1, <1>3, DeliverWriter DEF Deliver, Travelling
<1>4. ASSUME UNCHANGED cameraType, flv' # "NULL" => flv # "NULL" PROVE WriterInv'
  BY <1>2, <1>4 DEF WriterInv
<1> QED  BY <1>1, <1>3, <1>4, Deliveries

(* The FLV file and the program stream's file, which have one name, are    *)
(* never both open, when the session's video keeps to one payload type.    *)
THEOREM WritersApart ==
  ASSUME OneVideoType PROVE Spec => []OneWriter
<1>1. Init => WriterInv /\ Travelling
  BY StreamAssumption DEF Init, DumpInit, WriterInv, Travelling, Stream
<1>2. (WriterInv /\ Travelling) /\ [Next]_vars => (WriterInv /\ Travelling)'
  BY NextWriter
<1>3. WriterInv => OneWriter
  BY DEF WriterInv, OneWriter
<1> QED  BY <1>1, <1>2, <1>3, PTL DEF Spec

-------------------------------------------------------------------------------
(* The sender's side.                                                      *)
Ends == {i \in 1..Len(Stream) : EndsUnit(Stream[i])}

LEMMA StreamFacts ==
  ASSUME WellPacketised, sender \in Senders
  PROVE  /\ Len(Stream) \in Nat
         /\ Len(Stream) > 0 => 1 \in Begins /\ Len(Stream) \in Ends
         /\ \A i \in 1..(Len(Stream) - 1) :
              /\ i \in Ends <=> i + 1 \in Begins
              /\ i + 1 \notin Begins => /\ Stream[i + 1].type = Stream[i].type
                                        /\ Stream[i + 1].frame = Stream[i].frame
         /\ \A i \in 1..Len(Stream) :
              /\ Stream[i].frame \in Nat
              /\ IF IsVideo(Stream[i]) THEN Stream[i].frame # 0 <=> Stream[i].type \in SliceTypes
                 ELSE Stream[i].frame = 0 /\ ~Stream[i].fua /\ Stream[i].type \notin {7, 8}
              /\ Stream[i].frame # 0 =>
                   (Stream[i].marker <=> i = Len(Stream) \/ Stream[i + 1].frame # Stream[i].frame)
         /\ \A i, j \in 1..Len(Stream) : i < j /\ Stream[j].frame # 0 =>
              /\ Stream[i].frame <= Stream[j].frame
              /\ Stream[i].frame = Stream[j].frame =>
                   \A m \in i..j : Stream[m].frame = Stream[i].frame
<1> DEFINE s == Stream
<1>1. WellFormed(s) /\ Len(s) \in Nat
  BY StreamAssumption DEF WellPacketised, Stream
<1> HIDE DEF s
<1>2. Len(s) > 0 => 1 \in 1..Len(s) /\ Len(s) \in 1..Len(s) /\ s # <<>>
  BY <1>1
<1>3. \A i \in 1..(Len(s) - 1) : i \in 1..Len(s) /\ i + 1 \in 1..Len(s)
  BY <1>1
<1>4. Begins = {i \in 1..Len(s) : BeginsUnit(s[i])} /\ Ends = {i \in 1..Len(s) : EndsUnit(s[i])}
  BY DEF Begins, Ends, s
<1>5. /\ Len(s) > 0 => 1 \in Begins /\ Len(s) \in Ends
      /\ \A i \in 1..(Len(s) - 1) :
           /\ i \in Ends <=> i + 1 \in Begins
           /\ i + 1 \notin Begins => s[i + 1].type = s[i].type /\ s[i + 1].frame = s[i].frame
  BY <1>1, <1>2, <1>3, <1>4 DEF WellFormed
<1> QED  BY <1>1, <1>5 DEF WellFormed, s

LEMMA FrameFacts ==
  ASSUME WellPacketised, sender \in Senders, NEW k \in Frames
  PROVE  /\ k \in Nat \ {0}
         /\ FirstOf[k] \in Begins /\ LastOf[k] \in Ends
         /\ FirstOf[k] <= LastOf[k]
         /\ PacketsOf[k] = FirstOf[k]..LastOf[k]
         /\ \A i \in FirstOf[k]..LastOf[k] :
              /\ i \in 1..Len(Stream)
              /\ Stream[i].frame = k
              /\ IsVideo(Stream[i]) /\ Stream[i].type \in SliceTypes
              /\ Stream[i].marker <=> i = LastOf[k]
<1> DEFINE N == Len(Stream)
           P == PacketsOf[k]
           a == FirstOf[k]
           z == LastOf[k]
<1>1. N \in Nat
  BY StreamFacts
<1>2. P = {i \in 1..N : Stream[i].frame = k} /\ P # {} /\ P \subseteq 1..N
  BY DEF PacketsOf, Frames
<1>3. k # 0 /\ k \in Nat
  BY <1>2, StreamFacts DEF Frames
<1>4. a = Min(P) /\ z = Max(P)
  BY DEF FirstOf, LastOf
<1> HIDE DEF P, a, z
<1>5. a \in P /\ z \in P /\ \A i \in P : a <= i /\ i <= z
  BY <1>1, <1>2, <1>4, FrameEnds
<1>6. a \in 1..N /\ z \in 1..N /\ a <= z /\ Stream[a].frame = k /\ Stream[z].frame = k
  BY <1>2, <1>5
<1>7. \A i \in a..z : i \in 1..N /\ Stream[i].frame = k
  <2>1. CASE a = z
    BY <1>6, <2>1
  <2>2. CASE a # z
    <3>1. \A m \in a..z : Stream[m].frame = k
      BY <1>1, <1>3, <1>6, <2>2, StreamFacts
    <3> QED  BY <1>1, <1>6, <3>1
  <2> QED  BY <2>1, <2>2
<1>8. P = a..z
  <2>1. \A i \in P : i \in a..z
    BY <1>1, <1>2, <1>5, <1>6
  <2>2. \A i \in a..z : i \in P
    BY <1>2, <1>7
  <2> QED  BY <2>1, <2>2
<1>9. a \in Begins
  <2>1. CASE a = 1
    BY <1>1, <1>6, <2>1, StreamFacts
  <2>2. CASE a # 1
    <3>1. a - 1 \in 1..(N - 1) /\ (a - 1) + 1 = a /\ a - 1 \notin P
      BY <1>1, <1>5, <1>6, <2>2
    <3>2. Stream[a - 1].frame # k
      BY <1>1, <1>2, <3>1
    <3> QED  BY <1>6, <3>1, <3>2, StreamFacts
  <2> QED  BY <2>1, <2>2
<1>10. z # N => z \in 1..(N - 1) /\ z + 1 \in 1..N /\ Stream[z + 1].frame # k
  <2>1. z + 1 \notin P
    BY <1>1, <1>5, <1>6
  <2> QED  BY <1>1, <1>2, <1>6, <2>1
<1>11. z \in Ends
  <2>1. CASE z = N
    BY <1>1, <1>6, <2>1, StreamFacts
  <2>2. CASE z # N
    BY <1>6, <1>10, <2>2, StreamFacts
  <2> QED  BY <2>1, <2>2
<1>12. ASSUME NEW i \in a..z
       PROVE  /\ IsVideo(Stream[i]) /\ Stream[i].type \in SliceTypes
              /\ Stream[i].marker <=> i = z
  <2>1. i \in 1..N /\ Stream[i].frame = k
    BY <1>7
  <2>2. IsVideo(Stream[i]) /\ Stream[i].type \in SliceTypes
    BY <1>3, <2>1, StreamFacts
  <2>3. Stream[i].marker <=> i = N \/ Stream[i + 1].frame # k
    BY <1>3, <2>1, StreamFacts
  <2>4. i # z => i + 1 \in a..z /\ i # N
    BY <1>1, <1>6
  <2> QED  BY <1>7, <1>10, <2>2, <2>3, <2>4
<1> QED  BY <1>3, <1>6, <1>7, <1>8, <1>9, <1>11, <1>12 DEF P, a, z

-------------------------------------------------------------------------------
(* What a packet that goes to H264 does, when the packets of its unit came *)
(* one after the other: the unit so far is in m_nal_data, and the whole    *)
(* unit goes to videoHandler with its last packet.                         *)
Held(b, n, u) ==
  /\ b \in Begins /\ b <= n
  /\ \A m \in (b + 1)..n : m \notin Begins
  /\ \A m \in b..n : Stream[m].type = Stream[b].type /\ Stream[m].frame = Stream[b].frame
  /\ Stream[n].fua => u = Together(b, n)

Tracked(n, u) == \E b : Held(b, n, u)

LEMMA AppendIs ==
  ASSUME NEW D, NEW l \in Nat, NEW q \in Seq(D), Len(q) = l, NEW x \in D,
         NEW r \in Seq(D), Len(r) = l + 1, \A m \in 1..l : r[m] = q[m], r[l + 1] = x
  PROVE  Append(q, x) = r
<1>1. /\ Append(q, x) \in Seq(D) /\ Len(Append(q, x)) = l + 1
      /\ \A m \in 1..l : Append(q, x)[m] = q[m]
      /\ Append(q, x)[l + 1] = x
  BY AppendProperties
<1>2. \A m \in 1..(l + 1) : Append(q, x)[m] = r[m]
  BY <1>1
<1> QED  BY <1>1, <1>2, SeqEqual

LEMMA TogetherGrows ==
  ASSUME WellPacketised, sender \in Senders, NEW b \in 1..Len(Stream), NEW n \in b..Len(Stream)
  PROVE  /\ Together(b, b) = [type |-> Stream[b].type, parts |-> <<Stream[b].data>>]
         /\ Together(b, n).parts # <<>>
         /\ n < Len(Stream) =>
              Append(Together(b, n).parts, Stream[n + 1].data) = Together(b, n + 1).parts
<1> DEFINE D == {Stream[i].data : i \in 1..Len(Stream)}
           S(l) == [m \in 1..(l - b + 1) |-> Stream[b + m - 1].data]
<1>0. Len(Stream) \in Nat
  BY StreamFacts
<1>1. ASSUME NEW l \in b..Len(Stream)
      PROVE  /\ S(l) \in Seq(D) /\ Len(S(l)) = l - b + 1
             /\ \A m \in 1..(l - b + 1) : S(l)[m] = Stream[b + m - 1].data
  <2>1. l - b + 1 \in Nat
    BY <1>0
  <2>2. \A m \in 1..(l - b + 1) : b + m - 1 \in 1..Len(Stream)
    BY <1>0
  <2>3. S(l) \in [1..(l - b + 1) -> D]
    BY <2>2
  <2>4. S(l) \in Seq(D)
    BY <2>1, <2>3, SeqDef
  <2>5. DOMAIN S(l) = 1..(l - b + 1) /\ DOMAIN S(l) = 1..Len(S(l)) /\ Len(S(l)) \in Nat
    BY <2>3, <2>4, LenProperties
  <2>6. Len(S(l)) = l - b + 1
    BY <2>1, <2>5
  <2> QED  BY <2>4, <2>6
<1>2. \A l : Together(b, l) = [type |-> Stream[b].type, parts |-> S(l)]
  BY DEF Together
<1> HIDE DEF S
<1>3. b \in b..Len(Stream) /\ b - b + 1 = 1 /\ b + 1 - 1 = b
  BY <1>0
<1>4. S(b) = <<Stream[b].data>>
  <2>2. <<Stream[b].data>> \in Seq(D)
    OBVIOUS
  <2> HIDE DEF D
  <2>5. /\ S(b) \in Seq(D) /\ Len(S(b)) = b - b + 1
        /\ \A m \in 1..(b - b + 1) : S(b)[m] = Stream[b + m - 1].data
    BY <1>1, <1>3
  <2>6. 1 \in 1..(b - b + 1)
    BY <1>3
  <2>1. Len(S(b)) = 1 /\ S(b)[1] = Stream[b].data /\ S(b) \in Seq(D)
    BY <1>3, <2>5, <2>6
  <2>3. Len(<<Stream[b].data>>) = 1 /\ <<Stream[b].data>>[1] = Stream[b].data
    OBVIOUS
  <2>4. \A i \in 1..Len(S(b)) : S(b)[i] = <<Stream[b].data>>[i]
    BY <2>1, <2>3
  <2> QED  BY <2>1, <2>2, <2>3, <2>4, SeqEqual
<1>5. S(n) # <<>>
  <2>1. Len(S(n)) = n - b + 1
    BY <1>1
  <2>3. n - b + 1 # 0
    BY <1>0
  <2>2. Len(<<>>) = 0
    OBVIOUS
  <2> QED  BY <2>1, <2>2, <2>3
<1>6. ASSUME n < Len(Stream) PROVE Append(S(n), Stream[n + 1].data) = S(n + 1)
  <2>1. n + 1 \in b..Len(Stream) /\ Stream[n + 1].data \in D
    BY <1>0, <1>6
  <2> HIDE DEF D
  <2>2. /\ S(n) \in Seq(D) /\ Len(S(n)) = n - b + 1
        /\ S(n + 1) \in Seq(D) /\ Len(S(n + 1)) = n + 1 - b + 1
        /\ \A m \in 1..(n - b + 1) : S(n)[m] = Stream[b + m - 1].data
        /\ \A m \in 1..(n + 1 - b + 1) : S(n + 1)[m] = Stream[b + m - 1].data
    <3>1. n \in b..Len(Stream) /\ n + 1 \in b..Len(Stream)
      BY <2>1
    <3> QED  BY <1>1, <3>1
  <2>3. n - b + 1 \in Nat /\ Len(S(n + 1)) = (n - b + 1) + 1
    BY <1>0, <2>2
  <2>4. \A m \in 1..(n - b + 1) : S(n + 1)[m] = S(n)[m]
    BY <1>0, <2>2
  <2>5. S(n + 1)[(n - b + 1) + 1] = Stream[n + 1].data
    <3>1. (n - b + 1) + 1 \in 1..(n + 1 - b + 1) /\ b + ((n - b + 1) + 1) - 1 = n + 1
      BY <1>0
    <3> QED  BY <2>2, <3>1
  <2> QED  BY <2>1, <2>2, <2>3, <2>4, <2>5, AppendIs
<1> QED  BY <1>2, <1>4, <1>5, <1>6

LEMMA UnitStep ==
  ASSUME WellPacketised, sender \in Senders, NEW n \in 1..Len(Stream), NEW w,
         H264(Stream[n], w), n \in Begins \/ (n > 1 /\ Tracked(n - 1, nal))
  PROVE  \E b : /\ Held(b, n, nal')
                /\ IF n \in Ends THEN VideoHandler(Together(b, n), Stream[n].marker, w)
                   ELSE file' = w /\ UNCHANGED <<spsPpsOk, sps, pps, videoData>>
<1> DEFINE p == Stream[n]
<1>0. Len(Stream) \in Nat /\ n \in n..Len(Stream)
  BY StreamFacts
<1>1. Together(n, n) = [type |-> p.type, parts |-> <<p.data>>]
  BY <1>0, TogetherGrows
<1>2. n \in Begins => Held(n, n, Together(n, n))
  BY <1>0 DEF Held
<1>3. CASE ~p.fua
  <2>1. n \in Begins /\ n \in Ends
    BY <1>3 DEF Begins, Ends, BeginsUnit, EndsUnit
  <2>2. VideoHandler(Together(n, n), p.marker, w)
    BY <1>1, <1>3 DEF H264
  <2>3. Held(n, n, nal')
    BY <1>2, <1>3, <2>1 DEF Held
  <2> QED  BY <2>1, <2>2, <2>3
<1>4. CASE p.fua
  <2>1. PICK u \in Reassembled(p) :
          /\ nal' = u
          /\ IF p.stop THEN VideoHandler(u, p.marker, w)
             ELSE file' = w /\ UNCHANGED <<isVideoBegin, spsPpsOk, sps, pps, videoData>>
    BY <1>4 DEF H264
  <2>2. n \in Ends <=> p.stop
    BY <1>4 DEF Ends, EndsUnit
  <2>3. n \in Begins <=> p.start
    BY <1>4 DEF Begins, BeginsUnit
  <2>4. ASSUME NEW b, u = Together(b, n), Held(b, n, Together(b, n))
        PROVE  \E c : /\ Held(c, n, nal')
                      /\ IF n \in Ends THEN VideoHandler(Together(c, n), p.marker, w)
                         ELSE file' = w /\ UNCHANGED <<spsPpsOk, sps, pps, videoData>>
    BY <2>1, <2>2, <2>4
  <2>5. CASE p.start
    <3>1. u = Together(n, n)
      BY <1>1, <2>1, <2>5 DEF Reassembled, BeginsAnew
    <3> QED  BY <1>2, <2>3, <2>4, <2>5, <3>1
  <2>6. CASE ~p.start
    <3>1. n > 1 /\ n - 1 \in 1..(Len(Stream) - 1) /\ (n - 1) + 1 = n
      BY <1>0, <2>3, <2>6
    <3>2. PICK b : Held(b, n - 1, nal)
      BY <2>3, <2>6, <3>1 DEF Tracked
    <3>3. /\ n - 1 \notin Ends
          /\ p.type = Stream[n - 1].type /\ p.frame = Stream[n - 1].frame
      BY <2>3, <2>6, <3>1, StreamFacts
    <3>4. nal = Together(b, n - 1)
      <4>1. Stream[n - 1].fua
        BY <1>0, <3>1, <3>3 DEF Ends, EndsUnit
      <4> QED  BY <3>2, <4>1 DEF Held
    <3>5. b \in 1..Len(Stream) /\ n - 1 \in b..Len(Stream) /\ n - 1 < Len(Stream)
      BY <1>0, <3>1, <3>2 DEF Held, Begins
    <3>6. /\ Together(b, n - 1).parts # <<>>
          /\ Append(Together(b, n - 1).parts, Stream[(n - 1) + 1].data) = Together(b, (n - 1) + 1).parts
      BY <3>5, TogetherGrows
    <3>7. /\ nal # NoNal /\ nal.type = Stream[b].type
          /\ Append(nal.parts, p.data) = Together(b, n).parts
      BY <3>1, <3>4, <3>6 DEF NoNal, Together
    <3>8. u = [type |-> nal.type, parts |-> Append(nal.parts, p.data)]
      BY <2>1, <2>6, <3>7 DEF Reassembled, BeginsAnew
    <3>9. u = Together(b, n)
      BY <3>7, <3>8 DEF Together
    <3>10. Held(b, n, Together(b, n))
      <4>1. b \in Begins /\ b <= n
        BY <3>2, <3>5 DEF Held
      <4>2. \A m \in (b + 1)..n : m \notin Begins
        <5>1. \A m \in (b + 1)..n : m \in (b + 1)..(n - 1) \/ m = n
          BY <1>0, <3>5
        <5> QED  BY <2>3, <2>6, <3>2, <5>1 DEF Held
      <4>3. \A m \in b..n : Stream[m].type = Stream[b].type /\ Stream[m].frame = Stream[b].frame
        <5>1. \A m \in b..n : m \in b..(n - 1) \/ m = n
          BY <1>0, <3>5
        <5>2. n - 1 \in b..(n - 1)
          BY <1>0, <3>5
        <5> QED  BY <3>2, <3>3, <5>1, <5>2 DEF Held
      <4> QED  BY <4>1, <4>2, <4>3 DEF Held
    <3> QED  BY <2>4, <3>9, <3>10
  <2> QED  BY <2>5, <2>6
<1> QED  BY <1>3, <1>4

-------------------------------------------------------------------------------
(* A frame, packet by packet, once RTPDump has its parameter sets: after   *)
(* packet n video_data lists the units that end at n or before.            *)
Done(k, n) == {b \in PacketsOf[k] \cap Begins : \E e \in b..n : e \in Ends}
SlicesOf(k) == [i \in 1..Len(Stream) |-> UnitAt(i, LastOf[k])]

LEMMA DoneStep ==
  ASSUME WellPacketised, sender \in Senders, NEW k \in Frames,
         NEW n \in FirstOf[k]..LastOf[k], NEW b, NEW u, Held(b, n, u)
  PROVE  /\ b \in FirstOf[k]..n
         /\ Done(k, n - 1) \subseteq Nat /\ IsFiniteSet(Done(k, n - 1))
         /\ \A x \in Done(k, n - 1) : x < b
         /\ n \notin Ends => Done(k, n) = Done(k, n - 1)
         /\ n \in Ends => /\ Done(k, n) = Done(k, n - 1) \cup {b}
                          /\ SlicesOf(k)[b] = Together(b, n)
<1> DEFINE N == Len(Stream)
           a == FirstOf[k]
           z == LastOf[k]
<1>0. N \in Nat /\ a \in 1..N /\ z \in 1..N /\ a <= z /\ n \in 1..N /\ PacketsOf[k] = a..z
  BY FrameFacts, StreamFacts DEF Begins, Ends
<1>1. /\ b \in Begins /\ b \in 1..n /\ b \in 1..N
      /\ \A m \in (b + 1)..n : m \notin Begins
      /\ Stream[n].frame = Stream[b].frame
  <2>1. b \in Begins /\ b \in 1..N /\ b <= n
    BY DEF Held, Begins
  <2>2. b \in 1..n /\ n \in b..n
    BY <1>0, <2>1
  <2> QED  BY <2>1, <2>2 DEF Held
<1>2. \A e \in 1..(N - 1) : e \in Ends <=> e + 1 \in Begins
  BY StreamFacts
<1> HIDE DEF N, a, z
<1>3. b \in a..n /\ b \in PacketsOf[k]
  <2>1. Stream[n].frame = k /\ n \in a..z
    BY FrameFacts DEF a, z
  <2>2. b \in PacketsOf[k]
    BY <1>1, <2>1 DEF PacketsOf, N
  <2> QED  BY <1>0, <1>1, <2>2
<1>4. \A e \in b..(n - 1) : e \notin Ends
  <2>1. ASSUME NEW e \in b..(n - 1) PROVE e \notin Ends
    <3>1. e \in 1..(N - 1) /\ e + 1 \in (b + 1)..n
      BY <1>0, <1>1
    <3> QED  BY <1>1, <1>2, <3>1
  <2> QED  BY <2>1
<1>5. ASSUME NEW x \in Done(k, n - 1) PROVE x \in Nat /\ x < b
  <2>1. PICK e \in x..(n - 1) : e \in Ends
    BY DEF Done
  <2>2. x \in Begins /\ x \in a..z
    BY <1>0 DEF Done
  <2>3. x \notin (b + 1)..n
    BY <1>1, <2>2
  <2>4. x # b
    BY <1>4, <2>1
  <2> QED  BY <1>0, <1>1, <2>1, <2>2, <2>3, <2>4
<1>6. IsFiniteSet(Done(k, n - 1))
  <2>1. Done(k, n - 1) \in SUBSET (a..z)
    BY <1>0 DEF Done
  <2>2. IsFiniteSet(a..z)
    BY <1>0, FS_Interval
  <2> QED  BY <2>1, <2>2, FS_Subset
<1>7. ASSUME NEW x, x \in Done(k, n - 1) PROVE x \in Done(k, n)
  <2>1. PICK e \in x..(n - 1) : e \in Ends
    BY <1>7 DEF Done
  <2>2. x \in PacketsOf[k] \cap Begins /\ x \in a..z
    BY <1>0, <1>7 DEF Done
  <2>3. e \in x..n
    BY <1>0, <2>1, <2>2
  <2> QED  BY <2>1, <2>2, <2>3 DEF Done
<1>8. ASSUME NEW x, x \in Done(k, n), x \notin Done(k, n - 1)
      PROVE  x = b /\ n \in Ends
  <2>1. PICK e \in x..n : e \in Ends
    BY <1>8 DEF Done
  <2>2. x \in PacketsOf[k] \cap Begins /\ x \in a..z
    BY <1>0, <1>8 DEF Done
  <2>3. \A d \in x..(n - 1) : d \notin Ends
    BY <1>8, <2>2 DEF Done
  <2>4. e = n
    BY <1>0, <2>1, <2>2, <2>3
  <2>5. x <= b
    BY <1>0, <1>1, <2>1, <2>2, <2>4
  <2>6. ~(x < b)
    <3>1. SUFFICES ASSUME x < b PROVE FALSE
      OBVIOUS
    <3>2. b - 1 \in 1..(N - 1) /\ (b - 1) + 1 = b /\ b - 1 \in x..(n - 1)
      BY <1>0, <1>1, <2>2, <3>1
    <3>3. b - 1 \in Ends
      BY <1>1, <1>2, <3>2
    <3> QED  BY <2>3, <3>2, <3>3
  <2> QED  BY <1>0, <1>1, <2>1, <2>2, <2>4, <2>5, <2>6
<1>9. ASSUME n \in Ends PROVE b \in Done(k, n)
  <2>1. n \in b..n
    BY <1>0, <1>1
  <2> QED  BY <1>1, <1>3, <1>9, <2>1 DEF Done
<1>10. ASSUME n \in Ends PROVE SlicesOf(k)[b] = Together(b, n)
  <2> DEFINE End(m) == /\ m = z \/ m + 1 \in Begins
                       /\ (b + 1)..m \cap Begins = {}
  <2>1. n \in b..z /\ z <= N
    BY <1>0, <1>1 DEF a, z
  <2>2. End(n)
    <3>1. n = z \/ n + 1 \in Begins
      BY <1>0, <1>2, <1>10, <2>1
    <3> QED  BY <1>1, <3>1
  <2>3. ASSUME NEW m \in b..z, End(m) PROVE m = n
    <3>1. ~(m < n)
      <4>1. SUFFICES ASSUME m < n PROVE FALSE
        OBVIOUS
      <4>2. m # z /\ m + 1 \in (b + 1)..n
        BY <1>0, <1>1, <2>1, <4>1
      <4> QED  BY <1>1, <2>3, <4>2
    <3>2. ~(n < m)
      <4>1. SUFFICES ASSUME n < m PROVE FALSE
        OBVIOUS
      <4>2. n # z /\ n + 1 \in (b + 1)..m
        BY <1>0, <1>1, <2>1, <4>1
      <4> QED  BY <2>2, <2>3, <4>2
    <3> QED  BY <1>0, <1>1, <3>1, <3>2
  <2>4. (CHOOSE m \in b..z : End(m)) = n
    BY <2>1, <2>2, <2>3
  <2>5. SlicesOf(k)[b] = UnitAt(b, z)
    BY <1>1 DEF SlicesOf, N, z
  <2> QED  BY <2>4, <2>5 DEF UnitAt
<1> QED  BY <1>3, <1>5, <1>6, <1>7, <1>8, <1>9, <1>10 DEF a

LEMMA DoneEnds ==
  ASSUME WellPacketised, sender \in Senders, NEW k \in Frames
  PROVE  /\ Done(k, FirstOf[k] - 1) = {}
         /\ Done(k, LastOf[k]) = PacketsOf[k] \cap Begins
<1>0. /\ PacketsOf[k] = FirstOf[k]..LastOf[k]
      /\ FirstOf[k] \in Int /\ LastOf[k] \in Int /\ LastOf[k] \in Ends
  BY FrameFacts, StreamFacts DEF Begins, Ends
<1>1. ASSUME NEW x \in PacketsOf[k]
      PROVE  /\ x..(FirstOf[k] - 1) = {}
             /\ LastOf[k] \in x..LastOf[k]
  BY <1>0
<1> QED  BY <1>0, <1>1 DEF Done

-------------------------------------------------------------------------------
(* What the theorems below ask of a sender, and what holds whenever a      *)
(* packet comes to a session that it was added for.                        *)
Orderly == WellPacketised /\ OneVideoType

Awake == sender \in Senders /\ ~deleted /\ FileInv /\ WriterInv

(* Once a parameter set was taken, every video packet goes to H264.        *)
LEMMA ReadyStep ==
  ASSUME Orderly, Awake, NEW n \in 1..Len(Stream), RtpHandler(Stream[n]),
         spsPpsOk # 0, IsVideo(Stream[n])
  PROVE  /\ Video(Stream[n]) /\ H264(Stream[n], file)
         /\ flv = "open" /\ Good(file, spsPpsOk)
<1> DEFINE p == Stream[n]
<1>1. flv = "open" /\ Good(file, spsPpsOk)
  BY DEF Awake, FileInv
<1>2. p.rtp /\ p.pt \in {96, 98}
  BY DEF IsVideo
<1>3. p.pt = 96 => cameraType = "RTSP_CAMERA"
  <2>1. SUFFICES ASSUME p.pt = 96 PROVE cameraType = "RTSP_CAMERA"
    OBVIOUS
  <2>2. ~Is98
    BY <2>1 DEF Is98, Orderly, OneVideoType, Awake, Stream
  <2> QED  BY <1>1, <2>2 DEF Awake, WriterInv
<1>4. ~ProgramStream(p)
  BY <1>2, <1>3 DEF ProgramStream, Detected
<1>5. ~Audio(p) /\ ~OpenFails(p) /\ ~Dropped(p)
  BY <1>1, <1>2 DEF Audio, OpenFails, Dropped
<1>6. Video(p)
  BY <1>4, <1>5 DEF RtpHandler
<1> QED  BY <1>1, <1>6 DEF Video

LEMMA SliceStep ==
  ASSUME NEW u, NEW marker, NEW w, VideoHandler(u, marker, w), u.type \in SliceTypes
  PROVE  UNCHANGED <<spsPpsOk, sps, pps>> /\ IF spsPpsOk = 2 THEN Slice(u, marker, w)
                                             ELSE file' = w /\ UNCHANGED videoData
<1>1. ~ParameterSet(u, w)
  BY DEF ParameterSet, IsParameterSet, SliceTypes
<1>2. CASE spsPpsOk = 2
  <2>1. ~OtherUnit(u, w)
    BY <1>2 DEF OtherUnit, HeaderDue
  <2> QED  BY <1>1, <1>2, <2>1 DEF VideoHandler, Slice
<1>3. CASE spsPpsOk # 2
  <2>1. ~Slice(u, marker, w)
    BY <1>3 DEF Slice, HeaderDue
  <2> QED  BY <1>1, <1>3, <2>1 DEF VideoHandler, OtherUnit
<1> QED  BY <1>2, <1>3

LEMMA FrameStep ==
  ASSUME Orderly, Awake, NEW k \in Frames, NEW n \in FirstOf[k]..LastOf[k],
         RtpHandler(Stream[n]), spsPpsOk = 2,
         n \in Begins \/ (n > 1 /\ Tracked(n - 1, nal)),
         IsSequence(videoData)
  PROVE  /\ spsPpsOk' = 2 /\ Tracked(n, nal')
         /\ n = LastOf[k] =>
              /\ videoData' = <<>>
              /\ \E x : /\ file' = Append(file, x) /\ x.tag = "frame"
                        /\ x.key <=> Stream[n].type = 5
                        /\ Lists(videoData, Done(k, n - 1), SlicesOf(k)) => IsFrame(x.slices, k)
         /\ n # LastOf[k] =>
              /\ file' = file
              /\ Lists(videoData, Done(k, n - 1), SlicesOf(k)) => Lists(videoData', Done(k, n), SlicesOf(k))
<1> DEFINE p == Stream[n]
<1>0. /\ n \in 1..Len(Stream) /\ IsVideo(p) /\ p.type \in SliceTypes
      /\ p.marker <=> n = LastOf[k]
  BY FrameFacts DEF Orderly, Awake
<1>1. H264(p, file) /\ IsSequence(file)
  BY <1>0, ReadyStep DEF Good
<1>2. PICK b :
        /\ Held(b, n, nal')
        /\ IF n \in Ends THEN VideoHandler(Together(b, n), p.marker, file)
           ELSE file' = file /\ UNCHANGED <<spsPpsOk, sps, pps, videoData>>
  BY <1>0, <1>1, UnitStep DEF Orderly, Awake
<1>3. Tracked(n, nal')
  BY <1>2 DEF Tracked
<1>4. /\ b \in FirstOf[k]..n
      /\ Done(k, n - 1) \subseteq Nat /\ IsFiniteSet(Done(k, n - 1))
      /\ \A x \in Done(k, n - 1) : x < b
      /\ n \notin Ends => Done(k, n) = Done(k, n - 1)
      /\ n \in Ends => /\ Done(k, n) = Done(k, n - 1) \cup {b}
                       /\ SlicesOf(k)[b] = Together(b, n)
  BY <1>2, DoneStep DEF Orderly, Awake
<1>5. CASE n \notin Ends
  <2>1. n # LastOf[k]
    BY <1>5, FrameFacts DEF Orderly, Awake
  <2> QED  BY <1>2, <1>3, <1>4, <1>5, <2>1
<1>6. CASE n \in Ends
  <2> DEFINE u == Together(b, n)
             frame == Append(videoData, u)
             x == FrameTag(u, frame)
  <2>1. u.type = p.type
    <3>1. b \in 1..n /\ n \in b..n
      BY <1>0, <1>4, FrameFacts DEF Orderly, Awake, Begins
    <3> QED  BY <1>2, <3>1 DEF Held, Together
  <2>2. VideoHandler(u, p.marker, file)
    BY <1>2, <1>6
  <2>3. spsPpsOk' = 2 /\ Slice(u, p.marker, file)
    BY <1>0, <2>1, <2>2, SliceStep
  <2>4. /\ videoData' = IF p.marker THEN <<>> ELSE frame
        /\ file' = IF p.marker THEN Append(file, x) ELSE file
    BY <2>3 DEF Slice, Rest
  <2>5. x.tag = "frame" /\ x.slices = frame /\ (x.key <=> u.type = 5)
    BY DEF FrameTag
  <2>6. ASSUME Lists(videoData, Done(k, n - 1), SlicesOf(k))
        PROVE  Lists(frame, Done(k, n), SlicesOf(k))
    <3>1. b \in Nat
      BY <1>0, <1>4, FrameFacts DEF Orderly, Awake, Begins
    <3>2. Lists(Append(videoData, SlicesOf(k)[b]), Done(k, n - 1) \cup {b}, SlicesOf(k))
      BY <1>4, <2>6, <3>1, ListsAppend
    <3> QED  BY <1>4, <1>6, <3>2
  <2> HIDE DEF u, frame, x
  <2>7. ASSUME n = LastOf[k], Lists(frame, Done(k, n), SlicesOf(k))
        PROVE  IsFrame(frame, k)
    BY <2>7, DoneEnds DEF IsFrame, SlicesOf, Orderly, Awake
  <2>8. CASE n = LastOf[k]
    BY <1>0, <1>3, <2>1, <2>3, <2>4, <2>5, <2>6, <2>7, <2>8
  <2>9. CASE n # LastOf[k]
    BY <1>0, <1>3, <2>3, <2>4, <2>6, <2>9
  <2> QED  BY <2>8, <2>9
<1> QED  BY <1>5, <1>6

-------------------------------------------------------------------------------
(* The sender's side does not change.                                      *)
LEMMA SenderSame ==
  ASSUME UNCHANGED sender
  PROVE  /\ Stream' = Stream /\ Begins' = Begins /\ Ends' = Ends /\ Frames' = Frames
         /\ PacketsOf' = PacketsOf /\ FirstOf' = FirstOf /\ LastOf' = LastOf
         /\ \A i, n : Together(i, n)' = Together(i, n)
         /\ \A b, n, u : Held(b, n, u)' = Held(b, n, u)
         /\ \A n, u : Tracked(n, u)' = Tracked(n, u)
         /\ \A k, n : Done(k, n)' = Done(k, n)
         /\ \A k : SlicesOf(k)' = SlicesOf(k)
         /\ \A q, k : IsFrame(q, k)' = IsFrame(q, k)
<1>1. Stream' = Stream
  BY DEF Stream
<1>2. Begins' = Begins /\ Ends' = Ends /\ Frames' = Frames
  BY <1>1 DEF Begins, Ends, Frames
<1>3. PacketsOf' = PacketsOf
  BY <1>1, <1>2 DEF PacketsOf
<1>4. FirstOf' = FirstOf /\ LastOf' = LastOf
  BY <1>2, <1>3 DEF FirstOf, LastOf
<1>5. \A i, n : Together(i, n)' = Together(i, n)
  BY <1>1 DEF Together
<1>6. \A b, n, u : Held(b, n, u)' = Held(b, n, u)
  BY <1>1, <1>2, <1>5 DEF Held
<1>7. \A n, u : Tracked(n, u)' = Tracked(n, u)
  BY <1>6 DEF Tracked
<1>8. \A k, n : Done(k, n)' = Done(k, n)
  BY <1>2, <1>3 DEF Done
<1>9. \A i, l : UnitAt(i, l)' = UnitAt(i, l)
  BY <1>2, <1>5 DEF UnitAt
<1>10. \A k : SlicesOf(k)' = SlicesOf(k)
  BY <1>1, <1>4, <1>9 DEF SlicesOf
<1>11. \A q, k : IsFrame(q, k)' = IsFrame(q, k)
  BY <1>1, <1>2, <1>3, <1>4, <1>9 DEF IsFrame
<1> QED  BY <1>1, <1>2, <1>3, <1>4, <1>5, <1>6, <1>7, <1>8, <1>10, <1>11

-------------------------------------------------------------------------------
(* Nothing is ever taken out of a file, or of the parameter sets.          *)
Extends(q, r) ==
  /\ IsSequence(q) /\ IsSequence(r)
  /\ Len(q) <= Len(r) /\ Len(q) \in Nat /\ Len(r) \in Nat
  /\ \A i \in 1..Len(q) : r[i] = q[i]

LEMMA ExtendsSelf == ASSUME NEW q, IsSequence(q) PROVE Extends(q, q)
BY LenProperties DEF Extends, IsSequence

LEMMA ExtendsAppend == ASSUME NEW q, IsSequence(q), NEW x PROVE Extends(q, Append(q, x))
BY AppendAny DEF Extends

LEMMA ExtendsNothing == ASSUME NEW r, IsSequence(r) PROVE Extends(<<>>, r)
<1>1. IsSequence(<<>>)
  <2>1. <<>> \in Seq({})
    OBVIOUS
  <2> QED  BY <2>1 DEF IsSequence
<1>2. Len(r) \in Nat /\ Len(<<>>) = 0
  BY LenProperties DEF IsSequence
<1> QED  BY <1>1, <1>2 DEF Extends

LEMMA HandlerStep ==
  ASSUME FileInv, ~deleted, IsSequence(videoData), NEW p, RtpHandler(p)
  PROVE  /\ IsSequence(videoData')
         /\ spsPpsOk = 2 => spsPpsOk' = 2
         /\ Extends(file, file')
<1>0. flv # "closed" /\ IsSequence(file) /\ (flv # "open" => file = <<>>)
  <2>1. IsSequence(<<>>)
    BY ExtendsNothing, ExtendsSelf, GoodHeader DEF Good, Extends
  <2> QED  BY <2>1 DEF FileInv, Good
<1>1. CASE file' = file /\ UNCHANGED <<spsPpsOk, videoData>>
  BY <1>0, <1>1, ExtendsSelf
<1>2. CASE Audio(p)
  BY <1>0, <1>2, ExtendsAppend DEF Audio
<1>3. CASE Video(p)
  <2> DEFINE w == IF flv = "open" THEN file ELSE <<[tag |-> "header"]>>
  <2>1. H264(p, w)
    BY <1>3 DEF Video
  <2>2. IsSequence(w)
    BY <1>0, GoodHeader DEF Good
  <2> HIDE DEF w
  <2>3. ASSUME Extends(w, file') PROVE Extends(file, file')
    <3>1. CASE flv = "open"
      BY <2>3, <3>1 DEF w
    <3>2. CASE flv # "open"
      BY <1>0, <2>3, <3>2, ExtendsNothing DEF Extends
    <3> QED  BY <3>1, <3>2
  <2>4. ASSUME NEW u, NEW marker, VideoHandler(u, marker, w)
        PROVE  /\ IsSequence(videoData')
               /\ spsPpsOk = 2 => spsPpsOk' = 2
               /\ Extends(w, file')
    <3>1. CASE ParameterSet(u, w)
      BY <2>2, <3>1, ExtendsSelf, ExtendsAppend DEF ParameterSet, HeaderDue
    <3>2. CASE Slice(u, marker, w)
      <4>1. IsSequence(Append(videoData, u))
        BY AppendAny
      <4>2. IsSequence(<<>>)
        BY <2>2, ExtendsNothing DEF Extends
      <4>3. videoData' \in {<<>>, Append(videoData, u)} /\ spsPpsOk' = spsPpsOk
            /\ (file' = w \/ \E x : file' = Append(w, x))
        BY <3>2 DEF Slice, Rest
      <4> QED  BY <2>2, <4>1, <4>2, <4>3, ExtendsSelf, ExtendsAppend
    <3>3. CASE OtherUnit(u, w)
      BY <2>2, <3>3, ExtendsSelf DEF OtherUnit
    <3> QED  BY <2>4, <3>1, <3>2, <3>3 DEF VideoHandler
  <2>5. CASE file' = w /\ UNCHANGED <<spsPpsOk, videoData>>
    BY <2>2, <2>3, <2>5, ExtendsSelf
  <2> QED  BY <2>1, <2>3, <2>4, <2>5 DEF H264
<1>4. CASE ProgramStream(p) \/ OpenFails(p) \/ Dropped(p)
  BY <1>1, <1>4 DEF ProgramStream, OpenFails, Dropped, dumpVars
<1> QED  BY <1>2, <1>3, <1>4 DEF RtpHandler

-------------------------------------------------------------------------------
(* The inductive invariant for frames that come in one piece.  Frame k is  *)
(* under way since got[j] when RTPDump had its parameter sets there and    *)
(* nothing of the frame was missing since.                                 *)
Cur == got[Len(got)].pos

Underway(k, j) ==
  /\ j \in 1..Len(got)
  /\ got[j].pos = FirstOf[k] /\ got[j].params
  /\ \A m \in j..Len(got) : got[m].pos = got[j].pos + m - j
  /\ Cur <= LastOf[k]

GotInv ==
  /\ got \in Seq([pos : 1..Len(Stream), params : BOOLEAN, empty : BOOLEAN])
  /\ IsSequence(videoData)
  /\ \A j \in 1..Len(got) : got[j].params => spsPpsOk = 2

UnderwayInv ==
  \A k \in Frames, j \in 1..Len(got) : Underway(k, j) =>
    /\ spsPpsOk = 2 /\ Tracked(Cur, nal)
    /\ Cur = LastOf[k] => videoData = <<>>
    /\ got[j].empty /\ Cur # LastOf[k] => Lists(videoData, Done(k, Cur), SlicesOf(k))

ResyncInv == GotInv /\ UnderwayInv /\ Resynchronises /\ MarkerFlushes

(* One more packet.                                                        *)
Next1 == Len(got) + 1

LEMMA GotStep ==
  ASSUME Orderly, Awake, GotInv, NEW n \in 1..Len(Stream), Deliver(n)
  PROVE  /\ Len(got) \in Nat /\ Len(got') = Next1
         /\ \A i \in 1..Len(got) : got'[i] = got[i] /\ got'[i].pos \in Nat
         /\ got'[Next1].pos = n /\ (got'[Next1].params <=> spsPpsOk = 2)
         /\ got'[Next1].empty <=> videoData = <<>>
         /\ Cur' = n
         /\ GotInv' /\ UNCHANGED sender /\ Extends(file, file')
<1> DEFINE G == [pos : 1..Len(Stream), params : BOOLEAN, empty : BOOLEAN]
           g == [pos |-> n, params |-> spsPpsOk = 2, empty |-> videoData = <<>>]
<1>0. got \in Seq(G) /\ IsSequence(videoData)
  BY DEF GotInv
<1>1. g \in G /\ got' = Append(got, g) /\ UNCHANGED sender /\ RtpHandler(Stream[n])
  BY DEF Deliver
<1>2. Stream' = Stream /\ Len(Stream) \in Nat
  BY <1>1, SenderSame, StreamFacts DEF Orderly, Awake
<1>3. g.pos = n /\ g.params = (spsPpsOk = 2) /\ g.empty = (videoData = <<>>) /\ \A x \in G : x.pos \in Nat
  BY <1>2
<1> HIDE DEF g, G
<1>4. /\ Len(got) \in Nat /\ got' \in Seq(G) /\ Len(got') = Next1
      /\ \A i \in 1..Len(got) : got'[i] = got[i] /\ got[i] \in G
      /\ got'[Next1] = g
  BY <1>0, <1>1, LenProperties, ElementOfSeq, AppendProperties DEF Next1
<1>5. /\ IsSequence(videoData')
      /\ spsPpsOk = 2 => spsPpsOk' = 2
      /\ Extends(file, file')
  BY <1>0, <1>1, HandlerStep DEF Awake
<1>6. \A j \in 1..Next1 : got'[j].params => spsPpsOk' = 2
  <2>1. ASSUME NEW j \in 1..Next1, got'[j].params PROVE spsPpsOk' = 2
    <3>1. CASE j = Next1
      BY <1>3, <1>4, <1>5, <2>1, <3>1
    <3>2. CASE j # Next1
      <4>1. j \in 1..Len(got)
        BY <1>4, <3>2 DEF Next1
      <4> QED  BY <1>4, <1>5, <2>1, <4>1 DEF GotInv
    <3> QED  BY <3>1, <3>2
  <2> QED  BY <2>1
<1>7. GotInv'
  BY <1>2, <1>4, <1>5, <1>6 DEF GotInv, G
<1> QED  BY <1>1, <1>3, <1>4, <1>5, <1>7 DEF Cur, g

LEMMA UnderwayStep ==
  ASSUME Orderly, Awake, GotInv, UnderwayInv, NEW n \in 1..Len(Stream), Deliver(n),
         NEW k \in Frames, NEW j, Underway(k, j)'
  PROVE  /\ n \in FirstOf[k]..LastOf[k] /\ spsPpsOk = 2
         /\ n \in Begins \/ (n > 1 /\ Tracked(n - 1, nal))
         /\ got'[j].empty => Lists(videoData, Done(k, n - 1), SlicesOf(k))
<1>1. /\ Len(got) \in Nat /\ Len(got') = Next1
      /\ \A i \in 1..Len(got) : got'[i] = got[i] /\ got'[i].pos \in Nat
      /\ got'[Next1].pos = n /\ (got'[Next1].params <=> spsPpsOk = 2)
      /\ got'[Next1].empty <=> videoData = <<>>
      /\ Cur' = n /\ UNCHANGED sender
  BY GotStep
<1>2. /\ FirstOf[k] \in 1..Len(Stream) /\ LastOf[k] \in 1..Len(Stream)
      /\ FirstOf[k] <= LastOf[k] /\ FirstOf[k] \in Begins /\ Len(Stream) \in Nat
  BY FrameFacts, StreamFacts DEF Orderly, Awake, Begins, Ends
<1>3. FirstOf' = FirstOf /\ LastOf' = LastOf
  BY <1>1, SenderSame
<1>4. /\ j \in 1..Next1
      /\ got'[j].pos = FirstOf[k] /\ got'[j].params
      /\ \A m \in j..Next1 : got'[m].pos = got'[j].pos + m - j
      /\ n <= LastOf[k]
  BY <1>1, <1>3 DEF Underway
<1>5. CASE j = Next1
  <2>1. n = FirstOf[k] /\ spsPpsOk = 2 /\ (got'[j].empty => videoData = <<>>)
    BY <1>1, <1>4, <1>5
  <2>2. Done(k, n - 1) = {}
    BY <2>1, DoneEnds DEF Orderly, Awake
  <2>3. got'[j].empty => Lists(videoData, Done(k, n - 1), SlicesOf(k))
    BY <2>1, <2>2, ListsNothing
  <2> QED  BY <1>2, <2>1, <2>3
<1>6. CASE j # Next1
  <2>1. j \in 1..Len(got) /\ Len(got) \in j..Next1 /\ Next1 \in j..Next1
    BY <1>1, <1>4, <1>6 DEF Next1
  <2>2. Cur = FirstOf[k] + Len(got) - j /\ n = FirstOf[k] + Next1 - j
    <3>1. got'[Len(got)].pos = got'[j].pos + Len(got) - j
      BY <1>4, <2>1
    <3>2. got'[Next1].pos = got'[j].pos + Next1 - j
      BY <1>4, <2>1
    <3>3. got'[Len(got)] = got[Len(got)]
      <4>1. Len(got) \in 1..Len(got)
        BY <1>1, <2>1
      <4> QED  BY <1>1, <4>1
    <3> QED  BY <1>1, <1>4, <3>1, <3>2, <3>3 DEF Cur
  <2>3. Cur = n - 1 /\ n > FirstOf[k]
    <3>1. FirstOf[k] \in Int /\ Len(got) \in Nat /\ j \in Int /\ j < Next1
      BY <1>1, <1>2, <2>1 DEF Next1
    <3> QED  BY <2>2, <3>1 DEF Next1
  <2>4. Underway(k, j)
    <3>1. \A m \in j..Len(got) : m \in j..Next1 /\ m \in 1..Len(got)
      BY <1>1, <2>1 DEF Next1
    <3>2. got[j].pos = FirstOf[k] /\ got[j].params
      BY <1>1, <1>4, <2>1
    <3>3. \A m \in j..Len(got) : got[m].pos = got[j].pos + m - j
      BY <1>1, <1>4, <2>1, <3>1
    <3>4. Cur <= LastOf[k]
      BY <1>2, <1>4, <2>3, <1>1
    <3> QED  BY <2>1, <3>2, <3>3, <3>4 DEF Underway
  <2>5. Cur # LastOf[k]
    BY <1>2, <1>4, <2>3
  <2>6. /\ spsPpsOk = 2 /\ Tracked(Cur, nal)
        /\ got[j].empty => Lists(videoData, Done(k, Cur), SlicesOf(k))
    BY <2>1, <2>4, <2>5 DEF UnderwayInv
  <2> QED  BY <1>1, <1>2, <1>4, <2>1, <2>3, <2>6
<1> QED  BY <1>5, <1>6

(* A frame that is whole after a packet was whole before, or is under way  *)
(* and ends with that packet.                                              *)
LEMMA WholeStep ==
  ASSUME Orderly, Awake, GotInv, NEW n \in 1..Len(Stream), Deliver(n),
         NEW k \in Frames, NEW j \in 1..Next1, WholeAt(k, j)'
  PROVE  /\ j + LastOf[k] - FirstOf[k] <= Len(got) =>
              WholeAt(k, j) /\ j \in 1..Len(got) /\ got'[j] = got[j]
         /\ got'[j].params /\ ~(j + LastOf[k] - FirstOf[k] <= Len(got)) =>
              Underway(k, j)' /\ n = LastOf[k]
<1>1. /\ Len(got) \in Nat /\ Len(got') = Next1
      /\ \A i \in 1..Len(got) : got'[i] = got[i] /\ got'[i].pos \in Nat
      /\ got'[Next1].pos = n
      /\ Cur' = n /\ UNCHANGED sender
  BY GotStep
<1>2. FirstOf' = FirstOf /\ LastOf' = LastOf
  BY <1>1, SenderSame
<1>3. FirstOf[k] \in Nat /\ LastOf[k] \in Nat /\ FirstOf[k] <= LastOf[k]
  BY FrameFacts, StreamFacts DEF Orderly, Awake, Begins, Ends
<1>4. /\ got'[j].pos = FirstOf[k]
      /\ j + LastOf[k] - FirstOf[k] <= Next1
      /\ \A m \in 0..(LastOf[k] - FirstOf[k]) : got'[j + m].pos = FirstOf[k] + m
  BY <1>1, <1>2 DEF WholeAt
<1>5. ASSUME got'[j].params, ~(j + LastOf[k] - FirstOf[k] <= Len(got))
      PROVE  Underway(k, j)' /\ n = LastOf[k]
  <2>0. j + LastOf[k] - FirstOf[k] = Next1
    <3>1. /\ Len(got) \in Nat /\ j \in 1..(Len(got) + 1) /\ FirstOf[k] \in Nat /\ LastOf[k] \in Nat
          /\ j + LastOf[k] - FirstOf[k] <= Len(got) + 1
      BY <1>1, <1>3, <1>4 DEF Next1
    <3> QED  BY <1>5, <3>1 DEF Next1
  <2>1. ASSUME NEW m \in j..Next1 PROVE got'[m].pos = FirstOf[k] + m - j
    <3>1. m - j \in 0..(LastOf[k] - FirstOf[k]) /\ j + (m - j) = m
          /\ FirstOf[k] + (m - j) = FirstOf[k] + m - j
      BY <1>1, <1>3, <2>0
    <3> QED  BY <1>4, <3>1
  <2>2. Next1 \in j..Next1 /\ FirstOf[k] + Next1 - j = LastOf[k]
    BY <1>1, <1>3, <2>0 DEF Next1
  <2>3. n = LastOf[k]
    BY <1>1, <2>1, <2>2
  <2>4. got'[j].pos = FirstOf[k]
    BY <1>4
  <2>5. \A m \in j..Next1 : got'[m].pos = got'[j].pos + m - j
    BY <2>1, <2>4
  <2>6. n <= LastOf[k]
    BY <1>3, <2>3
  <2> QED  BY <1>1, <1>2, <1>5, <2>3, <2>4, <2>5, <2>6 DEF Underway
<1>6. ASSUME j + LastOf[k] - FirstOf[k] <= Len(got)
      PROVE  WholeAt(k, j) /\ j \in 1..Len(got) /\ got'[j] = got[j]
  <2>1. \A m \in 0..(LastOf[k] - FirstOf[k]) : j + m \in 1..Len(got)
    BY <1>1, <1>3, <1>6 DEF Next1
  <2>2. 0 \in 0..(LastOf[k] - FirstOf[k]) /\ j + 0 = j
    BY <1>3, <1>1
  <2>3. j \in 1..Len(got)
    BY <2>1, <2>2
  <2>4. \A m \in 0..(LastOf[k] - FirstOf[k]) : got[j + m].pos = FirstOf[k] + m
    BY <1>1, <1>4, <1>6, <2>1
  <2> QED  BY <1>1, <1>4, <1>6, <2>3, <2>4 DEF WholeAt
<1> QED  BY <1>5, <1>6

LEMMA ResyncStep ==
  ASSUME Orderly, Awake, ResyncInv, NEW n \in 1..Len(Stream), Deliver(n)
  PROVE  ResyncInv'
<1>0. GotInv /\ UnderwayInv /\ Resynchronises /\ MarkerFlushes
  BY DEF ResyncInv
<1>1. /\ Len(got) \in Nat /\ Len(got') = Next1
      /\ \A i \in 1..Len(got) : got'[i] = got[i] /\ got'[i].pos \in Nat
      /\ got'[Next1].pos = n /\ (got'[Next1].params <=> spsPpsOk = 2)
      /\ got'[Next1].empty <=> videoData = <<>>
      /\ Cur' = n /\ GotInv' /\ UNCHANGED sender /\ Extends(file, file')
  BY <1>0, GotStep
<1>2. /\ FirstOf' = FirstOf /\ LastOf' = LastOf /\ Frames' = Frames
      /\ \A m, u : Tracked(m, u)' = Tracked(m, u)
      /\ \A k, m : Done(k, m)' = Done(k, m)
      /\ \A k : SlicesOf(k)' = SlicesOf(k)
      /\ \A q, k : IsFrame(q, k)' = IsFrame(q, k)
  BY <1>1, SenderSame
<1>3. \A k \in Frames : FirstOf[k] \in Nat /\ LastOf[k] \in Nat /\ FirstOf[k] <= LastOf[k]
  BY FrameFacts, StreamFacts DEF Orderly, Awake, Begins, Ends
<1>4. RtpHandler(Stream[n]) /\ IsSequence(videoData)
  BY <1>0 DEF Deliver, GotInv
<1>5. ASSUME NEW k \in Frames, NEW j, Underway(k, j)'
      PROVE  /\ spsPpsOk' = 2 /\ Tracked(n, nal')
             /\ n = LastOf[k] =>
                  /\ videoData' = <<>>
                  /\ got'[j].empty => \E x : /\ file' = Append(file, x) /\ x.tag = "frame"
                                             /\ IsFrame(x.slices, k)
             /\ n # LastOf[k] /\ got'[j].empty => Lists(videoData', Done(k, n), SlicesOf(k))
  <2>1. /\ n \in FirstOf[k]..LastOf[k] /\ spsPpsOk = 2
        /\ n \in Begins \/ (n > 1 /\ Tracked(n - 1, nal))
        /\ got'[j].empty => Lists(videoData, Done(k, n - 1), SlicesOf(k))
    BY <1>0, <1>5, UnderwayStep
  <2> QED  BY <1>4, <2>1, FrameStep
<1>6. UnderwayInv'
  <2>1. ASSUME NEW k \in Frames, NEW j, Underway(k, j)'
        PROVE  /\ spsPpsOk' = 2 /\ Tracked(Cur', nal')
               /\ Cur' = LastOf[k] => videoData' = <<>>
               /\ got'[j].empty /\ Cur' # LastOf[k] => Lists(videoData', Done(k, Cur'), SlicesOf(k))
    BY <1>1, <1>5, <2>1
  <2> QED  BY <1>2, <2>1 DEF UnderwayInv, Lists
<1>7. Resynchronises'
  <2>1. ASSUME NEW k \in Frames, NEW j \in 1..Next1,
               WholeAt(k, j)', got'[j].params, got'[j].empty
        PROVE  \E i \in Positions("frame")' : IsFrame(file'[i].slices, k)
    <3>1. CASE j + LastOf[k] - FirstOf[k] <= Len(got)
      <4>1. PICK i \in Positions("frame") : IsFrame(file[i].slices, k)
        BY <1>0, <2>1, <3>1, WholeStep DEF Resynchronises
      <4>2. i \in 1..Len(file) /\ file[i].tag = "frame"
        BY DEF Positions
      <4>3. i \in 1..Len(file') /\ file'[i] = file[i]
        BY <1>1, <4>2 DEF Extends
      <4> QED  BY <4>1, <4>2, <4>3 DEF Positions
    <3>2. CASE ~(j + LastOf[k] - FirstOf[k] <= Len(got))
      <4>1. Underway(k, j)' /\ n = LastOf[k]
        BY <1>0, <2>1, <3>2, WholeStep
      <4>2. PICK x : file' = Append(file, x) /\ x.tag = "frame" /\ IsFrame(x.slices, k)
        BY <1>5, <2>1, <4>1
      <4>3. Len(file) + 1 \in 1..Len(file') /\ file'[Len(file) + 1] = x
        BY <1>1, <4>2, AppendAny DEF Extends
      <4> QED  BY <4>2, <4>3 DEF Positions
    <3> QED  BY <3>1, <3>2
  <2> QED  BY <1>1, <1>2, <2>1 DEF Resynchronises
<1>8. MarkerFlushes'
  <2>1. ASSUME NEW k \in Frames, NEW j \in 1..Next1, WholeAt(k, j)', got'[j].params,
               j + LastOf[k] - FirstOf[k] + 1 <= Next1
        PROVE  got'[j + LastOf[k] - FirstOf[k] + 1].empty
    <3> DEFINE after == j + LastOf[k] - FirstOf[k] + 1
    <3>1. WholeAt(k, j) /\ j \in 1..Len(got) /\ got'[j] = got[j] /\ after \in 1..Next1
      <4>1. j + LastOf[k] - FirstOf[k] <= Len(got) /\ after \in 1..Next1
        BY <1>1, <1>3, <2>1 DEF Next1
      <4> QED  BY <1>0, <2>1, <4>1, WholeStep
    <3>2. CASE after <= Len(got)
      <4>1. got[after].empty
        BY <1>0, <2>1, <3>1, <3>2 DEF MarkerFlushes
      <4>2. after \in 1..Len(got)
        BY <1>1, <3>1, <3>2
      <4> QED  BY <1>1, <4>1, <4>2
    <3>3. CASE ~(after <= Len(got))
      <4>1. after = Next1 /\ j + LastOf[k] - FirstOf[k] = Len(got)
        <5>1. /\ FirstOf[k] \in Nat /\ LastOf[k] \in Nat /\ Len(got) \in Nat /\ j \in 1..Len(got)
              /\ j + LastOf[k] - FirstOf[k] + 1 <= Next1
              /\ ~(j + LastOf[k] - FirstOf[k] + 1 <= Len(got))
          BY <1>1, <1>3, <2>1, <3>1, <3>3
        <5> QED  BY <5>1 DEF Next1
      <4>2. ASSUME NEW m \in j..Len(got) PROVE got[m].pos = FirstOf[k] + m - j
        <5>1. m - j \in 0..(LastOf[k] - FirstOf[k]) /\ j + (m - j) = m
              /\ FirstOf[k] + (m - j) = FirstOf[k] + m - j
          BY <1>1, <1>3, <3>1, <4>1
        <5> QED  BY <3>1, <5>1 DEF WholeAt
      <4>3. Len(got) \in j..Len(got) /\ FirstOf[k] + Len(got) - j = LastOf[k]
        <5>1. FirstOf[k] \in Nat /\ LastOf[k] \in Nat /\ Len(got) \in Nat /\ j \in 1..Len(got)
          BY <1>1, <1>3, <3>1
        <5> QED  BY <4>1, <5>1
      <4>4. Cur = LastOf[k] /\ got[j].pos = FirstOf[k]
        BY <3>1, <4>2, <4>3 DEF Cur, WholeAt
      <4>5. Underway(k, j)
        BY <1>3, <2>1, <3>1, <4>2, <4>4 DEF Underway
      <4>6. videoData = <<>>
        BY <1>0, <3>1, <4>4, <4>5 DEF UnderwayInv
      <4> QED  BY <1>1, <4>1, <4>6
    <3> QED  BY <3>2, <3>3
  <2> QED  BY <1>1, <1>2, <2>1 DEF MarkerFlushes
<1> QED  BY <1>1, <1>6, <1>7, <1>8 DEF ResyncInv

LEMMA InitResync == Init => ResyncInv
<1> SUFFICES ASSUME Init PROVE ResyncInv
  OBVIOUS
<1>1. got = <<>> /\ videoData = <<>> /\ Len(got) = 0
  BY DEF Init, DumpInit
<1>2. IsSequence(videoData) /\ got \in Seq([pos : 1..Len(Stream), params : BOOLEAN, empty : BOOLEAN])
  BY <1>1 DEF IsSequence
<1>3. \A j \in 1..Len(got) : FALSE
  BY <1>1
<1> QED  BY <1>2, <1>3 DEF ResyncInv, GotInv, UnderwayInv, Resynchronises, MarkerFlushes

(* An audio tag moves none of the others.                                  *)
LEMMA FileKept ==
  ASSUME FileInv, AudioAtMost, NEW tag, tag # "audio"
  PROVE  /\ Positions(tag)' = Positions(tag)
         /\ \A i \in Positions(tag) : file'[i] = file[i]
<1>1. CASE file' = file
  BY <1>1 DEF Positions
<1>2. CASE \E x : file' = Append(file, x) /\ x.tag = "audio"
  <2>1. PICK x : file' = Append(file, x) /\ x.tag = "audio"
    BY <1>2
  <2>2. IsSequence(file)
    BY GoodHeader, ExtendsNothing DEF FileInv, Good, Extends
  <2>3. /\ Len(file) \in Nat /\ Len(file') = Len(file) + 1
        /\ \A i \in 1..Len(file) : file'[i] = file[i]
        /\ file'[Len(file) + 1] = x
    BY <2>1, <2>2, AppendAny
  <2>4. \A i \in 1..Len(file') : i \in 1..Len(file) \/ i = Len(file) + 1
    BY <2>3
  <2>5. \A i \in 1..Len(file) : i \in 1..Len(file')
    BY <2>3
  <2> QED  BY <2>1, <2>3, <2>4, <2>5 DEF Positions
<1> QED  BY <1>1, <1>2 DEF AudioAtMost

LEMMA NextResync ==
  ASSUME Orderly, FileInv, WriterInv, Travelling, ResyncInv, [Next]_vars
  PROVE  ResyncInv'
<1>1. CASE \E n \in 1..Len(Stream) : Deliver(n)
  <2>1. PICK n \in 1..Len(Stream) : Deliver(n)
    BY <1>1
  <2>2. Awake
    BY <2>1 DEF Awake, Deliver, Travelling
  <2> QED  BY <2>1, <2>2, ResyncStep
<1>2. CASE /\ UNCHANGED <<sender, got, spsPpsOk, sps, pps, videoData, nal, cameraType>>
            /\ UNCHANGED <<psOutfile, psFile>>
           /\ AudioAtMost
  <2>1. /\ Stream' = Stream /\ Frames' = Frames /\ FirstOf' = FirstOf /\ LastOf' = LastOf
        /\ \A m, u : Tracked(m, u)' = Tracked(m, u)
        /\ \A k, m : Done(k, m)' = Done(k, m)
        /\ \A k : SlicesOf(k)' = SlicesOf(k)
        /\ \A q, k : IsFrame(q, k)' = IsFrame(q, k)
    BY <1>2, SenderSame
  <2>2. GotInv'
    BY <1>2, <2>1 DEF ResyncInv, GotInv
  <2>3. Cur' = Cur /\ \A k, j : Underway(k, j)' = Underway(k, j)
    BY <1>2, <2>1 DEF Cur, Underway
  <2>4. UnderwayInv'
    BY <1>2, <2>1, <2>3 DEF ResyncInv, UnderwayInv, Lists
  <2>5. /\ \A k, j : WholeAt(k, j)' = WholeAt(k, j)
        /\ Positions("frame")' = Positions("frame")
        /\ \A i \in Positions("frame") : file'[i] = file[i]
    BY <1>2, <2>1, FileKept DEF WholeAt
  <2>6. Resynchronises' /\ MarkerFlushes'
    BY <1>2, <2>1, <2>5 DEF ResyncInv, Resynchronises, MarkerFlushes
  <2> QED  BY <2>2, <2>4, <2>6 DEF ResyncInv
<1> QED  BY <1>1, <1>2, Deliveries DEF Orderly

LEMMA Resync == ASSUME Orderly PROVE Spec => []ResyncInv
<1> DEFINE Inv == FileInv /\ WriterInv /\ Travelling /\ ResyncInv
<1>1. Init => Inv
  BY StreamAssumption, InitFileInv, InitResync DEF Init, DumpInit, WriterInv, Travelling, Stream
<1>2. Inv /\ [Next]_vars => Inv'
  BY NextFileInv, NextWriter, NextResync DEF Orderly
<1> QED  BY <1>1, <1>2, PTL DEF Spec

(* Whatever was lost or late before, a frame that comes in one piece when  *)
(* no rest of an older frame is in video_data is in the file, whole and    *)
(* alone: for any units, fragments and slices, and any losses.             *)
THEOREM FramesRecovered == ASSUME Orderly PROVE Spec => []Resynchronises
BY Resync, PTL DEF ResyncInv

(* After a frame that comes in one piece, even when it was put together    *)
(* with a rest of an older one, nothing is left in video_data.             *)
THEOREM MarkersFlush == ASSUME Orderly PROVE Spec => []MarkerFlushes
BY Resync, PTL DEF ResyncInv

-------------------------------------------------------------------------------
(* Without loss.  A packet that comes after the one before it, or begins a *)
(* unit, does one of two things: it passes videoHandler by, or its unit    *)
(* goes there with its last packet.                                        *)
Follows(n) == n \in Begins \/ (n > 1 /\ Tracked(n - 1, nal))

(* What may be in the file when videoHandler begins to write.              *)
Begun(w) == w = file \/ (file = <<>> /\ w = <<[tag |-> "header"]>>)

Passed(p) ==
  /\ UNCHANGED <<spsPpsOk, sps, pps, videoData>>
  /\ file' = file \/ \E x : file' = Append(file, x) /\ x.tag = "audio"

Taken(n, b, w) ==
  /\ Held(b, n, nal') /\ Begun(w)
  /\ IF n \in Ends THEN VideoHandler(Together(b, n), Stream[n].marker, w)
     ELSE file' = w /\ UNCHANGED <<spsPpsOk, sps, pps, videoData>>

LEMMA PacketStep ==
  ASSUME Orderly, Awake, NEW n \in 1..Len(Stream), RtpHandler(Stream[n]),
         ~(IsH264(Stream[n]) /\ flv' = "NULL"),
         cameraType # "PS_CAMERA" => Follows(n)
  PROVE  /\ cameraType' # "PS_CAMERA" => Tracked(n, nal')
         /\ \/ Passed(Stream[n]) /\ (IsVideo(Stream[n]) => spsPpsOk = 0)
            \/ IsVideo(Stream[n]) /\ \E b, w : Taken(n, b, w)
<1> DEFINE p == Stream[n]
<1>1. CASE ~IsVideo(p)
  <2>1. ~p.fua
    BY <1>1, StreamFacts DEF Orderly, Awake
  <2>2. n \in Begins
    BY <2>1 DEF Begins, BeginsUnit
  <2>3. Held(n, n, nal')
    BY <2>1, <2>2, StreamFacts DEF Held, Orderly, Awake
  <2>4. Tracked(n, nal')
    BY <2>3 DEF Tracked
  <2>5. Passed(p)
    BY <1>1, OtherStep DEF Passed
  <2> QED  BY <1>1, <2>4, <2>5
<1>2. CASE IsVideo(p)
  <2>0. p.rtp /\ p.pt \in {96, 98}
    BY <1>2 DEF IsVideo
  <2>1. ~Audio(p) /\ ~Dropped(p)
    BY <2>0 DEF Audio, Dropped
  <2>2. ~OpenFails(p)
    BY DEF OpenFails
  <2>3. CASE ProgramStream(p)
    <3>1. cameraType' = "PS_CAMERA" /\ cameraType # "RTSP_CAMERA" /\ p.pt = 96
      BY <2>3 DEF ProgramStream, Detected
    <3>2. flv = "NULL"
      <4>1. ~Is98
        BY <3>1 DEF Is98, Orderly, OneVideoType, Awake, Stream
      <4> QED  BY <3>1, <4>1 DEF Awake, WriterInv
    <3>3. spsPpsOk = 0
      BY <3>2 DEF Awake, FileInv
    <3>4. Passed(p)
      BY <2>3 DEF ProgramStream, Passed
    <3> QED  BY <3>1, <3>3, <3>4
  <2>4. CASE Video(p)
    <3> DEFINE w == IF flv = "open" THEN file ELSE <<[tag |-> "header"]>>
    <3>1. H264(p, w) /\ IsH264(p)
      BY <2>4 DEF Video
    <3>2. Begun(w)
      BY DEF Begun, Awake, FileInv
    <3> HIDE DEF w
    <3>3. cameraType # "PS_CAMERA"
      <4>1. CASE p.pt = 98
        <5>1. Is98
          BY <4>1 DEF Is98
        <5> QED  BY <5>1 DEF Awake, WriterInv
      <4>2. CASE p.pt # 98
        BY <3>1, <4>2 DEF IsH264, Detected
      <4> QED  BY <4>1, <4>2
    <3>4. PICK b : /\ Held(b, n, nal')
                   /\ IF n \in Ends THEN VideoHandler(Together(b, n), p.marker, w)
                      ELSE file' = w /\ UNCHANGED <<spsPpsOk, sps, pps, videoData>>
      BY <3>1, <3>3, UnitStep DEF Follows, Orderly, Awake
    <3>5. Taken(n, b, w)
      BY <3>2, <3>4 DEF Taken
    <3> QED  BY <1>2, <3>4, <3>5 DEF Tracked
  <2> QED  BY <2>1, <2>2, <2>3, <2>4 DEF RtpHandler
<1> QED  BY <1>1, <1>2

(* The unit that goes to videoHandler has the type of its last packet.     *)
LEMMA TakenType ==
  ASSUME WellPacketised, sender \in Senders, NEW n \in 1..Len(Stream), NEW b, NEW w, Taken(n, b, w)
  PROVE  /\ b \in Begins /\ b \in 1..n
         /\ Together(b, n).type = Stream[n].type
         /\ Together(b, n).parts # <<>>
<1>1. b \in Begins /\ b \in 1..n /\ n \in b..n /\ n \in b..Len(Stream) /\ b \in 1..Len(Stream)
  BY StreamFacts DEF Taken, Held, Begins
<1>2. Stream[n].type = Stream[b].type
  BY <1>1 DEF Taken, Held
<1> QED  BY <1>1, <1>2, TogetherGrows DEF Together

(* Before the parameter sets are complete, and between the frames, no      *)
(* frame grows or is written.                                              *)
LEMMA AppendOther ==
  ASSUME NEW w, Begun(w), IsSequence(w), IsSequence(file), NEW r,
         r = w \/ (\E x : r = Append(w, x) /\ x.tag # "frame")
  PROVE  {i \in 1..Len(r) : r[i].tag = "frame"} = Positions("frame")
<1>1. {i \in 1..Len(w) : w[i].tag = "frame"} = Positions("frame")
  <2>1. CASE w = file
    BY <2>1 DEF Positions
  <2>2. CASE w # file
    <3>1. Len(w) = 1 /\ w[1].tag = "header" /\ Len(file) = 0
      BY <2>2 DEF Begun
    <3>2. Positions("frame") = {}
      BY <3>1 DEF Positions
    <3> QED  BY <3>1, <3>2
  <2> QED  BY <2>1, <2>2
<1>2. CASE r = w
  BY <1>1, <1>2
<1>3. CASE \E x : r = Append(w, x) /\ x.tag # "frame"
  <2>1. PICK x : r = Append(w, x) /\ x.tag # "frame"
    BY <1>3
  <2>2. /\ Len(w) \in Nat /\ Len(r) = Len(w) + 1 /\ r[Len(w) + 1] = x
        /\ \A i \in 1..Len(w) : r[i] = w[i]
    BY <2>1, AppendAny
  <2>3. \A i \in 1..Len(r) : i \in 1..Len(w) \/ i = Len(w) + 1
    BY <2>2
  <2>4. \A i \in 1..Len(w) : i \in 1..Len(r)
    BY <2>2
  <2> QED  BY <1>1, <2>1, <2>2, <2>3, <2>4
<1> QED  BY <1>2, <1>3

LEMMA BetweenFrames ==
  ASSUME Orderly, Awake, NEW n \in 1..Len(Stream), RtpHandler(Stream[n]),
         ~(IsH264(Stream[n]) /\ flv' = "NULL"),
         cameraType # "PS_CAMERA" => Follows(n),
         ~(spsPpsOk = 2 /\ Stream[n].frame # 0)
  PROVE  /\ videoData' = videoData /\ Positions("frame")' = Positions("frame")
         /\ ~(spsPpsOk' = 2 /\ Stream[n].frame # 0)
<1> DEFINE p == Stream[n]
<1>0. IsSequence(file)
  <2>1. IsSequence(<<>>)
    BY ExtendsNothing, GoodHeader DEF Good, Extends
  <2> QED  BY <2>1 DEF Awake, FileInv, Good
<1>1. ASSUME NEW w, Begun(w) PROVE IsSequence(w)
  BY <1>0, <1>1, GoodHeader DEF Begun, Good
<1>2. CASE Passed(p)
  <2>1. Begun(file)
    BY DEF Begun
  <2>2. file' = file \/ \E x : file' = Append(file, x) /\ x.tag # "frame"
    BY <1>2 DEF Passed
  <2>3. Positions("frame")' = Positions("frame")
    BY <1>0, <2>1, <2>2, AppendOther DEF Positions
  <2> QED  BY <1>2, <2>3 DEF Passed
<1>3. CASE IsVideo(p) /\ \E b, w : Taken(n, b, w)
  <2>1. PICK b, w : Taken(n, b, w)
    BY <1>3
  <2> DEFINE u == Together(b, n)
  <2>2. u.type = p.type /\ (p.frame # 0 <=> p.type \in SliceTypes)
    BY <1>3, <2>1, TakenType, StreamFacts DEF Orderly, Awake
  <2>3. IsSequence(w) /\ Begun(w)
    BY <1>1, <2>1 DEF Taken
  <2> HIDE DEF u
  <2>4. \/ file' = w /\ UNCHANGED <<spsPpsOk, sps, pps, videoData>>
        \/ ParameterSet(u, w) \/ Slice(u, p.marker, w) \/ OtherUnit(u, w)
    BY <2>1 DEF Taken, VideoHandler, u
  <2>5. ~Slice(u, p.marker, w)
    BY <2>2 DEF Slice, HeaderDue
  <2>6. /\ videoData' = videoData
        /\ file' = w \/ \E x : file' = Append(w, x) /\ x.tag # "frame"
        /\ ~(spsPpsOk' = 2 /\ p.frame # 0)
    <3>1. CASE file' = w /\ UNCHANGED <<spsPpsOk, sps, pps, videoData>>
      BY <3>1
    <3>2. CASE ParameterSet(u, w)
      <4>1. u.type \notin SliceTypes
        BY <3>2 DEF ParameterSet, IsParameterSet, SliceTypes
      <4> DEFINE x == [tag |-> "params", sps |-> sps', pps |-> pps']
      <4>2. x.tag # "frame"
        OBVIOUS
      <4>3. file' = w \/ file' = Append(w, x)
        BY <3>2 DEF ParameterSet
      <4> HIDE DEF x
      <4> QED  BY <2>2, <3>2, <4>1, <4>2, <4>3 DEF ParameterSet
    <3>3. CASE OtherUnit(u, w)
      BY <3>3 DEF OtherUnit
    <3> QED  BY <2>4, <2>5, <3>1, <3>2, <3>3
  <2>7. Positions("frame")' = Positions("frame")
    BY <1>0, <2>3, <2>6, AppendOther DEF Positions
  <2> QED  BY <2>6, <2>7
<1> QED  BY <1>2, <1>3, PacketStep

-------------------------------------------------------------------------------
(* The inductive invariant for a session that lost nothing.  When the last *)
(* packet lies within a frame, and the parameter sets are complete, that   *)
(* frame is under way since its beginning and was alone in video_data;     *)
(* otherwise video_data is empty.                                          *)
Within(k) == got # <<>> /\ spsPpsOk = 2 /\ Cur \in FirstOf[k]..(LastOf[k] - 1)

OrderInv ==
  unbroken =>
    /\ late = 0
    /\ got = <<>> => next \in Begins /\ spsPpsOk = 0
    /\ got # <<>> => next = Cur + 1 /\ (cameraType # "PS_CAMERA" => Tracked(Cur, nal))
    /\ \A m \in 1..Len(got) : got[m].pos < next
    /\ \A k \in Frames : Within(k) => \E j : Underway(k, j) /\ got[j].empty
    /\ videoData # <<>> => \E k \in Frames : Within(k)

LEMMA FrameOf ==
  ASSUME WellPacketised, sender \in Senders, NEW n \in 1..Len(Stream)
  PROVE  /\ Stream[n].frame # 0 => Stream[n].frame \in Frames
         /\ \A k \in Frames : n \in FirstOf[k]..LastOf[k] <=> Stream[n].frame = k
<1>1. Stream[n].frame # 0 => Stream[n].frame \in Frames
  BY DEF Frames
<1>2. \A k \in Frames : n \in PacketsOf[k] <=> Stream[n].frame = k
  BY DEF PacketsOf
<1>3. \A k \in Frames : PacketsOf[k] = FirstOf[k]..LastOf[k]
  BY FrameFacts
<1> QED  BY <1>1, <1>2, <1>3

LEMMA FrameTypes ==
  ASSUME WellPacketised, sender \in Senders, NEW k \in Frames
  PROVE  FirstOf[k] \in Nat /\ LastOf[k] \in Nat /\ FirstOf[k] <= LastOf[k]
BY FrameFacts, StreamFacts DEF Begins, Ends

(* What InOrder finds.                                                     *)
LEMMA OrderFinds ==
  ASSUME Orderly, Awake, GotInv, UnderwayInv, OrderInv, unbroken, NEW n \in 1..Len(Stream), n = next
  PROVE  /\ cameraType # "PS_CAMERA" => Follows(n)
         /\ videoData # <<>> => /\ spsPpsOk = 2 /\ Stream[n].frame # 0
                                /\ n # FirstOf[Stream[n].frame]
         /\ spsPpsOk = 2 /\ Stream[n].frame # 0 /\ n # FirstOf[Stream[n].frame] =>
              \E j : Underway(Stream[n].frame, j) /\ got[j].empty
<1>0. Len(Stream) \in Nat /\ Begins \subseteq 1..Len(Stream)
  BY StreamFacts DEF Begins, Orderly, Awake
<1>1. got # <<>> => Len(got) \in 1..Len(got) /\ Cur \in 1..Len(Stream) /\ n = Cur + 1
  <2>1. SUFFICES ASSUME got # <<>> PROVE Len(got) \in 1..Len(got) /\ Cur \in 1..Len(Stream) /\ n = Cur + 1
    OBVIOUS
  <2>2. Len(got) \in Nat \ {0} /\ \A m \in 1..Len(got) : got[m] \in [pos : 1..Len(Stream), params : BOOLEAN, empty : BOOLEAN]
    BY <2>1, LenProperties, ElementOfSeq, EmptySeq DEF GotInv
  <2>3. Len(got) \in 1..Len(got)
    BY <2>2
  <2> QED  BY <2>1, <2>2, <2>3 DEF OrderInv, Cur
<1>2. cameraType # "PS_CAMERA" => Follows(n)
  <2>1. CASE got = <<>>
    BY <2>1 DEF OrderInv, Follows
  <2>2. CASE got # <<>>
    <3>1. n > 1 /\ n - 1 = Cur
      BY <1>0, <1>1, <2>2
    <3> QED  BY <2>2, <3>1 DEF OrderInv, Follows
  <2> QED  BY <2>1, <2>2
<1>3. ASSUME NEW k \in Frames, Within(k)
      PROVE  Stream[n].frame = k /\ n # FirstOf[k] /\ k # 0
  <2>1. FirstOf[k] \in Nat /\ LastOf[k] \in Nat /\ got # <<>> /\ Cur \in FirstOf[k]..(LastOf[k] - 1)
    BY <1>3, FrameTypes DEF Within, Orderly, Awake
  <2>2. n \in FirstOf[k]..LastOf[k] /\ n # FirstOf[k]
    BY <1>1, <2>1
  <2> QED  BY <2>2, FrameOf, FrameFacts DEF Orderly, Awake
<1>4. ASSUME videoData # <<>>
      PROVE  spsPpsOk = 2 /\ Stream[n].frame # 0 /\ n # FirstOf[Stream[n].frame]
  <2>1. PICK k \in Frames : Within(k)
    BY <1>4 DEF OrderInv
  <2> QED  BY <1>3, <2>1 DEF Within
<1>5. ASSUME spsPpsOk = 2, Stream[n].frame # 0, n # FirstOf[Stream[n].frame]
      PROVE  \E j : Underway(Stream[n].frame, j) /\ got[j].empty
  <2>0. PICK k \in Frames : k = Stream[n].frame
    BY <1>5, FrameOf DEF Orderly, Awake
  <2>1. n \in FirstOf[k]..LastOf[k]
    BY <2>0, FrameOf DEF Orderly, Awake
  <2>2. FirstOf[k] \in Nat /\ LastOf[k] \in Nat
    BY FrameTypes DEF Orderly, Awake
  <2>3. got # <<>>
    BY <1>5 DEF OrderInv
  <2>4. Cur \in FirstOf[k]..(LastOf[k] - 1)
    BY <1>1, <1>5, <2>0, <2>1, <2>2, <2>3
  <2>5. Within(k)
    BY <1>5, <2>3, <2>4 DEF Within
  <2> QED  BY <2>0, <2>5 DEF OrderInv
<1> QED  BY <1>2, <1>4, <1>5

(* A packet of a frame, in order and with the parameter sets complete.     *)
LEMMA WithinStep ==
  ASSUME Orderly, Awake, ResyncInv, OrderInv, unbroken, NEW n \in 1..Len(Stream), n = next,
         Deliver(n), spsPpsOk = 2, NEW k \in Frames, k = Stream[n].frame, k # 0
  PROVE  \E j : Underway(k, j)' /\ got'[j].empty
<1>0. GotInv /\ UnderwayInv
  BY DEF ResyncInv
<1>1. /\ Len(got) \in Nat /\ Len(got') = Next1
      /\ \A i \in 1..Len(got) : got'[i] = got[i] /\ got'[i].pos \in Nat
      /\ got'[Next1].pos = n /\ (got'[Next1].params <=> spsPpsOk = 2)
      /\ got'[Next1].empty <=> videoData = <<>>
      /\ Cur' = n /\ UNCHANGED sender
  BY <1>0, GotStep
<1>2. FirstOf' = FirstOf /\ LastOf' = LastOf
  BY <1>1, SenderSame
<1>3. n \in FirstOf[k]..LastOf[k]
  BY FrameOf DEF Orderly, Awake
<1>4. FirstOf[k] \in Nat /\ LastOf[k] \in Nat
  BY FrameTypes DEF Orderly, Awake
<1>5. CASE n = FirstOf[k]
  <2>1. videoData = <<>>
    BY <1>0, <1>5, OrderFinds
  <2>2. PICK j : j = Next1 /\ j \in Nat \ {0}
    BY <1>1 DEF Next1
  <2>3. \A m \in j..j : m = j /\ got'[m].pos = got'[j].pos + m - j
    <3>1. j \in Nat /\ got'[j].pos \in Nat
      BY <1>1, <1>5, <2>2
    <3>2. \A m \in j..j : m = j
      BY <3>1
    <3>3. got'[j].pos = got'[j].pos + j - j
      BY <3>1
    <3> QED  BY <3>2, <3>3
  <2>4. j \in 1..j /\ got'[j].params /\ n <= LastOf[k]
    BY <1>1, <1>3, <1>4, <2>2
  <2>5. Underway(k, j)'
    BY <1>1, <1>2, <1>5, <2>2, <2>3, <2>4 DEF Underway
  <2> QED  BY <1>1, <2>1, <2>2, <2>5
<1>6. CASE n # FirstOf[k]
  <2>1. PICK j : Underway(k, j) /\ got[j].empty
    BY <1>0, <1>6, OrderFinds
  <2>2. j \in 1..Len(got) /\ got # <<>> /\ n = Cur + 1
    <3>1. j \in 1..Len(got)
      BY <2>1 DEF Underway
    <3>2. got # <<>>
      BY <1>1, <3>1
    <3> QED  BY <3>1, <3>2 DEF OrderInv
  <2>3. /\ got[j].pos = FirstOf[k] /\ got[j].params
        /\ \A m \in j..Len(got) : got[m].pos = got[j].pos + m - j
    BY <2>1 DEF Underway
  <2>4. Cur = got[j].pos + Len(got) - j
    <3>1. Len(got) \in j..Len(got)
      BY <1>1, <2>2
    <3> QED  BY <2>3, <3>1 DEF Cur
  <2>5. n = got[j].pos + Next1 - j
    <3>1. got[j].pos \in Nat /\ Len(got) \in Nat /\ j \in Nat
      <4>1. got[j].pos \in Nat
        BY <1>4, <2>3
      <4>2. Len(got) \in Nat /\ j \in 1..Len(got)
        BY <1>1, <2>2
      <4> QED  BY <4>1, <4>2
    <3> QED  BY <2>2, <2>4, <3>1 DEF Next1
  <2>6. ASSUME NEW m \in j..Next1 PROVE got'[m].pos = got'[j].pos + m - j
    <3>1. CASE m = Next1
      BY <1>1, <2>2, <2>5, <3>1
    <3>2. CASE m # Next1
      <4>1. m \in j..Len(got) /\ m \in 1..Len(got)
        <5>1. Len(got) \in Nat /\ j \in 1..Len(got) /\ m \in j..(Len(got) + 1) /\ m # Len(got) + 1
          BY <1>1, <2>2, <3>2 DEF Next1
        <5> QED  BY <5>1
      <4> QED  BY <1>1, <2>2, <2>3, <4>1
    <3> QED  BY <3>1, <3>2
  <2>7. j \in 1..Next1 /\ got'[j] = got[j]
    BY <1>1, <2>2 DEF Next1
  <2>8. Underway(k, j)'
    <3>1. got'[j].pos = FirstOf[k] /\ got'[j].params /\ n <= LastOf[k]
      BY <1>3, <1>4, <2>3, <2>7
    <3> QED  BY <1>1, <1>2, <2>6, <2>7, <3>1 DEF Underway
  <2> QED  BY <2>1, <2>7, <2>8
<1> QED  BY <1>5, <1>6

LEMMA OrderStep ==
  ASSUME Orderly, Awake, Travelling, ResyncInv, OrderInv, InOrder, NEW n \in 1..Len(Stream), n = next
  PROVE  OrderInv'
<1> SUFFICES ASSUME unbroken' PROVE OrderInv'
  BY DEF OrderInv
<1>0. GotInv /\ UnderwayInv /\ ResyncInv' /\ Deliver(n)
  BY ResyncStep DEF ResyncInv, InOrder
<1>1. /\ Len(got) \in Nat /\ Len(got') = Next1
      /\ \A i \in 1..Len(got) : got'[i] = got[i] /\ got'[i].pos \in Nat
      /\ got'[Next1].pos = n
      /\ Cur' = n /\ UNCHANGED sender
  BY <1>0, GotStep
<1>2. /\ FirstOf' = FirstOf /\ LastOf' = LastOf /\ Frames' = Frames
      /\ \A m, u : Tracked(m, u)' = Tracked(m, u)
  BY <1>1, SenderSame
<1>3. unbroken /\ ~(IsH264(Stream[n]) /\ flv' = "NULL") /\ RtpHandler(Stream[n])
  BY <1>0 DEF Deliver
<1>4. late' = 0 /\ next' = n + 1
  BY <1>3 DEF InOrder, OrderInv
<1>5. got' # <<>>
  <2>1. Next1 # 0
    BY <1>1 DEF Next1
  <2> QED  BY <1>1, <2>1
<1>6. cameraType # "PS_CAMERA" => Follows(n)
  BY <1>0, <1>3, OrderFinds
<1>7. cameraType' # "PS_CAMERA" => Tracked(n, nal')
  BY <1>3, <1>6, PacketStep
<1>8. ASSUME NEW m \in 1..Len(got') PROVE got'[m].pos < next'
  <2>1. CASE m = Next1
    BY <1>1, <1>4, <2>1
  <2>2. CASE m # Next1
    <3>1. m \in 1..Len(got)
      BY <1>1, <2>2 DEF Next1
    <3>2. got[m].pos < n
      BY <1>3, <3>1 DEF OrderInv
    <3> QED  BY <1>1, <1>4, <3>1, <3>2
  <2> QED  BY <2>1, <2>2
<1>9. ASSUME NEW k \in Frames, Within(k)'
      PROVE  \E j : Underway(k, j)' /\ got'[j].empty
  <2>1. n \in FirstOf[k]..LastOf[k] /\ spsPpsOk' = 2
    <3>1. FirstOf[k] \in Nat /\ LastOf[k] \in Nat
      BY FrameFacts DEF Orderly, Awake, Begins, Ends
    <3>2. n \in FirstOf[k]..(LastOf[k] - 1) /\ spsPpsOk' = 2
      BY <1>1, <1>2, <1>9 DEF Within
    <3> QED  BY <3>1, <3>2
  <2>2. Stream[n].frame = k /\ k # 0
    BY <2>1, FrameOf, FrameFacts DEF Orderly, Awake
  <2>3. spsPpsOk = 2
    BY <1>3, <1>6, <2>1, <2>2, BetweenFrames
  <2> QED  BY <1>0, <1>3, <2>2, <2>3, WithinStep
<1>10. ASSUME videoData' # <<>> PROVE \E k \in Frames : Within(k)'
  <2>1. CASE spsPpsOk = 2 /\ Stream[n].frame # 0
    <3>0. PICK k \in Frames : k = Stream[n].frame
      BY <2>1, FrameOf DEF Orderly, Awake
    <3>1. PICK j : Underway(k, j)' /\ got'[j].empty
      BY <1>0, <1>3, <2>1, <3>0, WithinStep
    <3>2. n \in FirstOf[k]..LastOf[k]
      BY <3>0, FrameOf DEF Orderly, Awake
    <3>3. j \in 1..Len(got')
      BY <3>1 DEF Underway
    <3>4. spsPpsOk' = 2 /\ n # LastOf[k]
      BY <1>0, <1>1, <1>2, <1>10, <3>1, <3>2, <3>3 DEF ResyncInv, UnderwayInv
    <3>5. n \in FirstOf[k]..(LastOf[k] - 1)
      <4>1. FirstOf[k] \in Nat /\ LastOf[k] \in Nat
        BY FrameTypes DEF Orderly, Awake
      <4> QED  BY <3>2, <3>4, <4>1
    <3>6. Within(k)'
      BY <1>1, <1>2, <1>5, <3>4, <3>5 DEF Within
    <3> QED  BY <3>6
  <2>2. CASE ~(spsPpsOk = 2 /\ Stream[n].frame # 0)
    <3>1. videoData = <<>>
      BY <1>0, <1>3, <2>2, OrderFinds
    <3>2. videoData' = videoData
      BY <1>3, <1>6, <2>2, BetweenFrames
    <3> QED  BY <1>10, <3>1, <3>2
  <2> QED  BY <2>1, <2>2
<1> QED  BY <1>1, <1>2, <1>4, <1>5, <1>7, <1>8, <1>9, <1>10 DEF OrderInv

-------------------------------------------------------------------------------
(* Without loss the frame tags and the frames that are due grow together.  *)
Due == {k \in Frames : \E j \in 1..Len(got) : WholeAt(k, j) /\ got[j].params}

(* Packet n is the last one of frame k, and the frame is to be written.    *)
Completes(n, k) == spsPpsOk = 2 /\ Stream[n].frame = k /\ n = LastOf[k]

LEMMA DueStep ==
  ASSUME Orderly, Awake, ResyncInv, OrderInv, unbroken, NEW n \in 1..Len(Stream), n = next,
         Deliver(n), NEW k \in Frames
  PROVE  k \in Due' <=> k \in Due \/ Completes(n, k)
<1>0. GotInv /\ UnderwayInv
  BY DEF ResyncInv
<1>1. /\ Len(got) \in Nat /\ Len(got') = Next1
      /\ \A i \in 1..Len(got) : got'[i] = got[i] /\ got'[i].pos \in Nat
      /\ got'[Next1].pos = n
      /\ Cur' = n /\ UNCHANGED sender
  BY <1>0, GotStep
<1>2. FirstOf' = FirstOf /\ LastOf' = LastOf /\ Frames' = Frames
  BY <1>1, SenderSame
<1>3. FirstOf[k] \in Nat /\ LastOf[k] \in Nat /\ FirstOf[k] <= LastOf[k]
  BY FrameTypes DEF Orderly, Awake
<1>4. ASSUME k \in Due PROVE k \in Due'
  <2>1. PICK j \in 1..Len(got) : WholeAt(k, j) /\ got[j].params
    BY <1>4 DEF Due
  <2>2. \A m \in 0..(LastOf[k] - FirstOf[k]) : j + m \in 1..Len(got)
    BY <1>1, <1>3, <2>1 DEF WholeAt
  <2>3. /\ j \in 1..Next1 /\ got'[j] = got[j]
        /\ j + LastOf[k] - FirstOf[k] <= Next1
    BY <1>1, <1>3, <2>1 DEF WholeAt, Next1
  <2>4. \A m \in 0..(LastOf[k] - FirstOf[k]) : got'[j + m].pos = FirstOf[k] + m
    BY <1>1, <2>1, <2>2 DEF WholeAt
  <2>5. WholeAt(k, j)'
    BY <1>1, <1>2, <2>1, <2>3, <2>4 DEF WholeAt
  <2> QED  BY <1>1, <1>2, <2>1, <2>3, <2>5 DEF Due
<1>5. ASSUME Completes(n, k) PROVE k \in Due'
  <2>1. k # 0
    BY FrameFacts DEF Orderly, Awake
  <2>2. PICK j : Underway(k, j)' /\ got'[j].empty
    BY <1>5, <2>1, WithinStep DEF Completes
  <2>3. /\ j \in 1..Next1 /\ got'[j].pos = FirstOf[k] /\ got'[j].params
        /\ \A m \in j..Next1 : got'[m].pos = FirstOf[k] + m - j
    BY <1>1, <1>2, <2>2 DEF Underway
  <2>4. j + LastOf[k] - FirstOf[k] = Next1
    <3>1. Next1 \in j..Next1 /\ Next1 \in Nat /\ j \in Nat
      BY <1>1, <2>3 DEF Next1
    <3>2. LastOf[k] = FirstOf[k] + Next1 - j
      BY <1>1, <1>5, <2>3, <3>1 DEF Completes
    <3> QED  BY <1>3, <3>1, <3>2
  <2>5. ASSUME NEW m \in 0..(LastOf[k] - FirstOf[k]) PROVE got'[j + m].pos = FirstOf[k] + m
    <3>0. j \in Nat /\ Next1 \in Nat
      BY <1>1, <2>3 DEF Next1
    <3>1. j + m \in j..Next1 /\ FirstOf[k] + (j + m) - j = FirstOf[k] + m
      BY <1>3, <2>4, <3>0
    <3> QED  BY <2>3, <3>1
  <2>6. j + LastOf[k] - FirstOf[k] <= Next1
    BY <1>1, <2>4 DEF Next1
  <2>7. WholeAt(k, j)'
    BY <1>1, <1>2, <2>3, <2>5, <2>6 DEF WholeAt
  <2> QED  BY <1>1, <1>2, <2>3, <2>7 DEF Due
<1>6. ASSUME k \in Due', k \notin Due PROVE Completes(n, k)
  <2>1. PICK j \in 1..Next1 : WholeAt(k, j)' /\ got'[j].params
    BY <1>1, <1>6 DEF Due
  <2>2. CASE j + LastOf[k] - FirstOf[k] <= Len(got)
    BY <1>0, <1>6, <2>1, <2>2, WholeStep DEF Due
  <2>3. CASE ~(j + LastOf[k] - FirstOf[k] <= Len(got))
    <3>1. Underway(k, j)' /\ n = LastOf[k]
      BY <1>0, <2>1, <2>3, WholeStep
    <3>2. n \in FirstOf[k]..LastOf[k] /\ spsPpsOk = 2
      BY <1>0, <3>1, UnderwayStep
    <3> QED  BY <3>1, <3>2, FrameOf DEF Completes, Orderly, Awake
  <2> QED  BY <2>2, <2>3
<1> QED  BY <1>4, <1>5, <1>6

LEMMA TagsStep ==
  ASSUME Orderly, Awake, ResyncInv, OrderInv, unbroken, unbroken', NEW n \in 1..Len(Stream), n = next,
         Deliver(n)
  PROVE  /\ (\A k \in Frames : ~Completes(n, k)) => Positions("frame")' = Positions("frame")
         /\ \A k \in Frames : Completes(n, k) =>
              /\ Positions("frame")' = Positions("frame") \cup {Len(file) + 1}
              /\ IsFrame(file'[Len(file) + 1].slices, k)
              /\ file'[Len(file) + 1].key <=> Stream[n].type = 5
<1>0. GotInv /\ UnderwayInv /\ IsSequence(videoData) /\ RtpHandler(Stream[n])
  BY DEF ResyncInv, GotInv, Deliver
<1>1. UNCHANGED sender /\ Extends(file, file') /\ ~(IsH264(Stream[n]) /\ flv' = "NULL")
  BY <1>0, GotStep DEF Deliver
<1>2. cameraType # "PS_CAMERA" => Follows(n)
  BY <1>0, OrderFinds
<1>3. CASE ~(spsPpsOk = 2 /\ Stream[n].frame # 0)
  <2>1. Positions("frame")' = Positions("frame")
    BY <1>0, <1>1, <1>2, <1>3, BetweenFrames
  <2>2. \A k \in Frames : ~Completes(n, k)
    BY <1>3, FrameFacts DEF Completes, Orderly, Awake
  <2> QED  BY <2>1, <2>2
<1>4. CASE spsPpsOk = 2 /\ Stream[n].frame # 0
  <2>1. PICK k \in Frames : k = Stream[n].frame
    BY <1>4, FrameOf DEF Orderly, Awake
  <2>2. PICK j : Underway(k, j)' /\ got'[j].empty
    BY <1>4, <2>1, WithinStep
  <2>3. /\ n \in FirstOf[k]..LastOf[k]
        /\ n \in Begins \/ (n > 1 /\ Tracked(n - 1, nal))
        /\ Lists(videoData, Done(k, n - 1), SlicesOf(k))
    BY <1>0, <2>2, UnderwayStep
  <2>4. CASE n # LastOf[k]
    <3>1. file' = file
      BY <1>0, <1>4, <2>3, <2>4, FrameStep
    <3>2. \A l \in Frames : ~Completes(n, l)
      BY <2>1, <2>4 DEF Completes
    <3> QED  BY <3>1, <3>2 DEF Positions
  <2>5. CASE n = LastOf[k]
    <3>1. PICK x : /\ file' = Append(file, x) /\ x.tag = "frame"
                   /\ x.key <=> Stream[n].type = 5
                   /\ IsFrame(x.slices, k)
      BY <1>0, <1>4, <2>3, <2>5, FrameStep
    <3>2. /\ Len(file) \in Nat /\ Len(file') = Len(file) + 1
          /\ \A i \in 1..Len(file) : file'[i] = file[i]
          /\ file'[Len(file) + 1] = x
      BY <1>1, <3>1, AppendAny DEF Extends
    <3>3. Positions("frame")' = Positions("frame") \cup {Len(file) + 1}
      <4>1. \A i \in 1..Len(file') : i \in 1..Len(file) \/ i = Len(file) + 1
        BY <3>2
      <4>2. Len(file) + 1 \in 1..Len(file') /\ \A i \in 1..Len(file) : i \in 1..Len(file')
        BY <3>2
      <4> QED  BY <3>1, <3>2, <4>1, <4>2 DEF Positions
    <3>4. \A l \in Frames : Completes(n, l) => l = k
      BY <2>1 DEF Completes
    <3>5. Completes(n, k)
      BY <1>4, <2>1, <2>5 DEF Completes
    <3> QED  BY <3>1, <3>2, <3>3, <3>4, <3>5
  <2> QED  BY <2>4, <2>5
<1> QED  BY <1>3, <1>4

(* The frame that is completed is the newest of those that are due.        *)
LEMMA DueBefore ==
  ASSUME Orderly, Awake, GotInv, OrderInv, unbroken, NEW n \in 1..Len(Stream), n = next,
         NEW k \in Frames, Completes(n, k), NEW d \in Due
  PROVE  d \in Nat /\ k \in Nat /\ d < k
<1>1. PICK j \in 1..Len(got) : WholeAt(d, j)
  BY DEF Due
<1>2. d \in Frames
  BY DEF Due
<1>3. FirstOf[d] \in Nat /\ LastOf[d] \in Nat /\ FirstOf[d] <= LastOf[d]
  BY <1>2, FrameTypes DEF Orderly, Awake
<1>4. Len(got) \in Nat
  BY LenProperties DEF GotInv
<1>5. PICK m \in 0..(LastOf[d] - FirstOf[d]) : m = LastOf[d] - FirstOf[d]
  BY <1>3
<1>6. j + m \in 1..Len(got) /\ got[j + m].pos = LastOf[d]
  <2>1. j + m <= Len(got)
    BY <1>1, <1>3, <1>4, <1>5 DEF WholeAt
  <2>2. got[j + m].pos = FirstOf[d] + m
    BY <1>1 DEF WholeAt
  <2> QED  BY <1>3, <1>4, <1>5, <2>1, <2>2
<1>7. LastOf[d] < n
  BY <1>6 DEF OrderInv
<1>8. LastOf[d] \in 1..Len(Stream) /\ Stream[LastOf[d]].frame = d /\ d \in Nat
  <2>1. LastOf[d] \in FirstOf[d]..LastOf[d]
    BY <1>3
  <2> QED  BY <1>2, <2>1, FrameFacts DEF Orderly, Awake
<1>9. Stream[n].frame = k /\ k \in Nat \ {0} /\ n = LastOf[k]
  BY FrameFacts DEF Completes, Orderly, Awake
<1>10. d <= k
  <2>1. \A i, l \in 1..Len(Stream) : i < l /\ Stream[l].frame # 0 => Stream[i].frame <= Stream[l].frame
    BY StreamFacts DEF Orderly, Awake
  <2> QED  BY <1>7, <1>8, <1>9, <2>1
<1>11. d # k
  BY <1>7, <1>9
<1> QED  BY <1>8, <1>9, <1>10, <1>11

LEMMA FramesStep ==
  ASSUME Orderly, Awake, ResyncInv, OrderInv, FramesInOrder, NEW n \in 1..Len(Stream), n = next,
         Deliver(n)
  PROVE  FramesInOrder'
<1> DEFINE T == Positions("frame")
           good(i, k) == /\ IsFrame(file[i].slices, k)
                         /\ file[i].key <=> Stream[LastOf[k]].type = 5
<1> SUFFICES ASSUME unbroken' PROVE FramesInOrder'
  BY DEF FramesInOrder
<1>0. unbroken /\ GotInv
  BY DEF Deliver, ResyncInv
<1>1. UNCHANGED sender /\ Extends(file, file')
  BY <1>0, GotStep
<1>2. /\ Stream' = Stream /\ LastOf' = LastOf /\ Frames' = Frames
      /\ \A q, k : IsFrame(q, k)' = IsFrame(q, k)
  BY <1>1, SenderSame
<1>3. /\ Cardinality(T) = Cardinality(Due)
      /\ \A i \in T, k \in Due : Rank(T, i) = Rank(Due, k) => good(i, k)
  BY <1>0 DEF FramesInOrder, Due
<1>4. Len(file) \in Nat /\ T \subseteq Nat /\ IsFiniteSet(T) /\ \A i \in T : i < Len(file) + 1 /\ file'[i] = file[i]
  <2>1. Len(file) \in Nat
    BY <1>1 DEF Extends
  <2>2. T \in SUBSET (1..Len(file)) /\ IsFiniteSet(1..Len(file))
    BY <2>1, FS_Interval DEF Positions
  <2>3. IsFiniteSet(T)
    BY <2>2, FS_Subset
  <2> QED  BY <1>1, <2>1, <2>2, <2>3 DEF Extends
<1>5. SUFFICES /\ Cardinality(T') = Cardinality(Due')
               /\ \A i \in T', k \in Due' : Rank(T', i) = Rank(Due', k) =>
                    /\ IsFrame(file'[i].slices, k)
                    /\ file'[i].key <=> Stream[LastOf[k]].type = 5
  BY <1>2 DEF FramesInOrder, Due, Rank
<1>6. Due \subseteq Frames /\ Due' \subseteq Frames
  BY <1>2 DEF Due
<1>7. CASE \A k \in Frames : ~Completes(n, k)
  <2>1. T' = T
    BY <1>0, <1>7, TagsStep
  <2>2. Due' = Due
    BY <1>0, <1>6, <1>7, DueStep
  <2> QED  BY <1>3, <1>4, <2>1, <2>2
<1>8. ASSUME NEW k \in Frames, Completes(n, k)
      PROVE  /\ Cardinality(T') = Cardinality(Due')
             /\ \A i \in T', d \in Due' : Rank(T', i) = Rank(Due', d) =>
                  /\ IsFrame(file'[i].slices, d)
                  /\ file'[i].key <=> Stream[LastOf[d]].type = 5
  <2> DEFINE new == Len(file) + 1
  <2>1. /\ T' = T \cup {new}
        /\ IsFrame(file'[new].slices, k)
        /\ file'[new].key <=> Stream[LastOf[k]].type = 5
    BY <1>0, <1>8, TagsStep DEF Completes
  <2>2. Due' = Due \cup {k}
    <3>1. \A l \in Frames : l \in Due' <=> l \in Due \/ Completes(n, l)
      BY <1>0, DueStep
    <3>2. \A l \in Frames : Completes(n, l) => l = k
      BY <1>8 DEF Completes
    <3> QED  BY <1>6, <1>8, <3>1, <3>2
  <2>3. k \in Nat /\ Due \subseteq Nat /\ \A d \in Due : d < k
    <3>1. k \in Nat
      BY FrameFacts DEF Orderly, Awake
    <3> QED  BY <1>0, <1>8, <3>1, DueBefore
  <2>4. IsFiniteSet(Due)
    <3>1. Due \in SUBSET (0..k) /\ IsFiniteSet(0..k)
      BY <2>3, FS_Interval
    <3> QED  BY <3>1, FS_Subset
  <2>5. new \in Nat /\ \A i \in T : i < new
    BY <1>4
  <2> HIDE DEF new, T
  <2>6. /\ Cardinality(T) \in Nat
        /\ Cardinality(T') = Cardinality(T) + 1 /\ Rank(T', new) = Cardinality(T) + 1
        /\ \A i \in T : Rank(T', i) = Rank(T, i) /\ Rank(T, i) \in 1..Cardinality(T)
    BY <1>4, <2>1, <2>5, RankLast
  <2>7. /\ Cardinality(Due') = Cardinality(Due) + 1 /\ Rank(Due', k) = Cardinality(Due) + 1
        /\ \A d \in Due : Rank(Due', d) = Rank(Due, d) /\ Rank(Due, d) \in 1..Cardinality(Due)
    BY <2>2, <2>3, <2>4, RankLast
  <2>8. ASSUME NEW i \in T', NEW d \in Due', Rank(T', i) = Rank(Due', d)
        PROVE  (i = new /\ d = k) \/ (i \in T /\ d \in Due /\ Rank(T, i) = Rank(Due, d))
    <3>1. (i = new \/ i \in T) /\ (d = k \/ d \in Due)
      BY <2>1, <2>2
    <3>2. \A c \in 1..Cardinality(T) : c # Cardinality(T) + 1
      BY <2>6
    <3> QED  BY <1>3, <2>6, <2>7, <2>8, <3>1, <3>2
  <2>9. ASSUME NEW i \in T', NEW d \in Due', Rank(T', i) = Rank(Due', d)
        PROVE  /\ IsFrame(file'[i].slices, d)
               /\ file'[i].key <=> Stream[LastOf[d]].type = 5
    <3>1. CASE i = new /\ d = k
      BY <2>1, <3>1
    <3>2. CASE i \in T /\ d \in Due /\ Rank(T, i) = Rank(Due, d)
      BY <1>3, <1>4, <3>2
    <3> QED  BY <2>8, <2>9, <3>1, <3>2
  <2> QED  BY <1>3, <2>6, <2>7, <2>9
<1> QED  BY <1>7, <1>8

-------------------------------------------------------------------------------
(* The parameter sets of a session that lost nothing: after the first one  *)
(* its array is set, and no other came since.                              *)
IsSet(i) == Stream[i].type \in {7, 8}

SetAt(q) ==
  /\ q \in 1..Cur /\ IsSet(q)
  /\ Stream[q].type = 7 => sps # Unset
  /\ Stream[q].type = 8 => pps # Unset
  /\ \A m \in (q + 1)..Cur : ~IsSet(m)

SetsInv ==
  unbroken /\ Paired =>
    /\ spsPpsOk = 1 => got # <<>> /\ \E q : SetAt(q)
    /\ HeaderComplete

Complete(r) == \A i \in 1..Len(r) : r[i].tag = "params" => r[i].sps # Unset /\ r[i].pps # Unset

LEMMA CompleteAppend ==
  ASSUME NEW w, IsSequence(w), Complete(w), NEW x,
         x.tag = "params" => x.sps # Unset /\ x.pps # Unset
  PROVE  Complete(Append(w, x))
<1> DEFINE r == Append(w, x)
<1>1. /\ Len(w) \in Nat /\ Len(r) = Len(w) + 1 /\ r[Len(w) + 1] = x
      /\ \A i \in 1..Len(w) : r[i] = w[i]
  BY AppendAny
<1> HIDE DEF r
<1>2. \A i \in 1..Len(r) : i \in 1..Len(w) \/ i = Len(w) + 1
  BY <1>1
<1>3. Complete(r)
  BY <1>1, <1>2 DEF Complete
<1> QED  BY <1>3 DEF r

(* A parameter set of a sender whose sets alternate is in one packet.      *)
LEMMA SetsWhole ==
  ASSUME WellPacketised, sender \in Senders, Paired, NEW n \in 1..Len(Stream), IsSet(n)
  PROVE  n \in Ends
<1>1. SUFFICES ASSUME n \notin Ends PROVE FALSE
  OBVIOUS
<1>2. Len(Stream) \in Nat /\ n \in 1..(Len(Stream) - 1)
  BY <1>1, StreamFacts
<1>3. Stream[n + 1].type = Stream[n].type
  BY <1>1, <1>2, StreamFacts
<1>4. n + 1 \in 1..Len(Stream) /\ n < n + 1
  BY <1>2
<1>5. \E m \in (n + 1)..((n + 1) - 1) : TRUE
  BY <1>3, <1>4 DEF Paired, IsSet
<1> QED  BY <1>2, <1>5

LEMMA SetsStep ==
  ASSUME Orderly, Awake, ResyncInv, OrderInv, SetsInv, NEW n \in 1..Len(Stream), n = next,
         Deliver(n)
  PROVE  SetsInv'
<1> DEFINE p == Stream[n]
<1> SUFFICES ASSUME unbroken', Paired' PROVE SetsInv'
  BY DEF SetsInv
<1>0. GotInv /\ UnderwayInv /\ unbroken /\ RtpHandler(p) /\ ~(IsH264(p) /\ flv' = "NULL")
  BY DEF ResyncInv, Deliver
<1>1. Len(got) \in Nat /\ Len(got') = Next1 /\ Cur' = n /\ UNCHANGED sender
  BY <1>0, GotStep
<1>2. Stream' = Stream /\ Len(Stream) \in Nat
  BY <1>1, SenderSame, StreamFacts DEF Orderly, Awake
<1>3. Paired
  BY <1>2 DEF Paired
<1>4. (spsPpsOk = 1 => got # <<>> /\ \E q : SetAt(q)) /\ Complete(file)
  BY <1>0, <1>3 DEF SetsInv, HeaderComplete, Complete, Positions
<1>5. got' # <<>>
  <2>1. Next1 # 0
    BY <1>1 DEF Next1
  <2> QED  BY <1>1, <2>1
<1>6. SUFFICES /\ spsPpsOk' = 1 => \E q : SetAt(q)'
               /\ Complete(file')
  BY <1>5 DEF SetsInv, HeaderComplete, Complete, Positions
<1>7. got # <<>> => n = Cur + 1 /\ Cur \in Nat
  <2>1. SUFFICES ASSUME got # <<>> PROVE n = Cur + 1 /\ Cur \in Nat
    OBVIOUS
  <2>2. Len(got) \in 1..Len(got)
    BY <1>0, <1>1, <2>1, EmptySeq DEF GotInv
  <2>3. Cur \in Nat
    BY <1>0, <2>2, GotStep DEF Cur
  <2> QED  BY <1>0, <2>1, <2>3 DEF OrderInv
<1>8. ASSUME spsPpsOk = 1, UNCHANGED <<sps, pps>>, ~IsSet(n) PROVE \E q : SetAt(q)'
  <2>1. PICK q : SetAt(q)
    BY <1>4, <1>8
  <2>2. q \in 1..Cur /\ n = Cur + 1 /\ Cur \in Nat
    BY <1>4, <1>7, <1>8, <2>1 DEF SetAt
  <2>3. q \in 1..n /\ \A m \in (q + 1)..n : m \in (q + 1)..Cur \/ m = n
    BY <2>2
  <2>4. SetAt(q)'
    BY <1>1, <1>2, <1>8, <2>1, <2>3 DEF SetAt, IsSet
  <2> QED  BY <2>4
<1>9. IsSequence(file)
  <2>1. IsSequence(<<>>)
    BY ExtendsNothing, GoodHeader DEF Good, Extends
  <2> QED  BY <2>1 DEF Awake, FileInv, Good
<1>10. CASE Passed(p) /\ (IsVideo(p) => spsPpsOk = 0)
  <2>1. Complete(file')
    <3>1. ASSUME NEW x, x.tag = "audio" PROVE Complete(Append(file, x))
      BY <1>4, <1>9, <3>1, CompleteAppend
    <3> QED  BY <1>4, <1>10, <3>1 DEF Passed
  <2>2. ASSUME spsPpsOk' = 1 PROVE \E q : SetAt(q)'
    <3>1. spsPpsOk = 1 /\ UNCHANGED <<sps, pps>> /\ ~IsVideo(p)
      BY <1>10, <2>2 DEF Passed
    <3>2. ~IsSet(n)
      BY <3>1, StreamFacts DEF IsSet, Orderly, Awake
    <3> QED  BY <1>8, <3>1, <3>2
  <2> QED  BY <2>1, <2>2
<1>11. CASE IsVideo(p) /\ \E b, w : Taken(n, b, w)
  <2>1. PICK b, w : Taken(n, b, w)
    BY <1>11
  <2> DEFINE u == Together(b, n)
  <2>2. u.type = p.type /\ u.parts # Unset
    BY <2>1, TakenType DEF Orderly, Awake, Unset
  <2>3. IsSequence(w) /\ Complete(w)
    <3>1. Len(<<[tag |-> "header"]>>) = 1 /\ <<[tag |-> "header"]>>[1].tag = "header"
      OBVIOUS
    <3>2. Complete(<<[tag |-> "header"]>>)
      BY <3>1 DEF Complete
    <3> QED  BY <1>4, <1>9, <2>1, <3>2, GoodHeader DEF Taken, Begun, Good
  <2> HIDE DEF u
  <2>4. \/ file' = w /\ UNCHANGED <<spsPpsOk, sps, pps, videoData>> /\ n \notin Ends
        \/ ParameterSet(u, w) \/ Slice(u, p.marker, w) \/ OtherUnit(u, w)
    BY <2>1 DEF Taken, VideoHandler, u
  <2>5. CASE file' = w /\ UNCHANGED <<spsPpsOk, sps, pps, videoData>> /\ n \notin Ends
    <3>1. ~IsSet(n)
      BY <1>3, <2>5, SetsWhole DEF Orderly, Awake
    <3> QED  BY <1>8, <2>3, <2>5, <3>1
  <2>6. CASE ParameterSet(u, w)
    <3>1. /\ spsPpsOk \in {0, 1} /\ spsPpsOk' = spsPpsOk + 1 /\ p.type \in {7, 8}
          /\ sps' = IF p.type = 7 THEN u.parts ELSE sps
          /\ pps' = IF p.type = 8 THEN u.parts ELSE pps
      BY <2>2, <2>6 DEF ParameterSet, HeaderDue, IsParameterSet, Awake, FileInv
    <3>2. CASE spsPpsOk = 0
      <4>1. n \in 1..n /\ \A m \in (n + 1)..n : FALSE
        BY <1>2
      <4>2. SetAt(n)'
        BY <1>1, <1>2, <2>2, <3>1, <4>1 DEF SetAt, IsSet
      <4>3. file' = w
        BY <2>6, <3>2 DEF ParameterSet
      <4> QED  BY <2>3, <4>2, <4>3
    <3>3. CASE spsPpsOk = 1
      <4>1. PICK q : SetAt(q)
        BY <1>4, <3>3
      <4>2. q \in 1..Cur /\ n = Cur + 1 /\ Cur \in Nat
        BY <1>4, <1>7, <3>3, <4>1 DEF SetAt
      <4>3. Stream[q].type # p.type
        <5>1. SUFFICES ASSUME Stream[q].type = p.type PROVE FALSE
          OBVIOUS
        <5>2. q \in 1..Len(Stream) /\ q < n
          BY <1>2, <4>2
        <5>3. PICK m \in (q + 1)..(n - 1) : IsSet(m)
          BY <1>3, <3>1, <5>1, <5>2 DEF Paired, IsSet
        <5>4. m \in (q + 1)..Cur
          BY <1>2, <4>2
        <5> QED  BY <4>1, <5>3, <5>4 DEF SetAt
      <4>4. sps' # Unset /\ pps' # Unset
        BY <2>2, <3>1, <4>1, <4>3 DEF SetAt, IsSet
      <4> DEFINE x == [tag |-> "params", sps |-> sps', pps |-> pps']
      <4>5. file' = Append(w, x) /\ spsPpsOk' # 1
        BY <2>6, <3>1, <3>3 DEF ParameterSet
      <4>6. x.sps = sps' /\ x.pps = pps'
        OBVIOUS
      <4> HIDE DEF x
      <4>7. Complete(Append(w, x))
        BY <2>3, <4>4, <4>6, CompleteAppend
      <4> QED  BY <4>5, <4>7
    <3> QED  BY <3>1, <3>2, <3>3
  <2>7. CASE Slice(u, p.marker, w)
    <3> DEFINE x == FrameTag(u, Append(videoData, u))
    <3>1. x.tag = "frame" /\ (file' = w \/ file' = Append(w, x)) /\ spsPpsOk' # 1
      BY <2>7 DEF Slice, FrameTag, HeaderDue
    <3> HIDE DEF x
    <3>2. Complete(Append(w, x))
      BY <2>3, <3>1, CompleteAppend
    <3> QED  BY <2>3, <3>1, <3>2
  <2>8. CASE OtherUnit(u, w)
    <3>1. file' = w /\ UNCHANGED <<spsPpsOk, sps, pps>> /\ (spsPpsOk # 2 => p.type \notin {7, 8})
      BY <2>2, <2>8 DEF OtherUnit, HeaderDue, IsParameterSet
    <3> QED  BY <1>8, <2>3, <3>1 DEF IsSet
  <2> QED  BY <2>4, <2>5, <2>6, <2>7, <2>8
<1>12. cameraType # "PS_CAMERA" => Follows(n)
  BY <1>0, OrderFinds
<1> QED  BY <1>0, <1>10, <1>11, <1>12, PacketStep

LEMMA InitOrder == ASSUME WellPacketised PROVE Init => OrderInv /\ FramesInOrder /\ SetsInv
<1> SUFFICES ASSUME Init PROVE OrderInv /\ FramesInOrder /\ SetsInv
  OBVIOUS
<1>1. /\ got = <<>> /\ Len(got) = 0 /\ videoData = <<>> /\ file = <<>> /\ Len(file) = 0
      /\ spsPpsOk = 0 /\ late = 0 /\ unbroken = (next \in Begins)
  BY DEF Init, DumpInit
<1>2. /\ \A j \in 1..Len(got) : FALSE
      /\ \A i \in 1..Len(file) : FALSE
  BY <1>1
<1>3. \A k \in Frames : ~Within(k)
  BY <1>1 DEF Within
<1>4. OrderInv
  BY <1>1, <1>2, <1>3 DEF OrderInv
<1>5. \A tag : Positions(tag) = {}
  BY <1>2 DEF Positions
<1>6. Due = {}
  BY <1>2 DEF Due
<1>7. FramesInOrder
  BY <1>5, <1>6 DEF FramesInOrder, Due
<1>8. SetsInv
  BY <1>1, <1>5 DEF SetsInv, HeaderComplete
<1> QED  BY <1>4, <1>7, <1>8

LEMMA NextOrder ==
  ASSUME Orderly, FileInv, WriterInv, Travelling, ResyncInv, OrderInv, FramesInOrder, SetsInv, [Next]_vars
  PROVE  OrderInv' /\ FramesInOrder' /\ SetsInv'
<1>1. CASE InOrder
  <2>1. PICK n \in 1..Len(Stream) : n = next
    <3>1. Len(Stream) \in Nat
      BY StreamFacts DEF Orderly, Travelling
    <3> QED  BY <1>1, <3>1 DEF InOrder, Travelling
  <2>2. Deliver(n) /\ Awake
    BY <1>1, <2>1 DEF InOrder, Deliver, Awake, Travelling
  <2> QED  BY <1>1, <2>1, <2>2, OrderStep, FramesStep, SetsStep
<1>2. CASE Late \/ Lose \/ Delay
  <2>1. ~unbroken'
    BY <1>2 DEF Late, Deliver, Lose, Delay, Miss, OrderInv
  <2> QED  BY <2>1 DEF OrderInv, FramesInOrder, SetsInv
<1>3. CASE /\ UNCHANGED <<sender, next, late, got, unbroken, spsPpsOk, sps, pps, videoData, nal, cameraType>>
           /\ AudioAtMost
  <2>1. /\ Stream' = Stream /\ Begins' = Begins /\ Frames' = Frames /\ FirstOf' = FirstOf /\ LastOf' = LastOf
        /\ \A m, u : Tracked(m, u)' = Tracked(m, u)
        /\ \A q, k : IsFrame(q, k)' = IsFrame(q, k)
    BY <1>3, SenderSame
  <2>2. Cur' = Cur
    BY <1>3 DEF Cur
  <2>3. \A k : Within(k)' = Within(k) /\ \A j : Underway(k, j)' = Underway(k, j) /\ WholeAt(k, j)' = WholeAt(k, j)
    BY <1>3, <2>1, <2>2 DEF Within, Underway, WholeAt
  <2>4. \A tag : tag # "audio" => /\ Positions(tag)' = Positions(tag)
                                  /\ \A i \in Positions(tag) : file'[i] = file[i]
    BY <1>3, FileKept
  <2>5. OrderInv'
    BY <1>3, <2>1, <2>2, <2>3 DEF OrderInv
  <2>6. Due' = Due
    BY <1>3, <2>1, <2>3 DEF Due
  <2>7. FramesInOrder'
    BY <1>3, <2>1, <2>4, <2>6 DEF FramesInOrder, Due, Rank
  <2>8. Paired' = Paired /\ \A q : SetAt(q)' = SetAt(q)
    BY <1>3, <2>1, <2>2 DEF Paired, SetAt, IsSet
  <2>9. SetsInv'
    BY <1>3, <2>4, <2>8 DEF SetsInv, HeaderComplete
  <2> QED  BY <2>5, <2>7, <2>9
<1>4. CASE Delete \/ UNCHANGED vars
  BY <1>3, <1>4 DEF Delete, CloseDump, netVars, vars, dumpVars, AudioAtMost
<1>5. CASE Aside
  BY <1>3, <1>5, AsideStep
<1> QED  BY <1>1, <1>2, <1>4, <1>5 DEF Next

LEMMA InOrderInv == ASSUME Orderly PROVE Spec => [](OrderInv /\ FramesInOrder /\ SetsInv)
<1> DEFINE Inv == /\ FileInv /\ WriterInv /\ Travelling /\ ResyncInv
                  /\ OrderInv /\ FramesInOrder /\ SetsInv
<1>1. Init => Inv
  <2>1. Init => WriterInv /\ Travelling
    BY StreamAssumption DEF Init, DumpInit, WriterInv, Travelling, Stream
  <2> QED  BY <2>1, InitFileInv, InitResync, InitOrder DEF Orderly
<1>2. Inv /\ [Next]_vars => Inv'
  BY NextFileInv, NextWriter, NextResync, NextOrder DEF Orderly
<1> QED  BY <1>1, <1>2, PTL DEF Spec

(* A session that lost nothing since the beginning of a unit has in its    *)
(* file exactly the frames that began when the parameter sets were         *)
(* complete, each once and whole, in the order of the sender, and a frame  *)
(* is a key frame when its last unit is one.                               *)
THEOREM FramesComplete == ASSUME Orderly PROVE Spec => []FramesInOrder
BY InOrderInv, PTL

(* Without loss the sequence header of a sender whose SPS and PPS          *)
(* alternate has both, wherever in the stream the session begins.          *)
THEOREM HeadersComplete == ASSUME Orderly PROVE Spec => []HeaderUnbroken
<1>1. SetsInv => HeaderUnbroken
  BY DEF SetsInv, HeaderUnbroken
<1> QED  BY <1>1, InOrderInv, PTL

-------------------------------------------------------------------------------
(* The program stream's file.  As long as the camera is not known nothing  *)
(* came that could be in it, and m_psOutfile was not asked to open it.     *)
PsPacket(p) == p.rtp /\ p.pt = 96
PsGot == {j \in 1..Len(got) : PsPacket(Stream[got[j].pos])}
DataGot == [j \in 1..Len(got) |-> Stream[got[j].pos].data]

PsInv ==
  /\ IsSequence(got) /\ IsSequence(psFile)
  /\ cameraType \in {"DEFAULT", "RTSP_CAMERA", "PS_CAMERA"}
  /\ cameraType = "DEFAULT" => psFile = <<>> /\ PsGot = {}
  /\ cameraType = "PS_CAMERA" =>
       \/ psOutfile = "open" /\ Lists(psFile, PsGot, DataGot)
       \/ psOutfile = "failed" /\ psFile = <<>>

(* A packet for the program stream finds m_psOutfile as its opening left   *)
(* it: the first one opens it, or fails to.                                *)
PsTaken(p) ==
  /\ cameraType # "RTSP_CAMERA" /\ cameraType' = "PS_CAMERA"
  /\ IF cameraType = "DEFAULT" THEN psOutfile' \in {"open", "failed"} ELSE psOutfile' = psOutfile
  /\ psFile' = IF psOutfile' = "open" THEN Append(psFile, p.data) ELSE psFile

(* Only a packet of type 96 touches the program stream's file, or decides  *)
(* on the camera.                                                          *)
LEMMA PsHandler ==
  ASSUME NEW p, RtpHandler(p)
  PROVE  IF PsPacket(p)
         THEN \/ cameraType' = "RTSP_CAMERA" /\ psFile' = psFile
              \/ PsTaken(p)
         ELSE UNCHANGED <<cameraType, psOutfile, psFile>>
<1>1. CASE Audio(p)
  BY <1>1 DEF Audio, PsPacket
<1>2. CASE p.rtp /\ ProgramStream(p)
  <2>1. p.pt = 96 /\ cameraType # "RTSP_CAMERA" /\ cameraType' = "PS_CAMERA"
    BY <1>2 DEF ProgramStream, Detected
  <2>2. psFile' = IF psOutfile' = "open" THEN Append(psFile, p.data) ELSE psFile
    BY <1>2 DEF ProgramStream
  <2>3. IF cameraType = "DEFAULT" THEN psOutfile' \in {"open", "failed"} ELSE psOutfile' = psOutfile
    BY <1>2 DEF ProgramStream, Opens
  <2> QED  BY <1>2, <2>1, <2>2, <2>3 DEF PsPacket, PsTaken
<1>3. CASE p.rtp /\ (Video(p) \/ OpenFails(p))
  <2>1. IsH264(p) /\ psFile' = psFile /\ psOutfile' = psOutfile /\ cameraType' = (IF p.pt = 96 THEN Detected(p) ELSE cameraType)
    BY <1>3 DEF Video, OpenFails
  <2> QED  BY <1>3, <2>1 DEF IsH264, PsPacket
<1>4. CASE Dropped(p)
  BY <1>4 DEF Dropped, dumpVars, PsPacket
<1> QED  BY <1>1, <1>2, <1>3, <1>4 DEF RtpHandler

LEMMA PsStep ==
  ASSUME PsInv, NEW n, Deliver(n)
  PROVE  PsInv'
<1> DEFINE p == Stream[n]
           last == Len(got) + 1
<1>1. Stream' = Stream /\ RtpHandler(p)
  BY DEF Deliver, Stream
<1>2. /\ IsSequence(got') /\ Len(got) \in Nat /\ Len(got') = last
      /\ \A j \in 1..Len(got) : got'[j] = got[j]
      /\ got'[last].pos = n
  <2> DEFINE g == [pos |-> n, params |-> spsPpsOk = 2, empty |-> videoData = <<>>]
  <2>1. got' = Append(got, g) /\ g.pos = n
    BY DEF Deliver
  <2> HIDE DEF g
  <2> QED  BY <2>1, AppendAny DEF PsInv
<1>3. PsGot \in SUBSET (1..Len(got)) /\ PsGot \subseteq Nat /\ IsFiniteSet(PsGot)
  <2>1. PsGot \in SUBSET (1..Len(got)) /\ IsFiniteSet(1..Len(got))
    BY <1>2, FS_Interval DEF PsGot
  <2>2. IsFiniteSet(PsGot)
    BY <2>1, FS_Subset
  <2>3. 1..Len(got) \subseteq Nat
    BY <1>2
  <2> QED  BY <2>1, <2>2, <2>3
<1>4. PsGot' = IF PsPacket(p) THEN PsGot \cup {last} ELSE PsGot
  <2>1. \A j \in 1..Len(got') : j \in 1..Len(got) \/ j = last
    BY <1>2
  <2>2. last \in 1..Len(got') /\ \A j \in 1..Len(got) : j \in 1..Len(got')
    BY <1>2
  <2> HIDE DEF last
  <2>3. \A j \in 1..Len(got) : j \in PsGot' <=> j \in PsGot
    BY <1>1, <1>2, <2>2 DEF PsGot, PsPacket
  <2>4. last \in PsGot' <=> PsPacket(p)
    BY <1>1, <1>2, <2>2 DEF PsGot, PsPacket
  <2>5. \A j \in PsGot' : j \in PsGot \/ (j = last /\ PsPacket(p))
    BY <2>1, <2>3, <2>4 DEF PsGot
  <2>6. PsGot \subseteq PsGot'
    BY <1>3, <2>3
  <2> HIDE DEF p
  <2>7. CASE PsPacket(p)
    BY <2>4, <2>5, <2>6, <2>7
  <2>8. CASE ~PsPacket(p)
    BY <2>5, <2>6, <2>8
  <2> QED  BY <2>7, <2>8
<1>5. (\A j \in PsGot : DataGot'[j] = DataGot[j]) /\ DataGot'[last] = p.data
  <2>1. last \in 1..Len(got') /\ \A j \in 1..Len(got) : j \in 1..Len(got')
    BY <1>2
  <2> QED  BY <1>1, <1>2, <1>3, <2>1 DEF DataGot
<1> HIDE DEF p, last
<1>6. CASE ~PsPacket(p)
  <2>1. UNCHANGED <<cameraType, psOutfile, psFile, PsGot>>
    BY <1>1, <1>4, <1>6, PsHandler
  <2>2. Lists(psFile, PsGot, DataGot) => Lists(psFile, PsGot, DataGot')
    BY <1>5, ListsSame
  <2> QED  BY <1>2, <2>1, <2>2 DEF PsInv, Lists, Rank
<1>7. CASE PsPacket(p) /\ cameraType' = "RTSP_CAMERA" /\ psFile' = psFile
  BY <1>2, <1>7 DEF PsInv
<1>8. CASE PsPacket(p) /\ PsTaken(p) /\ psOutfile' = "open"
  <2>1. psFile' = Append(psFile, p.data) /\ cameraType' = "PS_CAMERA"
    BY <1>8 DEF PsTaken
  <2>2. Lists(psFile, PsGot, DataGot)
    BY <1>8, ListsNothing DEF PsInv, PsTaken
  <2>3. last \in Nat /\ \A j \in PsGot : j < last
    <3>1. \A j \in PsGot : j \in 1..Len(got)
      BY <1>3
    <3>2. Len(got) \in Nat
      BY <1>2
    <3> QED  BY <3>1, <3>2 DEF last
  <2>4. Lists(Append(psFile, DataGot'[last]), PsGot \cup {last}, DataGot')
    BY <1>3, <1>5, <2>2, <2>3, ListsAppend DEF PsInv
  <2>5. IsSequence(psFile')
    BY <2>1, AppendAny DEF PsInv
  <2> QED  BY <1>2, <1>4, <1>5, <1>8, <2>1, <2>4, <2>5 DEF PsInv, Lists, Rank
<1>9. CASE PsPacket(p) /\ PsTaken(p) /\ psOutfile' # "open"
  <2>1. psFile' = psFile /\ cameraType' = "PS_CAMERA"
    BY <1>9 DEF PsTaken
  <2>2. psFile = <<>> /\ psOutfile' = "failed"
    BY <1>9 DEF PsInv, PsTaken
  <2> QED  BY <1>2, <2>1, <2>2 DEF PsInv
<1> QED  BY <1>1, <1>6, <1>7, <1>8, <1>9, PsHandler

(* A stream that is taken for a program stream is in its file as it came,  *)
(* from its first packet on, and no other packet with it; and when its     *)
(* file could not be opened none of it ever is.                            *)
THEOREM ProgramStreamsVerbatim == Spec => []ProgramStreamVerbatim
<1>1. Init => PsInv /\ Travelling
  <2> SUFFICES ASSUME Init PROVE PsInv /\ Travelling
    OBVIOUS
  <2>1. got = <<>> /\ psFile = <<>> /\ cameraType = "DEFAULT" /\ Len(got) = 0
    BY DEF Init, DumpInit
  <2>2. IsSequence(<<>>)
    BY ExtendsNothing, GoodHeader DEF Good, Extends
  <2>3. \A j \in 1..Len(got) : FALSE
    BY <2>1
  <2>4. PsGot = {}
    BY <2>3 DEF PsGot
  <2> QED  BY <2>1, <2>2, <2>4, StreamAssumption DEF PsInv, Init, Travelling, Stream
<1>2. (PsInv /\ Travelling) /\ [Next]_vars => (PsInv /\ Travelling)'
  <2> SUFFICES ASSUME PsInv, Travelling, [Next]_vars PROVE PsInv' /\ Travelling'
    OBVIOUS
  <2>1. Travelling' /\ Stream' = Stream
    BY NextTravels DEF Stream
  <2>2. ASSUME UNCHANGED <<got, cameraType, psOutfile, psFile>> PROVE PsInv'
    <3>1. PsGot' = PsGot /\ DataGot' = DataGot
      BY <2>1, <2>2 DEF PsGot, DataGot
    <3> QED  BY <2>2, <3>1 DEF PsInv, Lists, Rank
  <2> QED  BY <2>1, <2>2, PsStep, Deliveries
<1>3. PsInv => ProgramStreamVerbatim
  BY ListsNothing DEF PsInv, ProgramStreamVerbatim, PsGot, DataGot, PsPacket
<1> QED  BY <1>1, <1>2, <1>3, PTL DEF Spec

-------------------------------------------------------------------------------
(* Types: a fragment that comes without its start gives some unit type,    *)
(* and whatever lies in video_data is a slice.                             *)
Tags == {"header", "audio", "params", "frame"}
Tagged(q) == IsSequence(q) /\ \A i \in 1..Len(q) : q[i].tag \in Tags
Slices(q) == IsSequence(q) /\ \A i \in 1..Len(q) : q[i].type \in SliceTypes

DumpInv == DumpTypeOK /\ Tagged(file) /\ Slices(videoData)

LEMMA Grown ==
  /\ IsSequence(<<>>)
  /\ \A q, x : Tagged(q) /\ x.tag \in Tags => Tagged(Append(q, x))
  /\ \A q, x : Slices(q) /\ x.type \in SliceTypes => Slices(Append(q, x))
  /\ Tagged(<<[tag |-> "header"]>>) /\ Slices(<<>>)
<1>1. IsSequence(<<>>)
  BY ExtendsNothing, GoodHeader DEF Good, Extends
<1>2. ASSUME NEW q, IsSequence(q), NEW x
      PROVE  \A i \in 1..Len(Append(q, x)) : (i \in 1..Len(q) /\ Append(q, x)[i] = q[i]) \/ Append(q, x)[i] = x
  BY <1>2, AppendAny
<1>3. ASSUME NEW q, Tagged(q), NEW x, x.tag \in Tags PROVE Tagged(Append(q, x))
  BY <1>2, <1>3, AppendAny DEF Tagged
<1>4. ASSUME NEW q, Slices(q), NEW x, x.type \in SliceTypes PROVE Slices(Append(q, x))
  BY <1>2, <1>4, AppendAny DEF Slices
<1>5. Tagged(<<[tag |-> "header"]>>)
  <2>1. Len(<<[tag |-> "header"]>>) = 1 /\ <<[tag |-> "header"]>>[1].tag = "header"
    OBVIOUS
  <2> QED  BY <2>1, GoodHeader DEF Tagged, Tags, Good
<1>6. Slices(<<>>)
  <2>1. \A i \in 1..Len(<<>>) : FALSE
    OBVIOUS
  <2> QED  BY <1>1, <2>1 DEF Slices
<1> QED  BY <1>1, <1>3, <1>4, <1>5, <1>6

LEMMA VideoHandlerTypes ==
  ASSUME DumpInv, NEW w, Tagged(w), NEW u, NEW marker, VideoHandler(u, marker, w)
  PROVE  /\ isVideoBegin' \in BOOLEAN /\ spsPpsOk' \in 0..2
         /\ Tagged(file') /\ Slices(videoData')
<1>1. isVideoBegin' \in BOOLEAN
  BY DEF VideoHandler
<1>2. CASE ParameterSet(u, w)
  <2> DEFINE x == [tag |-> "params", sps |-> sps', pps |-> pps']
  <2>1. x.tag \in Tags /\ (file' = w \/ file' = Append(w, x)) /\ videoData' = videoData
    BY <1>2 DEF ParameterSet, Tags
  <2> HIDE DEF x
  <2>2. spsPpsOk' \in 0..2
    BY <1>2 DEF ParameterSet, HeaderDue, DumpInv, DumpTypeOK
  <2> QED  BY <1>1, <2>1, <2>2, Grown DEF DumpInv
<1>3. CASE Slice(u, marker, w)
  <2> DEFINE x == FrameTag(u, Append(videoData, u))
  <2>1. /\ x.tag \in Tags /\ (file' = w \/ file' = Append(w, x))
        /\ videoData' \in {<<>>, Append(videoData, u)}
        /\ u.type \in SliceTypes /\ spsPpsOk' = spsPpsOk
    BY <1>3 DEF Slice, FrameTag, Rest, Tags
  <2> HIDE DEF x
  <2> QED  BY <1>1, <2>1, Grown DEF DumpInv, DumpTypeOK
<1>4. CASE OtherUnit(u, w)
  BY <1>1, <1>4 DEF OtherUnit, DumpInv, DumpTypeOK
<1> QED  BY <1>2, <1>3, <1>4 DEF VideoHandler

LEMMA DumpStep ==
  ASSUME DumpInv, NEW p, p.fua => p.type \in NalTypes, RtpHandler(p)
  PROVE  DumpInv'
<1>1. CASE Dropped(p)
  BY <1>1 DEF Dropped, dumpVars, DumpInv, DumpTypeOK
<1>2. CASE ProgramStream(p) \/ OpenFails(p)
  <2>1. /\ cameraType' \in {"DEFAULT", "RTSP_CAMERA", "PS_CAMERA"}
        /\ UNCHANGED <<isVideoBegin, flv, spsPpsOk, videoData, nal, file>>
    BY <1>2 DEF ProgramStream, OpenFails, Detected, DumpInv, DumpTypeOK
  <2>2. psOutfile' \in {"unopened", "open", "failed"}
    BY <1>2 DEF ProgramStream, OpenFails, DumpInv, DumpTypeOK
  <2> QED  BY <2>1, <2>2 DEF DumpInv, DumpTypeOK, Tagged, Slices
<1>3. CASE Audio(p)
  <2> DEFINE x == [tag |-> "audio", data |-> p.data]
  <2>1. x.tag \in Tags /\ file' = Append(file, x)
    BY <1>3 DEF Audio, Tags
  <2> HIDE DEF x
  <2>2. Tagged(file')
    BY <2>1, Grown DEF DumpInv
  <2>3. UNCHANGED <<isVideoBegin, flv, spsPpsOk, videoData, nal, cameraType, psOutfile>>
    BY <1>3 DEF Audio
  <2> QED  BY <2>2, <2>3 DEF DumpInv, DumpTypeOK, Tagged, Slices, Tags
<1>4. CASE Video(p)
  <2> DEFINE w == IF flv = "open" THEN file ELSE <<[tag |-> "header"]>>
  <2>1. H264(p, w) /\ flv' = "open" /\ psOutfile' = psOutfile
    BY <1>4 DEF Video
  <2>2. cameraType' \in {"DEFAULT", "RTSP_CAMERA", "PS_CAMERA"}
    BY <1>4 DEF Video, Detected, DumpInv, DumpTypeOK
  <2>3. Tagged(w)
    BY Grown DEF DumpInv
  <2> HIDE DEF w
  <2>4. nal' = NoNal \/ nal'.type \in NalTypes
    <3>1. ASSUME NEW u \in Reassembled(p), p.fua PROVE u.type \in NalTypes
      BY <3>1 DEF Reassembled, DumpInv, DumpTypeOK
    <3> QED  BY <2>1, <3>1 DEF H264, DumpInv, DumpTypeOK
  <2>5. /\ isVideoBegin' \in BOOLEAN /\ spsPpsOk' \in 0..2
        /\ Tagged(file') /\ Slices(videoData')
    <3>1. CASE \E u, marker : VideoHandler(u, marker, w)
      BY <2>3, <3>1, VideoHandlerTypes
    <3>2. CASE file' = w /\ UNCHANGED <<isVideoBegin, spsPpsOk, videoData>>
      BY <2>3, <3>2 DEF DumpInv, DumpTypeOK
    <3> QED  BY <2>1, <3>1, <3>2 DEF H264
  <2> QED  BY <2>1, <2>2, <2>4, <2>5 DEF DumpInv, DumpTypeOK, Tagged, Slices, Tags
<1> QED  BY <1>1, <1>2, <1>3, <1>4 DEF RtpHandler

(* RTPDump keeps its types whatever comes: at most two parameter sets are  *)
(* ever counted, and only slices gather in video_data.                     *)
THEOREM DumpTypes == Spec => []DumpTypeOK
<1>1. Init => DumpInv /\ Travelling
  <2> SUFFICES ASSUME Init PROVE DumpInv /\ Travelling
    OBVIOUS
  <2>1. /\ isVideoBegin = FALSE /\ flv = "NULL" /\ spsPpsOk = 0 /\ nal = NoNal
        /\ cameraType = "DEFAULT" /\ videoData = <<>> /\ file = <<>>
        /\ psOutfile = "unopened"
    BY DEF Init, DumpInit
  <2>2. (\A i \in 1..Len(videoData) : FALSE) /\ (\A i \in 1..Len(file) : FALSE)
    BY <2>1
  <2>3. DumpTypeOK
    <3>1. isVideoBegin \in BOOLEAN
      BY <2>1, Zenon
    <3>2. spsPpsOk \in 0..2
      BY <2>1, SMT
    <3> QED  BY <2>1, <2>2, <3>1, <3>2 DEF DumpTypeOK
  <2>4. Tagged(file) /\ Slices(videoData)
    BY <2>1, <2>2, Grown DEF Tagged
  <2> QED  BY <2>3, <2>4, StreamAssumption DEF Init, DumpInv, Travelling, Stream
<1>2. (DumpInv /\ Travelling) /\ [Next]_vars => (DumpInv /\ Travelling)'
  <2> SUFFICES ASSUME DumpInv, Travelling, [Next]_vars PROVE DumpInv' /\ Travelling'
    OBVIOUS
  <2>1. Travelling'
    BY NextTravels
  <2>2. ASSUME NEW n \in 1..Len(Stream), Deliver(n) PROVE DumpInv'
    <3>1. Stream[n].fua => Stream[n].type \in NalTypes
      BY StreamAssumption DEF Travelling, Stream
    <3> QED  BY <2>2, <3>1, DumpStep DEF Deliver
  <2>3. CASE Delete
    BY <2>1, <2>3 DEF Delete, CloseDump, DumpInv, DumpTypeOK
  <2>4. CASE UNCHANGED dumpVars
    BY <2>1, <2>4 DEF dumpVars, DumpInv, DumpTypeOK
  <2>5. Len(Stream) \in Nat
    BY StreamAssumption DEF Travelling, Stream
  <2>6. CASE InOrder
    <3>1. next \in 1..Len(Stream) /\ Deliver(next)
      BY <2>5, <2>6 DEF InOrder, Travelling
    <3> QED  BY <2>1, <2>2, <3>1
  <2>7. CASE Late
    <3>1. late \in 1..Len(Stream) /\ Deliver(late)
      BY <2>5, <2>7 DEF Late, Travelling
    <3> QED  BY <2>1, <2>2, <3>1
  <2>8. CASE Aside
    <3>1. PICK p \in asides : RtpHandler(p)
      BY <2>8 DEF Aside
    <3>2. ~IsVideo(p)
      BY <3>1, StreamAssumption DEF Travelling
    <3>3. UNCHANGED <<spsPpsOk, nal, videoData, flv, isVideoBegin, cameraType, psOutfile>> /\ AudioAtMost
      BY <2>8, AsideStep
    <3>4. Tagged(file')
      <4>1. "audio" \in Tags /\ Tagged(file)
        BY DEF Tags, DumpInv
      <4> QED  BY <3>3, <4>1, Grown DEF AudioAtMost
    <3>5. DumpTypeOK'
      <4>1. \A i \in 1..Len(file') : file'[i].tag \in {"header", "audio", "params", "frame"}
        BY <3>4 DEF Tagged, Tags
      <4> QED  BY <3>3, <4>1 DEF DumpInv, DumpTypeOK
    <3>6. Slices(videoData)'
      BY <3>3 DEF DumpInv, Slices
    <3>7. Tagged(file)'
      BY <3>4 DEF Tagged
    <3> QED  BY <2>1, <3>5, <3>6, <3>7 DEF DumpInv
  <2> QED  BY <2>1, <2>3, <2>4, <2>6, <2>7, <2>8 DEF Next, Lose, Delay, Miss, vars
<1>3. DumpInv => DumpTypeOK
  BY DEF DumpInv
<1> QED  BY <1>1, <1>2, <1>3, PTL DEF Spec

================================================================================
