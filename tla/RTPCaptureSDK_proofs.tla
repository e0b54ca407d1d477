------------------------- MODULE RTPCaptureSDK_proofs -------------------------
(***************************************************************************)
(* Proofs about RTPCaptureSDK, for every number of sessions, feeders,      *)
(* blocks and packets, in three parts.                                     *)
(*   For any program around the SDK, Disciplined or not: the types, the    *)
(*     mutexes, and the capture side's hold on live sessions.              *)
(*   Also for any program: no pool block is ever in two places.  A block   *)
(*     moves from the pool into a receiver's hand, from there into a       *)
(*     bufferList, from there into the hand of T2, and back.  Deletions    *)
(*     and dangling pushes may drop it, but nothing doubles it.            *)
(*   For a disciplined program: no receiver pushes through a dangling      *)
(*     pointer, every session that is captured can be deleted by its id,   *)
(*     no block is lost to the pool, a file gets the packets of its own    *)
(*     session only, and the SDK implements Recorder.                      *)
(***************************************************************************)
EXTENDS RTPCaptureSDK, SequenceTheorems, TLAPS

-------------------------------------------------------------------------------
(* The inductive invariant.  Types and mutexes alone are not inductive:    *)
(* T2 reads sessionVector[it] only because the iterator stays in range     *)
(* while T2 has the mutex, and a new session's mutex is free only because  *)
(* the vector, hence T2, knows live sessions alone.                        *)

(* run()'s iterator and its block, while they are used.                    *)
IteratorValid ==
  /\ t2.pc \in {"drain", "release"} => t2.it <= Len(sessionVector)
  /\ t2.pc = "release" => t2.buffer \in Block

(* The session of the call that App is in: one being added is live and not *)
(* captured yet, one being freed is captured no more.                      *)
AppSession ==
  /\ app.pc \in AddPcs => app.session \in live /\ ~InVector(app.session)
  /\ app.pc = "free" => ~InVector(app.session)

IInv == TypeOK /\ LocksHeld /\ CaptureSideSafe /\ IteratorValid /\ AppSession

-------------------------------------------------------------------------------
(* RemoveAt takes out one element and moves those after it up.             *)
LEMMA RemoveAtElements ==
  ASSUME NEW S, NEW q \in Seq(S), NEW i \in 1..Len(q)
  PROVE  /\ RemoveAt(q, i) \in Seq(S)
         /\ Len(RemoveAt(q, i)) = Len(q) - 1
         /\ \A j \in 1..(Len(q) - 1) :
              RemoveAt(q, i)[j] = IF j < i THEN q[j] ELSE q[j + 1]
<1> DEFINE a == SubSeq(q, 1, i - 1)
           b == SubSeq(q, i + 1, Len(q))
<1>1. Len(q) \in Nat /\ i \in Nat /\ i >= 1 /\ i <= Len(q)
  BY LenProperties
<1>2. /\ a \in Seq(S) /\ Len(a) = i - 1
      /\ \A j \in 1..(i - 1) : a[j] = q[j]
  BY <1>1, SubSeqProperties, SMTT(30)
<1>3. /\ b \in Seq(S) /\ Len(b) = Len(q) - i
      /\ \A j \in 1..(Len(q) - i) : b[j] = q[i + j]
  BY <1>1, SubSeqProperties, SMTT(30)
<1>4. RemoveAt(q, i) = a \o b
  BY DEF RemoveAt
<1> HIDE DEF a, b
<1>5. /\ a \o b \in Seq(S)
      /\ Len(a \o b) = Len(a) + Len(b)
      /\ \A j \in 1..(Len(a) + Len(b)) :
           (a \o b)[j] = IF j <= Len(a) THEN a[j] ELSE b[j - Len(a)]
  BY <1>2, <1>3, ConcatProperties
<1>6. ASSUME NEW j \in 1..(Len(q) - 1)
      PROVE  (a \o b)[j] = IF j < i THEN q[j] ELSE q[j + 1]
  <2>1. CASE j < i
    BY <1>1, <1>2, <1>3, <1>5, <2>1
  <2>2. CASE ~(j < i)
    <3>1. /\ j - (i - 1) \in 1..(Len(q) - i)
          /\ i + (j - (i - 1)) = j + 1
          /\ ~(j <= Len(a))
          /\ j \in 1..(Len(a) + Len(b))
      BY <1>1, <1>2, <1>3, <2>2
    <3> QED  BY <1>1, <1>2, <1>3, <1>5, <2>2, <3>1
  <2> QED  BY <2>1, <2>2
<1> QED  BY <1>1, <1>2, <1>3, <1>4, <1>5, <1>6

-------------------------------------------------------------------------------
(* What the operations that the actions share do to the types.             *)

LEMMA GetType ==
  ASSUME PoolTypeOK, NEW b, Get(b)
  PROVE  PoolTypeOK' /\ b \in Block
BY DEF PoolTypeOK, Get, Available, Block

LEMMA ReleaseType ==
  ASSUME PoolTypeOK, NEW b \in Block, Release(b)
  PROVE  PoolTypeOK'
BY DEF PoolTypeOK, Release

LEMMA NextIdType ==
  ASSUME SessionTypeOK
  PROVE  NextId \in Ids
BY SessionAssumption DEF SessionTypeOK, NextId, Ids

LEMMA NewSessionType ==
  ASSUME SessionTypeOK, NEW s \in Sessions, NewSession(s)
  PROVE  SessionTypeOK'
<1>1. SessionCounter' \in Ids /\ sessionID' \in [Sessions -> Ids]
  BY NextIdType DEF SessionTypeOK, NewSession
<1>2. bufferMutex' \in [Sessions -> Threads \cup {NoOne}]
  BY DEF SessionTypeOK, NewSession
<1>3. bufferList' \in [Sessions -> Seq(Node)]
  BY DEF SessionTypeOK, NewSession
<1>4. live' \in SUBSET Sessions
  BY DEF SessionTypeOK, NewSession
<1> QED  BY <1>1, <1>2, <1>3, <1>4 DEF SessionTypeOK

LEMMA DeleteSessionType ==
  ASSUME SessionTypeOK, NEW s \in Sessions, DeleteSession(s)
  PROVE  SessionTypeOK'
<1>1. bufferList' \in [Sessions -> Seq(Node)]
  BY DEF SessionTypeOK, DeleteSession
<1> QED  BY <1>1 DEF SessionTypeOK, DeleteSession

LEMMA LockBufferType ==
  ASSUME SessionTypeOK, NEW s \in Sessions, NEW t \in Threads, LockBuffer(s, t)
  PROVE  SessionTypeOK'
BY DEF SessionTypeOK, LockBuffer

LEMMA PushType ==
  ASSUME SessionTypeOK, NEW s \in Sessions, NEW node \in Node, Push(s, node)
  PROVE  SessionTypeOK'
<1>1. Append(bufferList[s], node) \in Seq(Node)
  BY AppendProperties DEF SessionTypeOK
<1>2. bufferList' \in [Sessions -> Seq(Node)]
  BY <1>1 DEF SessionTypeOK, Push, PushBack
<1> QED  BY <1>2 DEF SessionTypeOK, Push

LEMMA PopFrontType ==
  ASSUME SessionTypeOK, NEW s \in Sessions, PopFront(s)
  PROVE  SessionTypeOK' /\ Head(bufferList[s]) \in Node
<1>1. Head(bufferList[s]) \in Node /\ Tail(bufferList[s]) \in Seq(Node)
  BY HeadTailProperties DEF SessionTypeOK, PopFront
<1>2. bufferList' \in [Sessions -> Seq(Node)]
  BY <1>1 DEF SessionTypeOK, PopFront
<1> QED  BY <1>1, <1>2 DEF SessionTypeOK, PopFront

-------------------------------------------------------------------------------
(* The types, action by action.                                            *)

SDKTypeOK ==
  /\ sdkMap \in [Ids -> Sessions \cup {NULL}]
  /\ app \in {Idle} \cup Adding \cup Deleting
  /\ adds \in Nat

(* A part whose variables do not change keeps its type.                    *)
LEMMA TypeUnchanged ==
  ASSUME TypeOK
  PROVE  /\ UNCHANGED poolVars => PoolTypeOK'
         /\ UNCHANGED sessionVars => SessionTypeOK'
         /\ UNCHANGED receiverVars => ReceiverTypeOK'
         /\ UNCHANGED captureVars => CaptureTypeOK'
         /\ UNCHANGED sdkVars => SDKTypeOK'
<1>1. UNCHANGED poolVars => PoolTypeOK'
  BY DEF TypeOK, PoolTypeOK, poolVars
<1>2. UNCHANGED sessionVars => SessionTypeOK'
  BY DEF TypeOK, SessionTypeOK, sessionVars
<1>3. UNCHANGED receiverVars => ReceiverTypeOK'
  BY DEF TypeOK, ReceiverTypeOK, receiverVars
<1>4. UNCHANGED captureVars => CaptureTypeOK'
  BY DEF TypeOK, CaptureTypeOK, captureVars
<1>5. UNCHANGED sdkVars => SDKTypeOK'
  BY DEF TypeOK, SDKTypeOK, sdkVars
<1> QED  BY <1>1, <1>2, <1>3, <1>4, <1>5

(* The fields of App's call.                                               *)
LEMMA AppFields ==
  ASSUME TypeOK
  PROVE  /\ app.pc \in AddPcs => app \in Adding
         /\ app.pc \in DelPcs => app \in Deleting
         /\ app.pc \in AddPcs \cup DelPcs => app.session \in Sessions
BY DEF TypeOK, Idle, Adding, Deleting, AddPcs, DelPcs

LEMMA AddTypes ==
  ASSUME TypeOK,
         \/ \E s \in Sessions, ports \in Ports : AddSession(s, ports)
         \/ AddSteps
  PROVE  TypeOK'
<1>1. ASSUME NEW s \in Sessions, NEW ports \in Ports, AddSession(s, ports)
      PROVE  TypeOK'
  <2>1. SessionTypeOK'
    BY <1>1, NewSessionType DEF TypeOK, AddSession
  <2>2. SDKTypeOK'
    BY <1>1, SDKAssumption DEF TypeOK, SDKTypeOK, AddSession, Adding, AddPcs
  <2> QED  BY <1>1, <2>1, <2>2, TypeUnchanged DEF AddSession, TypeOK, SDKTypeOK
<1>2. CASE AddToReceiver
  <2>1. app \in Adding /\ app.session \in Sessions
    BY <1>2, AppFields DEF AddToReceiver, AddPcs
  <2>2. sessionID[app.session] \in Ids
    BY <2>1 DEF TypeOK, SessionTypeOK
  <2>3. [session |-> app.session, id |-> sessionID[app.session],
         queue |-> [m \in Media |-> <<>>]] \in Handler
    BY <2>1, <2>2 DEF Handler
  <2>4. handlers' \in Seq(Handler)
    BY <1>2, <2>3, AppendProperties DEF TypeOK, ReceiverTypeOK, AddToReceiver, ReceiverAdd
  <2>5. ReceiverTypeOK'
    BY <1>2, <2>1, <2>4 DEF TypeOK, ReceiverTypeOK, AddToReceiver, ReceiverAdd, MapSet
  <2>6. SDKTypeOK'
    BY <1>2, <2>1 DEF TypeOK, SDKTypeOK, AddToReceiver, Adding, AddPcs
  <2> QED  BY <1>2, <2>5, <2>6, TypeUnchanged DEF AddToReceiver, TypeOK, SDKTypeOK
<1>3. CASE BindFails
  <2>1. SDKTypeOK'
    BY <1>3 DEF TypeOK, SDKTypeOK, BindFails
  <2> QED  BY <1>3, <2>1, TypeUnchanged DEF BindFails, ReceiverAddFails, TypeOK, SDKTypeOK
<1>4. CASE AddToCapture
  <2>1. app.session \in Sessions
    BY <1>4, AppFields DEF AddToCapture, AddPcs
  <2>2. sessionVector' \in Seq(Sessions)
    BY <1>4, <2>1, AppendProperties DEF TypeOK, CaptureTypeOK, AddToCapture, CaptureAdd
  <2>3. CaptureTypeOK'
    BY <1>4, <2>1, <2>2 DEF TypeOK, CaptureTypeOK, AddToCapture, CaptureAdd
  <2>4. SDKTypeOK'
    BY <1>4, <2>1 DEF TypeOK, SDKTypeOK, AddToCapture
  <2> QED  BY <1>4, <2>3, <2>4, TypeUnchanged DEF AddToCapture, TypeOK, SDKTypeOK
<1> QED  BY <1>1, <1>2, <1>3, <1>4 DEF AddSteps

LEMMA DelTypes ==
  ASSUME TypeOK,
         \/ \E id \in Ids : DelSession(id)
         \/ DelSteps
  PROVE  TypeOK'
<1>1. ASSUME NEW id \in Ids, DelSession(id)
      PROVE  TypeOK'
  <2>1. sdkMap[id] \in Sessions
    BY <1>1 DEF TypeOK, DelSession
  <2>2. SDKTypeOK'
    BY <1>1, <2>1 DEF TypeOK, SDKTypeOK, DelSession, Deleting, DelPcs
  <2> QED  BY <1>1, <2>2, TypeUnchanged DEF DelSession, TypeOK, SDKTypeOK
<1>2. CASE DelFind
  <2>1. app \in Deleting
    BY <1>2, AppFields DEF DelFind, DelPcs
  <2>2. SDKTypeOK'
    BY <1>2, <2>1 DEF TypeOK, SDKTypeOK, DelFind, Deleting, DelPcs
  <2>3. CaptureTypeOK'
    BY <1>2 DEF TypeOK, CaptureTypeOK, DelFind, CaptureDelFind
  <2> QED  BY <1>2, <2>2, <2>3, TypeUnchanged DEF DelFind, TypeOK, SDKTypeOK
<1>3. CASE DelLockBuffer
  <2>1. app \in Deleting /\ app.session \in Sessions
    BY <1>3, AppFields DEF DelLockBuffer, DelPcs
  <2>2. SDKTypeOK'
    BY <1>3, <2>1 DEF TypeOK, SDKTypeOK, DelLockBuffer, Deleting, DelPcs
  <2>3. SessionTypeOK'
    BY <1>3, <2>1, LockBufferType DEF TypeOK, DelLockBuffer, Threads
  <2> QED  BY <1>3, <2>2, <2>3, TypeUnchanged DEF DelLockBuffer, TypeOK, SDKTypeOK
<1>4. CASE DelDrain
  <2>1. app.session \in Sessions
    BY <1>4, AppFields DEF DelDrain, DelPcs
  <2>2. SessionTypeOK' /\ Head(bufferList[app.session]) \in Node
    BY <1>4, <2>1, PopFrontType DEF TypeOK, DelDrain, CaptureDelDrain
  <2>3. Head(bufferList[app.session]).buffer \in Block
    BY <2>2 DEF Node, Block
  <2>4. PoolTypeOK'
    BY <1>4, <2>3, ReleaseType DEF TypeOK, DelDrain, CaptureDelDrain
  <2> QED  BY <1>4, <2>2, <2>4, TypeUnchanged DEF DelDrain, CaptureDelDrain, TypeOK, SDKTypeOK
<1>5. CASE DelErase
  <2>1. app \in Deleting /\ app.session \in Sessions
    BY <1>5, AppFields DEF DelErase, DelPcs
  <2>2. SDKTypeOK'
    BY <1>5, <2>1 DEF TypeOK, SDKTypeOK, DelErase, Deleting, DelPcs
  <2>3. PICK i \in 1..Len(sessionVector) : sessionVector' = RemoveAt(sessionVector, i)
    BY <1>5 DEF DelErase, CaptureDelErase, EraseSession
  <2>4. sessionVector' \in Seq(Sessions)
    BY <2>3, RemoveAtElements DEF TypeOK, CaptureTypeOK
  <2>5. CaptureTypeOK'
    BY <1>5, <2>4 DEF TypeOK, CaptureTypeOK, DelErase, CaptureDelErase
  <2>6. SessionTypeOK'
    BY <1>5, <2>1 DEF TypeOK, SessionTypeOK, DelErase, CaptureDelErase
  <2>7. UNCHANGED poolVars
    BY <1>5 DEF DelErase, CaptureDelErase
  <2> QED  BY <1>5, <2>2, <2>5, <2>6, <2>7, TypeUnchanged DEF DelErase, TypeOK, SDKTypeOK
<1>6. CASE DelFree
  <2>1. app.session \in Sessions
    BY <1>6, AppFields DEF DelFree, DelPcs
  <2>2. SDKTypeOK'
    BY <1>6 DEF TypeOK, SDKTypeOK, DelFree
  <2>3. SessionTypeOK'
    BY <1>6, <2>1, DeleteSessionType DEF TypeOK, DelFree
  <2> QED  BY <1>6, <2>2, <2>3, TypeUnchanged DEF DelFree, TypeOK, SDKTypeOK
<1> QED  BY <1>1, <1>2, <1>3, <1>4, <1>5, <1>6 DEF DelSteps

LEMMA FeedTypes ==
  ASSUME TypeOK, NEW f \in Feeders,
         \/ \E id \in Ids, len \in CallLens : Feed(f, id, len)
         \/ FeederStep(f)
  PROVE  TypeOK'
<1>1. ASSUME NEW id \in Ids, NEW len \in CallLens, Feed(f, id, len)
      PROVE  TypeOK'
  <2>1. [pc |-> "lookup", len |-> len,
         pkt |-> [to |-> id, via |-> f, n |-> sent + 1]] \in Looking
    BY ReceiverAssumption DEF TypeOK, ReceiverTypeOK, Looking, Packet
  <2>2. ReceiverTypeOK'
    BY <1>1, <2>1 DEF TypeOK, ReceiverTypeOK, Feed, OnRTPData
  <2> QED  BY <1>1, <2>2, TypeUnchanged DEF Feed, OnRTPData, TypeOK, SDKTypeOK
<1>2. ASSUME Refuse(f), UNCHANGED <<captureVars, sdkVars>>
      PROVE  TypeOK'
  <2>1. ReceiverTypeOK'
    BY <1>2 DEF TypeOK, ReceiverTypeOK, Refuse, LeaveEarly
  <2> QED  BY <1>2, <2>1, TypeUnchanged DEF Refuse, LeaveEarly, TypeOK, SDKTypeOK
<1>3. ASSUME NEW b, Fill(f, b), UNCHANGED <<captureVars, sdkVars>>
      PROVE  TypeOK'
  <2>1. PoolTypeOK' /\ b \in Nat \ {0}
    BY <1>3, GetType DEF TypeOK, Fill, Block
  <2>2. call[f] \in Looking
    BY <1>3 DEF TypeOK, ReceiverTypeOK, Fill, Idle, Looking, Pushing
  <2>3. sessionMap[call[f].pkt.to] \in Sessions
    BY <1>3, <2>2 DEF TypeOK, ReceiverTypeOK, Fill, Refused, Looking, Packet
  <2>4. [buffer |-> b, len |-> call[f].len, pkt |-> call[f].pkt] \in Node
    BY <2>1, <2>2 DEF Looking, Node
  <2>5. [pc |-> "push", session |-> sessionMap[call[f].pkt.to],
         node |-> [buffer |-> b, len |-> call[f].len, pkt |-> call[f].pkt]] \in Pushing
    BY <2>3, <2>4 DEF Pushing
  <2>6. ReceiverTypeOK'
    BY <1>3, <2>5 DEF TypeOK, ReceiverTypeOK, Fill, KeepMapLocked, Threads
  <2> QED  BY <1>3, <2>1, <2>6, TypeUnchanged DEF Fill, TypeOK, SDKTypeOK
<1>4. ASSUME PushCall(f), UNCHANGED <<captureVars, sdkVars>>
      PROVE  TypeOK'
  <2>1. call[f].session \in Sessions /\ call[f].node \in Node
    BY <1>4 DEF TypeOK, ReceiverTypeOK, PushCall, Idle, Looking, Pushing
  <2>2. SessionTypeOK'
    BY <1>4, <2>1, PushType DEF TypeOK, PushCall
  <2>3. ReceiverTypeOK'
    BY <1>4 DEF TypeOK, ReceiverTypeOK, PushCall
  <2> QED  BY <1>4, <2>2, <2>3, TypeUnchanged DEF PushCall, TypeOK, SDKTypeOK
<1> QED  BY <1>1, <1>2, <1>3, <1>4 DEF FeederStep

(* A handler stays a handler when one of its sockets changes its contents. *)
LEMMA HandlersType ==
  ASSUME TypeOK, NEW h \in 1..Len(handlers), NEW m \in Media, NEW q \in Seq(Datagram)
  PROVE  [handlers EXCEPT ![h].queue[m] = q] \in Seq(Handler)
<1>1. handlers \in Seq(Handler) /\ handlers[h] \in Handler
  BY ElementOfSeq DEF TypeOK, ReceiverTypeOK
<1>2. [handlers[h] EXCEPT !.queue = [@ EXCEPT ![m] = q]] \in Handler
  BY <1>1 DEF Handler
<1>3. [handlers EXCEPT ![h].queue[m] = q]
        = [handlers EXCEPT ![h] = [handlers[h] EXCEPT !.queue = [@ EXCEPT ![m] = q]]]
  BY <1>1
<1> QED  BY <1>1, <1>2, <1>3, ExceptSeq

LEMMA SocketTypes ==
  ASSUME TypeOK,
         \/ \E h \in 1..Len(handlers), m \in Media, len \in DatagramLens : Receive(h, m, len)
         \/ \E h \in 1..Len(handlers), m \in Media : ReadSocket(h, m)
         \/ PushSocket
  PROVE  TypeOK'
<1>1. ASSUME NEW h \in 1..Len(handlers), NEW m \in Media
      PROVE  handlers[h] \in Handler /\ handlers[h].queue[m] \in Seq(Datagram)
  <2>1. handlers[h] \in Handler
    BY ElementOfSeq DEF TypeOK, ReceiverTypeOK
  <2> QED  BY <2>1 DEF Handler
<1>2. ASSUME NEW h \in 1..Len(handlers), NEW m \in Media, NEW len \in DatagramLens,
             Receive(h, m, len)
      PROVE  TypeOK'
  <2> DEFINE d == [len |-> len, pkt |-> [to |-> handlers[h].id, via |-> m, n |-> sent + 1]]
  <2>1. d \in Datagram
    BY <1>1, ReceiverAssumption DEF TypeOK, ReceiverTypeOK, Handler, Datagram, Packet
  <2>2. Append(handlers[h].queue[m], d) \in Seq(Datagram)
    BY <1>1, <2>1, AppendProperties
  <2>3. handlers' = [handlers EXCEPT ![h].queue[m] = Append(handlers[h].queue[m], d)]
    BY <1>2 DEF Receive, Arrive
  <2> HIDE DEF d
  <2>4. handlers' \in Seq(Handler)
    BY <2>2, <2>3, HandlersType
  <2>5. ReceiverTypeOK'
    BY <1>2, <2>4 DEF TypeOK, ReceiverTypeOK, Receive, Arrive
  <2> QED  BY <1>2, <2>5, TypeUnchanged DEF Receive, Arrive, TypeOK, SDKTypeOK
<1>3. ASSUME NEW h \in 1..Len(handlers), NEW m \in Media, ReadSocket(h, m)
      PROVE  TypeOK'
  <2>1. PICK b : OnSocketReadable(h, m, b)
    BY <1>3 DEF ReadSocket
  <2>2. PoolTypeOK' /\ b \in Nat \ {0}
    BY <2>1, GetType DEF TypeOK, OnSocketReadable, Block
  <2>3. /\ Head(handlers[h].queue[m]) \in Datagram
        /\ Tail(handlers[h].queue[m]) \in Seq(Datagram)
    BY <1>1, <2>1, HeadTailProperties DEF OnSocketReadable, Readable
  <2>4. handlers' \in Seq(Handler)
    BY <2>1, <2>3, HandlersType DEF OnSocketReadable
  <2>5. t1' \in Pushing
    BY <1>1, <2>1, <2>2, <2>3, ReceiverAssumption
    DEF OnSocketReadable, Pushing, Node, Datagram, Handler
  <2>6. ReceiverTypeOK'
    BY <2>1, <2>4, <2>5 DEF TypeOK, ReceiverTypeOK, OnSocketReadable
  <2>7. UNCHANGED <<sessionVars, captureVars, sdkVars>>
    BY <1>3, <2>1 DEF ReadSocket, OnSocketReadable
  <2> QED  BY <2>2, <2>6, <2>7, TypeUnchanged DEF TypeOK, SDKTypeOK
<1>4. CASE PushSocket
  <2>1. t1.session \in Sessions /\ t1.node \in Node
    BY <1>4 DEF TypeOK, ReceiverTypeOK, PushSocket, PushDatagram, Idle, Pushing
  <2>2. SessionTypeOK'
    BY <1>4, <2>1, PushType DEF TypeOK, PushSocket, PushDatagram
  <2>3. ReceiverTypeOK'
    BY <1>4 DEF TypeOK, ReceiverTypeOK, PushSocket, PushDatagram
  <2> QED  BY <1>4, <2>2, <2>3, TypeUnchanged DEF PushSocket, PushDatagram, TypeOK, SDKTypeOK
<1> QED  BY <1>2, <1>3, <1>4

(* The session that the iterator stands at.                                *)
LEMMA CurrentType ==
  ASSUME TypeOK, IteratorValid, t2.pc \in {"drain", "release"}
  PROVE  Current \in Sessions /\ t2.it \in 1..Len(sessionVector)
BY ElementOfSeq, LenProperties DEF TypeOK, CaptureTypeOK, IteratorValid, Current

LEMMA CaptureTypes ==
  ASSUME TypeOK, IteratorValid, Capture
  PROVE  TypeOK'
<1> USE DEF Capture
<1>1. CASE StartRound \/ EndRound
  <2>1. t2' \in [pc : T2Pcs, it : Nat \ {0}, buffer : Nat]
    <3>1. t2 \in [pc : T2Pcs, it : Nat \ {0}, buffer : Nat]
      BY DEF TypeOK, CaptureTypeOK
    <3>2. \/ t2' = [t2 EXCEPT !.pc = "scan", !.it = 1]
          \/ t2' = [t2 EXCEPT !.pc = "idle", !.it = 1]
      BY <1>1, Zenon DEF StartRound, EndRound
    <3>3. 1 \in Nat \ {0} /\ "scan" \in T2Pcs /\ "idle" \in T2Pcs
      BY DEF T2Pcs
    <3>4. CASE t2' = [t2 EXCEPT !.pc = "scan", !.it = 1]
      BY <3>1, <3>3, <3>4
    <3>5. CASE t2' = [t2 EXCEPT !.pc = "idle", !.it = 1]
      BY <3>1, <3>3, <3>5
    <3> QED  BY <3>2, <3>4, <3>5
  <2>2. CaptureTypeOK'
    BY <1>1, <2>1 DEF TypeOK, CaptureTypeOK, StartRound, EndRound
  <2> QED  BY <1>1, <2>2, TypeUnchanged DEF StartRound, EndRound, TypeOK, SDKTypeOK
<1>2. CASE EnterSession
  <2>1. Current \in Sessions
    BY <1>2, ElementOfSeq DEF TypeOK, CaptureTypeOK, EnterSession, PastEnd, Current
  <2>2. SessionTypeOK'
    BY <1>2, <2>1, LockBufferType DEF TypeOK, EnterSession, Threads
  <2>3. CaptureTypeOK'
    BY <1>2 DEF TypeOK, CaptureTypeOK, EnterSession, T2Pcs
  <2> QED  BY <1>2, <2>2, <2>3, TypeUnchanged DEF EnterSession, TypeOK, SDKTypeOK
<1>3. CASE Record
  <2>1. Current \in Sessions
    BY <1>3, CurrentType DEF Record
  <2>2. SessionTypeOK' /\ Head(bufferList[Current]) \in Node
    BY <1>3, <2>1, PopFrontType DEF TypeOK, Record
  <2>3. /\ Head(bufferList[Current]).pkt \in Packet
        /\ Head(bufferList[Current]).buffer \in Nat
        /\ sessionID[Current] \in Ids
    BY <2>1, <2>2 DEF Node, TypeOK, SessionTypeOK
  <2>4. Append(recorded[sessionID[Current]], Head(bufferList[Current]).pkt) \in Seq(Packet)
    BY <2>3, AppendProperties DEF TypeOK, CaptureTypeOK
  <2>5. recorded' \in [Ids -> Seq(Packet)]
    BY <1>3, <2>3, <2>4 DEF TypeOK, CaptureTypeOK, Record
  <2>6. CaptureTypeOK'
    BY <1>3, <2>3, <2>5 DEF TypeOK, CaptureTypeOK, Record, T2Pcs
  <2> QED  BY <1>3, <2>2, <2>6, TypeUnchanged DEF Record, KeepBlock, TypeOK, SDKTypeOK
<1>4. CASE ReleaseRecorded
  <2>1. PoolTypeOK'
    BY <1>4, ReleaseType DEF TypeOK, ReleaseRecorded, IteratorValid
  <2>2. CaptureTypeOK'
    BY <1>4 DEF TypeOK, CaptureTypeOK, ReleaseRecorded, T2Pcs
  <2> QED  BY <1>4, <2>1, <2>2, TypeUnchanged DEF ReleaseRecorded, TypeOK, SDKTypeOK
<1>5. CASE LeaveSession
  <2>1. Current \in Sessions
    BY <1>5, CurrentType DEF LeaveSession
  <2>2. SessionTypeOK'
    BY <1>5, <2>1 DEF TypeOK, SessionTypeOK, LeaveSession
  <2>3. t2' \in [pc : T2Pcs, it : Nat \ {0}, buffer : Nat]
    <3>1. t2 \in [pc : T2Pcs, it : Nat \ {0}, buffer : Nat]
      BY DEF TypeOK, CaptureTypeOK
    <3>2. t2' = [t2 EXCEPT !.pc = "scan", !.it = t2.it + 1]
      BY <1>5 DEF LeaveSession
    <3>3. t2.it + 1 \in Nat \ {0}
      BY <3>1
    <3> QED  BY <3>1, <3>2, <3>3 DEF T2Pcs
  <2>5. CaptureTypeOK'
    BY <1>5, <2>3 DEF TypeOK, CaptureTypeOK, LeaveSession
  <2>4. UNCHANGED poolVars
    BY <1>5 DEF LeaveSession
  <2> QED  BY <1>5, <2>2, <2>5, <2>4, TypeUnchanged DEF LeaveSession, TypeOK, SDKTypeOK
<1> QED  BY <1>1, <1>2, <1>3, <1>4, <1>5 DEF T2Step

LEMMA TypeStep ==
  ASSUME TypeOK, IteratorValid, [Next]_vars
  PROVE  TypeOK'
<1>1. CASE UNCHANGED vars
  BY <1>1, TypeUnchanged DEF vars, TypeOK, SDKTypeOK
<1> QED  BY <1>1, AddTypes, DelTypes, FeedTypes, SocketTypes, CaptureTypes DEF Next

-------------------------------------------------------------------------------
(* The mutexes.                                                            *)

LEMMA MapLockStep ==
  ASSUME TypeOK, MapLockHeld, [Next]_vars
  PROVE  MapLockHeld'
<1>1. CASE UNCHANGED <<sessionMapMutex, call>>
  BY <1>1 DEF MapLockHeld
<1>2. ASSUME NEW f \in Feeders, NEW id \in Ids, NEW len \in CallLens, Feed(f, id, len)
      PROVE  MapLockHeld'
  BY <1>2 DEF Feed, OnRTPData, Idle, MapLockHeld, TypeOK, ReceiverTypeOK
<1>3. ASSUME NEW f \in Feeders, Refuse(f)
      PROVE  MapLockHeld'
  BY <1>3 DEF Refuse, LeaveEarly, Idle, MapLockHeld, TypeOK, ReceiverTypeOK
<1>4. ASSUME NEW f \in Feeders, NEW b, Fill(f, b)
      PROVE  MapLockHeld'
  BY <1>4, SessionAssumption DEF Fill, KeepMapLocked, MapLockHeld, TypeOK, ReceiverTypeOK
<1>5. ASSUME NEW f \in Feeders, PushCall(f)
      PROVE  MapLockHeld'
  BY <1>5, SessionAssumption DEF PushCall, Idle, MapLockHeld, TypeOK, ReceiverTypeOK
<1>6. (\E s \in Sessions, ports \in Ports : AddSession(s, ports)) \/ AddSteps
        => UNCHANGED <<sessionMapMutex, call>>
  BY DEF AddSession, AddSteps, AddToReceiver, ReceiverAdd, BindFails, ReceiverAddFails,
         AddToCapture, receiverVars
<1>7. (\E id \in Ids : DelSession(id)) \/ DelSteps => UNCHANGED <<sessionMapMutex, call>>
  BY DEF DelSession, DelSteps, DelFind, DelLockBuffer, DelDrain, DelErase, DelFree, receiverVars
<1>8. ASSUME \/ \E h \in 1..Len(handlers), m \in Media, len \in DatagramLens : Receive(h, m, len)
             \/ \E h \in 1..Len(handlers), m \in Media : ReadSocket(h, m)
             \/ PushSocket
             \/ Capture
             \/ UNCHANGED vars
      PROVE  UNCHANGED <<sessionMapMutex, call>>
  BY <1>8 DEF Receive, Arrive, ReadSocket, OnSocketReadable, PushSocket, PushDatagram, Capture,
         receiverVars, vars
<1>9. (\E f \in Feeders, id \in Ids, len \in CallLens : Feed(f, id, len)) => MapLockHeld'
  BY <1>2
<1>10. (\E f \in Feeders : FeederStep(f)) => MapLockHeld'
  BY <1>3, <1>4, <1>5 DEF FeederStep
<1> QED  BY <1>1, <1>6, <1>7, <1>8, <1>9, <1>10 DEF Next

(* A step of the receivers, or of nobody, and what it leaves alone.        *)
ReceiversStep ==
  \/ \E f \in Feeders, id \in Ids, len \in CallLens : Feed(f, id, len)
  \/ \E f \in Feeders : FeederStep(f)
  \/ \E h \in 1..Len(handlers), m \in Media, len \in DatagramLens : Receive(h, m, len)
  \/ \E h \in 1..Len(handlers), m \in Media : ReadSocket(h, m)
  \/ PushSocket
  \/ UNCHANGED vars

LEMMA ReceiversFrame ==
  ASSUME ReceiversStep
  PROVE  UNCHANGED <<live, sessionID, bufferMutex, captureVars, sdkVars>>
BY DEF ReceiversStep, Feed, OnRTPData, FeederStep, Refuse, Fill, PushCall, Receive, Arrive,
       ReadSocket, OnSocketReadable, PushSocket, PushDatagram, Push, vars, sessionVars

LEMMA VectorLockStep ==
  ASSUME TypeOK, VectorLockHeld, [Next]_vars
  PROVE  VectorLockHeld'
<1> USE SessionAssumption
<1>1. CASE UNCHANGED <<sessionVectorMutex, t2, app>>
  BY <1>1 DEF VectorLockHeld
<1>2. ASSUME NEW s \in Sessions, NEW ports \in Ports, AddSession(s, ports)
      PROVE  VectorLockHeld'
  BY <1>2 DEF AddSession, Idle, VectorLockHeld, captureVars
<1>3. CASE AddSteps
  BY <1>3, AppFields DEF AddSteps, AddToReceiver, BindFails, AddToCapture, CaptureAdd, Idle,
     Adding, AddPcs, VectorLockHeld, captureVars
<1>4. ASSUME NEW id \in Ids, DelSession(id)
      PROVE  VectorLockHeld'
  BY <1>4 DEF DelSession, Idle, VectorLockHeld, captureVars
<1>5. CASE DelFind
  BY <1>5, AppFields DEF DelFind, CaptureDelFind, Deleting, DelPcs, VectorLockHeld
<1>6. CASE DelLockBuffer
  BY <1>6, AppFields DEF DelLockBuffer, Deleting, DelPcs, VectorLockHeld, captureVars
<1>7. CASE DelDrain
  BY <1>7 DEF DelDrain, CaptureDelDrain, VectorLockHeld, captureVars, sdkVars
<1>8. CASE DelErase
  BY <1>8, AppFields DEF DelErase, CaptureDelErase, Deleting, DelPcs, VectorLockHeld
<1>9. CASE DelFree
  BY <1>9 DEF DelFree, Idle, VectorLockHeld, captureVars
<1>10. CASE Capture
  <2>1. CASE StartRound
    BY <1>10, <2>1 DEF Capture, StartRound, VectorLockHeld, TypeOK, CaptureTypeOK, sdkVars
  <2>2. CASE EndRound
    BY <1>10, <2>2 DEF Capture, EndRound, VectorLockHeld, TypeOK, CaptureTypeOK, sdkVars
  <2>3. CASE EnterSession \/ Record \/ ReleaseRecorded \/ LeaveSession
    BY <1>10, <2>3 DEF Capture, EnterSession, Record, ReleaseRecorded, LeaveSession,
       VectorLockHeld, TypeOK, CaptureTypeOK, sdkVars
  <2> QED  BY <1>10, <2>1, <2>2, <2>3 DEF Capture, T2Step
<1>11. ASSUME ReceiversStep
       PROVE  UNCHANGED <<sessionVectorMutex, t2, app>>
  BY <1>11, ReceiversFrame DEF captureVars, sdkVars
<1>12. (\E s \in Sessions, ports \in Ports : AddSession(s, ports)) => VectorLockHeld'
  BY <1>2
<1>13. (\E id \in Ids : DelSession(id)) => VectorLockHeld'
  BY <1>4
<1>14. DelSteps => VectorLockHeld'
  BY <1>5, <1>6, <1>7, <1>8, <1>9 DEF DelSteps
<1> QED  BY <1>1, <1>3, <1>10, <1>11, <1>12, <1>13, <1>14 DEF Next, ReceiversStep

LEMMA BufferLockStep ==
  ASSUME IInv, [Next]_vars
  PROVE  BufferLockHeld'
<1> USE SessionAssumption
<1> USE DEF IInv, LocksHeld
<1> DEFINE Same == UNCHANGED <<bufferMutex, t2, app, sessionVector>>
<1>1. CASE Same
  BY <1>1 DEF BufferLockHeld, Current
<1>2. ASSUME NEW s \in Sessions, NEW ports \in Ports, AddSession(s, ports)
      PROVE  BufferLockHeld'
  <2>1. ~(t2.pc \in {"drain", "release"} /\ Current = s)
    BY <1>2, CurrentType DEF AddSession, NewSession, CaptureSideSafe, Current
  <2> QED  BY <1>2, <2>1 DEF AddSession, NewSession, Idle, BufferLockHeld, Current, captureVars,
              TypeOK, SessionTypeOK
<1>3. CASE AddToReceiver \/ BindFails
  BY <1>3, AppFields DEF AddToReceiver, BindFails, Idle, Adding, AddPcs, BufferLockHeld, Current,
     sessionVars, captureVars
<1>4. CASE AddToCapture
  <2>1. t2.pc = "idle" /\ t2' = t2 /\ bufferMutex' = bufferMutex
    BY <1>4 DEF AddToCapture, CaptureAdd, VectorLockHeld, sessionVars
  <2> QED  BY <1>4, <2>1 DEF AddToCapture, Idle, BufferLockHeld
<1>5. ASSUME NEW id \in Ids, DelSession(id)
      PROVE  BufferLockHeld'
  BY <1>5 DEF DelSession, Idle, BufferLockHeld, Current, sessionVars, captureVars
<1>6. CASE DelFind
  BY <1>6, AppFields DEF DelFind, CaptureDelFind, Deleting, DelPcs, BufferLockHeld, Current,
     sessionVars
<1>7. CASE DelLockBuffer
  BY <1>7, AppFields DEF DelLockBuffer, LockBuffer, Deleting, DelPcs, BufferLockHeld, Current,
     captureVars, TypeOK, SessionTypeOK
<1>8. CASE DelDrain
  BY <1>8 DEF DelDrain, CaptureDelDrain, PopFront, BufferLockHeld, Current, captureVars, sdkVars
<1>9. CASE DelErase
  <2>1. t2.pc = "idle" /\ t2' = t2
    BY <1>9 DEF DelErase, CaptureDelErase, VectorLockHeld
  <2> QED  BY <1>9, <2>1, AppFields DEF DelErase, CaptureDelErase, Deleting, DelPcs,
              BufferLockHeld, TypeOK, SessionTypeOK
<1>10. CASE DelFree
  BY <1>10 DEF DelFree, DeleteSession, Idle, BufferLockHeld, Current, captureVars
<1>11. CASE Capture
  <2>1. CASE StartRound \/ EndRound
    BY <1>11, <2>1 DEF Capture, StartRound, EndRound, BufferLockHeld, TypeOK, CaptureTypeOK,
       sessionVars, sdkVars
  <2>2. CASE EnterSession
    <3>1. Current' = Current /\ t2'.pc = "drain" /\ app' = app /\ t2.pc = "scan"
      BY <1>11, <2>2 DEF Capture, EnterSession, Current, TypeOK, CaptureTypeOK, sdkVars
    <3> QED  BY <2>2, <3>1 DEF EnterSession, LockBuffer, BufferLockHeld, TypeOK, SessionTypeOK
  <2>3. CASE Record \/ ReleaseRecorded
    <3>1. /\ Current' = Current /\ app' = app /\ bufferMutex' = bufferMutex
          /\ t2.pc \in {"drain", "release"} /\ t2'.pc \in {"drain", "release"}
      BY <1>11, <2>3 DEF Capture, Record, ReleaseRecorded, PopFront, Current, TypeOK,
         CaptureTypeOK, sessionVars, sdkVars
    <3> QED  BY <3>1 DEF BufferLockHeld
  <2>4. CASE LeaveSession
    <3>1. /\ t2.pc = "drain" /\ t2'.pc = "scan" /\ app' = app
          /\ bufferMutex' = [bufferMutex EXCEPT ![Current] = NoOne]
      BY <1>11, <2>4 DEF Capture, LeaveSession, TypeOK, CaptureTypeOK, sdkVars
    <3> QED  BY <3>1 DEF BufferLockHeld, TypeOK, SessionTypeOK
  <2> QED  BY <1>11, <2>1, <2>2, <2>3, <2>4 DEF Capture, T2Step
<1> QED
  BY <1>1, <1>2, <1>3, <1>4, <1>5, <1>6, <1>7, <1>8, <1>9, <1>10, <1>11, ReceiversFrame
  DEF Next, AddSteps, DelSteps, ReceiversStep, captureVars, sdkVars

-------------------------------------------------------------------------------
(* The capture side.                                                       *)

LEMMA IteratorStep ==
  ASSUME IInv, [Next]_vars
  PROVE  IteratorValid'
<1> USE DEF IInv, LocksHeld
<1>1. CASE UNCHANGED <<t2, sessionVector>>
  BY <1>1 DEF IteratorValid
<1>2. CASE AddToCapture
  BY <1>2, SessionAssumption DEF AddToCapture, CaptureAdd, VectorLockHeld, IteratorValid
<1>3. CASE DelErase
  BY <1>3, SessionAssumption DEF DelErase, CaptureDelErase, VectorLockHeld, IteratorValid
<1>4. CASE Capture
  <2>1. CASE StartRound \/ EndRound \/ LeaveSession
    BY <2>1 DEF StartRound, EndRound, LeaveSession, IteratorValid, TypeOK, CaptureTypeOK
  <2>2. CASE EnterSession
    BY <2>2 DEF EnterSession, PastEnd, IteratorValid, TypeOK, CaptureTypeOK
  <2>3. CASE Record
    <3>1. Current \in Sessions
      BY <2>3, CurrentType DEF Record
    <3>2. Head(bufferList[Current]).buffer \in Block
      BY <2>3, <3>1, PopFrontType DEF Record, TypeOK, Node, Block
    <3> QED  BY <2>3, <3>2 DEF Record, IteratorValid, TypeOK, CaptureTypeOK
  <2>4. CASE ReleaseRecorded
    BY <2>4 DEF ReleaseRecorded, IteratorValid, TypeOK, CaptureTypeOK
  <2> QED  BY <1>4, <2>1, <2>2, <2>3, <2>4 DEF Capture, T2Step
<1>5. (\E s \in Sessions, ports \in Ports : AddSession(s, ports)) => UNCHANGED <<t2, sessionVector>>
  BY DEF AddSession, captureVars
<1>6. (\E id \in Ids : DelSession(id)) => UNCHANGED <<t2, sessionVector>>
  BY DEF DelSession, captureVars
<1>7. ASSUME AddToReceiver \/ BindFails \/ DelFind \/ DelLockBuffer \/ DelDrain \/ DelFree
      PROVE  UNCHANGED <<t2, sessionVector>>
  BY <1>7 DEF AddToReceiver, BindFails, DelFind, CaptureDelFind, DelLockBuffer, DelDrain,
     CaptureDelDrain, DelFree, captureVars
<1>8. ASSUME ReceiversStep PROVE UNCHANGED <<t2, sessionVector>>
  BY <1>8, ReceiversFrame DEF captureVars
<1> QED
  BY <1>1, <1>2, <1>3, <1>4, <1>5, <1>6, <1>7, <1>8 DEF Next, AddSteps, DelSteps, ReceiversStep

(* What DelErase leaves in the vector: every session that was in it except *)
(* App's, each still once.                                                 *)
LEMMA EraseVector ==
  ASSUME IInv, DelErase
  PROVE  /\ sessionVector' \in Seq(Sessions)
         /\ \A k \in 1..Len(sessionVector') :
              /\ sessionVector'[k] # app.session
              /\ \E j \in 1..Len(sessionVector) : sessionVector'[k] = sessionVector[j]
         /\ \A k, l \in 1..Len(sessionVector') : sessionVector'[k] = sessionVector'[l] => k = l
<1>1. PICK i \in 1..Len(sessionVector) :
        /\ sessionVector[i] = app.session
        /\ sessionVector' = RemoveAt(sessionVector, i)
  BY DEF DelErase, CaptureDelErase, EraseSession
<1>2. sessionVector \in Seq(Sessions) /\ Len(sessionVector) \in Nat
  BY LenProperties DEF IInv, TypeOK, CaptureTypeOK
<1>3. /\ sessionVector' \in Seq(Sessions)
      /\ Len(sessionVector') = Len(sessionVector) - 1
      /\ \A j \in 1..(Len(sessionVector) - 1) :
           sessionVector'[j] = IF j < i THEN sessionVector[j] ELSE sessionVector[j + 1]
  BY <1>1, <1>2, RemoveAtElements
<1>4. \A j, k \in 1..Len(sessionVector) : sessionVector[j] = sessionVector[k] => j = k
  BY DEF IInv, CaptureSideSafe
<1> DEFINE from(k) == IF k < i THEN k ELSE k + 1
<1>5. \A k \in 1..Len(sessionVector') : /\ from(k) \in 1..Len(sessionVector)
                                        /\ from(k) # i
                                        /\ sessionVector'[k] = sessionVector[from(k)]
  BY <1>1, <1>2, <1>3
<1>6. \A k, l \in 1..Len(sessionVector') : from(k) = from(l) => k = l
  BY <1>1, <1>2, <1>3
<1> HIDE DEF from
<1>7. \A k \in 1..Len(sessionVector') : sessionVector'[k] # app.session
  <2>1. i \in 1..Len(sessionVector) /\ sessionVector[i] = app.session
    BY <1>1
  <2> QED  BY <1>4, <1>5, <2>1
<1>8. \A k \in 1..Len(sessionVector') : \E j \in 1..Len(sessionVector) :
        sessionVector'[k] = sessionVector[j]
  BY <1>5
<1>9. ASSUME NEW k \in 1..Len(sessionVector'), NEW l \in 1..Len(sessionVector'),
             sessionVector'[k] = sessionVector'[l]
      PROVE  k = l
  <2>1. from(k) = from(l)
    BY <1>4, <1>5, <1>9
  <2> QED  BY <1>6, <2>1
<1> QED  BY <1>3, <1>7, <1>8, <1>9

LEMMA CaptureSafeStep ==
  ASSUME IInv, [Next]_vars
  PROVE  CaptureSideSafe'
<1> USE DEF IInv
<1>1. CASE UNCHANGED <<sessionVector, rtpDump>> /\ live \subseteq live'
  BY <1>1 DEF CaptureSideSafe
<1>2. CASE AddToCapture
  <2>1. app.session \in Sessions /\ app.session \in live /\ ~InVector(app.session)
    BY <1>2, AppFields DEF AddToCapture, AppSession, AddPcs
  <2>2. /\ sessionVector' = Append(sessionVector, app.session)
        /\ rtpDump' = rtpDump \cup {app.session}
        /\ live' = live
    BY <1>2 DEF AddToCapture, CaptureAdd, sessionVars
  <2>3. /\ Len(sessionVector) \in Nat
        /\ Len(sessionVector') = Len(sessionVector) + 1
        /\ \A i \in 1..Len(sessionVector) : sessionVector'[i] = sessionVector[i]
        /\ sessionVector'[Len(sessionVector) + 1] = app.session
    BY <2>1, <2>2, AppendProperties, LenProperties DEF TypeOK, CaptureTypeOK
  <2>4. \A i \in 1..Len(sessionVector') : i \in 1..Len(sessionVector) \/ i = Len(sessionVector) + 1
    BY <2>3
  <2> QED  BY <2>1, <2>2, <2>3, <2>4 DEF CaptureSideSafe, InVector
<1>3. CASE DelErase
  <2>1. live' = live /\ rtpDump' = rtpDump \ {app.session}
    BY <1>3 DEF DelErase, CaptureDelErase
  <2> QED  BY <1>3, <2>1, EraseVector DEF CaptureSideSafe
<1>4. CASE DelFree
  <2>1. /\ live' = live \ {app.session}
        /\ UNCHANGED <<sessionVector, rtpDump>>
        /\ ~InVector(app.session)
    BY <1>4 DEF DelFree, DeleteSession, AppSession, captureVars
  <2> QED  BY <2>1 DEF CaptureSideSafe, InVector
<1>5. ASSUME NEW s \in Sessions, NEW ports \in Ports, AddSession(s, ports)
      PROVE  UNCHANGED <<sessionVector, rtpDump>> /\ live \subseteq live'
  BY <1>5 DEF AddSession, NewSession, captureVars
<1>6. ASSUME NEW id \in Ids, DelSession(id)
      PROVE  UNCHANGED <<sessionVector, rtpDump>> /\ live \subseteq live'
  BY <1>6 DEF DelSession, captureVars, sessionVars
<1>7. ASSUME AddToReceiver \/ BindFails \/ DelFind \/ DelLockBuffer \/ DelDrain \/ Capture
      PROVE  UNCHANGED <<sessionVector, rtpDump>> /\ live \subseteq live'
  BY <1>7 DEF AddToReceiver, BindFails, DelFind, CaptureDelFind, DelLockBuffer, LockBuffer,
     DelDrain, CaptureDelDrain, PopFront, Capture, T2Step, StartRound, EnterSession, Record,
     ReleaseRecorded, LeaveSession, EndRound, captureVars, sessionVars
<1>8. ASSUME ReceiversStep
      PROVE  UNCHANGED <<sessionVector, rtpDump>> /\ live \subseteq live'
  BY <1>8, ReceiversFrame DEF captureVars
<1> QED
  BY <1>1, <1>2, <1>3, <1>4, <1>5, <1>6, <1>7, <1>8 DEF Next, AddSteps, DelSteps, ReceiversStep

LEMMA AppSessionStep ==
  ASSUME IInv, [Next]_vars
  PROVE  AppSession'
<1> USE DEF IInv
<1>1. CASE UNCHANGED <<app, sessionVector, live>>
  BY <1>1 DEF AppSession, InVector
<1>2. ASSUME NEW s \in Sessions, NEW ports \in Ports, AddSession(s, ports)
      PROVE  AppSession'
  BY <1>2 DEF AddSession, NewSession, AppSession, InVector, CaptureSideSafe, AddPcs, captureVars
<1>3. CASE AddToReceiver
  BY <1>3, AppFields DEF AddToReceiver, AppSession, InVector, Adding, AddPcs, captureVars,
     sessionVars
<1>4. CASE BindFails \/ AddToCapture \/ DelFree
  BY <1>4 DEF BindFails, AddToCapture, DelFree, Idle, AppSession, AddPcs
<1>5. ASSUME NEW id \in Ids, DelSession(id)
      PROVE  AppSession'
  BY <1>5 DEF DelSession, AppSession, AddPcs
<1>6. CASE DelFind
  BY <1>6, AppFields DEF DelFind, CaptureDelFind, AppSession, InVector, Deleting, DelPcs, AddPcs
<1>7. CASE DelLockBuffer
  BY <1>7, AppFields DEF DelLockBuffer, AppSession, Deleting, DelPcs, AddPcs
<1>8. CASE DelDrain
  BY <1>8 DEF DelDrain, AppSession, AddPcs, sdkVars
<1>9. CASE DelErase
  <2>1. app'.pc = "free" /\ app'.session = app.session
    BY <1>9, AppFields DEF DelErase, Deleting, DelPcs
  <2> QED  BY <1>9, <2>1, EraseVector DEF AppSession, InVector, AddPcs
<1>10. ASSUME Capture PROVE UNCHANGED <<app, sessionVector, live>>
  BY <1>10 DEF Capture, T2Step, StartRound, EnterSession, LockBuffer, Record, PopFront,
     ReleaseRecorded, LeaveSession, EndRound, sdkVars, sessionVars
<1>11. ASSUME ReceiversStep PROVE UNCHANGED <<app, sessionVector, live>>
  BY <1>11, ReceiversFrame DEF captureVars, sdkVars
<1> QED
  BY <1>1, <1>2, <1>3, <1>4, <1>5, <1>6, <1>7, <1>8, <1>9, <1>10, <1>11
  DEF Next, AddSteps, DelSteps, ReceiversStep

-------------------------------------------------------------------------------
LEMMA InitIInv == Init => IInv
<1> SUFFICES ASSUME Init PROVE IInv
  OBVIOUS
<1> USE DEF Init
<1>1. PoolTypeOK
  BY PoolAssumption DEF PoolInit, PoolTypeOK, Block
<1>2. SessionTypeOK
  BY SessionAssumption, EmptySeq DEF SessionInit, SessionTypeOK, Ids
<1>3. ReceiverTypeOK
  BY EmptySeq DEF ReceiverInit, ReceiverTypeOK
<1>4. CaptureTypeOK
  BY EmptySeq DEF CaptureInit, CaptureTypeOK, T2Pcs
<1>5. TypeOK
  BY <1>1, <1>2, <1>3, <1>4 DEF TypeOK
<1>6. LocksHeld
  BY SessionAssumption DEF LocksHeld, MapLockHeld, VectorLockHeld, BufferLockHeld, SessionInit,
     ReceiverInit, CaptureInit, Idle
<1>7. CaptureSideSafe /\ IteratorValid /\ AppSession
  BY EmptySeq DEF CaptureSideSafe, IteratorValid, AppSession, CaptureInit, Idle, AddPcs
<1> QED  BY <1>5, <1>6, <1>7 DEF IInv

LEMMA NextIInv == IInv /\ [Next]_vars => IInv'
<1> SUFFICES ASSUME IInv, [Next]_vars PROVE IInv'
  OBVIOUS
<1>1. TypeOK'
  BY TypeStep DEF IInv
<1>2. LocksHeld'
  BY MapLockStep, VectorLockStep, BufferLockStep DEF IInv, LocksHeld
<1>3. CaptureSideSafe' /\ IteratorValid' /\ AppSession'
  BY CaptureSafeStep, IteratorStep, AppSessionStep
<1> QED  BY <1>1, <1>2, <1>3 DEF IInv

THEOREM Invariance == Spec => []IInv
BY InitIInv, NextIInv, PTL DEF Spec

(* Every variable keeps its type: in particular the session ids stay ints  *)
(* that are not negative, and T2 never reads beyond the vector.            *)
THEOREM TypeCorrect == Spec => []TypeOK
<1>1. IInv => TypeOK
  BY DEF IInv
<1> QED  BY Invariance, <1>1, PTL

(* No early return, exception or deletion leaves a mutex locked, and no    *)
(* two threads are ever inside one critical section.                       *)
THEOREM MutexesCorrect == Spec => []LocksHeld
<1>1. IInv => LocksHeld
  BY DEF IInv
<1> QED  BY Invariance, <1>1, PTL

(* CaptureCenter works on live sessions with an RTPDump only, each once,   *)
(* whatever the program around the SDK does.                               *)
THEOREM CaptureSideCorrect == Spec => []CaptureSideSafe
<1>1. IInv => CaptureSideSafe
  BY DEF IInv
<1> QED  BY Invariance, <1>1, PTL

-------------------------------------------------------------------------------
(***************************************************************************)
(* Blocks.                                                                 *)
(***************************************************************************)
-------------------------------------------------------------------------------
(* The bufferLists as a function q: which blocks they hold, and that they  *)
(* hold each of them once.                                                 *)
InLists(q, b) == \E s \in Sessions : \E i \in 1..Len(q[s]) : q[s][i].buffer = b

Once(q) ==
  \A s, u \in Sessions : \A i \in 1..Len(q[s]), j \in 1..Len(q[u]) :
    q[s][i].buffer = q[u][j].buffer => s = u /\ i = j

Lists == [Sessions -> Seq(Node)]

Pushed(q, s, node) == [q EXCEPT ![s] = Append(@, node)]
Popped(q, s) == [q EXCEPT ![s] = Tail(@)]
First(q, s) == Head(q[s]).buffer

LEMMA AppendLists ==
  ASSUME NEW q \in Lists, NEW s \in Sessions, NEW node \in Node, NEW r,
         Once(q), ~InLists(q, node.buffer),
         r = Pushed(q, s, node)
  PROVE  /\ Once(r)
         /\ \A b : InLists(r, b) => InLists(q, b) \/ b = node.buffer
<1>1. /\ Append(q[s], node) \in Seq(Node)
      /\ Len(Append(q[s], node)) = Len(q[s]) + 1
      /\ \A i \in 1..Len(q[s]) : Append(q[s], node)[i] = q[s][i]
      /\ Append(q[s], node)[Len(q[s]) + 1] = node
  BY AppendProperties DEF Lists
<1>2. Len(q[s]) \in Nat
  BY LenProperties DEF Lists
<1>3. r[s] = Append(q[s], node) /\ \A u \in Sessions : u # s => r[u] = q[u]
  BY DEF Lists, Pushed
<1>4. ASSUME NEW u \in Sessions, NEW i \in 1..Len(r[u])
      PROVE  \/ i \in 1..Len(q[u]) /\ r[u][i] = q[u][i]
             \/ u = s /\ i = Len(q[s]) + 1 /\ r[u][i] = node
  BY <1>1, <1>2, <1>3
<1>5. \A b : InLists(r, b) => InLists(q, b) \/ b = node.buffer
  BY <1>4 DEF InLists
<1>6. Once(r)
  <2> SUFFICES ASSUME NEW u \in Sessions, NEW v \in Sessions,
                      NEW i \in 1..Len(r[u]), NEW j \in 1..Len(r[v]),
                      r[u][i].buffer = r[v][j].buffer
               PROVE  u = v /\ i = j
    BY DEF Once
  <2> DEFINE Old(w, k) == k \in 1..Len(q[w]) /\ r[w][k] = q[w][k]
             New(w, k) == w = s /\ k = Len(q[s]) + 1 /\ r[w][k] = node
  <2>1. (Old(u, i) \/ New(u, i)) /\ (Old(v, j) \/ New(v, j))
    BY <1>4
  <2>2. CASE Old(u, i) /\ Old(v, j)
    BY <2>2 DEF Once
  <2>3. CASE New(u, i) /\ New(v, j)
    BY <2>3
  <2>4. CASE Old(u, i) /\ New(v, j)
    BY <2>4 DEF InLists
  <2>5. CASE New(u, i) /\ Old(v, j)
    BY <2>5 DEF InLists
  <2> QED  BY <2>1, <2>2, <2>3, <2>4, <2>5
<1> QED  BY <1>5, <1>6

LEMMA TailLists ==
  ASSUME NEW q \in Lists, NEW s \in Sessions, NEW r,
         Once(q), q[s] # <<>>,
         r = Popped(q, s)
  PROVE  /\ Once(r)
         /\ \A b : InLists(r, b) => InLists(q, b)
         /\ InLists(q, First(q, s))
         /\ ~InLists(r, First(q, s))
<1> DEFINE tl == Tail(q[s])
<1>1. /\ Len(q[s]) \in Nat \ {0} /\ First(q, s) = q[s][1].buffer
      /\ Len(tl) = Len(q[s]) - 1
      /\ \A i \in 1..Len(tl) : tl[i] = q[s][i + 1]
  BY HeadTailProperties, EmptySeq, LenProperties DEF Lists, First
<1>2. r[s] = tl /\ \A u \in Sessions : u # s => r[u] = q[u]
  BY DEF Lists, Popped
<1> HIDE DEF tl
<1>3. ASSUME NEW u \in Sessions, NEW i \in 1..Len(r[u])
      PROVE  \/ u # s /\ i \in 1..Len(q[u]) /\ r[u][i] = q[u][i]
             \/ u = s /\ i + 1 \in 2..Len(q[u]) /\ r[u][i] = q[u][i + 1] /\ i \in Nat
  <2>1. CASE u = s
    <3>1. i \in 1..(Len(q[s]) - 1) /\ r[u] = tl
      BY <1>1, <1>2, <2>1
    <3>2. i \in 1..Len(tl) /\ i + 1 \in 2..Len(q[s])
      BY <1>1, <3>1
    <3>3. r[u][i] = q[s][i + 1] /\ i \in Nat
      BY <1>1, <3>1, <3>2
    <3> QED  BY <2>1, <3>2, <3>3
  <2>2. CASE u # s
    BY <1>2, <2>2
  <2> QED  BY <2>1, <2>2
<1>4. \A u \in Sessions : \A i \in 1..Len(r[u]) :
        \E j \in 1..Len(q[u]) : r[u][i] = q[u][j] /\ (u = s => j # 1)
  BY <1>1, <1>3
<1>5. \A b : InLists(r, b) => InLists(q, b)
  BY <1>4 DEF InLists
<1>6. Once(r)
  <2> SUFFICES ASSUME NEW u \in Sessions, NEW v \in Sessions,
                      NEW i \in 1..Len(r[u]), NEW j \in 1..Len(r[v]),
                      r[u][i].buffer = r[v][j].buffer
               PROVE  u = v /\ i = j
    BY DEF Once
  <2>1. CASE u = s /\ v = s
    <3>1. /\ i + 1 \in 1..Len(q[s]) /\ j + 1 \in 1..Len(q[s])
          /\ r[u][i] = q[s][i + 1] /\ r[v][j] = q[s][j + 1]
      BY <1>1, <1>3, <2>1
    <3>2. i + 1 = j + 1
      BY <3>1 DEF Once
    <3> QED  BY <2>1, <3>2
  <2>2. CASE ~(u = s /\ v = s)
    <3>0. PICK k \in 1..Len(q[u]), l \in 1..Len(q[v]) :
            r[u][i] = q[u][k] /\ r[v][j] = q[v][l]
      BY <1>4
    <3>1. u = v
      BY <3>0 DEF Once
    <3>2. u # s
      BY <2>2, <3>1
    <3> QED  BY <1>2, <3>1, <3>2 DEF Once
  <2> QED  BY <2>1, <2>2
<1>7. InLists(q, First(q, s))
  BY <1>1 DEF InLists
<1>8. ~InLists(r, First(q, s))
  <2> SUFFICES ASSUME NEW u \in Sessions, NEW i \in 1..Len(r[u]),
                      r[u][i].buffer = First(q, s)
               PROVE  FALSE
    BY DEF InLists
  <2>1. PICK j \in 1..Len(q[u]) : r[u][i] = q[u][j] /\ (u = s => j # 1)
    BY <1>4
  <2> QED  BY <1>1, <2>1 DEF Once
<1> QED  BY <1>5, <1>6, <1>7, <1>8

(* What `new' and `delete' of a session do to the lists.                   *)
LEMMA ClearLists ==
  ASSUME NEW q \in Lists, NEW s \in Sessions, NEW r,
         Once(q), r = [q EXCEPT ![s] = <<>>]
  PROVE  Once(r) /\ \A b : InLists(r, b) => InLists(q, b)
<1>1. r[s] = <<>> /\ \A u \in Sessions : u # s => r[u] = q[u]
  BY DEF Lists
<1>2. \A u \in Sessions : \A i \in 1..Len(r[u]) : u # s /\ r[u] = q[u]
  BY <1>1, EmptySeq
<1> QED  BY <1>2 DEF Once, InLists

-------------------------------------------------------------------------------
(* BlockExclusive, with the hands as a function from the threads that have *)
(* a block to the block, so that a step is a change of four values.        *)
Hand == [t \in Holding |-> InHand(t)]

Excl(hand, q, free, n) ==
  /\ \A t, u \in DOMAIN hand : hand[t] = hand[u] => t = u
  /\ Once(q)
  /\ \A t \in DOMAIN hand : /\ ~InLists(q, hand[t])
                            /\ hand[t] \notin free
                            /\ hand[t] \in 1..n
  /\ \A b \in free : ~InLists(q, b) /\ b \in 1..n
  /\ \A b : InLists(q, b) => b \in 1..n

Exclusive == Excl(Hand, bufferList, blocks, allocated)

(* g has only entries that h has.                                          *)
Within(g, h) == \A t \in DOMAIN g : t \in DOMAIN h /\ g[t] = h[t]

LEMMA ExclGet ==
  ASSUME NEW h, NEW q, NEW free, NEW n \in Nat, Excl(h, q, free, n),
         NEW b, NEW m \in Nat,
         \/ b \in free /\ m = n
         \/ b = n + 1 /\ m = n + 1,
         NEW x, NEW g,
         \A t \in DOMAIN g : \/ t = x /\ g[t] = b
                             \/ t \in DOMAIN h /\ g[t] = h[t]
  PROVE  Excl(g, q, free \ {b}, m)
<1>1. /\ \A t \in DOMAIN h : h[t] # b
      /\ ~InLists(q, b)
      /\ b \in 1..m /\ 1..n \subseteq 1..m
  BY DEF Excl
<1>2. \A t, u \in DOMAIN g : g[t] = g[u] => t = u
  BY <1>1 DEF Excl
<1>3. \A t \in DOMAIN g : /\ ~InLists(q, g[t])
                          /\ g[t] \notin free \ {b}
                          /\ g[t] \in 1..m
  BY <1>1 DEF Excl
<1> QED  BY <1>1, <1>2, <1>3 DEF Excl

(* A hand is emptied; its block goes to the end of a list, or nowhere.     *)
LEMMA ExclPush ==
  ASSUME NEW h, NEW q \in Lists, NEW free, NEW n, Excl(h, q, free, n),
         NEW x \in DOMAIN h, NEW g, Within(g, h), x \notin DOMAIN g,
         NEW s \in Sessions, NEW node \in Node, node.buffer = h[x],
         NEW r, r = q \/ r = Pushed(q, s, node)
  PROVE  Excl(g, r, free, n)
<1>1. CASE r = q
  BY <1>1 DEF Excl, Within
<1>2. CASE r = Pushed(q, s, node)
  <2>0. Once(q) /\ ~InLists(q, node.buffer)
    BY DEF Excl
  <2>1. Once(r) /\ \A b : InLists(r, b) => InLists(q, b) \/ b = h[x]
    BY <1>2, <2>0, AppendLists
  <2>2. \A t \in DOMAIN g : g[t] # h[x]
    BY DEF Excl, Within
  <2>3. h[x] \in 1..n /\ h[x] \notin free
    BY DEF Excl
  <2> QED  BY <2>1, <2>2, <2>3 DEF Excl, Within
<1> QED  BY <1>1, <1>2

(* The first node of a list is taken; its block is in a hand, or free.     *)
LEMMA ExclPop ==
  ASSUME NEW h, NEW q \in Lists, NEW free, NEW n, Excl(h, q, free, n),
         NEW s \in Sessions, q[s] # <<>>, NEW x, NEW g, NEW free2,
         \/ /\ \A t \in DOMAIN g : \/ t = x /\ g[t] = First(q, s)
                                   \/ t \in DOMAIN h /\ g[t] = h[t]
            /\ free2 = free
         \/ /\ Within(g, h)
            /\ free2 = free \cup {First(q, s)}
  PROVE  Excl(g, Popped(q, s), free2, n)
<1> DEFINE b == First(q, s)
           r == Popped(q, s)
<1> SUFFICES Excl(g, r, free2, n)
  OBVIOUS
<1>0. Once(q)
  BY DEF Excl
<1>1. /\ Once(r) /\ InLists(q, b) /\ ~InLists(r, b)
      /\ \A c : InLists(r, c) => InLists(q, c)
  BY <1>0, TailLists
<1> HIDE DEF b, r
<1>2. b \in 1..n /\ b \notin free /\ \A t \in DOMAIN h : h[t] # b
  BY <1>1 DEF Excl
<1>5. /\ \A c \in free : ~InLists(r, c) /\ c \in 1..n
      /\ \A c : InLists(r, c) => c \in 1..n
      /\ \A t \in DOMAIN h : /\ ~InLists(r, h[t]) /\ h[t] \notin free
                             /\ h[t] \in 1..n
      /\ \A t, u \in DOMAIN h : h[t] = h[u] => t = u
  BY <1>1 DEF Excl
<1>3. CASE (\A t \in DOMAIN g : \/ t = x /\ g[t] = b
                                \/ t \in DOMAIN h /\ g[t] = h[t]) /\ free2 = free
  <2>1. \A t, u \in DOMAIN g : g[t] = g[u] => t = u
    BY <1>2, <1>3, <1>5
  <2>2. \A t \in DOMAIN g : ~InLists(r, g[t]) /\ g[t] \notin free /\ g[t] \in 1..n
    BY <1>1, <1>2, <1>3, <1>5
  <2> QED  BY <1>1, <1>3, <1>5, <2>1, <2>2 DEF Excl
<1>4. CASE Within(g, h) /\ free2 = free \cup {b}
  <2>1. \A t, u \in DOMAIN g : g[t] = g[u] => t = u
    BY <1>4, <1>5 DEF Within
  <2>2. \A t \in DOMAIN g : ~InLists(r, g[t]) /\ g[t] \notin free2 /\ g[t] \in 1..n
    BY <1>2, <1>4, <1>5 DEF Within
  <2> QED  BY <1>1, <1>2, <1>4, <1>5, <2>1, <2>2 DEF Excl
<1> QED  BY <1>3, <1>4 DEF b, r

LEMMA ExclRelease ==
  ASSUME NEW h, NEW q, NEW free, NEW n, Excl(h, q, free, n),
         NEW x \in DOMAIN h, NEW g, Within(g, h), x \notin DOMAIN g
  PROVE  Excl(g, q, free \cup {h[x]}, n)
BY DEF Excl, Within

LEMMA ExclClear ==
  ASSUME NEW h, NEW q \in Lists, NEW free, NEW n, Excl(h, q, free, n),
         NEW s \in Sessions, NEW g, Within(g, h)
  PROVE  Excl(g, [q EXCEPT ![s] = <<>>], free, n)
<1>1. /\ Once([q EXCEPT ![s] = <<>>])
      /\ \A b : InLists([q EXCEPT ![s] = <<>>], b) => InLists(q, b)
  BY ClearLists DEF Excl
<1> QED  BY <1>1 DEF Excl, Within

LEMMA ExclWithin ==
  ASSUME NEW h, NEW q, NEW free, NEW n, Excl(h, q, free, n), NEW g, Within(g, h)
  PROVE  Excl(g, q, free, n)
BY DEF Excl, Within

LEMMA ExclusiveImplies == Exclusive => BlockExclusive
<1> SUFFICES ASSUME Exclusive PROVE BlockExclusive
  OBVIOUS
<1>1. DOMAIN Hand = Holding /\ \A t \in Holding : Hand[t] = InHand(t)
  BY DEF Hand
<1>2. \A x \in Slots : \E s \in Sessions : \E i \in 1..Len(bufferList[s]) :
        x = <<s, i>> /\ InSlot(x) = bufferList[s][i].buffer
  BY DEF Slots, InSlot
<1>3. \A x \in Slots : InLists(bufferList, InSlot(x))
  BY <1>2 DEF InLists
<1>4. \A x, y \in Slots : InSlot(x) = InSlot(y) => x = y
  BY <1>2 DEF Exclusive, Excl, Once
<1>5. \A b \in ListBlocks : InLists(bufferList, b)
  BY <1>3 DEF ListBlocks
<1>6. \A b \in HandBlocks : \E t \in Holding : b = Hand[t]
  BY <1>1 DEF HandBlocks
<1>7. \A t, u \in Holding : InHand(t) = InHand(u) => t = u
  BY <1>1 DEF Exclusive, Excl
<1>8. HandBlocks \cap ListBlocks = {}
  BY <1>1, <1>5, <1>6 DEF Exclusive, Excl
<1>9. blocks \cap (HandBlocks \cup ListBlocks) = {}
  BY <1>1, <1>5, <1>6 DEF Exclusive, Excl
<1>10. blocks \cup HandBlocks \cup ListBlocks \subseteq 1..allocated
  BY <1>1, <1>5, <1>6 DEF Exclusive, Excl
<1> QED  BY <1>4, <1>7, <1>8, <1>9, <1>10 DEF BlockExclusive

-------------------------------------------------------------------------------
(* How the hands change when one thread takes a step.                      *)

LEMMA HandFacts ==
  /\ DOMAIN Hand = Holding /\ \A t \in Holding : Hand[t] = InHand(t)
  /\ DOMAIN Hand' = Holding' /\ \A t \in Holding' : Hand'[t] = InHand(t)'
BY DEF Hand

LEMMA FeederHand ==
  ASSUME TypeOK, NEW f \in Feeders, NEW c,
         call' = [call EXCEPT ![f] = c], UNCHANGED <<t1, t2>>
  PROVE  /\ \A t \in DOMAIN Hand' :
              \/ t = f /\ c.pc = "push" /\ Hand'[t] = c.node.buffer
              \/ t # f /\ t \in DOMAIN Hand /\ Hand'[t] = Hand[t]
         /\ call[f].pc = "push" => f \in DOMAIN Hand /\ Hand[f] = call[f].node.buffer
<1>1. /\ f # T1 /\ f # T2
      /\ call'[f] = c /\ \A g \in Feeders : g # f => call'[g] = call[g]
  BY SessionAssumption DEF TypeOK, ReceiverTypeOK
<1>2. \A t \in Holding' : \/ t = f /\ c.pc = "push" /\ InHand(t)' = c.node.buffer
                          \/ t # f /\ t \in Holding /\ InHand(t)' = InHand(t)
  BY <1>1, SessionAssumption DEF Holding, InHand
<1>3. call[f].pc = "push" => f \in Holding /\ InHand(f) = call[f].node.buffer
  BY <1>1 DEF Holding, InHand
<1> QED  BY <1>2, <1>3, HandFacts

LEMMA ReactorHand ==
  ASSUME UNCHANGED <<call, t2>>
  PROVE  /\ \A t \in DOMAIN Hand' :
              \/ t = T1 /\ t1'.pc = "push" /\ Hand'[t] = t1'.node.buffer
              \/ t # T1 /\ t \in DOMAIN Hand /\ Hand'[t] = Hand[t]
         /\ t1.pc = "push" => T1 \in DOMAIN Hand /\ Hand[T1] = t1.node.buffer
<1>1. \A t \in Holding' : \/ t = T1 /\ t1'.pc = "push" /\ InHand(t)' = t1'.node.buffer
                          \/ t # T1 /\ t \in Holding /\ InHand(t)' = InHand(t)
  BY SessionAssumption DEF Holding, InHand
<1>2. t1.pc = "push" => T1 \in Holding /\ InHand(T1) = t1.node.buffer
  BY DEF Holding, InHand
<1> QED  BY <1>1, <1>2, HandFacts

LEMMA CaptureHand ==
  ASSUME UNCHANGED <<call, t1>>
  PROVE  /\ \A t \in DOMAIN Hand' :
              \/ t = T2 /\ t2'.pc = "release" /\ Hand'[t] = t2'.buffer
              \/ t # T2 /\ t \in DOMAIN Hand /\ Hand'[t] = Hand[t]
         /\ t2.pc = "release" => T2 \in DOMAIN Hand /\ Hand[T2] = t2.buffer
<1>1. \A t \in Holding' : \/ t = T2 /\ t2'.pc = "release" /\ InHand(t)' = t2'.buffer
                          \/ t # T2 /\ t \in Holding /\ InHand(t)' = InHand(t)
  BY SessionAssumption DEF Holding, InHand
<1>2. t2.pc = "release" => T2 \in Holding /\ InHand(T2) = t2.buffer
  BY SessionAssumption DEF Holding, InHand
<1> QED  BY <1>1, <1>2, HandFacts

LEMMA SameHands ==
  ASSUME UNCHANGED <<call, t1, t2>>
  PROVE  Within(Hand', Hand)
<1>1. Holding' = Holding /\ \A t \in Holding : InHand(t)' = InHand(t)
  BY DEF Holding, InHand
<1> QED  BY <1>1, HandFacts DEF Within

(* get() for whoever asks: a free block, or a new one.                     *)
LEMMA GetFresh ==
  ASSUME PoolTypeOK, NEW b, Get(b)
  PROVE  /\ blocks' = blocks \ {b} /\ allocated \in Nat /\ allocated' \in Nat
         /\ \/ b \in blocks /\ allocated' = allocated
            \/ b = allocated + 1 /\ allocated' = allocated + 1
BY DEF PoolTypeOK, Get, Available

-------------------------------------------------------------------------------
LEMMA FeederBlocks ==
  ASSUME TypeOK, Exclusive, NEW f \in Feeders,
         \/ \E id \in Ids, len \in CallLens : Feed(f, id, len)
         \/ FeederStep(f)
  PROVE  Exclusive'
<1>1. ASSUME NEW id \in Ids, NEW len \in CallLens, Feed(f, id, len)
      PROVE  Exclusive'
  <2> DEFINE c == [pc |-> "lookup", len |-> len,
                   pkt |-> [to |-> id, via |-> f, n |-> sent + 1]]
  <2>3. call' = [call EXCEPT ![f] = c] /\ UNCHANGED <<t1, t2>> /\ c.pc # "push"
    BY <1>1 DEF Feed, OnRTPData, captureVars
  <2> HIDE DEF c
  <2>1. Within(Hand', Hand)
    BY <2>3, FeederHand DEF Within
  <2>2. UNCHANGED <<bufferList, blocks, allocated>>
    BY <1>1 DEF Feed, OnRTPData, poolVars, sessionVars
  <2> QED  BY <2>1, <2>2, ExclWithin DEF Exclusive
<1>2. ASSUME Refuse(f), UNCHANGED <<captureVars, sdkVars>>
      PROVE  Exclusive'
  <2>3. call' = [call EXCEPT ![f] = Idle] /\ UNCHANGED <<t1, t2>> /\ Idle.pc # "push"
    BY <1>2 DEF Refuse, Idle, captureVars
  <2>1. Within(Hand', Hand)
    BY <2>3, FeederHand DEF Within
  <2>2. UNCHANGED <<bufferList, blocks, allocated>>
    BY <1>2 DEF Refuse, LeaveEarly, poolVars, sessionVars
  <2> QED  BY <2>1, <2>2, ExclWithin DEF Exclusive
<1>3. ASSUME NEW b, Fill(f, b), UNCHANGED <<captureVars, sdkVars>>
      PROVE  Exclusive'
  <2> DEFINE c == [pc |-> "push", session |-> sessionMap[call[f].pkt.to],
                   node |-> [buffer |-> b, len |-> call[f].len, pkt |-> call[f].pkt]]
  <2>4. call' = [call EXCEPT ![f] = c] /\ UNCHANGED <<t1, t2>> /\ c.node.buffer = b
    BY <1>3 DEF Fill, captureVars
  <2> HIDE DEF c
  <2>1. \A t \in DOMAIN Hand' : \/ t = f /\ Hand'[t] = b
                                \/ t \in DOMAIN Hand /\ Hand'[t] = Hand[t]
    <3>1. \A t \in DOMAIN Hand' : \/ t = f /\ Hand'[t] = c.node.buffer
                                  \/ t \in DOMAIN Hand /\ Hand'[t] = Hand[t]
      BY <2>4, FeederHand
    <3> QED  BY <2>4, <3>1
  <2>2. UNCHANGED bufferList
    BY <1>3 DEF Fill, sessionVars
  <2>3. Get(b) /\ PoolTypeOK
    BY <1>3 DEF Fill, TypeOK
  <2>5. Excl(Hand', bufferList, blocks \ {b}, allocated')
    BY <2>1, <2>3, GetFresh, ExclGet DEF Exclusive
  <2> QED  BY <2>2, <2>3, <2>5, GetFresh DEF Exclusive
<1>4. ASSUME PushCall(f), UNCHANGED <<captureVars, sdkVars>>
      PROVE  Exclusive'
  <2>6. call' = [call EXCEPT ![f] = Idle] /\ UNCHANGED <<t1, t2>> /\ Idle.pc # "push"
    BY <1>4 DEF PushCall, Idle, captureVars
  <2>1. Within(Hand', Hand) /\ f \notin DOMAIN Hand'
    BY <2>6, FeederHand DEF Within
  <2>2. f \in DOMAIN Hand /\ Hand[f] = call[f].node.buffer
    BY <1>4, <2>6, FeederHand DEF PushCall
  <2>3. call[f].session \in Sessions /\ call[f].node \in Node /\ bufferList \in Lists
    BY <1>4 DEF TypeOK, ReceiverTypeOK, SessionTypeOK, PushCall, Idle, Looking, Pushing, Lists
  <2>4. \/ bufferList' = bufferList
        \/ bufferList' = Pushed(bufferList, call[f].session, call[f].node)
    BY <1>4 DEF PushCall, Push, PushBack, Pushed
  <2>5. UNCHANGED <<blocks, allocated>>
    BY <1>4 DEF PushCall, poolVars
  <2> QED  BY <2>1, <2>2, <2>3, <2>4, <2>5, ExclPush DEF Exclusive
<1> QED  BY <1>1, <1>2, <1>3, <1>4 DEF FeederStep

LEMMA SocketBlocks ==
  ASSUME TypeOK, Exclusive,
         \/ \E h \in 1..Len(handlers), m \in Media, len \in DatagramLens : Receive(h, m, len)
         \/ \E h \in 1..Len(handlers), m \in Media : ReadSocket(h, m)
         \/ PushSocket
  PROVE  Exclusive'
<1>1. ASSUME NEW h \in 1..Len(handlers), NEW m \in Media, NEW len \in DatagramLens,
             Receive(h, m, len)
      PROVE  Exclusive'
  <2>1. Within(Hand', Hand)
    BY <1>1, SameHands DEF Receive, Arrive, captureVars
  <2>2. UNCHANGED <<bufferList, blocks, allocated>>
    BY <1>1 DEF Receive, Arrive, poolVars, sessionVars
  <2> QED  BY <2>1, <2>2, ExclWithin DEF Exclusive
<1>2. ASSUME NEW h \in 1..Len(handlers), NEW m \in Media, ReadSocket(h, m)
      PROVE  Exclusive'
  <2>1. PICK b \in Available : OnSocketReadable(h, m, b)
    BY <1>2 DEF ReadSocket
  <2>2. t1'.node.buffer = b
    BY <2>1 DEF OnSocketReadable
  <2>3. \A t \in DOMAIN Hand' : \/ t = T1 /\ Hand'[t] = b
                                \/ t \in DOMAIN Hand /\ Hand'[t] = Hand[t]
    <3>1. UNCHANGED <<call, t2>>
      BY <1>2, <2>1 DEF ReadSocket, OnSocketReadable, captureVars
    <3>2. \A t \in DOMAIN Hand' : \/ t = T1 /\ Hand'[t] = t1'.node.buffer
                                  \/ t \in DOMAIN Hand /\ Hand'[t] = Hand[t]
      BY <3>1, ReactorHand
    <3> QED  BY <2>2, <3>2
  <2>4. UNCHANGED bufferList
    BY <2>1 DEF OnSocketReadable, sessionVars
  <2>5. Get(b) /\ PoolTypeOK
    BY <2>1 DEF OnSocketReadable, TypeOK
  <2>6. Excl(Hand', bufferList, blocks \ {b}, allocated')
    BY <2>3, <2>5, GetFresh, ExclGet DEF Exclusive
  <2> QED  BY <2>4, <2>5, <2>6, GetFresh DEF Exclusive
<1>3. ASSUME PushSocket
      PROVE  Exclusive'
  <2>1. Within(Hand', Hand) /\ T1 \notin DOMAIN Hand'
    BY <1>3, ReactorHand DEF PushSocket, PushDatagram, Idle, captureVars, Within
  <2>2. T1 \in DOMAIN Hand /\ Hand[T1] = t1.node.buffer
    BY <1>3, ReactorHand DEF PushSocket, PushDatagram, captureVars
  <2>3. t1.session \in Sessions /\ t1.node \in Node /\ bufferList \in Lists
    BY <1>3 DEF TypeOK, ReceiverTypeOK, SessionTypeOK, PushSocket, PushDatagram, Idle, Pushing, Lists
  <2>4. \/ bufferList' = bufferList
        \/ bufferList' = Pushed(bufferList, t1.session, t1.node)
    BY <1>3 DEF PushSocket, PushDatagram, Push, PushBack, Pushed
  <2>5. UNCHANGED <<blocks, allocated>>
    BY <1>3 DEF PushSocket, PushDatagram, poolVars
  <2> QED  BY <2>1, <2>2, <2>3, <2>4, <2>5, ExclPush DEF Exclusive
<1> QED  BY <1>1, <1>2, <1>3

LEMMA CaptureBlocks ==
  ASSUME TypeOK, Exclusive, Capture, IteratorValid
  PROVE  Exclusive'
<1>0. UNCHANGED <<call, t1>>
  BY DEF Capture, receiverVars
<1>1. ASSUME t2.pc # "release", t2'.pc # "release", UNCHANGED <<bufferList, blocks, allocated>>
      PROVE  Exclusive'
  <2>1. Within(Hand', Hand)
    BY <1>0, <1>1, CaptureHand DEF Within
  <2> QED  BY <1>1, <2>1, ExclWithin DEF Exclusive
<1>2. t2 \in [pc : T2Pcs, it : Nat \ {0}, buffer : Nat] /\ bufferList \in Lists
  BY DEF TypeOK, CaptureTypeOK, SessionTypeOK, Lists
<1>3. CASE StartRound
  BY <1>1, <1>2, <1>3 DEF StartRound, poolVars, sessionVars
<1>4. CASE EnterSession
  BY <1>1, <1>2, <1>4 DEF EnterSession, LockBuffer, poolVars
<1>5. CASE LeaveSession
  BY <1>1, <1>2, <1>5 DEF LeaveSession, poolVars
<1>6. CASE EndRound
  BY <1>1, <1>2, <1>6 DEF EndRound, poolVars, sessionVars
<1>7. CASE Record
  <2>1. Current \in Sessions /\ bufferList[Current] # <<>>
    BY <1>7, CurrentType DEF Record, PopFront
  <2>2. /\ bufferList' = Popped(bufferList, Current)
        /\ t2'.buffer = First(bufferList, Current)
        /\ UNCHANGED <<blocks, allocated>>
    BY <1>2, <1>7 DEF Record, PopFront, KeepBlock, poolVars, Popped, First
  <2>3. \A t \in DOMAIN Hand' :
          \/ t = T2 /\ Hand'[t] = First(bufferList, Current)
          \/ t \in DOMAIN Hand /\ Hand'[t] = Hand[t]
    BY <1>0, <2>2, CaptureHand
  <2>4. Excl(Hand', Popped(bufferList, Current), blocks, allocated)
    BY <1>2, <2>1, <2>3, ExclPop DEF Exclusive
  <2> QED  BY <2>2, <2>4 DEF Exclusive
<1>8. CASE ReleaseRecorded
  <2>1. /\ t2.pc = "release" /\ t2'.pc # "release"
        /\ blocks' = blocks \cup {t2.buffer} /\ UNCHANGED <<bufferList, allocated>>
    BY <1>2, <1>8 DEF ReleaseRecorded, Release, sessionVars
  <2>2. Within(Hand', Hand) /\ T2 \notin DOMAIN Hand'
    BY <1>0, <2>1, CaptureHand DEF Within
  <2>3. T2 \in DOMAIN Hand /\ Hand[T2] = t2.buffer
    BY <1>0, <2>1, CaptureHand
  <2>4. Excl(Hand', bufferList, blocks \cup {Hand[T2]}, allocated)
    BY <2>2, <2>3, ExclRelease DEF Exclusive
  <2> QED  BY <2>1, <2>3, <2>4 DEF Exclusive
<1> QED  BY <1>3, <1>4, <1>5, <1>6, <1>7, <1>8 DEF Capture, T2Step

(* Adding and deleting: a session that begins or ends drops its list, and  *)
(* a deletion gives the list's blocks back first.                          *)
LEMMA AppBlocks ==
  ASSUME TypeOK, Exclusive,
         \/ \E s \in Sessions, ports \in Ports : AddSession(s, ports)
         \/ \E id \in Ids : DelSession(id)
         \/ AddSteps
         \/ DelSteps
  PROVE  Exclusive'
<1>0. bufferList \in Lists
  BY DEF TypeOK, SessionTypeOK, Lists
<1>1. ASSUME UNCHANGED <<call, t1, t2>>, UNCHANGED <<bufferList, blocks, allocated>>
      PROVE  Exclusive'
  <2>1. Within(Hand', Hand)
    BY <1>1, SameHands
  <2> QED  BY <1>1, <2>1, ExclWithin DEF Exclusive
<1>2. ASSUME NEW s \in Sessions, UNCHANGED <<call, t1, t2>>, UNCHANGED <<blocks, allocated>>,
             bufferList' = [bufferList EXCEPT ![s] = <<>>]
      PROVE  Exclusive'
  <2>1. Within(Hand', Hand)
    BY <1>2, SameHands
  <2>2. Excl(Hand', [bufferList EXCEPT ![s] = <<>>], blocks, allocated)
    BY <1>0, <2>1, ExclClear DEF Exclusive
  <2> QED  BY <1>2, <2>2 DEF Exclusive
<1>3. ASSUME NEW s \in Sessions, NEW ports \in Ports, AddSession(s, ports)
      PROVE  Exclusive'
  BY <1>2, <1>3 DEF AddSession, NewSession, poolVars, receiverVars, captureVars
<1>4. ASSUME NEW id \in Ids, DelSession(id)
      PROVE  Exclusive'
  BY <1>1, <1>4 DEF DelSession, poolVars, sessionVars, receiverVars, captureVars
<1>5. CASE AddToReceiver
  BY <1>1, <1>5 DEF AddToReceiver, ReceiverAdd, poolVars, sessionVars, captureVars
<1>6. CASE BindFails
  BY <1>1, <1>6 DEF BindFails, ReceiverAddFails, poolVars, sessionVars, receiverVars, captureVars
<1>7. CASE AddToCapture
  BY <1>1, <1>7 DEF AddToCapture, CaptureAdd, poolVars, sessionVars, receiverVars
<1>8. CASE DelFind
  BY <1>1, <1>8 DEF DelFind, CaptureDelFind, poolVars, sessionVars, receiverVars
<1>9. CASE DelLockBuffer
  BY <1>1, <1>9 DEF DelLockBuffer, LockBuffer, poolVars, receiverVars, captureVars
<1>10. CASE DelDrain
  <2> DEFINE s == app.session
  <2>1. s \in Sessions /\ bufferList[s] # <<>>
    BY <1>10, AppFields DEF DelDrain, CaptureDelDrain, PopFront, DelPcs
  <2>2. /\ bufferList' = Popped(bufferList, s)
        /\ blocks' = blocks \cup {First(bufferList, s)}
        /\ UNCHANGED allocated
    BY <1>10 DEF DelDrain, CaptureDelDrain, PopFront, Release, Popped, First
  <2>3. Within(Hand', Hand)
    BY <1>10, SameHands DEF DelDrain, CaptureDelDrain, captureVars, receiverVars
  <2> HIDE DEF s
  <2>4. Excl(Hand', Popped(bufferList, s), blocks \cup {First(bufferList, s)}, allocated)
    BY <1>0, <2>1, <2>3, ExclPop DEF Exclusive
  <2> QED  BY <2>2, <2>4 DEF Exclusive
<1>11. CASE DelErase
  BY <1>1, <1>11 DEF DelErase, CaptureDelErase, poolVars, receiverVars
<1>12. CASE DelFree
  <2>1. app.session \in Sessions
    BY <1>12, AppFields DEF DelFree, DelPcs
  <2> QED  BY <1>2, <1>12, <2>1 DEF DelFree, DeleteSession, poolVars, receiverVars, captureVars
<1> QED
  BY <1>3, <1>4, <1>5, <1>6, <1>7, <1>8, <1>9, <1>10, <1>11, <1>12 DEF AddSteps, DelSteps

-------------------------------------------------------------------------------
LEMMA InitExclusive == Init => Exclusive
<1> SUFFICES ASSUME Init PROVE Exclusive
  OBVIOUS
<1>1. Holding = {}
  BY DEF Init, ReceiverInit, CaptureInit, Holding, Idle
<1>2. DOMAIN Hand = {}
  BY <1>1, HandFacts
<1>3. \A s \in Sessions : bufferList[s] = <<>>
  BY DEF Init, SessionInit
<1>4. \A s \in Sessions : \A i \in 1..Len(bufferList[s]) : FALSE
  BY <1>3, EmptySeq
<1>5. Once(bufferList) /\ \A b : ~InLists(bufferList, b)
  BY <1>4 DEF Once, InLists
<1>6. blocks = 1..allocated
  BY DEF Init, PoolInit
<1> QED  BY <1>2, <1>5, <1>6 DEF Exclusive, Excl

LEMMA NextExclusive == IInv /\ Exclusive /\ [Next]_vars => Exclusive'
<1> SUFFICES ASSUME IInv, Exclusive, [Next]_vars PROVE Exclusive'
  OBVIOUS
<1>1. TypeOK /\ IteratorValid
  BY DEF IInv
<1>2. CASE Next
  BY <1>1, <1>2, AppBlocks, FeederBlocks, SocketBlocks, CaptureBlocks DEF Next
<1>3. CASE UNCHANGED vars
  <2>1. Within(Hand', Hand) /\ UNCHANGED <<bufferList, blocks, allocated>>
    BY <1>3, SameHands DEF vars, poolVars, sessionVars, receiverVars, captureVars
  <2> QED  BY <2>1, ExclWithin DEF Exclusive
<1> QED  BY <1>2, <1>3

(* No block is ever in two places at once: given out twice by the pool,    *)
(* queued twice, or released by T2 or a deletion while somebody has it.    *)
(* This needs no discipline: a dangling push may lose a block, never       *)
(* double it.                                                              *)
THEOREM BlocksExclusive == Spec => []BlockExclusive
<1>1. Init => IInv /\ Exclusive
  BY InitIInv, InitExclusive
<1>2. (IInv /\ Exclusive) /\ [Next]_vars => (IInv /\ Exclusive)'
  BY NextIInv, NextExclusive
<1> QED  BY <1>1, <1>2, ExclusiveImplies, PTL DEF Spec

-------------------------------------------------------------------------------
(* What the nodes say of their blocks: NodeFits holds of a list because it *)
(* holds of every node that a thread is about to push, and there because   *)
(* the int of the caller is still one of CallLens when it is compared.     *)
Fits(node) == node.len \in 0..BlockSize

AllFit(q) == \A s \in Sessions : \A i \in 1..Len(q[s]) : Fits(q[s][i])

CallFits(c) == /\ c.pc = "lookup" => c.len \in CallLens
               /\ c.pc = "push" => Fits(c.node)

NodesFit ==
  /\ AllFit(bufferList)
  /\ \A f \in Feeders : CallFits(call[f])
  /\ t1.pc = "push" => Fits(t1.node)

(* The comparison with a size_t lets no negative and no long len through.  *)
LEMMA NotOverflows ==
  ASSUME NEW len \in CallLens, ~Overflows(len)
  PROVE  len \in 0..BlockSize
<1>1. /\ len \in Int /\ -(SizeModulus - BlockSize) < len /\ len < SizeModulus
      /\ BlockSize \in Nat /\ SizeModulus \in Nat /\ SizeModulus > BlockSize
  BY ReceiverAssumption
<1>2. ~(len % SizeModulus > BlockSize)
  BY DEF Overflows
<1>3. CASE len >= 0
  <2>1. len % SizeModulus = len
    BY <1>1, <1>3
  <2> QED  BY <1>1, <1>2, <1>3, <2>1
<1>4. CASE len < 0
  <2>1. len % SizeModulus = len + SizeModulus
    BY <1>1, <1>4
  <2> QED  BY <1>1, <1>2, <2>1
<1> QED  BY <1>1, <1>3, <1>4

LEMMA PushedFit ==
  ASSUME NEW q \in Lists, AllFit(q), NEW s \in Sessions, NEW node \in Node, Fits(node)
  PROVE  AllFit(Pushed(q, s, node))
<1> DEFINE r == Pushed(q, s, node)
<1>1. /\ Len(Append(q[s], node)) = Len(q[s]) + 1 /\ Len(q[s]) \in Nat
      /\ \A i \in 1..Len(q[s]) : Append(q[s], node)[i] = q[s][i]
      /\ Append(q[s], node)[Len(q[s]) + 1] = node
  BY AppendProperties, LenProperties DEF Lists
<1>2. r[s] = Append(q[s], node) /\ \A u \in Sessions : u # s => r[u] = q[u]
  BY DEF Lists, Pushed
<1> HIDE DEF r
<1>3. ASSUME NEW u \in Sessions, NEW i \in 1..Len(r[u])
      PROVE  \/ i \in 1..Len(q[u]) /\ r[u][i] = q[u][i]
             \/ r[u][i] = node
  <2>1. CASE u = s
    <3>1. i \in 1..Len(q[s]) \/ i = Len(q[s]) + 1
      BY <1>1, <1>2, <2>1
    <3> QED  BY <1>1, <1>2, <2>1, <3>1
  <2>2. CASE u # s
    BY <1>2, <2>2
  <2> QED  BY <2>1, <2>2
<1>4. AllFit(r)
  BY <1>3 DEF AllFit
<1> QED  BY <1>4 DEF r

LEMMA PoppedFit ==
  ASSUME NEW q \in Lists, AllFit(q), NEW s \in Sessions, q[s] # <<>>
  PROVE  AllFit(Popped(q, s))
<1> DEFINE r == Popped(q, s)
           tl == Tail(q[s])
<1>1. /\ Len(q[s]) \in Nat \ {0} /\ Len(tl) = Len(q[s]) - 1
      /\ \A i \in 1..Len(tl) : tl[i] = q[s][i + 1]
  BY HeadTailProperties, EmptySeq, LenProperties DEF Lists
<1>2. r[s] = tl /\ \A u \in Sessions : u # s => r[u] = q[u]
  BY DEF Lists, Popped
<1> HIDE DEF r, tl
<1>3. ASSUME NEW i \in 1..Len(tl) PROVE Fits(tl[i])
  <2>1. i + 1 \in 1..Len(q[s]) /\ tl[i] = q[s][i + 1]
    BY <1>1
  <2> QED  BY <2>1 DEF AllFit
<1>4. AllFit(r)
  BY <1>2, <1>3 DEF AllFit
<1> QED  BY <1>4 DEF r

LEMMA ClearedFit ==
  ASSUME NEW q \in Lists, AllFit(q), NEW s \in Sessions
  PROVE  AllFit([q EXCEPT ![s] = <<>>])
<1> DEFINE r == [q EXCEPT ![s] = <<>>]
<1>1. r[s] = <<>> /\ \A u \in Sessions : u # s => r[u] = q[u]
  BY DEF Lists
<1> HIDE DEF r
<1>2. \A u \in Sessions : \A i \in 1..Len(r[u]) : u # s /\ r[u] = q[u]
  BY <1>1, EmptySeq
<1>3. AllFit(r)
  BY <1>2 DEF AllFit
<1> QED  BY <1>3 DEF r

(* The steps of feeders.                                                   *)
LEMMA FeederFits ==
  ASSUME TypeOK, NodesFit, NEW f \in Feeders,
         \/ \E id \in Ids, len \in CallLens : Feed(f, id, len)
         \/ FeederStep(f)
  PROVE  NodesFit'
<1>0. call \in [Feeders -> {Idle} \cup Looking \cup Pushing] /\ bufferList \in Lists
  BY DEF TypeOK, ReceiverTypeOK, SessionTypeOK, Lists
<1>1. ASSUME NEW c, call' = [call EXCEPT ![f] = c], CallFits(c),
             AllFit(bufferList'), UNCHANGED t1
      PROVE  NodesFit'
  BY <1>0, <1>1 DEF NodesFit
<1>2. CallFits(Idle)
  BY DEF CallFits, Idle
<1>3. ASSUME NEW id \in Ids, NEW len \in CallLens, Feed(f, id, len)
      PROVE  NodesFit'
  <2> DEFINE c == [pc |-> "lookup", len |-> len,
                   pkt |-> [to |-> id, via |-> f, n |-> sent + 1]]
  <2>1. CallFits(c)
    BY DEF CallFits
  <2>2. call' = [call EXCEPT ![f] = c] /\ UNCHANGED <<t1, bufferList>>
    BY <1>3 DEF Feed, OnRTPData, sessionVars
  <2> HIDE DEF c
  <2> QED  BY <1>1, <2>1, <2>2 DEF NodesFit
<1>4. ASSUME Refuse(f) PROVE NodesFit'
  <2>1. call' = [call EXCEPT ![f] = Idle] /\ UNCHANGED <<t1, bufferList>>
    BY <1>4 DEF Refuse, sessionVars
  <2> QED  BY <1>1, <1>2, <2>1 DEF NodesFit
<1>5. ASSUME NEW b, Fill(f, b) PROVE NodesFit'
  <2> DEFINE c == [pc |-> "push", session |-> sessionMap[call[f].pkt.to],
                   node |-> [buffer |-> b, len |-> call[f].len, pkt |-> call[f].pkt]]
  <2>1. call[f].len \in CallLens /\ ~Overflows(call[f].len)
    BY <1>5 DEF Fill, Refused, NodesFit, CallFits
  <2>2. CallFits(c)
    BY <2>1, NotOverflows DEF CallFits, Fits
  <2>3. call' = [call EXCEPT ![f] = c] /\ UNCHANGED <<t1, bufferList>>
    BY <1>5 DEF Fill, sessionVars
  <2> HIDE DEF c
  <2> QED  BY <1>1, <2>2, <2>3 DEF NodesFit
<1>6. ASSUME PushCall(f) PROVE NodesFit'
  <2>1. /\ call[f].session \in Sessions /\ call[f].node \in Node /\ Fits(call[f].node)
        /\ AllFit(bufferList)
    BY <1>0, <1>6 DEF PushCall, Idle, Looking, Pushing, NodesFit, CallFits
  <2>2. \/ bufferList' = bufferList
        \/ bufferList' = Pushed(bufferList, call[f].session, call[f].node)
    BY <1>6 DEF PushCall, Push, PushBack, Pushed
  <2>3. AllFit(bufferList')
    BY <1>0, <2>1, <2>2, PushedFit
  <2>4. call' = [call EXCEPT ![f] = Idle] /\ UNCHANGED t1
    BY <1>6 DEF PushCall
  <2> QED  BY <1>1, <1>2, <2>3, <2>4
<1> QED  BY <1>3, <1>4, <1>5, <1>6 DEF FeederStep

(* The steps of T1 and of the network: a datagram is cut to the block.     *)
LEMMA SocketFits ==
  ASSUME TypeOK, NodesFit,
         \/ \E h \in 1..Len(handlers), m \in Media, len \in DatagramLens : Receive(h, m, len)
         \/ \E h \in 1..Len(handlers), m \in Media : ReadSocket(h, m)
         \/ PushSocket
  PROVE  NodesFit'
<1>1. ASSUME NEW h \in 1..Len(handlers), NEW m \in Media, NEW len \in DatagramLens,
             Receive(h, m, len)
      PROVE  NodesFit'
  BY <1>1 DEF Receive, Arrive, sessionVars, NodesFit
<1>2. ASSUME NEW h \in 1..Len(handlers), NEW m \in Media, ReadSocket(h, m)
      PROVE  NodesFit'
  <2> DEFINE d == Head(handlers[h].queue[m])
  <2>1. PICK b \in Available : OnSocketReadable(h, m, b)
    BY <1>2 DEF ReadSocket
  <2>0. handlers[h] \in Handler
    BY ElementOfSeq DEF TypeOK, ReceiverTypeOK
  <2>2. handlers[h].queue[m] # <<>> /\ handlers[h].queue[m] \in Seq(Datagram)
    BY <2>0, <2>1 DEF Handler, OnSocketReadable, Readable
  <2>3. d.len \in Nat
    <3>1. Head(handlers[h].queue[m]) \in Datagram
      BY <2>2, HeadTailProperties
    <3> QED  BY <3>1 DEF Datagram
  <2>4. t1'.node.len = IF d.len < BlockSize THEN d.len ELSE BlockSize
    BY <2>1 DEF OnSocketReadable
  <2> HIDE DEF d
  <2>5. Fits(t1'.node)
    BY <2>3, <2>4, ReceiverAssumption DEF Fits
  <2>6. UNCHANGED <<call, bufferList>>
    BY <2>1 DEF OnSocketReadable, sessionVars
  <2> QED  BY <2>5, <2>6 DEF NodesFit
<1>3. ASSUME PushSocket PROVE NodesFit'
  <2>1. /\ t1.session \in Sessions /\ t1.node \in Node /\ Fits(t1.node)
        /\ AllFit(bufferList) /\ bufferList \in Lists
    BY <1>3 DEF TypeOK, ReceiverTypeOK, SessionTypeOK, PushSocket, PushDatagram, Idle, Pushing,
       NodesFit, Lists
  <2>2. \/ bufferList' = bufferList
        \/ bufferList' = Pushed(bufferList, t1.session, t1.node)
    BY <1>3 DEF PushSocket, PushDatagram, Push, PushBack, Pushed
  <2>3. AllFit(bufferList')
    BY <2>1, <2>2, PushedFit
  <2>4. t1' = Idle /\ UNCHANGED call
    BY <1>3 DEF PushSocket, PushDatagram
  <2> QED  BY <2>3, <2>4 DEF NodesFit, Idle
<1> QED  BY <1>1, <1>2, <1>3

(* T2, adding and deleting only shorten lists.                             *)
LEMMA ConsumersFit ==
  ASSUME TypeOK, NodesFit, IteratorValid,
         \/ \E s \in Sessions, ports \in Ports : AddSession(s, ports)
         \/ \E id \in Ids : DelSession(id)
         \/ AddSteps
         \/ DelSteps
         \/ Capture
  PROVE  NodesFit'
<1>0. bufferList \in Lists
  BY DEF TypeOK, SessionTypeOK, Lists
<1>1. UNCHANGED <<call, t1>>
  BY DEF AddSession, DelSession, AddSteps, AddToReceiver, ReceiverAdd, BindFails,
     ReceiverAddFails, AddToCapture, DelSteps, DelFind, DelLockBuffer, DelDrain,
     DelErase, DelFree, Capture, CaptureDelFind, CaptureDelDrain, receiverVars
<1>2. \/ UNCHANGED bufferList
      \/ \E s \in Sessions : bufferList' = [bufferList EXCEPT ![s] = <<>>]
      \/ \E s \in Sessions : bufferList[s] # <<>> /\ bufferList' = Popped(bufferList, s)
  <2>1. ASSUME NEW s \in Sessions, NEW ports \in Ports, AddSession(s, ports)
        PROVE  bufferList' = [bufferList EXCEPT ![s] = <<>>]
    BY <2>1 DEF AddSession, NewSession
  <2>2. CASE DelFree
    <3>1. app.session \in Sessions
      BY <2>2, AppFields DEF DelFree, DelPcs
    <3> QED  BY <2>2, <3>1 DEF DelFree, DeleteSession
  <2>3. CASE DelDrain
    <3>1. app.session \in Sessions
      BY <2>3, AppFields DEF DelDrain, DelPcs
    <3> QED  BY <2>3, <3>1 DEF DelDrain, CaptureDelDrain, PopFront, Popped
  <2>4. CASE Record
    <3>1. Current \in Sessions
      BY <2>4, CurrentType DEF Record
    <3> QED  BY <2>4, <3>1 DEF Record, PopFront, Popped
  <2>5. CASE \/ \E id \in Ids : DelSession(id)
             \/ AddSteps \/ DelFind \/ DelLockBuffer \/ DelErase
    BY <2>5 DEF DelSession, AddSteps, AddToReceiver, BindFails, AddToCapture, DelFind,
       DelLockBuffer, LockBuffer, DelErase, CaptureDelErase, sessionVars
  <2>6. CASE StartRound \/ EnterSession \/ ReleaseRecorded \/ LeaveSession \/ EndRound
    BY <2>6 DEF StartRound, EnterSession, LockBuffer, ReleaseRecorded, LeaveSession,
       EndRound, sessionVars
  <2> QED  BY <2>1, <2>2, <2>3, <2>4, <2>5, <2>6 DEF DelSteps, Capture, T2Step
<1>3. AllFit(bufferList')
  BY <1>0, <1>2, ClearedFit, PoppedFit DEF NodesFit
<1> QED  BY <1>1, <1>3 DEF NodesFit

LEMMA InitNodesFit == Init => NodesFit
<1> SUFFICES ASSUME Init PROVE NodesFit
  OBVIOUS
<1>1. \A s \in Sessions : bufferList[s] = <<>>
  BY DEF Init, SessionInit
<1>2. AllFit(bufferList)
  BY <1>1, EmptySeq DEF AllFit
<1> QED  BY <1>2 DEF NodesFit, CallFits, Init, ReceiverInit, Idle

LEMMA NextNodesFit == IInv /\ NodesFit /\ [Next]_vars => NodesFit'
<1> SUFFICES ASSUME IInv, NodesFit, [Next]_vars PROVE NodesFit'
  OBVIOUS
<1>1. TypeOK /\ IteratorValid
  BY DEF IInv
<1>2. CASE Next
  BY <1>1, <1>2, FeederFits, SocketFits, ConsumersFit DEF Next
<1>3. CASE UNCHANGED vars
  BY <1>3 DEF vars, sessionVars, receiverVars, NodesFit
<1> QED  BY <1>2, <1>3

LEMMA NodesFitImplies == NodesFit => NodeFits
<1> SUFFICES ASSUME NodesFit, NEW x \in Slots
             PROVE  bufferList[x[1]][x[2]].len \in 0..BlockSize
  BY DEF NodeFits
<1>1. PICK s \in Sessions : \E i \in 1..Len(bufferList[s]) : x = <<s, i>>
  BY DEF Slots
<1> QED  BY <1>1 DEF NodesFit, AllFit, Fits

(* What reaches RTPDump is between empty and a block long, whatever int    *)
(* the caller of onRTPData passed and whatever the network sent.           *)
THEOREM NodesFitBlocks == Spec => []NodeFits
<1>1. Init => IInv /\ NodesFit
  BY InitIInv, InitNodesFit
<1>2. (IInv /\ NodesFit) /\ [Next]_vars => (IInv /\ NodesFit)'
  BY NextIInv, NextNodesFit
<1> QED  BY <1>1, <1>2, NodesFitImplies, PTL DEF Spec

-------------------------------------------------------------------------------
(***************************************************************************)
(* A disciplined program.                                                  *)
(***************************************************************************)
-------------------------------------------------------------------------------
(* The inductive invariant.  The SDK's own map and the ReceiverCenter's    *)
(* agree on every id that is in use, App's call works on the entry of its  *)
(* session, and who is on its way to a session - a call that looks it up   *)
(* or pushes, T1, a datagram in a socket - is on its way to one that lives *)
(* under the id meant and is not being deleted.                            *)

Registered ==
  \A id \in Ids : sdkMap[id] # NULL =>
    /\ sdkMap[id] \in live
    /\ sessionID[sdkMap[id]] = id
    /\ sessionMap[id] = sdkMap[id]

AppEntry ==
  /\ app.pc \in AddPcs => sdkMap[sessionID[app.session]] = NULL
  /\ app.pc = "captureAdd" => sessionMap[sessionID[app.session]] = app.session
  /\ app.pc \in DelPcs => sdkMap[app.id] = app.session

Good(s, id) ==
  /\ s \in live /\ sessionID[s] = id /\ sessionMap[id] = s
  /\ \/ sdkMap[id] = s /\ ~Deletes(s)
     \/ app.pc = "captureAdd" /\ app.session = s

CallServed(c) ==
  /\ c.pc = "lookup" => InUse(c.pkt.to)
  /\ c.pc = "push" => Good(c.session, c.node.pkt.to)

CallsServed == CallServed(t1) /\ \A f \in Feeders : CallServed(call[f])

SocketsServed ==
  \A h \in 1..Len(handlers) : \A m \in Media :
    /\ handlers[h].queue[m] # <<>> => Good(handlers[h].session, handlers[h].id)
    /\ \A i \in 1..Len(handlers[h].queue[m]) : handlers[h].queue[m][i].pkt.to = handlers[h].id

Book == Registered /\ AppEntry
Served == CallsServed /\ SocketsServed

-------------------------------------------------------------------------------
(* The variables that the book is about.                                   *)
bookVars == <<live, sessionID, sdkMap, sessionMap, app>>

LEMMA BookFrame ==
  ASSUME \/ ReceiversStep
         \/ Capture
         \/ DelDrain
  PROVE  UNCHANGED bookVars
<1>1. ReceiversStep => UNCHANGED sessionMap
  BY DEF ReceiversStep, Feed, OnRTPData, FeederStep, Refuse, Fill, PushCall, Receive, Arrive,
     ReadSocket, OnSocketReadable, PushSocket, PushDatagram, vars, receiverVars
<1>2. ReceiversStep => UNCHANGED bookVars
  BY <1>1, ReceiversFrame DEF bookVars, sdkVars
<1>3. Capture => UNCHANGED bookVars
  BY DEF Capture, T2Step, StartRound, EnterSession, LockBuffer, Record, PopFront,
     ReleaseRecorded, LeaveSession, EndRound, bookVars, sessionVars, receiverVars, sdkVars
<1>4. DelDrain => UNCHANGED bookVars
  BY DEF DelDrain, CaptureDelDrain, PopFront, bookVars, receiverVars, sdkVars
<1> QED  BY <1>2, <1>3, <1>4

(* The types of the book.                                                  *)
LEMMA BookTypes ==
  ASSUME TypeOK
  PROVE  /\ sdkMap \in [Ids -> Sessions \cup {NULL}]
         /\ sessionMap \in [Ids -> Sessions \cup {NULL}]
         /\ sessionID \in [Sessions -> Ids]
         /\ live \subseteq Sessions
         /\ NULL \notin Sessions
         /\ app.pc \in AddPcs \cup DelPcs => app.session \in Sessions
         /\ app.pc \in DelPcs => app.id \in Ids
<1>1. app.pc \in DelPcs => app.id \in Ids
  BY AppFields DEF Deleting
<1> QED
  BY <1>1, AppFields, SessionAssumption DEF TypeOK, SessionTypeOK, ReceiverTypeOK

LEMMA RegisteredStep ==
  ASSUME Disciplined, IInv, Book, [Next]_vars
  PROVE  Registered'
<1>0. TypeOK /\ AppSession /\ Registered /\ AppEntry
  BY DEF IInv, Book
<1>1. CASE UNCHANGED <<live, sessionID, sdkMap, sessionMap>>
  BY <1>0, <1>1 DEF Registered
<1>2. ASSUME NEW s \in Sessions, NEW ports \in Ports, AddSession(s, ports)
      PROVE  Registered'
  <2>1. /\ s \notin live /\ live' = live \cup {s}
        /\ \A u \in Sessions : u # s => sessionID'[u] = sessionID[u]
        /\ UNCHANGED <<sdkMap, sessionMap>>
    BY <1>0, <1>2, BookTypes DEF AddSession, NewSession, receiverVars
  <2> QED  BY <1>0, <2>1, BookTypes DEF Registered
<1>3. CASE AddToReceiver
  <2>1. /\ app.session \in Sessions /\ sdkMap[sessionID[app.session]] = NULL
        /\ sessionMap' = [sessionMap EXCEPT ![sessionID[app.session]] = app.session]
        /\ UNCHANGED <<live, sessionID, sdkMap>>
    BY <1>0, <1>3, BookTypes DEF AddToReceiver, ReceiverAdd, MapSet, AppEntry, AddPcs, sessionVars
  <2> QED  BY <1>0, <2>1, BookTypes DEF Registered
<1>4. CASE AddToCapture
  <2>1. /\ app.session \in live /\ sessionMap[sessionID[app.session]] = app.session
        /\ sdkMap' = [sdkMap EXCEPT ![sessionID[app.session]] = app.session]
        /\ UNCHANGED <<live, sessionID, sessionMap>>
    BY <1>0, <1>4 DEF AddToCapture, AppSession, AppEntry, AddPcs, sessionVars, receiverVars
  <2> QED  BY <1>0, <2>1, BookTypes DEF Registered
<1>5. CASE DelFree
  <2>1. /\ app.id \in Ids /\ sdkMap[app.id] = app.session
        /\ sdkMap' = [sdkMap EXCEPT ![app.id] = NULL]
        /\ live' = live \ {app.session}
        /\ UNCHANGED <<sessionID, sessionMap>>
    BY <1>0, <1>5, BookTypes
    DEF DelFree, DeleteSession, AppEntry, DelPcs, receiverVars
  <2> QED  BY <1>0, <2>1, BookTypes DEF Registered
<1>6. ASSUME \/ \E id \in Ids : DelSession(id)
             \/ BindFails \/ DelFind \/ DelLockBuffer \/ DelErase
      PROVE  UNCHANGED <<live, sessionID, sdkMap, sessionMap>>
  BY <1>6 DEF DelSession, BindFails, ReceiverAddFails, DelFind, DelLockBuffer, LockBuffer,
     DelErase, CaptureDelErase, sessionVars, receiverVars
<1>7. ASSUME ReceiversStep \/ Capture \/ DelDrain
      PROVE  UNCHANGED <<live, sessionID, sdkMap, sessionMap>>
  BY <1>7, BookFrame DEF bookVars
<1> QED
  BY <1>1, <1>2, <1>3, <1>4, <1>5, <1>6, <1>7 DEF Next, AddSteps, DelSteps, ReceiversStep

LEMMA AppEntryStep ==
  ASSUME Disciplined, IInv, Book, [Next]_vars
  PROVE  AppEntry'
<1>0. TypeOK /\ Registered /\ AppEntry /\ AppSession
  BY DEF IInv, Book
<1>1. CASE UNCHANGED bookVars
  BY <1>0, <1>1 DEF AppEntry, bookVars
<1>2. ASSUME NEW s \in Sessions, NEW ports \in Ports, AddSession(s, ports)
      PROVE  AppEntry'
  <2>1. sessionID'[s] = NextId /\ sdkMap[NextId] = NULL
    BY <1>0, <1>2, BookTypes DEF AddSession, NewSession
  <2> QED  BY <1>2, <2>1 DEF AddSession, AppEntry, AddPcs, DelPcs
<1>3. CASE AddToReceiver
  <2>1. app \in Adding /\ app.session \in Sessions /\ sessionID[app.session] \in Ids
    BY <1>0, <1>3, AppFields, BookTypes DEF AddToReceiver, AddPcs
  <2>2. /\ app' = [app EXCEPT !.pc = "captureAdd"]
        /\ sessionMap'[sessionID[app.session]] = app.session
        /\ UNCHANGED <<sessionID, sdkMap>>
    BY <1>0, <1>3, <2>1, BookTypes DEF AddToReceiver, ReceiverAdd, MapSet, sessionVars
  <2> QED  BY <1>0, <1>3, <2>1, <2>2 DEF AddToReceiver, AppEntry, Adding, AddPcs, DelPcs
<1>4. CASE BindFails \/ AddToCapture \/ DelFree
  BY <1>4 DEF BindFails, AddToCapture, DelFree, Idle, AppEntry, AddPcs, DelPcs
<1>5. ASSUME NEW id \in Ids, DelSession(id)
      PROVE  AppEntry'
  BY <1>5 DEF DelSession, AppEntry, AddPcs, DelPcs
<1>6. ASSUME DelFind \/ DelLockBuffer \/ DelErase
      PROVE  AppEntry'
  <2>1. app \in Deleting
    BY <1>0, <1>6, AppFields DEF DelFind, DelLockBuffer, DelErase, DelPcs
  <2>2. app'.pc \in DelPcs /\ app'.session = app.session /\ app'.id = app.id /\ sdkMap' = sdkMap
    BY <1>6, <2>1 DEF DelFind, DelLockBuffer, DelErase, Deleting, DelPcs
  <2> QED  BY <1>0, <2>1, <2>2 DEF AppEntry, Deleting, AddPcs, DelPcs
<1>7. ASSUME ReceiversStep \/ Capture \/ DelDrain
      PROVE  UNCHANGED bookVars
  BY <1>7, BookFrame
<1> QED
  BY <1>1, <1>2, <1>3, <1>4, <1>5, <1>6, <1>7 DEF Next, AddSteps, DelSteps, ReceiversStep

-------------------------------------------------------------------------------
(* A step of the application ends the service of an id only by a deletion  *)
(* of that id.                                                             *)
LEMMA ServiceKept ==
  ASSUME Disciplined, IInv, Book, [Next]_vars
  PROVE  /\ \A s, id : Good(s, id) => Good(s, id)' \/ DelSession(id)
         /\ \A id \in Ids : InUse(id) => InUse(id)' \/ DelSession(id)
<1> DEFINE Kept == /\ \A s, id : Good(s, id) => Good(s, id)' \/ DelSession(id)
                   /\ \A id \in Ids : InUse(id) => InUse(id)' \/ DelSession(id)
<1> SUFFICES Kept
  OBVIOUS
<1>0. TypeOK /\ Registered /\ AppEntry /\ AppSession
  BY DEF IInv, Book
<1>1. CASE UNCHANGED bookVars
  BY <1>1 DEF Good, InUse, Deletes, bookVars
<1>2. ASSUME NEW s \in Sessions, NEW ports \in Ports, AddSession(s, ports)
      PROVE  Kept
  <2>1. /\ s \notin live /\ live' = live \cup {s}
        /\ \A u \in Sessions : u # s => sessionID'[u] = sessionID[u]
        /\ UNCHANGED <<sdkMap, sessionMap>> /\ app'.pc \notin DelPcs /\ app.pc # "captureAdd"
    BY <1>0, <1>2, BookTypes DEF AddSession, NewSession, Idle, DelPcs, receiverVars
  <2> QED  BY <1>0, <2>1, BookTypes DEF Good, InUse, Deletes
<1>3. CASE AddToReceiver
  <2>1. /\ UNCHANGED <<live, sessionID, sdkMap>> /\ app'.pc \notin DelPcs /\ app.pc # "captureAdd"
        /\ sessionMap' = [sessionMap EXCEPT ![sessionID[app.session]] = app.session]
        /\ sdkMap[sessionID[app.session]] = NULL /\ app.session \in Sessions
    BY <1>0, <1>3, AppFields
    DEF AddToReceiver, ReceiverAdd, MapSet, AppEntry, Adding, AddPcs, DelPcs, sessionVars
  <2> QED  BY <1>0, <2>1, BookTypes DEF Good, InUse, Deletes
<1>8. CASE BindFails \/ AddToCapture
  <2>1. /\ UNCHANGED <<live, sessionID, sessionMap>> /\ app'.pc \notin DelPcs
        /\ \/ sdkMap' = sdkMap /\ app.pc # "captureAdd"
           \/ /\ sdkMap' = [sdkMap EXCEPT ![sessionID[app.session]] = app.session]
              /\ sdkMap[sessionID[app.session]] = NULL
        /\ app.session \in Sessions
    BY <1>0, <1>8, AppFields
    DEF BindFails, ReceiverAddFails, AddToCapture, Idle, AppEntry, Adding, AddPcs, DelPcs,
        sessionVars, receiverVars
  <2> QED  BY <1>0, <2>1, BookTypes DEF Good, InUse, Deletes
<1>4. ASSUME NEW id \in Ids, DelSession(id)
      PROVE  Kept
  <2>1. /\ UNCHANGED <<live, sessionID, sdkMap, sessionMap>> /\ app.pc \notin DelPcs \cup AddPcs
        /\ app'.session = sdkMap[id] /\ sdkMap[id] # NULL /\ sessionID[sdkMap[id]] = id
    BY <1>0, <1>4 DEF DelSession, Idle, AddPcs, DelPcs, sessionVars, receiverVars, Registered
  <2> QED  BY <1>0, <1>4, <2>1 DEF Good, InUse, Deletes, Registered, AddPcs
<1>5. CASE DelFind \/ DelLockBuffer \/ DelErase
  <2>1. app \in Deleting /\ app.pc \in DelPcs
    BY <1>0, <1>5, AppFields DEF DelFind, DelLockBuffer, DelErase, DelPcs
  <2>2. /\ UNCHANGED <<live, sessionID, sdkMap, sessionMap>>
        /\ app'.pc \in DelPcs /\ app'.session = app.session
    BY <1>5, <2>1
    DEF DelFind, DelLockBuffer, LockBuffer, DelErase, CaptureDelErase, Deleting, DelPcs,
        sessionVars, receiverVars
  <2> QED  BY <2>1, <2>2 DEF Good, InUse, Deletes, DelPcs
<1>6. CASE DelFree
  <2>1. /\ live' = live \ {app.session} /\ UNCHANGED <<sessionID, sessionMap>>
        /\ app.pc \in DelPcs /\ app'.pc \notin DelPcs /\ app.pc # "captureAdd"
        /\ app.id \in Ids /\ sdkMap[app.id] = app.session
        /\ sdkMap' = [sdkMap EXCEPT ![app.id] = NULL]
    BY <1>0, <1>6, BookTypes DEF DelFree, DeleteSession, AppEntry, Idle, DelPcs, receiverVars
  <2> QED  BY <1>0, <2>1, BookTypes DEF Good, InUse, Deletes
<1>7. ASSUME ReceiversStep \/ Capture \/ DelDrain
      PROVE  UNCHANGED bookVars
  BY <1>7, BookFrame
<1> HIDE DEF Kept
<1> QED
  BY <1>1, <1>2, <1>3, <1>4, <1>5, <1>6, <1>7, <1>8 DEF Next, AddSteps, DelSteps, ReceiversStep

-------------------------------------------------------------------------------
(* Who is served stays served: the application's steps disturb nobody,     *)
(* since a deletion waits until the session is quiet, and the receivers'   *)
(* steps pass the service on, from the map to the call, from the network   *)
(* to the socket and from the socket to T1.                                *)

(* T1 or a feeder that stays where it is.                                  *)
LEMMA SameCallServed ==
  ASSUME Disciplined, IInv, Book, [Next]_vars,
         NEW c, CallServed(c),
         c \in {t1} \cup {call[f] : f \in Feeders},
         c.pc = "lookup" => c.pkt.to \in Ids
  PROVE  /\ c.pc = "lookup" => InUse(c.pkt.to)'
         /\ c.pc = "push" => Good(c.session, c.node.pkt.to)'
<1>1. ASSUME NEW id \in Ids, DelSession(id)
      PROVE  ~IsFor(id, c)
  BY <1>1 DEF DelSession, Quiet
<1>2. CASE c.pc = "lookup"
  <2>1. c.pkt.to \in Ids /\ ~DelSession(c.pkt.to)
    BY <1>1, <1>2 DEF IsFor
  <2>2. InUse(c.pkt.to)'
    BY <1>2, <2>1, ServiceKept DEF CallServed
  <2> QED  BY <1>2, <2>2
<1>3. CASE c.pc = "push"
  <2>1. Good(c.session, c.node.pkt.to)
    BY <1>3 DEF CallServed
  <2>2. c.node.pkt.to \in Ids
    BY <2>1, BookTypes DEF Good, IInv
  <2>3. ~DelSession(c.node.pkt.to)
    BY <1>1, <1>3, <2>2 DEF IsFor
  <2> QED  BY <1>3, <2>1, <2>3, ServiceKept
<1> QED  BY <1>2, <1>3

(* The steps of feeder f: Feed begins with an id in use, Fill finds the    *)
(* session of the SDK's map in the ReceiverCenter's.                       *)
LEMMA FeederServed ==
  ASSUME Disciplined, IInv, Book, CallsServed, NEW f \in Feeders,
         \/ \E id \in Ids, len \in CallLens : Feed(f, id, len)
         \/ FeederStep(f)
  PROVE  CallServed(call[f])' /\ UNCHANGED t1 /\ \A g \in Feeders : g # f => call'[g] = call[g]
<1>0. /\ TypeOK /\ Registered /\ call \in [Feeders -> {Idle} \cup Looking \cup Pushing]
      /\ CallServed(call[f])
  BY DEF IInv, Book, TypeOK, ReceiverTypeOK, CallsServed
<1>1. UNCHANGED bookVars
  BY BookFrame DEF ReceiversStep
<1>2. UNCHANGED t1 /\ \E c : call' = [call EXCEPT ![f] = c]
  BY DEF Feed, OnRTPData, FeederStep, Refuse, Fill, PushCall
<1>3. CallServed(call[f])'
  <2>1. ASSUME NEW id \in Ids, NEW len \in CallLens, Feed(f, id, len)
        PROVE  CallServed(call[f])'
    <3>1. /\ InUse(id) /\ call'[f].pc = "lookup" /\ call'[f].pkt.to = id
      BY <1>0, <2>1 DEF Feed, OnRTPData
    <3> QED  BY <1>1, <3>1 DEF CallServed, InUse, Deletes, bookVars
  <2>2. CASE Refuse(f) \/ PushCall(f)
    <3>1. call'[f] = Idle
      BY <1>0, <2>2 DEF Refuse, PushCall
    <3> QED  BY <3>1 DEF CallServed, Idle
  <2>3. ASSUME NEW b, Fill(f, b)
        PROVE  CallServed(call[f])'
    <3> DEFINE id == call[f].pkt.to
    <3>1. call[f].pc = "lookup" /\ id \in Ids
      BY <1>0, <2>3 DEF Fill, Idle, Looking, Pushing, Packet
    <3>2. InUse(id)
      BY <1>0, <3>1 DEF CallServed
    <3>3. Good(sessionMap[id], id)
      BY <1>0, <3>1, <3>2 DEF InUse, Registered, Good
    <3>4. call'[f].pc = "push" /\ call'[f].session = sessionMap[id] /\ call'[f].node.pkt.to = id
      BY <1>0, <2>3 DEF Fill
    <3> QED  BY <1>1, <3>3, <3>4 DEF CallServed, Good, Deletes, bookVars
  <2> QED  BY <2>1, <2>2, <2>3 DEF FeederStep
<1> QED  BY <1>0, <1>2, <1>3

(* The steps of T1.                                                        *)
LEMMA ReactorServed ==
  ASSUME Disciplined, IInv, Book, SocketsServed,
         \/ \E h \in 1..Len(handlers), m \in Media : ReadSocket(h, m)
         \/ PushSocket
  PROVE  CallServed(t1)' /\ UNCHANGED call
<1>0. TypeOK
  BY DEF IInv
<1>1. UNCHANGED bookVars
  BY BookFrame DEF ReceiversStep
<1>2. ASSUME NEW h \in 1..Len(handlers), NEW m \in Media, ReadSocket(h, m)
      PROVE  CallServed(t1)' /\ UNCHANGED call
  <2>1. PICK b : OnSocketReadable(h, m, b)
    BY <1>2 DEF ReadSocket
  <2>2. handlers[h] \in Handler
    BY <1>0, ElementOfSeq DEF TypeOK, ReceiverTypeOK
  <2>3. handlers[h].queue[m] # <<>> /\ handlers[h].queue[m] \in Seq(Datagram)
    BY <2>1, <2>2 DEF Handler, OnSocketReadable, Readable
  <2>4. Head(handlers[h].queue[m]) = handlers[h].queue[m][1] /\ 1 \in 1..Len(handlers[h].queue[m])
    BY <2>3, HeadTailProperties, EmptySeq, LenProperties
  <2>5. /\ t1'.pc = "push" /\ t1'.session = handlers[h].session
        /\ t1'.node.pkt = handlers[h].queue[m][1].pkt
    BY <2>1, <2>4 DEF OnSocketReadable
  <2>6. Good(t1'.session, t1'.node.pkt.to)
    BY <2>3, <2>4, <2>5 DEF SocketsServed
  <2> QED  BY <1>1, <2>1, <2>5, <2>6 DEF CallServed, Good, Deletes, bookVars, OnSocketReadable
<1>3. CASE PushSocket
  BY <1>3 DEF PushSocket, PushDatagram, CallServed, Idle
<1> QED  BY <1>2, <1>3

LEMMA CallsServedStep ==
  ASSUME Disciplined, IInv, Book, Served, [Next]_vars
  PROVE  CallsServed'
<1>0. TypeOK /\ CallsServed /\ SocketsServed
  BY DEF IInv, Served
<1>1. /\ \A f \in Feeders : call[f].pc = "lookup" => call[f].pkt.to \in Ids
      /\ t1.pc # "lookup"
  BY <1>0 DEF TypeOK, ReceiverTypeOK, Idle, Looking, Pushing, Packet
<1>2. t1' = t1 => CallServed(t1)'
  BY <1>0, <1>1, SameCallServed DEF CallsServed, CallServed
<1>3. ASSUME NEW f \in Feeders, call'[f] = call[f]
      PROVE  CallServed(call[f])'
  BY <1>0, <1>1, <1>3, SameCallServed DEF CallsServed, CallServed
<1>4. CASE \E f \in Feeders : \/ \E id \in Ids, len \in CallLens : Feed(f, id, len)
                              \/ FeederStep(f)
  BY <1>0, <1>2, <1>3, <1>4, FeederServed DEF CallsServed
<1>5. CASE (\E h \in 1..Len(handlers), m \in Media : ReadSocket(h, m)) \/ PushSocket
  BY <1>0, <1>3, <1>5, ReactorServed DEF CallsServed
<1>6. CASE UNCHANGED <<t1, call>>
  BY <1>2, <1>3, <1>6 DEF CallsServed
<1>7. ASSUME \/ \E s \in Sessions, ports \in Ports : AddSession(s, ports)
             \/ \E id \in Ids : DelSession(id)
             \/ AddSteps \/ DelSteps \/ Capture \/ UNCHANGED vars
             \/ \E h \in 1..Len(handlers), m \in Media, len \in DatagramLens : Receive(h, m, len)
      PROVE  UNCHANGED <<t1, call>>
  BY <1>7 DEF AddSession, DelSession, AddSteps, AddToReceiver, ReceiverAdd, BindFails,
     ReceiverAddFails, AddToCapture, DelSteps, DelFind, DelLockBuffer, DelDrain, DelErase,
     DelFree, Capture, Receive, Arrive, receiverVars, vars
<1> QED  BY <1>4, <1>5, <1>6, <1>7 DEF Next

(* A socket's contents change: what the handlers are then.                 *)
LEMMA HandlersAt ==
  ASSUME TypeOK, NEW h \in 1..Len(handlers), NEW m \in Media, NEW q,
         handlers' = [handlers EXCEPT ![h].queue[m] = q]
  PROVE  /\ Len(handlers') = Len(handlers)
         /\ \A g \in 1..Len(handlers) :
              /\ handlers'[g].session = handlers[g].session
              /\ handlers'[g].id = handlers[g].id
              /\ \A n \in Media : handlers'[g].queue[n] =
                   IF g = h /\ n = m THEN q ELSE handlers[g].queue[n]
<1>1. /\ handlers \in Seq(Handler) /\ DOMAIN handlers = 1..Len(handlers)
      /\ \A g \in 1..Len(handlers) : handlers[g] \in Handler
  BY ElementOfSeq, LenProperties DEF TypeOK, ReceiverTypeOK
<1>2. handlers' = [handlers EXCEPT ![h] = [handlers[h] EXCEPT !.queue = [@ EXCEPT ![m] = q]]]
  BY <1>1
<1>3. Len(handlers') = Len(handlers)
  BY <1>1, <1>2, LenProperties
<1> QED  BY <1>1, <1>2, <1>3 DEF Handler

(* The types of a handler and its sockets.                                 *)
LEMMA HandlerTypes ==
  ASSUME TypeOK, NEW h \in 1..Len(handlers), NEW m \in Media
  PROVE  /\ handlers[h] \in Handler /\ handlers[h].id \in Ids
         /\ handlers[h].queue[m] \in Seq(Datagram)
<1>1. handlers[h] \in Handler
  BY ElementOfSeq DEF TypeOK, ReceiverTypeOK
<1> QED  BY <1>1 DEF Handler

(* The contents of one socket, with the session and the id of its handler. *)
SocketServed(s, id, q) ==
  /\ q # <<>> => Good(s, id)
  /\ \A i \in 1..Len(q) : q[i].pkt.to = id

LEMMA SocketsServedStep ==
  ASSUME Disciplined, IInv, Book, Served, [Next]_vars
  PROVE  SocketsServed'
<1>0. TypeOK /\ SocketsServed
  BY DEF IInv, Served
<1>1. CASE UNCHANGED <<handlers, bookVars>>
  BY <1>0, <1>1 DEF SocketsServed, Good, Deletes, bookVars
<1>2. CASE UNCHANGED handlers
  <2> SUFFICES ASSUME NEW h \in 1..Len(handlers), NEW m \in Media
               PROVE  /\ handlers[h].queue[m] # <<>> => Good(handlers[h].session, handlers[h].id)'
                      /\ \A i \in 1..Len(handlers[h].queue[m]) :
                           handlers[h].queue[m][i].pkt.to = handlers[h].id
    BY <1>2 DEF SocketsServed
  <2>1. CASE handlers[h].queue[m] # <<>>
    <3>1. Good(handlers[h].session, handlers[h].id) /\ handlers[h].id \in Ids
      BY <1>0, <2>1, HandlerTypes DEF SocketsServed
    <3>2. ~DelSession(handlers[h].id)
      BY <2>1 DEF DelSession, Quiet
    <3>3. Good(handlers[h].session, handlers[h].id)'
      BY <1>2, <3>1, <3>2, ServiceKept
    <3> QED  BY <1>0, <1>2, <3>3 DEF SocketsServed
  <2> QED  BY <1>0, <2>1 DEF SocketsServed
<1>3. CASE AddToReceiver /\ ~UNCHANGED handlers
  <2> DEFINE new == [session |-> app.session, id |-> sessionID[app.session],
                     queue |-> [m \in Media |-> <<>>]]
  <2>1. handlers' = Append(handlers, new)
    BY <1>3 DEF AddToReceiver, ReceiverAdd
  <2>2. new \in Handler
    BY <1>0, <1>3, BookTypes, EmptySeq DEF AddToReceiver, AddPcs, Handler
  <2>3. new.queue = [m \in Media |-> <<>>]
    OBVIOUS
  <2> HIDE DEF new
  <2>4. /\ Len(handlers) \in Nat /\ Len(handlers') = Len(handlers) + 1
        /\ handlers'[Len(handlers) + 1] = new
        /\ \A h \in 1..Len(handlers) : handlers'[h] = handlers[h]
    BY <1>0, <2>1, <2>2, AppendProperties, LenProperties DEF TypeOK, ReceiverTypeOK
  <2>5. \A s, id : Good(s, id) => Good(s, id)'
    <3>1. \A id : ~DelSession(id)
      BY <1>3 DEF AddToReceiver, DelSession, Idle
    <3> QED  BY <3>1, ServiceKept
  <2>6. ASSUME NEW h \in 1..Len(handlers'), NEW m \in Media
        PROVE  /\ handlers'[h].queue[m] # <<>> => Good(handlers[h].session, handlers[h].id)'
               /\ \A i \in 1..Len(handlers'[h].queue[m]) :
                    handlers'[h].queue[m][i].pkt.to = handlers'[h].id
    <3>1. CASE h \in 1..Len(handlers)
      <4>1. handlers'[h] = handlers[h]
        BY <2>4, <3>1
      <4> QED  BY <1>0, <2>5, <3>1, <4>1 DEF SocketsServed
    <3>2. CASE h \notin 1..Len(handlers)
      <4>1. handlers'[h].queue[m] = <<>>
        BY <2>3, <2>4, <3>2
      <4> QED  BY <4>1, EmptySeq
    <3> QED  BY <3>1, <3>2
  <2> QED  BY <2>6 DEF SocketsServed
<1>4. ASSUME NEW h \in 1..Len(handlers), NEW m \in Media, NEW len \in DatagramLens,
             Receive(h, m, len)
      PROVE  SocketsServed'
  <2> DEFINE d == [len |-> len, pkt |-> [to |-> handlers[h].id, via |-> m, n |-> sent + 1]]
             old == handlers[h].queue[m]
  <2>1. handlers' = [handlers EXCEPT ![h].queue[m] = Append(old, d)] /\ UNCHANGED bookVars
    BY <1>4, BookFrame DEF Receive, Arrive, ReceiversStep
  <2>2. Good(handlers[h].session, handlers[h].id)
    <3> DEFINE s == handlers[h].session
               id == handlers[h].id
    <3>1. /\ Registered /\ AppEntry /\ AppSession
          /\ s \in Sessions /\ id \in Ids
      BY <1>0, HandlerTypes DEF IInv, Book, Handler
    <3>2. /\ sessionID[s] = id
          /\ \/ sdkMap[id] = s /\ ~Deletes(s)
             \/ app.pc = "captureAdd" /\ app.session = s
      BY <1>4 DEF Receive, Serves
    <3> HIDE DEF s, id
    <3>3. s \in live /\ sessionMap[id] = s
      BY <1>0, <3>1, <3>2, BookTypes DEF Registered, AppEntry, AppSession, AddPcs
    <3>4. Good(s, id)
      BY <3>2, <3>3 DEF Good
    <3> QED  BY <3>4 DEF s, id
  <2>3. d.pkt.to = handlers[h].id /\ d \in Datagram
    BY <1>0, HandlerTypes, ReceiverAssumption DEF Datagram, Packet, TypeOK, ReceiverTypeOK
  <2> HIDE DEF d
  <2>4. /\ Len(old) \in Nat /\ Len(Append(old, d)) = Len(old) + 1
        /\ \A i \in 1..Len(old) : Append(old, d)[i] = old[i]
        /\ Append(old, d)[Len(old) + 1] = d
    BY <1>0, <2>3, HandlerTypes, AppendProperties, LenProperties
  <2>5. \A i \in 1..Len(Append(old, d)) : Append(old, d)[i].pkt.to = handlers[h].id
    BY <1>0, <2>3, <2>4 DEF SocketsServed
  <2>6. \A g \in 1..Len(handlers), n \in Media :
          SocketServed(handlers[g].session, handlers[g].id, handlers[g].queue[n])
    BY <1>0 DEF SocketsServed, SocketServed
  <2>7. \A g \in 1..Len(handlers'), n \in Media :
          SocketServed(handlers'[g].session, handlers'[g].id, handlers'[g].queue[n])
    BY <1>0, <2>1, <2>2, <2>5, <2>6, HandlersAt DEF SocketServed
  <2> QED  BY <2>1, <2>7 DEF SocketsServed, SocketServed, Good, Deletes, bookVars
<1>5. ASSUME NEW h \in 1..Len(handlers), NEW m \in Media, ReadSocket(h, m)
      PROVE  SocketsServed'
  <2> DEFINE old == handlers[h].queue[m]
  <2>1. handlers' = [handlers EXCEPT ![h].queue[m] = Tail(old)] /\ UNCHANGED bookVars /\ old # <<>>
    BY <1>5, BookFrame DEF ReadSocket, OnSocketReadable, Readable, ReceiversStep
  <2>2. /\ Len(old) \in Nat /\ Len(Tail(old)) = Len(old) - 1
        /\ \A i \in 1..Len(Tail(old)) : Tail(old)[i] = old[i + 1]
    BY <1>0, <2>1, HandlerTypes, HeadTailProperties, LenProperties
  <2>3. \A i \in 1..Len(Tail(old)) : Tail(old)[i].pkt.to = handlers[h].id
    BY <1>0, <2>2 DEF SocketsServed
  <2>6. \A g \in 1..Len(handlers), n \in Media :
          SocketServed(handlers[g].session, handlers[g].id, handlers[g].queue[n])
    BY <1>0 DEF SocketsServed, SocketServed
  <2>7. \A g \in 1..Len(handlers'), n \in Media :
          SocketServed(handlers'[g].session, handlers'[g].id, handlers'[g].queue[n])
    BY <1>0, <2>1, <2>3, <2>6, HandlersAt DEF SocketServed
  <2> QED  BY <2>1, <2>7 DEF SocketsServed, SocketServed, Good, Deletes, bookVars
<1>6. ASSUME \/ \E s \in Sessions, ports \in Ports : AddSession(s, ports)
             \/ \E id \in Ids : DelSession(id)
             \/ BindFails \/ AddToCapture \/ DelSteps \/ Capture \/ UNCHANGED vars
             \/ \E f \in Feeders, id \in Ids, len \in CallLens : Feed(f, id, len)
             \/ \E f \in Feeders : FeederStep(f)
             \/ PushSocket
      PROVE  UNCHANGED handlers
  BY <1>6 DEF AddSession, DelSession, BindFails, ReceiverAddFails, AddToCapture, DelSteps,
     DelFind, DelLockBuffer, DelDrain, DelErase, DelFree, Capture, receiverVars, vars,
     Feed, OnRTPData, FeederStep, Refuse, Fill, PushCall, PushSocket, PushDatagram
<1> QED  BY <1>2, <1>3, <1>4, <1>5, <1>6 DEF Next, AddSteps

-------------------------------------------------------------------------------
LEMMA DeletableStep ==
  ASSUME Disciplined, IInv, Book, Deletable, [Next]_vars
  PROVE  Deletable'
<1>0. /\ TypeOK /\ CaptureSideSafe /\ AppSession /\ Registered /\ AppEntry
      /\ sessionVector \in Seq(Sessions) /\ Len(sessionVector) \in Nat
      /\ \A i \in 1..Len(sessionVector) : sessionVector[i] \in Sessions
  BY ElementOfSeq, LenProperties DEF IInv, Book, TypeOK, CaptureTypeOK
<1>1. CASE UNCHANGED <<sessionVector, sdkMap, sessionID>>
  BY <1>1 DEF Deletable
<1>2. ASSUME NEW s \in Sessions, NEW ports \in Ports, AddSession(s, ports)
      PROVE  Deletable'
  <2>1. /\ s \notin live /\ UNCHANGED <<sessionVector, sdkMap>>
        /\ \A u \in Sessions : u # s => sessionID'[u] = sessionID[u]
    BY <1>0, <1>2, BookTypes DEF AddSession, NewSession, captureVars
  <2> QED  BY <1>0, <2>1 DEF Deletable, CaptureSideSafe
<1>3. CASE AddToCapture
  <2>1. /\ app.session \in Sessions /\ sdkMap[sessionID[app.session]] = NULL
        /\ sdkMap' = [sdkMap EXCEPT ![sessionID[app.session]] = app.session]
        /\ sessionVector' = Append(sessionVector, app.session)
        /\ UNCHANGED sessionID
    BY <1>0, <1>3, BookTypes DEF AddToCapture, CaptureAdd, AppEntry, AddPcs, sessionVars
  <2>2. /\ Len(sessionVector') = Len(sessionVector) + 1
        /\ \A i \in 1..Len(sessionVector) : sessionVector'[i] = sessionVector[i]
        /\ sessionVector'[Len(sessionVector) + 1] = app.session
    BY <1>0, <2>1, AppendProperties
  <2>3. ASSUME NEW i \in 1..Len(sessionVector)
        PROVE  sdkMap'[sessionID[sessionVector[i]]] = sessionVector[i]
    <3>1. /\ sessionVector[i] \in Sessions
          /\ sdkMap[sessionID[sessionVector[i]]] = sessionVector[i]
      BY <1>0 DEF Deletable
    <3> QED  BY <1>0, <2>1, <3>1, BookTypes
  <2>4. sdkMap'[sessionID[app.session]] = app.session
    BY <1>0, <2>1, BookTypes
  <2>5. \A i \in 1..Len(sessionVector') : i \in 1..Len(sessionVector) \/ i = Len(sessionVector) + 1
    BY <1>0, <2>2
  <2> QED  BY <2>1, <2>2, <2>3, <2>4, <2>5 DEF Deletable
<1>4. CASE DelErase
  BY <1>4, EraseVector DEF DelErase, CaptureDelErase, Deletable
<1>5. CASE DelFree
  <2>1. /\ app.id \in Ids /\ sdkMap[app.id] = app.session /\ ~InVector(app.session)
        /\ sdkMap' = [sdkMap EXCEPT ![app.id] = NULL]
        /\ UNCHANGED <<sessionVector, sessionID>>
    BY <1>0, <1>5, BookTypes DEF DelFree, DeleteSession, AppEntry, AppSession, DelPcs, captureVars
  <2>2. ASSUME NEW i \in 1..Len(sessionVector)
        PROVE  sdkMap'[sessionID[sessionVector[i]]] = sessionVector[i]
    <3>1. /\ sdkMap[sessionID[sessionVector[i]]] = sessionVector[i]
          /\ sessionVector[i] # app.session
      BY <2>1 DEF Deletable, InVector
    <3> QED  BY <1>0, <2>1, <3>1, BookTypes
  <2> QED  BY <2>1, <2>2 DEF Deletable
<1>6. ASSUME \/ \E id \in Ids : DelSession(id)
             \/ AddToReceiver \/ BindFails \/ DelFind \/ DelLockBuffer \/ DelDrain \/ Capture
      PROVE  UNCHANGED <<sessionVector, sdkMap, sessionID>>
  BY <1>6 DEF DelSession, AddToReceiver, BindFails, DelFind, CaptureDelFind, DelLockBuffer,
     LockBuffer, DelDrain, CaptureDelDrain, PopFront, Capture, T2Step, StartRound, EnterSession,
     Record, ReleaseRecorded, LeaveSession, EndRound, sessionVars, captureVars, sdkVars
<1>7. ASSUME ReceiversStep PROVE UNCHANGED <<sessionVector, sdkMap, sessionID>>
  BY <1>7, ReceiversFrame DEF captureVars, sdkVars
<1> QED
  BY <1>1, <1>2, <1>3, <1>4, <1>5, <1>6, <1>7 DEF Next, AddSteps, DelSteps, ReceiversStep

-------------------------------------------------------------------------------
DInv == IInv /\ Book /\ Served /\ Deletable

LEMMA InitDInv == Init => DInv
<1> SUFFICES ASSUME Init PROVE DInv
  OBVIOUS
<1>1. IInv
  BY InitIInv
<1>2. Book
  BY DEF Init, Book, Registered, AppEntry, Idle, AddPcs, DelPcs
<1>3. CallsServed
  BY DEF Init, ReceiverInit, CallsServed, CallServed, Idle
<1>4. SocketsServed
  BY EmptySeq DEF Init, ReceiverInit, SocketsServed
<1>5. Deletable
  BY EmptySeq DEF Init, CaptureInit, Deletable
<1> QED  BY <1>1, <1>2, <1>3, <1>4, <1>5 DEF DInv, Served

LEMMA NextDInv == Disciplined /\ DInv /\ [Next]_vars => DInv'
<1> SUFFICES ASSUME Disciplined, DInv, [Next]_vars PROVE DInv'
  OBVIOUS
<1>1. IInv'
  BY NextIInv DEF DInv
<1>2. Book'
  BY RegisteredStep, AppEntryStep DEF DInv, Book
<1>3. Served'
  BY CallsServedStep, SocketsServedStep DEF DInv, Served
<1>4. Deletable'
  BY DeletableStep DEF DInv
<1> QED  BY <1>1, <1>2, <1>3, <1>4 DEF DInv

LEMMA DInvariance == Disciplined => (Spec => []DInv)
<1> SUFFICES ASSUME Disciplined PROVE Spec => []DInv
  OBVIOUS
<1>1. DInv /\ [Next]_vars => DInv'
  BY NextDInv
<1> QED  BY InitDInv, <1>1, PTL DEF Spec

(* A disciplined program's packets never meet a session that is gone: who  *)
(* holds a session's pointer, between the lookup or the readable event and *)
(* the push, holds that of a live session with the id that was meant.      *)
THEOREM PushesSafe == Disciplined => (Spec => []NoDanglingPush)
<1> SUFFICES ASSUME Disciplined PROVE Spec => []NoDanglingPush
  OBVIOUS
<1>1. DInv => NoDanglingPush
  BY DEF DInv, Served, CallsServed, CallServed, Good, NoDanglingPush
<1> QED  BY DInvariance, <1>1, PTL

(* A disciplined program can delete every session it has added, through    *)
(* any number of wraps of the counter.                                     *)
THEOREM SessionsDeletable == Disciplined => (Spec => []Deletable)
<1> SUFFICES ASSUME Disciplined PROVE Spec => []Deletable
  OBVIOUS
<1>1. DInv => Deletable
  BY DEF DInv
<1> QED  BY DInvariance, <1>1, PTL

-------------------------------------------------------------------------------
(* No block is lost.  Every block is free, in a hand or in a list; a list  *)
(* is empty when its session goes, because a session that can be deleted   *)
(* is in the vector, so that the deletion drains its list, and because     *)
(* nobody pushes into a session that is being deleted.                     *)

Cov(hand, q, free, n) ==
  \A b \in 1..n : b \in free \/ InLists(q, b) \/ \E t \in DOMAIN hand : hand[t] = b

Covered == Cov(Hand, bufferList, blocks, allocated)

Captured ==
  \A id \in Ids : \/ sdkMap[id] = NULL
                  \/ app.pc = "free" /\ app.session = sdkMap[id]
                  \/ InVector(sdkMap[id])

Emptied ==
  /\ \A s \in Sessions \ live : bufferList[s] = <<>>
  /\ app.pc = "free" => bufferList[app.session] = <<>>

(* What is in the lists stays there, and what is added is there.           *)
LEMMA PushedHolds ==
  ASSUME NEW q \in Lists, NEW s \in Sessions, NEW node \in Node
  PROVE  /\ InLists(Pushed(q, s, node), node.buffer)
         /\ \A b : InLists(q, b) => InLists(Pushed(q, s, node), b)
<1> DEFINE r == Pushed(q, s, node)
<1>1. /\ Len(Append(q[s], node)) = Len(q[s]) + 1 /\ Len(q[s]) \in Nat
      /\ \A i \in 1..Len(q[s]) : Append(q[s], node)[i] = q[s][i]
      /\ Append(q[s], node)[Len(q[s]) + 1] = node
  BY AppendProperties, LenProperties DEF Lists
<1>2. r[s] = Append(q[s], node) /\ \A u \in Sessions : u # s => r[u] = q[u]
  BY DEF Lists, Pushed
<1> HIDE DEF r
<1>3. \A u \in Sessions : \A i \in 1..Len(q[u]) : i \in 1..Len(r[u]) /\ r[u][i] = q[u][i]
  BY <1>1, <1>2
<1>4. Len(q[s]) + 1 \in 1..Len(r[s]) /\ r[s][Len(q[s]) + 1] = node
  BY <1>1, <1>2
<1>5. InLists(r, node.buffer) /\ \A b : InLists(q, b) => InLists(r, b)
  BY <1>3, <1>4 DEF InLists
<1> QED  BY <1>5 DEF r

LEMMA PoppedHolds ==
  ASSUME NEW q \in Lists, NEW s \in Sessions, q[s] # <<>>
  PROVE  \A b : InLists(q, b) => b = First(q, s) \/ InLists(Popped(q, s), b)
<1> DEFINE r == Popped(q, s)
           tl == Tail(q[s])
<1>1. /\ Len(q[s]) \in Nat \ {0} /\ First(q, s) = q[s][1].buffer
      /\ Len(tl) = Len(q[s]) - 1
      /\ \A i \in 1..Len(tl) : tl[i] = q[s][i + 1]
  BY HeadTailProperties, EmptySeq, LenProperties DEF Lists, First
<1>2. r[s] = tl /\ \A u \in Sessions : u # s => r[u] = q[u]
  BY DEF Lists, Popped
<1> HIDE DEF r, tl
<1>3. ASSUME NEW u \in Sessions, NEW i \in 1..Len(q[u])
      PROVE  q[u][i].buffer = First(q, s) \/ InLists(r, q[u][i].buffer)
  <2>1. CASE u # s
    BY <1>2, <2>1 DEF InLists
  <2>2. CASE u = s /\ i = 1
    BY <1>1, <2>2
  <2>3. CASE u = s /\ i # 1
    <3>1. i - 1 \in 1..Len(tl) /\ tl[i - 1] = q[s][i]
      BY <1>1, <2>3
    <3> QED  BY <1>2, <2>3, <3>1 DEF InLists
  <2> QED  BY <2>1, <2>2, <2>3
<1>4. \A b : InLists(q, b) => b = First(q, s) \/ InLists(r, b)
  BY <1>3 DEF InLists
<1> QED  BY <1>4 DEF r

(* The hands again, in the other direction: what a step leaves in them.    *)
LEMMA FeederHandLeft ==
  ASSUME TypeOK, NEW f \in Feeders, NEW c,
         call' = [call EXCEPT ![f] = c], UNCHANGED <<t1, t2>>
  PROVE  /\ \A t \in DOMAIN Hand : \/ t = f /\ call[f].pc = "push" /\ Hand[t] = call[f].node.buffer
                                   \/ t # f /\ t \in DOMAIN Hand' /\ Hand'[t] = Hand[t]
         /\ c.pc = "push" => f \in DOMAIN Hand' /\ Hand'[f] = c.node.buffer
<1>1. /\ f # T1 /\ f # T2
      /\ call'[f] = c /\ \A g \in Feeders : g # f => call'[g] = call[g]
  BY SessionAssumption DEF TypeOK, ReceiverTypeOK
<1>2. \A t \in Holding : \/ t = f /\ call[f].pc = "push" /\ InHand(t) = call[f].node.buffer
                         \/ t # f /\ t \in Holding' /\ InHand(t)' = InHand(t)
  BY <1>1, SessionAssumption DEF Holding, InHand
<1>3. c.pc = "push" => f \in Holding' /\ InHand(f)' = c.node.buffer
  BY <1>1 DEF Holding, InHand
<1> QED  BY <1>2, <1>3, HandFacts

LEMMA ReactorHandLeft ==
  ASSUME UNCHANGED <<call, t2>>
  PROVE  /\ \A t \in DOMAIN Hand : \/ t = T1 /\ t1.pc = "push" /\ Hand[t] = t1.node.buffer
                                   \/ t # T1 /\ t \in DOMAIN Hand' /\ Hand'[t] = Hand[t]
         /\ t1'.pc = "push" => T1 \in DOMAIN Hand' /\ Hand'[T1] = t1'.node.buffer
<1>1. \A t \in Holding : \/ t = T1 /\ t1.pc = "push" /\ InHand(t) = t1.node.buffer
                         \/ t # T1 /\ t \in Holding' /\ InHand(t)' = InHand(t)
  BY SessionAssumption DEF Holding, InHand
<1>2. t1'.pc = "push" => T1 \in Holding' /\ InHand(T1)' = t1'.node.buffer
  BY DEF Holding, InHand
<1> QED  BY <1>1, <1>2, HandFacts

LEMMA CaptureHandLeft ==
  ASSUME UNCHANGED <<call, t1>>
  PROVE  /\ \A t \in DOMAIN Hand : \/ t = T2 /\ t2.pc = "release" /\ Hand[t] = t2.buffer
                                   \/ t # T2 /\ t \in DOMAIN Hand' /\ Hand'[t] = Hand[t]
         /\ t2'.pc = "release" => T2 \in DOMAIN Hand' /\ Hand'[T2] = t2'.buffer
<1>1. \A t \in Holding : \/ t = T2 /\ t2.pc = "release" /\ InHand(t) = t2.buffer
                         \/ t # T2 /\ t \in Holding' /\ InHand(t)' = InHand(t)
  BY SessionAssumption DEF Holding, InHand
<1>2. t2'.pc = "release" => T2 \in Holding' /\ InHand(T2)' = t2'.buffer
  BY SessionAssumption DEF Holding, InHand
<1> QED  BY <1>1, <1>2, HandFacts

LEMMA HandsLeft ==
  ASSUME UNCHANGED <<call, t1, t2>>
  PROVE  Within(Hand, Hand')
<1>1. Holding' = Holding /\ \A t \in Holding : InHand(t)' = InHand(t)
  BY DEF Holding, InHand
<1> QED  BY <1>1, HandFacts DEF Within

-------------------------------------------------------------------------------
(* Every session in the SDK's map is captured, except by a deletion that   *)
(* has taken it out of the vector.                                         *)
LEMMA AppendKeeps ==
  ASSUME NEW S, NEW q \in Seq(S), NEW e \in S, NEW i \in 1..Len(q)
  PROVE  i \in 1..Len(Append(q, e)) /\ Append(q, e)[i] = q[i]
BY AppendProperties, LenProperties

(* DelErase takes out App's session only.                                  *)
LEMMA EraseKeeps ==
  ASSUME IInv, DelErase, NEW u, u # app.session, InVector(u)
  PROVE  \E k \in 1..Len(sessionVector') : sessionVector'[k] = u
<1>1. PICK i \in 1..Len(sessionVector) :
        /\ sessionVector[i] = app.session
        /\ sessionVector' = RemoveAt(sessionVector, i)
  BY DEF DelErase, CaptureDelErase, EraseSession
<1>2. sessionVector \in Seq(Sessions) /\ Len(sessionVector) \in Nat
  BY LenProperties DEF IInv, TypeOK, CaptureTypeOK
<1>3. /\ Len(sessionVector') = Len(sessionVector) - 1
      /\ \A j \in 1..(Len(sessionVector) - 1) :
           sessionVector'[j] = IF j < i THEN sessionVector[j] ELSE sessionVector[j + 1]
  BY <1>1, <1>2, RemoveAtElements
<1>4. PICK j \in 1..Len(sessionVector) : sessionVector[j] = u
  BY DEF InVector
<1>5. j # i
  BY <1>1, <1>4
<1>6. CASE j < i
  BY <1>2, <1>3, <1>4, <1>6
<1>7. CASE j > i
  <2>1. j - 1 \in 1..Len(sessionVector') /\ sessionVector'[j - 1] = u
    BY <1>2, <1>3, <1>4, <1>7
  <2> QED  BY <2>1
<1> QED  BY <1>2, <1>5, <1>6, <1>7

LEMMA CapturedStep ==
  ASSUME Disciplined, DInv, Captured, [Next]_vars
  PROVE  Captured'
<1>0. /\ IInv /\ TypeOK /\ Registered /\ AppEntry
      /\ sessionVector \in Seq(Sessions)
  BY DEF DInv, IInv, Book, TypeOK, CaptureTypeOK
<1>1. CASE UNCHANGED <<sessionVector, sdkMap, app>>
  BY <1>1 DEF Captured, InVector
<1>2. ASSUME UNCHANGED <<sessionVector, sdkMap>>, app.pc # "free"
      PROVE  Captured'
  BY <1>2 DEF Captured, InVector
<1>3. (\E s \in Sessions, ports \in Ports : AddSession(s, ports))
        => UNCHANGED <<sessionVector, sdkMap>> /\ app.pc # "free"
  BY DEF AddSession, Idle, captureVars
<1>4. ASSUME \/ \E id \in Ids : DelSession(id)
             \/ AddToReceiver \/ BindFails \/ DelFind \/ DelLockBuffer
      PROVE  UNCHANGED <<sessionVector, sdkMap>> /\ app.pc # "free"
  BY <1>4 DEF DelSession, Idle, AddToReceiver, BindFails, DelFind, CaptureDelFind,
     DelLockBuffer, captureVars
<1>5. CASE AddToCapture
  <2>1. /\ app.session \in Sessions /\ app.pc # "free"
        /\ sdkMap' = [sdkMap EXCEPT ![sessionID[app.session]] = app.session]
        /\ sessionVector' = Append(sessionVector, app.session)
    BY <1>0, <1>5, BookTypes DEF AddToCapture, CaptureAdd, AddPcs
  <2>2. \A u : InVector(u) => InVector(u)'
    BY <1>0, <2>1, AppendKeeps DEF InVector
  <2>4. \A id \in Ids : sdkMap'[id] = sdkMap[id] \/ sdkMap'[id] = app.session
    BY <1>0, <2>1, BookTypes
  <2>6. \E j \in 1..Len(sessionVector') : sessionVector'[j] = app.session
    BY <1>0, <2>1, AppendProperties, LenProperties
  <2> QED  BY <2>1, <2>2, <2>4, <2>6 DEF Captured, InVector
<1>6. CASE DelErase
  <2>1. app \in Deleting /\ app.pc # "free" /\ sdkMap' = sdkMap
    BY <1>0, <1>6, AppFields DEF DelErase, DelPcs
  <2>2. app'.pc = "free" /\ app'.session = app.session
    BY <1>6, <2>1 DEF DelErase, Deleting
  <2>3. \A id \in Ids : sdkMap[id] = NULL \/ InVector(sdkMap[id])
    BY <2>1 DEF Captured
  <2> QED  BY <1>0, <1>6, <2>1, <2>2, <2>3, EraseKeeps DEF Captured, InVector
<1>7. CASE DelFree
  <2>1. /\ app.id \in Ids /\ sdkMap[app.id] = app.session
        /\ sdkMap' = [sdkMap EXCEPT ![app.id] = NULL]
        /\ UNCHANGED sessionVector
    BY <1>0, <1>7, BookTypes DEF DelFree, AppEntry, DelPcs, captureVars
  <2> QED  BY <1>0, <2>1, BookTypes DEF Captured, Registered, InVector
<1>8. ASSUME ReceiversStep \/ Capture \/ DelDrain
      PROVE  UNCHANGED <<sessionVector, sdkMap, app>>
  <2>1. Capture \/ DelDrain => UNCHANGED sessionVector
    BY DEF Capture, T2Step, StartRound, EnterSession, Record, ReleaseRecorded, LeaveSession,
       EndRound, DelDrain, CaptureDelDrain, captureVars
  <2>2. ReceiversStep => UNCHANGED sessionVector
    BY ReceiversFrame DEF captureVars
  <2> QED  BY <1>8, <2>1, <2>2, BookFrame DEF bookVars
<1> QED
  BY <1>1, <1>2, <1>3, <1>4, <1>5, <1>6, <1>7, <1>8 DEF Next, AddSteps, DelSteps, ReceiversStep

-------------------------------------------------------------------------------
(* What a step does to the lists: nothing, a push into a session that      *)
(* lives and is not being deleted, a pop by App or T2, or the end or the   *)
(* beginning of a session.                                                 *)
ListPushed == \E s \in Sessions, node \in Node : /\ Good(s, node.pkt.to)
                                                 /\ bufferList' = Pushed(bufferList, s, node)
ListPopped == \E s \in Sessions : /\ bufferList[s] # <<>>
                                  /\ bufferList' = Popped(bufferList, s)
ListCleared == \E s \in Sessions : bufferList' = [bufferList EXCEPT ![s] = <<>>]

LEMMA ReceiversList ==
  ASSUME DInv, ReceiversStep
  PROVE  UNCHANGED bufferList \/ ListPushed
<1>0. TypeOK /\ CallsServed
  BY DEF DInv, IInv, Served
<1>1. ASSUME NEW f \in Feeders, PushCall(f)
      PROVE  UNCHANGED bufferList \/ ListPushed
  <2>1. call[f].session \in Sessions /\ call[f].node \in Node
    BY <1>0, <1>1 DEF TypeOK, ReceiverTypeOK, PushCall, Idle, Looking, Pushing
  <2>2. Good(call[f].session, call[f].node.pkt.to)
    BY <1>0, <1>1 DEF CallsServed, CallServed, PushCall
  <2>3. bufferList' = Pushed(bufferList, call[f].session, call[f].node)
    BY <1>1, <2>2 DEF PushCall, Push, PushBack, Pushed, Good
  <2> QED  BY <2>1, <2>2, <2>3 DEF ListPushed
<1>2. CASE PushSocket
  <2>1. t1.session \in Sessions /\ t1.node \in Node
    BY <1>0, <1>2 DEF TypeOK, ReceiverTypeOK, PushSocket, PushDatagram, Idle, Pushing
  <2>2. Good(t1.session, t1.node.pkt.to)
    BY <1>0, <1>2 DEF CallsServed, CallServed, PushSocket, PushDatagram
  <2>3. bufferList' = Pushed(bufferList, t1.session, t1.node)
    BY <1>2, <2>2 DEF PushSocket, PushDatagram, Push, PushBack, Pushed, Good
  <2> QED  BY <2>1, <2>2, <2>3 DEF ListPushed
<1> QED
  BY <1>1, <1>2 DEF ReceiversStep, Feed, OnRTPData, FeederStep, Refuse, Fill, Receive, Arrive,
     ReadSocket, OnSocketReadable, vars, sessionVars

LEMMA CaptureList ==
  ASSUME DInv, Capture
  PROVE  UNCHANGED bufferList \/ ListPopped
<1>1. TypeOK /\ IteratorValid
  BY DEF DInv, IInv
<1>2. CASE Record
  <2>1. Current \in Sessions
    BY <1>1, <1>2, CurrentType DEF Record
  <2> QED  BY <1>2, <2>1 DEF Record, PopFront, Popped, ListPopped
<1> QED
  BY <1>2 DEF Capture, T2Step, StartRound, EnterSession, LockBuffer, ReleaseRecorded,
     LeaveSession, EndRound, sessionVars

(* A list that is empty stays so if its session is gone or being deleted.  *)
LEMMA EmptyKept ==
  ASSUME TypeOK, UNCHANGED bufferList \/ ListPushed \/ ListPopped \/ ListCleared,
         NEW u \in Sessions, bufferList[u] = <<>>, u \notin live \/ Deletes(u)
  PROVE  bufferList'[u] = <<>>
<1>1. bufferList \in Lists
  BY DEF TypeOK, SessionTypeOK, Lists
<1>2. CASE ListPushed
  BY <1>1, <1>2 DEF ListPushed, Good, Deletes, DelPcs, Pushed, Lists
<1>3. CASE ListPopped
  BY <1>1, <1>3 DEF ListPopped, Popped, Lists
<1>4. CASE ListCleared
  BY <1>1, <1>4 DEF ListCleared, Lists
<1> QED  BY <1>2, <1>3, <1>4

LEMMA EmptiedStep ==
  ASSUME Disciplined, DInv, Captured, Emptied, [Next]_vars
  PROVE  Emptied'
<1>0. TypeOK /\ AppEntry /\ bufferList \in Lists
  BY DEF DInv, IInv, Book, TypeOK, SessionTypeOK, Lists
<1>1. ASSUME UNCHANGED <<live, app>>, UNCHANGED bufferList \/ ListPushed \/ ListPopped
      PROVE  Emptied'
  <2>1. app.pc = "free" => Deletes(app.session) /\ app.session \in Sessions
    BY <1>0, AppFields DEF Deletes, DelPcs
  <2> QED  BY <1>0, <1>1, <2>1, EmptyKept DEF Emptied
<1>2. ASSUME UNCHANGED <<live, bufferList>>, app'.pc # "free"
      PROVE  Emptied'
  BY <1>2 DEF Emptied
<1>3. ASSUME NEW s \in Sessions, NEW ports \in Ports, AddSession(s, ports)
      PROVE  Emptied'
  <2>1. /\ live' = live \cup {s} /\ app'.pc # "free"
        /\ bufferList' = [bufferList EXCEPT ![s] = <<>>]
    BY <1>3 DEF AddSession, NewSession
  <2> QED  BY <1>0, <2>1 DEF Emptied, Lists
<1>4. CASE AddSteps
  <2>1. app'.pc # "free"
    BY <1>0, <1>4, AppFields
    DEF AddSteps, AddToReceiver, BindFails, AddToCapture, Idle, Adding, AddPcs
  <2> QED  BY <1>2, <1>4, <2>1 DEF AddSteps, AddToReceiver, BindFails, AddToCapture, sessionVars
<1>5. ASSUME NEW id \in Ids, DelSession(id)
      PROVE  Emptied'
  BY <1>2, <1>5 DEF DelSession, sessionVars
<1>6. CASE DelFind \/ DelLockBuffer
  <2>1. app \in Deleting /\ app.id \in Ids /\ app.session \in Sessions /\ sdkMap[app.id] = app.session
    BY <1>0, <1>6, AppFields, BookTypes DEF DelFind, DelLockBuffer, AppEntry, DelPcs
  <2>2. app.pc # "free" => InVector(app.session)
    BY <2>1, SessionAssumption DEF Captured
  <2>3. app'.pc # "free"
    BY <1>6, <2>1, <2>2 DEF DelFind, DelLockBuffer, Deleting
  <2> QED  BY <1>2, <1>6, <2>3 DEF DelFind, DelLockBuffer, LockBuffer, sessionVars
<1>7. CASE DelDrain
  <2>1. app.session \in Sessions
    BY <1>0, <1>7, AppFields DEF DelDrain, DelPcs
  <2>2. ListPopped
    BY <1>7, <2>1 DEF DelDrain, CaptureDelDrain, PopFront, ListPopped, Popped
  <2> QED  BY <1>1, <1>7, <2>2, BookFrame DEF bookVars
<1>8. CASE DelErase
  <2>1. app \in Deleting /\ bufferList[app.session] = <<>>
    BY <1>0, <1>8, AppFields DEF DelErase, CaptureDelErase, DelPcs
  <2>2. app'.session = app.session /\ UNCHANGED <<live, bufferList>>
    BY <1>8, <2>1 DEF DelErase, CaptureDelErase, Deleting
  <2> QED  BY <2>1, <2>2 DEF Emptied
<1>9. CASE DelFree
  <2>1. /\ live' = live \ {app.session} /\ app'.pc # "free"
        /\ bufferList' = [bufferList EXCEPT ![app.session] = <<>>]
    BY <1>9 DEF DelFree, DeleteSession, Idle
  <2> QED  BY <1>0, <2>1 DEF Emptied, Lists
<1>10. ASSUME ReceiversStep \/ Capture
       PROVE  Emptied'
  BY <1>1, <1>10, BookFrame, ReceiversList, CaptureList DEF bookVars
<1> QED
  BY <1>3, <1>4, <1>5, <1>6, <1>7, <1>8, <1>9, <1>10 DEF Next, DelSteps, ReceiversStep

-------------------------------------------------------------------------------
(* Covered, when the hands lose nobody, but for x, whose block is put      *)
(* somewhere else; when a hand takes a block; and when a list changes.     *)
LEMMA CovKeep ==
  ASSUME NEW h, NEW q, NEW free, NEW n, Cov(h, q, free, n), NEW g, Within(h, g)
  PROVE  Cov(g, q, free, n)
BY DEF Cov, Within

LEMMA CovGet ==
  ASSUME NEW h, NEW q, NEW free, NEW n \in Nat, Cov(h, q, free, n),
         NEW b, NEW m \in Nat,
         \/ b \in free /\ m = n
         \/ b = n + 1 /\ m = n + 1,
         NEW g, Within(h, g), NEW x \in DOMAIN g, g[x] = b
  PROVE  Cov(g, q, free \ {b}, m)
<1>1. \A c \in 1..m : c = b \/ c \in 1..n
  OBVIOUS
<1> QED  BY <1>1 DEF Cov, Within

(* g has the entries of h, x's perhaps excepted.                           *)
Without(x, h, g) == \A t \in DOMAIN h : t # x => t \in DOMAIN g /\ g[t] = h[t]

LEMMA CovPush ==
  ASSUME NEW h, NEW q \in Lists, NEW free, NEW n, Cov(h, q, free, n),
         NEW x, NEW g, Without(x, h, g),
         NEW s \in Sessions, NEW node \in Node, node.buffer = h[x]
  PROVE  Cov(g, Pushed(q, s, node), free, n)
BY PushedHolds DEF Cov, Without

LEMMA CovPop ==
  ASSUME NEW h, NEW q \in Lists, NEW free, NEW n, Cov(h, q, free, n),
         NEW s \in Sessions, q[s] # <<>>, NEW g, Within(h, g), NEW free2,
         free \subseteq free2,
         First(q, s) \in free2 \/ \E t \in DOMAIN g : g[t] = First(q, s)
  PROVE  Cov(g, Popped(q, s), free2, n)
BY PoppedHolds DEF Cov, Within

LEMMA CovRelease ==
  ASSUME NEW h, NEW q, NEW free, NEW n, Cov(h, q, free, n),
         NEW x, NEW g, Without(x, h, g)
  PROVE  Cov(g, q, free \cup {h[x]}, n)
BY DEF Cov, Without

(* The receivers.                                                          *)
LEMMA FeederCovered ==
  ASSUME DInv, Covered, NEW f \in Feeders,
         \/ \E id \in Ids, len \in CallLens : Feed(f, id, len)
         \/ FeederStep(f)
  PROVE  Covered'
<1>0. TypeOK /\ PoolTypeOK /\ CallsServed /\ bufferList \in Lists
  BY DEF DInv, IInv, Served, TypeOK, SessionTypeOK, Lists
<1>1. UNCHANGED <<t1, t2>>
  BY DEF Feed, OnRTPData, FeederStep, Refuse, Fill, PushCall, captureVars
<1>2. ASSUME NEW c, call' = [call EXCEPT ![f] = c], call[f].pc # "push",
             UNCHANGED <<bufferList, blocks, allocated>>
      PROVE  Covered'
  <2>1. Within(Hand, Hand')
    BY <1>0, <1>1, <1>2, FeederHandLeft DEF Within
  <2> QED  BY <1>2, <2>1, CovKeep DEF Covered
<1>3. ASSUME NEW id \in Ids, NEW len \in CallLens, Feed(f, id, len)
      PROVE  Covered'
  <2>1. \E c : call' = [call EXCEPT ![f] = c]
    BY <1>3, Zenon DEF Feed, OnRTPData
  <2>2. call[f].pc # "push" /\ UNCHANGED <<bufferList, blocks, allocated>>
    BY <1>3 DEF Feed, OnRTPData, Idle, poolVars, sessionVars
  <2> QED  BY <1>2, <2>1, <2>2
<1>4. CASE Refuse(f)
  BY <1>2, <1>4 DEF Refuse, LeaveEarly, poolVars, sessionVars
<1>5. ASSUME NEW b, Fill(f, b)
      PROVE  Covered'
  <2> DEFINE c == [pc |-> "push", session |-> sessionMap[call[f].pkt.to],
                   node |-> [buffer |-> b, len |-> call[f].len, pkt |-> call[f].pkt]]
  <2>1. /\ call' = [call EXCEPT ![f] = c] /\ c.pc = "push" /\ c.node.buffer = b
        /\ call[f].pc # "push" /\ Get(b) /\ UNCHANGED bufferList
    BY <1>5 DEF Fill, sessionVars
  <2> HIDE DEF c
  <2>2. Within(Hand, Hand') /\ f \in DOMAIN Hand' /\ Hand'[f] = b
    BY <1>0, <1>1, <2>1, FeederHandLeft DEF Within
  <2>3. Cov(Hand', bufferList, blocks \ {b}, allocated')
    BY <1>0, <2>1, <2>2, GetFresh, CovGet DEF Covered
  <2> QED  BY <1>0, <2>1, <2>3, GetFresh DEF Covered
<1>6. CASE PushCall(f)
  <2> DEFINE s == call[f].session
             node == call[f].node
  <2>1. s \in Sessions /\ node \in Node /\ call[f].pc = "push"
    BY <1>0, <1>6 DEF TypeOK, ReceiverTypeOK, PushCall, Idle, Looking, Pushing
  <2>2. Good(s, node.pkt.to)
    BY <1>0, <2>1 DEF CallsServed, CallServed
  <2>3. bufferList' = Pushed(bufferList, s, node) /\ UNCHANGED <<blocks, allocated>>
    BY <1>6, <2>2 DEF PushCall, Push, PushBack, Pushed, Good, poolVars
  <2>4. call' = [call EXCEPT ![f] = Idle]
    BY <1>6 DEF PushCall
  <2>5. Without(f, Hand, Hand')
    BY <1>0, <1>1, <2>4, FeederHandLeft DEF Without
  <2>6. node.buffer = Hand[f]
    BY <1>0, <1>1, <2>1, <2>4, FeederHand
  <2> HIDE DEF s, node
  <2>7. Cov(Hand', Pushed(bufferList, s, node), blocks, allocated)
    BY <1>0, <2>1, <2>5, <2>6, CovPush DEF Covered
  <2> QED  BY <2>3, <2>7 DEF Covered
<1> QED  BY <1>3, <1>4, <1>5, <1>6 DEF FeederStep

LEMMA SocketCovered ==
  ASSUME DInv, Covered,
         \/ \E h \in 1..Len(handlers), m \in Media, len \in DatagramLens : Receive(h, m, len)
         \/ \E h \in 1..Len(handlers), m \in Media : ReadSocket(h, m)
         \/ PushSocket
  PROVE  Covered'
<1>0. TypeOK /\ PoolTypeOK /\ CallsServed /\ bufferList \in Lists
  BY DEF DInv, IInv, Served, TypeOK, SessionTypeOK, Lists
<1>1. ASSUME NEW h \in 1..Len(handlers), NEW m \in Media, NEW len \in DatagramLens,
             Receive(h, m, len)
      PROVE  Covered'
  <2>1. Within(Hand, Hand')
    BY <1>1, HandsLeft DEF Receive, Arrive, captureVars
  <2>2. UNCHANGED <<bufferList, blocks, allocated>>
    BY <1>1 DEF Receive, Arrive, poolVars, sessionVars
  <2> QED  BY <2>1, <2>2, CovKeep DEF Covered
<1>2. ASSUME NEW h \in 1..Len(handlers), NEW m \in Media, ReadSocket(h, m)
      PROVE  Covered'
  <2>1. PICK b \in Available : OnSocketReadable(h, m, b)
    BY <1>2 DEF ReadSocket
  <2>2. /\ t1'.node.buffer = b /\ t1'.pc = "push" /\ t1.pc # "push"
        /\ Get(b) /\ UNCHANGED <<call, t2, bufferList>>
    BY <1>2, <2>1 DEF ReadSocket, OnSocketReadable, Idle, sessionVars, captureVars
  <2>3. Within(Hand, Hand') /\ T1 \in DOMAIN Hand' /\ Hand'[T1] = b
    BY <2>2, ReactorHandLeft DEF Within
  <2>4. Cov(Hand', bufferList, blocks \ {b}, allocated')
    BY <1>0, <2>2, <2>3, GetFresh, CovGet DEF Covered
  <2> QED  BY <1>0, <2>2, <2>4, GetFresh DEF Covered
<1>3. CASE PushSocket
  <2> DEFINE s == t1.session
             node == t1.node
  <2>1. s \in Sessions /\ node \in Node /\ t1.pc = "push"
    BY <1>0, <1>3 DEF TypeOK, ReceiverTypeOK, PushSocket, PushDatagram, Idle, Pushing
  <2>2. Good(s, node.pkt.to)
    BY <1>0, <2>1 DEF CallsServed, CallServed
  <2>3. bufferList' = Pushed(bufferList, s, node) /\ UNCHANGED <<blocks, allocated>>
    BY <1>3, <2>2 DEF PushSocket, PushDatagram, Push, PushBack, Pushed, Good, poolVars
  <2>4. UNCHANGED <<call, t2>>
    BY <1>3 DEF PushSocket, PushDatagram, captureVars
  <2>5. Without(T1, Hand, Hand')
    BY <2>4, ReactorHandLeft DEF Without
  <2>6. node.buffer = Hand[T1]
    BY <2>1, <2>4, ReactorHand
  <2> HIDE DEF s, node
  <2>7. Cov(Hand', Pushed(bufferList, s, node), blocks, allocated)
    BY <1>0, <2>1, <2>5, <2>6, CovPush DEF Covered
  <2> QED  BY <2>3, <2>7 DEF Covered
<1> QED  BY <1>1, <1>2, <1>3

(* T2.                                                                     *)
LEMMA CaptureCovered ==
  ASSUME DInv, Covered, Capture
  PROVE  Covered'
<1>0. /\ TypeOK /\ IteratorValid /\ bufferList \in Lists
      /\ t2 \in [pc : T2Pcs, it : Nat \ {0}, buffer : Nat]
      /\ UNCHANGED <<call, t1>>
  BY DEF DInv, IInv, TypeOK, SessionTypeOK, CaptureTypeOK, Lists, Capture, receiverVars
<1>1. ASSUME t2.pc # "release", UNCHANGED <<bufferList, blocks, allocated>>
      PROVE  Covered'
  <2>1. Within(Hand, Hand')
    BY <1>0, <1>1, CaptureHandLeft DEF Within
  <2> QED  BY <1>1, <2>1, CovKeep DEF Covered
<1>2. CASE StartRound \/ EnterSession \/ LeaveSession \/ EndRound
  BY <1>1, <1>2 DEF StartRound, EnterSession, LockBuffer, LeaveSession, EndRound, poolVars,
     sessionVars
<1>3. CASE Record
  <2>1. Current \in Sessions /\ bufferList[Current] # <<>> /\ t2.pc # "release"
    BY <1>0, <1>3, CurrentType DEF Record, PopFront
  <2>2. /\ bufferList' = Popped(bufferList, Current)
        /\ t2'.buffer = First(bufferList, Current) /\ t2'.pc = "release"
        /\ UNCHANGED <<blocks, allocated>>
    BY <1>0, <1>3 DEF Record, PopFront, KeepBlock, poolVars, Popped, First
  <2>3. Within(Hand, Hand') /\ T2 \in DOMAIN Hand' /\ Hand'[T2] = First(bufferList, Current)
    BY <1>0, <2>1, <2>2, CaptureHandLeft DEF Within
  <2>4. Cov(Hand', Popped(bufferList, Current), blocks, allocated)
    BY <1>0, <2>1, <2>3, CovPop DEF Covered
  <2> QED  BY <2>2, <2>4 DEF Covered
<1>4. CASE ReleaseRecorded
  <2>1. /\ t2.pc = "release" /\ blocks' = blocks \cup {t2.buffer}
        /\ UNCHANGED <<bufferList, allocated>>
    BY <1>4 DEF ReleaseRecorded, Release, sessionVars
  <2>2. Without(T2, Hand, Hand')
    BY <1>0, CaptureHandLeft DEF Without
  <2>3. t2.buffer = Hand[T2]
    BY <1>0, <2>1, CaptureHand
  <2>4. Cov(Hand', bufferList, blocks \cup {Hand[T2]}, allocated)
    BY <2>2, CovRelease DEF Covered
  <2> QED  BY <2>1, <2>3, <2>4 DEF Covered
<1> QED  BY <1>2, <1>3, <1>4 DEF Capture, T2Step

(* Adding and deleting.                                                    *)
LEMMA AppCovered ==
  ASSUME DInv, Emptied, Covered,
         \/ \E s \in Sessions, ports \in Ports : AddSession(s, ports)
         \/ \E id \in Ids : DelSession(id)
         \/ AddSteps
         \/ DelSteps
  PROVE  Covered'
<1>0. TypeOK /\ bufferList \in Lists
  BY DEF DInv, IInv, TypeOK, SessionTypeOK, Lists
<1>1. UNCHANGED <<call, t1, t2>>
  BY DEF AddSession, DelSession, AddSteps, AddToReceiver, ReceiverAdd, BindFails,
     ReceiverAddFails, AddToCapture, CaptureAdd, DelSteps, DelFind, CaptureDelFind,
     DelLockBuffer, DelDrain, CaptureDelDrain, DelErase, CaptureDelErase, DelFree,
     receiverVars, captureVars
<1>2. Within(Hand, Hand')
  BY <1>1, HandsLeft
<1>3. ASSUME UNCHANGED <<bufferList, blocks, allocated>>
      PROVE  Covered'
  BY <1>2, <1>3, CovKeep DEF Covered
<1>4. ASSUME NEW s \in Sessions, bufferList[s] = <<>>,
             bufferList' = [bufferList EXCEPT ![s] = <<>>]
      PROVE  UNCHANGED bufferList
  BY <1>0, <1>4 DEF Lists
<1>5. ASSUME NEW s \in Sessions, NEW ports \in Ports, AddSession(s, ports)
      PROVE  Covered'
  <2>1. UNCHANGED bufferList
    BY <1>4, <1>5 DEF AddSession, NewSession, Emptied
  <2> QED  BY <1>3, <1>5, <2>1 DEF AddSession, poolVars
<1>6. CASE DelFree
  <2>1. app.session \in Sessions /\ bufferList[app.session] = <<>>
    BY <1>0, <1>6, AppFields DEF DelFree, Emptied, DelPcs
  <2>2. UNCHANGED bufferList
    BY <1>4, <1>6, <2>1 DEF DelFree, DeleteSession
  <2> QED  BY <1>3, <1>6, <2>2 DEF DelFree, poolVars
<1>7. CASE DelDrain
  <2> DEFINE s == app.session
  <2>1. s \in Sessions /\ bufferList[s] # <<>>
    BY <1>0, <1>7, AppFields DEF DelDrain, CaptureDelDrain, PopFront, DelPcs
  <2>2. /\ bufferList' = Popped(bufferList, s)
        /\ blocks' = blocks \cup {First(bufferList, s)}
        /\ UNCHANGED allocated
    BY <1>7 DEF DelDrain, CaptureDelDrain, PopFront, Release, Popped, First
  <2> HIDE DEF s
  <2>3. Cov(Hand', Popped(bufferList, s), blocks \cup {First(bufferList, s)}, allocated)
    BY <1>0, <1>2, <2>1, CovPop DEF Covered
  <2> QED  BY <2>2, <2>3 DEF Covered
<1>8. ASSUME \/ \E id \in Ids : DelSession(id)
             \/ AddSteps \/ DelFind \/ DelLockBuffer \/ DelErase
      PROVE  UNCHANGED <<bufferList, blocks, allocated>>
  BY <1>8 DEF DelSession, AddSteps, AddToReceiver, BindFails, AddToCapture, DelFind,
     DelLockBuffer, LockBuffer, DelErase, CaptureDelErase, poolVars, sessionVars
<1> QED  BY <1>3, <1>5, <1>6, <1>7, <1>8 DEF DelSteps

LEMMA CoveredStep ==
  ASSUME DInv, Emptied, Covered, [Next]_vars
  PROVE  Covered'
<1>1. CASE UNCHANGED vars
  <2>1. Within(Hand, Hand') /\ UNCHANGED <<bufferList, blocks, allocated>>
    BY <1>1, HandsLeft DEF vars, poolVars, sessionVars, receiverVars, captureVars
  <2> QED  BY <2>1, CovKeep DEF Covered
<1> QED  BY <1>1, AppCovered, FeederCovered, SocketCovered, CaptureCovered DEF Next

-------------------------------------------------------------------------------
LInv == DInv /\ Exclusive /\ Captured /\ Emptied /\ Covered

LEMMA InitLInv == Init => LInv
<1> SUFFICES ASSUME Init PROVE LInv
  OBVIOUS
<1>1. DInv /\ Exclusive
  BY InitDInv, InitExclusive
<1>2. Captured /\ Emptied
  BY DEF Init, SessionInit, Captured, Emptied, Idle
<1>3. Covered
  BY DEF Init, PoolInit, Covered, Cov
<1> QED  BY <1>1, <1>2, <1>3 DEF LInv

LEMMA NextLInv == Disciplined /\ LInv /\ [Next]_vars => LInv'
<1> SUFFICES ASSUME Disciplined, LInv, [Next]_vars PROVE LInv'
  OBVIOUS
<1>1. DInv' /\ Exclusive'
  BY NextDInv, NextExclusive DEF LInv, DInv
<1>2. Captured' /\ Emptied' /\ Covered'
  BY CapturedStep, EmptiedStep, CoveredStep DEF LInv
<1> QED  BY <1>1, <1>2 DEF LInv

LEMMA LInvImplies == LInv => NoBlockLost
<1> SUFFICES ASSUME LInv PROVE NoBlockLost
  OBVIOUS
<1>1. blocks \cup HandBlocks \cup ListBlocks \subseteq 1..allocated
  BY ExclusiveImplies DEF LInv, BlockExclusive
<1>2. \A b : InLists(bufferList, b) => b \in ListBlocks
  <2> SUFFICES ASSUME NEW s \in Sessions, NEW i \in 1..Len(bufferList[s])
               PROVE  bufferList[s][i].buffer \in ListBlocks
    BY DEF InLists
  <2>1. <<s, i>> \in Slots /\ InSlot(<<s, i>>) = bufferList[s][i].buffer
    BY DEF Slots, InSlot
  <2> QED  BY <2>1 DEF ListBlocks
<1>3. \A t \in DOMAIN Hand : Hand[t] \in HandBlocks
  BY HandFacts DEF HandBlocks
<1>4. 1..allocated \subseteq blocks \cup HandBlocks \cup ListBlocks
  BY <1>2, <1>3 DEF LInv, Covered, Cov
<1> QED  BY <1>1, <1>4 DEF NoBlockLost

(* A disciplined program loses no block, however many sessions it adds and *)
(* deletes: the pool's limit is never eaten up by blocks that nobody has.  *)
THEOREM BlocksNotLost == Disciplined => (Spec => []NoBlockLost)
<1> SUFFICES ASSUME Disciplined PROVE Spec => []NoBlockLost
  OBVIOUS
<1>1. LInv /\ [Next]_vars => LInv'
  BY NextLInv
<1> QED  BY InitLInv, <1>1, LInvImplies, PTL DEF Spec

-------------------------------------------------------------------------------
(* The way of a packet.  Past packets are those that a session's list or a *)
(* file has; a list and a file have packets of their own session only, and *)
(* only the list of a session that is added, or all but added, has any.    *)

PastIn(lists, files, p) ==
  \/ \E s \in Sessions : \E i \in 1..Len(lists[s]) : lists[s][i].pkt = p
  \/ \E id \in Ids : \E i \in 1..Len(files[id]) : files[id][i] = p

OwnPackets ==
  /\ \A s \in Sessions : \A i \in 1..Len(bufferList[s]) : bufferList[s][i].pkt.to = sessionID[s]
  /\ \A id \in Ids : \A i \in 1..Len(recorded[id]) : recorded[id][i].to = id

Owned(s) == \/ sdkMap[sessionID[s]] = s
            \/ app.pc = "captureAdd" /\ app.session = s

ListsOwned == \A s \in Sessions : bufferList[s] # <<>> => Owned(s)

(* The elements of a list after a push and after a pop.                    *)
LEMMA PushedAt ==
  ASSUME NEW q \in Lists, NEW s \in Sessions, NEW node \in Node,
         NEW u \in Sessions, NEW i \in 1..Len(Pushed(q, s, node)[u])
  PROVE  \/ i \in 1..Len(q[u]) /\ Pushed(q, s, node)[u][i] = q[u][i]
         \/ u = s /\ Pushed(q, s, node)[u][i] = node
<1> DEFINE r == Pushed(q, s, node)
<1>1. /\ Len(Append(q[s], node)) = Len(q[s]) + 1 /\ Len(q[s]) \in Nat
      /\ \A j \in 1..Len(q[s]) : Append(q[s], node)[j] = q[s][j]
      /\ Append(q[s], node)[Len(q[s]) + 1] = node
  BY AppendProperties, LenProperties DEF Lists
<1>2. r[s] = Append(q[s], node) /\ \A v \in Sessions : v # s => r[v] = q[v]
  BY DEF Lists, Pushed
<1>3. i \in 1..Len(r[u])
  OBVIOUS
<1> HIDE DEF r
<1>4. \/ i \in 1..Len(q[u]) /\ r[u][i] = q[u][i]
      \/ u = s /\ r[u][i] = node
  <2>1. CASE u = s
    <3>1. i \in 1..Len(q[s]) \/ i = Len(q[s]) + 1
      BY <1>1, <1>2, <1>3, <2>1
    <3> QED  BY <1>1, <1>2, <2>1, <3>1
  <2>2. CASE u # s
    BY <1>2, <1>3, <2>2
  <2> QED  BY <2>1, <2>2
<1> QED  BY <1>4 DEF r

LEMMA PoppedAt ==
  ASSUME NEW q \in Lists, NEW s \in Sessions, q[s] # <<>>,
         NEW u \in Sessions, NEW i \in 1..Len(Popped(q, s)[u])
  PROVE  \E j \in 1..Len(q[u]) : Popped(q, s)[u][i] = q[u][j]
<1> DEFINE r == Popped(q, s)
           tl == Tail(q[s])
<1>1. /\ Len(q[s]) \in Nat \ {0} /\ Len(tl) = Len(q[s]) - 1
      /\ \A j \in 1..Len(tl) : tl[j] = q[s][j + 1]
  BY HeadTailProperties, EmptySeq, LenProperties DEF Lists
<1>2. r[s] = tl /\ \A v \in Sessions : v # s => r[v] = q[v]
  BY DEF Lists, Popped
<1>3. i \in 1..Len(r[u])
  OBVIOUS
<1> HIDE DEF r, tl
<1>4. CASE u = s
  <2>1. i + 1 \in 1..Len(q[u]) /\ r[u][i] = q[u][i + 1]
    BY <1>1, <1>2, <1>3, <1>4
  <2> QED  BY <2>1 DEF r
<1>5. CASE u # s
  BY <1>2, <1>3, <1>5 DEF r
<1> QED  BY <1>4, <1>5

(* What a step does to the lists and the files.                            *)
ListRecorded ==
  \E s \in Sessions :
    /\ Owned(s) /\ bufferList[s] # <<>>
    /\ bufferList' = Popped(bufferList, s)
    /\ recorded' = [recorded EXCEPT ![sessionID[s]] = Append(@, Head(bufferList[s]).pkt)]

LEMMA CaptureFiles ==
  ASSUME DInv, ListsOwned, Capture
  PROVE  UNCHANGED <<bufferList, recorded>> \/ ListRecorded
<1>1. TypeOK /\ IteratorValid
  BY DEF DInv, IInv
<1>2. CASE Record
  <2>1. Current \in Sessions /\ bufferList[Current] # <<>>
    BY <1>1, <1>2, CurrentType DEF Record, PopFront
  <2> QED  BY <1>2, <2>1 DEF Record, PopFront, Popped, ListRecorded, ListsOwned
<1> QED
  BY <1>2 DEF Capture, T2Step, StartRound, EnterSession, LockBuffer, ReleaseRecorded,
     LeaveSession, EndRound, sessionVars

LEMMA AppList ==
  ASSUME TypeOK,
         \/ \E s \in Sessions, ports \in Ports : AddSession(s, ports)
         \/ \E id \in Ids : DelSession(id)
         \/ AddSteps
         \/ DelSteps
  PROVE  /\ UNCHANGED recorded
         /\ UNCHANGED bufferList \/ ListPopped \/ ListCleared
<1>1. UNCHANGED recorded
  BY DEF AddSession, DelSession, AddSteps, AddToReceiver, BindFails, AddToCapture, CaptureAdd,
     DelSteps, DelFind, CaptureDelFind, DelLockBuffer, DelDrain, CaptureDelDrain, DelErase,
     CaptureDelErase, DelFree, captureVars
<1>2. CASE DelDrain
  <2>1. app.session \in Sessions
    BY <1>2, AppFields DEF DelDrain, DelPcs
  <2> QED  BY <1>1, <1>2, <2>1 DEF DelDrain, CaptureDelDrain, PopFront, ListPopped, Popped
<1>3. CASE DelFree
  <2>1. app.session \in Sessions
    BY <1>3, AppFields DEF DelFree, DelPcs
  <2> QED  BY <1>1, <1>3, <2>1 DEF DelFree, DeleteSession, ListCleared
<1>4. ASSUME NEW s \in Sessions, NEW ports \in Ports, AddSession(s, ports)
      PROVE  ListCleared
  BY <1>4 DEF AddSession, NewSession, ListCleared
<1>5. ASSUME \/ \E id \in Ids : DelSession(id)
             \/ AddSteps \/ DelFind \/ DelLockBuffer \/ DelErase
      PROVE  UNCHANGED bufferList
  BY <1>5 DEF DelSession, AddSteps, AddToReceiver, BindFails, AddToCapture, DelFind,
     DelLockBuffer, LockBuffer, DelErase, CaptureDelErase, sessionVars
<1> QED  BY <1>1, <1>2, <1>3, <1>4, <1>5 DEF DelSteps

LEMMA OwnPacketsStep ==
  ASSUME Disciplined, DInv, OwnPackets, ListsOwned, [Next]_vars
  PROVE  OwnPackets'
<1>0. /\ TypeOK /\ bufferList \in Lists /\ recorded \in [Ids -> Seq(Packet)]
      /\ sessionID \in [Sessions -> Ids]
  BY DEF DInv, IInv, TypeOK, SessionTypeOK, CaptureTypeOK, Lists
<1>1. CASE UNCHANGED <<bufferList, recorded, sessionID>>
  BY <1>1 DEF OwnPackets
<1>2. CASE ListPushed /\ UNCHANGED <<recorded, sessionID>>
  <2>1. PICK s \in Sessions, node \in Node :
          Good(s, node.pkt.to) /\ bufferList' = Pushed(bufferList, s, node)
    BY <1>2 DEF ListPushed
  <2>2. ASSUME NEW u \in Sessions, NEW i \in 1..Len(Pushed(bufferList, s, node)[u])
        PROVE  Pushed(bufferList, s, node)[u][i].pkt.to = sessionID[u]
    <3>1. CASE i \in 1..Len(bufferList[u]) /\ Pushed(bufferList, s, node)[u][i] = bufferList[u][i]
      BY <3>1 DEF OwnPackets
    <3>2. CASE u = s /\ Pushed(bufferList, s, node)[u][i] = node
      BY <2>1, <3>2 DEF Good
    <3> QED  BY <1>0, <3>1, <3>2, PushedAt
  <2> QED  BY <1>2, <2>1, <2>2 DEF OwnPackets
<1>3. CASE ListPopped /\ UNCHANGED <<recorded, sessionID>>
  <2>1. PICK s \in Sessions : bufferList[s] # <<>> /\ bufferList' = Popped(bufferList, s)
    BY <1>3 DEF ListPopped
  <2>2. ASSUME NEW u \in Sessions, NEW i \in 1..Len(Popped(bufferList, s)[u])
        PROVE  Popped(bufferList, s)[u][i].pkt.to = sessionID[u]
    <3>1. PICK j \in 1..Len(bufferList[u]) : Popped(bufferList, s)[u][i] = bufferList[u][j]
      BY <1>0, <2>1, PoppedAt
    <3> QED  BY <3>1 DEF OwnPackets
  <2> QED  BY <1>3, <2>1, <2>2 DEF OwnPackets
<1>4. CASE ListCleared /\ UNCHANGED <<recorded, sessionID>>
  <2>1. PICK s \in Sessions : bufferList' = [bufferList EXCEPT ![s] = <<>>]
    BY <1>4 DEF ListCleared
  <2>2. \A u \in Sessions : \A i \in 1..Len(bufferList'[u]) : bufferList'[u] = bufferList[u]
    BY <1>0, <2>1, EmptySeq DEF Lists
  <2> QED  BY <1>4, <2>2 DEF OwnPackets
<1>5. ASSUME NEW s \in Sessions, NEW ports \in Ports, AddSession(s, ports)
      PROVE  OwnPackets'
  <2>1. /\ bufferList' = [bufferList EXCEPT ![s] = <<>>] /\ UNCHANGED recorded
        /\ \A u \in Sessions : u # s => sessionID'[u] = sessionID[u]
    BY <1>0, <1>5 DEF AddSession, NewSession, captureVars
  <2>2. \A u \in Sessions : \A i \in 1..Len(bufferList'[u]) :
          bufferList'[u] = bufferList[u] /\ u # s
    BY <1>0, <2>1, EmptySeq DEF Lists
  <2> QED  BY <2>1, <2>2 DEF OwnPackets
<1>6. CASE ListRecorded /\ UNCHANGED sessionID
  <2>1. PICK s \in Sessions :
          /\ bufferList[s] # <<>> /\ bufferList' = Popped(bufferList, s)
          /\ recorded' = [recorded EXCEPT ![sessionID[s]] = Append(@, Head(bufferList[s]).pkt)]
    BY <1>6 DEF ListRecorded
  <2>2. /\ Head(bufferList[s]) = bufferList[s][1] /\ 1 \in 1..Len(bufferList[s])
        /\ Head(bufferList[s]).pkt \in Packet
    <3>1. bufferList[s] \in Seq(Node) /\ Head(bufferList[s]) \in Node
      BY <1>0, <2>1, HeadTailProperties DEF Lists
    <3> QED  BY <2>1, <3>1, HeadTailProperties, EmptySeq, LenProperties DEF Node
  <2>3. Head(bufferList[s]).pkt.to = sessionID[s]
    BY <2>2 DEF OwnPackets
  <2>4. \A u \in Sessions : \A i \in 1..Len(bufferList'[u]) : bufferList'[u][i].pkt.to = sessionID[u]
    <3>1. ASSUME NEW u \in Sessions, NEW i \in 1..Len(Popped(bufferList, s)[u])
          PROVE  Popped(bufferList, s)[u][i].pkt.to = sessionID[u]
      <4>1. PICK j \in 1..Len(bufferList[u]) : Popped(bufferList, s)[u][i] = bufferList[u][j]
        BY <1>0, <2>1, PoppedAt
      <4> QED  BY <4>1 DEF OwnPackets
    <3> QED  BY <2>1, <3>1
  <2>5. ASSUME NEW id \in Ids, NEW i \in 1..Len(recorded'[id])
        PROVE  recorded'[id][i].to = id
    <3>1. CASE id # sessionID[s]
      BY <1>0, <2>1, <3>1 DEF OwnPackets
    <3>2. CASE id = sessionID[s]
      <4>1. recorded'[id] = Append(recorded[id], Head(bufferList[s]).pkt)
        BY <1>0, <2>1, <3>2
      <4>2. \/ i \in 1..Len(recorded[id]) /\ recorded'[id][i] = recorded[id][i]
            \/ recorded'[id][i] = Head(bufferList[s]).pkt
        BY <1>0, <2>2, <4>1, AppendProperties, LenProperties
      <4> QED  BY <2>3, <3>2, <4>2 DEF OwnPackets
    <3> QED  BY <3>1, <3>2
  <2> QED  BY <1>6, <2>4, <2>5 DEF OwnPackets
<1>7. ASSUME ReceiversStep
      PROVE  OwnPackets'
  <2>1. UNCHANGED <<recorded, sessionID>>
    BY <1>7, ReceiversFrame DEF captureVars
  <2> QED  BY <1>1, <1>2, <1>7, <2>1, ReceiversList
<1>8. ASSUME Capture
      PROVE  OwnPackets'
  <2>1. UNCHANGED sessionID
    BY <1>8, BookFrame DEF bookVars
  <2> QED  BY <1>1, <1>6, <1>8, <2>1, CaptureFiles
<1>9. ASSUME (\E id \in Ids : DelSession(id)) \/ AddSteps \/ DelSteps
      PROVE  OwnPackets'
  <2>1. UNCHANGED sessionID
    BY <1>9 DEF DelSession, AddSteps, AddToReceiver, BindFails, AddToCapture, DelSteps, DelFind,
       DelLockBuffer, LockBuffer, DelDrain, CaptureDelDrain, PopFront, DelErase,
       CaptureDelErase, DelFree, DeleteSession, sessionVars
  <2> QED  BY <1>0, <1>1, <1>3, <1>4, <1>9, <2>1, AppList
<1> QED  BY <1>5, <1>7, <1>8, <1>9 DEF Next, ReceiversStep

LEMMA ListsOwnedStep ==
  ASSUME Disciplined, DInv, ListsOwned, [Next]_vars
  PROVE  ListsOwned'
<1>0. /\ TypeOK /\ bufferList \in Lists /\ Registered /\ AppEntry
  BY DEF DInv, IInv, Book, TypeOK, SessionTypeOK, Lists
<1>1. ASSUME UNCHANGED bookVars,
             UNCHANGED bufferList \/ ListPopped \/ ListPushed
      PROVE  ListsOwned'
  <2>1. \A s \in Sessions : Owned(s) => Owned(s)'
    BY <1>1 DEF Owned, bookVars
  <2>2. \A s \in Sessions : bufferList'[s] # <<>> => Owned(s)
    <3>1. CASE UNCHANGED bufferList
      BY <3>1 DEF ListsOwned
    <3>2. CASE ListPopped
      BY <1>0, <3>2 DEF ListPopped, Popped, Lists, ListsOwned
    <3>3. CASE ListPushed
      BY <1>0, <3>3 DEF ListPushed, Pushed, Lists, ListsOwned, Good, Owned
    <3> QED  BY <1>1, <3>1, <3>2, <3>3
  <2> QED  BY <2>1, <2>2 DEF ListsOwned
<1>2. ASSUME NEW s \in Sessions, NEW ports \in Ports, AddSession(s, ports)
      PROVE  ListsOwned'
  <2>1. /\ app.pc # "captureAdd" /\ UNCHANGED sdkMap
        /\ \A u \in Sessions : u # s => sessionID'[u] = sessionID[u]
        /\ bufferList' = [bufferList EXCEPT ![s] = <<>>]
    BY <1>0, <1>2, BookTypes DEF AddSession, NewSession, Idle
  <2> QED  BY <1>0, <2>1 DEF ListsOwned, Owned, Lists
<1>3. CASE AddToReceiver \/ BindFails
  <2>1. /\ app.pc # "captureAdd" /\ UNCHANGED <<sdkMap, sessionID, bufferList>>
    BY <1>3 DEF AddToReceiver, BindFails, sessionVars
  <2> QED  BY <2>1 DEF ListsOwned, Owned
<1>4. CASE AddToCapture
  <2>1. /\ app.session \in Sessions /\ sdkMap[sessionID[app.session]] = NULL
        /\ sdkMap' = [sdkMap EXCEPT ![sessionID[app.session]] = app.session]
        /\ UNCHANGED <<sessionID, bufferList>>
    BY <1>0, <1>4, BookTypes DEF AddToCapture, AppEntry, AddPcs, sessionVars
  <2> QED  BY <1>0, <2>1, BookTypes DEF ListsOwned, Owned
<1>5. ASSUME \/ \E id \in Ids : DelSession(id)
             \/ DelFind \/ DelLockBuffer \/ DelErase
      PROVE  ListsOwned'
  <2>1. app.pc # "captureAdd" /\ UNCHANGED <<sdkMap, sessionID, bufferList>>
    BY <1>5 DEF DelSession, Idle, DelFind, DelLockBuffer, LockBuffer, DelErase,
       CaptureDelErase, sessionVars
  <2> QED  BY <2>1 DEF ListsOwned, Owned
<1>6. CASE DelFree
  <2>1. /\ app.pc # "captureAdd" /\ app.id \in Ids /\ sdkMap[app.id] = app.session
        /\ app.session \in Sessions
        /\ sdkMap' = [sdkMap EXCEPT ![app.id] = NULL]
        /\ bufferList' = [bufferList EXCEPT ![app.session] = <<>>] /\ UNCHANGED sessionID
    BY <1>0, <1>6, BookTypes DEF DelFree, DeleteSession, AppEntry, DelPcs
  <2> QED  BY <1>0, <2>1, BookTypes DEF ListsOwned, Owned, Lists, Registered
<1>7. ASSUME ReceiversStep \/ Capture \/ DelDrain
      PROVE  ListsOwned'
  <2>1. CASE DelDrain
    <3>1. app.session \in Sessions
      BY <1>0, <2>1, AppFields DEF DelDrain, DelPcs
    <3>2. ListPopped
      BY <2>1, <3>1 DEF DelDrain, CaptureDelDrain, PopFront, ListPopped, Popped
    <3> QED  BY <1>1, <2>1, <3>2, BookFrame
  <2> QED  BY <1>1, <1>7, <2>1, BookFrame, ReceiversList, CaptureList
<1> QED
  BY <1>2, <1>3, <1>4, <1>5, <1>6, <1>7 DEF Next, AddSteps, DelSteps, ReceiversStep

-------------------------------------------------------------------------------
(* The order of the packets.  A packet in a call, in T1's hand or in a     *)
(* socket comes after all past packets of its source for its session, one  *)
(* in a socket after those before it and after T1's; of all handlers with  *)
(* one id only the last one's sockets have packets.                        *)

SameSource(p, q) == p.to = q.to /\ p.via = q.via

LatestIn(lists, files, n, p) ==
  /\ p.n \in 1..n
  /\ \A q \in Packet : PastIn(lists, files, q) /\ SameSource(p, q) => q.n < p.n

Past(q) == PastIn(bufferList, recorded, q)
Latest(p) == LatestIn(bufferList, recorded, sent, p)

Carried(c) == IF c.pc = "lookup" THEN c.pkt ELSE c.node.pkt

CallInOrder(lists, files, n, f, c) ==
  c.pc # "idle" => Carried(c).via = f /\ LatestIn(lists, files, n, Carried(c))

T1InOrder == t1.pc = "push" => t1.node.pkt.via \in Media /\ Latest(t1.node.pkt)

QueueInOrder(lists, files, n, t, m, q) ==
  \A i \in 1..Len(q) :
    /\ q[i].pkt.via = m
    /\ LatestIn(lists, files, n, q[i].pkt)
    /\ \A j \in 1..Len(q) : i < j => q[i].pkt.n < q[j].pkt.n
    /\ t.pc = "push" /\ SameSource(t.node.pkt, q[i].pkt) => t.node.pkt.n < q[i].pkt.n

LastOfId ==
  \A h \in 1..Len(handlers), m \in Media :
    handlers[h].queue[m] # <<>> =>
      \A g \in 1..Len(handlers) : h < g => handlers[g].id # handlers[h].id

InOrder ==
  /\ sent <= MaxPackets
  /\ \A q \in Packet : Past(q) => q.n <= sent
  /\ \A f \in Feeders : CallInOrder(bufferList, recorded, sent, f, call[f])
  /\ T1InOrder
  /\ \A h \in 1..Len(handlers), m \in Media :
       QueueInOrder(bufferList, recorded, sent, t1, m, handlers[h].queue[m])
  /\ LastOfId

Pushes(q) ==
  \/ \E f \in Feeders : call[f].pc = "push" /\ call'[f].pc = "idle" /\ q = call[f].node.pkt
  \/ t1.pc = "push" /\ t1'.pc = "idle" /\ q = t1.node.pkt

(* What is past after a step was past before, or has just been pushed by a *)
(* thread that is idle now.                                                *)
LEMMA PastPushed ==
  ASSUME TypeOK, NEW s \in Sessions, NEW node \in Node, UNCHANGED recorded,
         bufferList' = Pushed(bufferList, s, node),
         NEW p, PastIn(bufferList', recorded', p)
  PROVE  Past(p) \/ p = node.pkt
<1>0. bufferList \in Lists
  BY DEF TypeOK, SessionTypeOK, Lists
<1>1. CASE \E id \in Ids : \E i \in 1..Len(recorded[id]) : recorded[id][i] = p
  BY <1>1 DEF Past, PastIn
<1>2. ASSUME NEW u \in Sessions, NEW i \in 1..Len(Pushed(bufferList, s, node)[u]),
             Pushed(bufferList, s, node)[u][i].pkt = p
      PROVE  Past(p) \/ p = node.pkt
  <2>1. CASE i \in 1..Len(bufferList[u]) /\ Pushed(bufferList, s, node)[u][i] = bufferList[u][i]
    BY <1>2, <2>1 DEF Past, PastIn
  <2>2. CASE u = s /\ Pushed(bufferList, s, node)[u][i] = node
    BY <1>2, <2>2
  <2> QED  BY <1>0, <2>1, <2>2, PushedAt
<1> QED  BY <1>1, <1>2 DEF PastIn

LEMMA PastPopped ==
  ASSUME TypeOK, NEW s \in Sessions, bufferList[s] # <<>>,
         bufferList' = Popped(bufferList, s),
         \/ UNCHANGED recorded
         \/ recorded' = [recorded EXCEPT ![sessionID[s]] = Append(@, Head(bufferList[s]).pkt)],
         NEW p, PastIn(bufferList', recorded', p)
  PROVE  Past(p)
<1>0. /\ bufferList \in Lists /\ recorded \in [Ids -> Seq(Packet)] /\ sessionID[s] \in Ids
  BY DEF TypeOK, SessionTypeOK, CaptureTypeOK, Lists
<1>1. ASSUME NEW u \in Sessions, NEW i \in 1..Len(Popped(bufferList, s)[u]),
             Popped(bufferList, s)[u][i].pkt = p
      PROVE  Past(p)
  <2>1. PICK j \in 1..Len(bufferList[u]) : Popped(bufferList, s)[u][i] = bufferList[u][j]
    BY <1>0, PoppedAt
  <2> QED  BY <1>1, <2>1 DEF Past, PastIn
<1>2. /\ Head(bufferList[s]) = bufferList[s][1] /\ 1 \in 1..Len(bufferList[s])
      /\ Head(bufferList[s]).pkt \in Packet
  <2>1. bufferList[s] \in Seq(Node) /\ Head(bufferList[s]) \in Node
    BY <1>0, HeadTailProperties DEF Lists
  <2> QED  BY <2>1, HeadTailProperties, EmptySeq, LenProperties DEF Node
<1>3. ASSUME NEW id \in Ids, NEW i \in 1..Len(recorded'[id]), recorded'[id][i] = p
      PROVE  Past(p)
  <2>1. CASE recorded'[id] = recorded[id]
    BY <1>3, <2>1 DEF Past, PastIn
  <2>2. CASE recorded'[id] = Append(recorded[id], Head(bufferList[s]).pkt)
    <3>1. \/ i \in 1..Len(recorded[id]) /\ recorded'[id][i] = recorded[id][i]
          \/ recorded'[id][i] = Head(bufferList[s]).pkt
      BY <1>0, <1>2, <2>2, AppendProperties, LenProperties
    <3>2. CASE i \in 1..Len(recorded[id]) /\ recorded'[id][i] = recorded[id][i]
      BY <1>3, <3>2 DEF Past, PastIn
    <3>3. CASE recorded'[id][i] = Head(bufferList[s]).pkt
      BY <1>2, <1>3, <3>3 DEF Past, PastIn
    <3> QED  BY <3>1, <3>2, <3>3
  <2> QED  BY <1>0, <2>1, <2>2
<1> QED  BY <1>1, <1>3 DEF PastIn

LEMMA PastStep ==
  ASSUME Disciplined, DInv, ListsOwned, [Next]_vars,
         NEW p, PastIn(bufferList', recorded', p)
  PROVE  Past(p) \/ Pushes(p)
<1>0. /\ TypeOK /\ CallsServed /\ bufferList \in Lists
  BY DEF DInv, IInv, Served, TypeOK, SessionTypeOK, Lists
<1>1. CASE UNCHANGED <<bufferList, recorded>>
  BY <1>1 DEF Past
<1>2. CASE UNCHANGED recorded /\ ListPopped
  BY <1>0, <1>2, PastPopped DEF ListPopped
<1>3. CASE UNCHANGED recorded /\ ListCleared
  <2>1. PICK s \in Sessions : bufferList' = [bufferList EXCEPT ![s] = <<>>]
    BY <1>3 DEF ListCleared
  <2>2. \A u \in Sessions : \A i \in 1..Len(bufferList'[u]) : bufferList'[u] = bufferList[u]
    BY <1>0, <2>1, EmptySeq DEF Lists
  <2> QED  BY <1>3, <2>2 DEF Past, PastIn
<1>4. CASE ListRecorded
  BY <1>0, <1>4, PastPopped DEF ListRecorded
<1>5. ASSUME NEW f \in Feeders, PushCall(f), UNCHANGED captureVars
      PROVE  Past(p) \/ Pushes(p)
  <2>1. call[f].session \in Sessions /\ call[f].node \in Node
    BY <1>0, <1>5 DEF TypeOK, ReceiverTypeOK, PushCall, Idle, Looking, Pushing
  <2>2. bufferList' = Pushed(bufferList, call[f].session, call[f].node)
    BY <1>0, <1>5 DEF CallsServed, CallServed, PushCall, Push, PushBack, Pushed, Good
  <2>3. Past(p) \/ p = call[f].node.pkt
    BY <1>0, <1>5, <2>1, <2>2, PastPushed DEF captureVars
  <2>4. call[f].pc = "push" /\ call'[f].pc = "idle"
    BY <1>0, <1>5 DEF PushCall, Idle, TypeOK, ReceiverTypeOK
  <2> QED  BY <2>3, <2>4 DEF Pushes
<1>6. CASE PushSocket
  <2>1. t1.session \in Sessions /\ t1.node \in Node
    BY <1>0, <1>6 DEF TypeOK, ReceiverTypeOK, PushSocket, PushDatagram, Idle, Pushing
  <2>2. bufferList' = Pushed(bufferList, t1.session, t1.node)
    BY <1>0, <1>6 DEF CallsServed, CallServed, PushSocket, PushDatagram, Push, PushBack, Pushed, Good
  <2>3. Past(p) \/ p = t1.node.pkt
    BY <1>0, <1>6, <2>1, <2>2, PastPushed DEF captureVars, PushSocket
  <2>4. t1.pc = "push" /\ t1'.pc = "idle"
    BY <1>6 DEF PushSocket, PushDatagram, Idle
  <2> QED  BY <2>3, <2>4 DEF Pushes
<1>7. ASSUME ReceiversStep
      PROVE  Past(p) \/ Pushes(p)
  <2>1. \/ UNCHANGED <<bufferList, recorded>>
        \/ \E f \in Feeders : PushCall(f) /\ UNCHANGED captureVars
        \/ PushSocket
    BY <1>7 DEF ReceiversStep, Feed, OnRTPData, FeederStep, Refuse, Fill, Receive, Arrive,
       ReadSocket, OnSocketReadable, vars, sessionVars, captureVars
  <2> QED  BY <1>1, <1>5, <1>6, <2>1
<1>8. CASE Capture
  BY <1>1, <1>4, <1>8, CaptureFiles
<1>9. ASSUME \/ \E s \in Sessions, ports \in Ports : AddSession(s, ports)
             \/ \E id \in Ids : DelSession(id)
             \/ AddSteps \/ DelSteps
      PROVE  Past(p) \/ Pushes(p)
  BY <1>0, <1>1, <1>2, <1>3, <1>9, AppList
<1> QED  BY <1>7, <1>8, <1>9 DEF Next, ReceiversStep

(* A packet that comes after the past comes after it still, unless a later *)
(* one of its source for its session is pushed.                            *)
LEMMA LatestKept ==
  ASSUME Disciplined, DInv, ListsOwned, [Next]_vars, sent' \in {sent, sent + 1},
         NEW p \in Packet, Latest(p),
         \A q \in Packet : Pushes(q) /\ SameSource(p, q) => q.n < p.n
  PROVE  LatestIn(bufferList', recorded', sent', p)
<1>1. sent \in Nat
  BY DEF DInv, IInv, TypeOK, ReceiverTypeOK
<1>2. ASSUME NEW q \in Packet, PastIn(bufferList', recorded', q), SameSource(p, q)
      PROVE  q.n < p.n
  <2>1. Past(q) \/ Pushes(q)
    BY <1>2, PastStep
  <2> QED  BY <1>2, <2>1 DEF Latest, LatestIn, Past
<1>3. p.n \in 1..sent'
  BY <1>1 DEF Latest, LatestIn
<1> QED  BY <1>2, <1>3 DEF LatestIn

(* Packets in hands are packets; those that are pushed were sent.          *)
LEMMA HandPackets ==
  ASSUME TypeOK
  PROVE  /\ \A f \in Feeders : call[f].pc # "idle" => Carried(call[f]) \in Packet
         /\ \A f \in Feeders : call[f].pc = "push" => Carried(call[f]) = call[f].node.pkt
         /\ \A f \in Feeders : call[f].pc \in {"idle", "lookup", "push"}
         /\ t1.pc = "push" => t1.node.pkt \in Packet
BY DEF TypeOK, ReceiverTypeOK, Idle, Looking, Pushing, Node, Carried

LEMMA SentStep ==
  ASSUME TypeOK, [Next]_vars
  PROVE  \/ sent' = sent
         \/ sent < MaxPackets /\ sent' = sent + 1
BY DEF Next, AddSession, DelSession, AddSteps, AddToReceiver, ReceiverAdd, BindFails,
   ReceiverAddFails, AddToCapture, DelSteps, DelFind, DelLockBuffer, DelDrain, DelErase, DelFree,
   Feed, OnRTPData, FeederStep, Refuse, Fill, PushCall, Receive, Arrive, ReadSocket,
   OnSocketReadable, PushSocket, PushDatagram, Capture, vars, receiverVars

(* A step leaves a call alone, empties it, carries its packet on, or       *)
(* begins it with a new packet.                                            *)
LEMMA CallStep ==
  ASSUME TypeOK, [Next]_vars, NEW f \in Feeders, call'[f].pc # "idle"
  PROVE  \/ call[f].pc # "idle" /\ Carried(call'[f]) = Carried(call[f])
         \/ /\ sent' = sent + 1
            /\ Carried(call'[f]).via = f /\ Carried(call'[f]).n = sent + 1
<1>0. call \in [Feeders -> {Idle} \cup Looking \cup Pushing]
  BY DEF TypeOK, ReceiverTypeOK
<1>1. CASE call'[f] = call[f]
  BY <1>1
<1>2. ASSUME NEW id \in Ids, NEW len \in CallLens, Feed(f, id, len)
      PROVE  /\ sent' = sent + 1
             /\ Carried(call'[f]).via = f /\ Carried(call'[f]).n = sent + 1
  BY <1>0, <1>2 DEF Feed, OnRTPData, Carried
<1>3. CASE FeederStep(f)
  BY <1>0, <1>3 DEF FeederStep, Refuse, Fill, PushCall, Carried, Idle
<1>4. ASSUME NEW g \in Feeders, g # f,
             \/ \E id \in Ids, len \in CallLens : Feed(g, id, len)
             \/ FeederStep(g)
      PROVE  call'[f] = call[f]
  BY <1>0, <1>4 DEF Feed, OnRTPData, FeederStep, Refuse, Fill, PushCall
<1>5. ASSUME \/ \E s \in Sessions, ports \in Ports : AddSession(s, ports)
             \/ \E id \in Ids : DelSession(id)
             \/ AddSteps \/ DelSteps \/ Capture \/ UNCHANGED vars
             \/ \E h \in 1..Len(handlers), m \in Media, len \in DatagramLens : Receive(h, m, len)
             \/ \E h \in 1..Len(handlers), m \in Media : ReadSocket(h, m)
             \/ PushSocket
      PROVE  UNCHANGED call
  BY <1>5 DEF AddSession, DelSession, AddSteps, AddToReceiver, ReceiverAdd, BindFails,
     ReceiverAddFails, AddToCapture, DelSteps, DelFind, DelLockBuffer, DelDrain, DelErase,
     DelFree, Capture, Receive, Arrive, ReadSocket, OnSocketReadable, PushSocket,
     PushDatagram, receiverVars, vars
<1> QED  BY <1>1, <1>2, <1>3, <1>4, <1>5 DEF Next

OInv == DInv /\ OwnPackets /\ ListsOwned /\ InOrder

(* Whoever pushes, the packet was sent before the step.                    *)
LEMMA PushesOld ==
  ASSUME OInv, NEW q \in Packet, Pushes(q)
  PROVE  q.n \in 1..sent
<1>1. TypeOK
  BY DEF OInv, DInv, IInv
<1> QED
  BY <1>1, HandPackets DEF OInv, InOrder, T1InOrder, CallInOrder, Latest, LatestIn, Pushes

LEMMA PastSent ==
  ASSUME Disciplined, OInv, [Next]_vars,
         NEW q \in Packet, PastIn(bufferList', recorded', q)
  PROVE  q.n <= sent
<1>1. Past(q) \/ Pushes(q)
  BY PastStep DEF OInv
<1>2. sent \in Nat /\ q.n \in Nat
  BY DEF OInv, DInv, IInv, TypeOK, ReceiverTypeOK, Packet
<1> QED  BY <1>1, <1>2, PushesOld DEF OInv, InOrder

LEMMA CallsInOrderStep ==
  ASSUME Disciplined, OInv, [Next]_vars, NEW f \in Feeders
  PROVE  CallInOrder(bufferList', recorded', sent', f, call'[f])
<1> SUFFICES ASSUME call'[f].pc # "idle"
             PROVE  /\ Carried(call'[f]).via = f
                    /\ LatestIn(bufferList', recorded', sent', Carried(call'[f]))
  BY DEF CallInOrder
<1>0. TypeOK /\ TypeOK' /\ sent \in Nat /\ sent' \in {sent, sent + 1}
  BY NextDInv, SentStep DEF OInv, DInv, IInv, TypeOK, ReceiverTypeOK
<1>1. CASE call[f].pc # "idle" /\ Carried(call'[f]) = Carried(call[f])
  <2> DEFINE p == Carried(call[f])
  <2>1. p \in Packet /\ p.via = f /\ Latest(p)
    BY <1>0, <1>1, HandPackets DEF OInv, InOrder, CallInOrder, Latest
  <2>2. ASSUME NEW q \in Packet, Pushes(q), SameSource(p, q)
        PROVE  FALSE
    <3>1. ASSUME NEW g \in Feeders, call[g].pc = "push", call'[g].pc = "idle", q = call[g].node.pkt
          PROVE  FALSE
      <4>1. q.via = g
        BY <1>0, <3>1, HandPackets DEF OInv, InOrder, CallInOrder
      <4> QED  BY <2>1, <2>2, <3>1, <4>1 DEF SameSource
    <3>2. CASE t1.pc = "push" /\ q = t1.node.pkt
      <4>1. q.via \in Media
        BY <3>2 DEF OInv, InOrder, T1InOrder
      <4> QED  BY <2>1, <2>2, <4>1, SessionAssumption DEF SameSource
    <3> QED  BY <2>2, <3>1, <3>2 DEF Pushes
  <2> HIDE DEF p
  <2>3. LatestIn(bufferList', recorded', sent', p)
    BY <1>0, <2>1, <2>2, LatestKept DEF OInv
  <2> QED  BY <1>1, <2>1, <2>3 DEF p
<1>2. CASE /\ sent' = sent + 1
           /\ Carried(call'[f]).via = f /\ Carried(call'[f]).n = sent + 1
  <2>1. \A q \in Packet : PastIn(bufferList', recorded', q) => q.n < sent + 1
    BY <1>0, PastSent DEF Packet
  <2> QED  BY <1>0, <1>2, <2>1 DEF LatestIn
<1> QED  BY <1>0, <1>1, <1>2, CallStep

(* What waits in a socket comes after the past also after a step.          *)
LEMMA QueuedLatest ==
  ASSUME Disciplined, OInv, [Next]_vars,
         NEW h \in 1..Len(handlers), NEW m \in Media, NEW i \in 1..Len(handlers[h].queue[m])
  PROVE  /\ handlers[h].queue[m][i].pkt \in Packet
         /\ LatestIn(bufferList', recorded', sent', handlers[h].queue[m][i].pkt)
<1> DEFINE q == handlers[h].queue[m]
           p == q[i].pkt
<1>0. TypeOK /\ sent' \in {sent, sent + 1}
  BY SentStep DEF OInv, DInv, IInv
<1>1. p \in Packet
  <2>1. q[i] \in Datagram
    BY <1>0, HandlerTypes, ElementOfSeq
  <2> QED  BY <2>1 DEF Datagram
<1>2. /\ p.via = m /\ Latest(p)
      /\ t1.pc = "push" /\ SameSource(t1.node.pkt, p) => t1.node.pkt.n < p.n
  BY DEF OInv, InOrder, QueueInOrder, Latest
<1> HIDE DEF p
<1>3. ASSUME NEW r \in Packet, Pushes(r), SameSource(p, r)
      PROVE  r.n < p.n
  <2>1. ASSUME NEW g \in Feeders, call[g].pc = "push", r = call[g].node.pkt
        PROVE  FALSE
    <3>1. r.via = g
      BY <1>0, <2>1, HandPackets DEF OInv, InOrder, CallInOrder
    <3> QED  BY <1>2, <1>3, <2>1, <3>1, SessionAssumption DEF SameSource
  <2> QED  BY <1>2, <1>3, <2>1 DEF Pushes, SameSource
<1>4. LatestIn(bufferList', recorded', sent', p)
  BY <1>0, <1>1, <1>2, <1>3, LatestKept DEF OInv
<1> QED  BY <1>1, <1>4 DEF p

(* A push by T1 and a socket that T1 reads.                                *)
LEMMA ReadFacts ==
  ASSUME OInv, NEW h \in 1..Len(handlers), NEW m \in Media, ReadSocket(h, m)
  PROVE  /\ 1 \in 1..Len(handlers[h].queue[m]) /\ handlers[h].queue[m] # <<>>
         /\ t1'.pc = "push" /\ t1'.node.pkt = handlers[h].queue[m][1].pkt
         /\ handlers' = [handlers EXCEPT ![h].queue[m] = Tail(handlers[h].queue[m])]
         /\ Len(Tail(handlers[h].queue[m])) = Len(handlers[h].queue[m]) - 1
         /\ \A i \in 1..Len(Tail(handlers[h].queue[m])) :
              Tail(handlers[h].queue[m])[i] = handlers[h].queue[m][i + 1]
<1> DEFINE q == handlers[h].queue[m]
<1>1. PICK b : OnSocketReadable(h, m, b)
  BY DEF ReadSocket
<1>2. q \in Seq(Datagram) /\ q # <<>>
  BY <1>1, HandlerTypes DEF OInv, DInv, IInv, OnSocketReadable, Readable
<1>3. /\ Head(q) = q[1] /\ 1 \in 1..Len(q)
      /\ Len(Tail(q)) = Len(q) - 1 /\ \A i \in 1..Len(Tail(q)) : Tail(q)[i] = q[i + 1]
  BY <1>2, HeadTailProperties, EmptySeq, LenProperties
<1> QED  BY <1>1, <1>2, <1>3 DEF OnSocketReadable

(* T1 keeps its packet, pushes it, or takes one out of a socket.           *)
LEMMA ReactorStep ==
  ASSUME TypeOK, [Next]_vars
  PROVE  \/ t1' \in {t1, Idle} /\ \A h \in 1..Len(handlers), m \in Media : ~ReadSocket(h, m)
         \/ \E h \in 1..Len(handlers), m \in Media : ReadSocket(h, m)
<1>1. ASSUME \/ \E s \in Sessions, ports \in Ports : AddSession(s, ports)
             \/ \E id \in Ids : DelSession(id)
             \/ AddSteps \/ DelSteps \/ Capture \/ UNCHANGED vars
             \/ \E f \in Feeders, id \in Ids, len \in CallLens : Feed(f, id, len)
             \/ \E f \in Feeders : FeederStep(f)
             \/ \E h \in 1..Len(handlers), m \in Media, len \in DatagramLens : Receive(h, m, len)
             \/ PushSocket
      PROVE  t1' \in {t1, Idle}
  BY <1>1 DEF AddSession, DelSession, AddSteps, AddToReceiver, ReceiverAdd, BindFails,
     ReceiverAddFails, AddToCapture, DelSteps, DelFind, DelLockBuffer, DelDrain, DelErase,
     DelFree, Capture, Feed, OnRTPData, FeederStep, Refuse, Fill, PushCall, Receive, Arrive,
     PushSocket, PushDatagram, receiverVars, vars
<1> QED  BY <1>1 DEF Next

LEMMA T1InOrderStep ==
  ASSUME Disciplined, OInv, [Next]_vars
  PROVE  T1InOrder'
<1> SUFFICES ASSUME t1'.pc = "push"
             PROVE  /\ t1'.node.pkt.via \in Media
                    /\ LatestIn(bufferList', recorded', sent', t1'.node.pkt)
  BY DEF T1InOrder, Latest
<1>0. TypeOK /\ sent' \in {sent, sent + 1}
  BY SentStep DEF OInv, DInv, IInv
<1>1. CASE t1' = t1
  <2> DEFINE p == t1.node.pkt
  <2>1. p \in Packet /\ p.via \in Media /\ Latest(p)
    BY <1>0, <1>1, HandPackets DEF OInv, InOrder, T1InOrder
  <2>2. ASSUME NEW r \in Packet, Pushes(r), SameSource(p, r)
        PROVE  FALSE
    <3>1. ASSUME NEW g \in Feeders, call[g].pc = "push", r = call[g].node.pkt
          PROVE  FALSE
      <4>1. r.via = g
        BY <1>0, <3>1, HandPackets DEF OInv, InOrder, CallInOrder
      <4> QED  BY <2>1, <2>2, <3>1, <4>1, SessionAssumption DEF SameSource
    <3> QED  BY <1>1, <2>2, <3>1 DEF Pushes
  <2> HIDE DEF p
  <2>3. LatestIn(bufferList', recorded', sent', p)
    BY <1>0, <2>1, <2>2, LatestKept DEF OInv
  <2> QED  BY <1>1, <2>1, <2>3 DEF p
<1>2. ASSUME NEW h \in 1..Len(handlers), NEW m \in Media, ReadSocket(h, m)
      PROVE  /\ t1'.node.pkt.via \in Media
             /\ LatestIn(bufferList', recorded', sent', t1'.node.pkt)
  <2>1. handlers[h].queue[m][1].pkt.via = m
    <3>1. QueueInOrder(bufferList, recorded, sent, t1, m, handlers[h].queue[m])
      BY DEF OInv, InOrder
    <3>2. 1 \in 1..Len(handlers[h].queue[m])
      BY <1>2, ReadFacts
    <3> QED  BY <3>1, <3>2 DEF QueueInOrder
  <2> QED  BY <1>2, <2>1, ReadFacts, QueuedLatest
<1>3. CASE t1' = Idle
  BY <1>3 DEF Idle
<1> QED  BY <1>0, <1>1, <1>2, <1>3, ReactorStep

(* A packet that the network brings is newer than all others.              *)
LEMMA QueuesInOrderStep ==
  ASSUME Disciplined, OInv, [Next]_vars
  PROVE  \A h \in 1..Len(handlers'), m \in Media :
           QueueInOrder(bufferList', recorded', sent', t1', m, handlers'[h].queue[m])
<1> DEFINE Ordered(m, q) == QueueInOrder(bufferList', recorded', sent', t1', m, q)
<1>0. /\ TypeOK /\ sent \in Nat
      /\ \A h \in 1..Len(handlers), m \in Media :
           QueueInOrder(bufferList, recorded, sent, t1, m, handlers[h].queue[m])
  BY DEF OInv, DInv, IInv, TypeOK, ReceiverTypeOK, InOrder
<1>1. ASSUME t1' \in {t1, Idle}, NEW h \in 1..Len(handlers), NEW m \in Media
      PROVE  Ordered(m, handlers[h].queue[m])
  <2> DEFINE q == handlers[h].queue[m]
  <2>1. \A i \in 1..Len(q) : LatestIn(bufferList', recorded', sent', q[i].pkt)
    BY QueuedLatest
  <2>2. QueueInOrder(bufferList, recorded, sent, t1, m, q)
    BY <1>0
  <2>3. t1'.pc = "push" => t1' = t1
    BY <1>1 DEF Idle
  <2> HIDE DEF q
  <2>4. QueueInOrder(bufferList', recorded', sent', t1', m, q)
    BY <2>1, <2>2, <2>3 DEF QueueInOrder
  <2> QED  BY <2>4 DEF q
<1>2. CASE t1' \in {t1, Idle} /\ UNCHANGED handlers
  BY <1>1, <1>2
<1>3. CASE AddToReceiver /\ ~UNCHANGED handlers
  <2> DEFINE new == [session |-> app.session, id |-> sessionID[app.session],
                     queue |-> [m \in Media |-> <<>>]]
  <2>1. handlers' = Append(handlers, new) /\ t1' = t1
    BY <1>3 DEF AddToReceiver, ReceiverAdd
  <2>2. new \in Handler
    BY <1>0, <1>3, BookTypes, EmptySeq DEF AddToReceiver, AddPcs, Handler
  <2>3. new.queue = [m \in Media |-> <<>>]
    OBVIOUS
  <2> HIDE DEF new
  <2>4. /\ Len(handlers) \in Nat /\ Len(handlers') = Len(handlers) + 1
        /\ handlers'[Len(handlers) + 1] = new
        /\ \A h \in 1..Len(handlers) : handlers'[h] = handlers[h]
    BY <1>0, <2>1, <2>2, AppendProperties, LenProperties DEF TypeOK, ReceiverTypeOK
  <2>5. ASSUME NEW h \in 1..Len(handlers'), NEW m \in Media
        PROVE  Ordered(m, handlers'[h].queue[m])
    <3>1. CASE h \in 1..Len(handlers)
      <4>1. handlers'[h] = handlers[h]
        BY <2>4, <3>1
      <4> QED  BY <1>1, <2>1, <3>1, <4>1
    <3>2. CASE h \notin 1..Len(handlers)
      <4>1. handlers'[h].queue[m] = <<>>
        BY <2>3, <2>4, <3>2
      <4> QED  BY <4>1, EmptySeq DEF QueueInOrder
    <3> QED  BY <3>1, <3>2
  <2> QED  BY <2>5
<1>4. ASSUME NEW h \in 1..Len(handlers), NEW m \in Media, NEW len \in DatagramLens,
             Receive(h, m, len)
      PROVE  \A g \in 1..Len(handlers'), n \in Media : Ordered(n, handlers'[g].queue[n])
  <2> DEFINE d == [len |-> len, pkt |-> [to |-> handlers[h].id, via |-> m, n |-> sent + 1]]
             old == handlers[h].queue[m]
  <2>1. handlers' = [handlers EXCEPT ![h].queue[m] = Append(old, d)] /\ t1' = t1 /\ sent' = sent + 1
    BY <1>4 DEF Receive, Arrive
  <2>2. d \in Datagram /\ d.pkt.via = m /\ d.pkt.n = sent + 1
    BY <1>0, HandlerTypes, ReceiverAssumption DEF Datagram, Packet
  <2> HIDE DEF d
  <2>4. /\ Len(old) \in Nat /\ Len(Append(old, d)) = Len(old) + 1
        /\ \A i \in 1..Len(old) : Append(old, d)[i] = old[i]
        /\ Append(old, d)[Len(old) + 1] = d
    BY <1>0, <2>2, HandlerTypes, AppendProperties, LenProperties
  <2>5. /\ \A i \in 1..Len(old) : old[i].pkt.n \in 1..sent
        /\ t1.pc = "push" => t1.node.pkt.n \in 1..sent
    BY <1>0 DEF QueueInOrder, LatestIn, Latest, OInv, InOrder, T1InOrder
  <2>6. LatestIn(bufferList', recorded', sent', d.pkt)
    <3>1. \A q \in Packet : PastIn(bufferList', recorded', q) => q.n < sent + 1
      BY <1>0, PastSent DEF Packet
    <3> QED  BY <1>0, <2>1, <2>2, <3>1 DEF LatestIn
  <2>7. Ordered(m, old)
    BY <1>1, <2>1
  <2>8. Ordered(m, Append(old, d))
    <3>1. ASSUME NEW i \in 1..Len(old)
          PROVE  /\ old[i].pkt.via = m
                 /\ LatestIn(bufferList', recorded', sent', old[i].pkt)
                 /\ \A j \in 1..Len(old) : i < j => old[i].pkt.n < old[j].pkt.n
                 /\ t1'.pc = "push" /\ SameSource(t1'.node.pkt, old[i].pkt)
                      => t1'.node.pkt.n < old[i].pkt.n
      BY <2>7 DEF QueueInOrder
    <3>2. /\ \A i \in 1..Len(old) : old[i].pkt.n < d.pkt.n
          /\ t1'.pc = "push" => t1'.node.pkt.n < d.pkt.n
      BY <1>0, <2>1, <2>2, <2>5
    <3> HIDE DEF old
    <3> QED  BY <2>2, <2>4, <2>6, <3>1, <3>2 DEF QueueInOrder
  <2> HIDE DEF old, Ordered
  <2>9. \A g \in 1..Len(handlers), n \in Media : Ordered(n, handlers[g].queue[n])
    BY <1>1, <2>1
  <2> QED  BY <1>0, <2>1, <2>8, <2>9, HandlersAt
<1>5. ASSUME NEW h \in 1..Len(handlers), NEW m \in Media, ReadSocket(h, m)
      PROVE  \A g \in 1..Len(handlers'), n \in Media : Ordered(n, handlers'[g].queue[n])
  <2> DEFINE old == handlers[h].queue[m]
  <2>1. /\ handlers' = [handlers EXCEPT ![h].queue[m] = Tail(old)]
        /\ 1 \in 1..Len(old) /\ old # <<>> /\ t1'.node.pkt = old[1].pkt
        /\ Len(Tail(old)) = Len(old) - 1
        /\ \A i \in 1..Len(Tail(old)) : Tail(old)[i] = old[i + 1]
    BY <1>5, ReadFacts
  <2>2. Len(old) \in Nat /\ old[1].pkt.to = handlers[h].id /\ old[1].pkt.via = m
    BY <1>0, <2>1, HandlerTypes, LenProperties
    DEF QueueInOrder, OInv, DInv, Served, SocketsServed
  <2>3. Ordered(m, Tail(old))
    <3>1. ASSUME NEW i \in 1..Len(Tail(old))
          PROVE  /\ i + 1 \in 1..Len(old) /\ Tail(old)[i] = old[i + 1]
                 /\ old[i + 1].pkt.via = m
                 /\ LatestIn(bufferList', recorded', sent', old[i + 1].pkt)
                 /\ \A j \in 1..Len(old) : i + 1 < j => old[i + 1].pkt.n < old[j].pkt.n
                 /\ old[1].pkt.n < old[i + 1].pkt.n
      <4>1. i + 1 \in 1..Len(old) /\ 1 < i + 1 /\ Tail(old)[i] = old[i + 1]
        BY <2>1, <2>2
      <4>2. QueueInOrder(bufferList, recorded, sent, t1, m, old)
        BY <1>0
      <4>3. LatestIn(bufferList', recorded', sent', old[i + 1].pkt)
        BY <4>1, QueuedLatest
      <4> HIDE DEF old
      <4>4. /\ old[i + 1].pkt.via = m
            /\ \A j \in 1..Len(old) : i + 1 < j => old[i + 1].pkt.n < old[j].pkt.n
            /\ old[1].pkt.n < old[i + 1].pkt.n
        BY <2>1, <4>1, <4>2 DEF QueueInOrder
      <4> QED  BY <4>1, <4>3, <4>4
    <3> HIDE DEF old
    <3>2. ASSUME NEW i \in 1..Len(Tail(old)), NEW j \in 1..Len(Tail(old)), i < j
          PROVE  Tail(old)[i].pkt.n < Tail(old)[j].pkt.n
      <4>1. i + 1 < j + 1 /\ j + 1 \in 1..Len(old) /\ Tail(old)[j] = old[j + 1]
        BY <3>1, <3>2, <2>2
      <4> QED  BY <3>1, <4>1
    <3> QED  BY <2>1, <3>1, <3>2 DEF QueueInOrder
  <2>4. ASSUME NEW g \in 1..Len(handlers), NEW n \in Media, ~(g = h /\ n = m)
        PROVE  Ordered(n, handlers[g].queue[n])
    <3> DEFINE q == handlers[g].queue[n]
    <3>1. ASSUME NEW i \in 1..Len(q)
          PROVE  ~SameSource(old[1].pkt, q[i].pkt)
      <4>1. q # <<>> /\ q[i].pkt.to = handlers[g].id /\ q[i].pkt.via = n
        BY <1>0, <3>1, EmptySeq DEF QueueInOrder, OInv, DInv, Served, SocketsServed
      <4>2. handlers[g].id # handlers[h].id \/ g = h
        <5>1. LastOfId /\ old # <<>> /\ q # <<>>
          BY <2>1, <4>1 DEF OInv, InOrder
        <5>2. h < g \/ g < h \/ g = h
          OBVIOUS
        <5> QED  BY <5>1, <5>2 DEF LastOfId
      <4> QED  BY <2>2, <2>4, <4>1, <4>2 DEF SameSource
    <3> QED  BY <1>0, <2>1, <3>1, QueuedLatest DEF QueueInOrder
  <2> HIDE DEF old, Ordered
  <2>5. Len(handlers') = Len(handlers) /\ handlers'[h].queue[m] = Tail(old)
    <3>1. handlers' = [handlers EXCEPT ![h].queue[m] = Tail(old)]
      BY <2>1
    <3>2. Len(handlers') = Len(handlers)
      BY <1>0, <3>1, HandlersAt
    <3>3. handlers'[h].queue[m] = Tail(old)
      <4>1. handlers[h] \in Handler
        BY <1>0, HandlerTypes
      <4>2. handlers' = [handlers EXCEPT ![h] = [handlers[h] EXCEPT !.queue = [@ EXCEPT ![m] = Tail(old)]]]
        BY <3>1, <4>1
      <4>3. handlers'[h] = [handlers[h] EXCEPT !.queue = [@ EXCEPT ![m] = Tail(old)]]
        BY <1>0, <4>2, LenProperties DEF TypeOK, ReceiverTypeOK
      <4> QED  BY <4>1, <4>3 DEF Handler
    <3> QED  BY <3>2, <3>3
  <2>6. ASSUME NEW g \in 1..Len(handlers), NEW n \in Media
        PROVE  Ordered(n, handlers'[g].queue[n])
    <3>1. CASE g = h /\ n = m
      BY <2>3, <2>5, <3>1
    <3>2. CASE ~(g = h /\ n = m)
      <4>1. handlers'[g].queue[n] = handlers[g].queue[n]
        BY <1>0, <2>1, <3>2, HandlersAt
      <4> QED  BY <2>4, <3>2, <4>1
    <3> QED  BY <3>1, <3>2
  <2> QED  BY <2>5, <2>6
<1>6. ASSUME \/ \E s \in Sessions, ports \in Ports : AddSession(s, ports)
             \/ \E id \in Ids : DelSession(id)
             \/ BindFails \/ AddToCapture \/ DelSteps \/ Capture \/ UNCHANGED vars
             \/ \E f \in Feeders, id \in Ids, len \in CallLens : Feed(f, id, len)
             \/ \E f \in Feeders : FeederStep(f)
             \/ PushSocket
      PROVE  UNCHANGED handlers /\ t1' \in {t1, Idle}
  BY <1>6 DEF AddSession, DelSession, BindFails, ReceiverAddFails, AddToCapture, DelSteps,
     DelFind, DelLockBuffer, DelDrain, DelErase, DelFree, Capture, receiverVars, vars,
     Feed, OnRTPData, FeederStep, Refuse, Fill, PushCall, PushSocket, PushDatagram
<1>7. AddToReceiver => t1' = t1
  BY DEF AddToReceiver, ReceiverAdd
<1> QED  BY <1>2, <1>3, <1>4, <1>5, <1>6, <1>7 DEF Next, AddSteps

(* A handler is registered when its id is in nobody's use, and datagrams   *)
(* reach the last handler of an id only.                                   *)
LEMMA LastOfIdStep ==
  ASSUME Disciplined, OInv, [Next]_vars
  PROVE  LastOfId'
<1>0. /\ TypeOK /\ Len(handlers) \in Nat /\ SocketsServed /\ AppEntry /\ LastOfId
  BY LenProperties DEF OInv, DInv, IInv, TypeOK, ReceiverTypeOK, Served, Book, InOrder
<1>1. CASE UNCHANGED handlers
  BY <1>0, <1>1 DEF LastOfId
<1>2. CASE AddToReceiver /\ ~UNCHANGED handlers
  <2> DEFINE new == [session |-> app.session, id |-> sessionID[app.session],
                     queue |-> [m \in Media |-> <<>>]]
  <2>1. handlers' = Append(handlers, new)
    BY <1>2 DEF AddToReceiver, ReceiverAdd
  <2>2. new \in Handler
    BY <1>0, <1>2, BookTypes, EmptySeq DEF AddToReceiver, AddPcs, Handler
  <2>3. new.queue = [m \in Media |-> <<>>] /\ new.id = sessionID[app.session]
    OBVIOUS
  <2> HIDE DEF new
  <2>4. /\ Len(handlers') = Len(handlers) + 1
        /\ handlers'[Len(handlers) + 1] = new
        /\ \A h \in 1..Len(handlers) : handlers'[h] = handlers[h]
    BY <1>0, <2>1, <2>2, AppendProperties, LenProperties DEF TypeOK, ReceiverTypeOK
  <2>5. app.pc = "receiverAdd" /\ sdkMap[new.id] = NULL
    BY <1>0, <1>2, <2>3 DEF AddToReceiver, AppEntry, AddPcs
  <2>6. ASSUME NEW h \in 1..Len(handlers), NEW m \in Media, handlers[h].queue[m] # <<>>
        PROVE  new.id # handlers[h].id
    <3>1. Good(handlers[h].session, handlers[h].id)
      BY <1>0, <2>6 DEF SocketsServed
    <3>2. sdkMap[handlers[h].id] \in live
      BY <2>5, <3>1 DEF Good
    <3> QED  BY <1>0, <2>5, <3>2, BookTypes
  <2>7. ASSUME NEW h \in 1..Len(handlers'), NEW m \in Media, handlers'[h].queue[m] # <<>>,
               NEW g \in 1..Len(handlers'), h < g
        PROVE  handlers'[g].id # handlers'[h].id
    <3>1. h \in 1..Len(handlers)
      BY <1>0, <2>3, <2>4, <2>7
    <3>2. CASE g \in 1..Len(handlers)
      BY <1>0, <2>4, <2>7, <3>1, <3>2 DEF LastOfId
    <3>3. CASE g \notin 1..Len(handlers)
      <4>1. handlers'[g] = new /\ handlers'[h] = handlers[h]
        BY <1>0, <2>4, <3>1, <3>3
      <4> QED  BY <2>6, <2>7, <3>1, <4>1
    <3> QED  BY <3>2, <3>3
  <2> QED  BY <2>7 DEF LastOfId
<1>3. ASSUME NEW h \in 1..Len(handlers), NEW m \in Media, NEW q,
             handlers' = [handlers EXCEPT ![h].queue[m] = q],
             \A g \in 1..Len(handlers) : h < g => handlers[g].id # handlers[h].id
      PROVE  LastOfId'
  <2>1. /\ Len(handlers') = Len(handlers)
        /\ \A g \in 1..Len(handlers) :
             /\ handlers'[g].id = handlers[g].id
             /\ g # h => \A n \in Media : handlers'[g].queue[n] = handlers[g].queue[n]
    <3>1. Len(handlers') = Len(handlers)
      BY <1>0, <1>3, HandlersAt
    <3>2. ASSUME NEW g \in 1..Len(handlers) PROVE handlers'[g].id = handlers[g].id
      BY <1>0, <1>3, HandlersAt
    <3>3. ASSUME NEW g \in 1..Len(handlers), g # h, NEW n \in Media
          PROVE  handlers'[g].queue[n] = handlers[g].queue[n]
      BY <1>0, <1>3, <3>3, HandlersAt
    <3> QED  BY <3>1, <3>2, <3>3
  <2>2. ASSUME NEW k \in 1..Len(handlers), NEW n \in Media, handlers'[k].queue[n] # <<>>,
               NEW g \in 1..Len(handlers), k < g
        PROVE  handlers'[g].id # handlers'[k].id
    BY <1>0, <1>3, <2>1, <2>2 DEF LastOfId
  <2> QED  BY <2>1, <2>2 DEF LastOfId
<1>4. ASSUME NEW h \in 1..Len(handlers), NEW m \in Media, NEW len \in DatagramLens,
             Receive(h, m, len)
      PROVE  LastOfId'
  <2>1. \A g \in 1..Len(handlers) : h < g => handlers[g].id # handlers[h].id
    BY <1>0, <1>4 DEF Receive, Serves
  <2> QED  BY <1>3, <1>4, <2>1 DEF Receive, Arrive
<1>5. ASSUME NEW h \in 1..Len(handlers), NEW m \in Media, ReadSocket(h, m)
      PROVE  LastOfId'
  <2>1. /\ handlers[h].queue[m] # <<>>
        /\ handlers' = [handlers EXCEPT ![h].queue[m] = Tail(handlers[h].queue[m])]
    BY <1>5, ReadFacts
  <2>2. \A g \in 1..Len(handlers) : h < g => handlers[g].id # handlers[h].id
    BY <1>0, <2>1 DEF LastOfId
  <2> QED  BY <1>3, <2>1, <2>2
<1>6. ASSUME \/ \E s \in Sessions, ports \in Ports : AddSession(s, ports)
             \/ \E id \in Ids : DelSession(id)
             \/ BindFails \/ AddToCapture \/ DelSteps \/ Capture \/ UNCHANGED vars
             \/ \E f \in Feeders, id \in Ids, len \in CallLens : Feed(f, id, len)
             \/ \E f \in Feeders : FeederStep(f)
             \/ PushSocket
      PROVE  UNCHANGED handlers
  BY <1>6 DEF AddSession, DelSession, BindFails, ReceiverAddFails, AddToCapture, DelSteps,
     DelFind, DelLockBuffer, DelDrain, DelErase, DelFree, Capture, receiverVars, vars,
     Feed, OnRTPData, FeederStep, Refuse, Fill, PushCall, PushSocket, PushDatagram
<1> QED  BY <1>1, <1>2, <1>4, <1>5, <1>6 DEF Next, AddSteps

LEMMA InitOInv == Init => OInv
<1> SUFFICES ASSUME Init PROVE OInv
  OBVIOUS
<1>1. /\ \A s \in Sessions : bufferList[s] = <<>>
      /\ \A id \in Ids : recorded[id] = <<>>
      /\ handlers = <<>> /\ t1 = Idle /\ call = [f \in Feeders |-> Idle] /\ sent = 0
  BY DEF Init, SessionInit, CaptureInit, ReceiverInit
<1>2. OwnPackets /\ ListsOwned
  BY <1>1, EmptySeq DEF OwnPackets, ListsOwned
<1>3. \A q : ~Past(q)
  BY <1>1, EmptySeq DEF Past, PastIn
<1>4. InOrder
  BY <1>1, <1>3, EmptySeq, ReceiverAssumption
  DEF InOrder, CallInOrder, T1InOrder, LastOfId, Idle
<1> QED  BY <1>2, <1>4, InitDInv DEF OInv

LEMMA NextOInv == Disciplined /\ OInv /\ [Next]_vars => OInv'
<1> SUFFICES ASSUME Disciplined, OInv, [Next]_vars PROVE OInv'
  OBVIOUS
<1>1. DInv' /\ OwnPackets' /\ ListsOwned'
  BY NextDInv, OwnPacketsStep, ListsOwnedStep DEF OInv
<1>2. sent' <= MaxPackets /\ \A q \in Packet : PastIn(bufferList', recorded', q) => q.n <= sent'
  <2>1. sent \in Nat /\ sent <= MaxPackets /\ MaxPackets \in Nat
    BY ReceiverAssumption DEF OInv, InOrder, DInv, IInv, TypeOK, ReceiverTypeOK
  <2>2. sent' = sent \/ (sent < MaxPackets /\ sent' = sent + 1)
    BY SentStep DEF OInv, DInv, IInv
  <2> QED  BY <2>1, <2>2, PastSent DEF Packet
<1>3. InOrder'
  BY <1>2, CallsInOrderStep, T1InOrderStep, QueuesInOrderStep, LastOfIdStep DEF InOrder, Past
<1> QED  BY <1>1, <1>3 DEF OInv

LEMMA OInvariance == Disciplined => (Spec => []OInv)
<1> SUFFICES ASSUME Disciplined PROVE Spec => []OInv
  OBVIOUS
<1>1. OInv /\ [Next]_vars => OInv'
  BY NextOInv
<1> QED  BY InitOInv, <1>1, PTL DEF Spec

-------------------------------------------------------------------------------
(* The refinement.  Each step of the SDK is one of Recorder, or none: the  *)
(* packets of a bufferList as a sequence first, then what the mapping      *)
(* shows of a session, then one lemma for each of Recorder's operations.   *)

Packets(list) == [i \in 1..Len(list) |-> list[i].pkt]

LEMMA PacketsType ==
  ASSUME NEW q \in Seq(Node)
  PROVE  /\ Packets(q) \in Seq(Packet) /\ Len(Packets(q)) = Len(q)
         /\ \A i \in 1..Len(q) : Packets(q)[i] = q[i].pkt
<1>1. Len(q) \in Nat /\ \A i \in 1..Len(q) : q[i] \in Node
  BY LenProperties, ElementOfSeq
<1>2. \A i \in 1..Len(q) : q[i].pkt \in Packet
  BY <1>1 DEF Node
<1> QED  BY <1>1, <1>2 DEF Packets

LEMMA PacketsEmpty == Packets(<<>>) = <<>>
<1>1. <<>> \in Seq(Node) /\ Len(<<>>) = 0
  BY EmptySeq
<1>2. Packets(<<>>) \in Seq(Packet) /\ Len(Packets(<<>>)) = 0
  BY <1>1, PacketsType
<1> QED  BY <1>2, EmptySeq

LEMMA PacketsAppend ==
  ASSUME NEW q \in Seq(Node), NEW node \in Node
  PROVE  Packets(Append(q, node)) = Append(Packets(q), node.pkt)
<1>1. /\ Packets(q) \in Seq(Packet) /\ Len(Packets(q)) = Len(q) /\ Len(q) \in Nat
      /\ \A i \in 1..Len(q) : Packets(q)[i] = q[i].pkt
  BY PacketsType, LenProperties
<1>2. /\ Append(q, node) \in Seq(Node) /\ Len(Append(q, node)) = Len(q) + 1
      /\ \A i \in 1..Len(q) : Append(q, node)[i] = q[i]
      /\ Append(q, node)[Len(q) + 1] = node
  BY AppendProperties
<1>3. node.pkt \in Packet
  BY DEF Node
<1> DEFINE a == Packets(Append(q, node))
           b == Append(Packets(q), node.pkt)
<1>4. /\ a \in Seq(Packet) /\ Len(a) = Len(q) + 1
      /\ \A i \in 1..(Len(q) + 1) : a[i] = Append(q, node)[i].pkt
  BY <1>2, PacketsType
<1>5. /\ b \in Seq(Packet) /\ Len(b) = Len(q) + 1
      /\ \A i \in 1..Len(q) : b[i] = q[i].pkt
      /\ b[Len(q) + 1] = node.pkt
  BY <1>1, <1>3, AppendProperties
<1> HIDE DEF a, b
<1>6. \A i \in 1..Len(a) : a[i] = b[i]
  BY <1>1, <1>2, <1>4, <1>5
<1>7. a = b
  BY <1>4, <1>5, <1>6, SeqEqual
<1> QED  BY <1>7 DEF a, b

LEMMA PacketsTail ==
  ASSUME NEW q \in Seq(Node), q # <<>>
  PROVE  /\ Packets(q) # <<>>
         /\ Head(Packets(q)) = Head(q).pkt
         /\ Packets(Tail(q)) = Tail(Packets(q))
<1>1. /\ Packets(q) \in Seq(Packet) /\ Len(Packets(q)) = Len(q) /\ Len(q) \in Nat \ {0}
      /\ \A i \in 1..Len(q) : Packets(q)[i] = q[i].pkt
  BY PacketsType, EmptySeq
<1>2. Packets(q) # <<>>
  BY <1>1, EmptySeq
<1>3. /\ Tail(q) \in Seq(Node) /\ Len(Tail(q)) = Len(q) - 1 /\ Head(q) = q[1]
      /\ \A i \in 1..Len(Tail(q)) : Tail(q)[i] = q[i + 1]
  BY HeadTailProperties
<1> DEFINE p == Packets(q)
           a == Packets(Tail(q))
           b == Tail(Packets(q))
<1>4. /\ a \in Seq(Packet) /\ Len(a) = Len(q) - 1
      /\ \A i \in 1..Len(Tail(q)) : a[i] = Tail(q)[i].pkt
  BY <1>3, PacketsType
<1>5. /\ b \in Seq(Packet) /\ Len(b) = Len(p) - 1 /\ Head(p) = p[1]
      /\ \A i \in 1..Len(b) : b[i] = p[i + 1]
  BY <1>1, <1>2, HeadTailProperties
<1> HIDE DEF a, b, p
<1>6. Len(a) = Len(b) /\ \A i \in 1..Len(a) : a[i] = b[i]
  <2>1. Len(p) = Len(q) /\ \A i \in 1..Len(q) : p[i] = q[i].pkt
    BY <1>1 DEF p
  <2> QED  BY <1>1, <2>1, <1>3, <1>4, <1>5
<1>7. a = b
  BY <1>4, <1>5, <1>6, SeqEqual
<1>8. Head(p) = Head(q).pkt
  BY <1>1, <1>3, <1>5 DEF p
<1> QED  BY <1>2, <1>7, <1>8 DEF a, b, p

RInv == LInv /\ OInv

(* The types of what the mapping looks at.                                 *)
LEMMA MapTypes ==
  ASSUME RInv
  PROVE  /\ TypeOK /\ Registered /\ AppEntry /\ AppSession /\ ListsOwned
         /\ bufferList \in Lists /\ recorded \in [Ids -> Seq(Packet)]
BY DEF RInv, LInv, OInv, DInv, IInv, Book, TypeOK, SessionTypeOK, CaptureTypeOK, Lists

(* The mapping at one session id.                                          *)
StatusOf(id) == IF sessionMap[id] = NULL THEN "none"
                ELSE IF ~Present(id) THEN "closed"
                ELSE IF Closing(id) THEN "closing"
                ELSE "open"

PendingOf(id) == IF sessionMap[id] # NULL /\ Present(id)
                 THEN Packets(bufferList[sessionMap[id]])
                 ELSE <<>>

LEMMA MapAt ==
  /\ RecorderStatus = [id \in Ids |-> StatusOf(id)]
  /\ RecorderPending = [id \in Ids |-> PendingOf(id)]
BY DEF RecorderStatus, RecorderPending, StatusOf, PendingOf, Packets

LEMMA MapAtNext ==
  /\ RecorderStatus' = [id \in Ids |-> StatusOf(id)']
  /\ RecorderPending' = [id \in Ids |-> PendingOf(id)']
BY DEF RecorderStatus, RecorderPending, StatusOf, PendingOf, Packets

(* A step that the mapping does not show.                                  *)
LEMMA Hidden ==
  ASSUME \A id \in Ids : StatusOf(id)' = StatusOf(id) /\ PendingOf(id)' = PendingOf(id),
         UNCHANGED recorded
  PROVE  UNCHANGED R!vars
<1>1. UNCHANGED <<RecorderStatus, RecorderPending>>
  BY MapAt, MapAtNext
<1> QED  BY <1>1 DEF R!vars

(* A step that moves one session id to another status and leaves what is   *)
(* pending and recorded.                                                   *)
LEMMA Moved ==
  ASSUME NEW id \in Ids, NEW from, NEW to,
         StatusOf(id) \in from, StatusOf(id)' = to,
         \A x \in Ids : x # id => StatusOf(x)' = StatusOf(x),
         \A x \in Ids : PendingOf(x)' = PendingOf(x),
         UNCHANGED recorded
  PROVE  R!Move(id, from, to) /\ UNCHANGED <<RecorderPending, recorded>>
<1>1. RecorderPending' = RecorderPending
  BY MapAt, MapAtNext
<1>2. RecorderStatus[id] \in from
  BY MapAt
<1>3. RecorderStatus' = [RecorderStatus EXCEPT ![id] = to]
  BY MapAt, MapAtNext
<1> QED  BY <1>1, <1>2, <1>3 DEF R!Move

(* One that changes what is pending for one session id.                    *)
LEMMA Repended ==
  ASSUME NEW id \in Ids, NEW q, PendingOf(id)' = q,
         \A x \in Ids : x # id => PendingOf(x)' = PendingOf(x),
         \A x \in Ids : StatusOf(x)' = StatusOf(x)
  PROVE  /\ RecorderPending' = [RecorderPending EXCEPT ![id] = q]
         /\ UNCHANGED RecorderStatus
<1>1. RecorderStatus' = RecorderStatus
  BY MapAt, MapAtNext
<1>2. RecorderPending' = [RecorderPending EXCEPT ![id] = q]
  BY MapAt, MapAtNext
<1> QED  BY <1>1, <1>2

(* The list of a session that is present changes.                          *)
LEMMA ListChanged ==
  ASSUME RInv, UNCHANGED bookVars, NEW s \in Sessions, NEW q, NEW id \in Ids,
         s \in live, sessionID[s] = id, sessionMap[id] = s,
         bufferList' = [bufferList EXCEPT ![s] = q]
  PROVE  /\ PendingOf(id) = Packets(bufferList[s])
         /\ RecorderPending' = [RecorderPending EXCEPT ![id] = Packets(q)]
         /\ UNCHANGED RecorderStatus
<1>0. /\ TypeOK /\ bufferList \in Lists /\ s # NULL
      /\ sessionMap \in [Ids -> Sessions \cup {NULL}]
  BY MapTypes, BookTypes
<1>1. bufferList'[s] = q /\ \A u \in Sessions : u # s => bufferList'[u] = bufferList[u]
  BY <1>0 DEF Lists
<1>2. \A x \in Ids : StatusOf(x)' = StatusOf(x)
  BY DEF StatusOf, Present, Closing, bookVars
<1>3. /\ PendingOf(id) = Packets(bufferList[s])
      /\ PendingOf(id)' = Packets(q)
  BY <1>0, <1>1 DEF PendingOf, Present, bookVars
<1>4. ASSUME NEW x \in Ids, x # id
      PROVE  PendingOf(x)' = PendingOf(x)
  <2>1. sessionMap[x] # NULL /\ Present(x) => sessionMap[x] \in Sessions /\ sessionMap[x] # s
    BY <1>0, <1>4 DEF Present
  <2>2. UNCHANGED <<sessionMap, live, sessionID>>
    BY DEF bookVars
  <2>3. Present(x)' = Present(x)
    BY <2>2 DEF Present
  <2>4. CASE sessionMap[x] # NULL /\ Present(x)
    <3>1. bufferList'[sessionMap[x]] = bufferList[sessionMap[x]]
      BY <1>1, <2>1, <2>4
    <3> QED  BY <2>2, <2>3, <2>4, <3>1 DEF PendingOf
  <2>5. CASE ~(sessionMap[x] # NULL /\ Present(x))
    BY <2>2, <2>3, <2>5 DEF PendingOf
  <2> QED  BY <2>4, <2>5
<1> QED  BY <1>2, <1>3, <1>4, Repended

-------------------------------------------------------------------------------
(* A push is the acceptance of a packet.                                   *)
LEMMA Accepts ==
  ASSUME RInv, UNCHANGED bookVars, UNCHANGED recorded,
         NEW s \in Sessions, NEW node \in Node, Good(s, node.pkt.to), Latest(node.pkt),
         bufferList' = Pushed(bufferList, s, node)
  PROVE  R!Next
<1> DEFINE p == node.pkt
           id == p.to
<1>0. /\ TypeOK /\ bufferList \in Lists /\ sent <= MaxPackets /\ OwnPackets /\ AppEntry
      /\ sent \in Nat /\ MaxPackets \in Nat
  BY MapTypes, ReceiverAssumption
  DEF RInv, OInv, InOrder, TypeOK, ReceiverTypeOK
<1>1. s \in live /\ sessionID[s] = id /\ sessionMap[id] = s /\ s # NULL
  BY <1>0, BookTypes DEF Good
<1>2. p \in [to : Ids, via : Feeders \cup Media, n : 1..MaxPackets]
  <2>1. p \in Packet /\ p.n \in 1..MaxPackets
    BY <1>0 DEF Latest, LatestIn, Node
  <2> QED  BY <2>1 DEF Packet
<1>3. bufferList' = [bufferList EXCEPT ![s] = Append(bufferList[s], node)]
  BY <1>0 DEF Pushed, Lists
<1>4. Packets(Append(bufferList[s], node)) = Append(Packets(bufferList[s]), p)
  BY <1>0, PacketsAppend DEF Lists
<1>5. /\ id \in Ids /\ PendingOf(id) = Packets(bufferList[s])
      /\ RecorderPending' = [RecorderPending EXCEPT ![id] = Append(Packets(bufferList[s]), p)]
      /\ UNCHANGED RecorderStatus
  <2>1. id \in Ids
    BY <1>0, <1>1, BookTypes
  <2> HIDE DEF id, p
  <2> QED  BY <1>1, <1>3, <1>4, <2>1, ListChanged
<1>6. RecorderPending[id] = Packets(bufferList[s])
  BY <1>5, MapAt
<1>7. RecorderStatus[id] = "open"
  <2>1. ~Closing(id)
    BY <1>1 DEF Closing, Good, Deletes, DelPcs
  <2>2. StatusOf(id) = "open"
    BY <1>1, <2>1 DEF StatusOf, Present
  <2> QED  BY <1>5, <2>2, MapAt
<1>8. R!Newest(id, p)
  <2>1. ASSUME NEW i \in 1..Len(Packets(bufferList[s])), Packets(bufferList[s])[i].via = p.via
        PROVE  Packets(bufferList[s])[i].n < p.n
    <3> DEFINE q == Packets(bufferList[s])[i]
    <3>1. i \in 1..Len(bufferList[s]) /\ q = bufferList[s][i].pkt /\ q \in Packet
      <4>1. bufferList[s] \in Seq(Node)
        BY <1>0 DEF Lists
      <4>2. /\ Packets(bufferList[s]) \in Seq(Packet)
            /\ Len(Packets(bufferList[s])) = Len(bufferList[s])
            /\ \A j \in 1..Len(bufferList[s]) : Packets(bufferList[s])[j] = bufferList[s][j].pkt
        BY <4>1, PacketsType
      <4> QED  BY <4>2, ElementOfSeq
    <3>2. PastIn(bufferList, recorded, q) /\ q.to = id
      BY <1>0, <1>1, <3>1 DEF PastIn, OwnPackets
    <3> QED  BY <2>1, <3>1, <3>2 DEF Latest, LatestIn, SameSource
  <2>2. ASSUME NEW i \in 1..Len(recorded[id]), recorded[id][i].via = p.via
        PROVE  recorded[id][i].n < p.n
    <3> DEFINE q == recorded[id][i]
    <3>1. q \in Packet
      BY <1>5, MapTypes, ElementOfSeq
    <3>2. PastIn(bufferList, recorded, q) /\ q.to = id
      BY <1>0, <1>5 DEF PastIn, OwnPackets
    <3> QED  BY <2>2, <3>1, <3>2 DEF Latest, LatestIn, SameSource
  <2> HIDE DEF p, id
  <2> QED  BY <1>6, <2>1, <2>2 DEF R!Newest
<1>9. R!Accept(id, p)
  <2>1. RecorderPending' = [RecorderPending EXCEPT ![id] = Append(RecorderPending[id], p)]
    BY <1>5, <1>6
  <2> QED  BY <1>5, <1>7, <1>8, <2>1 DEF R!Accept
<1> QED  BY <1>2, <1>5, <1>9 DEF R!Next

LEMMA ReceiversMapped ==
  ASSUME RInv, ReceiversStep
  PROVE  R!Next \/ UNCHANGED R!vars
<1>0. /\ TypeOK /\ CallsServed /\ UNCHANGED bookVars /\ UNCHANGED recorded
  BY MapTypes, BookFrame, ReceiversFrame DEF RInv, OInv, DInv, Served, captureVars
<1>1. ASSUME NEW f \in Feeders, PushCall(f)
      PROVE  R!Next
  <2>1. call[f].pc = "push" /\ call[f].session \in Sessions /\ call[f].node \in Node
    BY <1>0, <1>1 DEF TypeOK, ReceiverTypeOK, PushCall, Idle, Looking, Pushing
  <2>2. Good(call[f].session, call[f].node.pkt.to)
    BY <1>0, <2>1 DEF CallsServed, CallServed
  <2>3. Latest(call[f].node.pkt)
    BY <2>1 DEF RInv, OInv, InOrder, CallInOrder, Carried, Latest
  <2>4. bufferList' = Pushed(bufferList, call[f].session, call[f].node)
    BY <1>1, <2>2 DEF PushCall, Push, PushBack, Pushed, Good
  <2> QED  BY <1>0, <2>1, <2>2, <2>3, <2>4, Accepts
<1>2. CASE PushSocket
  <2>1. t1.pc = "push" /\ t1.session \in Sessions /\ t1.node \in Node
    BY <1>0, <1>2 DEF TypeOK, ReceiverTypeOK, PushSocket, PushDatagram, Idle, Pushing
  <2>2. Good(t1.session, t1.node.pkt.to)
    BY <1>0, <2>1 DEF CallsServed, CallServed
  <2>3. Latest(t1.node.pkt)
    BY <2>1 DEF RInv, OInv, InOrder, T1InOrder
  <2>4. bufferList' = Pushed(bufferList, t1.session, t1.node)
    BY <1>2, <2>2 DEF PushSocket, PushDatagram, Push, PushBack, Pushed, Good
  <2> QED  BY <1>0, <2>1, <2>2, <2>3, <2>4, Accepts
<1>3. CASE UNCHANGED bufferList
  <2>1. \A id \in Ids : StatusOf(id)' = StatusOf(id) /\ PendingOf(id)' = PendingOf(id)
    BY <1>0, <1>3 DEF StatusOf, PendingOf, Present, Closing, bookVars
  <2> QED  BY <1>0, <2>1, Hidden
<1> QED
  BY <1>1, <1>2, <1>3 DEF ReceiversStep, Feed, OnRTPData, FeederStep, Refuse, Fill, Receive,
     Arrive, ReadSocket, OnSocketReadable, vars, sessionVars

(* T2 takes the first packet of a list only from a session that is open:   *)
(* a deletion has the vector's mutex until the session is erased.          *)
LEMMA CaptureMapped ==
  ASSUME RInv, Capture
  PROVE  R!Next \/ UNCHANGED R!vars
<1>0. /\ TypeOK /\ UNCHANGED bookVars /\ Registered /\ AppEntry /\ AppSession /\ ListsOwned
      /\ bufferList \in Lists /\ recorded \in [Ids -> Seq(Packet)]
      /\ IteratorValid /\ VectorLockHeld
  BY MapTypes, BookFrame DEF RInv, OInv, DInv, IInv, LocksHeld
<1>1. CASE Record
  <2> DEFINE s == Current
             id == sessionID[Current]
  <2>1. t2.pc = "drain" /\ s \in Sessions /\ t2.it \in 1..Len(sessionVector) /\ bufferList[s] # <<>>
    BY <1>0, <1>1, CurrentType DEF Record, PopFront
  <2>2. s \in live /\ sessionMap[id] = s /\ s # NULL /\ id \in Ids
    BY <1>0, <2>1, BookTypes DEF ListsOwned, Owned, Registered, AppEntry, AppSession, AddPcs
  <2>3. ~Closing(id)
    <3>1. app.pc # "drain"
      BY <1>0, <2>1, SessionAssumption DEF VectorLockHeld
    <3>2. InVector(s)
      BY <2>1 DEF InVector, Current
    <3> QED  BY <1>0, <2>2, <3>1, <3>2 DEF Closing, AppSession
  <2>4. StatusOf(id) = "open"
    BY <2>2, <2>3 DEF StatusOf, Present
  <2>5. /\ bufferList' = [bufferList EXCEPT ![s] = Tail(bufferList[s])]
        /\ recorded' = [recorded EXCEPT ![id] = Append(@, Head(bufferList[s]).pkt)]
    BY <1>0, <1>1, <2>1 DEF Record, PopFront, Lists
  <2>6. /\ Packets(bufferList[s]) # <<>>
        /\ Head(Packets(bufferList[s])) = Head(bufferList[s]).pkt
        /\ Packets(Tail(bufferList[s])) = Tail(Packets(bufferList[s]))
    BY <1>0, <2>1, PacketsTail DEF Lists
  <2> HIDE DEF s
  <2>7. /\ PendingOf(id) = Packets(bufferList[s])
        /\ RecorderPending' = [RecorderPending EXCEPT ![id] = Packets(Tail(bufferList[s]))]
        /\ UNCHANGED RecorderStatus
    <3>1. sessionID[s] = id
      BY DEF s
    <3> HIDE DEF id
    <3> QED  BY <1>0, <2>1, <2>2, <2>5, <3>1, ListChanged
  <2>8. RecorderPending[id] = Packets(bufferList[s]) /\ RecorderStatus[id] = "open"
    BY <2>2, <2>4, <2>7, MapAt
  <2>9. R!Record(id)
    <3>1. /\ RecorderPending[id] # <<>>
          /\ recorded' = [recorded EXCEPT ![id] = Append(@, Head(RecorderPending[id]))]
          /\ RecorderPending' = [RecorderPending EXCEPT ![id] = Tail(RecorderPending[id])]
      BY <2>5, <2>6, <2>7, <2>8
    <3> QED  BY <2>7, <2>8, <3>1 DEF R!Record
  <2> QED  BY <2>2, <2>9 DEF R!Next
<1>2. CASE UNCHANGED <<bufferList, recorded>>
  <2>1. \A id \in Ids : StatusOf(id)' = StatusOf(id) /\ PendingOf(id)' = PendingOf(id)
    BY <1>0, <1>2 DEF StatusOf, PendingOf, Present, Closing, bookVars
  <2> QED  BY <1>2, <2>1, Hidden
<1> QED
  BY <1>1, <1>2 DEF Capture, T2Step, StartRound, EnterSession, LockBuffer, ReleaseRecorded,
     LeaveSession, EndRound, sessionVars

-------------------------------------------------------------------------------
(* The application's steps.                                                *)

(* A session is opened when the receivers get to know it, or earlier, when *)
(* its address and its id are those of a session that they know still.     *)
LEMMA AddSessionMapped ==
  ASSUME RInv, NEW s \in Sessions, NEW ports \in Ports, AddSession(s, ports)
  PROVE  R!Next \/ UNCHANGED R!vars
<1>0. /\ TypeOK /\ bufferList \in Lists
      /\ sessionMap \in [Ids -> Sessions \cup {NULL}] /\ sessionID \in [Sessions -> Ids]
      /\ s # NULL
  BY MapTypes, BookTypes
<1>1. PICK new \in Ids : new = NextId
  BY <1>0, NextIdType DEF TypeOK
<1>2. /\ s \notin live /\ live' = live \cup {s}
      /\ sessionID' = [sessionID EXCEPT ![s] = new]
      /\ bufferList' = [bufferList EXCEPT ![s] = <<>>]
      /\ app.pc = "idle" /\ app'.pc = "receiverAdd"
      /\ UNCHANGED <<sessionMap, recorded>>
  BY <1>1 DEF AddSession, NewSession, Idle, receiverVars, captureVars
<1>3. /\ \A id : ~Closing(id) /\ ~Closing(id)'
      /\ \A id \in Ids : sessionMap[id] = s => ~Present(id)
      /\ \A id \in Ids : sessionMap[id] = s => (Present(id)' <=> id = new)
      /\ \A id \in Ids : sessionMap[id] # s /\ sessionMap[id] # NULL => Present(id)' = Present(id)
  BY <1>0, <1>2 DEF Closing, Present
<1>4. \A id \in Ids : PendingOf(id)' = PendingOf(id)
  <2> SUFFICES ASSUME NEW id \in Ids PROVE PendingOf(id)' = PendingOf(id)
    OBVIOUS
  <2>1. CASE sessionMap[id] = s
    <3>1. PendingOf(id) = <<>>
      BY <1>3, <2>1 DEF PendingOf
    <3>2. bufferList'[sessionMap'[id]] = <<>>
      BY <1>0, <1>2, <2>1 DEF Lists
    <3>3. PendingOf(id)' = <<>>
      BY <3>2, PacketsEmpty DEF PendingOf
    <3> QED  BY <3>1, <3>3
  <2>2. CASE sessionMap[id] # s /\ sessionMap[id] # NULL
    <3>1. bufferList'[sessionMap[id]] = bufferList[sessionMap[id]]
      BY <1>0, <1>2, <2>2 DEF Lists
    <3> QED  BY <1>2, <1>3, <2>2, <3>1 DEF PendingOf
  <2>3. CASE sessionMap[id] = NULL
    BY <1>2, <2>3 DEF PendingOf
  <2> QED  BY <2>1, <2>2, <2>3
<1>5. \A id \in Ids : ~(sessionMap[id] = s /\ id = new) => StatusOf(id)' = StatusOf(id)
  BY <1>0, <1>2, <1>3 DEF StatusOf
<1>6. CASE sessionMap[new] = s
  <2>1. StatusOf(new) \in {"none", "closed"} /\ StatusOf(new)' = "open"
    BY <1>0, <1>2, <1>3, <1>6 DEF StatusOf
  <2>2. R!Open(new)
    BY <1>2, <1>4, <1>5, <2>1, Moved DEF R!Open
  <2> QED  BY <2>2 DEF R!Next
<1>7. CASE sessionMap[new] # s
  BY <1>2, <1>4, <1>5, <1>7, Hidden
<1> QED  BY <1>6, <1>7

(* The list of the session that is added is empty, and so is that of a     *)
(* session with its id that has never been added.                          *)
LEMMA AddToReceiverMapped ==
  ASSUME RInv, AddToReceiver
  PROVE  R!Next \/ UNCHANGED R!vars
<1>0. /\ TypeOK /\ Registered /\ AppEntry /\ AppSession /\ ListsOwned
      /\ sessionMap \in [Ids -> Sessions \cup {NULL}] /\ sessionID \in [Sessions -> Ids]
      /\ NULL \notin Sessions
  BY MapTypes, BookTypes
<1>1. PICK s \in Sessions : s = app.session
  BY <1>0, BookTypes DEF AddToReceiver, AddPcs
<1>2. PICK new \in Ids : new = sessionID[s]
  BY <1>0
<1>3. /\ s \in live /\ sdkMap[new] = NULL /\ app.pc = "receiverAdd"
      /\ sessionMap' = [sessionMap EXCEPT ![new] = s]
      /\ UNCHANGED <<live, sessionID, bufferList, recorded>>
  BY <1>0, <1>1, <1>2
  DEF AddToReceiver, ReceiverAdd, MapSet, AppEntry, AppSession, AddPcs, sessionVars, captureVars
<1>4. app'.pc = "captureAdd"
  BY <1>0, AppFields DEF AddToReceiver, AddPcs, Adding
<1>5. \A id : ~Closing(id) /\ ~Closing(id)'
  BY <1>3, <1>4 DEF Closing
<1>6. \A u \in Sessions : sessionID[u] = new => bufferList[u] = <<>>
  BY <1>0, <1>3 DEF ListsOwned, Owned
<1>7. \A id \in Ids : id # new => sessionMap'[id] = sessionMap[id]
  BY <1>0, <1>3
<1>8. \A id \in Ids : id # new => StatusOf(id)' = StatusOf(id)
  BY <1>3, <1>5, <1>7 DEF StatusOf, Present
<1>9. \A id \in Ids : PendingOf(id)' = PendingOf(id)
  <2>1. PendingOf(new) = <<>>
    BY <1>0, <1>6, PacketsEmpty DEF PendingOf, Present
  <2>2. PendingOf(new)' = <<>>
    <3>1. sessionMap'[new] = s /\ bufferList'[s] = <<>>
      BY <1>0, <1>2, <1>3, <1>6
    <3> QED  BY <3>1, PacketsEmpty DEF PendingOf
  <2>3. \A id \in Ids : id # new => PendingOf(id)' = PendingOf(id)
    BY <1>3, <1>7 DEF PendingOf, Present
  <2> QED  BY <2>1, <2>2, <2>3
<1>10. StatusOf(new)' = "open"
  BY <1>0, <1>2, <1>3, <1>5 DEF StatusOf, Present
<1>11. StatusOf(new) \in {"none", "closed", "open"}
  BY <1>5 DEF StatusOf
<1>12. CASE StatusOf(new) = "open"
  BY <1>3, <1>8, <1>9, <1>10, <1>12, Hidden
<1>13. CASE StatusOf(new) \in {"none", "closed"}
  <2>1. R!Open(new)
    BY <1>3, <1>8, <1>9, <1>10, <1>13, Moved DEF R!Open
  <2> QED  BY <2>1 DEF R!Next
<1> QED  BY <1>11, <1>12, <1>13

(* The steps of App that the mapping does not show.                        *)
LEMMA AppHidden ==
  ASSUME RInv,
         \/ \E id \in Ids : DelSession(id)
         \/ BindFails \/ AddToCapture \/ DelFind \/ DelErase
  PROVE  UNCHANGED R!vars
<1>0. TypeOK /\ AppEntry /\ Captured /\ NULL \notin Sessions
  BY MapTypes, BookTypes DEF RInv, LInv
<1>1. UNCHANGED <<live, sessionID, sessionMap, bufferList, recorded>>
  BY DEF DelSession, BindFails, ReceiverAddFails, AddToCapture, CaptureAdd, DelFind,
     CaptureDelFind, DelErase, CaptureDelErase, sessionVars, receiverVars, captureVars
<1>2. \A id : Closing(id)' = Closing(id)
  <2>1. CASE (\E id \in Ids : DelSession(id)) \/ BindFails \/ AddToCapture
    <3>1. app.pc \notin {"drain", "free"} /\ app'.pc \notin {"drain", "free"}
      BY <2>1 DEF DelSession, BindFails, AddToCapture, Idle
    <3> QED  BY <3>1 DEF Closing
  <2>2. CASE DelFind
    <3>1. app \in Deleting /\ app.session \in Sessions /\ app.id \in Ids
      BY <1>0, <2>2, AppFields, BookTypes DEF DelFind, DelPcs
    <3>2. InVector(app.session)
      BY <1>0, <2>2, <3>1 DEF DelFind, AppEntry, DelPcs, Captured
    <3>3. app.pc = "captureDel" /\ app'.pc = "lockBuffer"
      BY <2>2, <3>1, <3>2 DEF DelFind, Deleting
    <3> QED  BY <3>3 DEF Closing
  <2>3. CASE DelErase
    <3>1. app \in Deleting
      BY <1>0, <2>3, AppFields DEF DelErase, DelPcs
    <3>2. app.pc = "drain" /\ app'.pc = "free" /\ app'.session = app.session
      BY <2>3, <3>1 DEF DelErase, Deleting
    <3> QED  BY <1>1, <3>2 DEF Closing
  <2> QED  BY <2>1, <2>2, <2>3
<1>3. \A id \in Ids : StatusOf(id)' = StatusOf(id) /\ PendingOf(id)' = PendingOf(id)
  BY <1>1, <1>2 DEF StatusOf, PendingOf, Present
<1> QED  BY <1>1, <1>3, Hidden

(* The deletion of the session with the id del: what the mapping shows of  *)
(* the other ids stays as it is.                                           *)
LEMMA DeletingAt ==
  ASSUME RInv, app.pc \in DelPcs
  PROVE  \E s \in Sessions, del \in Ids :
           /\ app.session = s /\ app.id = del /\ app \in Deleting
           /\ sessionMap[del] = s /\ sessionID[s] = del /\ s \in live
           /\ \A id \in Ids : id # del /\ sessionMap[id] = s => ~Present(id)
           /\ StatusOf(del) = IF app.pc \in {"drain", "free"} THEN "closing" ELSE "open"
           /\ PendingOf(del) = Packets(bufferList[s])
<1>0. /\ TypeOK /\ Registered /\ AppEntry /\ NULL \notin Sessions
  BY MapTypes, BookTypes
<1>1. app \in Deleting /\ app.session \in Sessions /\ app.id \in Ids
  BY <1>0, AppFields, BookTypes
<1>2. PICK s \in Sessions, del \in Ids : s = app.session /\ del = app.id
  BY <1>1
<1>3. sdkMap[del] = s /\ s # NULL
  BY <1>0, <1>2 DEF AppEntry
<1>4. sessionMap[del] = s /\ sessionID[s] = del /\ s \in live
  BY <1>3 DEF Registered, RInv, LInv, DInv, Book
<1>5. \A id \in Ids : id # del /\ sessionMap[id] = s => ~Present(id)
  BY <1>4 DEF Present
<1>6. StatusOf(del) = IF app.pc \in {"drain", "free"} THEN "closing" ELSE "open"
  BY <1>2, <1>3, <1>4 DEF StatusOf, Present, Closing
<1>7. PendingOf(del) = Packets(bufferList[s])
  BY <1>3, <1>4 DEF PendingOf, Present
<1> QED  BY <1>1, <1>2, <1>4, <1>5, <1>6, <1>7

LEMMA DelLockBufferMapped ==
  ASSUME RInv, DelLockBuffer
  PROVE  R!Next
<1>1. app.pc = "lockBuffer" /\ app.pc \in DelPcs
  BY DEF DelLockBuffer, DelPcs
<1>2. PICK s \in Sessions, del \in Ids :
        /\ app.session = s /\ app.id = del /\ app \in Deleting
        /\ sessionMap[del] = s /\ sessionID[s] = del /\ s \in live
        /\ \A id \in Ids : id # del /\ sessionMap[id] = s => ~Present(id)
        /\ StatusOf(del) = "open"
  BY <1>1, DeletingAt
<1>3. /\ UNCHANGED <<live, sessionID, sessionMap, bufferList, recorded>>
      /\ app'.pc = "drain" /\ app'.session = s
  BY <1>2 DEF DelLockBuffer, LockBuffer, Deleting, receiverVars, captureVars
<1>4. \A id \in Ids : PendingOf(id)' = PendingOf(id) /\ Present(id)' = Present(id)
  BY <1>3 DEF PendingOf, Present
<1>5. StatusOf(del)' = "closing"
  BY <1>2, <1>3, MapTypes, BookTypes DEF StatusOf, Present, Closing
<1>6. \A id \in Ids : id # del => StatusOf(id)' = StatusOf(id)
  BY <1>1, <1>2, <1>3, <1>4 DEF StatusOf, Closing
<1>7. R!StartClosing(del)
  BY <1>2, <1>3, <1>4, <1>5, <1>6, Moved DEF R!StartClosing
<1> QED  BY <1>7 DEF R!Next

LEMMA DelDrainMapped ==
  ASSUME RInv, DelDrain
  PROVE  R!Next
<1>0. bufferList \in Lists /\ UNCHANGED bookVars
  BY MapTypes, BookFrame
<1>1. app.pc = "drain" /\ app.pc \in DelPcs
  BY DEF DelDrain, DelPcs
<1>2. PICK s \in Sessions, del \in Ids :
        /\ app.session = s /\ sessionMap[del] = s /\ sessionID[s] = del /\ s \in live
        /\ StatusOf(del) = "closing"
  BY <1>1, DeletingAt
<1>3. /\ bufferList[s] # <<>> /\ UNCHANGED recorded
      /\ bufferList' = [bufferList EXCEPT ![s] = Tail(bufferList[s])]
  BY <1>0, <1>2 DEF DelDrain, CaptureDelDrain, PopFront, captureVars, Lists
<1>4. /\ PendingOf(del) = Packets(bufferList[s])
      /\ RecorderPending' = [RecorderPending EXCEPT ![del] = Packets(Tail(bufferList[s]))]
      /\ UNCHANGED RecorderStatus
  BY <1>0, <1>2, <1>3, ListChanged
<1>5. RecorderPending[del] = Packets(bufferList[s]) /\ RecorderStatus[del] = "closing"
  BY <1>2, <1>4, MapAt
<1>6. /\ RecorderPending[del] # <<>>
      /\ RecorderPending' = [RecorderPending EXCEPT ![del] = Tail(RecorderPending[del])]
  <2>1. Packets(bufferList[s]) # <<>> /\ Packets(Tail(bufferList[s])) = Tail(Packets(bufferList[s]))
    BY <1>0, <1>3, PacketsTail DEF Lists
  <2> QED  BY <1>4, <1>5, <2>1
<1>7. R!Drop(del)
  BY <1>3, <1>4, <1>5, <1>6 DEF R!Drop
<1> QED  BY <1>7 DEF R!Next

(* A session is deleted with an empty list.                                *)
LEMMA DelFreeMapped ==
  ASSUME RInv, DelFree
  PROVE  R!Next
<1>0. bufferList \in Lists /\ Emptied /\ NULL \notin Sessions
  BY MapTypes, BookTypes DEF RInv, LInv
<1>1. app.pc = "free" /\ app.pc \in DelPcs
  BY DEF DelFree, DelPcs
<1>2. PICK s \in Sessions, del \in Ids :
        /\ app.session = s /\ sessionMap[del] = s /\ sessionID[s] = del /\ s \in live
        /\ \A id \in Ids : id # del /\ sessionMap[id] = s => ~Present(id)
        /\ StatusOf(del) = "closing" /\ PendingOf(del) = Packets(bufferList[s])
  BY <1>1, DeletingAt
<1>3. /\ live' = live \ {s} /\ bufferList[s] = <<>>
      /\ bufferList' = [bufferList EXCEPT ![s] = <<>>]
      /\ UNCHANGED <<sessionID, sessionMap, recorded>> /\ app'.pc = "idle"
  BY <1>0, <1>1, <1>2 DEF DelFree, DeleteSession, Idle, Emptied, receiverVars, captureVars
<1>4. bufferList' = bufferList
  BY <1>0, <1>3 DEF Lists
<1>5. /\ ~Present(del)'
      /\ \A id \in Ids : id # del => Present(id)' = Present(id)
  BY <1>2, <1>3 DEF Present
<1>6. StatusOf(del)' = "closed" /\ PendingOf(del) = <<>> /\ PendingOf(del)' = <<>>
  BY <1>0, <1>2, <1>3, <1>5, PacketsEmpty DEF StatusOf, PendingOf
<1>7. \A id \in Ids : PendingOf(id)' = PendingOf(id)
  BY <1>3, <1>4, <1>5, <1>6 DEF PendingOf
<1>8. \A id \in Ids : id # del => StatusOf(id)' = StatusOf(id)
  BY <1>1, <1>2, <1>3, <1>5 DEF StatusOf, Closing
<1>9. R!Close(del)
  <2>1. RecorderPending[del] = <<>>
    BY <1>6, MapAt
  <2> QED  BY <1>2, <1>3, <1>6, <1>7, <1>8, <2>1, Moved DEF R!Close
<1> QED  BY <1>9 DEF R!Next

-------------------------------------------------------------------------------
LEMMA InitMapped == Init => R!Init
<1> SUFFICES ASSUME Init PROVE R!Init
  OBVIOUS
<1>1. /\ \A id \in Ids : sessionMap[id] = NULL
      /\ recorded = [id \in Ids |-> <<>>]
  BY DEF Init, ReceiverInit, CaptureInit
<1>2. \A id \in Ids : StatusOf(id) = "none" /\ PendingOf(id) = <<>>
  BY <1>1 DEF StatusOf, PendingOf
<1> QED  BY <1>1, <1>2, MapAt DEF R!Init

LEMMA NextMapped == RInv /\ [Next]_vars => [R!Next]_(R!vars)
<1> SUFFICES ASSUME RInv, [Next]_vars PROVE R!Next \/ UNCHANGED R!vars
  OBVIOUS
<1> QED
  BY ReceiversMapped, CaptureMapped, AddSessionMapped, AddToReceiverMapped, AppHidden,
     DelLockBufferMapped, DelDrainMapped, DelFreeMapped
  DEF Next, AddSteps, DelSteps, ReceiversStep

(* The SDK implements Recorder for a disciplined program: the files of a   *)
(* session id get what its sessions accepted, once each, in order and      *)
(* without a gap up to the deletion, through any number of sessions.       *)
THEOREM Refinement == Disciplined => (Spec => ImplementsRecorder)
<1> SUFFICES ASSUME Disciplined PROVE Spec => ImplementsRecorder
  OBVIOUS
<1>1. RInv /\ [Next]_vars => RInv'
  BY NextLInv, NextOInv DEF RInv
<1>2. Init => RInv
  BY InitLInv, InitOInv DEF RInv
<1> QED  BY <1>1, <1>2, InitMapped, NextMapped, PTL DEF Spec, ImplementsRecorder, R!Spec

(* A file gets the packets of its own session id only, also when ids and   *)
(* addresses are used again.                                               *)
THEOREM FilesOwn == Disciplined => (Spec => []RecordedIsOwn)
<1> SUFFICES ASSUME Disciplined PROVE Spec => []RecordedIsOwn
  OBVIOUS
<1>1. OInv => RecordedIsOwn
  BY DEF OInv, OwnPackets, RecordedIsOwn
<1> QED  BY OInvariance, <1>1, PTL
===============================================================================
