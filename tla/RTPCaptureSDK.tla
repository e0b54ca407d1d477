---------------------------- MODULE RTPCaptureSDK -----------------------------
(***************************************************************************)
(* RTPCaptureSDK: ReceiverCenter and CaptureCenter composed, with the      *)
(* application around them.                                                *)
(*                                                                         *)
(* One application thread, App, adds and deletes sessions (m_sessionMap    *)
(* has no mutex, so a program must not do that from two threads); the      *)
(* feeders call onRTPData; T1 and T2 are the SDK's own threads.            *)
(*                                                                         *)
(* delCaptureRtpSession tells the CaptureCenter and deletes the session,   *)
(* and says nothing to the ReceiverCenter, whose map and RTPHandler keep   *)
(* the pointer.  What that means depends on the program around the SDK:    *)
(* with Disciplined = TRUE it uses no session id after its deletion,       *)
(* deletes a session only when no packet is on its way into it, nothing is *)
(* sent to the ports of a deleted session, and no session lives so long    *)
(* that the counter comes round to its id; with FALSE nothing of that is   *)
(* promised.                                                               *)
(***************************************************************************)
EXTENDS ReceiverCenter, CaptureCenter

CONSTANTS
  Disciplined,  (* Does the program around the SDK keep to the rules above?   *)
  Ports,        (* Is a session added with ports?  A subset of BOOLEAN.       *)
  MaxAdds       (* Bound: calls of addCaptureRtpSession.                      *)

ASSUME SDKAssumption ==
  /\ Disciplined \in BOOLEAN
  /\ Ports \subseteq BOOLEAN
  /\ MaxAdds \in Nat

VARIABLES
  sdkMap,  (* RTPCaptureSDK::m_sessionMap.                                    *)
  app,     (* The call that App is in, and the session it works on.           *)
  adds     (* How many sessions have been constructed.                        *)

sdkVars == <<sdkMap, app, adds>>
vars == <<poolVars, sessionVars, receiverVars, captureVars, sdkVars>>

AddPcs == {"receiverAdd", "captureAdd"}
DelPcs == {"captureDel", "lockBuffer", "drain", "free"}
Adding == [pc : AddPcs, session : Sessions, ports : BOOLEAN]
Deleting == [pc : DelPcs, session : Sessions, id : Ids]

TypeOK ==
  /\ PoolTypeOK
  /\ SessionTypeOK
  /\ ReceiverTypeOK
  /\ CaptureTypeOK
  /\ sdkMap \in [Ids -> Sessions \cup {NULL}]
  /\ app \in {Idle} \cup Adding \cup Deleting
  /\ adds \in Nat

Init ==
  /\ PoolInit
  /\ SessionInit
  /\ ReceiverInit
  /\ CaptureInit
  /\ sdkMap = [id \in Ids |-> NULL]
  /\ app = Idle
  /\ adds = 0

-------------------------------------------------------------------------------
(* addCaptureRtpSession.                                                   *)

AddSession(s, ports) ==
  /\ app = Idle
  /\ adds < MaxAdds
  /\ Disciplined => sdkMap[NextId] = NULL
  /\ adds' = adds + 1
  /\ NewSession(s)
  /\ app' = [pc |-> "receiverAdd", session |-> s, ports |-> ports]
  /\ UNCHANGED <<sdkMap, poolVars, receiverVars, captureVars>>

AddToReceiver ==
  /\ app.pc = "receiverAdd"
  /\ ReceiverAdd(app.session, app.ports)
  /\ app' = [app EXCEPT !.pc = "captureAdd"]
  /\ UNCHANGED <<sdkMap, adds, poolVars, sessionVars, captureVars>>

(* A port cannot be bound: the exception goes through the SDK to the       *)
(* caller, and the session stays on the heap, known to nobody.             *)
BindFails ==
  /\ app.pc = "receiverAdd"
  /\ app.ports
  /\ ReceiverAddFails
  /\ app' = Idle
  /\ UNCHANGED <<sdkMap, adds, poolVars, sessionVars, captureVars>>

AddToCapture ==
  /\ app.pc = "captureAdd"
  /\ CaptureAdd(app.session)
  /\ sdkMap' = [sdkMap EXCEPT ![sessionID[app.session]] = app.session]
  /\ app' = Idle
  /\ UNCHANGED <<adds, poolVars, sessionVars, receiverVars>>

-------------------------------------------------------------------------------
(* What a disciplined program does with a session id: it hands packets in  *)
(* only from the return of addCaptureRtpSession to the call of             *)
(* delCaptureRtpSession, and calls that one when the session is quiet.     *)

Deletes(s) == app.pc \in DelPcs /\ app.session = s
InUse(id) == sdkMap[id] # NULL /\ ~Deletes(sdkMap[id])

IsFor(id, thread) == \/ thread.pc = "lookup" /\ thread.pkt.to = id
                     \/ thread.pc = "push" /\ thread.node.pkt.to = id

Quiet(id) ==
  /\ \A f \in Feeders : ~IsFor(id, call[f])
  /\ ~IsFor(id, t1)
  /\ \A h \in 1..Len(handlers) :
       handlers[h].id = id => \A m \in Media : handlers[h].queue[m] = <<>>

Feed(f, id, len) ==
  /\ Disciplined => InUse(id)
  /\ OnRTPData(f, id, len)
  /\ UNCHANGED <<captureVars, sdkVars>>

(* The session that handler h was made for is added, or all but added, and *)
(* not deleted: a later session with its id and its address gets a handler *)
(* of its own, or is never added at all when its ports cannot be bound.    *)
Serves(h) ==
  LET handler == handlers[h]
      s == handler.session
  IN  /\ sessionID[s] = handler.id
      /\ \/ sdkMap[handler.id] = s /\ ~Deletes(s)
         \/ app.pc = "captureAdd" /\ app.session = s
      /\ \A g \in (h + 1)..Len(handlers) : handlers[g].id # handler.id

(* A datagram may arrive as soon as the sockets are bound.                 *)
Receive(h, m, len) ==
  /\ Disciplined => Serves(h)
  /\ Arrive(h, m, len)
  /\ UNCHANGED <<captureVars, sdkVars>>

-------------------------------------------------------------------------------
(* delCaptureRtpSession.  An id that the map does not have is only logged. *)

DelSession(id) ==
  /\ app = Idle
  /\ sdkMap[id] # NULL
  /\ Disciplined => Quiet(id)
  /\ app' = [pc |-> "captureDel", session |-> sdkMap[id], id |-> id]
  /\ UNCHANGED <<sdkMap, adds, poolVars, sessionVars, receiverVars, captureVars>>

DelFind ==
  /\ app.pc = "captureDel"
  /\ CaptureDelFind(app.session)
  /\ app' = [app EXCEPT !.pc = IF InVector(app.session) THEN "lockBuffer" ELSE "free"]
  /\ UNCHANGED <<sdkMap, adds, poolVars, sessionVars, receiverVars>>

DelLockBuffer ==
  /\ app.pc = "lockBuffer"
  /\ LockBuffer(app.session, App)
  /\ app' = [app EXCEPT !.pc = "drain"]
  /\ UNCHANGED <<sdkMap, adds, poolVars, receiverVars, captureVars>>

DelDrain ==
  /\ app.pc = "drain"
  /\ CaptureDelDrain(app.session)
  /\ UNCHANGED <<sdkVars, receiverVars>>

DelErase ==
  /\ app.pc = "drain"
  /\ CaptureDelErase(app.session)
  /\ app' = [app EXCEPT !.pc = "free"]
  /\ UNCHANGED <<sdkMap, adds, receiverVars>>

DelFree ==
  /\ app.pc = "free"
  /\ DeleteSession(app.session)
  /\ sdkMap' = [sdkMap EXCEPT ![app.id] = NULL]
  /\ app' = Idle
  /\ UNCHANGED <<adds, poolVars, receiverVars, captureVars>>

-------------------------------------------------------------------------------
AddSteps == AddToReceiver \/ BindFails \/ AddToCapture
DelSteps == DelFind \/ DelLockBuffer \/ DelDrain \/ DelErase \/ DelFree

FeederStep(f) ==
  /\ \/ Refuse(f)
     \/ \E b \in Available : Fill(f, b)
     \/ PushCall(f)
  /\ UNCHANGED <<captureVars, sdkVars>>

ReadSocket(h, m) ==
  /\ \E b \in Available : OnSocketReadable(h, m, b)
  /\ UNCHANGED <<captureVars, sdkVars>>

PushSocket == PushDatagram /\ UNCHANGED <<captureVars, sdkVars>>

Capture == T2Step /\ UNCHANGED <<receiverVars, sdkVars>>

Next ==
  \/ \E s \in Sessions, ports \in Ports : AddSession(s, ports)
  \/ \E id \in Ids : DelSession(id)
  \/ AddSteps
  \/ DelSteps
  \/ \E f \in Feeders, id \in Ids, len \in CallLens : Feed(f, id, len)
  \/ \E f \in Feeders : FeederStep(f)
  \/ \E h \in 1..Len(handlers), m \in Media, len \in DatagramLens : Receive(h, m, len)
  \/ \E h \in 1..Len(handlers), m \in Media : ReadSocket(h, m)
  \/ PushSocket
  \/ Capture

Spec == Init /\ [][Next]_vars

(* Nothing makes the program call or the network send.  A call that has    *)
(* begun goes on, T1 serves every readable socket in each round of the     *)
(* reactor, and T2 runs for ever.  Strong fairness of the steps that lock: *)
(* a mutex that is free again and again is obtained, which the 100         *)
(* microseconds that T2 sleeps without its mutexes after every round that  *)
(* found nothing, and the end of the bounded traffic, justify.             *)
Fairness ==
  /\ SF_vars(AddSteps \/ DelSteps)
  /\ \A f \in Feeders : SF_vars(FeederStep(f))
  /\ \A h \in 1..MaxAdds, m \in Media : WF_vars(h <= Len(handlers) /\ ReadSocket(h, m))
  /\ SF_vars(PushSocket)
  /\ SF_vars(Capture)

FairSpec == Spec /\ Fairness

-------------------------------------------------------------------------------
(* Where the blocks and the packets are.                                   *)

(* The threads with a block in hand, and the block.                        *)
Holding == {f \in Feeders : call[f].pc = "push"}
           \cup {t \in {T1} : t1.pc = "push"}
           \cup {t \in {T2} : t2.pc = "release"}
InHand(t) == IF t = T1 THEN t1.node.buffer
             ELSE IF t = T2 THEN t2.buffer
             ELSE call[t].node.buffer

(* The positions of all bufferLists.                                       *)
Slots == UNION {{s} \X (1..Len(bufferList[s])) : s \in Sessions}
InSlot(x) == bufferList[x[1]][x[2]].buffer

HandBlocks == {InHand(t) : t \in Holding}
ListBlocks == {InSlot(x) : x \in Slots}

(* Packet n is in a socket, in a call or callback, or in a bufferList.     *)
OnItsWay(n) ==
  \/ \E h \in 1..Len(handlers), m \in Media, i \in 1..MaxPackets :
       /\ i <= Len(handlers[h].queue[m])
       /\ handlers[h].queue[m][i].pkt.n = n
  \/ t1.pc = "push" /\ t1.node.pkt.n = n
  \/ \E f \in Feeders : \/ call[f].pc = "lookup" /\ call[f].pkt.n = n
                        \/ call[f].pc = "push" /\ call[f].node.pkt.n = n
  \/ \E x \in Slots : bufferList[x[1]][x[2]].pkt.n = n

(* What a dangling pointer does to packets: one is queued in a session     *)
(* that it was not meant for, or is lost with its block.                   *)
Astray ==
  \/ \E b \in 1..allocated : b \notin blocks \cup HandBlocks \cup ListBlocks
  \/ \E x \in Slots : sessionID[x[1]] # bufferList[x[1]][x[2]].pkt.to

-------------------------------------------------------------------------------
MapLockHeld ==
  /\ sessionMapMutex \in Feeders \cup {NoOne}
  /\ \A f \in Feeders : sessionMapMutex = f <=> call[f].pc = "push"

VectorLockHeld ==
  /\ sessionVectorMutex = T2 <=> t2.pc # "idle"
  /\ sessionVectorMutex = App <=> app.pc \in {"lockBuffer", "drain"}

BufferLockHeld ==
  \A s \in Sessions :
    /\ bufferMutex[s] \in {App, T2, NoOne}
    /\ bufferMutex[s] = App <=> app.pc = "drain" /\ app.session = s
    /\ bufferMutex[s] = T2 <=> t2.pc \in {"drain", "release"} /\ Current = s

(* Every mutex is held by exactly the thread that is inside its critical   *)
(* section: no early return, exception or erased session leaves one        *)
(* locked, and no two threads are in one section.                          *)
LocksHeld == MapLockHeld /\ VectorLockHeld /\ BufferLockHeld

(* CaptureCenter never works on a deleted session or through a deleted     *)
(* RTPDump, whatever the program around the SDK does: what the vector      *)
(* names is live, once only, with its RTPDump.                             *)
CaptureSideSafe ==
  /\ \A i \in 1..Len(sessionVector) : /\ sessionVector[i] \in live
                                      /\ sessionVector[i] \in rtpDump
  /\ \A i, j \in 1..Len(sessionVector) : sessionVector[i] = sessionVector[j] => i = j

(* A block is in one place: no block is given out twice, queued twice or   *)
(* released while somebody still has it, in whatever order the receivers,  *)
(* the capture thread and a deletion get at the list and the pool.         *)
BlockExclusive ==
  /\ \A t, u \in Holding : InHand(t) = InHand(u) => t = u
  /\ \A x, y \in Slots : InSlot(x) = InSlot(y) => x = y
  /\ HandBlocks \cap ListBlocks = {}
  /\ blocks \cap (HandBlocks \cup ListBlocks) = {}
  /\ blocks \cup HandBlocks \cup ListBlocks \subseteq 1..allocated

(* No block is ever lost to the pool: each is free, queued or in a         *)
(* thread's hand.  (Promised to a disciplined program only.)               *)
NoBlockLost == blocks \cup HandBlocks \cup ListBlocks = 1..allocated

(* A receiver about to append holds a pointer to a live session, the one   *)
(* its packet was meant for: the session is not deleted between the lookup *)
(* in the map, or the readable event, and the push.  (Promised to a        *)
(* disciplined program only.)                                              *)
NoDanglingPush ==
  \A p \in {call[f] : f \in Feeders} \cup {t1} :
    p.pc = "push" => /\ p.session \in live
                     /\ sessionID[p.session] = p.node.pkt.to

(* RTPDump never gets more than the block holds, nor a negative length:    *)
(* the int len of onRTPData and the datagram's size are bounded before     *)
(* they are copied.                                                        *)
NodeFits ==
  \A x \in Slots : bufferList[x[1]][x[2]].len \in 0..BlockSize

(* A file gets the packets of its own session only: what was sent for one  *)
(* session id is never recorded for another.                               *)
RecordedIsOwn ==
  \A id \in Ids : \A i \in 1..Len(recorded[id]) : recorded[id][i].to = id

(* Every session that is captured can be deleted: the id that              *)
(* addCaptureRtpSession returned leads back to it, also when the counter   *)
(* wraps.  (Promised to a disciplined program only.)                       *)
Deletable ==
  \A i \in 1..Len(sessionVector) : sdkMap[sessionID[sessionVector[i]]] = sessionVector[i]

(* Every call that the application makes returns: the lock order never     *)
(* closes a circle, and a deletion comes to its end while packets arrive.  *)
CallsReturn ==
  /\ app # Idle ~> app = Idle
  /\ \A f \in Feeders : call[f] # Idle ~> call[f] = Idle

(* Every packet that is handed in or has reached a socket is recorded, or  *)
(* dropped with its session, in the end: none waits for ever, unless a     *)
(* packet went through a dangling pointer, which NoBlockLost and           *)
(* NoDanglingPush exclude for a disciplined program.                       *)
PacketsSettle == \A n \in 1..MaxPackets : OnItsWay(n) ~> ~OnItsWay(n) \/ Astray

-------------------------------------------------------------------------------
(* The refinement mapping to Recorder.  A session id is open from the      *)
(* moment the receivers know the session to the moment its deletion has    *)
(* its bufferMutex, and closed when the object is gone; its pending        *)
(* packets are those of the bufferList.                                    *)
Present(id) == /\ sessionMap[id] \in live
               /\ sessionID[sessionMap[id]] = id
Closing(id) == app.pc \in {"drain", "free"} /\ app.session = sessionMap[id]

RecorderStatus ==
  [id \in Ids |-> IF sessionMap[id] = NULL THEN "none"
                  ELSE IF ~Present(id) THEN "closed"
                  ELSE IF Closing(id) THEN "closing"
                  ELSE "open"]

RecorderPending ==
  [id \in Ids |-> IF sessionMap[id] # NULL /\ Present(id)
                  THEN LET list == bufferList[sessionMap[id]]
                       IN  [i \in 1..Len(list) |-> list[i].pkt]
                  ELSE <<>>]

R == INSTANCE Recorder WITH
       status <- RecorderStatus, pending <- RecorderPending,
       Packet <- [to : Ids, via : Feeders \cup Media, n : 1..MaxPackets]

(* The SDK implements Recorder for a disciplined program: whatever order   *)
(* T1, T2, the feeders and a deletion run in, a file gets a gap-free       *)
(* prefix of what its session accepted, each packet once, in order.        *)
ImplementsRecorder == R!Spec
===============================================================================
