---------------------------- MODULE ReceiverCenter ----------------------------
(***************************************************************************)
(* ReceiverCenter and its RTPHandlers: the producers of packets.           *)
(*                                                                         *)
(* An application thread f \in Feeders hands a packet in with onRTPData,   *)
(* which finds the session by its id under m_sessionMapMutex, copies the   *)
(* packet into a block of the pool and appends it to the session's         *)
(* bufferList under bufferMutex, still holding the map's mutex.            *)
(*                                                                         *)
(* A session that was added with two ports has an RTPHandler, with one     *)
(* socket per medium.  The reactor thread T1 calls it when a socket is     *)
(* readable: it reads one datagram into a block and appends that to the    *)
(* session it was constructed for, without any look at the map.            *)
(***************************************************************************)
EXTENDS MemoryPool, RTPSession

CONSTANTS
  BlockSize,     (* Size of a pool block (1500).                              *)
  SizeModulus,   (* 2^w for the w bits of size_t.                             *)
  CallLens,      (* Values of onRTPData's int parameter len.                  *)
  DatagramLens,  (* Sizes of the datagrams that reach the sockets.            *)
  MaxPackets     (* Bound: packets handed in or received, all together.       *)

ASSUME ReceiverAssumption ==
  /\ BlockSize \in Nat \ {0}
  /\ SizeModulus \in Nat /\ SizeModulus > BlockSize
  /\ CallLens \subseteq {l \in Int : -(SizeModulus - BlockSize) < l /\ l < SizeModulus}
  /\ DatagramLens \subseteq Nat
  /\ MaxPackets \in Nat

VARIABLES
  sessionMap,       (* ReceiverCenter::m_sessionMap.                          *)
  sessionMapMutex,  (* Owner of m_sessionMapMutex.                            *)
  handlers,         (* The RTPHandlers, in the order of their creation, each  *)
                    (* with m_session and what its sockets have received.     *)
  t1,               (* The callback that T1 runs.                             *)
  call,             (* The onRTPData call that each feeder is in.             *)
  sent              (* How many packets there have been.                      *)

receiverVars == <<sessionMap, sessionMapMutex, handlers, t1, call, sent>>

Datagram == [len : Nat, pkt : Packet]
Handler == [session : Sessions, id : Ids, queue : [Media -> Seq(Datagram)]]

(* A thread between two calls, and one that waits for bufferMutex with the *)
(* session it found and the node it filled.                                *)
Idle == [pc |-> "idle"]
Looking == [pc : {"lookup"}, len : Int, pkt : Packet]
Pushing == [pc : {"push"}, session : Sessions, node : Node]

ReceiverTypeOK ==
  /\ sessionMap \in [Ids -> Sessions \cup {NULL}]
  /\ sessionMapMutex \in Threads \cup {NoOne}
  /\ handlers \in Seq(Handler)
  /\ t1 \in {Idle} \cup Pushing
  /\ call \in [Feeders -> {Idle} \cup Looking \cup Pushing]
  /\ sent \in Nat

ReceiverInit ==
  /\ sessionMap = [id \in Ids |-> NULL]
  /\ sessionMapMutex = NoOne
  /\ handlers = <<>>
  /\ t1 = Idle
  /\ call = [f \in Feeders |-> Idle]
  /\ sent = 0

-------------------------------------------------------------------------------
(* ReceiverCenter::onRTPData, by feeder f.                                 *)

OnRTPData(f, id, len) ==
  /\ call[f] = Idle
  /\ sent < MaxPackets
  /\ sent' = sent + 1
  /\ call' = [call EXCEPT ![f] =
                [pc |-> "lookup", len |-> len,
                 pkt |-> [to |-> id, via |-> f, n |-> sent + 1]]]
  /\ UNCHANGED <<sessionMap, sessionMapMutex, handlers, t1, poolVars, sessionVars>>

(* Mutant: blockSize() is converted to int, the comparison is signed.      *)
OverflowsSigned(len) == len > BlockSize

(* `len > m_memoryPool.blockSize()' compares an int with a size_t: a       *)
(* negative len is first converted to a large size_t.                      *)
Overflows(len) == len % SizeModulus > BlockSize

(* The ways out of onRTPData without a packet queued: an unknown id or too *)
(* large a packet, which are logged, and an exhausted pool, whose          *)
(* exception leaves through the ScopedLock.                                *)
Refused(f) ==
  \/ sessionMap[call[f].pkt.to] = NULL
  \/ Overflows(call[f].len)
  \/ Exhausted

(* Mutants: get() comes before the length check; the map stays locked.     *)
LeaveAfterGet(f) ==
  /\ IF sessionMap[call[f].pkt.to] # NULL /\ ~Exhausted
     THEN \E b \in Available : Get(b)
     ELSE UNCHANGED poolVars
  /\ UNCHANGED sessionMapMutex
LeaveLocked(f) == sessionMapMutex' = f /\ UNCHANGED poolVars

(* The early returns unlock the map, and no block was taken.               *)
LeaveEarly(f) == UNCHANGED <<sessionMapMutex, poolVars>>

Refuse(f) ==
  /\ call[f].pc = "lookup"
  /\ sessionMapMutex = NoOne
  /\ Refused(f)
  /\ LeaveEarly(f)
  /\ call' = [call EXCEPT ![f] = Idle]
  /\ UNCHANGED <<sessionMap, handlers, t1, sent, sessionVars>>

(* Mutant: the map's mutex covers the lookup only.                         *)
UnlockMap(f) == UNCHANGED sessionMapMutex
KeepMapLocked(f) == sessionMapMutex' = f

(* The session is found and the packet copied into block b; the map's      *)
(* mutex stays locked until the node is in the list.                       *)
Fill(f, b) ==
  /\ call[f].pc = "lookup"
  /\ sessionMapMutex = NoOne
  /\ ~Refused(f)
  /\ Get(b)
  /\ KeepMapLocked(f)
  /\ call' = [call EXCEPT ![f] =
                [pc |-> "push", session |-> sessionMap[call[f].pkt.to],
                 node |-> [buffer |-> b, len |-> call[f].len, pkt |-> call[f].pkt]]]
  /\ UNCHANGED <<sessionMap, handlers, t1, sent, sessionVars>>

PushCall(f) ==
  /\ call[f].pc = "push"
  /\ Push(call[f].session, call[f].node)
  /\ sessionMapMutex' = NoOne
  /\ call' = [call EXCEPT ![f] = Idle]
  /\ UNCHANGED <<sessionMap, handlers, t1, sent, poolVars>>

-------------------------------------------------------------------------------
(* Mutant: m_sessionMap.insert(), which keeps an entry that is there.      *)
MapInsert(id, s) == sessionMap' = [sessionMap EXCEPT ![id] = IF @ = NULL THEN s ELSE @]
MapSet(id, s) == sessionMap' = [sessionMap EXCEPT ![id] = s]

(* ReceiverCenter::addCaptureRtpSession, by the application thread.  With  *)
(* ports it binds two sockets and registers a new RTPHandler.              *)
ReceiverAdd(s, ports) ==
  /\ sessionMapMutex = NoOne
  /\ handlers' = IF ports
                 THEN Append(handlers, [session |-> s, id |-> sessionID[s],
                                        queue |-> [m \in Media |-> <<>>]])
                 ELSE handlers
  /\ MapSet(sessionID[s], s)
  /\ UNCHANGED <<sessionMapMutex, t1, call, sent>>

(* bind() throws: nothing is registered and the map is left as it was.     *)
ReceiverAddFails == sessionMapMutex = NoOne /\ UNCHANGED receiverVars

-------------------------------------------------------------------------------
(* The sockets and the reactor thread.                                     *)

Arrive(h, m, len) ==
  /\ sent < MaxPackets
  /\ sent' = sent + 1
  /\ handlers' = [handlers EXCEPT ![h].queue[m] =
                    Append(@, [len |-> len,
                               pkt |-> [to |-> handlers[h].id, via |-> m, n |-> sent + 1]])]
  /\ UNCHANGED <<sessionMap, sessionMapMutex, t1, call, poolVars, sessionVars>>

(* available(), the size of the first datagram, is not 0.                  *)
Readable(h, m) ==
  /\ handlers[h].queue[m] # <<>>
  /\ Head(handlers[h].queue[m]).len > 0

(* onAudioSocketReadable and onVideoSocketReadable up to the lock of       *)
(* bufferMutex.  receiveBytes truncates to the block.  When the pool is    *)
(* exhausted the reactor swallows the exception of get(): the datagram     *)
(* stays in the socket and the callback comes again.                       *)
OnSocketReadable(h, m, b) ==
  /\ t1 = Idle
  /\ Readable(h, m)
  /\ Get(b)
  /\ LET d == Head(handlers[h].queue[m])
         n == IF d.len < BlockSize THEN d.len ELSE BlockSize
     IN  t1' = [pc |-> "push", session |-> handlers[h].session,
                node |-> [buffer |-> b, len |-> n, pkt |-> d.pkt]]
  /\ handlers' = [handlers EXCEPT ![h].queue[m] = Tail(@)]
  /\ UNCHANGED <<sessionMap, sessionMapMutex, call, sent, sessionVars>>

PushDatagram ==
  /\ t1.pc = "push"
  /\ Push(t1.session, t1.node)
  /\ t1' = Idle
  /\ UNCHANGED <<sessionMap, sessionMapMutex, handlers, call, sent, poolVars>>
===============================================================================
