---------------------------- MODULE SessionReceiver ----------------------------
(***************************************************************************)
(* ReceiverCenter with the reactor below it: RTPHandler's constructor and  *)
(* destructor register and remove its two sockets, its callbacks run on T1 *)
(* and onRTPData on a feeder.  addCaptureRtpSession and                    *)
(* delCaptureRtpSession of ReceiverCenter are both here; the SDK calls the *)
(* second one nowhere, and what it would get from it is what this module   *)
(* is about: after it has returned, the session can be deleted.            *)
(*                                                                         *)
(* The pool, the bufferMutex (which T2 keeps for the time of one list) and *)
(* the contents of packets are in RTPCaptureSDK and left out here.         *)
(***************************************************************************)
EXTENDS SocketReactor

CONSTANTS
  Sessions,   (* Addresses of RTPSession objects.                             *)
  Feeders,    (* Threads that call onRTPData.                                 *)
  MaxPending  (* Datagrams that a socket's receive buffer holds.               *)

ASSUME ReceiverAssumption ==
  /\ Sockets = Sessions \X {"audio", "video"}
  /\ <<>> \notin Sessions
  /\ MaxPending \in Nat
  /\ Feeders \cap {App, T1, NoOne} = {}

VARIABLES
  live,             (* Sessions that are constructed and not deleted.         *)
  sessionMap,       (* Sessions that m_sessionMap leads to.                   *)
  sessionMapMutex,  (* Owner of m_sessionMapMutex.                            *)
  app,              (* App's call, its session and the socket it has come to. *)
  call              (* The session that each feeder appends to.               *)

vars == <<reactorVars, live, sessionMap, sessionMapMutex, app, call>>

Idle == [pc |-> "idle"]
Nobody == <<>>

AddPcs == {"addLock", "insert", "observe", "event", "map"}
DelPcs == {"delLock", "erase", "center", "disable", "unevent", "close", "free"}

TypeOK ==
  /\ ReactorTypeOK
  /\ live \subseteq Sessions /\ sessionMap \subseteq Sessions
  /\ sessionMapMutex \in Feeders \cup {App, NoOne}
  /\ app \in {Idle} \cup [pc : AddPcs \cup DelPcs, session : Sessions, m : {"audio", "video"}]
  /\ call \in [Feeders -> Sessions \cup {Nobody}]

Init ==
  /\ ReactorInit
  /\ live = {} /\ sessionMap = {}
  /\ sessionMapMutex = NoOne
  /\ app = Idle
  /\ call = [f \in Feeders |-> Nobody]

Socket == <<app.session, app.m>>
SocketsOf(s) == {<<s, m>> : m \in {"audio", "video"}}

At(pc) == app.pc = pc
Go(pc) == app' = [app EXCEPT !.pc = pc]

(* The next socket of the handler, or the end of its constructor or        *)
(* destructor.                                                             *)
NextSocket(first, end) ==
  app' = IF app.m = "audio" THEN [app EXCEPT !.pc = first, !.m = "video"]
         ELSE [app EXCEPT !.pc = end, !.m = "audio"]

-------------------------------------------------------------------------------
(* addCaptureRtpSession with ports: sockets bound, then RTPHandler.        *)

Add(s) ==
  /\ app = Idle
  /\ s \notin live
  /\ \A k \in SocketsOf(s) : ~Referenced(k)
  /\ live' = live \cup {s}
  /\ app' = [pc |-> "addLock", session |-> s, m |-> "audio"]
  /\ UNCHANGED <<reactorVars, sessionMap, sessionMapMutex, call>>

AddLock ==
  /\ At("addLock") /\ Go("insert")
  /\ sessionMapMutex = NoOne
  /\ sessionMapMutex' = App
  /\ open' = open \cup SocketsOf(app.session)
  /\ UNCHANGED <<mapVars, lockVars, pending, t1, live, sessionMap, call>>

Register ==
  /\ \/ At("insert") /\ Go("observe") /\ InsertNotifier(Socket)
     \/ At("observe") /\ Go("event") /\ AddObserver(Socket)
     \/ At("event") /\ NextSocket("insert", "map") /\ InsertEvent(Socket)
  /\ UNCHANGED <<live, sessionMap, sessionMapMutex, call>>

AddMap ==
  /\ At("map")
  /\ sessionMap' = sessionMap \cup {app.session}
  /\ sessionMapMutex' = NoOne
  /\ app' = Idle
  /\ UNCHANGED <<reactorVars, live, call>>

-------------------------------------------------------------------------------
(* ReceiverCenter::delCaptureRtpSession with ~RTPHandler, and the caller's *)
(* `delete' of the session after it.                                       *)

Del(s) ==
  /\ app = Idle
  /\ s \in live
  /\ app' = [pc |-> "delLock", session |-> s, m |-> "audio"]
  /\ UNCHANGED <<reactorVars, live, sessionMap, sessionMapMutex, call>>

DelLock ==
  /\ At("delLock") /\ Go("erase")
  /\ sessionMapMutex = NoOne
  /\ sessionMapMutex' = App
  /\ UNCHANGED <<reactorVars, live, sessionMap, call>>

(* Mutant: the destructor forgets the second socket.                       *)
FirstOnly(next, end) == app' = [app EXCEPT !.pc = end]
EachSocket(next, end) == NextSocket(next, end)

Unregister ==
  /\ \/ At("erase") /\ Go("center") /\ EraseNotifier(Socket)
     \/ At("center") /\ Go("disable") /\ LockCenter(Socket)
     \/ At("disable") /\ Go("unevent") /\ RemoveObserver(Socket)
     \/ At("unevent") /\ EachSocket("erase", "close") /\ EraseEvent(Socket)
  /\ UNCHANGED <<live, sessionMap, sessionMapMutex, call>>

(* Both sockets are closed, with what they hold, the handler is freed and  *)
(* the map unlocked.                                                       *)
DelClose ==
  /\ At("close") /\ Go("free")
  /\ open' = open \ SocketsOf(app.session)
  /\ pending' = [k \in Sockets |-> IF k \in SocketsOf(app.session) THEN 0 ELSE pending[k]]
  /\ sessionMap' = sessionMap \ {app.session}
  /\ sessionMapMutex' = NoOne
  /\ UNCHANGED <<mapVars, lockVars, t1, live, call>>

DelFree ==
  /\ At("free")
  /\ live' = live \ {app.session}
  /\ app' = Idle
  /\ UNCHANGED <<reactorVars, sessionMap, sessionMapMutex, call>>

AppStep == Register \/ AddMap \/ Unregister \/ DelClose \/ DelFree

-------------------------------------------------------------------------------
(* onRTPData.  An unknown session changes nothing.                         *)
Lookup(f, s) ==
  /\ call[f] = Nobody
  /\ sessionMapMutex = NoOne
  /\ s \in sessionMap
  /\ sessionMapMutex' = f
  /\ call' = [call EXCEPT ![f] = s]
  /\ UNCHANGED <<reactorVars, live, sessionMap, app>>

PushCall(f) ==
  /\ call[f] # Nobody
  /\ sessionMapMutex' = NoOne
  /\ call' = [call EXCEPT ![f] = Nobody]
  /\ UNCHANGED <<reactorVars, live, sessionMap, app>>

(* A full receive buffer drops the datagram.                               *)
Arrive(k) ==
  /\ k \in open
  /\ pending' = [pending EXCEPT ![k] = IF @ < MaxPending THEN @ + 1 ELSE @]
  /\ UNCHANGED <<mapVars, lockVars, open, t1, live, sessionMap, sessionMapMutex, app, call>>

(* Mutant: available() is not asked.                                       *)
NotAsked(k) == TRUE
HasDatagram(k) == pending[k] > 0

(* The callback: nothing to read, an exception, or a datagram that is      *)
(* taken and appended to the session.                                      *)
ReadCallback ==
  /\ t1.pc = "read"
  /\ \/ /\ t1.at \notin Failing
        /\ ~HasDatagram(t1.at)
        /\ Return
        /\ UNCHANGED pending
     \/ /\ t1.at \in Failing
        /\ Thrown
        /\ UNCHANGED pending
     \/ /\ t1.at \notin Failing
        /\ HasDatagram(t1.at)
        /\ pending' = [pending EXCEPT ![t1.at] = @ - 1]
        /\ t1' = [t1 EXCEPT !.pc = "push"]
        /\ UNCHANGED observerMutex
  /\ UNCHANGED <<mapVars, centerMutex, open>>

PushCallback ==
  /\ t1.pc = "push"
  /\ Return
  /\ UNCHANGED <<mapVars, centerMutex, socketVars>>

T1Step ==
  /\ RunStep \/ ReadCallback \/ PushCallback
  /\ UNCHANGED <<live, sessionMap, sessionMapMutex, app, call>>

Next ==
  \/ \E s \in Sessions : Add(s) \/ Del(s)
  \/ AddLock \/ DelLock \/ AppStep
  \/ \E f \in Feeders : PushCall(f) \/ \E s \in Sessions : Lookup(f, s)
  \/ \E k \in Sockets : Arrive(k)
  \/ T1Step

Spec == Init /\ [][Next]_vars

(* T1 runs for ever, a call goes on, and App obtains a mutex that feeders  *)
(* release again and again (they keep it for one memcpy, and leave it      *)
(* between two packets).                                                   *)
Fairness ==
  /\ WF_vars(T1Step)
  /\ WF_vars(AppStep)
  /\ SF_vars(AddLock) /\ SF_vars(DelLock)
  /\ \A f \in Feeders : WF_vars(PushCall(f))

FairSpec == Spec /\ Fairness

-------------------------------------------------------------------------------
(* Who works on a session through a raw pointer.                           *)
Users(s) == {f \in Feeders : call[f] = s}
            \cup {t \in {T1} : t1.pc \in {"read", "push"} /\ t1.at \in SocketsOf(s)}

(* Once delCaptureRtpSession of ReceiverCenter has returned, the session   *)
(* can be deleted: no feeder and no callback is on it, whatever T1 had     *)
(* read of the reactor's map, lists and observers before.                  *)
NoUseAfterDelete == \A s \in Sessions : s \notin live => Users(s) = {}

(* A deleted session leaves nothing behind in the reactor: no notifier or  *)
(* event that T1 would poll for ever, no observer and no open socket.      *)
NothingLeft ==
  \A s \in Sessions \ live :
    SocketsOf(s) \cap (handlers \cup events \cup observers \cup enabled \cup open) = {}

(* Adding and deleting return, while packets arrive without end, callbacks *)
(* throw, and T1 may be in a callback of the handler that is destroyed.    *)
CallsReturn == app # Idle ~> app = Idle

(* A socket with a datagram is read, or removed, even when the callbacks   *)
(* of other sockets throw whenever they are called.  Only sockets that are *)
(* closed between Collect and Select, in each round anew, can prevent it:  *)
(* select() throws for them, and the round is over.                        *)
Interrupted == t1.pc = "select" /\ ~(t1.list \subseteq open)
EachServed ==
  \A k \in Sockets \ Failing :
    pending[k] > 0 /\ k \in handlers \cap events
      ~> (t1.pc = "push" /\ t1.at = k) \/ k \notin handlers \/ Interrupted
===============================================================================
