------------------------- MODULE SessionReceiver_proofs -------------------------
(***************************************************************************)
(* Proofs about SessionReceiver, for any number of sessions and feeders    *)
(* and any sockets whose callbacks throw: what                             *)
(* ReceiverCenter::delCaptureRtpSession would give the SDK if it were      *)
(* called.  When it has returned nobody is on the session, and the reactor *)
(* has nothing of it any more.                                             *)
(***************************************************************************)
EXTENDS SessionReceiver, TLAPS

-------------------------------------------------------------------------------
(* The inductive invariant.                                                *)

(* A feeder on a session has the map's mutex, and so has App from the lock *)
(* to the unlock; the map has live sessions only, and the one that is      *)
(* about to be freed no more.                                              *)
LockedPcs == (AddPcs \cup DelPcs) \ {"addLock", "delLock", "free"}

MapGuarded ==
  /\ \A f \in Feeders : call[f] # Nobody => /\ sessionMapMutex = f
                                            /\ call[f] \in sessionMap
  /\ app.pc \in LockedPcs => sessionMapMutex = App
  /\ sessionMap \subseteq live
  /\ app # Idle => app.session \in live
  /\ app.pc = "free" => app.session \notin sessionMap

(* A callback runs on a socket whose observer is enabled, and T1 has the   *)
(* observer's mutex, for which disable() waits.                            *)
InCallback == t1.pc \in {"read", "push"}

CallbackGuarded ==
  InCallback => t1.at \in enabled /\ observerMutex[t1.at] = T1

(* What the reactor knows of a socket.                                     *)
Unknown(k) == k \notin handlers \cup events \cup observers \cup enabled
Audio(s) == <<s, "audio">>
Video(s) == <<s, "video">>

(* How far a deletion has come, socket after socket.                       *)
DelSteps == {"erase", "center", "disable", "unevent"}
Progress ==
  /\ app.pc = "delLock" => app.m = "audio"
  /\ app.pc \in DelSteps /\ app.m = "video" => Unknown(Audio(app.session))
  /\ app.pc \in {"center", "disable", "unevent"} => Socket \notin handlers
  /\ app.pc = "unevent" => Socket \notin observers \cup enabled
  /\ app.pc \in {"close", "free"} => /\ Unknown(Audio(app.session))
                                     /\ Unknown(Video(app.session))
  /\ app.pc = "free" => SocketsOf(app.session) \cap open = {}

DeadUnknown ==
  \A s \in Sessions \ live : \A m \in {"audio", "video"} :
    Unknown(<<s, m>>) /\ <<s, m>> \notin open

IInv == TypeOK /\ MapGuarded /\ CallbackGuarded /\ Progress /\ DeadUnknown

-------------------------------------------------------------------------------
(* The fields of App's call.                                               *)
LEMMA AppFields ==
  ASSUME TypeOK, app.pc # "idle"
  PROVE  /\ app \in [pc : AddPcs \cup DelPcs, session : Sessions, m : {"audio", "video"}]
         /\ app.session \in Sessions /\ app.m \in {"audio", "video"}
         /\ Socket \in Sockets /\ app # Idle
<1>1. app # Idle
  BY DEF Idle
<1>2. app \in [pc : AddPcs \cup DelPcs, session : Sessions, m : {"audio", "video"}]
  BY <1>1 DEF TypeOK
<1> QED  BY <1>1, <1>2, ReceiverAssumption DEF Socket

(* T1's own steps outside of callbacks, and the callbacks.                 *)
LEMMA ReactorTypes ==
  ASSUME TypeOK, T1Step
  PROVE  TypeOK'
<1>1. t1 \in [pc : T1Pcs, list : SUBSET Sockets, at : Sockets \cup {NoSocket}]
  BY DEF TypeOK, ReactorTypeOK
<1>2. Done \in [pc : T1Pcs, list : SUBSET Sockets, at : Sockets \cup {NoSocket}]
  BY <1>1 DEF Done, T1Pcs
<1>3. observerMutex \in [Sockets -> {T1, NoOne}]
  BY DEF TypeOK, ReactorTypeOK
<1>4. /\ t1' \in [pc : T1Pcs, list : SUBSET Sockets, at : Sockets \cup {NoSocket}]
      /\ observerMutex' \in [Sockets -> {T1, NoOne}]
      /\ pending' \in [Sockets -> Nat]
      /\ UNCHANGED <<mapVars, centerMutex, open>>
  <2>0. pending \in [Sockets -> Nat] /\ handlers \subseteq Sockets
    BY DEF TypeOK, ReactorTypeOK
  <2>1. CASE Collect
    BY <1>1, <1>3, <2>0, <2>1 DEF Collect, T1Pcs, lockVars, socketVars
  <2>2. CASE Select
    <3>1. ASSUME NEW spurious \in SUBSET t1.list,
                 t1' = [t1 EXCEPT !.pc = "round",
                                  !.list = {k \in @ \cap open : pending[k] > 0} \cup spurious]
          PROVE  t1' \in [pc : T1Pcs, list : SUBSET Sockets, at : Sockets \cup {NoSocket}]
      BY <1>1, <3>1 DEF T1Pcs
    <3>2. ASSUME t1' = [t1 EXCEPT !.pc = "collect", !.list = {}]
          PROVE  t1' \in [pc : T1Pcs, list : SUBSET Sockets, at : Sockets \cup {NoSocket}]
      BY <1>1, <3>2 DEF T1Pcs
    <3>3. t1' \in [pc : T1Pcs, list : SUBSET Sockets, at : Sockets \cup {NoSocket}]
      BY <2>2, <3>1, <3>2 DEF Select
    <3> QED  BY <1>3, <2>0, <2>2, <3>3 DEF Select, lockVars, socketVars
  <2>3. CASE Dispatch \/ EndRound
    BY <1>1, <1>3, <2>0, <2>3 DEF Dispatch, EndRound, T1Pcs, lockVars, socketVars
  <2>4. CASE Post
    BY <1>1, <1>2, <1>3, <2>0, <2>4 DEF Post, T1Pcs, lockVars, socketVars
  <2>5. CASE Notify
    BY <1>1, <1>2, <1>3, <2>0, <2>5 DEF Notify, T1Pcs, socketVars
  <2>6. CASE ReadCallback
    <3>1. pending' \in [Sockets -> Nat]
      BY <2>0, <2>6 DEF ReadCallback, HasDatagram
    <3> QED  BY <1>1, <1>2, <1>3, <2>6, <3>1 DEF ReadCallback, Return, Thrown, T1Pcs
  <2>7. CASE PushCallback
    BY <1>1, <1>2, <1>3, <2>0, <2>7 DEF PushCallback, Return, socketVars
  <2> QED  BY <2>1, <2>2, <2>3, <2>4, <2>5, <2>6, <2>7 DEF T1Step, RunStep
<1> QED  BY <1>4 DEF TypeOK, ReactorTypeOK, T1Step, mapVars

(* T1 leaves App, the feeders, the maps and the sessions alone, and starts *)
(* a callback only at an observer that is enabled and whose mutex it took. *)
LEMMA ReactorKeeps ==
  ASSUME IInv, T1Step
  PROVE  IInv'
<1>1. TypeOK'
  BY ReactorTypes DEF IInv
<1>2. UNCHANGED <<mapVars, centerMutex, open, live, sessionMap, sessionMapMutex, app, call>>
  BY DEF T1Step, RunStep, Collect, Select, Dispatch, EndRound, Post, Notify,
         ReadCallback, PushCallback, lockVars, socketVars
<1>3. CallbackGuarded'
  <2>0. observerMutex \in [Sockets -> {T1, NoOne}] /\ enabled \subseteq Sockets
        /\ t1 \in [pc : T1Pcs, list : SUBSET Sockets, at : Sockets \cup {NoSocket}]
    BY DEF IInv, TypeOK, ReactorTypeOK
  <2>1. CASE Collect \/ Select \/ Dispatch \/ EndRound \/ Post
    <3>1. t1'.pc \in {"select", "round", "collect", "post", "notify"}
      <4>1. CASE Collect
        BY <2>0, <4>1 DEF Collect
      <4>2. CASE Select
        <5>1. PICK spurious \in SUBSET t1.list :
                 \/ t1' = [t1 EXCEPT !.pc = "round",
                             !.list = {k \in @ \cap open : pending[k] > 0} \cup spurious]
                 \/ t1' = [t1 EXCEPT !.pc = "collect", !.list = {}]
          BY <4>2 DEF Select
        <5> QED  BY <2>0, <5>1
      <4>3. CASE Dispatch
        <5>1. PICK k \in t1.list :
                 t1' = IF k \in handlers THEN [pc |-> "post", list |-> t1.list \ {k}, at |-> k]
                       ELSE [t1 EXCEPT !.list = @ \ {k}]
          BY <4>3 DEF Dispatch
        <5>2. CASE k \in handlers
          BY <5>1, <5>2
        <5>3. CASE k \notin handlers
          BY <2>0, <4>3, <5>1, <5>3 DEF Dispatch
        <5> QED  BY <5>2, <5>3
      <4>4. CASE EndRound
        BY <2>0, <4>4 DEF EndRound
      <4>5. CASE Post
        BY <2>0, <4>5 DEF Post, Done
      <4> QED  BY <2>1, <4>1, <4>2, <4>3, <4>4, <4>5
    <3> QED  BY <3>1 DEF CallbackGuarded, InCallback
  <2>2. CASE Notify
    BY <1>2, <2>0, <2>2 DEF Notify, Done, CallbackGuarded, InCallback, mapVars
  <2>3. CASE ReadCallback
    BY <1>2, <2>0, <2>3 DEF ReadCallback, Return, Thrown, Done, IInv, CallbackGuarded,
                            InCallback, mapVars
  <2>4. CASE PushCallback
    BY <2>0, <2>4 DEF PushCallback, Return, Done, CallbackGuarded, InCallback
  <2> QED  BY <2>1, <2>2, <2>3, <2>4 DEF T1Step, RunStep
<1>4. MapGuarded' /\ Progress' /\ DeadUnknown'
  BY <1>2 DEF IInv, MapGuarded, Progress, DeadUnknown, Unknown, Audio, Video, Socket,
              SocketsOf, mapVars
<1> QED  BY <1>1, <1>3, <1>4 DEF IInv

-------------------------------------------------------------------------------
(* A session is created.                                                   *)
LEMMA AddKeeps ==
  ASSUME IInv, NEW s \in Sessions, Add(s)
  PROVE  IInv'
<1>1. app' = [pc |-> "addLock", session |-> s, m |-> "audio"] /\ live' = live \cup {s}
  BY DEF Add
<1>2. UNCHANGED <<reactorVars, sessionMap, sessionMapMutex, call>>
  BY DEF Add
<1>3. TypeOK'
  BY <1>1, <1>2 DEF IInv, TypeOK, ReactorTypeOK, AddPcs, reactorVars, mapVars, lockVars, socketVars
<1>4. MapGuarded' /\ Progress'
  BY <1>1, <1>2 DEF IInv, MapGuarded, Progress, LockedPcs, DelSteps
<1>5. CallbackGuarded' /\ DeadUnknown'
  BY <1>1, <1>2 DEF IInv, CallbackGuarded, InCallback, DeadUnknown, Unknown, reactorVars,
                    mapVars, lockVars, socketVars
<1> QED  BY <1>3, <1>4, <1>5 DEF IInv

(* Its call takes the map's mutex, so no feeder is on a session, and opens *)
(* the sockets of a session that is alive.                                 *)
LEMMA AddLockKeeps ==
  ASSUME IInv, AddLock
  PROVE  IInv'
<1>0. TypeOK /\ app.pc = "addLock"
  BY DEF IInv, AddLock, At
<1>1. /\ app \in [pc : AddPcs \cup DelPcs, session : Sessions, m : {"audio", "video"}]
      /\ app.session \in Sessions /\ app # Idle
  BY <1>0, AppFields
<1>2. app' = [app EXCEPT !.pc = "insert"] /\ app'.pc = "insert" /\ app'.session = app.session
      /\ app' \in [pc : AddPcs \cup DelPcs, session : Sessions, m : {"audio", "video"}]
  BY <1>1 DEF AddLock, Go, AddPcs
<1>3. sessionMapMutex = NoOne /\ sessionMapMutex' = App
      /\ UNCHANGED <<mapVars, lockVars, pending, t1, live, sessionMap, call>>
      /\ open' = open \cup SocketsOf(app.session)
  BY DEF AddLock
<1>4. SocketsOf(app.session) \subseteq Sockets
  BY <1>1, ReceiverAssumption DEF SocketsOf
<1>5. TypeOK'
  BY <1>0, <1>2, <1>3, <1>4 DEF TypeOK, ReactorTypeOK, mapVars, lockVars
<1>6. MapGuarded' /\ Progress'
  <2>1. \A f \in Feeders : call[f] = Nobody
    BY <1>3, ReceiverAssumption DEF IInv, MapGuarded
  <2> QED  BY <1>1, <1>2, <1>3, <2>1 DEF IInv, MapGuarded, Progress, DelSteps
<1>7. DeadUnknown'
  <2> SUFFICES ASSUME NEW s \in Sessions \ live, NEW m \in {"audio", "video"}
               PROVE  Unknown(<<s, m>>)' /\ <<s, m>> \notin open'
    BY <1>3 DEF DeadUnknown
  <2>1. app.session # s
    BY <1>1 DEF IInv, MapGuarded
  <2> QED  BY <1>3, <2>1 DEF IInv, DeadUnknown, Unknown, SocketsOf, mapVars
<1> QED  BY <1>3, <1>5, <1>6, <1>7 DEF IInv, CallbackGuarded, InCallback, mapVars, lockVars

(* The constructor of RTPHandler only adds, to a session that is alive.    *)
LEMMA RegisterKeeps ==
  ASSUME IInv, Register
  PROVE  IInv'
<1>0. TypeOK /\ app.pc \in {"insert", "observe", "event"}
  BY DEF IInv, Register, At
<1>1. /\ app \in [pc : AddPcs \cup DelPcs, session : Sessions, m : {"audio", "video"}]
      /\ app.session \in Sessions /\ app # Idle /\ Socket \in Sockets
  BY <1>0, AppFields
<1>2. /\ app' \in [pc : AddPcs \cup DelPcs, session : Sessions, m : {"audio", "video"}]
      /\ app'.pc \in {"insert", "observe", "event", "map"} /\ app'.session = app.session
  BY <1>1 DEF Register, Go, NextSocket, AddPcs
<1>3. /\ UNCHANGED <<lockVars, socketVars, t1, live, sessionMap, sessionMapMutex, call>>
      /\ handlers \subseteq handlers' /\ handlers' \subseteq handlers \cup {Socket}
      /\ events \subseteq events' /\ events' \subseteq events \cup {Socket}
      /\ observers \subseteq observers' /\ observers' \subseteq observers \cup {Socket}
      /\ enabled \subseteq enabled' /\ enabled' \subseteq enabled \cup {Socket}
  BY DEF Register, InsertNotifier, AddObserver, InsertEvent
<1>4. TypeOK'
  BY <1>0, <1>1, <1>2, <1>3 DEF TypeOK, ReactorTypeOK, lockVars, socketVars
<1>5. MapGuarded' /\ Progress'
  BY <1>0, <1>1, <1>2, <1>3 DEF IInv, MapGuarded, Progress, LockedPcs, AddPcs, DelPcs, DelSteps
<1>6. DeadUnknown'
  <2> SUFFICES ASSUME NEW s \in Sessions \ live, NEW m \in {"audio", "video"}
               PROVE  Unknown(<<s, m>>)' /\ <<s, m>> \notin open'
    BY <1>3 DEF DeadUnknown
  <2>1. app.session # s
    BY <1>1 DEF IInv, MapGuarded
  <2>2. Socket # <<s, m>>
    BY <2>1 DEF Socket
  <2>3. Unknown(<<s, m>>) /\ <<s, m>> \notin open
    BY DEF IInv, DeadUnknown
  <2> QED  BY <1>3, <2>2, <2>3 DEF Unknown, socketVars
<1> QED  BY <1>3, <1>4, <1>5, <1>6 DEF IInv, CallbackGuarded, InCallback, lockVars

(* The session enters the map, and the mutex is free for the feeders.      *)
LEMMA AddMapKeeps ==
  ASSUME IInv, AddMap
  PROVE  IInv'
<1>0. TypeOK /\ app.pc = "map" /\ app' = Idle
  BY DEF IInv, AddMap, At
<1>1. app.session \in Sessions /\ app # Idle
  BY <1>0, AppFields
<1>2. /\ UNCHANGED <<reactorVars, live, call>>
      /\ sessionMap' = sessionMap \cup {app.session} /\ sessionMapMutex' = NoOne
  BY DEF AddMap
<1>3. sessionMapMutex = App /\ app.session \in live
  BY <1>0, <1>1 DEF IInv, MapGuarded, LockedPcs, AddPcs
<1>4. \A f \in Feeders : call[f] = Nobody
  BY <1>3, ReceiverAssumption DEF IInv, MapGuarded
<1>5. TypeOK'
  BY <1>0, <1>1, <1>2 DEF TypeOK, ReactorTypeOK, reactorVars, mapVars, lockVars, socketVars
<1>6. app'.pc = "idle"
  BY <1>0 DEF Idle
<1>7. MapGuarded' /\ Progress'
  BY <1>0, <1>2, <1>3, <1>4, <1>6
     DEF IInv, MapGuarded, Progress, LockedPcs, AddPcs, DelPcs, DelSteps
<1>8. CallbackGuarded' /\ DeadUnknown'
  BY <1>2 DEF IInv, CallbackGuarded, InCallback, DeadUnknown, Unknown, reactorVars, mapVars,
              lockVars, socketVars
<1> QED  BY <1>5, <1>7, <1>8 DEF IInv

-------------------------------------------------------------------------------
(* A deletion begins, and obtains the mutex: no feeder is on a session.    *)
LEMMA DelKeeps ==
  ASSUME IInv, NEW s \in Sessions, Del(s)
  PROVE  IInv'
<1>1. app' = [pc |-> "delLock", session |-> s, m |-> "audio"] /\ s \in live
  BY DEF Del
<1>2. UNCHANGED <<reactorVars, live, sessionMap, sessionMapMutex, call>>
  BY DEF Del
<1>3. TypeOK'
  BY <1>1, <1>2 DEF IInv, TypeOK, ReactorTypeOK, DelPcs, reactorVars, mapVars, lockVars, socketVars
<1>4. MapGuarded' /\ Progress'
  BY <1>1, <1>2 DEF IInv, MapGuarded, Progress, LockedPcs, DelSteps
<1>5. CallbackGuarded' /\ DeadUnknown'
  BY <1>2 DEF IInv, CallbackGuarded, InCallback, DeadUnknown, Unknown, reactorVars, mapVars,
              lockVars, socketVars
<1> QED  BY <1>3, <1>4, <1>5 DEF IInv

LEMMA DelLockKeeps ==
  ASSUME IInv, DelLock
  PROVE  IInv'
<1>0. TypeOK /\ app.pc = "delLock"
  BY DEF IInv, DelLock, At
<1>1. /\ app \in [pc : AddPcs \cup DelPcs, session : Sessions, m : {"audio", "video"}]
      /\ app # Idle
  BY <1>0, AppFields
<1>2. /\ app' \in [pc : AddPcs \cup DelPcs, session : Sessions, m : {"audio", "video"}]
      /\ app'.pc = "erase" /\ app'.session = app.session /\ app'.m = "audio"
  BY <1>0, <1>1 DEF DelLock, Go, DelPcs, IInv, Progress
<1>3. /\ sessionMapMutex = NoOne /\ sessionMapMutex' = App
      /\ UNCHANGED <<reactorVars, live, sessionMap, call>>
  BY DEF DelLock
<1>4. \A f \in Feeders : call[f] = Nobody
  BY <1>3, ReceiverAssumption DEF IInv, MapGuarded
<1>5. TypeOK'
  BY <1>0, <1>2, <1>3 DEF TypeOK, ReactorTypeOK, reactorVars, mapVars, lockVars, socketVars
<1>6. MapGuarded' /\ Progress'
  BY <1>1, <1>2, <1>3, <1>4 DEF IInv, MapGuarded, Progress
<1>7. CallbackGuarded' /\ DeadUnknown'
  BY <1>3 DEF IInv, CallbackGuarded, InCallback, DeadUnknown, Unknown, reactorVars, mapVars,
              lockVars, socketVars
<1> QED  BY <1>5, <1>6, <1>7 DEF IInv

(* The destructor of RTPHandler: the reactor only forgets, disable() waits *)
(* for a callback to end, and after the last step of a socket the reactor  *)
(* knows it no more.                                                       *)
LEMMA UnregisterKeeps ==
  ASSUME IInv, Unregister
  PROVE  IInv'
<1>0. TypeOK /\ app.pc \in DelSteps
  BY DEF IInv, Unregister, At, DelSteps
<1>1. /\ app \in [pc : AddPcs \cup DelPcs, session : Sessions, m : {"audio", "video"}]
      /\ app.session \in Sessions /\ app # Idle /\ Socket \in Sockets
  BY <1>0, AppFields DEF DelSteps
<1>2. /\ UNCHANGED <<observerMutex, socketVars, t1, live, sessionMap, sessionMapMutex, call>>
      /\ handlers' \subseteq handlers /\ events' \subseteq events
      /\ observers' \subseteq observers /\ enabled' \subseteq enabled
  BY DEF Unregister, EraseNotifier, LockCenter, RemoveObserver, Disable, EraseEvent, lockVars,
         mapVars
<1>3. centerMutex' \in [Sockets -> {App, NoOne}]
  BY <1>0 DEF TypeOK, ReactorTypeOK, Unregister, EraseNotifier, LockCenter, RemoveObserver,
              EraseEvent, lockVars
<1>4. CallbackGuarded'
  <2> SUFFICES ASSUME InCallback
               PROVE  t1.at \in enabled' /\ observerMutex[t1.at] = T1
    BY <1>2 DEF CallbackGuarded, InCallback
  <2>1. t1.at \in enabled /\ observerMutex[t1.at] = T1
    BY DEF IInv, CallbackGuarded
  <2>2. CASE At("disable")
    <3>1. observerMutex[Socket] = NoOne /\ enabled' = enabled \ {Socket}
      BY <2>2 DEF Unregister, At, RemoveObserver, Disable
    <3> QED  BY <2>1, <3>1, ReactorAssumption
  <2>3. CASE ~At("disable")
    BY <2>1, <2>3 DEF Unregister, At, EraseNotifier, LockCenter, EraseEvent, mapVars
  <2> QED  BY <2>2, <2>3
<1>5. \A k : Unknown(k) => Unknown(k)'
  BY <1>2 DEF Unknown
<1>6. DeadUnknown'
  BY <1>2, <1>5 DEF IInv, DeadUnknown, socketVars
<1>7. /\ app' \in [pc : AddPcs \cup DelPcs, session : Sessions, m : {"audio", "video"}]
      /\ app'.session = app.session /\ app'.pc \in DelSteps \cup {"close"}
      /\ Progress'
  <2>1. CASE At("erase")
    <3>1. /\ app' = [app EXCEPT !.pc = "center"] /\ handlers' = handlers \ {Socket}
          /\ app.pc = "erase"
      BY <2>1 DEF Unregister, At, Go, EraseNotifier
    <3>2. Socket' = Socket /\ app'.pc = "center" /\ app'.m = app.m /\ app'.session = app.session
      BY <1>1, <3>1 DEF Socket
    <3>3. app'.m = "video" => Unknown(Audio(app.session))'
      BY <1>0, <1>5, <3>2 DEF IInv, Progress, Unknown, Audio
    <3> QED  BY <1>1, <3>1, <3>2, <3>3 DEF Progress, DelPcs, DelSteps, Unknown, Audio
  <2>2. CASE At("center")
    <3>1. /\ app' = [app EXCEPT !.pc = "disable"] /\ handlers' = handlers
          /\ app.pc = "center"
      BY <2>2 DEF Unregister, At, Go, LockCenter, mapVars
    <3>2. Socket' = Socket /\ app'.pc = "disable" /\ app'.m = app.m /\ app'.session = app.session
      BY <1>1, <3>1 DEF Socket
    <3>3. app'.m = "video" => Unknown(Audio(app.session))'
      BY <1>0, <1>5, <3>2 DEF IInv, Progress, Unknown, Audio
    <3>4. Socket \notin handlers
      BY <3>1 DEF IInv, Progress
    <3> QED  BY <1>1, <3>1, <3>2, <3>3, <3>4 DEF Progress, DelPcs, DelSteps, Unknown, Audio
  <2>3. CASE At("disable")
    <3>1. /\ app' = [app EXCEPT !.pc = "unevent"] /\ handlers' = handlers
          /\ observers' = observers \ {Socket} /\ enabled' = enabled \ {Socket}
          /\ app.pc = "disable"
      BY <2>3 DEF Unregister, At, Go, RemoveObserver, Disable
    <3>2. Socket' = Socket /\ app'.pc = "unevent" /\ app'.m = app.m /\ app'.session = app.session
      BY <1>1, <3>1 DEF Socket
    <3>3. app'.m = "video" => Unknown(Audio(app.session))'
      BY <1>0, <1>5, <3>2 DEF IInv, Progress, Unknown, Audio
    <3>4. Socket \notin handlers
      BY <3>1 DEF IInv, Progress
    <3> QED  BY <1>1, <3>1, <3>2, <3>3, <3>4 DEF Progress, DelPcs, DelSteps, Unknown, Audio
  <2>4. CASE At("unevent")
    <3>1. /\ NextSocket("erase", "close") /\ app.pc = "unevent"
          /\ events' = events \ {Socket}
          /\ UNCHANGED <<handlers, observers, enabled>>
      BY <2>4 DEF Unregister, At, EachSocket, EraseEvent
    <3>2. Socket \notin handlers' \cup events' \cup observers' \cup enabled'
      BY <3>1 DEF IInv, Progress
    <3>3. CASE app.m = "audio"
      <4>1. app' = [app EXCEPT !.pc = "erase", !.m = "video"]
        BY <3>1, <3>3 DEF NextSocket
      <4>2. app'.pc = "erase" /\ app'.m = "video" /\ app'.session = app.session
        BY <1>1, <4>1
      <4>3. Socket = Audio(app'.session)
        BY <3>3, <4>2 DEF Socket, Audio
      <4> QED  BY <1>1, <3>2, <4>1, <4>2, <4>3 DEF Progress, DelPcs, DelSteps, Unknown, Audio
    <3>4. CASE app.m = "video"
      <4>1. app' = [app EXCEPT !.pc = "close", !.m = "audio"]
        BY <3>1, <3>4 DEF NextSocket
      <4>2. app'.pc = "close" /\ app'.session = app.session
        BY <1>1, <4>1
      <4>3. Socket = Video(app'.session)
        BY <3>4, <4>2 DEF Socket, Video
      <4>4. Unknown(Audio(app.session))'
        BY <1>0, <1>5, <3>4, <4>2 DEF IInv, Progress, Unknown, Audio
      <4> QED  BY <1>1, <3>2, <4>1, <4>2, <4>3, <4>4
               DEF Progress, DelPcs, DelSteps, Unknown, Audio, Video
    <3> QED  BY <1>1, <3>3, <3>4
  <2> QED  BY <1>0, <2>1, <2>2, <2>3, <2>4 DEF At, DelSteps
<1>8. TypeOK'
  BY <1>0, <1>2, <1>3, <1>7 DEF TypeOK, ReactorTypeOK, socketVars
<1>9. MapGuarded'
  <2>1. app.pc \in LockedPcs
    BY <1>0 DEF LockedPcs, DelPcs, DelSteps
  <2>2. sessionMapMutex = App /\ app.session \in live
    BY <1>1, <2>1 DEF IInv, MapGuarded
  <2>3. app'.pc # "free"
    BY <1>7 DEF DelSteps
  <2> QED  BY <1>2, <1>7, <2>2, <2>3 DEF IInv, MapGuarded
<1> QED  BY <1>4, <1>6, <1>7, <1>8, <1>9 DEF IInv

(* Closing, and taking the session from the map, of which no feeder has    *)
(* anything while App has its mutex.                                       *)
LEMMA DelCloseKeeps ==
  ASSUME IInv, DelClose
  PROVE  IInv'
<1>0. TypeOK /\ app.pc = "close"
  BY DEF IInv, DelClose, At
<1>1. /\ app \in [pc : AddPcs \cup DelPcs, session : Sessions, m : {"audio", "video"}]
      /\ app.session \in Sessions /\ app # Idle
  BY <1>0, AppFields
<1>2. /\ app' \in [pc : AddPcs \cup DelPcs, session : Sessions, m : {"audio", "video"}]
      /\ app'.pc = "free" /\ app'.session = app.session
  BY <1>1 DEF DelClose, Go, DelPcs
<1>3. /\ UNCHANGED <<mapVars, lockVars, t1, live, call>>
      /\ open' = open \ SocketsOf(app.session)
      /\ sessionMap' = sessionMap \ {app.session} /\ sessionMapMutex' = NoOne
  BY DEF DelClose
<1>4. pending' \in [Sockets -> Nat]
  BY <1>0 DEF DelClose, TypeOK, ReactorTypeOK
<1>5. \A f \in Feeders : call[f] = Nobody
  <2>1. sessionMapMutex = App
    BY <1>0 DEF IInv, MapGuarded, LockedPcs, DelPcs
  <2> QED  BY <2>1, ReceiverAssumption DEF IInv, MapGuarded
<1>6. TypeOK'
  BY <1>0, <1>2, <1>3, <1>4 DEF TypeOK, ReactorTypeOK, mapVars, lockVars
<1>7. MapGuarded'
  BY <1>1, <1>2, <1>3, <1>5 DEF IInv, MapGuarded, LockedPcs
<1>8. Progress'
  BY <1>0, <1>2, <1>3 DEF IInv, Progress, DelSteps, Unknown, Audio, Video, SocketsOf, mapVars
<1>9. CallbackGuarded' /\ DeadUnknown'
  BY <1>3 DEF IInv, CallbackGuarded, InCallback, DeadUnknown, Unknown, mapVars, lockVars
<1> QED  BY <1>6, <1>7, <1>8, <1>9 DEF IInv

(* The session dies, and nobody knows it.                                  *)
LEMMA DelFreeKeeps ==
  ASSUME IInv, DelFree
  PROVE  IInv'
<1>0. TypeOK /\ app.pc = "free" /\ app' = Idle
  BY DEF IInv, DelFree, At
<1>1. app'.pc = "idle"
  BY <1>0 DEF Idle
<1>2. live' = live \ {app.session} /\ UNCHANGED <<reactorVars, sessionMap, sessionMapMutex, call>>
  BY DEF DelFree
<1>3. TypeOK'
  BY <1>0, <1>2 DEF TypeOK, ReactorTypeOK, reactorVars, mapVars, lockVars, socketVars
<1>4. MapGuarded' /\ Progress'
  BY <1>0, <1>1, <1>2 DEF IInv, MapGuarded, Progress, LockedPcs, AddPcs, DelPcs, DelSteps
<1>5. CallbackGuarded'
  BY <1>2 DEF IInv, CallbackGuarded, InCallback, reactorVars, mapVars, lockVars
<1>6. DeadUnknown'
  <2> SUFFICES ASSUME NEW s \in Sessions \ live', NEW m \in {"audio", "video"}
               PROVE  Unknown(<<s, m>>)' /\ <<s, m>> \notin open'
    BY DEF DeadUnknown
  <2>1. UNCHANGED <<handlers, events, observers, enabled, open>>
    BY <1>2 DEF reactorVars, mapVars, socketVars
  <2>2. CASE s # app.session
    BY <1>2, <2>1, <2>2 DEF IInv, DeadUnknown, Unknown
  <2>3. CASE s = app.session
    BY <1>0, <2>1, <2>3 DEF IInv, Progress, Unknown, Audio, Video, SocketsOf
  <2> QED  BY <2>2, <2>3
<1> QED  BY <1>3, <1>4, <1>5, <1>6 DEF IInv

-------------------------------------------------------------------------------
(* Feeders and the network.                                                *)
LEMMA FeederKeeps ==
  ASSUME IInv, NEW f \in Feeders, PushCall(f) \/ \E s \in Sessions : Lookup(f, s)
  PROVE  IInv'
<1>1. UNCHANGED <<reactorVars, live, sessionMap, app>>
  BY DEF PushCall, Lookup
<1>2. /\ call' \in [Feeders -> Sessions \cup {Nobody}]
      /\ sessionMapMutex' \in Feeders \cup {App, NoOne}
  BY DEF IInv, TypeOK, PushCall, Lookup
<1>3. TypeOK'
  BY <1>1, <1>2 DEF IInv, TypeOK, ReactorTypeOK, reactorVars, mapVars, lockVars, socketVars
<1>4. sessionMapMutex \in {f, NoOne}
  BY DEF IInv, MapGuarded, PushCall, Lookup
<1>5. app.pc \notin LockedPcs
  BY <1>4, ReceiverAssumption, ReactorAssumption DEF IInv, MapGuarded
<1>6. \A g \in Feeders \ {f} : call[g] = Nobody
  BY <1>4, ReceiverAssumption DEF IInv, MapGuarded
<1>7. call \in [Feeders -> Sessions \cup {Nobody}]
  BY DEF IInv, TypeOK
<1>8. MapGuarded'
  <2>1. \A g \in Feeders \ {f} : call'[g] = Nobody
    BY <1>6, <1>7 DEF PushCall, Lookup
  <2>2. call'[f] # Nobody => sessionMapMutex' = f /\ call'[f] \in sessionMap
    BY <1>7 DEF PushCall, Lookup
  <2> QED  BY <1>1, <1>5, <2>1, <2>2 DEF IInv, MapGuarded
<1>9. CallbackGuarded' /\ Progress' /\ DeadUnknown'
  BY <1>1 DEF IInv, CallbackGuarded, InCallback, Progress, DeadUnknown, Unknown, Audio, Video,
              Socket, SocketsOf, reactorVars, mapVars, lockVars, socketVars
<1> QED  BY <1>3, <1>8, <1>9 DEF IInv

LEMMA ArriveKeeps ==
  ASSUME IInv, NEW k \in Sockets, Arrive(k)
  PROVE  IInv'
<1>1. pending' \in [Sockets -> Nat]
  BY DEF IInv, TypeOK, ReactorTypeOK, Arrive
<1>2. UNCHANGED <<mapVars, lockVars, open, t1, live, sessionMap, sessionMapMutex, app, call>>
  BY DEF Arrive
<1>3. TypeOK'
  BY <1>1, <1>2 DEF IInv, TypeOK, ReactorTypeOK, mapVars, lockVars
<1>4. MapGuarded' /\ CallbackGuarded' /\ Progress' /\ DeadUnknown'
  BY <1>2 DEF IInv, MapGuarded, CallbackGuarded, InCallback, Progress, DeadUnknown, Unknown,
              Audio, Video, Socket, SocketsOf, mapVars, lockVars
<1> QED  BY <1>3, <1>4 DEF IInv

-------------------------------------------------------------------------------
LEMMA InitIInv == Init => IInv
<1> SUFFICES ASSUME Init PROVE IInv
  OBVIOUS
<1> USE DEF Init, ReactorInit
<1>1. TypeOK
  BY DEF TypeOK, ReactorTypeOK, T1Pcs, Idle
<1>2. app.pc = "idle" /\ app = Idle
  BY DEF Idle
<1>3. MapGuarded /\ Progress
  BY <1>2 DEF MapGuarded, Progress, LockedPcs, AddPcs, DelPcs, DelSteps
<1>4. CallbackGuarded /\ DeadUnknown
  BY DEF CallbackGuarded, InCallback, DeadUnknown, Unknown
<1> QED  BY <1>1, <1>3, <1>4 DEF IInv

LEMMA StutterKeeps ==
  ASSUME IInv, UNCHANGED vars
  PROVE  IInv'
BY DEF vars, reactorVars, mapVars, lockVars, socketVars, IInv, TypeOK, ReactorTypeOK, MapGuarded,
       CallbackGuarded, InCallback, Progress, DeadUnknown, Unknown, Audio, Video, Socket, SocketsOf

LEMMA NextIInv == IInv /\ [Next]_vars => IInv'
<1> SUFFICES ASSUME IInv, [Next]_vars PROVE IInv'
  OBVIOUS
<1>1. CASE \E s \in Sessions : Add(s) \/ Del(s)
  BY <1>1, AddKeeps, DelKeeps
<1>2. CASE AddLock \/ DelLock
  BY <1>2, AddLockKeeps, DelLockKeeps
<1>3. CASE AppStep
  BY <1>3, RegisterKeeps, AddMapKeeps, UnregisterKeeps, DelCloseKeeps, DelFreeKeeps DEF AppStep
<1>4. CASE \E f \in Feeders : PushCall(f) \/ \E s \in Sessions : Lookup(f, s)
  BY <1>4, FeederKeeps
<1>5. CASE \E k \in Sockets : Arrive(k)
  BY <1>5, ArriveKeeps
<1>6. CASE T1Step
  BY <1>6, ReactorKeeps
<1>7. CASE UNCHANGED vars
  BY <1>7, StutterKeeps
<1> QED  BY <1>1, <1>2, <1>3, <1>4, <1>5, <1>6, <1>7 DEF Next

(* The invariant holds of every behaviour of the two components.           *)
THEOREM ReceiverInvariant == Spec => []IInv
BY InitIInv, NextIInv, PTL DEF Spec

-------------------------------------------------------------------------------
(* When delCaptureRtpSession of ReceiverCenter has returned and the        *)
(* session is deleted, no feeder and no callback works on it.              *)
THEOREM DeletedUnused == Spec => []NoUseAfterDelete
<1>1. ASSUME IInv PROVE NoUseAfterDelete
  <2> SUFFICES ASSUME NEW s \in Sessions, s \notin live PROVE Users(s) = {}
    BY DEF NoUseAfterDelete
  <2>1. ASSUME NEW f \in Feeders, call[f] = s PROVE FALSE
    <3>1. s # Nobody
      BY ReceiverAssumption DEF Nobody
    <3> QED  BY <1>1, <2>1, <3>1 DEF IInv, MapGuarded
  <2>2. ASSUME t1.pc \in {"read", "push"}, t1.at \in SocketsOf(s) PROVE FALSE
    <3>1. t1.at \in enabled
      BY <1>1, <2>2 DEF IInv, CallbackGuarded, InCallback
    <3>2. PICK m \in {"audio", "video"} : t1.at = <<s, m>>
      BY <2>2 DEF SocketsOf
    <3> QED  BY <1>1, <3>1, <3>2 DEF IInv, DeadUnknown, Unknown
  <2> QED  BY <2>1, <2>2 DEF Users
<1> QED  BY <1>1, ReceiverInvariant, PTL

(* The reactor has no notifier, event, observer or open socket of a        *)
(* deleted session.                                                        *)
THEOREM DeletedForgotten == Spec => []NothingLeft
<1>1. ASSUME IInv PROVE NothingLeft
  BY <1>1 DEF IInv, DeadUnknown, Unknown, NothingLeft, SocketsOf
<1> QED  BY <1>1, ReceiverInvariant, PTL

(* The two components keep their types, which is also: a datagram is only  *)
(* taken from a socket that has one.                                       *)
THEOREM ReceiverTypes == Spec => []TypeOK
<1>1. IInv => TypeOK
  BY DEF IInv
<1> QED  BY <1>1, ReceiverInvariant, PTL
================================================================================
