----------------------------- MODULE SocketReactor -----------------------------
(***************************************************************************)
(* Poco's SocketReactor, SocketNotifier and NotificationCenter with one    *)
(* NObserver for each socket, which is how RTPHandler uses them: thread T1 *)
(* polls the registered sockets and calls their observers, while another   *)
(* thread registers and removes observers.                                 *)
(*                                                                         *)
(* The reactor's _mutex guards _handlers for the time of a look only, so   *)
(* what is done under it is one step.  The mutex of a notifier's           *)
(* NotificationCenter is kept while an observer is disabled, and an        *)
(* observer's own mutex while its callback runs.                           *)
(***************************************************************************)
EXTENDS Integers

CONSTANTS
  Sockets,   (* Addresses of socket objects.                                  *)
  Failing,   (* Sockets whose callback throws (available() fails, ...).       *)
  NoSocket,  (* No socket at hand.                                            *)
  T1,        (* The reactor's thread.                                         *)
  App,       (* The thread that registers and removes.                        *)
  NoOne      (* The owner of a free mutex.                                    *)

ASSUME ReactorAssumption ==
  /\ Failing \subseteq Sockets
  /\ NoSocket \notin Sockets
  /\ T1 # App /\ NoOne \notin {T1, App}

VARIABLES
  handlers,       (* Keys of _handlers: sockets with a notifier.              *)
  events,         (* Sockets whose notifier's _events has the readable one.   *)
  observers,      (* Sockets whose notifier has its observer.                 *)
  enabled,        (* Sockets whose observer still has its object.             *)
  centerMutex,    (* Owner of each notifier's NotificationCenter::_mutex.     *)
  observerMutex,  (* Owner of each observer's _mutex.                         *)
  pending,        (* Datagrams in each socket.                                *)
  open,           (* Sockets that are not closed.                             *)
  t1              (* Where run() is: its pc, the sockets of its list, the one *)
                  (* at hand.                                                 *)

mapVars == <<handlers, events, observers, enabled>>
lockVars == <<centerMutex, observerMutex>>
socketVars == <<pending, open>>
reactorVars == <<mapVars, lockVars, socketVars, t1>>

T1Pcs == {"collect", "select", "round", "post", "notify", "read", "push"}

ReactorTypeOK ==
  /\ handlers \subseteq Sockets /\ events \subseteq Sockets
  /\ observers \subseteq Sockets /\ enabled \subseteq Sockets
  /\ centerMutex \in [Sockets -> {App, NoOne}]
  /\ observerMutex \in [Sockets -> {T1, NoOne}]
  /\ pending \in [Sockets -> Nat] /\ open \subseteq Sockets
  /\ t1 \in [pc : T1Pcs, list : SUBSET Sockets, at : Sockets \cup {NoSocket}]

ReactorInit ==
  /\ handlers = {} /\ events = {} /\ observers = {} /\ enabled = {}
  /\ centerMutex = [k \in Sockets |-> NoOne]
  /\ observerMutex = [k \in Sockets |-> NoOne]
  /\ pending = [k \in Sockets |-> 0]
  /\ open = {}
  /\ t1 = [pc |-> "collect", list |-> {}, at |-> NoSocket]

(* T1's list and its socket at hand are counted references.                *)
Referenced(k) == k \in t1.list \/ t1.at = k

-------------------------------------------------------------------------------
(* addEventHandler in its steps.                                           *)

InsertNotifier(k) ==
  /\ handlers' = handlers \cup {k}
  /\ UNCHANGED <<events, observers, enabled, lockVars, socketVars, t1>>

AddObserver(k) ==
  /\ centerMutex[k] = NoOne
  /\ observers' = observers \cup {k}
  /\ enabled' = enabled \cup {k}
  /\ UNCHANGED <<handlers, events, lockVars, socketVars, t1>>

InsertEvent(k) ==
  /\ events' = events \cup {k}
  /\ UNCHANGED <<handlers, observers, enabled, lockVars, socketVars, t1>>

(* removeEventHandler in its steps.  Its notifier is out of the map before *)
(* the observer is touched.                                                *)
EraseNotifier(k) ==
  /\ handlers' = handlers \ {k}
  /\ UNCHANGED <<events, observers, enabled, lockVars, socketVars, t1>>

LockCenter(k) ==
  /\ centerMutex[k] = NoOne
  /\ centerMutex' = [centerMutex EXCEPT ![k] = App]
  /\ UNCHANGED <<mapVars, observerMutex, socketVars, t1>>

(* Mutant: the observer leaves the list but keeps its object.              *)
ForgetOnly(k) == UNCHANGED enabled

(* disable() waits for a callback that runs.                               *)
Disable(k) == observerMutex[k] = NoOne /\ enabled' = enabled \ {k}

RemoveObserver(k) ==
  /\ Disable(k)
  /\ observers' = observers \ {k}
  /\ centerMutex' = [centerMutex EXCEPT ![k] = NoOne]
  /\ UNCHANGED <<handlers, events, observerMutex, socketVars, t1>>

EraseEvent(k) ==
  /\ events' = events \ {k}
  /\ UNCHANGED <<handlers, observers, enabled, lockVars, socketVars, t1>>

-------------------------------------------------------------------------------
(* SocketReactor::run.                                                     *)

Collect ==
  /\ t1.pc = "collect"
  /\ handlers \cap events # {}
  /\ t1' = [t1 EXCEPT !.pc = "select", !.list = handlers \cap events]
  /\ UNCHANGED <<mapVars, lockVars, socketVars>>

(* select() returns the readable sockets, or none after its timeout.  It   *)
(* may also return a socket in which nothing turns out to be (one that is  *)
(* closed meanwhile, an empty datagram, one with a bad checksum), and it   *)
(* throws for a socket that is closed.                                     *)
Select ==
  /\ t1.pc = "select"
  /\ \/ \E spurious \in SUBSET t1.list :
          t1' = [t1 EXCEPT !.pc = "round",
                           !.list = {k \in @ \cap open : pending[k] > 0} \cup spurious]
     \/ /\ ~(t1.list \subseteq open)
        /\ t1' = [t1 EXCEPT !.pc = "collect", !.list = {}]
  /\ UNCHANGED <<mapVars, lockVars, socketVars>>

(* dispatch: a socket that is registered no more is passed over.           *)
Dispatch ==
  /\ t1.pc = "round"
  /\ \E k \in t1.list :
       t1' = IF k \in handlers THEN [pc |-> "post", list |-> t1.list \ {k}, at |-> k]
             ELSE [t1 EXCEPT !.list = @ \ {k}]
  /\ UNCHANGED <<mapVars, lockVars, socketVars>>

EndRound ==
  /\ t1.pc = "round"
  /\ t1.list = {}
  /\ t1' = [t1 EXCEPT !.pc = "collect"]
  /\ UNCHANGED <<mapVars, lockVars, socketVars>>

Done == [t1 EXCEPT !.pc = "round", !.at = NoSocket]

(* postNotification copies the observers, then calls each.                 *)
Post ==
  /\ t1.pc = "post"
  /\ centerMutex[t1.at] = NoOne
  /\ t1' = IF t1.at \in observers THEN [t1 EXCEPT !.pc = "notify"] ELSE Done
  /\ UNCHANGED <<mapVars, lockVars, socketVars>>

(* NObserver::notify keeps its mutex for the callback.                     *)
Notify ==
  /\ t1.pc = "notify"
  /\ observerMutex[t1.at] = NoOne
  /\ IF t1.at \in enabled
     THEN /\ t1' = [t1 EXCEPT !.pc = "read"]
          /\ observerMutex' = [observerMutex EXCEPT ![t1.at] = T1]
     ELSE t1' = Done /\ UNCHANGED observerMutex
  /\ UNCHANGED <<mapVars, centerMutex, socketVars>>

Return ==
  /\ t1' = Done
  /\ observerMutex' = [observerMutex EXCEPT ![t1.at] = NoOne]

(* Mutants: the exception ends the whole round; the observer's mutex is    *)
(* not released by it.                                                     *)
AbortRound ==
  /\ t1' = [pc |-> "collect", list |-> {}, at |-> NoSocket]
  /\ observerMutex' = [observerMutex EXCEPT ![t1.at] = NoOne]
StayLocked == t1' = Done /\ UNCHANGED observerMutex

(* An exception of the callback is handled by dispatch.                    *)
Thrown == Return

RunStep == Collect \/ Select \/ Dispatch \/ EndRound \/ Post \/ Notify
===============================================================================
