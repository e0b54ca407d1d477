------------------------------ MODULE RTPSession ------------------------------
(***************************************************************************)
(* RTPSession (Header.h), the object that all parts of the SDK share       *)
(* through raw pointers: the receivers append to its bufferList, the       *)
(* capture thread removes from it, both under its bufferMutex, and         *)
(* RTPCaptureSDK creates and deletes it.  A session is named by its heap   *)
(* address, so that an address can be dangling and can be used again by a  *)
(* later `new'.                                                            *)
(***************************************************************************)
EXTENDS Integers, Sequences

CONSTANTS
  Sessions,   (* Heap addresses of RTPSession objects.                        *)
  Feeders,    (* Application threads that call onRTPData.                     *)
  Media,      (* The two sockets of a session that listens itself.            *)
  App,        (* The application thread that adds and deletes sessions.       *)
  T1,         (* The SocketReactor thread of ReceiverCenter.                  *)
  T2,         (* The thread of CaptureCenter.                                 *)
  NoOne,      (* The owner of a free mutex.                                   *)
  NULL,       (* The null pointer.                                            *)
  MaxInt      (* Largest int: the session counter wraps after it.             *)

ASSUME SessionAssumption ==
  /\ MaxInt \in Nat \ {0}
  /\ NULL \notin Sessions
  /\ Feeders \cap Media = {}
  /\ App # T2 /\ App # T1 /\ T1 # T2
  /\ {App, T1, T2} \cap Feeders = {}
  /\ NoOne \notin Feeders \cup {App, T1, T2}

VARIABLES
  live,            (* Addresses that hold an RTPSession.                      *)
  SessionCounter,  (* RTPSession::SessionCounter.                             *)
  sessionID,       (* SessionID, by address.                                  *)
  bufferMutex,     (* Owner of each session's bufferMutex.                    *)
  bufferList       (* Each session's bufferList.                              *)

sessionVars == <<live, SessionCounter, sessionID, bufferMutex, bufferList>>

Threads == Feeders \cup {App, T1, T2}
Ids == 0..MaxInt

(* A packet is only told from the others by the session id it was meant    *)
(* for, the thread or socket it came in through and its number.            *)
Packet == [to : Ids, via : Feeders \cup Media, n : Nat]

(* RTPSession::buffer_node, with the packet that its block holds.          *)
Node == [buffer : Nat \ {0}, len : Int, pkt : Packet]

SessionTypeOK ==
  /\ live \in SUBSET Sessions
  /\ SessionCounter \in Ids
  /\ sessionID \in [Sessions -> Ids]
  /\ bufferMutex \in [Sessions -> Threads \cup {NoOne}]
  /\ bufferList \in [Sessions -> Seq(Node)]

SessionInit ==
  /\ live = {}
  /\ SessionCounter = 0
  /\ sessionID = [s \in Sessions |-> 0]
  /\ bufferMutex = [s \in Sessions |-> NoOne]
  /\ bufferList = [s \in Sessions |-> <<>>]

(* Mutant: the constructor does not look at the overflow.                  *)
NextIdUnchecked == SessionCounter + 1

(* ++SessionCounter of a 32 bit int: the overflow gives the smallest int,  *)
(* which the constructor replaces by 0.                                    *)
NextId == IF SessionCounter = MaxInt THEN 0 ELSE SessionCounter + 1

(* `new RTPSession' at address s.                                          *)
NewSession(s) ==
  /\ s \notin live
  /\ live' = live \cup {s}
  /\ SessionCounter' = NextId
  /\ sessionID' = [sessionID EXCEPT ![s] = NextId]
  /\ bufferMutex' = [bufferMutex EXCEPT ![s] = NoOne]
  /\ bufferList' = [bufferList EXCEPT ![s] = <<>>]

(* `delete' of the session at s: its bufferList goes with it, the blocks   *)
(* that the list still names do not return to the pool.                    *)
DeleteSession(s) ==
  /\ live' = live \ {s}
  /\ bufferList' = [bufferList EXCEPT ![s] = <<>>]
  /\ UNCHANGED <<SessionCounter, sessionID, bufferMutex>>

LockBuffer(s, thread) ==
  /\ bufferMutex[s] = NoOne
  /\ bufferMutex' = [bufferMutex EXCEPT ![s] = thread]
  /\ UNCHANGED <<live, SessionCounter, sessionID, bufferList>>

(* Mutant: the node goes to the front of the list.                         *)
PushFront(list, node) == <<node>> \o list
PushBack(list, node) == Append(list, node)

(* A receiver's { ScopedLock lock(bufferMutex); bufferList.push_back(node) *)
(* } through a pointer that may dangle.  While the address holds a session *)
(* - the one the pointer was made for or a later one - the push waits for  *)
(* that session's mutex and appends to its list.  When it holds none, the  *)
(* freed memory is written: a thread that survives it goes on, and nobody  *)
(* has the block any more.  (A process that the write kills is a behaviour *)
(* that stops here.)                                                       *)
Push(s, node) ==
  /\ s \in live => bufferMutex[s] = NoOne
  /\ bufferList' = IF s \in live
                   THEN [bufferList EXCEPT ![s] = PushBack(@, node)]
                   ELSE bufferList
  /\ UNCHANGED <<live, SessionCounter, sessionID, bufferMutex>>

(* bufferList.erase(bufferList.begin()), by the owner of the mutex.        *)
PopFront(s) ==
  /\ bufferList[s] # <<>>
  /\ bufferList' = [bufferList EXCEPT ![s] = Tail(@)]
  /\ UNCHANGED <<live, SessionCounter, sessionID, bufferMutex>>
===============================================================================
