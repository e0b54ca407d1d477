------------------------------ MODULE CaptureStop ------------------------------
(***************************************************************************)
(* ~CaptureCenter: m_stop = true and join, while T2 records and receivers  *)
(* go on pushing without an end.  T2 looks at m_stop between two rounds    *)
(* only, so the join returns only if each round ends, however fast packets *)
(* come in.  What ends a round is that T2 keeps a session's bufferMutex    *)
(* while it drains the session's list.                                     *)
(*                                                                         *)
(* Packets are only counted here (module CaptureCenter tells them apart),  *)
(* so that their number needs no bound: the blocks of the pool limit how   *)
(* many are queued at one time.  Nobody adds or deletes sessions while the *)
(* center is destroyed, so that m_sessionVectorMutex, which T2 takes for a *)
(* round, is never waited for.  A receiver's push, from lock to unlock of  *)
(* bufferMutex, is one step: that receivers hand this mutex on among       *)
(* themselves for ever, past T2 which waits for it, is assumed away.       *)
(***************************************************************************)
EXTENDS Integers

CONSTANTS
  NumSessions,   (* Length of m_sessionVector.                                *)
  NumBlocks      (* Blocks of the pool: its maximum (20000 in the SDK).       *)

ASSUME StopAssumption == NumSessions \in Nat /\ NumBlocks \in Nat \ {0}

VARIABLES
  m_stop,        (* Set by the destructor, read by T2.                        *)
  joined,        (* m_thread.join() has returned.                             *)
  available,     (* Free blocks of the pool.                                  *)
  filled,        (* Blocks that receivers have taken and not yet queued.      *)
  bufferList,    (* Packets queued, by position of the session in the vector. *)
  t2             (* pc, iterator, and whether it has a block in hand.         *)

vars == <<m_stop, joined, available, filled, bufferList, t2>>

Positions == 1..NumSessions

Init ==
  /\ m_stop = FALSE /\ joined = FALSE
  /\ available = NumBlocks /\ filled = 0
  /\ bufferList = [i \in Positions |-> 0]
  /\ t2 = [pc |-> "look", it |-> 1, inHand |-> 0]

TypeOK ==
  /\ m_stop \in BOOLEAN /\ joined \in BOOLEAN
  /\ available \in 0..NumBlocks /\ filled \in 0..NumBlocks
  /\ bufferList \in [Positions -> 0..NumBlocks]
  /\ t2 \in [pc : {"look", "scan", "drain", "record", "ended"},
             it : 1..(NumSessions + 1), inHand : {0, 1}]

-------------------------------------------------------------------------------
(* The receivers.  get() throws when no block is free: nothing changes.    *)
GetBlock ==
  /\ available > 0
  /\ available' = available - 1 /\ filled' = filled + 1
  /\ UNCHANGED <<m_stop, joined, bufferList, t2>>

(* Whether T2 holds the bufferMutex of the session at position i.          *)
HeldForList(i) == t2.pc \in {"drain", "record"} /\ t2.it = i

(* Mutant: T2 locks bufferMutex for taking one packet, not for the list.   *)
HeldForPacket(i) == FALSE
BufferHeld(i) == HeldForList(i)

Push(i) ==
  /\ filled > 0
  /\ ~BufferHeld(i)
  /\ filled' = filled - 1
  /\ bufferList' = [bufferList EXCEPT ![i] = @ + 1]
  /\ UNCHANGED <<m_stop, joined, available, t2>>

Receivers == GetBlock \/ \E i \in Positions : Push(i)

-------------------------------------------------------------------------------
(* run().  `while(!m_stop)', between two rounds.                           *)
Look ==
  /\ t2.pc = "look"
  /\ t2' = IF m_stop THEN [t2 EXCEPT !.pc = "ended"]
                     ELSE [t2 EXCEPT !.pc = "scan", !.it = 1]
  /\ UNCHANGED <<m_stop, joined, available, filled, bufferList>>

Scan ==
  /\ t2.pc = "scan"
  /\ t2' = [t2 EXCEPT !.pc = IF t2.it \in Positions THEN "drain" ELSE "look"]
  /\ UNCHANGED <<m_stop, joined, available, filled, bufferList>>

Take ==
  /\ t2.pc = "drain" /\ bufferList[t2.it] > 0
  /\ bufferList' = [bufferList EXCEPT ![t2.it] = @ - 1]
  /\ t2' = [t2 EXCEPT !.pc = "record", !.inHand = 1]
  /\ UNCHANGED <<m_stop, joined, available, filled>>

(* Mutant: the release of the block is forgotten after a stop.             *)
ReturnedUnlessStopped == IF m_stop THEN 0 ELSE t2.inHand
Returned == t2.inHand

(* rtpHandler has returned: the block goes back to the pool.               *)
FinishRecord ==
  /\ t2.pc = "record"
  /\ available' = available + Returned
  /\ t2' = [t2 EXCEPT !.pc = "drain", !.inHand = 0]
  /\ UNCHANGED <<m_stop, joined, filled, bufferList>>

NextSession ==
  /\ t2.pc = "drain" /\ bufferList[t2.it] = 0
  /\ t2' = [t2 EXCEPT !.pc = "scan", !.it = @ + 1]
  /\ UNCHANGED <<m_stop, joined, available, filled, bufferList>>

T2Step == Look \/ Scan \/ Take \/ FinishRecord \/ NextSession

-------------------------------------------------------------------------------
(* ~CaptureCenter.                                                         *)
Stop ==
  /\ ~m_stop
  /\ m_stop' = TRUE
  /\ UNCHANGED <<joined, available, filled, bufferList, t2>>

Join ==
  /\ m_stop /\ ~joined /\ t2.pc = "ended"
  /\ joined' = TRUE
  /\ UNCHANGED <<m_stop, available, filled, bufferList, t2>>

Next == Receivers \/ T2Step \/ Stop \/ Join

Spec == Init /\ [][Next]_vars

(* T2 and the destructor run whenever they can.  Receivers need not.       *)
FairSpec == Spec /\ WF_vars(T2Step) /\ WF_vars(Join)

-------------------------------------------------------------------------------
(* How many packets are queued: those of the first i sessions, for i up to *)
(* all of them.                                                            *)
QueuedUpTo(list) ==
  LET queued[i \in 0..NumSessions] == IF i = 0 THEN 0 ELSE queued[i - 1] + list[i]
  IN  queued
Queued == QueuedUpTo(bufferList)[NumSessions]

(* No block is lost by stopping, in whichever step T2 is when it is told   *)
(* to: each is free, with a receiver, queued, or in T2's hand.             *)
BlocksAccounted ==
  /\ TypeOK
  /\ available + filled + t2.inHand + Queued = NumBlocks

(* The destructor returns, although receivers never pause: a round cannot  *)
(* be prolonged by packets that come in meanwhile.                         *)
StopReturns == m_stop ~> joined
================================================================================
