---------------------------- MODULE CaptureCenter -----------------------------
(***************************************************************************)
(* CaptureCenter: the consumer of packets.  Its thread T2 goes round all   *)
(* sessions of m_sessionVector and hands every queued packet to the        *)
(* session's RTPDump.  It keeps m_sessionVectorMutex for the whole round   *)
(* and a session's bufferMutex until that session's list is empty, also    *)
(* while RTPDump writes.  Sessions are added and removed by the            *)
(* application thread under the same mutexes.                              *)
(*                                                                         *)
(* usleep(100) after a round without work delays T2 but decides nothing;   *)
(* hasTask is left out with it.  The SDK never destroys its CaptureCenter, *)
(* so m_stop stays false.                                                  *)
(***************************************************************************)
EXTENDS MemoryPool, RTPSession, SequencesExt

VARIABLES
  sessionVector,       (* m_sessionVector.                                    *)
  sessionVectorMutex,  (* Owner of m_sessionVectorMutex.                      *)
  rtpDump,             (* Sessions whose rtpDump is an RTPDump object.        *)
  t2,                  (* Where run() is: its pc, the iterator, the block in  *)
                       (* hand.                                               *)
  recorded             (* Packets that the RTPDump of each session id got.    *)

captureVars == <<sessionVector, sessionVectorMutex, rtpDump, t2, recorded>>

T2Pcs == {"idle", "scan", "drain", "release"}

CaptureTypeOK ==
  /\ sessionVector \in Seq(Sessions)
  /\ sessionVectorMutex \in {App, T2, NoOne}
  /\ rtpDump \in SUBSET Sessions
  /\ t2 \in [pc : T2Pcs, it : Nat \ {0}, buffer : Nat]
  /\ recorded \in [Ids -> Seq(Packet)]

CaptureInit ==
  /\ sessionVector = <<>>
  /\ sessionVectorMutex = NoOne
  /\ rtpDump = {}
  /\ t2 = [pc |-> "idle", it |-> 1, buffer |-> 0]
  /\ recorded = [id \in Ids |-> <<>>]

-------------------------------------------------------------------------------
(* addCaptureRtpSession: a new RTPDump, under the vector's mutex.          *)
CaptureAdd(s) ==
  /\ sessionVectorMutex = NoOne
  /\ rtpDump' = rtpDump \cup {s}
  /\ sessionVector' = Append(sessionVector, s)
  /\ UNCHANGED <<sessionVectorMutex, t2, recorded>>

(* delCaptureRtpSession in its steps: lock the vector and look for the     *)
(* session; when it is there lock its bufferMutex (RTPSession!LockBuffer), *)
(* give the blocks of the list back one by one, then delete the RTPDump,   *)
(* erase the session and unlock both.                                      *)
InVector(s) == \E i \in 1..Len(sessionVector) : sessionVector[i] = s

CaptureDelFind(s) ==
  /\ sessionVectorMutex = NoOne
  /\ sessionVectorMutex' = IF InVector(s) THEN App ELSE NoOne
  /\ UNCHANGED <<sessionVector, rtpDump, t2, recorded>>

CaptureDelDrain(s) ==
  /\ PopFront(s)
  /\ Release(Head(bufferList[s]).buffer)
  /\ UNCHANGED captureVars

(* Mutant: the session stays in the vector.                                *)
KeepSession(s) == UNCHANGED sessionVector
EraseSession(s) ==
  \E i \in 1..Len(sessionVector) :
    /\ sessionVector[i] = s
    /\ \A j \in 1..(i - 1) : sessionVector[j] # s
    /\ sessionVector' = RemoveAt(sessionVector, i)

CaptureDelErase(s) ==
  /\ bufferList[s] = <<>>
  /\ rtpDump' = rtpDump \ {s}
  /\ EraseSession(s)
  /\ sessionVectorMutex' = NoOne
  /\ bufferMutex' = [bufferMutex EXCEPT ![s] = NoOne]
  /\ UNCHANGED <<t2, recorded, live, SessionCounter, sessionID, bufferList, poolVars>>

-------------------------------------------------------------------------------
(* CaptureCenter::run.                                                     *)

Current == sessionVector[t2.it]

(* Mutant: the round ends one session too early.                           *)
PastEndEarly == t2.it >= Len(sessionVector)
PastEnd == t2.it > Len(sessionVector)

StartRound ==
  /\ t2.pc = "idle"
  /\ sessionVectorMutex = NoOne
  /\ sessionVectorMutex' = T2
  /\ t2' = [t2 EXCEPT !.pc = "scan", !.it = 1]
  /\ UNCHANGED <<sessionVector, rtpDump, recorded, poolVars, sessionVars>>

EnterSession ==
  /\ t2.pc = "scan"
  /\ ~PastEnd
  /\ LockBuffer(Current, T2)
  /\ t2' = [t2 EXCEPT !.pc = "drain"]
  /\ UNCHANGED <<sessionVector, sessionVectorMutex, rtpDump, recorded, poolVars>>

(* Mutant: the block is released before rtpHandler reads it.               *)
ReleaseFirst(b) == Release(b)
KeepBlock(b) == UNCHANGED poolVars

(* One packet out of the list and into RTPDump::rtpHandler.                *)
Record ==
  /\ t2.pc = "drain"
  /\ PopFront(Current)
  /\ LET node == Head(bufferList[Current])
     IN  /\ recorded' = [recorded EXCEPT ![sessionID[Current]] = Append(@, node.pkt)]
         /\ t2' = [t2 EXCEPT !.pc = "release", !.buffer = node.buffer]
         /\ KeepBlock(node.buffer)
  /\ UNCHANGED <<sessionVector, sessionVectorMutex, rtpDump>>

ReleaseRecorded ==
  /\ t2.pc = "release"
  /\ Release(t2.buffer)
  /\ t2' = [t2 EXCEPT !.pc = "drain", !.buffer = 0]
  /\ UNCHANGED <<sessionVector, sessionVectorMutex, rtpDump, recorded, sessionVars>>

LeaveSession ==
  /\ t2.pc = "drain"
  /\ bufferList[Current] = <<>>
  /\ bufferMutex' = [bufferMutex EXCEPT ![Current] = NoOne]
  /\ t2' = [t2 EXCEPT !.pc = "scan", !.it = @ + 1]
  /\ UNCHANGED <<sessionVector, sessionVectorMutex, rtpDump, recorded, poolVars,
                 live, SessionCounter, sessionID, bufferList>>

EndRound ==
  /\ t2.pc = "scan"
  /\ PastEnd
  /\ sessionVectorMutex' = NoOne
  /\ t2' = [t2 EXCEPT !.pc = "idle", !.it = 1]
  /\ UNCHANGED <<sessionVector, rtpDump, recorded, poolVars, sessionVars>>

T2Step ==
  \/ StartRound \/ EnterSession \/ Record \/ ReleaseRecorded \/ LeaveSession \/ EndRound
===============================================================================
