---------------------------------- MODULE CApi ----------------------------------
(***************************************************************************)
(* The C API (RTPCapture.cpp): three functions over a global RTPCaptureSDK *)
(* which the first addCaptureRtpSession creates.  Adders call add and      *)
(* delete, Feeders call onRTPData, also with ids that are not theirs and   *)
(* before there is an SDK.                                                 *)
(*                                                                         *)
(* `if(sdk == NULL) sdk = new RTPCaptureSDK' has no lock, and the          *)
(* constructor, which starts two threads, takes its time: the test, the    *)
(* store and the use of `sdk' are steps of their own.  A call of an SDK is *)
(* one step; module RTPCaptureSDK looks inside.  A session is its id,      *)
(* which comes from a static counter that all SDKs share.                  *)
(***************************************************************************)
EXTENDS Integers, FiniteSets

CONSTANTS
  Adders,        (* Threads that add and delete sessions.                     *)
  Feeders,       (* Threads that hand in packets.                             *)
  NULL,          (* The null pointer, and no id.                              *)
  MaxAdds,       (* Bound: calls of addCaptureRtpSession.                     *)
  MaxFeeds       (* Bound: packets handed in.                                 *)

ASSUME ApiAssumption ==
  /\ Adders \cap Feeders = {}
  /\ NULL \notin Int
  /\ MaxAdds \in Nat \ {0}

VARIABLES
  sdk,             (* The global pointer: NULL or the number of an SDK.       *)
  created,         (* SDKs constructed so far.                                *)
  SessionCounter,  (* RTPSession::SessionCounter; adds so far.                *)
  sessions,        (* For each SDK the sessions it knows.                     *)
  held,            (* Sessions that the program has.                          *)
  calls,           (* What each thread is in the middle of.                   *)
  fed,             (* Packets handed in so far.                               *)
  missed           (* Sessions of the program that a packet handed in for     *)
                   (* them did not get to.                                    *)

vars == <<sdk, created, SessionCounter, sessions, held, calls, fed, missed>>

Idle == [pc |-> "idle", arg |-> NULL]

Init ==
  /\ sdk = NULL /\ created = 0 /\ SessionCounter = 0
  /\ sessions = [n \in 1..MaxAdds |-> {}]
  /\ held = {} /\ fed = 0 /\ missed = {}
  /\ calls = [t \in Adders \cup Feeders |-> Idle]

InCall(t, pc) == calls[t].pc = pc
Goto(t, pc) == calls' = [calls EXCEPT ![t].pc = pc]

-------------------------------------------------------------------------------
(* int addCaptureRtpSession(char* fileName, int videoFrequency)            *)
AddCall(t) ==
  /\ InCall(t, "idle")
  /\ SessionCounter + Cardinality({u \in Adders : ~InCall(u, "idle")}) < MaxAdds
  /\ calls' = [calls EXCEPT ![t] = [pc |-> "add", arg |-> NULL]]
  /\ UNCHANGED <<sdk, created, SessionCounter, sessions, held, fed, missed>>

(* Mutant: every add makes an SDK.                                         *)
NeedsSdkAlways == TRUE
NeedsSdk == sdk = NULL

AddTest(t) ==
  /\ InCall(t, "add")
  /\ Goto(t, IF NeedsSdk THEN "create" ELSE "use")
  /\ UNCHANGED <<sdk, created, SessionCounter, sessions, held, fed, missed>>

AddCreate(t) ==
  /\ InCall(t, "create")
  /\ created' = created + 1
  /\ sdk' = created + 1
  /\ Goto(t, "use")
  /\ UNCHANGED <<SessionCounter, sessions, held, fed, missed>>

(* return sdk->addCaptureRtpSession(fileName, 90000)                       *)
AddUse(t) ==
  LET id == SessionCounter + 1
  IN  /\ InCall(t, "use")
      /\ SessionCounter' = id
      /\ sessions' = [sessions EXCEPT ![sdk] = @ \cup {id}]
      /\ held' = held \cup {id}
      /\ calls' = [calls EXCEPT ![t] = Idle]
      /\ UNCHANGED <<sdk, created, fed, missed>>

(* void delCaptureRtpSession(int session), of a session that the program   *)
(* has, so that sdk is not NULL.  One thread deletes a session once.       *)
Del(t, id) ==
  /\ InCall(t, "idle")
  /\ id \in held
  /\ held' = held \ {id}
  /\ sessions' = [sessions EXCEPT ![sdk] = @ \ {id}]
  /\ UNCHANGED <<sdk, created, SessionCounter, calls, fed, missed>>

(* void onRTPData(int session, char* data, int len), with any id.  When    *)
(* there is no SDK, or it knows no such session, the packet is dropped.    *)
FeedCall(t, id) ==
  /\ InCall(t, "idle")
  /\ fed < MaxFeeds
  /\ fed' = fed + 1
  /\ calls' = [calls EXCEPT ![t] = [pc |-> "feed", arg |-> id]]
  /\ UNCHANGED <<sdk, created, SessionCounter, sessions, held, missed>>

Misses(id) == missed' = missed \cup (held \cap {id})

FeedTest(t) ==
  /\ InCall(t, "feed")
  /\ IF sdk = NULL
     THEN calls' = [calls EXCEPT ![t] = Idle] /\ Misses(calls[t].arg)
     ELSE Goto(t, "push") /\ UNCHANGED missed
  /\ UNCHANGED <<sdk, created, SessionCounter, sessions, held, fed>>

FeedUse(t) ==
  /\ InCall(t, "push")
  /\ IF calls[t].arg \in sessions[sdk]
     THEN UNCHANGED missed
     ELSE Misses(calls[t].arg)
  /\ calls' = [calls EXCEPT ![t] = Idle]
  /\ UNCHANGED <<sdk, created, SessionCounter, sessions, held, fed>>

Next ==
  \/ \E t \in Adders : \/ AddCall(t) \/ AddTest(t) \/ AddCreate(t) \/ AddUse(t)
                       \/ \E id \in held : Del(t, id)
  \/ \E t \in Feeders : \/ \E id \in 0..MaxAdds : FeedCall(t, id)
                        \/ FeedTest(t) \/ FeedUse(t)

Spec == Init /\ [][Next]_vars

-------------------------------------------------------------------------------
(* The program's sessions stay within reach: each id that add returned and *)
(* nobody deleted leads, through the global pointer of the moment, to its  *)
(* session, and a packet handed in for it got there.  This is so when one  *)
(* thread adds; with two, the second SDK replaces the first and hides the  *)
(* sessions that it has.                                                   *)
EachReachable ==
  /\ held # {} => held \subseteq sessions[sdk]
  /\ missed = {}
================================================================================
