------------------------------- MODULE Recorder -------------------------------
(***************************************************************************)
(* What the SDK promises a disciplined program, without threads, locks,    *)
(* pointers or a pool: a session is opened and closed, after which its id  *)
(* may be given again; while it is open it accepts packets sent for it,    *)
(* each of them once and those of one source in the order they were sent;  *)
(* what it accepted is recorded in the order of acceptance and without a   *)
(* gap, until the session closes and drops the rest.  RTPCaptureSDK        *)
(* implements this specification.                                          *)
(***************************************************************************)
EXTENDS Integers, Sequences

CONSTANTS
  Ids,     (* Session ids.                                                    *)
  Packet   (* Packets, each with a session id to, a source via, a number n.   *)

VARIABLES
  status,    (* Of each session: none yet, open, closing or closed.           *)
  pending,   (* Packets accepted and not yet recorded.                        *)
  recorded   (* Packets recorded.                                             *)

vars == <<status, pending, recorded>>

Init ==
  /\ status = [id \in Ids |-> "none"]
  /\ pending = [id \in Ids |-> <<>>]
  /\ recorded = [id \in Ids |-> <<>>]

Move(id, from, to) ==
  /\ status[id] \in from
  /\ status' = [status EXCEPT ![id] = to]

Open(id) == Move(id, {"none", "closed"}, "open") /\ UNCHANGED <<pending, recorded>>

(* p comes after all that its source has sent for this session.            *)
Newest(id, p) ==
  LET older(q) == q.via = p.via => q.n < p.n
  IN  /\ \A i \in 1..Len(pending[id]) : older(pending[id][i])
      /\ \A i \in 1..Len(recorded[id]) : older(recorded[id][i])

Accept(id, p) ==
  /\ status[id] = "open"
  /\ p.to = id
  /\ Newest(id, p)
  /\ pending' = [pending EXCEPT ![id] = Append(@, p)]
  /\ UNCHANGED <<status, recorded>>

Record(id) ==
  /\ status[id] = "open"
  /\ pending[id] # <<>>
  /\ recorded' = [recorded EXCEPT ![id] = Append(@, Head(pending[id]))]
  /\ pending' = [pending EXCEPT ![id] = Tail(@)]
  /\ UNCHANGED status

StartClosing(id) == Move(id, {"open"}, "closing") /\ UNCHANGED <<pending, recorded>>

Drop(id) ==
  /\ status[id] = "closing"
  /\ pending[id] # <<>>
  /\ pending' = [pending EXCEPT ![id] = Tail(@)]
  /\ UNCHANGED <<status, recorded>>

Close(id) ==
  /\ pending[id] = <<>>
  /\ Move(id, {"closing"}, "closed")
  /\ UNCHANGED <<pending, recorded>>

Next ==
  \E id \in Ids :
    \/ Open(id)
    \/ \E p \in Packet : Accept(id, p)
    \/ Record(id)
    \/ StartClosing(id)
    \/ Drop(id)
    \/ Close(id)

Spec == Init /\ [][Next]_vars
===============================================================================
