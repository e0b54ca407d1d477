------------------------------ MODULE CApi_proofs ------------------------------
(***************************************************************************)
(* The C API keeps its sessions within reach when one thread adds, however *)
(* many threads hand in packets.                                           *)
(***************************************************************************)
EXTENDS CApi, TLAPS

(* One thread adds and deletes, which is how the C demo uses the SDK.      *)
OneAdder == \E a \in Adders : Adders = {a}

CallTypes ==
  /\ calls \in [Adders \cup Feeders ->
                  [pc : {"idle", "add", "create", "use", "feed", "push"}, arg : Int \cup {NULL}]]
  /\ \A t \in Feeders : calls[t].pc \in {"idle", "feed", "push"}
  /\ \A t \in Adders : calls[t].pc \in {"idle", "add", "create", "use"}

(* There is one SDK, from the moment that the first add stores it, and it  *)
(* knows all the program's sessions.                                       *)
OneSdk ==
  /\ \/ sdk = NULL /\ created = 0 /\ held = {}
     \/ sdk = 1 /\ created = 1 /\ held \subseteq sessions[1]
  /\ \A t \in Adders : /\ calls[t].pc = "create" => sdk = NULL
                       /\ calls[t].pc = "use" => sdk = 1
  /\ \A t \in Feeders : calls[t].pc = "push" => sdk = 1
  /\ missed = {}

IInv == CallTypes /\ OneSdk /\ sessions \in [1..MaxAdds -> SUBSET Int] /\ SessionCounter \in Int

LEMMA InitIInv == Init => IInv
  BY ApiAssumption, SMT DEF Init, IInv, CallTypes, OneSdk, Idle

LEMMA AdderKeeps ==
  ASSUME IInv, OneAdder, NEW t \in Adders,
         AddCall(t) \/ AddTest(t) \/ AddCreate(t) \/ AddUse(t) \/ \E id \in held : Del(t, id)
  PROVE  IInv'
<1> USE ApiAssumption DEF InCall, Goto
<1>1. \A u \in Adders : u = t
  BY DEF OneAdder
<1>2. t \notin Feeders
  OBVIOUS
<1>3. CASE AddCall(t)
  BY <1>1, <1>2, <1>3, SMT DEF AddCall, IInv, CallTypes, OneSdk
<1>4. CASE AddTest(t)
  BY <1>1, <1>2, <1>4, SMT DEF AddTest, NeedsSdk, IInv, CallTypes, OneSdk
<1>5. CASE AddCreate(t)
  BY <1>1, <1>2, <1>5, SMT DEF AddCreate, IInv, CallTypes, OneSdk
<1>6. CASE AddUse(t)
  BY <1>1, <1>2, <1>6, SMT DEF AddUse, Idle, IInv, CallTypes, OneSdk
<1>7. CASE \E id \in held : Del(t, id)
  BY <1>1, <1>2, <1>7, SMT DEF Del, IInv, CallTypes, OneSdk
<1> QED
  BY <1>3, <1>4, <1>5, <1>6, <1>7

LEMMA FeederKeeps ==
  ASSUME IInv, NEW t \in Feeders,
         (\E id \in 0..MaxAdds : FeedCall(t, id)) \/ FeedTest(t) \/ FeedUse(t)
  PROVE  IInv'
<1> USE ApiAssumption DEF InCall, Goto
<1>1. t \notin Adders
  OBVIOUS
<1>2. CASE \E id \in 0..MaxAdds : FeedCall(t, id)
  BY <1>1, <1>2, SMTT(30) DEF FeedCall, IInv, CallTypes, OneSdk
<1>3. CASE FeedTest(t)
  BY <1>1, <1>3, SMTT(30) DEF FeedTest, Misses, Idle, IInv, CallTypes, OneSdk
<1>4. CASE FeedUse(t)
  BY <1>1, <1>4, SMTT(30) DEF FeedUse, Misses, Idle, IInv, CallTypes, OneSdk
<1> QED
  BY <1>2, <1>3, <1>4

LEMMA NextIInv == OneAdder /\ IInv /\ [Next]_vars => IInv'
<1> SUFFICES ASSUME OneAdder, IInv, [Next]_vars PROVE IInv'
  OBVIOUS
<1>1. CASE Next
  BY <1>1, AdderKeeps, FeederKeeps DEF Next
<1>2. CASE UNCHANGED vars
  BY <1>2, SMT DEF vars, IInv, CallTypes, OneSdk
<1> QED
  BY <1>1, <1>2

(* Each session that an add returned and nobody deleted is one of the SDK  *)
(* that the global pointer names, and no packet for it met a NULL pointer  *)
(* or another SDK, for one adding thread and any number of feeders.        *)
THEOREM Reachable == OneAdder => (Spec => []EachReachable)
<1>1. IInv => EachReachable
  BY SMT DEF IInv, OneSdk, EachReachable
<1> SUFFICES ASSUME OneAdder PROVE Spec => []EachReachable
  OBVIOUS
<1>2. IInv /\ [Next]_vars => IInv'
  BY NextIInv
<1> QED
  BY InitIInv, <1>1, <1>2, PTL DEF Spec
===============================================================================
