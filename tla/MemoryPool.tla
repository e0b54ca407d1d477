------------------------------ MODULE MemoryPool ------------------------------
(***************************************************************************)
(* The Poco::MemoryPool that ReceiverCenter owns and CaptureCenter shares: *)
(* every RTP packet travels from the receivers to the capture thread in    *)
(* one of its blocks.  A block is named by the order of its allocation;    *)
(* the stack of free blocks is a set, because nobody looks at which of the *)
(* free blocks get() hands out.  get() and release() run under the pool's  *)
(* own mutex and call nothing else, so each of them is one step.           *)
(***************************************************************************)
EXTENDS Integers, FiniteSets

CONSTANTS
  PreAlloc,   (* Blocks allocated by the constructor (10 in the SDK).         *)
  MaxAlloc    (* Blocks the pool may ever allocate (20000), 0 for no limit.   *)

ASSUME PoolAssumption ==
  /\ PreAlloc \in Nat
  /\ MaxAlloc \in Nat
  /\ MaxAlloc = 0 \/ MaxAlloc >= PreAlloc

VARIABLES
  blocks,     (* _blocks: the free blocks.                                    *)
  allocated   (* _allocated: how many blocks exist, free or handed out.       *)

poolVars == <<blocks, allocated>>

Block == Nat \ {0}

PoolTypeOK ==
  /\ allocated \in Nat
  /\ blocks \in SUBSET Block

PoolInit ==
  /\ allocated = PreAlloc
  /\ blocks = 1..PreAlloc

(* What get() may return now: any free block, a new one when there is none *)
(* and the limit allows it, nothing when the pool is exhausted (get()      *)
(* throws OutOfMemoryException and changes nothing).                       *)
Available ==
  IF blocks # {} THEN blocks
  ELSE IF MaxAlloc = 0 \/ allocated < MaxAlloc THEN {allocated + 1}
  ELSE {}

Exhausted == Available = {}

Get(b) ==
  /\ b \in Available
  /\ blocks' = blocks \ {b}
  /\ allocated' = IF b \in blocks THEN allocated ELSE allocated + 1

Release(b) ==
  /\ blocks' = blocks \cup {b}
  /\ UNCHANGED allocated
===============================================================================
