------------------------------ MODULE MCLifecycle ------------------------------
(***************************************************************************)
(* Small instances of RTPCaptureSDK.  A block holds 2 bytes and size_t     *)
(* counts modulo 8, so that the lengths below are one that fits and the -1 *)
(* of a failed recvfrom (cdemo/src/main.c), which is too long as a size_t. *)
(***************************************************************************)
EXTENDS RTPCaptureSDK, TLC

MCCallLens == {2, -1}

(* Sound for invariants: sessions and feeders are only ever compared.      *)
Symmetric == Permutations(Sessions) \cup Permutations(Feeders)
================================================================================
