------------------------------ MODULE MCReceiver -------------------------------
(***************************************************************************)
(* SessionReceiver with two sessions, one socket of the first throwing.    *)
(***************************************************************************)
EXTENDS SessionReceiver

CONSTANTS s1, s2

MCTwo == {s1, s2}
MCSocketsOfTwo == {s1, s2} \X {"audio", "video"}
MCFailing == {<<s1, "audio">>}
===============================================================================
