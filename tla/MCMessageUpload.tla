-------------------------- MODULE MCMessageUpload --------------------------
(* Instances of MessageUpload for TLC: two users and how often the clock   *)
(* of each device can tick, which bounds how many messages each can send.  *)
(* Texts, pipeline, crashes and refusals come from the cfg.                *)
EXTENDS MessageUpload

CONSTANTS u1, u2

TwoTicksAgainstOne == [u \in Users |-> IF u = u1 THEN 2 ELSE 1]
TwoTicksForOne == [u \in Users |-> IF u = u1 THEN 2 ELSE 0]
=============================================================================
