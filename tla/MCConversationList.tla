------------------------ MODULE MCConversationList ------------------------
(* ConversationList for TLC: three partners, one of them without a         *)
(* profile, and two messages with different times.  Either may follow the  *)
(* other, so clocks that agree with the order of the messages and clocks   *)
(* that do not both occur.  Bounds come from the cfg.                      *)
EXTENDS ConversationList

CONSTANTS p1, p2, p3, m1, m2

Times == [m \in {m1, m2} |-> IF m = m1 THEN 1 ELSE 2]
=============================================================================
