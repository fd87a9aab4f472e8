------------------------------ MODULE MCChatFeed ------------------------------
(* ChatFeed for TLC: two messages of the user between and after three of   *)
(* the partner, whose clock may thus be behind or ahead.                   *)
EXTENDS ChatFeed

OwnPlaces == {2, 4}
TheirPlaces == {1, 3, 5}
=============================================================================
