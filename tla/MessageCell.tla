----------------------------- MODULE MessageCell -----------------------------
(***************************************************************************)
(* A row of the chat: setting MessageCell.message runs its didSet          *)
(* observer, and the observer runs configure, which resets the cell and    *)
(* then fills it from the message.  The reset sets message as well.        *)
(*                                                                         *)
(* All of it is one call on the main thread; here each statement that sets *)
(* something is a step, and the calls that have not returned are a stack.  *)
(***************************************************************************)
EXTENDS Naturals, Sequences

CONSTANTS
    Messages,       \* what a cell may be given
    Nil,
    StackSize       \* the calls the main thread has room for

VARIABLES
    message,        \* MessageCell.message
    filled,         \* the message that labels, bubble and picture are from
    aligned,        \* whether the constraints of a side are active
    stack,          \* the calls, the innermost last, each at its next statement
    overflown       \* the program has died of its stack

vars == <<message, filled, aligned, stack, overflown>>

Top == stack[Len(stack)]
Below == SubSeq(stack, 1, Len(stack) - 1)
At(statement) == ~overflown /\ stack # << >> /\ Top = statement

(* The calling function goes on with `next' after a call of `statement'.   *)
Call(next, statement) ==
    IF Len(stack) < StackSize
    THEN stack' = Below \o <<next, statement>> /\ UNCHANGED overflown
    ELSE overflown' = TRUE /\ UNCHANGED stack

Return == stack' = Below /\ UNCHANGED overflown

Init ==
    /\ message = Nil
    /\ filled = Nil
    /\ aligned = FALSE
    /\ stack = << >>
    /\ overflown = FALSE

(* The chat gives the cell a message: the observer calls configure.        *)
SetMessage(m) ==
    /\ stack = << >>
    /\ message' = m
    /\ stack' = <<"configure">>
    /\ UNCHANGED <<filled, aligned, overflown>>

(* configure starts with the reset.                                        *)
Configure ==
    /\ At("configure")
    /\ Call("fill", "reset")
    /\ UNCHANGED <<message, filled, aligned>>

(* The reset takes the message away.  Only inside the text of an observer  *)
(* does an assignment not run it again, and this is a method.              *)
ResetMessage ==
    /\ At("reset")
    /\ message' = Nil
    /\ Call("release", "configure")
    /\ UNCHANGED <<filled, aligned>>

ResetConstraints ==
    /\ At("release")
    /\ aligned' = FALSE
    /\ Return
    /\ UNCHANGED <<message, filled>>

(* The rest of configure, after its guard.                                 *)
Fill ==
    /\ At("fill")
    /\ filled' = IF message = Nil THEN filled ELSE message
    /\ aligned' = IF message = Nil THEN aligned ELSE TRUE
    /\ Return
    /\ UNCHANGED message

Step == Configure \/ ResetMessage \/ ResetConstraints \/ Fill

Next == Step \/ \E m \in Messages : SetMessage(m)

(* A thread goes on with the calls it has begun.                           *)
Spec == Init /\ [][Next]_vars /\ WF_vars(Step)

-----------------------------------------------------------------------------
(* A cell that is given a message shows it: configure is the "Cell Setter" *)
(* of its comment (MessageCell.swift, lines 116 to 139).                   *)
CellIsSet == \A m \in Messages : (message = m) ~> (filled = m)
=============================================================================
