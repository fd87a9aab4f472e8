----------------------------- MODULE WriteQueue -----------------------------
(***************************************************************************)
(* What the Firestore client promises of the writes of each account: they  *)
(* wait in the order they were made, the server commits them in that       *)
(* order, and a write leaves the queue only when the server has committed  *)
(* or refused it.  Whoever made it may be told, and is told of a success   *)
(* only if there was one.  WriteStream implements this module.             *)
(***************************************************************************)
EXTENDS Integers, Sequences

CONSTANTS
    Users,          \* whoever can be signed in, nobody included
    Writes,         \* the writes the program makes
    Bad             \* the writes the server refuses

VARIABLES
    waiting,        \* the writes each user has waiting, oldest first
    committed,      \* the writes the server has committed
    told            \* what the maker of each write was told of it

vars == <<waiting, committed, told>>

Init ==
    /\ waiting = [u \in Users |-> << >>]
    /\ committed = {}
    /\ told = [w \in Writes |-> "nothing"]

(* A write is accepted into the queue of one user.                         *)
Accept(u, w) ==
    /\ \A v \in Users : \A i \in 1 .. Len(waiting[v]) : waiting[v][i] # w
    /\ told[w] = "nothing"
    /\ w \notin committed
    /\ waiting' = [waiting EXCEPT ![u] = Append(@, w)]
    /\ UNCHANGED <<committed, told>>

(* The server commits the oldest write of a user it has not committed.     *)
Commit(u, i) ==
    /\ \A j \in 1 .. i - 1 : waiting[u][j] \in committed
    /\ waiting[u][i] \notin Bad
    /\ committed' = committed \cup {waiting[u][i]}
    /\ UNCHANGED <<waiting, told>>

(* The oldest write leaves the queue, and its maker, if there is one left, *)
(* is told how it ended.                                                   *)
Settle(u) ==
    /\ waiting[u] # << >>
    /\ LET w == Head(waiting[u])
       IN  /\ w \in committed \cup Bad
           /\ \/ UNCHANGED told
              \/ \E answer \in {"ok", "error"} :
                    /\ answer = "ok" => w \in committed
                    /\ told' = [told EXCEPT ![w] = answer]
    /\ waiting' = [waiting EXCEPT ![u] = Tail(@)]
    /\ UNCHANGED committed

Next ==
    \E u \in Users :
        \/ \E w \in Writes : Accept(u, w)
        \/ \E i \in 1 .. Len(waiting[u]) : Commit(u, i)
        \/ Settle(u)

Spec == Init /\ [][Next]_vars

=============================================================================
