------------------------------- MODULE Delivery -------------------------------
(***************************************************************************)
(* What two people who chat are promised of their messages.  A message     *)
(* that is sent comes to its sender's log and then to the receiver's, in   *)
(* both of them in the order in which the sender sent; and a conversation  *)
(* lists only messages that have come to both.  A message at risk, whose   *)
(* way the server or a crash has cut short, may be missing from a log, but *)
(* it never turns up late.  MessageUpload implements this module, and      *)
(* ChatFeed takes the order of a log from here.                            *)
(***************************************************************************)
EXTENDS Integers

CONSTANTS
    Users,          \* account ids
    Sendable,       \* the messages that can be sent
    NoMsg           \* an absent document

VARIABLES
    sent,           \* the messages sent so far
    atRisk,         \* those that may miss a copy
    log,            \* for each user the messages of all chats
    recent          \* for each user the message each conversation lists

vars == <<sent, atRisk, log, recent>>

(* n was sent before m; in the same chat.                                  *)
Before(n, m) == n.from = m.from /\ n.ts < m.ts
BeforeInChat(n, m) == Before(n, m) /\ n.to = m.to

Init ==
    /\ sent = {}
    /\ atRisk = {}
    /\ log = [u \in Users |-> {}]
    /\ recent = [u \in Users |-> [v \in Users |-> NoMsg]]

(* A sender's messages are told apart, and ordered, by their times.        *)
Send(m) ==
    /\ \A n \in sent : n.from = m.from => Before(n, m)
    /\ sent' = sent \cup {m}
    /\ UNCHANGED <<atRisk, log, recent>>

Keep(m) ==
    /\ \A n \in log[m.from] : n.from = m.from => Before(n, m)
    /\ \A n \in sent : Before(n, m) => n \in log[n.from] \cup atRisk
    /\ log' = [log EXCEPT ![m.from] = @ \cup {m}]
    /\ UNCHANGED <<sent, atRisk, recent>>

Deliver(m) ==
    /\ m \in log[m.from] \cup atRisk
    /\ \A n \in log[m.to] : n.from = m.from => BeforeInChat(n, m)
    /\ \A n \in sent : BeforeInChat(n, m) => n \in log[n.to] \cup atRisk
    /\ log' = [log EXCEPT ![m.to] = @ \cup {m}]
    /\ UNCHANGED <<sent, atRisk, recent>>

(* u's conversation with v lists a message of their chat.                  *)
List(u, v, m) ==
    /\ {u, v} = {m.from, m.to}
    /\ m \in (log[u] \cap log[v]) \cup atRisk
    /\ recent' = [recent EXCEPT ![u][v] = m]
    /\ UNCHANGED <<sent, atRisk, log>>

Endanger(S) ==
    /\ atRisk' = atRisk \cup S
    /\ UNCHANGED <<sent, log, recent>>

Next ==
    \/ \E S \in SUBSET sent : Endanger(S)
    \/ \E m \in Sendable : Send(m)
    \/ \E m \in sent : Keep(m) \/ Deliver(m)
    \/ \E u, v \in Users : \E m \in sent : List(u, v, m)

Spec == Init /\ [][Next]_vars

=============================================================================
