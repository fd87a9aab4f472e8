------------------------------- MODULE ChatFeed -------------------------------
(***************************************************************************)
(* The messages a chat screen shows: the snapshot listener of              *)
(* APIManager.fetchMessages on one log, messages/<user>/<partner>, and the *)
(* list ChatController binds to its collection view.                       *)
(*                                                                         *)
(* The listener reports the documents that are new in Firestore's local    *)
(* view, in the order of the query, and the program appends them to an     *)
(* array.  The local view holds the user's own messages from the tap on;   *)
(* one the server refuses leaves it again, which the program ignores.      *)
(*                                                                         *)
(* A message is its place in the order of the query: by time, then by      *)
(* document.  Times are those of the senders' clocks: each sender's        *)
(* messages come in order, those of the two in any.  Cells are not part of *)
(* this module (see MessageCell): here a row is shown once it is laid out. *)
(***************************************************************************)
EXTENDS Naturals, Sequences, FiniteSets

CONSTANTS
    Own,            \* the places of the user's own messages
    Theirs,         \* the places of the partner's
    Fits            \* from this many rows on the list is higher than the view

ASSUME FeedAssumption ==
    /\ Own \subseteq Nat /\ IsFiniteSet(Own)
    /\ Theirs \subseteq Nat /\ IsFiniteSet(Theirs)
    /\ Own \cap Theirs = {}
    /\ Fits \in Nat \ {0}

VARIABLES
    view,           \* Firestore's local view of the log
    pending,        \* own messages in it that the server has not accepted
    listener,       \* of the screen: none, live, or dead after an error
    events,         \* snapshots on their way to it, each what it adds
    feed,           \* the array of messages the screen shows
    laidOut,        \* rows the collection view has laid out
    refused,        \* history: own messages the server refused
    ended           \* history: how the last screen went, left or raised

vars == <<view, pending, listener, events, feed, laidOut, refused, ended>>

Messages == Own \cup Theirs

-----------------------------------------------------------------------------
(* Slips: what the operators below would be under a plausible mistake.     *)
InAnyOrder(S) ==
    {s \in [1 .. Cardinality(S) -> S] : \A m \in S : \E i \in DOMAIN s : s[i] = m}
OnlyTheNew(s) == s

(* The documents of a snapshot: all of S, in the order of the query.       *)
Listings(S) ==
    {s \in [1 .. Cardinality(S) -> S] :
        /\ \A m \in S : \E i \in DOMAIN s : s[i] = m
        /\ \A i, j \in DOMAIN s : i < j => s[i] < s[j]}

(* What fetchMessages starts with.                                         *)
FreshFeed == << >>

(* What a snapshot that removes a document makes the program append.       *)
FromRemoval(m) == << >>

(* documentChanges.forEach with append.                                    *)
FeedAfter(s) == feed \o s

(* newMessageIncome scrolls: the rows and the top bar exceed the view.     *)
Tall == laidOut >= Fits

(* A snapshot on its way, if somebody listens.                             *)
Notified(s) == IF listener = "live" THEN Append(events, s) ELSE events

-----------------------------------------------------------------------------
(* No chat is open; what is in the local view, and which of the last own   *)
(* messages still wait for the server, is what earlier launches left.      *)
Init ==
    /\ view \in SUBSET Messages
    /\ pending \in SUBSET (view \cap Own)
    /\ \A m \in pending, n \in view \cap Own : m < n => n \in pending
    /\ listener = "none"
    /\ events = << >>
    /\ feed = << >>
    /\ laidOut = 0
    /\ refused = {}
    /\ ended = "no"

(* A new controller, view model and listener, which gets what is there.    *)
Open ==
    /\ listener = "none"
    /\ listener' = "live"
    /\ \E s \in Listings(view) : events' = <<s>>
    /\ feed' = FreshFeed
    /\ laidOut' = 0
    /\ ended' = "no"
    /\ UNCHANGED <<view, pending, refused>>

(* The screen goes.  Its listener is never removed, but nobody sees what   *)
(* it still appends.                                                       *)
Closes(how) ==
    /\ listener' = "none"
    /\ events' = << >>
    /\ laidOut' = 0
    /\ ended' = how

Leave ==
    /\ listener # "none"
    /\ Closes("left")
    /\ UNCHANGED <<view, pending, feed, refused>>

(* The user's message is in the local view before any server knows of it.  *)
Sends(m) ==
    /\ listener # "none"
    /\ \A n \in Own : n \in view \cup refused => n < m
    /\ view' = view \cup {m}
    /\ pending' = pending \cup {m}
    /\ events' = Notified(<<m>>)
    /\ UNCHANGED <<listener, feed, laidOut, refused, ended>>

(* Messages of the partner, one or several at a time.                      *)
Arrives(S) ==
    /\ S # {}
    /\ \A m \in S, n \in view \cap Theirs : n < m
    /\ view' = view \cup S
    /\ \E s \in Listings(S) : events' = Notified(s)
    /\ UNCHANGED <<pending, listener, feed, laidOut, refused, ended>>

(* The write queue is in order: the oldest pending message is answered.    *)
Oldest(m) == m \in pending /\ \A n \in pending : m <= n

Accepted(m) ==
    /\ Oldest(m)
    /\ pending' = pending \ {m}
    /\ UNCHANGED <<view, listener, events, feed, laidOut, refused, ended>>

Refused(m) ==
    /\ Oldest(m)
    /\ pending' = pending \ {m}
    /\ view' = view \ {m}
    /\ refused' = refused \cup {m}
    /\ events' = Notified(FromRemoval(m))
    /\ UNCHANGED <<listener, feed, laidOut, ended>>

(* The listener's callback.  A list that can scroll is scrolled to its     *)
(* last row before the collection view knows of it: if there are new rows, *)
(* UIKit may raise an exception.                                           *)
Delivered ==
    /\ events # << >>
    /\ LET new == FeedAfter(Head(events))
       IN  \/ /\ feed' = new
              /\ events' = Tail(events)
              /\ UNCHANGED <<listener, laidOut, ended>>
           \/ /\ Tall /\ Len(new) > Len(feed)
              /\ Closes("raised")
              /\ UNCHANGED feed
    /\ UNCHANGED <<view, pending, refused>>

(* The collection view has reloaded.                                       *)
LaysOut ==
    /\ listener # "none"
    /\ laidOut # Len(feed)
    /\ laidOut' = Len(feed)
    /\ UNCHANGED <<view, pending, listener, events, feed, refused, ended>>

(* The listener ends with an error: the array is published again, and      *)
(* nothing is reported any more.                                           *)
ListenerFails ==
    /\ listener = "live"
    /\ listener' = "dead"
    /\ UNCHANGED <<view, pending, events, feed, laidOut, refused, ended>>

Next ==
    \/ Open
    \/ Leave
    \/ \E m \in Own : Sends(m)
    \/ \E S \in SUBSET Theirs : Arrives(S)
    \/ \E m \in Own : Accepted(m)
    \/ \E m \in Own : Refused(m)
    \/ Delivered
    \/ LaysOut
    \/ ListenerFails

Spec == Init /\ [][Next]_vars

(* The main queue runs the callbacks it holds.                             *)
FairSpec == Spec /\ WF_vars(Delivered)

-----------------------------------------------------------------------------
TypeOK ==
    /\ view \in SUBSET Messages
    /\ pending \in SUBSET (view \cap Own)
    /\ listener \in {"none", "live", "dead"}
    /\ events \in Seq(Seq(Messages))
    /\ feed \in Seq(Messages)
    /\ laidOut \in Nat
    /\ refused \in SUBSET Own
    /\ ended \in {"no", "left", "raised"}

Listed == {feed[i] : i \in DOMAIN feed}

(* The messages of one sender stand in the order they were sent, each once, *)
(* however often the chat is opened and whatever is refused (lines 68 and   *)
(* 74 of APIManager).  Those of the two may not: a message of a slower      *)
(* clock that arrives later stands below newer ones, and by time again once *)
(* the chat is opened anew.                                                 *)
InOrderBySender ==
    \A i, j \in DOMAIN feed :
        i < j /\ (feed[i] \in Own <=> feed[j] \in Own) => feed[i] < feed[j]

(* With no snapshot on its way, an open chat shows everything in the local *)
(* view of the log, and beyond it only messages the server has refused:    *)
(* those stay until the chat is opened anew.                               *)
ShowsTheChat ==
    listener = "live" /\ events = << >> =>
        /\ view \subseteq Listed
        /\ Listed \subseteq view \cup refused

(* The exception strikes only a list that has outgrown the screen before:  *)
(* not the first snapshot of a chat, however long the chat is, and not     *)
(* what a height left over from another chat would let through.            *)
RaisedWhenTall == ended = "raised" => Len(feed) >= Fits

=============================================================================
