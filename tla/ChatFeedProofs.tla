---------------------------- MODULE ChatFeedProofs ----------------------------
(***************************************************************************)
(* Proofs about ChatFeed, for every log, however the messages of the two   *)
(* senders interleave, and however often the chat is opened.               *)
(*                                                                         *)
(* What the screen shows is appended to snapshot by snapshot, so nothing   *)
(* can be said of the list without the snapshots on their way: the         *)
(* invariant is about the list and what is still to come, taken together.  *)
(***************************************************************************)
EXTENDS ChatFeed, FiniteSetTheorems, TLAPS

(* Two messages of one sender.                                             *)
SameSender(m, n) == m \in Own <=> n \in Own

(* The messages of each sender come in order within s.                     *)
Ordered(s) ==
    \A i, j \in DOMAIN s : i < j /\ SameSender(s[i], s[j]) => s[i] < s[j]

(* Those of s all come before those of t.                                  *)
Precedes(s, t) ==
    \A i \in DOMAIN s, j \in DOMAIN t : SameSender(s[i], t[j]) => s[i] < t[j]

(* All that s shows is in the local view, or was refused.                  *)
Known(s) == \A i \in DOMAIN s : s[i] \in view \cup refused

(* The list, and after it the snapshots on their way, are in order.        *)
OrderInv ==
    /\ Ordered(feed)
    /\ \A k \in DOMAIN events : Ordered(events[k]) /\ Precedes(feed, events[k])
    /\ \A k, l \in DOMAIN events : k < l => Precedes(events[k], events[l])

(* Nothing is shown or on its way that is in neither.                      *)
KnownInv == Known(feed) /\ \A k \in DOMAIN events : Known(events[k])

(* What an open chat does not show yet is on its way.                      *)
Coming == {m \in Messages :
               \E k \in DOMAIN events : \E i \in DOMAIN events[k] : events[k][i] = m}

NoneMissing == listener = "live" => view \subseteq Listed \cup Coming

-----------------------------------------------------------------------------
(* The documents of a snapshot are a sequence of all of S, in order.       *)
LEMMA ListingsList ==
    ASSUME NEW S \in SUBSET Messages, NEW s \in Listings(S)
    PROVE  /\ s \in Seq(Messages)
           /\ \A i \in DOMAIN s : s[i] \in S
           /\ \A m \in S : \E i \in DOMAIN s : s[i] = m
           /\ \A i, j \in DOMAIN s : i < j => s[i] < s[j]
<1>1. IsFiniteSet(S)
  BY FeedAssumption, FS_Union, FS_Subset DEF Messages
<1>2. Cardinality(S) \in Nat
  BY <1>1, FS_CardinalityType
<1> QED
  BY <1>2 DEF Listings

(* Appending to the snapshots on their way.                                *)
LEMMA NotifiedEvents ==
    ASSUME TypeOK, NEW s \in Seq(Messages)
    PROVE  /\ Notified(s) \in Seq(Seq(Messages))
           /\ listener # "live" => Notified(s) = events
           /\ listener = "live" =>
                /\ DOMAIN Notified(s) = 1 .. (Len(events) + 1)
                /\ DOMAIN events = 1 .. Len(events)
                /\ Len(events) \in Nat
                /\ Notified(s)[Len(events) + 1] = s
                /\ \A k \in DOMAIN events : Notified(s)[k] = events[k]
BY DEF TypeOK, Notified

LEMMA FeedTypeInit == Init => TypeOK
BY DEF Init, TypeOK

LEMMA FeedTypeNext == TypeOK /\ [Next]_vars => TypeOK'
<1> SUFFICES ASSUME TypeOK, [Next]_vars PROVE TypeOK'
  OBVIOUS
<1>1. CASE Open
  <2>1. PICK s \in Listings(view) : events' = <<s>>
    BY <1>1 DEF Open
  <2>2. s \in Seq(Messages)
    BY <2>1, ListingsList DEF TypeOK
  <2> QED
    BY <1>1, <2>1, <2>2 DEF Open, TypeOK, FreshFeed
<1>2. CASE Leave
  BY <1>2 DEF Leave, Closes, TypeOK
<1>3. ASSUME NEW m \in Own, Sends(m) PROVE TypeOK'
  <2>1. <<m>> \in Seq(Messages)
    BY DEF Messages
  <2>2. events' \in Seq(Seq(Messages))
    BY <1>3, <2>1, NotifiedEvents DEF Sends
  <2> QED
    BY <1>3, <2>2 DEF Sends, TypeOK, Messages
<1>4. ASSUME NEW S \in SUBSET Theirs, Arrives(S) PROVE TypeOK'
  <2>1. PICK s \in Listings(S) : events' = Notified(s)
    BY <1>4 DEF Arrives
  <2>2. s \in Seq(Messages)
    BY <2>1, ListingsList DEF Messages
  <2>3. events' \in Seq(Seq(Messages))
    BY <2>1, <2>2, NotifiedEvents
  <2> QED
    BY <1>4, <2>3 DEF Arrives, TypeOK, Messages
<1>5. ASSUME NEW m \in Own, Accepted(m) PROVE TypeOK'
  BY <1>5 DEF Accepted, TypeOK
<1>6. ASSUME NEW m \in Own, Refused(m) PROVE TypeOK'
  <2>1. << >> \in Seq(Messages)
    OBVIOUS
  <2>2. events' \in Seq(Seq(Messages))
    BY <1>6, <2>1, NotifiedEvents DEF Refused, FromRemoval
  <2> QED
    BY <1>6, <2>2 DEF Refused, TypeOK, Oldest
<1>7. CASE Delivered
  <2>1. Head(events) \in Seq(Messages) /\ Tail(events) \in Seq(Seq(Messages))
    BY <1>7 DEF Delivered, TypeOK
  <2>2. FeedAfter(Head(events)) \in Seq(Messages)
    BY <2>1 DEF FeedAfter, TypeOK
  <2>3. UNCHANGED <<view, pending, refused>>
    BY <1>7 DEF Delivered
  <2>4. CASE /\ feed' = FeedAfter(Head(events)) /\ events' = Tail(events)
             /\ UNCHANGED <<listener, laidOut, ended>>
    BY <2>1, <2>2, <2>3, <2>4 DEF TypeOK
  <2>5. CASE Closes("raised") /\ UNCHANGED feed
    BY <2>3, <2>5 DEF TypeOK, Closes
  <2> QED
    BY <1>7, <2>4, <2>5 DEF Delivered
<1>8. CASE LaysOut
  BY <1>8 DEF LaysOut, TypeOK
<1>9. CASE ListenerFails
  BY <1>9 DEF ListenerFails, TypeOK
<1>10. CASE UNCHANGED vars
  BY <1>10 DEF vars, TypeOK
<1> QED
  BY <1>1, <1>2, <1>3, <1>4, <1>5, <1>6, <1>7, <1>8, <1>9, <1>10 DEF Next

(* Every variable of the feed keeps its type: what is listed or on its way *)
(* are messages, and only own messages of the view wait for the server.    *)
THEOREM TypeCorrect == Spec => []TypeOK
BY FeedTypeInit, FeedTypeNext, PTL DEF Spec

-----------------------------------------------------------------------------
(* The order: a snapshot that joins those on their way is in order and     *)
(* comes after everything, the oldest one leaves them for the list.        *)
FeedInv == TypeOK /\ OrderInv /\ KnownInv /\ NoneMissing

LEMMA NotifiedInOrder ==
    ASSUME TypeOK, OrderInv, NEW s \in Seq(Messages), Ordered(s),
           Precedes(feed, s), \A k \in DOMAIN events : Precedes(events[k], s),
           events' = Notified(s), feed' = feed
    PROVE  OrderInv'
<1>1. CASE listener # "live"
  BY <1>1, NotifiedEvents DEF OrderInv
<1>2. CASE listener = "live"
  <2> DEFINE n == Len(events) + 1
  <2>1. /\ DOMAIN events' = 1 .. n /\ DOMAIN events = 1 .. Len(events)
        /\ Len(events) \in Nat /\ events'[n] = s
        /\ \A k \in DOMAIN events : events'[k] = events[k]
    BY <1>2, NotifiedEvents
  <2>2. \A k \in DOMAIN events' : k = n \/ k \in DOMAIN events
    BY <2>1
  <2>3. \A k \in DOMAIN events' : Ordered(events'[k]) /\ Precedes(feed, events'[k])
    BY <2>1, <2>2 DEF OrderInv
  <2>4. ASSUME NEW k \in DOMAIN events', NEW l \in DOMAIN events', k < l
        PROVE  Precedes(events'[k], events'[l])
    <3>1. k \in DOMAIN events
      BY <2>1, <2>4
    <3>2. CASE l = n
      BY <2>1, <3>1, <3>2
    <3>3. CASE l \in DOMAIN events
      BY <2>1, <2>4, <3>1, <3>3 DEF OrderInv
    <3> QED
      BY <2>2, <3>2, <3>3
  <2> QED
    BY <2>3, <2>4 DEF OrderInv
<1> QED
  BY <1>1, <1>2

LEMMA NotifiedKnown ==
    ASSUME TypeOK, KnownInv, NEW s \in Seq(Messages), Known(s)',
           events' = Notified(s), feed' = feed,
           view \cup refused \subseteq view' \cup refused'
    PROVE  KnownInv'
<1>1. ASSUME NEW k \in DOMAIN events'
      PROVE  (k \in DOMAIN events /\ events'[k] = events[k]) \/ events'[k] = s
  <2>1. CASE listener # "live"
    BY <2>1, NotifiedEvents
  <2>2. CASE listener = "live"
    <3>1. /\ DOMAIN events' = 1 .. (Len(events) + 1) /\ Len(events) \in Nat
          /\ DOMAIN events = 1 .. Len(events)
          /\ events'[Len(events) + 1] = s
          /\ \A j \in DOMAIN events : events'[j] = events[j]
      BY <2>2, NotifiedEvents
    <3> QED
      BY <3>1
  <2> QED
    BY <2>1, <2>2
<1>2. \A k \in DOMAIN events : \A i \in DOMAIN events[k] :
          events[k][i] \in view' \cup refused'
  BY DEF KnownInv, Known
<1>3. \A i \in DOMAIN s : s[i] \in view' \cup refused'
  BY DEF Known
<1>4. \A k \in DOMAIN events' : Known(events[k])' 
  BY <1>1, <1>2, <1>3 DEF Known
<1> QED
  BY <1>4 DEF KnownInv, Known

(* What a snapshot adds to the view is on its way with it.                 *)
LEMMA NotifiedNoneMissing ==
    ASSUME TypeOK, NoneMissing, NEW s \in Seq(Messages),
           events' = Notified(s), feed' = feed, listener' = listener,
           view' \subseteq view \cup {s[i] : i \in DOMAIN s}
    PROVE  NoneMissing'
<1> SUFFICES ASSUME listener = "live", NEW m \in view'
             PROVE  m \in Listed' \/ m \in Coming'
  BY DEF NoneMissing
<1>1. /\ DOMAIN events' = 1 .. (Len(events) + 1) /\ Len(events) \in Nat
      /\ DOMAIN events = 1 .. Len(events)
      /\ events'[Len(events) + 1] = s
      /\ \A k \in DOMAIN events : events'[k] = events[k]
  BY NotifiedEvents
<1>2. CASE m \in view
  <2>1. m \in Listed \/ m \in Coming
    BY <1>2 DEF NoneMissing
  <2>2. DOMAIN events \subseteq DOMAIN events'
    BY <1>1
  <2> QED
    BY <1>1, <2>1, <2>2 DEF Listed, Coming
<1>3. CASE m \notin view
  <2>1. PICK i \in DOMAIN s : s[i] = m
    BY <1>3
  <2>2. m \in Messages /\ Len(events) + 1 \in DOMAIN events'
    BY <1>1, <2>1
  <2> QED
    BY <1>1, <2>1, <2>2 DEF Coming
<1> QED
  BY <1>2, <1>3

(* The oldest snapshot on its way is appended to the list.                 *)
LEMMA DeliveredList ==
    ASSUME TypeOK, events # << >>, NEW t, t = Head(events)
    PROVE  /\ t = events[1] /\ t \in Seq(Messages) /\ 1 \in DOMAIN events
           /\ FeedAfter(t) \in Seq(Messages)
           /\ DOMAIN FeedAfter(t) = 1 .. (Len(feed) + Len(t))
           /\ DOMAIN feed = 1 .. Len(feed) /\ DOMAIN t = 1 .. Len(t)
           /\ Len(feed) \in Nat /\ Len(t) \in Nat
           /\ \A i \in DOMAIN feed : FeedAfter(t)[i] = feed[i]
           /\ \A i \in DOMAIN t : FeedAfter(t)[Len(feed) + i] = t[i]
           /\ \A i \in DOMAIN FeedAfter(t) :
                  i \in DOMAIN feed \/ i - Len(feed) \in DOMAIN t
           /\ \A k \in DOMAIN Tail(events) :
                  k + 1 \in DOMAIN events /\ Tail(events)[k] = events[k + 1]
           /\ \A k \in DOMAIN events :
                  k = 1 \/ k - 1 \in DOMAIN Tail(events)
<1>1. /\ t = events[1] /\ t \in Seq(Messages) /\ 1 \in DOMAIN events
      /\ \A k \in DOMAIN Tail(events) :
             k + 1 \in DOMAIN events /\ Tail(events)[k] = events[k + 1]
      /\ \A k \in DOMAIN events : k = 1 \/ k - 1 \in DOMAIN Tail(events)
  BY DEF TypeOK
<1>2. feed \in Seq(Messages)
  BY DEF TypeOK
<1> QED
  BY <1>1, <1>2 DEF FeedAfter

LEMMA DeliveredInOrder ==
    ASSUME TypeOK, OrderInv, events # << >>,
           feed' = FeedAfter(Head(events)), events' = Tail(events)
    PROVE  OrderInv'
<1> DEFINE t == Head(events)
<1>1. Ordered(feed) /\ Ordered(t) /\ Precedes(feed, t)
  BY DeliveredList DEF OrderInv
<1>2. feed \in Seq(Messages) /\ t \in Seq(Messages)
  BY DeliveredList DEF TypeOK
<1>3. /\ DOMAIN feed' = 1 .. (Len(feed) + Len(t))
      /\ DOMAIN feed = 1 .. Len(feed) /\ DOMAIN t = 1 .. Len(t)
      /\ Len(feed) \in Nat /\ Len(t) \in Nat
      /\ \A i \in DOMAIN feed : feed'[i] = feed[i]
      /\ \A i \in DOMAIN feed' : i \notin DOMAIN feed =>
             i - Len(feed) \in DOMAIN t /\ feed'[i] = t[i - Len(feed)]
  <2>1. /\ DOMAIN feed' = 1 .. (Len(feed) + Len(t))
        /\ DOMAIN feed = 1 .. Len(feed) /\ DOMAIN t = 1 .. Len(t)
        /\ Len(feed) \in Nat /\ Len(t) \in Nat
        /\ \A i \in DOMAIN feed : feed'[i] = feed[i]
        /\ \A i \in DOMAIN t : feed'[Len(feed) + i] = t[i]
        /\ \A i \in DOMAIN feed' : i \in DOMAIN feed \/ i - Len(feed) \in DOMAIN t
    BY DeliveredList
  <2>2. ASSUME NEW i \in DOMAIN feed', i \notin DOMAIN feed
        PROVE  i - Len(feed) \in DOMAIN t /\ feed'[i] = t[i - Len(feed)]
    <3>1. i \in Nat /\ i - Len(feed) \in DOMAIN t /\ Len(feed) + (i - Len(feed)) = i
      BY <2>1, <2>2
    <3> QED
      BY <2>1, <3>1
  <2> QED
    BY <2>1, <2>2
<1> HIDE DEF t
<1>4. Ordered(feed')
  <2> SUFFICES ASSUME NEW i \in DOMAIN feed', NEW j \in DOMAIN feed', i < j,
                      SameSender(feed'[i], feed'[j])
               PROVE  feed'[i] < feed'[j]
    BY DEF Ordered
  <2>1. CASE j \in DOMAIN feed
    <3>1. i \in DOMAIN feed
      BY <1>3, <2>1
    <3> QED
      BY <1>1, <1>3, <2>1, <3>1 DEF Ordered
  <2>2. CASE i \in DOMAIN feed /\ j \notin DOMAIN feed
    <3>1. j - Len(feed) \in DOMAIN t /\ feed'[j] = t[j - Len(feed)]
      BY <1>3, <2>2
    <3>2. feed'[i] = feed[i]
      BY <1>3, <2>2
    <3> QED
      BY <1>1, <2>2, <3>1, <3>2 DEF Precedes
  <2>3. CASE i \notin DOMAIN feed /\ j \notin DOMAIN feed
    <3>1. /\ i - Len(feed) \in DOMAIN t /\ feed'[i] = t[i - Len(feed)]
          /\ j - Len(feed) \in DOMAIN t /\ feed'[j] = t[j - Len(feed)]
      BY <1>3, <2>3
    <3>2. i - Len(feed) < j - Len(feed)
      BY <1>3
    <3> QED
      BY <1>1, <3>1, <3>2 DEF Ordered
  <2> QED
    BY <2>1, <2>2, <2>3
<1>5. ASSUME NEW k \in DOMAIN events'
      PROVE  /\ k + 1 \in DOMAIN events /\ 1 \in DOMAIN events /\ 1 < k + 1
             /\ events'[k] = events[k + 1] /\ t = events[1] /\ k \in Int
  <2>1. k \in 1 .. Len(Tail(events)) /\ Len(Tail(events)) \in Nat
    BY DEF TypeOK
  <2> QED
    BY <2>1, DeliveredList DEF t
<1>6. ASSUME NEW k \in DOMAIN events'
      PROVE  Ordered(events'[k]) /\ Precedes(feed', events'[k])
  <2>1. Ordered(events'[k]) /\ Precedes(feed, events'[k]) /\ Precedes(t, events'[k])
    BY <1>5, <1>6 DEF OrderInv
  <2>2. ASSUME NEW i \in DOMAIN feed', NEW j \in DOMAIN events'[k],
               SameSender(feed'[i], events'[k][j])
        PROVE  feed'[i] < events'[k][j]
    <3>1. CASE i \in DOMAIN feed
      BY <1>3, <2>1, <2>2, <3>1 DEF Precedes
    <3>2. CASE i \notin DOMAIN feed
      <4>1. i - Len(feed) \in DOMAIN t /\ feed'[i] = t[i - Len(feed)]
        BY <1>3, <3>2
      <4> QED
        BY <2>1, <2>2, <4>1 DEF Precedes
    <3> QED
      BY <3>1, <3>2
  <2> QED
    BY <2>1, <2>2 DEF Precedes
<1>7. ASSUME NEW k \in DOMAIN events', NEW l \in DOMAIN events', k < l
      PROVE  Precedes(events'[k], events'[l])
  <2>1. /\ k + 1 \in DOMAIN events /\ events'[k] = events[k + 1] /\ k \in Int
        /\ l + 1 \in DOMAIN events /\ events'[l] = events[l + 1] /\ l \in Int
    BY <1>5
  <2>2. k + 1 < l + 1
    BY <1>7, <2>1
  <2> QED
    BY <2>1, <2>2 DEF OrderInv
<1> QED
  BY <1>4, <1>6, <1>7 DEF OrderInv

(* Delivery moves what is on its way into the list, all of it.             *)
LEMMA DeliveredKept ==
    ASSUME TypeOK, KnownInv, NoneMissing, events # << >>,
           feed' = FeedAfter(Head(events)), events' = Tail(events),
           UNCHANGED <<view, refused, listener>>
    PROVE  KnownInv' /\ NoneMissing'
<1> DEFINE t == Head(events)
<1>1. /\ t = events[1] /\ 1 \in DOMAIN events
      /\ \A i \in DOMAIN feed : i \in DOMAIN feed' /\ feed'[i] = feed[i]
      /\ \A i \in DOMAIN t : Len(feed) + i \in DOMAIN feed' /\ feed'[Len(feed) + i] = t[i]
      /\ \A i \in DOMAIN feed' :
             \/ i \in DOMAIN feed
             \/ i - Len(feed) \in DOMAIN t /\ feed'[i] = t[i - Len(feed)]
  <2>1. /\ DOMAIN feed' = 1 .. (Len(feed) + Len(t))
        /\ DOMAIN feed = 1 .. Len(feed) /\ DOMAIN t = 1 .. Len(t)
        /\ Len(feed) \in Nat /\ Len(t) \in Nat
        /\ \A i \in DOMAIN feed : feed'[i] = feed[i]
        /\ \A i \in DOMAIN t : feed'[Len(feed) + i] = t[i]
        /\ \A i \in DOMAIN feed' : i \in DOMAIN feed \/ i - Len(feed) \in DOMAIN t
    BY DeliveredList
  <2>2. \A i \in DOMAIN feed' : Len(feed) + (i - Len(feed)) = i
    BY <2>1
  <2> HIDE DEF t
  <2>3. \A i \in DOMAIN feed' :
             \/ i \in DOMAIN feed
             \/ i - Len(feed) \in DOMAIN t /\ feed'[i] = t[i - Len(feed)]
    BY <2>1, <2>2
  <2>4. t = events[1] /\ 1 \in DOMAIN events
    BY DeliveredList DEF t
  <2> QED
    BY <2>1, <2>3, <2>4
<1>2. /\ \A k \in DOMAIN events' : k + 1 \in DOMAIN events /\ events'[k] = events[k + 1]
      /\ \A k \in DOMAIN events : k = 1 \/ k - 1 \in DOMAIN events'
  BY DeliveredList
<1>3. \A k \in DOMAIN events : k \in Int
  BY DEF TypeOK
<1> HIDE DEF t
<1>4. Known(feed) /\ Known(t)
  BY <1>1 DEF KnownInv
<1>5. Known(feed')
  BY <1>1, <1>4 DEF Known
<1>6. \A k \in DOMAIN events' : Known(events'[k])
  BY <1>2 DEF KnownInv
<1>7. KnownInv'
  BY <1>5, <1>6 DEF KnownInv, Known
<1>8. ASSUME listener = "live", NEW m \in view
      PROVE  m \in Listed' \/ m \in Coming'
  <2>1. m \in Listed \/ m \in Coming
    BY <1>8 DEF NoneMissing
  <2>2. CASE m \in Listed
    BY <1>1, <2>2 DEF Listed
  <2>3. CASE m \in Coming
    <3>1. PICK k \in DOMAIN events : \E i \in DOMAIN events[k] : events[k][i] = m
      BY <2>3 DEF Coming
    <3>2. CASE k = 1
      BY <1>1, <3>1, <3>2 DEF Listed
    <3>3. CASE k # 1
      <4>1. k - 1 \in DOMAIN events' /\ events'[k - 1] = events[(k - 1) + 1]
        BY <1>2, <3>1, <3>3
      <4>2. events'[k - 1] = events[k]
        BY <1>3, <3>1, <4>1
      <4> QED
        BY <2>3, <3>1, <4>1, <4>2 DEF Coming
    <3> QED
      BY <3>2, <3>3
  <2> QED
    BY <2>1, <2>2, <2>3
<1> QED
  BY <1>7, <1>8 DEF NoneMissing

-----------------------------------------------------------------------------
LEMMA FeedInit == Init => FeedInv
<1> SUFFICES ASSUME Init PROVE FeedInv
  OBVIOUS
<1>1. feed = << >> /\ events = << >> /\ listener = "none"
  BY DEF Init
<1>2. OrderInv /\ KnownInv /\ NoneMissing
  BY <1>1 DEF OrderInv, KnownInv, NoneMissing, Ordered, Known
<1> QED
  BY <1>2, FeedTypeInit DEF FeedInv

(* A snapshot of all documents, for an array that starts empty.            *)
LEMMA OpenKeepsFeed == FeedInv /\ Open => (OrderInv /\ KnownInv /\ NoneMissing)'
<1> SUFFICES ASSUME FeedInv, Open PROVE (OrderInv /\ KnownInv /\ NoneMissing)'
  OBVIOUS
<1>1. PICK s \in Listings(view) : events' = <<s>>
  BY DEF Open
<1>2. /\ s \in Seq(Messages) /\ \A i \in DOMAIN s : s[i] \in view
      /\ \A m \in view : \E i \in DOMAIN s : s[i] = m
      /\ \A i, j \in DOMAIN s : i < j => s[i] < s[j]
  BY ListingsList DEF FeedInv, TypeOK
<1>3. /\ DOMAIN events' = {1} /\ events'[1] = s
      /\ feed' = << >> /\ view' = view /\ refused' = refused
      /\ view \subseteq Messages
  BY <1>1 DEF Open, FreshFeed, FeedInv, TypeOK
<1>4. OrderInv'
  BY <1>2, <1>3 DEF OrderInv, Ordered, Precedes
<1>5. KnownInv'
  BY <1>2, <1>3 DEF KnownInv, Known
<1>6. view' \subseteq Coming'
  BY <1>2, <1>3 DEF Coming
<1> QED
  BY <1>4, <1>5, <1>6 DEF NoneMissing

(* A new message is newer than all of its sender that are shown or coming. *)
LEMMA NewsKeepsFeed ==
    ASSUME FeedInv, NEW s \in Seq(Messages), Ordered(s),
           events' = Notified(s), feed' = feed, listener' = listener,
           view' = view \cup {s[i] : i \in DOMAIN s}, refused' = refused,
           \A i \in DOMAIN s : \A n \in view \cup refused :
               SameSender(n, s[i]) => n < s[i]
    PROVE  (OrderInv /\ KnownInv /\ NoneMissing)'
<1>1. Precedes(feed, s) /\ \A k \in DOMAIN events : Precedes(events[k], s)
  BY DEF FeedInv, KnownInv, Known, Precedes
<1>2. OrderInv'
  BY <1>1, NotifiedInOrder DEF FeedInv
<1>3. Known(s)'
  BY DEF Known
<1>4. KnownInv'
  BY <1>3, NotifiedKnown DEF FeedInv
<1>5. NoneMissing'
  BY NotifiedNoneMissing DEF FeedInv
<1> QED
  BY <1>2, <1>4, <1>5

LEMMA FeedNext == FeedInv /\ [Next]_vars => FeedInv'
<1> SUFFICES ASSUME FeedInv, [Next]_vars PROVE (OrderInv /\ KnownInv /\ NoneMissing)'
  BY FeedTypeNext DEF FeedInv
<1>0. TypeOK /\ OrderInv /\ KnownInv /\ NoneMissing /\ refused \subseteq Own
  BY DEF FeedInv, TypeOK
<1>1. CASE Open
  BY <1>1, OpenKeepsFeed
<1>2. ASSUME NEW how, Closes(how), UNCHANGED <<feed, view, refused>>
      PROVE  (OrderInv /\ KnownInv /\ NoneMissing)'
  BY <1>0, <1>2 DEF Closes, OrderInv, KnownInv, Known, NoneMissing
<1>3. ASSUME NEW m \in Own, Sends(m) PROVE (OrderInv /\ KnownInv /\ NoneMissing)'
  <2> DEFINE s == <<m>>
  <2>1. s \in Seq(Messages) /\ DOMAIN s = {1} /\ s[1] = m
    BY DEF Messages
  <2> HIDE DEF s
  <2>2. /\ events' = Notified(s) /\ feed' = feed /\ listener' = listener
        /\ refused' = refused /\ view' = view \cup {m}
        /\ \A n \in Own : n \in view \cup refused => n < m
    BY <1>3 DEF Sends, s
  <2>3. {s[i] : i \in DOMAIN s} = {m} /\ Ordered(s)
    BY <2>1 DEF Ordered
  <2>4. \A i \in DOMAIN s : \A n \in view \cup refused : SameSender(n, s[i]) => n < s[i]
    BY <2>1, <2>2 DEF SameSender
  <2> QED
    BY <2>1, <2>2, <2>3, <2>4, NewsKeepsFeed
<1>4. ASSUME NEW S \in SUBSET Theirs, Arrives(S)
      PROVE  (OrderInv /\ KnownInv /\ NoneMissing)'
  <2>1. PICK s \in Listings(S) : events' = Notified(s)
    BY <1>4 DEF Arrives
  <2>2. /\ s \in Seq(Messages) /\ \A i \in DOMAIN s : s[i] \in S
        /\ \A m \in S : \E i \in DOMAIN s : s[i] = m
        /\ \A i, j \in DOMAIN s : i < j => s[i] < s[j]
    BY <2>1, ListingsList DEF Messages
  <2>3. /\ feed' = feed /\ listener' = listener /\ refused' = refused
        /\ view' = view \cup S
        /\ \A m \in S, n \in view \cap Theirs : n < m
    BY <1>4 DEF Arrives
  <2>4. {s[i] : i \in DOMAIN s} = S /\ Ordered(s)
    BY <2>2 DEF Ordered
  <2>5. ASSUME NEW i \in DOMAIN s, NEW n \in view \cup refused, SameSender(n, s[i])
        PROVE  n < s[i]
    <3>1. s[i] \in S /\ s[i] \notin Own
      BY <2>2, FeedAssumption
    <3>2. n \in view \cap Theirs
      BY <1>0, <2>5, <3>1 DEF SameSender, TypeOK, Messages
    <3> QED
      BY <2>3, <3>1, <3>2
  <2> QED
    BY <2>1, <2>2, <2>3, <2>4, <2>5, NewsKeepsFeed
<1>5. ASSUME NEW m \in Own, Accepted(m) PROVE (OrderInv /\ KnownInv /\ NoneMissing)'
  BY <1>0, <1>5 DEF Accepted, OrderInv, KnownInv, Known, NoneMissing, Listed, Coming
<1>6. ASSUME NEW m \in Own, Refused(m) PROVE (OrderInv /\ KnownInv /\ NoneMissing)'
  <2> DEFINE s == << >>
  <2>1. s \in Seq(Messages) /\ DOMAIN s = {}
    OBVIOUS
  <2> HIDE DEF s
  <2>2. /\ events' = Notified(s) /\ feed' = feed /\ listener' = listener
        /\ view' = view \ {m} /\ refused' = refused \cup {m}
    BY <1>6 DEF Refused, FromRemoval, s
  <2>3. Ordered(s) /\ Precedes(feed, s) /\ Known(s)'
        /\ \A k \in DOMAIN events : Precedes(events[k], s)
    BY <2>1 DEF Ordered, Precedes, Known
  <2>4. OrderInv'
    BY <1>0, <2>1, <2>2, <2>3, NotifiedInOrder
  <2>5. KnownInv'
    BY <1>0, <2>1, <2>2, <2>3, NotifiedKnown
  <2>6. NoneMissing'
    BY <1>0, <2>1, <2>2, NotifiedNoneMissing
  <2> QED
    BY <2>4, <2>5, <2>6
<1>7. CASE Delivered
  <2>1. UNCHANGED <<view, refused>> /\ events # << >>
    BY <1>7 DEF Delivered
  <2>2. CASE /\ feed' = FeedAfter(Head(events)) /\ events' = Tail(events)
             /\ UNCHANGED <<listener, laidOut, ended>>
    BY <1>0, <2>1, <2>2, DeliveredInOrder, DeliveredKept
  <2>3. CASE Closes("raised") /\ UNCHANGED feed
    BY <1>2, <2>1, <2>3
  <2> QED
    BY <1>7, <2>2, <2>3 DEF Delivered
<1>8. CASE Leave
  BY <1>2, <1>8 DEF Leave
<1>9. CASE LaysOut \/ ListenerFails \/ UNCHANGED vars
  BY <1>0, <1>9 DEF LaysOut, ListenerFails, vars, OrderInv, KnownInv, Known,
                    NoneMissing, Listed, Coming
<1> QED
  BY <1>1, <1>3, <1>4, <1>5, <1>6, <1>7, <1>8, <1>9 DEF Next

LEMMA FeedAlways == Spec => []FeedInv
BY FeedInit, FeedNext, PTL DEF Spec

(* Each sender's messages stand in the order they were sent, each once.    *)
THEOREM SendersInOrder == Spec => []InOrderBySender
<1>1. FeedInv => InOrderBySender
  BY DEF FeedInv, OrderInv, Ordered, SameSender, InOrderBySender
<1> QED
  BY <1>1, FeedAlways, PTL

(* An open chat with nothing on its way shows the local view of its log,   *)
(* and beyond it only what the server has refused.                         *)
THEOREM ChatIsShown == Spec => []ShowsTheChat
<1>1. FeedInv => ShowsTheChat
  <2> SUFFICES ASSUME FeedInv, listener = "live", events = << >>
               PROVE  view \subseteq Listed /\ Listed \subseteq view \cup refused
    BY DEF ShowsTheChat
  <2>1. view \subseteq Listed \cup Coming /\ Coming = {}
    BY DEF FeedInv, NoneMissing, Coming
  <2>2. Listed \subseteq view \cup refused
    BY DEF FeedInv, KnownInv, Known, Listed
  <2> QED
    BY <2>1, <2>2
<1> QED
  BY <1>1, FeedAlways, PTL

-----------------------------------------------------------------------------
(* The rows laid out belong to the list that is shown: the collection view *)
(* starts empty with every chat, and the list only grows under it.         *)
RowsInv == TypeOK /\ laidOut <= Len(feed) /\ RaisedWhenTall

LEMMA RowsNext == RowsInv /\ [Next]_vars => RowsInv'
<1> SUFFICES ASSUME RowsInv, [Next]_vars
             PROVE  laidOut' <= Len(feed') /\ RaisedWhenTall'
  BY FeedTypeNext DEF RowsInv
<1>0. /\ TypeOK /\ laidOut <= Len(feed) /\ RaisedWhenTall
      /\ laidOut \in Nat /\ feed \in Seq(Messages) /\ Len(feed) \in Nat
  BY DEF RowsInv, TypeOK
<1>1. CASE Open
  BY <1>1 DEF Open, FreshFeed, RaisedWhenTall
<1>2. CASE Leave
  BY <1>0, <1>2 DEF Leave, Closes, RaisedWhenTall
<1>3. CASE Delivered
  <2>1. CASE /\ feed' = FeedAfter(Head(events)) /\ events' = Tail(events)
             /\ UNCHANGED <<listener, laidOut, ended>>
    <3>1. events # << >>
      BY <1>3 DEF Delivered
    <3>2. Len(feed') >= Len(feed) /\ Len(feed') \in Nat
      <4>1. FeedAfter(Head(events)) \in Seq(Messages)
            /\ DOMAIN FeedAfter(Head(events)) = 1 .. (Len(feed) + Len(Head(events)))
            /\ Len(Head(events)) \in Nat
        BY <1>0, <3>1, DeliveredList
      <4>2. Len(FeedAfter(Head(events))) = Len(feed) + Len(Head(events))
        BY <1>0, <4>1
      <4> QED
        BY <1>0, <2>1, <4>1, <4>2
    <3> QED
      BY <1>0, <2>1, <3>2, FeedAssumption DEF RaisedWhenTall
  <2>2. CASE Tall /\ Closes("raised") /\ UNCHANGED feed
    BY <1>0, <2>2, FeedAssumption DEF Tall, Closes, RaisedWhenTall
  <2> QED
    BY <1>3, <2>1, <2>2 DEF Delivered
<1>4. CASE LaysOut
  BY <1>0, <1>4 DEF LaysOut, RaisedWhenTall
<1>5. CASE UNCHANGED <<feed, laidOut, ended>>
  BY <1>0, <1>5 DEF RaisedWhenTall
<1> QED
  BY <1>1, <1>2, <1>3, <1>4, <1>5
     DEF Next, Sends, Arrives, Accepted, Refused, ListenerFails, vars

(* A chat whose list does not fill the screen is never ended by the        *)
(* exception of line 199 of ChatController; opening a chat never is.       *)
THEOREM OnlyTallListsRaise == Spec => []RaisedWhenTall
<1>1. Init => RowsInv
  BY FeedTypeInit DEF Init, RowsInv, RaisedWhenTall
<1>2. RowsInv => RaisedWhenTall
  BY DEF RowsInv
<1> QED
  BY <1>1, <1>2, RowsNext, PTL DEF Spec

=============================================================================
