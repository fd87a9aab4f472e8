-------------------------- MODULE WriteStreamProofs --------------------------
(***************************************************************************)
(* The write path of the Firestore client is a write queue, for every      *)
(* number of accounts, writes, changes of account, breaks and crashes.     *)
(*                                                                         *)
(* The argument is in four layers.  The ids grow along every queue, so the *)
(* pipeline is the front of the queue of whoever is signed in; responses   *)
(* and requests stand in the order of the pipeline; the tasks of the       *)
(* worker queue are done under the account they were made under; and a     *)
(* write is at one place of the way from its maker to the server.          *)
(***************************************************************************)
EXTENDS WriteStream, SequenceTheorems, WellFoundedInduction, TLAPS

-----------------------------------------------------------------------------
(* The invariant.                                                          *)

(* The part of a queue that is in the pipeline.                            *)
Front(q) ==
    SubSeq(q, 1, IF Len(q) < PipelineSize THEN Len(q) ELSE PipelineSize)

(* Ids grow along a queue, from one on.                                    *)
Growing(q) ==
    /\ \A i, j \in 1 .. Len(q) : i < j => q[i].id < q[j].id
    /\ \A i \in 1 .. Len(q) : q[i].id > 0

(* No id on the disk is above n.                                           *)
Bounded(q, n) == \A u \in Users : \A i \in 1 .. Len(q[u]) : q[u][i].id <= n

IdsInv ==
    /\ \A u \in Users : Growing(queue[u])
    /\ \A i \in 1 .. Len(queue[user]) : queue[user][i].id < nextId
    /\ nextId > 0
    /\ \E n \in Nat : Bounded(queue, n)

FrontInv ==
    /\ pipeline = Front(queue[user])
    /\ pipeline # << >> => Started
    /\ idle => pipeline = << >> /\ state = "Open" /\ handshake

(* w is what follows the first n items of p.                               *)
Follows(w, p, n) ==
    /\ Len(p) = n + Len(w)
    /\ \A i \in 1 .. Len(w) : w[i] = p[n + i]

(* The responses a and requests w under way, item by item: those of the    *)
(* pipeline p, but for the request that ended the stream, if one did.      *)
Aligned(p, a, w, e) ==
    /\ Len(a) <= Len(p)
    /\ \A i \in 1 .. Len(a) : a[i] = p[i]
    /\ e = "none" => Follows(w, p, Len(a))
    /\ e = "permanent" => /\ Follows(w, p, Len(a) + 1)
                          /\ p[Len(a) + 1].write \in Bad

(* A handshake under way: not read, answered, or its answer lost.          *)
Greeting(a, w, e) ==
    \/ a = << >> /\ w = <<Hello>>
    \/ a = <<Hello>> /\ w = << >> /\ e # "permanent"
    \/ a = << >> /\ e = "transient"

StreamInv ==
    /\ state # "Open" =>
           wire = << >> /\ answers = << >> /\ ended = "none" /\ ~handshake
    /\ state = "Open" /\ ~handshake => Greeting(answers, wire, ended)
    /\ handshake => Aligned(pipeline, answers, wire, ended)

(* A token in the worker queue is the one the stream waits for.            *)
IsToken(t) == t.task \in {"token", "no token"}

TokenInv ==
    /\ asking => state = "Starting"
    /\ \A i \in 1 .. Len(tasks) :
           IsToken(tasks[i]) => state = "Starting" /\ ~asking
    /\ \A i, j \in 1 .. Len(tasks) :
           IsToken(tasks[i]) /\ IsToken(tasks[j]) => i = j

PathInv ==
    /\ TypeOK
    /\ IdsInv
    /\ FrontInv
    /\ StreamInv
    /\ TokenInv

(* A callback belongs to a batch of its user; before the first crash every *)
(* batch has one.                                                          *)
CallbackOf(u, b) == [user |-> u, id |-> b.id, write |-> b.write]

CallbackInv ==
    /\ \A c \in callbacks : \E i \in 1 .. Len(queue[c.user]) :
           queue[c.user][i] = [id |-> c.id, write |-> c.write]
    /\ crashes = 0 => \A u \in Users : \A i \in 1 .. Len(queue[u]) :
           CallbackOf(u, queue[u][i]) \in callbacks

(* Done under account u, with makers m, task t is done for its owner.      *)
Fits(m, t, u) ==
    /\ t.task = "write" => m[t.write] = u
    /\ t.task = "token" => t.user = u

(* The account after task t, done under u.                                 *)
AccountAfter(t, u) == IF t.task = "user" THEN t.user ELSE u

(* The tasks ts lead from one account to another, each done for its owner: *)
(* e[i] is the account after i of them.                                    *)
DoneInTurn(m, ts, from, to) ==
    \E e \in [0 .. Len(ts) -> Users] :
        /\ e[0] = from /\ e[Len(ts)] = to
        /\ \A i \in 1 .. Len(ts) :
               /\ e[i] = AccountAfter(ts[i], e[i - 1])
               /\ Fits(m, ts[i], e[i])

OwnerInv == DoneInTurn(maker, tasks, user, account) /\ OwnersOnly

(* A write the worker queue holds is nowhere else, and undecided; one that *)
(* was not made is undecided; the responses are of committed writes.       *)
Fresh(w) ==
    /\ \A u \in Users : \A i \in 1 .. Len(queue[u]) : queue[u][i].write # w
    /\ w \notin committed
    /\ told[w] = "nothing"

OnceInv ==
    /\ \A i \in 1 .. Len(tasks) :
           tasks[i].task = "write" => Fresh(tasks[i].write)
    /\ \A i, j \in 1 .. Len(tasks) :
           /\ tasks[i].task = "write" /\ tasks[j].task = "write"
           /\ tasks[i].write = tasks[j].write
           => i = j
    /\ \A w \in Writes : ~Called(w) => Fresh(w)
    /\ handshake => \A i \in 1 .. Len(answers) : answers[i].write \in committed

WriteInv == PathInv /\ CallbackInv /\ OwnerInv /\ OnceInv

-----------------------------------------------------------------------------
(* Sequences and numbers.                                                  *)

(* A set of numbers with a member has a smallest one.                      *)
LEMMA SmallestExists ==
    ASSUME NEW T \in SUBSET Nat, T # {}
    PROVE  \E x \in T : \A y \in T : x <= y
<1>1. IsWellFoundedOn(OpToRel(<, Nat), Nat)
  BY NatLessThanWellFounded
<1>2. \E x \in T : \A y \in T : ~(<<y, x>> \in OpToRel(<, Nat))
  BY <1>1, WFMin
<1>3. \A x, y \in Nat : y < x => <<y, x>> \in OpToRel(<, Nat)
  BY DEF OpToRel
<1>4. \A x, y \in T : ~(y < x) => x <= y
  OBVIOUS
<1> QED
  BY <1>2, <1>3, <1>4

(* And, when there is a bound on it, a largest one.                        *)
LEMMA LargestExists ==
    ASSUME NEW T \in SUBSET Nat, NEW n \in Nat,
           T # {}, \A x \in T : x <= n
    PROVE  \E x \in T : \A y \in T : y <= x
<1> DEFINE B == {k \in Nat : \A x \in T : x <= k}
<1>1. PICK k \in B : \A y \in B : k <= y
  <2>1. n \in B /\ B \in SUBSET Nat
    OBVIOUS
  <2> HIDE DEF B
  <2> QED
    BY <2>1, SmallestExists
<1>2. k \in Nat /\ \A x \in T : x <= k
  BY <1>1
<1>3. k \in T
  <2> SUFFICES ASSUME k \notin T
               PROVE  FALSE
    OBVIOUS
  <2>1. PICK x \in T : TRUE
    OBVIOUS
  <2>2. x < k /\ \A y \in T : y < k
    BY <1>2
  <2>3. k - 1 \in B
    BY <1>2, <2>2
  <2> QED
    BY <1>1, <1>2, <2>3
<1> QED
  BY <1>2, <1>3

(* The front of a queue.                                                   *)
LEMMA FrontIs ==
    ASSUME NEW q \in Seq(Batch)
    PROVE  /\ Front(q) \in Seq(Batch)
           /\ Len(Front(q)) <= Len(q)
           /\ Len(Front(q)) <= PipelineSize
           /\ Len(Front(q)) = Len(q) \/ Len(Front(q)) = PipelineSize
           /\ \A i \in 1 .. Len(Front(q)) : Front(q)[i] = q[i]
           /\ Front(q) = << >> <=> q = << >>
<1> DEFINE n == IF Len(q) < PipelineSize THEN Len(q) ELSE PipelineSize
<1>1. /\ Len(q) \in Nat /\ n \in Nat /\ n <= Len(q) /\ n <= PipelineSize
      /\ n = Len(q) \/ n = PipelineSize
      /\ PipelineSize > 0
  BY LenProperties, StreamAssumption
<1>2. Front(q) = SubSeq(q, 1, n)
  BY DEF Front
<1> HIDE DEF n
<1>3. \A i \in 1 .. n : q[i] \in Batch
  BY <1>1, ElementOfSeq
<1>4. /\ SubSeq(q, 1, n) \in Seq(Batch)
      /\ Len(SubSeq(q, 1, n)) = IF 1 <= n THEN n - 1 + 1 ELSE 0
      /\ \A i \in 1 .. n - 1 + 1 : SubSeq(q, 1, n)[i] = q[1 + i - 1]
  BY <1>1, <1>3, SubSeqProperties
<1>5. Len(Front(q)) = n
  BY <1>1, <1>2, <1>4
<1>6. Front(q) = << >> <=> q = << >>
  BY <1>1, <1>2, <1>4, <1>5, EmptySeq
<1> QED
  BY <1>1, <1>2, <1>4, <1>5, <1>6

(* A sequence as long as the front of q, with its items, is that front.    *)
LEMMA IsFront ==
    ASSUME NEW q \in Seq(Batch), NEW p \in Seq(Batch),
           Len(p) <= Len(q), Len(p) <= PipelineSize,
           Len(p) = Len(q) \/ Len(p) = PipelineSize,
           \A i \in 1 .. Len(p) : p[i] = q[i]
    PROVE  p = Front(q)
<1>1. Len(p) = Len(Front(q))
  BY FrontIs, LenProperties, StreamAssumption
<1>2. \A i \in 1 .. Len(p) : p[i] = Front(q)[i]
  BY <1>1, FrontIs
<1> QED
  BY <1>1, <1>2, FrontIs, SeqEqual

LEMMA IdsAreNumbers ==
    ASSUME NEW q \in Seq(Batch), NEW i \in 1 .. Len(q)
    PROVE  q[i] \in Batch /\ q[i].id \in Nat /\ q[i].write \in Writes
<1>1. q[i] \in Batch
  BY ElementOfSeq
<1> QED
  BY <1>1 DEF Batch

(* Seeking the first larger id finds the place behind the pipeline.        *)
LEMMA PlaceAfterIs ==
    ASSUME NEW q \in Seq(Batch), Growing(q), NEW n \in 1 .. Len(q)
    PROVE  PlaceAfter(q, q[n].id) = n + 1
<1> DEFINE After(k) == /\ k <= Len(q) => q[k].id > q[n].id
                       /\ \A i \in 1 .. k - 1 : q[i].id <= q[n].id
<1>1. \A i \in 1 .. Len(q) : q[i].id \in Nat
  BY IdsAreNumbers
<1>2. Len(q) \in Nat
  BY LenProperties
<1>3. n + 1 \in 1 .. Len(q) + 1 /\ After(n + 1)
  <2>1. n + 1 <= Len(q) => q[n + 1].id > q[n].id
    <3>1. n + 1 <= Len(q) => n + 1 \in 1 .. Len(q) /\ n < n + 1
      BY <1>2
    <3> QED
      BY <1>1, <3>1 DEF Growing
  <2>2. \A i \in 1 .. n + 1 - 1 : i \in 1 .. Len(q) /\ (i < n \/ i = n)
    BY <1>2
  <2>3. \A i \in 1 .. n + 1 - 1 : q[i].id <= q[n].id
    BY <1>1, <2>2 DEF Growing
  <2> QED
    BY <1>2, <2>1, <2>3
<1>4. \A k \in 1 .. Len(q) + 1 : After(k) => k = n + 1
  <2> SUFFICES ASSUME NEW k \in 1 .. Len(q) + 1, After(k), k # n + 1
               PROVE  FALSE
    OBVIOUS
  <2>1. CASE k < n + 1
    BY <1>1, <1>2, <2>1 DEF Growing
  <2>2. CASE k > n + 1
    <3>1. n + 1 \in 1 .. k - 1 /\ n + 1 \in 1 .. Len(q) /\ n < n + 1
      BY <1>2, <2>2
    <3> QED
      BY <1>1, <3>1 DEF Growing
  <2> QED
    BY <1>2, <2>1, <2>2
<1>5. PlaceAfter(q, q[n].id) = CHOOSE k \in 1 .. Len(q) + 1 : After(k)
  BY DEF PlaceAfter
<1> HIDE DEF After
<1> QED
  BY <1>3, <1>4, <1>5

(* Filling the pipeline behind a part of the front makes it the front.     *)
LEMMA FilledIs ==
    ASSUME NEW q \in Seq(Batch), Growing(q), NEW p \in Seq(Batch),
           Len(p) <= Len(q), Len(p) <= PipelineSize,
           \A i \in 1 .. Len(p) : p[i] = q[i]
    PROVE  Filled(p, q) = Front(q)
<1> DEFINE n == Len(p)
<1> DEFINE m == IF Len(q) < PipelineSize THEN Len(q) ELSE PipelineSize
<1>1. /\ n \in Nat /\ Len(q) \in Nat /\ PipelineSize \in Nat /\ PipelineSize > 0
      /\ m \in Nat /\ n <= m /\ m <= Len(q)
  BY LenProperties, StreamAssumption
<1>2. (IF p = << >> THEN 1 ELSE PlaceAfter(q, p[Len(p)].id)) = n + 1
  <2>1. CASE p = << >>
    BY <2>1, EmptySeq
  <2>2. CASE p # << >>
    <3>1. n \in 1 .. Len(q) /\ n \in 1 .. Len(p)
      BY <1>1, <2>2, EmptySeq
    <3>2. p[n] = q[n]
      BY <3>1
    <3>3. PlaceAfter(q, q[n].id) = n + 1
      BY <3>1, PlaceAfterIs
    <3> QED
      BY <2>2, <3>2, <3>3
  <2> QED
    BY <2>1, <2>2
<1>3. Filled(p, q) = p \o SubSeq(q, n + 1, m)
  <2>1. n + 1 + PipelineSize - Len(p) - 1 = PipelineSize
    BY <1>1
  <2> QED
    BY <1>2, <2>1 DEF Filled
<1>4. \A i \in 1 .. m : q[i] \in Batch
  BY <1>1, IdsAreNumbers
<1> HIDE DEF m
<1>5. PICK r : r = SubSeq(q, n + 1, m)
  OBVIOUS
<1>6. /\ r \in Seq(Batch)
      /\ Len(r) = m - n
      /\ \A i \in 1 .. m - n : r[i] = q[n + i]
  <2>1. \A i \in n + 1 .. m : q[i] \in Batch
    BY <1>1, <1>4
  <2>2. /\ SubSeq(q, n + 1, m) \in Seq(Batch)
        /\ Len(SubSeq(q, n + 1, m)) = IF n + 1 <= m THEN m - (n + 1) + 1 ELSE 0
        /\ \A i \in 1 .. m - (n + 1) + 1 :
               SubSeq(q, n + 1, m)[i] = q[n + 1 + i - 1]
    BY <1>1, <2>1, SubSeqProperties
  <2> QED
    BY <1>1, <1>5, <2>2
<1>7. /\ p \o r \in Seq(Batch)
      /\ Len(p \o r) = m
      /\ \A i \in 1 .. m : (p \o r)[i] = q[i]
  <2>1. /\ p \o r \in Seq(Batch)
        /\ Len(p \o r) = Len(p) + Len(r)
        /\ \A i \in 1 .. Len(p) + Len(r) :
               (p \o r)[i] = IF i <= Len(p) THEN p[i] ELSE r[i - Len(p)]
    BY <1>6, ConcatProperties
  <2>2. Len(p) + Len(r) = m
    BY <1>1, <1>6
  <2>3. ASSUME NEW i \in 1 .. m
        PROVE  (p \o r)[i] = q[i]
    <3>1. CASE i <= n
      BY <1>1, <2>1, <2>2, <3>1
    <3>2. CASE i > n
      <4>1. i - n \in 1 .. m - n /\ n + (i - n) = i /\ ~(i <= n)
        BY <1>1, <3>2
      <4> QED
        BY <1>6, <2>1, <2>2, <4>1
    <3>3. i <= n \/ i > n
      BY <1>1
    <3> QED
      BY <3>1, <3>2, <3>3
  <2> QED
    BY <2>1, <2>2, <2>3
<1>8. m = Len(q) \/ m = PipelineSize
  BY <1>1 DEF m
<1>9. m <= PipelineSize
  BY <1>1 DEF m
<1> QED
  BY <1>1, <1>3, <1>5, <1>7, <1>8, <1>9, IsFront

(* Removing the batch at the front leaves the others.                      *)
LEMMA RemovedIs ==
    ASSUME NEW q \in Seq(Batch), Growing(q), q # << >>
    PROVE  Removed(q, q[1]) = Tail(q)
<1>1. Len(q) \in Nat /\ 1 \in 1 .. Len(q)
  BY LenProperties, EmptySeq
<1>2. \A j \in 1 .. Len(q) : q[j].id = q[1].id => j = 1
  <2>1. \A j \in 1 .. Len(q) : j # 1 => q[1].id < q[j].id
    BY <1>1 DEF Growing
  <2>2. \A j \in 1 .. Len(q) : q[j].id \in Nat
    BY IdsAreNumbers
  <2> QED
    BY <1>1, <2>1, <2>2
<1>3. (CHOOSE j \in 1 .. Len(q) : q[j].id = q[1].id) = 1
  BY <1>1, <1>2
<1>4. Removed(q, q[1]) = SubSeq(q, 1, 0) \o SubSeq(q, 2, Len(q))
  <2>1. 1 - 1 = 0 /\ 1 + 1 = 2
    OBVIOUS
  <2> QED
    BY <1>3, <2>1, Zenon DEF Removed
<1>5. SubSeq(q, 1, 0) = << >>
  BY SubSeqEmpty
<1>6. SubSeq(q, 2, Len(q)) = Tail(q) /\ Tail(q) \in Seq(Batch)
  BY TailIsSubSeq, HeadTailProperties
<1> QED
  BY <1>4, <1>5, <1>6, ConcatEmptySeq

(* The next id is larger than every id on the disk.                        *)
LEMMA NextIdIs ==
    ASSUME NEW q \in [Users -> Seq(Batch)], NEW n \in Nat, Bounded(q, n)
    PROVE  /\ NextIdOnDisk(q) \in Nat
           /\ NextIdOnDisk(q) > 0
           /\ \A u \in Users : \A i \in 1 .. Len(q[u]) :
                  q[u][i].id < NextIdOnDisk(q)
<1> DEFINE T == IdsOnDisk(q) \cup {0}
<1>1. \A u \in Users : \A i \in 1 .. Len(q[u]) :
          q[u][i].id \in IdsOnDisk(q) /\ q[u][i].id \in Nat
  BY IdsAreNumbers DEF IdsOnDisk
<1>2. \A m \in IdsOnDisk(q) :
          \E u \in Users : \E i \in 1 .. Len(q[u]) : m = q[u][i].id
  BY DEF IdsOnDisk
<1>3. T \in SUBSET Nat /\ T # {} /\ \A m \in T : m <= n
  BY <1>1, <1>2 DEF Bounded
<1> HIDE DEF T
<1>4. \E m \in T : \A k \in T : k <= m
  BY <1>3, LargestExists
<1>5. \E m \in IdsOnDisk(q) \cup {0} : \A k \in IdsOnDisk(q) : k <= m
  BY <1>4 DEF T
<1>6. PICK m : m = CHOOSE j \in IdsOnDisk(q) \cup {0} :
                       \A k \in IdsOnDisk(q) : k <= j
  OBVIOUS
<1>7. m \in IdsOnDisk(q) \cup {0} /\ \A k \in IdsOnDisk(q) : k <= m
  BY <1>5, <1>6
<1>8. NextIdOnDisk(q) = 1 + m /\ m \in Nat
  BY <1>3, <1>6, <1>7 DEF NextIdOnDisk, T
<1> QED
  BY <1>1, <1>7, <1>8

(* Batches join a queue at its end and leave it at its front.              *)
LEMMA AppendedIs ==
    ASSUME NEW q \in Seq(Batch), NEW b \in Batch
    PROVE  /\ Append(q, b) \in Seq(Batch)
           /\ Len(q) \in Nat
           /\ Len(Append(q, b)) = Len(q) + 1
           /\ \A i \in 1 .. Len(q) : Append(q, b)[i] = q[i]
           /\ Append(q, b)[Len(q) + 1] = b
BY AppendProperties, LenProperties

LEMMA TailIs ==
    ASSUME NEW S, NEW q \in Seq(S), q # << >>
    PROVE  /\ Tail(q) \in Seq(S)
           /\ Len(q) \in Nat /\ Len(q) > 0
           /\ Len(Tail(q)) = Len(q) - 1
           /\ \A i \in 1 .. Len(q) - 1 : Tail(q)[i] = q[i + 1]
           /\ Head(q) = q[1] /\ Head(q) \in S
<1>1. /\ Head(q) \in S
      /\ Tail(q) \in Seq(S)
      /\ Len(Tail(q)) = Len(q)-1
      /\ \A i \in 1 .. Len(Tail(q)) : Tail(q)[i] = q[i+1]
  BY HeadTailProperties
<1>2. Len(q) \in Nat /\ Len(q) > 0
  BY LenProperties, EmptySeq
<1>3. Head(q) = q[1]
  OBVIOUS
<1> QED
  BY <1>1, <1>2, <1>3

LEMMA GrowingAppended ==
    ASSUME NEW q \in Seq(Batch), Growing(q), NEW b \in Batch, b.id > 0,
           \A i \in 1 .. Len(q) : q[i].id < b.id
    PROVE  Growing(Append(q, b))
<1> DEFINE r == Append(q, b)
<1>1. /\ Len(q) \in Nat
      /\ Len(r) = Len(q) + 1
      /\ \A i \in 1 .. Len(q) : r[i] = q[i]
      /\ r[Len(q) + 1] = b
  BY AppendedIs
<1> HIDE DEF r
<1>2. ASSUME NEW i \in 1 .. Len(r), NEW j \in 1 .. Len(r), i < j
      PROVE  r[i].id < r[j].id
  <2>1. i \in 1 .. Len(q) /\ (j \in 1 .. Len(q) \/ j = Len(q) + 1)
    BY <1>1, <1>2
  <2> QED
    BY <1>1, <1>2, <2>1 DEF Growing
<1>3. ASSUME NEW i \in 1 .. Len(r)
      PROVE  r[i].id > 0
  <2>1. i \in 1 .. Len(q) \/ i = Len(q) + 1
    BY <1>1
  <2> QED
    BY <1>1, <2>1 DEF Growing
<1> QED
  BY <1>2, <1>3 DEF Growing, r

LEMMA GrowingTail ==
    ASSUME NEW q \in Seq(Batch), Growing(q), q # << >>
    PROVE  Growing(Tail(q))
<1>1. /\ Len(q) \in Nat
      /\ Len(Tail(q)) = Len(q) - 1
      /\ \A i \in 1 .. Len(q) - 1 : Tail(q)[i] = q[i + 1]
  BY TailIs
<1>2. \A i \in 1 .. Len(q) - 1 : i + 1 \in 1 .. Len(q)
  BY <1>1
<1>3. \A i, j \in 1 .. Len(q) - 1 : i < j => i + 1 < j + 1
  OBVIOUS
<1> QED
  BY <1>1, <1>2, <1>3 DEF Growing

(* p is a beginning of f, and new the rest of f.                           *)
Begins(p, f) == Len(p) <= Len(f) /\ \A i \in 1 .. Len(p) : f[i] = p[i]

LEMMA RestIs ==
    ASSUME NEW p \in Seq(Batch), NEW f \in Seq(Batch), Begins(p, f)
    PROVE  /\ SubSeq(f, Len(p) + 1, Len(f)) \in Seq(Batch)
           /\ Len(SubSeq(f, Len(p) + 1, Len(f))) = Len(f) - Len(p)
           /\ \A i \in 1 .. Len(f) - Len(p) :
                  SubSeq(f, Len(p) + 1, Len(f))[i] = f[Len(p) + i]
<1>1. Len(p) \in Nat /\ Len(f) \in Nat /\ Len(p) <= Len(f)
  BY LenProperties DEF Begins
<1>2. \A i \in Len(p) + 1 .. Len(f) : f[i] \in Batch
  BY <1>1, IdsAreNumbers
<1>3. /\ SubSeq(f, Len(p) + 1, Len(f)) \in Seq(Batch)
      /\ Len(SubSeq(f, Len(p) + 1, Len(f))) =
             IF Len(p) + 1 <= Len(f) THEN Len(f) - (Len(p) + 1) + 1 ELSE 0
      /\ \A i \in 1 .. Len(f) - (Len(p) + 1) + 1 :
             SubSeq(f, Len(p) + 1, Len(f))[i] = f[Len(p) + 1 + i - 1]
  BY <1>1, <1>2, SubSeqProperties
<1> QED
  BY <1>1, <1>3

(* The pipeline after a batch has joined the queue.                        *)
LEMMA FilledAppended ==
    ASSUME NEW q \in Seq(Batch), NEW b \in Batch, Growing(Append(q, b))
    PROVE  /\ Filled(Front(q), Append(q, b)) = Front(Append(q, b))
           /\ Begins(Front(q), Front(Append(q, b)))
<1> DEFINE r == Append(q, b)
<1>1. /\ r \in Seq(Batch)
      /\ Len(q) \in Nat
      /\ Len(r) = Len(q) + 1
      /\ \A i \in 1 .. Len(q) : r[i] = q[i]
  BY AppendedIs
<1> HIDE DEF r
<1>2. /\ Front(q) \in Seq(Batch)
      /\ Len(Front(q)) <= Len(q)
      /\ Len(Front(q)) <= PipelineSize
      /\ \A i \in 1 .. Len(Front(q)) : Front(q)[i] = q[i]
      /\ Len(Front(q)) \in Nat
  BY FrontIs, LenProperties
<1>3. /\ Len(Front(q)) <= Len(r)
      /\ \A i \in 1 .. Len(Front(q)) : Front(q)[i] = r[i]
  BY <1>1, <1>2
<1>4. Filled(Front(q), r) = Front(r)
  BY <1>1, <1>2, <1>3, FilledIs DEF r
<1>5. /\ Len(Front(r)) = Len(r) \/ Len(Front(r)) = PipelineSize
      /\ \A i \in 1 .. Len(Front(r)) : Front(r)[i] = r[i]
      /\ Len(Front(r)) \in Nat
  BY <1>1, FrontIs, LenProperties
<1>6. Len(Front(q)) <= Len(Front(r))
  BY <1>1, <1>2, <1>5, StreamAssumption
<1> QED
  BY <1>2, <1>3, <1>4, <1>5, <1>6 DEF Begins, r

(* The pipeline after the front batch has left the queue.                  *)
LEMMA FilledTail ==
    ASSUME NEW q \in Seq(Batch), Growing(q), q # << >>
    PROVE  /\ Filled(Tail(Front(q)), Tail(q)) = Front(Tail(q))
           /\ Begins(Tail(Front(q)), Front(Tail(q)))
<1>1. /\ Tail(q) \in Seq(Batch)
      /\ Len(q) \in Nat
      /\ Len(Tail(q)) = Len(q) - 1
      /\ \A i \in 1 .. Len(q) - 1 : Tail(q)[i] = q[i + 1]
  BY TailIs
<1>2. PICK p \in Seq(Batch) : p = Front(q)
  BY FrontIs
<1>3. /\ p # << >>
      /\ Len(p) <= Len(q)
      /\ Len(p) <= PipelineSize
      /\ \A i \in 1 .. Len(p) : p[i] = q[i]
  BY <1>2, FrontIs
<1>4. /\ Tail(p) \in Seq(Batch)
      /\ Len(p) \in Nat
      /\ Len(Tail(p)) = Len(p) - 1
      /\ \A i \in 1 .. Len(p) - 1 : Tail(p)[i] = p[i + 1]
  BY <1>3, TailIs
<1>5. /\ Len(Tail(p)) <= Len(Tail(q))
      /\ Len(Tail(p)) <= PipelineSize
  BY <1>1, <1>3, <1>4, StreamAssumption
<1>6. \A i \in 1 .. Len(Tail(p)) : Tail(p)[i] = Tail(q)[i]
  <2>1. \A i \in 1 .. Len(p) - 1 : i + 1 \in 1 .. Len(p) /\ i \in 1 .. Len(q) - 1
    BY <1>1, <1>3, <1>4
  <2> QED
    BY <1>1, <1>3, <1>4, <2>1
<1>7. Filled(Tail(p), Tail(q)) = Front(Tail(q))
  BY <1>1, <1>4, <1>5, <1>6, GrowingTail, FilledIs
<1>8. /\ Len(Front(Tail(q))) = Len(Tail(q)) \/ Len(Front(Tail(q))) = PipelineSize
      /\ \A i \in 1 .. Len(Front(Tail(q))) : Front(Tail(q))[i] = Tail(q)[i]
      /\ Len(Front(Tail(q))) \in Nat
  BY <1>1, FrontIs, LenProperties
<1>9. Len(Tail(p)) <= Len(Front(Tail(q)))
  BY <1>5, <1>8
<1>10. \A i \in 1 .. Len(Tail(p)) : i \in 1 .. Len(Front(Tail(q)))
  BY <1>4, <1>8, <1>9
<1> QED
  BY <1>2, <1>6, <1>7, <1>8, <1>9, <1>10 DEF Begins

-----------------------------------------------------------------------------
(* Responses and requests in the order of the pipeline.                    *)

LEMMA RequestIs ==
    /\ Hello \in Request /\ Batch \subseteq Request
    /\ Hello \notin Batch /\ Hello.write \notin Writes
    /\ Hello.write \notin Bad /\ Hello.id = 0
BY StreamAssumption DEF Hello, Request, Batch

LEMMA FollowsGrows ==
    ASSUME NEW p \in Seq(Batch), NEW f \in Seq(Batch), Begins(p, f),
           NEW w \in Seq(Request), NEW n \in Nat, Follows(w, p, n)
    PROVE  Follows(w \o SubSeq(f, Len(p) + 1, Len(f)), f, n)
<1>1. PICK r : r = SubSeq(f, Len(p) + 1, Len(f))
  OBVIOUS
<1>2. /\ r \in Seq(Batch)
      /\ Len(r) = Len(f) - Len(p)
      /\ \A i \in 1 .. Len(f) - Len(p) : r[i] = f[Len(p) + i]
  BY <1>1, RestIs
<1>3. r \in Seq(Request)
  BY <1>2, RequestIs, SeqMonotonic
<1>4. PICK x : x = w \o r
  OBVIOUS
<1>5. /\ Len(x) = Len(w) + Len(r)
      /\ \A i \in 1 .. Len(w) + Len(r) :
             x[i] = IF i <= Len(w) THEN w[i] ELSE r[i - Len(w)]
  BY <1>3, <1>4, ConcatProperties
<1>6. /\ Len(p) \in Nat /\ Len(f) \in Nat /\ Len(w) \in Nat /\ Len(r) \in Nat
      /\ Len(p) = n + Len(w) /\ Len(r) = Len(f) - Len(p)
      /\ Len(x) = Len(w) + Len(r)
  BY <1>2, <1>5, LenProperties DEF Follows
<1>7. Len(f) = n + Len(x)
  BY <1>6
<1>8. ASSUME NEW i \in 1 .. Len(x)
      PROVE  x[i] = f[n + i]
  <2>1. CASE i <= Len(w)
    <3>1. i \in 1 .. Len(w) /\ n + i \in 1 .. Len(p) /\ i \in 1 .. Len(w) + Len(r)
      BY <1>6, <2>1
    <3>2. x[i] = w[i] /\ w[i] = p[n + i] /\ p[n + i] = f[n + i]
      BY <1>5, <2>1, <3>1 DEF Follows, Begins
    <3> QED
      BY <3>2
  <2>2. CASE i > Len(w)
    <3>1. /\ i - Len(w) \in 1 .. Len(f) - Len(p)
          /\ Len(p) + (i - Len(w)) = n + i
          /\ ~(i <= Len(w)) /\ i \in 1 .. Len(w) + Len(r)
      BY <1>6, <2>2
    <3>2. x[i] = r[i - Len(w)]
      BY <1>5, <3>1
    <3>3. r[i - Len(w)] = f[Len(p) + (i - Len(w))]
      BY <1>2, <3>1
    <3> QED
      BY <3>1, <3>2, <3>3
  <2> QED
    BY <1>6, <2>1, <2>2
<1> QED
  BY <1>1, <1>4, <1>7, <1>8 DEF Follows

LEMMA FollowsTail ==
    ASSUME NEW p \in Seq(Batch), p # << >>,
           NEW w \in Seq(Request), NEW n \in Nat, Follows(w, p, n + 1)
    PROVE  Follows(w, Tail(p), n)
<1>1. /\ Len(p) \in Nat /\ Len(Tail(p)) = Len(p) - 1
      /\ \A i \in 1 .. Len(p) - 1 : Tail(p)[i] = p[i + 1]
      /\ Len(w) \in Nat
  BY TailIs, LenProperties
<1>2. Len(p) = n + 1 + Len(w)
  BY DEF Follows
<1>3. Len(Tail(p)) = n + Len(w)
  BY <1>1, <1>2
<1>4. \A i \in 1 .. Len(w) : n + i \in 1 .. Len(p) - 1 /\ n + i + 1 = n + 1 + i
  BY <1>1, <1>2
<1> QED
  BY <1>1, <1>3, <1>4 DEF Follows

LEMMA FollowsHead ==
    ASSUME NEW p \in Seq(Batch), NEW w \in Seq(Request), w # << >>,
           NEW n \in Nat, Follows(w, p, n)
    PROVE  /\ n + 1 \in 1 .. Len(p)
           /\ Head(w) = p[n + 1]
           /\ Follows(Tail(w), p, n + 1)
<1>1. /\ Len(w) \in Nat /\ Len(w) > 0 /\ Len(Tail(w)) = Len(w) - 1
      /\ \A i \in 1 .. Len(w) - 1 : Tail(w)[i] = w[i + 1]
      /\ Head(w) = w[1]
      /\ Len(p) \in Nat
  BY TailIs, LenProperties
<1>2. Len(p) = n + Len(w)
  BY DEF Follows
<1>3. Len(p) = n + 1 + Len(Tail(w)) /\ n + 1 \in 1 .. Len(p)
  BY <1>1, <1>2
<1>4. \A i \in 1 .. Len(w) - 1 : i + 1 \in 1 .. Len(w) /\ n + 1 + i = n + (i + 1)
  BY <1>1
<1>5. Head(w) = p[n + 1]
  BY <1>1 DEF Follows
<1> QED
  BY <1>1, <1>3, <1>4, <1>5 DEF Follows

(* The pipeline grows, and what is new is requested behind the rest.       *)
LEMMA AlignedGrows ==
    ASSUME NEW p \in Seq(Batch), NEW f \in Seq(Batch), Begins(p, f),
           NEW a \in Seq(Request), NEW w \in Seq(Request), NEW e,
           Aligned(p, a, w, e)
    PROVE  Aligned(f, a, w \o SubSeq(f, Len(p) + 1, Len(f)), e)
<1>1. /\ Len(p) \in Nat /\ Len(f) \in Nat /\ Len(a) \in Nat
      /\ Len(p) <= Len(f) /\ Len(a) <= Len(p) /\ Len(a) + 1 \in Nat
      /\ \A i \in 1 .. Len(a) : a[i] = p[i]
  BY LenProperties DEF Begins, Aligned
<1>2. Len(a) <= Len(f) /\ \A i \in 1 .. Len(a) : a[i] = f[i]
  BY <1>1 DEF Begins
<1>3. e = "permanent" => f[Len(a) + 1].write \in Bad
  <2>1. e = "permanent" => Len(a) + 1 \in 1 .. Len(p)
    BY <1>1, LenProperties DEF Aligned, Follows
  <2> QED
    BY <2>1 DEF Aligned, Begins
<1>4. \A n \in Nat : Follows(w, p, n) =>
          Follows(w \o SubSeq(f, Len(p) + 1, Len(f)), f, n)
  BY FollowsGrows
<1> QED
  BY <1>1, <1>2, <1>3, <1>4 DEF Aligned

(* The first response is that of the front of the pipeline.                *)
LEMMA AlignedAnswer ==
    ASSUME NEW p \in Seq(Batch), NEW a \in Seq(Request),
           NEW w \in Seq(Request), NEW e,
           Aligned(p, a, w, e), a # << >>
    PROVE  /\ p # << >>
           /\ a[1] = p[1]
           /\ Aligned(Tail(p), Tail(a), w, e)
<1>1. /\ Len(a) \in Nat /\ Len(a) > 0
      /\ Len(Tail(a)) = Len(a) - 1
      /\ \A i \in 1 .. Len(a) - 1 : Tail(a)[i] = a[i + 1]
  BY TailIs
<1>2. Len(a) <= Len(p) /\ \A i \in 1 .. Len(a) : a[i] = p[i]
  BY DEF Aligned
<1>3. p # << >>
  BY <1>1, <1>2, EmptySeq
<1>4. /\ Len(p) \in Nat
      /\ Len(Tail(p)) = Len(p) - 1
      /\ \A i \in 1 .. Len(p) - 1 : Tail(p)[i] = p[i + 1]
  BY <1>3, TailIs
<1>5. a[1] = p[1]
  BY <1>1, <1>2
<1>6. /\ Len(Tail(a)) <= Len(Tail(p))
      /\ \A i \in 1 .. Len(Tail(a)) : Tail(a)[i] = Tail(p)[i]
  <2>1. \A i \in 1 .. Len(a) - 1 : i + 1 \in 1 .. Len(a) /\ i \in 1 .. Len(p) - 1
    BY <1>1, <1>2, <1>4
  <2>2. \A i \in 1 .. Len(a) - 1 : Tail(a)[i] = Tail(p)[i]
    BY <1>1, <1>2, <1>4, <2>1
  <2> QED
    BY <1>1, <1>2, <1>4, <2>2
<1>7. PICK n : n \in Nat /\ n = Len(Tail(a)) /\ n + 1 = Len(a)
  <2>1. Len(Tail(a)) \in Nat /\ Len(Tail(a)) + 1 = Len(a)
    BY <1>1
  <2> QED
    BY <2>1
<1>8. e = "none" => Follows(w, Tail(p), n)
  BY <1>3, <1>7, FollowsTail DEF Aligned
<1>9. e = "permanent" => Follows(w, Tail(p), n + 1)
  <2>1. n + 1 \in Nat /\ Len(a) + 1 = (n + 1) + 1
    BY <1>7
  <2> QED
    BY <1>3, <2>1, FollowsTail DEF Aligned
<1>10. e = "permanent" => Tail(p)[n + 1].write \in Bad
  <2>1. e = "permanent" => Len(p) = Len(a) + 1 + Len(w) /\ Len(w) \in Nat
    BY LenProperties DEF Aligned, Follows
  <2>2. e = "permanent" => n + 1 \in 1 .. Len(p) - 1 /\ n + 1 + 1 = Len(a) + 1
    BY <1>4, <1>7, <2>1
  <2> QED
    BY <1>4, <2>2 DEF Aligned
<1> QED
  BY <1>3, <1>5, <1>6, <1>7, <1>8, <1>9, <1>10 DEF Aligned

(* The server reads the next request, and answers it or ends the stream.   *)
LEMMA AlignedRead ==
    ASSUME NEW p \in Seq(Batch), NEW a \in Seq(Request),
           NEW w \in Seq(Request), w # << >>, Aligned(p, a, w, "none")
    PROVE  /\ Len(a) + 1 \in 1 .. Len(p)
           /\ Head(w) = p[Len(a) + 1]
           /\ Aligned(p, Append(a, Head(w)), Tail(w), "none")
           /\ Head(w).write \in Bad => Aligned(p, a, Tail(w), "permanent")
<1>1. Len(a) \in Nat /\ Len(p) \in Nat
  BY LenProperties
<1>2. /\ Len(a) + 1 \in 1 .. Len(p)
      /\ Head(w) = p[Len(a) + 1]
      /\ Follows(Tail(w), p, Len(a) + 1)
  BY <1>1, FollowsHead DEF Aligned
<1>3. Head(w) \in Request
  BY TailIs
<1>4. /\ Len(Append(a, Head(w))) = Len(a) + 1
      /\ \A i \in 1 .. Len(a) : Append(a, Head(w))[i] = a[i]
      /\ Append(a, Head(w))[Len(a) + 1] = Head(w)
  BY <1>3, AppendProperties
<1>5. PICK x : x = Append(a, Head(w))
  OBVIOUS
<1>6. Len(x) <= Len(p) /\ \A i \in 1 .. Len(x) : x[i] = p[i]
  <2>1. \A i \in 1 .. Len(x) : i \in 1 .. Len(a) \/ i = Len(a) + 1
    BY <1>1, <1>4, <1>5
  <2>2. \A i \in 1 .. Len(a) : a[i] = p[i]
    BY DEF Aligned
  <2> QED
    BY <1>1, <1>2, <1>4, <1>5, <2>1, <2>2
<1>7. Aligned(p, x, Tail(w), "none")
  BY <1>2, <1>4, <1>5, <1>6 DEF Aligned
<1>8. Head(w).write \in Bad => Aligned(p, a, Tail(w), "permanent")
  BY <1>2 DEF Aligned
<1> QED
  BY <1>2, <1>5, <1>7, <1>8

(* The stream breaks, with the responses behind the first n.               *)
LEMMA AlignedBreak ==
    ASSUME NEW p \in Seq(Batch), NEW a \in Seq(Request),
           NEW w \in Seq(Request), NEW e, Aligned(p, a, w, e),
           NEW n \in 0 .. Len(a)
    PROVE  /\ SubSeq(a, 1, n) \in Seq(Request)
           /\ Aligned(p, SubSeq(a, 1, n), w, "transient")
<1>1. Len(a) \in Nat /\ \A i \in 1 .. n : a[i] \in Request
  BY ElementOfSeq, LenProperties
<1>2. /\ SubSeq(a, 1, n) \in Seq(Request)
      /\ Len(SubSeq(a, 1, n)) = IF 1 <= n THEN n - 1 + 1 ELSE 0
      /\ \A i \in 1 .. n - 1 + 1 : SubSeq(a, 1, n)[i] = a[1 + i - 1]
  BY <1>1, SubSeqProperties
<1>3. /\ Len(SubSeq(a, 1, n)) = n
      /\ \A i \in 1 .. n : SubSeq(a, 1, n)[i] = a[i]
  BY <1>1, <1>2
<1>4. Len(p) \in Nat /\ n <= Len(p) /\ \A i \in 1 .. n : a[i] = p[i]
  BY <1>1, LenProperties DEF Aligned
<1> QED
  BY <1>2, <1>3, <1>4 DEF Aligned

(* The whole pipeline is sent on a new stream.                             *)
LEMMA AlignedSent ==
    ASSUME NEW p \in Seq(Batch), NEW e \in {"none", "transient"}
    PROVE  Aligned(p, << >>, p, e)
<1>1. Len(p) \in Nat /\ Len(<< >>) = 0
  BY LenProperties, EmptySeq
<1> QED
  BY <1>1 DEF Aligned, Follows

(* What the alignment says of whole sequences.                             *)
LEMMA FollowedBy ==
    ASSUME NEW p \in Seq(Batch), NEW a \in Seq(Request),
           NEW w \in Seq(Request),
           Len(a) <= Len(p), \A i \in 1 .. Len(a) : a[i] = p[i],
           Follows(w, p, Len(a))
    PROVE  a \o w = p
<1>1. /\ Len(a) \in Nat /\ Len(p) \in Nat /\ Len(w) \in Nat
      /\ Len(p) = Len(a) + Len(w)
  BY LenProperties DEF Follows
<1>2. /\ a \o w \in Seq(Request)
      /\ Len(a \o w) = Len(a) + Len(w)
      /\ \A i \in 1 .. Len(a) + Len(w) :
             (a \o w)[i] = IF i <= Len(a) THEN a[i] ELSE w[i - Len(a)]
  BY ConcatProperties
<1>3. PICK x : x = a \o w
  OBVIOUS
<1>4. ASSUME NEW i \in 1 .. Len(p)
      PROVE  x[i] = p[i]
  <2>1. CASE i <= Len(a)
    BY <1>1, <1>2, <1>3, <2>1
  <2>2. CASE i > Len(a)
    <3>1. /\ i - Len(a) \in 1 .. Len(w) /\ Len(a) + (i - Len(a)) = i
          /\ ~(i <= Len(a)) /\ i \in 1 .. Len(a) + Len(w)
      BY <1>1, <2>2
    <3>2. x[i] = w[i - Len(a)]
      BY <1>2, <1>3, <3>1
    <3>3. w[i - Len(a)] = p[Len(a) + (i - Len(a))]
      BY <3>1 DEF Follows
    <3> QED
      BY <3>1, <3>2, <3>3
  <2> QED
    BY <1>1, <2>1, <2>2
<1>5. p \in Seq(Request)
  BY RequestIs, SeqMonotonic
<1> QED
  BY <1>1, <1>2, <1>3, <1>4, <1>5, SeqEqual

LEMMA AlignedIs ==
    ASSUME NEW p \in Seq(Batch), NEW a \in Seq(Request),
           NEW w \in Seq(Request), NEW e, Aligned(p, a, w, e)
    PROVE  /\ e = "none" => a \o w = p
           /\ e = "transient" => a = SubSeq(p, 1, Len(a))
           /\ e = "permanent" => \E i \in 1 .. Len(p) :
                  p[i].write \in Bad /\ a \o <<p[i]>> \o w = p
<1>1. Len(a) \in Nat /\ Len(p) \in Nat /\ Len(w) \in Nat
  BY LenProperties
<1>2. Len(a) <= Len(p) /\ \A i \in 1 .. Len(a) : a[i] = p[i]
  BY DEF Aligned
<1>3. e = "none" => a \o w = p
  BY <1>2, FollowedBy DEF Aligned
<1>4. a = SubSeq(p, 1, Len(a))
  <2>1. PICK n : n = Len(a)
    OBVIOUS
  <2>2. n \in Nat /\ n <= Len(p) /\ \A i \in 1 .. n : p[i] \in Batch
    BY <1>1, <1>2, <2>1, IdsAreNumbers
  <2>3. /\ SubSeq(p, 1, n) \in Seq(Batch)
        /\ Len(SubSeq(p, 1, n)) = IF 1 <= n THEN n - 1 + 1 ELSE 0
        /\ \A i \in 1 .. n - 1 + 1 : SubSeq(p, 1, n)[i] = p[1 + i - 1]
    BY <2>2, SubSeqProperties
  <2>4. SubSeq(p, 1, n) \in Seq(Request)
    BY <2>3, RequestIs, SeqMonotonic
  <2>5. /\ Len(SubSeq(p, 1, n)) = Len(a)
        /\ \A i \in 1 .. Len(a) : SubSeq(p, 1, n)[i] = a[i]
    BY <1>2, <2>1, <2>2, <2>3
  <2> QED
    BY <2>1, <2>4, <2>5, SeqEqual
<1>5. ASSUME e = "permanent"
      PROVE  \E i \in 1 .. Len(p) :
                 p[i].write \in Bad /\ a \o <<p[i]>> \o w = p
  <2>1. /\ Follows(w, p, Len(a) + 1)
        /\ p[Len(a) + 1].write \in Bad
        /\ Len(p) = Len(a) + 1 + Len(w)
    BY <1>5 DEF Aligned, Follows
  <2>2. PICK i : i = Len(a) + 1
    OBVIOUS
  <2>3. i \in 1 .. Len(p)
    BY <1>1, <2>1, <2>2
  <2>4. p[i] \in Request
    BY <2>3, IdsAreNumbers, RequestIs
  <2>5. PICK b : b = Append(a, p[i])
    OBVIOUS
  <2>6. /\ b \in Seq(Request)
        /\ Len(b) = Len(a) + 1
        /\ \A j \in 1 .. Len(a) : b[j] = a[j]
        /\ b[Len(a) + 1] = p[i]
        /\ b = a \o <<p[i]>>
    BY <2>4, <2>5, AppendProperties, AppendIsConcat
  <2>7. \A j \in 1 .. Len(b) : b[j] = p[j]
    <3>1. \A j \in 1 .. Len(b) : j \in 1 .. Len(a) \/ j = Len(a) + 1
      BY <1>1, <2>6
    <3> QED
      BY <1>2, <2>2, <2>6, <3>1
  <2>8. Len(b) <= Len(p)
    BY <1>1, <2>1, <2>6
  <2>9. b \o w = p
    BY <2>1, <2>6, <2>7, <2>8, FollowedBy
  <2> QED
    BY <2>1, <2>2, <2>3, <2>6, <2>9
<1> QED
  BY <1>3, <1>4, <1>5

-----------------------------------------------------------------------------
(* Each of the three ways to touch the queue and the pipeline.             *)

LEMMA PathFacts ==
    ASSUME PathInv
    PROVE  /\ user \in Users
           /\ queue[user] \in Seq(Batch)
           /\ Growing(queue[user])
           /\ pipeline = Front(queue[user])
           /\ pipeline \in Seq(Batch)
           /\ wire \in Seq(Request) /\ answers \in Seq(Request)
           /\ NoWrite \notin Writes
BY StreamAssumption, FrontIs DEF PathInv, TypeOK, IdsInv, FrontInv

(* Front batch answered: it is gone from queue and pipeline, both of which *)
(* may be full again.                                                      *)
LEMMA AnsweredIs ==
    ASSUME PathInv, pipeline # << >>, NEW outcome \in {"ok", "error"},
           Answered(outcome)
    PROVE  /\ queue[user] # << >>
           /\ Head(pipeline) = queue[user][1]
           /\ queue' = [queue EXCEPT ![user] = Tail(queue[user])]
           /\ queue'[user] = Tail(queue[user])
           /\ queue' \in [Users -> Seq(Batch)]
           /\ Filled(Tail(pipeline), queue'[user]) = Front(queue'[user])
           /\ Begins(Tail(pipeline), Front(queue'[user]))
           /\ Growing(Tail(queue[user]))
<1>1. /\ user \in Users /\ queue[user] \in Seq(Batch) /\ Growing(queue[user])
      /\ pipeline = Front(queue[user]) /\ pipeline \in Seq(Batch)
  BY PathFacts
<1>2. /\ queue[user] # << >>
      /\ Len(pipeline) \in Nat /\ Len(pipeline) > 0
      /\ \A i \in 1 .. Len(pipeline) : pipeline[i] = queue[user][i]
  BY <1>1, FrontIs, LenProperties, EmptySeq
<1>3. Head(pipeline) = queue[user][1]
  BY <1>1, <1>2, TailIs
<1>4. Removed(queue[user], queue[user][1]) = Tail(queue[user])
  BY <1>1, <1>2, RemovedIs
<1>5. queue \in [Users -> Seq(Batch)]
  BY DEF PathInv, TypeOK
<1>6. queue' = [queue EXCEPT ![user] = Tail(queue[user])]
  BY <1>3, <1>4 DEF Answered
<1>7. Tail(queue[user]) \in Seq(Batch)
  BY <1>1, <1>2, TailIs
<1>8. /\ queue'[user] = Tail(queue[user])
      /\ queue' \in [Users -> Seq(Batch)]
  BY <1>1, <1>5, <1>6, <1>7
<1> QED
  BY <1>1, <1>2, <1>3, <1>6, <1>8, FilledTail, GrowingTail

(* The worker queue: the next task, and what is left of it.                *)
LEMMA TaskIs ==
    ASSUME NEW t \in Task
    PROVE  /\ t.task \in {"write", "user", "token", "no token", "late"}
           /\ t.task = "write" => t.write \in Writes
           /\ t.task = "user" => t.user \in Users
           /\ t.task = "token" => t.user \in Users
<1>1. CASE t \in [task : {"write"}, write : Writes]
  BY <1>1
<1>2. CASE t \in [task : {"user", "token"}, user : Users]
  BY <1>2
<1>3. CASE t \in {[task |-> "no token"], [task |-> "late"]}
  <2>1. [task |-> "no token"].task = "no token"
    OBVIOUS
  <2>2. [task |-> "late"].task = "late"
    OBVIOUS
  <2> QED
    BY <1>3, <2>1, <2>2
<1> QED
  BY <1>1, <1>2, <1>3 DEF Task

(* A batch joins the queue, and the pipeline if there is room.             *)
LEMMA JoinedIs ==
    ASSUME PathInv, WriteMutations
    PROVE  \E b \in Batch :
               /\ b = [id |-> nextId, write |-> Head(tasks).write]
               /\ queue' = [queue EXCEPT ![user] = Append(queue[user], b)]
               /\ queue'[user] = Append(queue[user], b)
               /\ queue' \in [Users -> Seq(Batch)]
               /\ Growing(queue'[user])
               /\ Filled(pipeline, queue'[user]) = Front(queue'[user])
               /\ Begins(pipeline, Front(queue'[user]))
<1>1. /\ user \in Users /\ queue[user] \in Seq(Batch) /\ Growing(queue[user])
      /\ pipeline = Front(queue[user]) /\ pipeline \in Seq(Batch)
  BY PathFacts
<1>2. PICK b : b = [id |-> nextId, write |-> Head(tasks).write]
  OBVIOUS
<1>3. Head(tasks) \in Task /\ Head(tasks).task = "write"
  BY TailIs DEF WriteMutations, PathInv, TypeOK
<1>4. b \in Batch /\ b.id = nextId
  <2>1. nextId \in Nat /\ Head(tasks).write \in Writes
    BY <1>3, TaskIs DEF PathInv, TypeOK
  <2> QED
    BY <1>2, <2>1 DEF Batch
<1>5. queue \in [Users -> Seq(Batch)]
  BY DEF PathInv, TypeOK
<1>6. queue' = [queue EXCEPT ![user] = Append(queue[user], b)]
  BY <1>2 DEF WriteMutations
<1>7. Append(queue[user], b) \in Seq(Batch)
  BY <1>1, <1>4, AppendedIs
<1>8. /\ queue'[user] = Append(queue[user], b)
      /\ queue' \in [Users -> Seq(Batch)]
  BY <1>1, <1>5, <1>6, <1>7
<1>9. Growing(queue'[user])
  BY <1>1, <1>4, <1>8, GrowingAppended DEF PathInv, IdsInv
<1> QED
  BY <1>1, <1>2, <1>4, <1>6, <1>8, <1>9, FilledAppended

LEMMA NewTasks ==
    /\ \A w \in Writes : [task |-> "write", write |-> w] \in Task
    /\ \A u \in Users : [task |-> "user", user |-> u] \in Task
    /\ \A u \in Users : [task |-> "token", user |-> u] \in Task
    /\ [task |-> "no token"] \in Task
    /\ [task |-> "late"] \in Task
BY DEF Task

LEMMA LateIs ==
    ASSUME NEW ts \in Seq(Task)
    PROVE  /\ WithoutTokens(ts) \in Seq(Task)
           /\ Len(WithoutTokens(ts)) = Len(ts)
           /\ \A i \in 1 .. Len(ts) :
                  /\ ~IsToken(WithoutTokens(ts)[i])
                  /\ WithoutTokens(ts)[i].task # "late"
                         => WithoutTokens(ts)[i] = ts[i]
                  /\ ts[i].task \in {"write", "user"}
                         => WithoutTokens(ts)[i] = ts[i]
                  /\ ts[i].task \notin {"write", "user"}
                         => WithoutTokens(ts)[i].task \notin {"write", "user"}
<1>1. Len(ts) \in Nat /\ \A i \in 1 .. Len(ts) : ts[i] \in Task
  BY ElementOfSeq, LenProperties
<1>2. PICK r : r = WithoutTokens(ts)
  OBVIOUS
<1>3. r = [i \in 1 .. Len(ts) |-> IF IsToken(ts[i]) THEN [task |-> "late"]
                                                    ELSE ts[i]]
  BY <1>2 DEF WithoutTokens, IsToken
<1>4. r \in [1 .. Len(ts) -> Task]
  BY <1>1, <1>3, NewTasks
<1>5. r \in Seq(Task) /\ Len(r) = Len(ts)
  BY <1>1, <1>4
<1>6. \A i \in 1 .. Len(ts) : r[i] = IF IsToken(ts[i]) THEN [task |-> "late"]
                                                       ELSE ts[i]
  BY <1>3
<1>7. ~IsToken([task |-> "late"]) /\ [task |-> "late"].task = "late"
  BY DEF IsToken
<1>8. ASSUME NEW i \in 1 .. Len(ts)
      PROVE  /\ ~IsToken(r[i])
             /\ r[i].task # "late" => r[i] = ts[i]
             /\ ts[i].task \in {"write", "user"} => r[i] = ts[i]
             /\ ts[i].task \notin {"write", "user"}
                    => r[i].task \notin {"write", "user"}
  <2>1. CASE IsToken(ts[i])
    <3>1. r[i] = [task |-> "late"]
      BY <1>6, <2>1
    <3>2. ts[i].task \notin {"write", "user"}
      BY <2>1 DEF IsToken
    <3> QED
      BY <1>7, <3>1, <3>2
  <2>2. CASE ~IsToken(ts[i])
    BY <1>6, <2>2
  <2> QED
    BY <2>1, <2>2
<1> QED
  BY <1>2, <1>5, <1>8

-----------------------------------------------------------------------------
(* Every step keeps the types.                                             *)

(* A response to a write is that of the front of the pipeline.             *)
LEMMA ResponseIs ==
    ASSUME PathInv, answers # << >>, handshake
    PROVE  /\ pipeline # << >>
           /\ answers[1] = pipeline[1]
           /\ Aligned(Tail(pipeline), Tail(answers), wire, ended)
BY PathFacts, AlignedAnswer DEF PathInv, StreamInv

LEMMA AnsweredTypes ==
    ASSUME PathInv, pipeline # << >>, NEW outcome \in {"ok", "error"},
           Answered(outcome)
    PROVE  /\ account' \in Users /\ user' \in Users /\ nextId' \in Nat
           /\ main' \in Seq(Answer)
           /\ queue' \in [Users -> Seq(Batch)]
           /\ callbacks' \in SUBSET Callback
           /\ told' \in [Writes -> {"nothing", "ok", "error"}]
<1> DEFINE found == Registered(Head(pipeline))
<1>1. queue' \in [Users -> Seq(Batch)]
  BY AnsweredIs
<1>2. found \subseteq callbacks /\ callbacks \subseteq Callback
  BY DEF Registered, PathInv, TypeOK
<1>3. main' \in Seq(Answer)
  <2>1. main' = main \o (IF found = {} THEN << >>
                         ELSE <<[write |-> (CHOOSE c \in found : TRUE).write,
                                 outcome |-> outcome]>>)
    BY DEF Answered
  <2>2. main \in Seq(Answer)
    BY DEF PathInv, TypeOK
  <2> HIDE DEF found
  <2>3. CASE found = {}
    BY <2>1, <2>2, <2>3, ConcatEmptySeq
  <2>4. CASE found # {}
    <3>1. PICK c : c = CHOOSE d \in found : TRUE
      OBVIOUS
    <3>2. c \in Callback
      BY <1>2, <2>4, <3>1
    <3>3. [write |-> c.write, outcome |-> outcome] \in Answer
      BY <3>2 DEF Callback, Answer
    <3>4. main' = main \o <<[write |-> c.write, outcome |-> outcome]>>
      BY <2>1, <2>4, <3>1
    <3>5. main' = Append(main, [write |-> c.write, outcome |-> outcome])
      BY <2>2, <3>3, <3>4, AppendIsConcat
    <3> QED
      BY <2>2, <3>3, <3>5, AppendProperties
  <2> QED
    BY <2>3, <2>4
<1>4. callbacks' \in SUBSET Callback
  BY <1>2 DEF Answered
<1>5. told' \in [Writes -> {"nothing", "ok", "error"}]
  BY DEF Answered, PathInv, TypeOK
<1>6. account' \in Users /\ user' \in Users /\ nextId' \in Nat
  BY DEF Answered, PathInv, TypeOK
<1> QED
  BY <1>1, <1>3, <1>4, <1>5, <1>6

(* The stream and the network as a step leaves them.                       *)
StreamTypes ==
    /\ pipeline \in Seq(Batch)
    /\ state \in States /\ token \in Users
    /\ asking \in BOOLEAN /\ handshake \in BOOLEAN /\ idle \in BOOLEAN
    /\ wire \in Seq(Request) /\ answers \in Seq(Request)
    /\ ended \in Statuses

LEMMA RestartedIs ==
    ASSUME NEW p, NEW from \in {"Initial", "Error"}
    PROVE  /\ Restarted(p, from) \in States \ {"Open"}
           /\ p # << >> => Restarted(p, from) \in {"Starting", "Backoff"}
BY DEF Restarted, States

LEMMA ReopenTypes ==
    ASSUME NEW p \in Seq(Batch), NEW from \in {"Initial", "Error"},
           Reopen(from, p)
    PROVE  StreamTypes'
<1>1. << >> \in Seq(Request) /\ Nobody \in Users /\ "none" \in Statuses
  BY EmptySeq, StreamAssumption DEF Statuses
<1>2. state' \in States /\ asking' \in BOOLEAN
  BY RestartedIs DEF Reopen
<1> QED
  BY <1>1, <1>2 DEF Reopen, StreamTypes

LEMMA RefillTypes ==
    ASSUME PathInv, NEW q \in Seq(Batch), Refill(pipeline, q),
           Filled(pipeline, q) = Front(q), Begins(pipeline, Front(q))
    PROVE  StreamTypes'
<1> DEFINE new == SubSeq(Front(q), Len(pipeline) + 1, Len(Front(q)))
<1>1. /\ pipeline \in Seq(Batch) /\ Front(q) \in Seq(Batch)
      /\ new \in Seq(Batch)
  BY PathFacts, FrontIs, RestIs
<1>2. wire \in Seq(Request) /\ wire \o new \in Seq(Request)
  BY <1>1, PathFacts, RequestIs, SeqMonotonic, ConcatProperties
<1>3. pipeline' \in Seq(Batch) /\ wire' \in Seq(Request)
  BY <1>1, <1>2 DEF Refill
<1>4. state' \in States
  <2>1. state \in States
    BY DEF PathInv, TypeOK
  <2>2. ~Started => state \in {"Initial", "Error"}
    BY <2>1 DEF Started, States
  <2> QED
    BY <2>1, <2>2, RestartedIs DEF Refill
<1>5. asking' \in BOOLEAN /\ idle' \in BOOLEAN
  BY Zenon DEF Refill, PathInv, TypeOK
<1>6. /\ token' \in Users /\ handshake' \in BOOLEAN
      /\ answers' \in Seq(Request) /\ ended' \in Statuses
  BY DEF Refill, PathInv, TypeOK
<1> QED
  BY <1>3, <1>4, <1>5, <1>6 DEF StreamTypes

(* The rest of the state.                                                  *)
StoreTypes ==
    /\ account \in Users /\ user \in Users /\ nextId \in Nat
    /\ main \in Seq(Answer)
    /\ tasks \in Seq(Task)
    /\ queue \in [Users -> Seq(Batch)]
    /\ callbacks \in SUBSET Callback
    /\ told \in [Writes -> {"nothing", "ok", "error"}]

HistoryTypes ==
    /\ committed \in SUBSET Writes
    /\ maker \in [Writes -> Users \cup {NoWrite}]
    /\ switches \in Nat /\ breaks \in Nat /\ crashes \in Nat

LEMMA TypesAre == TypeOK <=> StoreTypes /\ StreamTypes /\ HistoryTypes
BY DEF TypeOK, StoreTypes, StreamTypes, HistoryTypes

LEMMA CountersUp == \A n \in Nat : n + 1 \in Nat
OBVIOUS

LEMMA FrontOfUser ==
    ASSUME PathInv, NEW u \in Users
    PROVE  /\ queue[u] \in Seq(Batch) /\ Growing(queue[u])
           /\ Filled(<< >>, queue[u]) = Front(queue[u])
           /\ Front(queue[u]) \in Seq(Batch)
<1>1. queue[u] \in Seq(Batch) /\ Growing(queue[u])
  BY DEF PathInv, TypeOK, IdsInv
<1>2. PICK p : p = << >>
  OBVIOUS
<1>3. p \in Seq(Batch) /\ Len(p) = 0 /\ Len(queue[u]) \in Nat
  BY <1>1, <1>2, EmptySeq, LenProperties
<1>4. /\ Len(p) <= Len(queue[u]) /\ Len(p) <= PipelineSize
      /\ \A i \in 1 .. Len(p) : p[i] = queue[u][i]
  BY <1>3, StreamAssumption
<1>5. Filled(p, queue[u]) = Front(queue[u])
  BY <1>1, <1>3, <1>4, FilledIs
<1> QED
  BY <1>1, <1>2, <1>5, FrontIs

LEMMA DiskIds ==
    ASSUME PathInv
    PROVE  /\ NextIdOnDisk(queue) \in Nat /\ NextIdOnDisk(queue) > 0
           /\ \A u \in Users : \A i \in 1 .. Len(queue[u]) :
                  queue[u][i].id < NextIdOnDisk(queue)
BY NextIdIs DEF PathInv, TypeOK, IdsInv

(* The main queue, the worker queue and the store.                         *)
LEMMA StoreTypeStep ==
    ASSUME PathInv, Next
    PROVE  StoreTypes'
<1> USE DEF app, store
<1>0. StoreTypes
  BY TypesAre DEF PathInv
<1>1. ASSUME NEW w \in Writes, Enqueue(w) PROVE tasks' \in Seq(Task)
  BY <1>0, <1>1, NewTasks, AppendProperties DEF Enqueue, StoreTypes
<1>2. tasks # << >> => /\ Tail(tasks) \in Seq(Task)
                       /\ WithoutTokens(Tail(tasks)) \in Seq(Task)
                       /\ Head(tasks) \in Task
  BY <1>0, TailIs, LateIs DEF StoreTypes
<1>3. WithoutTokens(tasks) \in Seq(Task)
  BY <1>0, LateIs DEF StoreTypes
<1>4. CASE \E w \in Writes : Write(w)
  BY <1>0, <1>1, <1>4 DEF Write, StoreTypes
<1>5. CASE RunCallback
  <2>1. main # << >> /\ main \in Seq(Answer)
    BY <1>0, <1>5 DEF RunCallback, StoreTypes
  <2>5. Tail(main) \in Seq(Answer) /\ Head(main) \in Answer
    BY <2>1, TailIs
  <2>2. main' \in Seq(Answer) /\ Head(main).write \in Writes
    BY <1>5, <2>5 DEF RunCallback, Answer
  <2>3. Then[Head(main).write] \in Writes \cup {NoWrite}
    BY <2>2, StreamAssumption
  <2>4. tasks' \in Seq(Task)
    BY <1>0, <1>1, <1>5, <2>3 DEF RunCallback, StoreTypes
  <2> QED
    BY <1>0, <1>5, <2>2, <2>4 DEF RunCallback, StoreTypes
<1>6. CASE \E u \in Users : AuthChanged(u)
  <2>1. PICK u \in Users : AuthChanged(u)
    BY <1>6
  <2>2. tasks' \in Seq(Task)
    BY <1>0, <2>1, NewTasks, AppendProperties DEF AuthChanged, Passed, StoreTypes
  <2> QED
    BY <1>0, <2>1, <2>2 DEF AuthChanged, StoreTypes
<1>7. CASE TokenArrives
  <2>1. \A t \in Task : Append(tasks, t) \in Seq(Task)
    BY <1>0, AppendProperties DEF StoreTypes
  <2>2. /\ [task |-> "token", user |-> account] \in Task
        /\ [task |-> "no token"] \in Task
    BY <1>0, NewTasks DEF StoreTypes
  <2>3. tasks' \in Seq(Task)
    BY <1>7, <2>1, <2>2, Zenon DEF TokenArrives
  <2> QED
    BY <1>0, <1>7, <2>3 DEF TokenArrives, StoreTypes
<1>8. CASE WriteMutations
  <2>1. queue' \in [Users -> Seq(Batch)]
    BY <1>8, JoinedIs
  <2>2. callbacks' \in SUBSET Callback
    <3>1. Head(tasks).write \in Writes
      BY <1>2, <1>8, TaskIs DEF WriteMutations
    <3>2. [user |-> user, id |-> nextId, write |-> Head(tasks).write] \in Callback
      BY <1>0, <3>1 DEF StoreTypes, Callback
    <3> QED
      BY <1>0, <1>8, <3>2 DEF WriteMutations, StoreTypes
  <2>3. nextId' \in Nat
    BY <1>0, <1>8 DEF WriteMutations, StoreTypes
  <2> QED
    BY <1>0, <1>2, <1>8, <2>1, <2>2, <2>3 DEF WriteMutations, StoreTypes
<1>9. CASE HandleCredentialChange
  <2>1. user' \in Users
    BY <1>2, <1>9, TaskIs DEF HandleCredentialChange
  <2>2. nextId' \in Nat
    BY <1>0, <1>9, DiskIds DEF HandleCredentialChange, StoreTypes
  <2> QED
    BY <1>0, <1>2, <1>9, <2>1, <2>2 DEF HandleCredentialChange, StoreTypes
<1>10. CASE ResumeStartWithCredentials
  BY <1>0, <1>2, <1>10 DEF ResumeStartWithCredentials, StoreTypes
<1>11. CASE ResumeStartFails
  BY <1>0, <1>2, <1>11 DEF ResumeStartFails, StoreTypes
<1>12. CASE LateToken
  BY <1>0, <1>2, <1>12 DEF LateToken, StoreTypes
<1>13. CASE BackoffElapsed
  BY <1>0, <1>13 DEF BackoffElapsed, StoreTypes
<1>14. CASE IdleTimeout
  BY <1>0, <1>3, <1>14 DEF IdleTimeout, StoreTypes
<1>15. CASE ConnectivityChanged
  BY <1>0, <1>3, <1>15 DEF ConnectivityChanged, StoreTypes
<1>16. CASE ServerTakes
  BY <1>0, <1>16 DEF ServerTakes, StoreTypes
<1>17. CASE Break
  BY <1>0, <1>17 DEF Break, StoreTypes
<1>18. CASE OnWriteStreamHandshakeComplete
  BY <1>0, <1>18 DEF OnWriteStreamHandshakeComplete, StoreTypes
<1>19. CASE OnWriteStreamMutationResult
  <2>1. pipeline # << >>
    BY <1>19, ResponseIs DEF OnWriteStreamMutationResult
  <2>2. Answered("ok") /\ tasks' = tasks
    BY <1>19 DEF OnWriteStreamMutationResult
  <2> QED
    BY <1>0, <2>1, <2>2, AnsweredTypes DEF StoreTypes
<1>20. CASE OnWriteStreamClose
  <2>1. tasks' \in Seq(Task)
    BY <1>3, <1>20 DEF OnWriteStreamClose
  <2>2. CASE BlamesWrite /\ Answered("error")
    BY <2>1, <2>2, AnsweredTypes DEF StoreTypes, BlamesWrite
  <2>3. CASE UNCHANGED <<app, store, told>>
    BY <1>0, <2>1, <2>3 DEF StoreTypes
  <2> QED
    BY <1>20, <2>2, <2>3 DEF OnWriteStreamClose
<1>21. CASE Crash
  <2>1. main' \in Seq(Answer) /\ tasks' \in Seq(Task)
    BY <1>21, EmptySeq DEF Crash
  <2>2. nextId' \in Nat
    BY <1>21, DiskIds DEF Crash
  <2> QED
    BY <1>0, <1>21, <2>1, <2>2 DEF Crash, StoreTypes
<1> QED
  BY <1>4, <1>5, <1>6, <1>7, <1>8, <1>9, <1>10, <1>11, <1>12, <1>13, <1>14,
     <1>15, <1>16, <1>17, <1>18, <1>19, <1>20, <1>21 DEF Next

(* The stream and the network.                                             *)
LEMMA StreamTypeStep ==
    ASSUME PathInv, Next
    PROVE  StreamTypes'
<1> USE DEF stream, net
<1>0. StreamTypes /\ StoreTypes
  BY TypesAre DEF PathInv
<1>1. /\ "Open" \in States /\ "Starting" \in States
      /\ "none" \in Statuses /\ "transient" \in Statuses
      /\ "permanent" \in Statuses
      /\ <<Hello>> \in Seq(Request)
      /\ TRUE \in BOOLEAN /\ FALSE \in BOOLEAN
  BY RequestIs DEF States, Statuses
<1>2. /\ wire # << >> => /\ Tail(wire) \in Seq(Request)
                         /\ Append(answers, Head(wire)) \in Seq(Request)
      /\ answers # << >> => Tail(answers) \in Seq(Request)
  <2>1. wire \in Seq(Request) /\ answers \in Seq(Request)
    BY <1>0 DEF StreamTypes
  <2>2. wire # << >> => Tail(wire) \in Seq(Request) /\ Head(wire) \in Request
    BY <2>1, TailIs
  <2>3. answers # << >> => Tail(answers) \in Seq(Request)
    BY <2>1, TailIs
  <2> QED
    BY <2>1, <2>2, <2>3, AppendProperties
<1>3. CASE UNCHANGED <<stream, net>>
  BY <1>0, <1>3 DEF StreamTypes
<1>4. CASE \E w \in Writes : Write(w)
  BY <1>3, <1>4 DEF Write
<1>5. CASE RunCallback
  BY <1>3, <1>5 DEF RunCallback
<1>6. CASE \E u \in Users : AuthChanged(u)
  BY <1>3, <1>6 DEF AuthChanged
<1>7. CASE TokenArrives
  BY <1>0, <1>7 DEF TokenArrives, StreamTypes
<1>8. CASE WriteMutations
  <2>1. Refill(pipeline, queue'[user])
    BY <1>8 DEF WriteMutations
  <2>2. /\ queue'[user] \in Seq(Batch)
        /\ Filled(pipeline, queue'[user]) = Front(queue'[user])
        /\ Begins(pipeline, Front(queue'[user]))
    <3>1. user \in Users
      BY PathFacts
    <3> QED
      BY <1>8, <3>1, JoinedIs
  <2> QED
    BY <2>1, <2>2, RefillTypes
<1>9. CASE HandleCredentialChange
  <2>1. user' \in Users
    BY <1>9, StoreTypeStep DEF Next, StoreTypes
  <2>2. /\ Reopen("Initial", Filled(<< >>, queue[user']))
        /\ Filled(<< >>, queue[user']) \in Seq(Batch)
    BY <1>9, <2>1, FrontOfUser DEF HandleCredentialChange
  <2> QED
    BY <2>2, ReopenTypes
<1>10. CASE ResumeStartWithCredentials
  <2>1. token' \in Users
    <3>1. Head(tasks) \in Task /\ Head(tasks).task = "token"
      BY <1>0, <1>10, TailIs DEF ResumeStartWithCredentials, StoreTypes
    <3> QED
      BY <1>10, <3>1, TaskIs DEF ResumeStartWithCredentials
  <2> QED
    BY <1>0, <1>1, <1>10, <2>1 DEF ResumeStartWithCredentials, StreamTypes
<1>11. CASE ResumeStartFails
  BY <1>11, PathFacts, ReopenTypes DEF ResumeStartFails
<1>12. CASE LateToken
  BY <1>3, <1>12 DEF LateToken
<1>13. CASE BackoffElapsed
  BY <1>0, <1>1, <1>13 DEF BackoffElapsed, StreamTypes
<1>14. CASE IdleTimeout
  BY <1>14, PathFacts, ReopenTypes DEF IdleTimeout
<1>15. CASE ConnectivityChanged
  BY <1>15, PathFacts, FrontOfUser, ReopenTypes DEF ConnectivityChanged
<1>16. CASE ServerTakes
  <2>1. wire' \in Seq(Request)
    BY <1>2, <1>16 DEF ServerTakes
  <2>2. answers' \in Seq(Request) /\ ended' \in Statuses
    BY <1>0, <1>1, <1>2, <1>16 DEF ServerTakes, StreamTypes
  <2> QED
    BY <1>0, <1>16, <2>1, <2>2 DEF ServerTakes, StreamTypes
<1>17. CASE Break
  <2>1. answers \in Seq(Request) /\ Len(answers) \in Nat
    BY <1>0, LenProperties DEF StreamTypes
  <2>2. \A n \in 0 .. Len(answers) : SubSeq(answers, 1, n) \in Seq(Request)
    <3>1. \A n \in 0 .. Len(answers) : \A i \in 1 .. n : answers[i] \in Request
      BY <2>1, ElementOfSeq
    <3> QED
      BY <2>1, <3>1, SubSeqProperties
  <2>3. answers' \in Seq(Request) /\ ended' \in Statuses
    BY <1>0, <1>1, <1>17, <2>2 DEF Break, StreamTypes
  <2> QED
    BY <1>0, <1>17, <2>3 DEF Break, StreamTypes
<1>18. CASE OnWriteStreamHandshakeComplete
  <2>1. wire' \in Seq(Request)
    <3>1. pipeline \in Seq(Request) /\ wire \in Seq(Request)
      BY PathFacts, RequestIs, SeqMonotonic
    <3> QED
      BY <1>18, <3>1, ConcatProperties DEF OnWriteStreamHandshakeComplete, Sent
  <2>2. answers' \in Seq(Request) /\ idle' \in BOOLEAN /\ handshake' \in BOOLEAN
    BY <1>1, <1>2, <1>18, Zenon DEF OnWriteStreamHandshakeComplete
  <2> QED
    BY <1>0, <1>18, <2>1, <2>2 DEF OnWriteStreamHandshakeComplete, StreamTypes
<1>19. CASE OnWriteStreamMutationResult
  <2> DEFINE full == Filled(Tail(pipeline), queue'[user])
  <2> DEFINE new == SubSeq(full, Len(Tail(pipeline)) + 1, Len(full))
  <2>1. /\ answers # << >> /\ handshake /\ Answered("ok")
        /\ pipeline' = full /\ wire' = wire \o new
        /\ idle' = (full = << >> \/ (idle /\ new = << >>))
        /\ answers' = Tail(answers)
        /\ UNCHANGED <<state, asking, token, handshake, ended>>
    BY <1>19, Zenon DEF OnWriteStreamMutationResult
  <2>2. pipeline # << >> /\ pipeline \in Seq(Batch) /\ wire \in Seq(Request)
    BY <2>1, ResponseIs, PathFacts
  <2>3. /\ user \in Users /\ queue'[user] \in Seq(Batch)
        /\ full = Front(queue'[user])
        /\ Begins(Tail(pipeline), full)
    BY <2>1, <2>2, AnsweredIs, PathFacts
  <2>4. full \in Seq(Batch) /\ Tail(pipeline) \in Seq(Batch)
    BY <2>2, <2>3, FrontIs, TailIs
  <2>5. new \in Seq(Batch)
    BY <2>3, <2>4, RestIs
  <2>6. wire' \in Seq(Request)
    BY <2>1, <2>2, <2>5, RequestIs, SeqMonotonic, ConcatProperties
  <2>7. idle' \in BOOLEAN /\ answers' \in Seq(Request)
    BY <1>2, <2>1, Zenon
  <2> QED
    BY <1>0, <2>1, <2>4, <2>6, <2>7 DEF StreamTypes
<1>20. CASE OnWriteStreamClose
  <2>1. CASE BlamesWrite /\ Answered("error")
             /\ Reopen("Initial", Filled(Tail(pipeline), queue'[user]))
    <3>1. pipeline # << >>
      BY <2>1 DEF BlamesWrite
    <3>2. user \in Users /\ queue'[user] \in Seq(Batch)
      BY <2>1, <3>1, AnsweredIs, PathFacts
    <3>3. Filled(Tail(pipeline), queue'[user]) \in Seq(Batch)
      BY <2>1, <3>1, <3>2, AnsweredIs, FrontIs
    <3> QED
      BY <2>1, <3>3, ReopenTypes
  <2>2. CASE Reopen("Error", pipeline)
    BY <2>2, PathFacts, ReopenTypes
  <2> QED
    BY <1>20, <2>1, <2>2 DEF OnWriteStreamClose
<1>21. CASE Crash
  <2>1. account \in Users
    BY <1>0 DEF StoreTypes
  <2> QED
    BY <1>21, <2>1, FrontOfUser, ReopenTypes DEF Crash
<1> QED
  BY <1>4, <1>5, <1>6, <1>7, <1>8, <1>9, <1>10, <1>11, <1>12, <1>13, <1>14,
     <1>15, <1>16, <1>17, <1>18, <1>19, <1>20, <1>21 DEF Next

(* The server, and the history of the writes.                              *)
LEMMA HistoryTypeStep ==
    ASSUME PathInv, Next
    PROVE  HistoryTypes'
<1> USE DEF app, store, stream, net, counters
<1>0. HistoryTypes /\ StoreTypes /\ StreamTypes
  BY TypesAre DEF PathInv
<1>1. ASSUME NEW w \in Writes, Enqueue(w)
      PROVE  maker' \in [Writes -> Users \cup {NoWrite}]
  BY <1>0, <1>1 DEF Enqueue, HistoryTypes, StoreTypes
<1>2. CASE \E w \in Writes : Write(w)
  BY <1>0, <1>1, <1>2 DEF Write, HistoryTypes
<1>3. CASE RunCallback
  <2>1. main # << >> /\ main \in Seq(Answer)
    BY <1>0, <1>3 DEF RunCallback, StoreTypes
  <2>2. Head(main) \in Answer
    BY <2>1, TailIs
  <2>3. Then[Head(main).write] \in Writes \cup {NoWrite}
    BY <2>2, StreamAssumption DEF Answer
  <2>4. maker' \in [Writes -> Users \cup {NoWrite}]
    BY <1>0, <1>1, <1>3, <2>3 DEF RunCallback, HistoryTypes
  <2> QED
    BY <1>0, <1>3, <2>4 DEF RunCallback, HistoryTypes
<1>4. CASE \E u \in Users : AuthChanged(u)
  BY <1>0, <1>4 DEF AuthChanged, HistoryTypes
<1>5. CASE TokenArrives
  <2>1. UNCHANGED <<committed, maker, switches, crashes>>
    BY <1>5 DEF TokenArrives
  <2>2. breaks' = breaks \/ breaks' = breaks + 1
    BY <1>5, Zenon DEF TokenArrives
  <2> QED
    BY <1>0, <2>1, <2>2 DEF HistoryTypes
<1>6. CASE ServerTakes
  <2>1. Head(wire) \in Request
    BY <1>0, <1>6, TailIs DEF ServerTakes, StreamTypes
  <2>2. Head(wire) # Hello => Head(wire).write \in Writes
    BY <2>1 DEF Request, Batch
  <2>3. committed' \in SUBSET Writes
    BY <1>0, <1>6, <2>2 DEF ServerTakes, HistoryTypes
  <2> QED
    BY <1>0, <1>6, <2>3 DEF ServerTakes, HistoryTypes
<1>7. CASE ConnectivityChanged
  BY <1>0, <1>7 DEF ConnectivityChanged, HistoryTypes
<1>8. CASE Break
  BY <1>0, <1>8 DEF Break, HistoryTypes
<1>9. CASE Crash
  BY <1>0, <1>9 DEF Crash, HistoryTypes
<1>10. CASE UNCHANGED <<committed, maker, counters>>
  BY <1>0, <1>10 DEF HistoryTypes
<1>11. CASE WriteMutations \/ HandleCredentialChange
            \/ ResumeStartWithCredentials \/ ResumeStartFails \/ LateToken
  BY <1>10, <1>11 DEF WriteMutations, HandleCredentialChange,
     ResumeStartWithCredentials, ResumeStartFails, LateToken
<1>12. CASE BackoffElapsed \/ IdleTimeout
            \/ OnWriteStreamHandshakeComplete \/ OnWriteStreamMutationResult
            \/ OnWriteStreamClose
  BY <1>10, <1>12 DEF BackoffElapsed, IdleTimeout,
     OnWriteStreamHandshakeComplete, OnWriteStreamMutationResult,
     OnWriteStreamClose
<1> QED
  BY <1>2, <1>3, <1>4, <1>5, <1>6, <1>7, <1>8, <1>9, <1>11, <1>12 DEF Next

LEMMA TypeStep ==
    ASSUME PathInv, Next
    PROVE  TypeOK'
<1>1. TypeOK' <=> StoreTypes' /\ StreamTypes' /\ HistoryTypes'
  BY DEF TypeOK, StoreTypes, StreamTypes, HistoryTypes
<1> QED
  BY <1>1, StoreTypeStep, StreamTypeStep, HistoryTypeStep

-----------------------------------------------------------------------------
(* Ids grow along every queue.                                             *)

(* The steps that touch the store of the client.                           *)
StoreSteps ==
    \/ WriteMutations
    \/ HandleCredentialChange
    \/ OnWriteStreamMutationResult
    \/ OnWriteStreamClose
    \/ Crash

LEMMA OtherSteps ==
    ASSUME Next
    PROVE  StoreSteps \/ UNCHANGED <<store, crashes>>
<1> USE DEF counters
<1>1. CASE \E w \in Writes : Write(w)
  BY <1>1 DEF Write
<1>2. CASE \E u \in Users : AuthChanged(u)
  BY <1>2 DEF AuthChanged
<1>3. CASE RunCallback \/ TokenArrives \/ ResumeStartWithCredentials
           \/ ResumeStartFails \/ LateToken \/ BackoffElapsed
  BY <1>3 DEF RunCallback, TokenArrives, ResumeStartWithCredentials,
     ResumeStartFails, LateToken, BackoffElapsed
<1>4. CASE IdleTimeout \/ ConnectivityChanged \/ ServerTakes \/ Break
           \/ OnWriteStreamHandshakeComplete
  BY <1>4 DEF IdleTimeout, ConnectivityChanged, ServerTakes, Break,
     OnWriteStreamHandshakeComplete
<1> QED
  BY <1>1, <1>2, <1>3, <1>4 DEF Next, StoreSteps

(* The front batch of the user has left the queue.                         *)
LEMMA IdsAfterAnswer ==
    ASSUME PathInv, pipeline # << >>, NEW outcome \in {"ok", "error"},
           Answered(outcome)
    PROVE  IdsInv'
<1>1. /\ user' = user /\ nextId' = nextId /\ user \in Users
      /\ queue' = [queue EXCEPT ![user] = Tail(queue[user])]
      /\ queue \in [Users -> Seq(Batch)]
      /\ queue[user] \in Seq(Batch) /\ queue[user] # << >>
      /\ Growing(Tail(queue[user]))
      /\ \A i \in 1 .. Len(queue[user]) : queue[user][i].id < nextId
      /\ nextId > 0
      /\ \A u \in Users : Growing(queue[u])
  BY AnsweredIs, PathFacts DEF Answered, PathInv, TypeOK, IdsInv
<1>2. \A u \in Users : queue'[u] = IF u = user THEN Tail(queue[user]) ELSE queue[u]
  BY <1>1
<1>3. PICK t : t = Tail(queue[user])
  OBVIOUS
<1>4. /\ Len(queue[user]) \in Nat
      /\ Len(t) = Len(queue[user]) - 1
      /\ \A i \in 1 .. Len(queue[user]) - 1 : t[i] = queue[user][i + 1]
  BY <1>1, <1>3, TailIs
<1>5. \A i \in 1 .. Len(t) : i + 1 \in 1 .. Len(queue[user])
                             /\ t[i] = queue[user][i + 1]
  BY <1>4
<1>6. \A u \in Users : Growing(queue'[u])
  BY <1>1, <1>2
<1>7. \A i \in 1 .. Len(queue'[user]) : queue'[user][i].id < nextId
  BY <1>1, <1>2, <1>3, <1>5
<1>8. PICK n \in Nat : Bounded(queue, n)
  BY DEF PathInv, IdsInv
<1>9. Bounded(queue', n)
  <2> SUFFICES ASSUME NEW u \in Users, NEW i \in 1 .. Len(queue'[u])
               PROVE  queue'[u][i].id <= n
    BY DEF Bounded
  <2>1. CASE u = user
    BY <1>1, <1>2, <1>3, <1>5, <1>8, <2>1 DEF Bounded
  <2>2. CASE u # user
    BY <1>2, <1>8, <2>2 DEF Bounded
  <2> QED
    BY <2>1, <2>2
<1> QED
  BY <1>1, <1>6, <1>7, <1>8, <1>9 DEF IdsInv

LEMMA IdsStep ==
    ASSUME PathInv, Next
    PROVE  IdsInv'
<1>1. CASE UNCHANGED store
  BY <1>1 DEF store, PathInv, IdsInv
<1>2. CASE WriteMutations
  <2>1. PICK b \in Batch :
            /\ b = [id |-> nextId, write |-> Head(tasks).write]
            /\ queue' = [queue EXCEPT ![user] = Append(queue[user], b)]
            /\ queue'[user] = Append(queue[user], b)
            /\ Growing(queue'[user])
    BY <1>2, JoinedIs
  <2>2. user' = user /\ nextId' = nextId + 1 /\ b.id = nextId
    BY <1>2, <2>1 DEF WriteMutations
  <2>3. /\ user \in Users /\ queue \in [Users -> Seq(Batch)]
        /\ nextId \in Nat /\ nextId > 0
        /\ \A u \in Users : Growing(queue[u])
        /\ \A i \in 1 .. Len(queue[user]) : queue[user][i].id < nextId
    BY DEF PathInv, TypeOK, IdsInv
  <2>4. \A u \in Users : u # user => queue'[u] = queue[u]
    BY <2>1, <2>3
  <2>5. PICK r : r = queue'[user]
    OBVIOUS
  <2>6. /\ Len(queue[user]) \in Nat
        /\ Len(r) = Len(queue[user]) + 1
        /\ \A i \in 1 .. Len(queue[user]) : r[i] = queue[user][i]
        /\ r[Len(queue[user]) + 1] = b
    BY <2>1, <2>3, <2>5, AppendedIs
  <2>7. \A i \in 1 .. Len(r) : i \in 1 .. Len(queue[user])
                               \/ i = Len(queue[user]) + 1
    BY <2>6
  <2>8. \A i \in 1 .. Len(queue[user]) : queue[user][i].id \in Nat
    BY <2>3, IdsAreNumbers
  <2>9. \A i \in 1 .. Len(r) : r[i].id < nextId + 1 /\ r[i].id <= nextId
    BY <2>2, <2>3, <2>6, <2>7, <2>8
  <2>10. PICK n \in Nat : Bounded(queue, n)
    BY DEF PathInv, IdsInv
  <2>11. PICK m : m = IF n < nextId THEN nextId ELSE n
    OBVIOUS
  <2>12. m \in Nat /\ n <= m /\ nextId <= m
    BY <2>3, <2>11
  <2>13. Bounded(queue', m)
    <3> SUFFICES ASSUME NEW u \in Users, NEW i \in 1 .. Len(queue'[u])
                 PROVE  queue'[u][i].id <= m
      BY DEF Bounded
    <3>1. CASE u = user
      <4>1. r[i].id \in Nat
        BY <2>2, <2>3, <2>5, <2>6, <2>7, <2>8, <3>1
      <4> QED
        BY <2>3, <2>5, <2>9, <2>12, <3>1, <4>1
    <3>2. CASE u # user
      <4>1. queue'[u] = queue[u] /\ queue[u] \in Seq(Batch)
        BY <2>3, <2>4, <3>2
      <4>2. queue[u][i].id \in Nat /\ queue[u][i].id <= n
        BY <2>10, <4>1, IdsAreNumbers DEF Bounded
      <4> QED
        BY <2>12, <4>1, <4>2
    <3> QED
      BY <3>1, <3>2
  <2>14. nextId + 1 > 0
    BY <2>3
  <2>15. \A u \in Users : Growing(queue'[u])
    BY <2>1, <2>3, <2>4
  <2> QED
    BY <2>2, <2>5, <2>9, <2>12, <2>13, <2>14, <2>15 DEF IdsInv
<1>3. CASE HandleCredentialChange
  <2>1. queue' = queue /\ user' \in Users
    BY <1>3, TypeStep DEF HandleCredentialChange, Next, TypeOK
  <2>2. nextId' = IF user' = user THEN nextId ELSE NextIdOnDisk(queue)
    BY <1>3 DEF HandleCredentialChange
  <2>3. nextId' > 0 /\ \A i \in 1 .. Len(queue[user']) :
                           queue[user'][i].id < nextId'
    BY <2>1, <2>2, DiskIds DEF PathInv, IdsInv
  <2> QED
    BY <2>1, <2>3 DEF PathInv, IdsInv
<1>4. CASE Crash
  <2>1. queue' = queue /\ user' \in Users /\ nextId' = NextIdOnDisk(queue)
    BY <1>4, TypeStep DEF Crash, Next, TypeOK
  <2> QED
    BY <2>1, DiskIds DEF PathInv, IdsInv
<1>5. CASE OnWriteStreamMutationResult
  BY <1>5, ResponseIs, IdsAfterAnswer DEF OnWriteStreamMutationResult
<1>6. CASE OnWriteStreamClose
  <2>1. CASE BlamesWrite /\ Answered("error")
    BY <2>1, IdsAfterAnswer DEF BlamesWrite
  <2> QED
    BY <1>1, <1>6, <2>1 DEF OnWriteStreamClose
<1> QED
  BY <1>1, <1>2, <1>3, <1>4, <1>5, <1>6, OtherSteps DEF StoreSteps

-----------------------------------------------------------------------------
(* The pipeline stays the front of the queue.                              *)

LEMMA FrontAfterReopen ==
    ASSUME NEW p, NEW from \in {"Initial", "Error"}, Reopen(from, p),
           p = Front(queue'[user'])
    PROVE  FrontInv'
<1>1. pipeline' = p /\ state' = Restarted(p, from) /\ ~idle'
  BY DEF Reopen
<1>2. p # << >> => state' \in {"Starting", "Backoff"}
  BY <1>1, RestartedIs
<1> QED
  BY <1>1, <1>2 DEF FrontInv, Started

LEMMA FrontStep ==
    ASSUME PathInv, Next
    PROVE  FrontInv'
<1> USE DEF app, store, stream, net
<1>0. /\ pipeline = Front(queue[user])
      /\ pipeline # << >> => Started
      /\ idle => pipeline = << >> /\ state = "Open" /\ handshake
  BY DEF PathInv, FrontInv
<1>1. CASE UNCHANGED <<store, stream>>
  BY <1>0, <1>1 DEF FrontInv, Started
<1>2. CASE UNCHANGED <<store, pipeline, state, token, handshake, idle>>
  BY <1>0, <1>2 DEF FrontInv, Started
<1>3. CASE \E w \in Writes : Write(w)
  BY <1>1, <1>3 DEF Write
<1>4. CASE RunCallback
  BY <1>1, <1>4 DEF RunCallback
<1>5. CASE \E u \in Users : AuthChanged(u)
  BY <1>1, <1>5 DEF AuthChanged
<1>6. CASE TokenArrives
  BY <1>2, <1>6 DEF TokenArrives
<1>7. CASE WriteMutations
  <2> DEFINE q == queue'[user]
  <2> DEFINE full == Front(q)
  <2> DEFINE new == SubSeq(full, Len(pipeline) + 1, Len(full))
  <2>1. /\ user \in Users /\ queue[user] \in Seq(Batch)
        /\ q \in Seq(Batch)
        /\ Filled(pipeline, q) = full /\ Begins(pipeline, full)
        /\ \E b \in Batch : q = Append(queue[user], b)
    BY <1>7, JoinedIs, PathFacts
  <2>2. q # << >>
    BY <2>1, AppendProperties
  <2>3. full # << >> /\ full \in Seq(Batch)
    BY <2>1, <2>2, FrontIs
  <2>4. Refill(pipeline, q) /\ user' = user
    BY <1>7 DEF WriteMutations
  <2>5. /\ pipeline' = full
        /\ idle' = IF full = << >> THEN (idle \/ state = "Open")
                   ELSE (idle /\ (new = << >> \/ ~handshake))
        /\ state' = IF Started THEN state ELSE Restarted(full, state)
    BY <2>1, <2>4, Zenon DEF Refill
  <2>6. ~idle'
    <3> SUFFICES ASSUME idle'
                 PROVE  FALSE
      OBVIOUS
    <3>1. idle /\ (new = << >> \/ ~handshake)
      BY <2>3, <2>5
    <3>2. new = << >> /\ pipeline = << >>
      BY <1>0, <3>1
    <3>3. new \in Seq(Batch) /\ Len(new) = Len(full) - Len(pipeline)
      BY <2>1, <2>3, PathFacts, RestIs
    <3>4. Len(full) \in Nat /\ Len(full) = 0
      BY <2>3, <3>2, <3>3, EmptySeq, LenProperties
    <3> QED
      BY <2>3, <3>4, EmptySeq
  <2>7. Started'
    <3>1. ~Started => state \in {"Initial", "Error"}
      BY DEF PathInv, TypeOK, Started, States
    <3>2. ~Started => state' \in {"Starting", "Backoff"}
      BY <2>3, <2>5, <3>1, RestartedIs
    <3> QED
      BY <2>5, <3>2 DEF Started
  <2> QED
    BY <2>4, <2>5, <2>6, <2>7 DEF FrontInv
<1>8. CASE HandleCredentialChange
  <2>1. user' \in Users
    BY <1>8, StoreTypeStep DEF Next, StoreTypes
  <2>2. /\ Reopen("Initial", Filled(<< >>, queue[user']))
        /\ queue' = queue
    BY <1>8 DEF HandleCredentialChange
  <2> QED
    BY <2>1, <2>2, FrontOfUser, FrontAfterReopen
<1>9. CASE ResumeStartWithCredentials
  <2>1. tasks # << >> /\ IsToken(Head(tasks))
    BY <1>9 DEF ResumeStartWithCredentials, IsToken
  <2>2. Head(tasks) = tasks[1] /\ 1 \in 1 .. Len(tasks)
    BY <2>1, TailIs DEF PathInv, TypeOK
  <2>3. state = "Starting"
    BY <2>1, <2>2 DEF PathInv, TokenInv
  <2>4. ~idle
    BY <1>0, <2>3
  <2> QED
    BY <1>0, <1>9, <2>4 DEF ResumeStartWithCredentials, FrontInv, Started
<1>10. CASE ResumeStartFails
  BY <1>0, <1>10, FrontAfterReopen DEF ResumeStartFails
<1>11. CASE LateToken
  BY <1>1, <1>11 DEF LateToken
<1>12. CASE BackoffElapsed
  BY <1>0, <1>12 DEF BackoffElapsed, FrontInv, Started
<1>13. CASE IdleTimeout
  BY <1>0, <1>13, FrontAfterReopen DEF IdleTimeout
<1>14. CASE ConnectivityChanged
  BY <1>0, <1>14, PathFacts, FrontOfUser, FrontAfterReopen
     DEF ConnectivityChanged
<1>15. CASE ServerTakes
  BY <1>1, <1>15 DEF ServerTakes
<1>16. CASE Break
  BY <1>1, <1>16 DEF Break
<1>17. CASE OnWriteStreamHandshakeComplete
  BY <1>0, <1>17, Zenon DEF OnWriteStreamHandshakeComplete, FrontInv, Started
<1>18. CASE OnWriteStreamMutationResult
  <2> DEFINE full == Filled(Tail(pipeline), queue'[user])
  <2> DEFINE new == SubSeq(full, Len(Tail(pipeline)) + 1, Len(full))
  <2>1. /\ answers # << >> /\ handshake /\ Answered("ok")
        /\ pipeline' = full
        /\ idle' = (full = << >> \/ (idle /\ new = << >>))
        /\ UNCHANGED <<state, handshake>>
    BY <1>18, Zenon DEF OnWriteStreamMutationResult
  <2>2. pipeline # << >> /\ state = "Open"
    BY <2>1, ResponseIs DEF PathInv, StreamInv
  <2>3. full = Front(queue'[user]) /\ user' = user
    BY <2>1, <2>2, AnsweredIs DEF Answered
  <2>4. idle' => full = << >>
    BY <1>0, <2>1, <2>2, Zenon
  <2> HIDE DEF full
  <2> QED
    BY <2>1, <2>2, <2>3, <2>4 DEF FrontInv, Started
<1>19. CASE OnWriteStreamClose
  <2>1. CASE BlamesWrite /\ Answered("error")
             /\ Reopen("Initial", Filled(Tail(pipeline), queue'[user]))
    <3>1. pipeline # << >>
      BY <2>1 DEF BlamesWrite
    <3>2. /\ Filled(Tail(pipeline), queue'[user]) = Front(queue'[user])
          /\ user' = user
      BY <2>1, <3>1, AnsweredIs DEF Answered
    <3> QED
      BY <2>1, <3>2, FrontAfterReopen
  <2>2. CASE Reopen("Error", pipeline) /\ UNCHANGED store
    BY <1>0, <2>2, FrontAfterReopen
  <2> QED
    BY <1>19, <2>1, <2>2 DEF OnWriteStreamClose
<1>20. CASE Crash
  <2>1. account \in Users
    BY DEF PathInv, TypeOK
  <2>2. /\ Reopen("Initial", Filled(<< >>, queue[account]))
        /\ queue' = queue /\ user' = account
    BY <1>20 DEF Crash
  <2> QED
    BY <2>1, <2>2, FrontOfUser, FrontAfterReopen
<1> QED
  BY <1>3, <1>4, <1>5, <1>6, <1>7, <1>8, <1>9, <1>10, <1>11, <1>12, <1>13,
     <1>14, <1>15, <1>16, <1>17, <1>18, <1>19, <1>20 DEF Next

-----------------------------------------------------------------------------
(* Responses and requests stay in the order of the pipeline.               *)

LEMMA StreamAfterReopen ==
    ASSUME NEW p, NEW from \in {"Initial", "Error"}, Reopen(from, p)
    PROVE  StreamInv'
<1>1. /\ state' # "Open" /\ ~handshake'
      /\ wire' = << >> /\ answers' = << >> /\ ended' = "none"
  BY RestartedIs DEF Reopen
<1> QED
  BY <1>1, Zenon DEF StreamInv

(* The next task is a token: this stream waits for it.                     *)
LEMMA TokenIsAwaited ==
    ASSUME PathInv, tasks # << >>, IsToken(Head(tasks))
    PROVE  /\ state = "Starting" /\ ~asking
           /\ \A i \in 1 .. Len(Tail(tasks)) : ~IsToken(Tail(tasks)[i])
<1>1. /\ Len(tasks) \in Nat
      /\ Len(Tail(tasks)) = Len(tasks) - 1
      /\ \A i \in 1 .. Len(tasks) - 1 : Tail(tasks)[i] = tasks[i + 1]
      /\ Head(tasks) = tasks[1] /\ 1 \in 1 .. Len(tasks)
  BY TailIs DEF PathInv, TypeOK
<1>2. \A i \in 1 .. Len(tasks) - 1 : i + 1 \in 1 .. Len(tasks) /\ i + 1 # 1
  BY <1>1
<1>3. /\ \A i \in 1 .. Len(tasks) :
             IsToken(tasks[i]) => state = "Starting" /\ ~asking
      /\ \A i, j \in 1 .. Len(tasks) :
             IsToken(tasks[i]) /\ IsToken(tasks[j]) => i = j
  BY DEF PathInv, TokenInv
<1> QED
  BY <1>1, <1>2, <1>3

LEMMA StreamStep ==
    ASSUME PathInv, Next
    PROVE  StreamInv'
<1> USE DEF app, store, stream, net
<1>0. /\ state # "Open" =>
             wire = << >> /\ answers = << >> /\ ended = "none" /\ ~handshake
      /\ state = "Open" /\ ~handshake => Greeting(answers, wire, ended)
      /\ handshake => Aligned(pipeline, answers, wire, ended)
  BY DEF PathInv, StreamInv
<1>1. /\ pipeline \in Seq(Batch)
      /\ wire \in Seq(Request) /\ answers \in Seq(Request)
      /\ ended \in Statuses
  BY PathFacts DEF PathInv, TypeOK
<1>2. CASE UNCHANGED <<pipeline, state, handshake, net>>
  BY <1>0, <1>2 DEF StreamInv
<1>3. CASE \E w \in Writes : Write(w)
  BY <1>2, <1>3 DEF Write
<1>4. CASE RunCallback
  BY <1>2, <1>4 DEF RunCallback
<1>5. CASE \E u \in Users : AuthChanged(u)
  BY <1>2, <1>5 DEF AuthChanged
<1>6. CASE TokenArrives
  BY <1>2, <1>6 DEF TokenArrives
<1>7. CASE WriteMutations
  <2> DEFINE q == queue'[user]
  <2> DEFINE new == SubSeq(Front(q), Len(pipeline) + 1, Len(Front(q)))
  <2>1. /\ user \in Users /\ q \in Seq(Batch)
        /\ Filled(pipeline, q) = Front(q) /\ Begins(pipeline, Front(q))
    BY <1>7, JoinedIs, PathFacts
  <2>2. Refill(pipeline, q)
    BY <1>7 DEF WriteMutations
  <2>3. /\ pipeline' = Front(q)
        /\ wire' = IF state = "Open" /\ handshake THEN wire \o new ELSE wire
        /\ state' = IF Started THEN state ELSE Restarted(Front(q), state)
        /\ UNCHANGED <<handshake, answers, ended>>
    BY <2>1, <2>2, Zenon DEF Refill
  <2>4. state' = state \/ (state # "Open" /\ state' # "Open")
    <3>1. ~Started => state \in {"Initial", "Error"}
      BY DEF PathInv, TypeOK, Started, States
    <3> QED
      BY <2>3, <3>1, RestartedIs
  <2>5. handshake => Aligned(Front(q), answers, wire \o new, ended)
    BY <1>0, <1>1, <2>1, FrontIs, AlignedGrows
  <2> HIDE DEF q, new
  <2>6. handshake' => Aligned(pipeline', answers', wire', ended')
    BY <1>0, <2>3, <2>5
  <2> QED
    BY <1>0, <2>3, <2>4, <2>6 DEF StreamInv
<1>8. CASE HandleCredentialChange
  BY <1>8, StreamAfterReopen DEF HandleCredentialChange
<1>9. CASE ResumeStartWithCredentials
  <2>1. state = "Starting"
    BY <1>9, TokenIsAwaited DEF ResumeStartWithCredentials, IsToken
  <2>2. /\ wire' = <<Hello>> /\ answers' = << >> /\ state' = "Open"
        /\ ~handshake'
    BY <1>0, <1>9, <2>1 DEF ResumeStartWithCredentials
  <2> QED
    BY <2>2 DEF StreamInv, Greeting
<1>10. CASE ResumeStartFails
  BY <1>10, StreamAfterReopen DEF ResumeStartFails
<1>11. CASE LateToken
  BY <1>2, <1>11 DEF LateToken
<1>12. CASE BackoffElapsed
  BY <1>0, <1>12 DEF BackoffElapsed, StreamInv
<1>13. CASE IdleTimeout
  BY <1>13, StreamAfterReopen DEF IdleTimeout
<1>14. CASE ConnectivityChanged
  BY <1>14, StreamAfterReopen DEF ConnectivityChanged
<1>15. CASE ServerTakes
  <2>1. /\ wire # << >> /\ ended = "none" /\ wire' = Tail(wire)
        /\ UNCHANGED <<pipeline, state, handshake>>
        /\ \/ /\ Head(wire).write \in Bad
              /\ ended' = "permanent" /\ answers' = answers
           \/ /\ Head(wire).write \notin Bad
              /\ ended' = ended /\ answers' = Append(answers, Head(wire))
    BY <1>15 DEF ServerTakes
  <2>2. state = "Open"
    BY <1>0, <2>1
  <2>3. CASE ~handshake
    <3>1. answers = << >> /\ wire = <<Hello>>
      BY <1>0, <2>1, <2>2, <2>3 DEF Greeting
    <3>2. Head(wire) = Hello /\ Tail(wire) = << >> /\ Append(<< >>, Hello) = <<Hello>>
      BY <3>1
    <3>3. wire' = << >> /\ answers' = <<Hello>> /\ ended' = "none"
      BY <2>1, <3>1, <3>2, RequestIs
    <3> QED
      BY <2>1, <2>2, <2>3, <3>3 DEF StreamInv, Greeting
  <2>4. CASE handshake
    <3>1. /\ Aligned(pipeline, Append(answers, Head(wire)), Tail(wire), "none")
          /\ Head(wire).write \in Bad =>
                 Aligned(pipeline, answers, Tail(wire), "permanent")
      BY <1>0, <1>1, <2>1, <2>4, AlignedRead
    <3>2. Aligned(pipeline', answers', wire', ended')
      BY <2>1, <3>1
    <3> QED
      BY <2>1, <2>2, <2>4, <3>2 DEF StreamInv
  <2> QED
    BY <2>3, <2>4
<1>16. CASE Break
  <2>1. /\ state = "Open" /\ ended = "none"
        /\ UNCHANGED <<pipeline, state, handshake, wire>>
    BY <1>16 DEF Break
  <2>2. CASE ended' = "transient"
             /\ \E n \in 0 .. Len(answers) : answers' = SubSeq(answers, 1, n)
    <3>1. PICK n \in 0 .. Len(answers) : answers' = SubSeq(answers, 1, n)
      BY <2>2
    <3>2. handshake => Aligned(pipeline, answers', wire, "transient")
      BY <1>0, <1>1, <3>1, AlignedBreak
    <3>3. ASSUME ~handshake
          PROVE  Greeting(answers', wire, "transient")
      <4>1. CASE answers = << >>
        <5>1. n = 0
          BY <3>1, <4>1, EmptySeq
        <5>2. answers' = << >>
          BY <3>1, <5>1, SubSeqEmpty
        <5> QED
          BY <5>2 DEF Greeting
      <4>2. CASE answers = <<Hello>> /\ wire = << >>
        <5>1. Len(answers) = 1
          BY <4>2
        <5>2. n = 0 \/ n = 1
          BY <3>1, <5>1
        <5>3. n = 0 => answers' = << >>
          BY <3>1, SubSeqEmpty
        <5>4. n = 1 => answers' = answers
          BY <1>1, <3>1, <5>1, SubSeqFull
        <5> QED
          BY <4>2, <5>2, <5>3, <5>4 DEF Greeting
      <4> QED
        BY <1>0, <2>1, <3>3, <4>1, <4>2 DEF Greeting
    <3> QED
      BY <2>1, <2>2, <3>2, <3>3 DEF StreamInv
  <2>3. CASE wire = <<Hello>> /\ ended' = "permanent" /\ answers' = answers
    <3>1. ~handshake
      <4> SUFFICES ASSUME handshake
                   PROVE  FALSE
        OBVIOUS
      <4>1. wire # << >> /\ Head(wire) = Hello
        BY <2>3
      <4>2. /\ Len(answers) + 1 \in 1 .. Len(pipeline)
            /\ Head(wire) = pipeline[Len(answers) + 1]
        BY <1>0, <1>1, <2>1, <4>1, AlignedRead
      <4> QED
        BY <1>1, <4>1, <4>2, IdsAreNumbers, RequestIs
    <3>2. answers = << >>
      BY <1>0, <2>1, <2>3, <3>1 DEF Greeting
    <3> QED
      BY <2>1, <2>3, <3>1, <3>2 DEF StreamInv, Greeting
  <2> QED
    BY <1>16, <2>2, <2>3 DEF Break
<1>17. CASE OnWriteStreamHandshakeComplete
  <2>1. /\ answers # << >> /\ ~handshake /\ answers' = Tail(answers)
        /\ handshake' = TRUE /\ wire' = wire \o pipeline
        /\ UNCHANGED <<pipeline, state, ended>>
    BY <1>17 DEF OnWriteStreamHandshakeComplete, Sent
  <2>2. state = "Open"
    BY <1>0, <2>1
  <2>3. answers = <<Hello>> /\ wire = << >> /\ ended # "permanent"
    BY <1>0, <2>1, <2>2 DEF Greeting
  <2>4. Tail(answers) = << >>
    BY <2>3
  <2>5. wire' = pipeline
    BY <1>1, <2>1, <2>3, ConcatEmptySeq
  <2>6. ended \in {"none", "transient"}
    BY <1>1, <2>3 DEF Statuses
  <2>7. Aligned(pipeline, << >>, pipeline, ended)
    BY <1>1, <2>6, AlignedSent
  <2>8. Aligned(pipeline', answers', wire', ended')
    BY <2>1, <2>4, <2>5, <2>7
  <2> QED
    BY <2>1, <2>2, <2>8 DEF StreamInv
<1>18. CASE OnWriteStreamMutationResult
  <2> DEFINE full == Filled(Tail(pipeline), queue'[user])
  <2> DEFINE new == SubSeq(full, Len(Tail(pipeline)) + 1, Len(full))
  <2>1. /\ answers # << >> /\ handshake /\ Answered("ok")
        /\ pipeline' = full /\ wire' = wire \o new
        /\ answers' = Tail(answers)
        /\ UNCHANGED <<state, handshake, ended>>
    BY <1>18, Zenon DEF OnWriteStreamMutationResult
  <2>2. /\ pipeline # << >> /\ state = "Open"
        /\ Aligned(Tail(pipeline), Tail(answers), wire, ended)
    BY <1>0, <2>1, ResponseIs
  <2>3. /\ user \in Users /\ queue'[user] \in Seq(Batch)
        /\ full = Front(queue'[user]) /\ Begins(Tail(pipeline), full)
    BY <2>1, <2>2, AnsweredIs, PathFacts
  <2>4. full \in Seq(Batch) /\ Tail(pipeline) \in Seq(Batch)
        /\ Tail(answers) \in Seq(Request)
    BY <1>1, <2>1, <2>2, <2>3, FrontIs, TailIs
  <2>5. Aligned(full, Tail(answers), wire \o new, ended)
    BY <1>1, <2>2, <2>3, <2>4, AlignedGrows
  <2> HIDE DEF full, new
  <2>6. Aligned(pipeline', answers', wire', ended')
    BY <2>1, <2>5
  <2> QED
    BY <2>1, <2>2, <2>6 DEF StreamInv
<1>19. CASE OnWriteStreamClose
  BY <1>19, StreamAfterReopen DEF OnWriteStreamClose
<1>20. CASE Crash
  BY <1>20, StreamAfterReopen DEF Crash
<1> QED
  BY <1>3, <1>4, <1>5, <1>6, <1>7, <1>8, <1>9, <1>10, <1>11, <1>12, <1>13,
     <1>14, <1>15, <1>16, <1>17, <1>18, <1>19, <1>20 DEF Next

-----------------------------------------------------------------------------
(* A token in the worker queue is the one the stream waits for.            *)

NoTokens(ts) == \A i \in 1 .. Len(ts) : ~IsToken(ts[i])

LEMMA TokenAfterReopen ==
    ASSUME NEW p, NEW from \in {"Initial", "Error"}, Reopen(from, p),
           NoTokens(tasks')
    PROVE  TokenInv'
BY DEF Reopen, TokenInv, NoTokens

LEMMA NoneLeft ==
    ASSUME NEW ts \in Seq(Task)
    PROVE  NoTokens(WithoutTokens(ts))
BY LateIs DEF NoTokens

LEMMA TokenStep ==
    ASSUME PathInv, Next
    PROVE  TokenInv'
<1> USE DEF app, store, stream, net
<1>0. TokenInv /\ tasks \in Seq(Task)
  BY DEF PathInv, TypeOK
<1>1. CASE UNCHANGED <<tasks, state, asking>>
  BY <1>0, <1>1 DEF TokenInv
<1>2. ASSUME NEW t, ~IsToken(t), tasks' = Append(tasks, t), t \in Task,
             UNCHANGED <<state, asking>>
      PROVE  TokenInv'
  <2>1. /\ Len(tasks) \in Nat
        /\ Len(tasks') = Len(tasks) + 1
        /\ \A i \in 1 .. Len(tasks) : tasks'[i] = tasks[i]
        /\ tasks'[Len(tasks) + 1] = t
    BY <1>0, <1>2, AppendProperties, LenProperties
  <2>2. \A i \in 1 .. Len(tasks') : i \in 1 .. Len(tasks) \/ i = Len(tasks) + 1
    BY <2>1
  <2>3. \A i \in 1 .. Len(tasks') : IsToken(tasks'[i]) =>
            i \in 1 .. Len(tasks) /\ tasks'[i] = tasks[i]
    BY <1>2, <2>1, <2>2
  <2> QED
    BY <1>0, <1>2, <2>3 DEF TokenInv
<1>3. ASSUME tasks # << >>, tasks' = Tail(tasks), UNCHANGED <<state, asking>>
      PROVE  TokenInv'
  <2>1. /\ Len(tasks) \in Nat
        /\ Len(tasks') = Len(tasks) - 1
        /\ \A i \in 1 .. Len(tasks) - 1 : tasks'[i] = tasks[i + 1]
    BY <1>0, <1>3, TailIs
  <2>2. \A i \in 1 .. Len(tasks') :
            i + 1 \in 1 .. Len(tasks) /\ tasks'[i] = tasks[i + 1]
    BY <2>1
  <2>3. \A i, j \in 1 .. Len(tasks') : i + 1 = j + 1 => i = j
    BY <2>1
  <2> QED
    BY <1>0, <1>3, <2>2, <2>3 DEF TokenInv
<1>4. ASSUME NEW w \in Writes, Enqueue(w), UNCHANGED <<state, asking>>
      PROVE  TokenInv'
  <2>1. PICK t : t = [task |-> "write", write |-> w]
    OBVIOUS
  <2>2. t.task = "write" /\ t \in Task
    BY <2>1, NewTasks
  <2>3. ~IsToken(t) /\ tasks' = Append(tasks, t)
    BY <1>4, <2>1, <2>2 DEF IsToken, Enqueue
  <2> QED
    BY <1>2, <1>4, <2>2, <2>3
<1>5. CASE \E w \in Writes : Write(w)
  BY <1>4, <1>5 DEF Write
<1>6. CASE RunCallback
  <2>1. main # << >> /\ main \in Seq(Answer)
    BY <1>6 DEF RunCallback, PathInv, TypeOK
  <2>2. Head(main) \in Answer
    BY <2>1, TailIs
  <2>3. Then[Head(main).write] \in Writes \cup {NoWrite}
    BY <2>2, StreamAssumption DEF Answer
  <2>4. CASE Enqueue(Then[Head(main).write]) /\ Then[Head(main).write] # NoWrite
    BY <1>4, <1>6, <2>3, <2>4 DEF RunCallback
  <2>5. CASE UNCHANGED tasks
    BY <1>1, <1>6, <2>5 DEF RunCallback
  <2> QED
    BY <1>6, <2>4, <2>5 DEF RunCallback
<1>7. CASE \E u \in Users : AuthChanged(u)
  <2>1. PICK u \in Users : AuthChanged(u)
    BY <1>7
  <2>2. PICK t : t = [task |-> "user", user |-> u]
    OBVIOUS
  <2>3. t.task = "user" /\ t \in Task
    BY <2>2, NewTasks
  <2>4. ~IsToken(t) /\ tasks' = Append(tasks, t) /\ UNCHANGED <<state, asking>>
    BY <2>1, <2>2, <2>3 DEF IsToken, AuthChanged, Passed
  <2> QED
    BY <1>2, <2>3, <2>4
<1>8. CASE TokenArrives
  <2>1. asking /\ asking' = FALSE /\ state' = state
    BY <1>8 DEF TokenArrives
  <2>2. state = "Starting" /\ NoTokens(tasks)
    BY <1>0, <2>1 DEF TokenInv, NoTokens
  <2>3. \E t \in Task : tasks' = Append(tasks, t)
    <3>1. account \in Users
      BY DEF PathInv, TypeOK
    <3>2. /\ [task |-> "token", user |-> account] \in Task
          /\ [task |-> "no token"] \in Task
      BY <3>1, NewTasks
    <3> QED
      BY <1>8, <3>2, Zenon DEF TokenArrives
  <2>4. /\ Len(tasks) \in Nat
        /\ Len(tasks') = Len(tasks) + 1
        /\ \A i \in 1 .. Len(tasks) : tasks'[i] = tasks[i]
    BY <1>0, <2>3, AppendProperties, LenProperties
  <2>5. \A i \in 1 .. Len(tasks') : i \in 1 .. Len(tasks) \/ i = Len(tasks) + 1
    BY <2>4
  <2>6. \A i \in 1 .. Len(tasks') : IsToken(tasks'[i]) => i = Len(tasks) + 1
    BY <2>2, <2>4, <2>5 DEF NoTokens
  <2> QED
    BY <2>1, <2>2, <2>6 DEF TokenInv
<1>9. CASE WriteMutations
  <2>1. user \in Users
    BY PathFacts
  <2>2. /\ Filled(pipeline, queue'[user]) = Front(queue'[user])
        /\ Refill(pipeline, queue'[user])
        /\ tasks # << >> /\ tasks' = Tail(tasks)
    BY <1>9, <2>1, JoinedIs DEF WriteMutations
  <2>3. CASE state = "Starting"
    <3>1. state' = state
      BY <2>2, <2>3 DEF Refill, Started
    <3>2. asking' = (asking \/ (~Started /\ state' = "Starting"))
      BY <2>2 DEF Refill
    <3>3. Started
      BY <2>3 DEF Started
    <3>4. asking \in BOOLEAN
      BY DEF PathInv, TypeOK
    <3>5. asking' = asking
      BY <3>2, <3>3, <3>4, Zenon
    <3> QED
      BY <1>3, <2>2, <3>1, <3>5
  <2>4. CASE state # "Starting"
    <3>1. ~asking /\ NoTokens(tasks)
      BY <1>0, <2>4 DEF TokenInv, NoTokens
    <3>2. asking' => state' = "Starting"
      BY <2>2, <3>1 DEF Refill
    <3>3. /\ Len(tasks) \in Nat
          /\ Len(tasks') = Len(tasks) - 1
          /\ \A i \in 1 .. Len(tasks) - 1 : tasks'[i] = tasks[i + 1]
      BY <1>0, <2>2, TailIs
    <3>4. \A i \in 1 .. Len(tasks') :
              i + 1 \in 1 .. Len(tasks) /\ tasks'[i] = tasks[i + 1]
      BY <3>3
    <3>5. NoTokens(tasks')
      BY <3>1, <3>4 DEF NoTokens
    <3> QED
      BY <3>2, <3>5 DEF TokenInv, NoTokens
  <2> QED
    BY <2>3, <2>4
<1>10. CASE HandleCredentialChange
  <2>1. Tail(tasks) \in Seq(Task)
    BY <1>0, <1>10, TailIs DEF HandleCredentialChange
  <2> QED
    BY <1>10, <2>1, NoneLeft, TokenAfterReopen DEF HandleCredentialChange
<1>11. CASE ResumeStartWithCredentials
  <2>1. /\ state = "Starting" /\ ~asking
        /\ \A i \in 1 .. Len(Tail(tasks)) : ~IsToken(Tail(tasks)[i])
    BY <1>11, TokenIsAwaited DEF ResumeStartWithCredentials, IsToken
  <2>2. tasks' = Tail(tasks) /\ asking' = asking
    BY <1>11 DEF ResumeStartWithCredentials
  <2> QED
    BY <2>1, <2>2 DEF TokenInv
<1>12. CASE ResumeStartFails
  <2>1. Tail(tasks) \in Seq(Task)
    BY <1>0, <1>12, TailIs DEF ResumeStartFails
  <2> QED
    BY <1>12, <2>1, NoneLeft, TokenAfterReopen DEF ResumeStartFails
<1>13. CASE LateToken
  BY <1>3, <1>13 DEF LateToken
<1>14. CASE BackoffElapsed
  <2>1. NoTokens(tasks) /\ state' = "Starting" /\ tasks' = tasks
    BY <1>0, <1>14 DEF BackoffElapsed, TokenInv, NoTokens
  <2> QED
    BY <2>1 DEF TokenInv, NoTokens
<1>15. CASE IdleTimeout
  BY <1>0, <1>15, NoneLeft, TokenAfterReopen DEF IdleTimeout
<1>16. CASE ConnectivityChanged
  BY <1>0, <1>16, NoneLeft, TokenAfterReopen DEF ConnectivityChanged
<1>17. CASE ServerTakes
  BY <1>1, <1>17 DEF ServerTakes
<1>18. CASE Break
  BY <1>1, <1>18 DEF Break
<1>19. CASE OnWriteStreamHandshakeComplete
  BY <1>1, <1>19 DEF OnWriteStreamHandshakeComplete
<1>20. CASE OnWriteStreamMutationResult
  BY <1>1, <1>20 DEF OnWriteStreamMutationResult
<1>21. CASE OnWriteStreamClose
  BY <1>0, <1>21, NoneLeft, TokenAfterReopen DEF OnWriteStreamClose
<1>22. CASE Crash
  <2>1. NoTokens(tasks')
    BY <1>22, EmptySeq DEF Crash, NoTokens
  <2> QED
    BY <1>22, <2>1, TokenAfterReopen DEF Crash
<1> QED
  BY <1>5, <1>6, <1>7, <1>8, <1>9, <1>10, <1>11, <1>12, <1>13, <1>14, <1>15,
     <1>16, <1>17, <1>18, <1>19, <1>20, <1>21, <1>22 DEF Next

-----------------------------------------------------------------------------
(* The first three layers hold of every behaviour.                         *)

LEMMA PathInit == Init => PathInv
<1> SUFFICES ASSUME Init
             PROVE  PathInv
  OBVIOUS
<1>1. TypeOK
  <2>1. << >> \in Seq(Batch) /\ << >> \in Seq(Answer) /\ << >> \in Seq(Task)
        /\ << >> \in Seq(Request)
    BY EmptySeq
  <2>2. account \in Users /\ Nobody \in Users
    BY StreamAssumption DEF Init
  <2> QED
    BY <2>1, <2>2 DEF Init, TypeOK, States, Statuses
<1>2. user \in Users /\ \A u \in Users : queue[u] = << >> /\ Len(queue[u]) = 0
  BY <1>1, EmptySeq DEF Init, TypeOK
<1>3. IdsInv
  BY <1>2 DEF Init, IdsInv, Growing, Bounded
<1>4. FrontInv
  <2>1. Front(queue[user]) = << >>
    BY <1>1, <1>2, FrontIs DEF TypeOK
  <2> QED
    BY <2>1 DEF Init, FrontInv
<1>5. StreamInv
  BY DEF Init, StreamInv
<1>6. TokenInv
  BY EmptySeq DEF Init, TokenInv
<1> QED
  BY <1>1, <1>3, <1>4, <1>5, <1>6 DEF PathInv

LEMMA PathStutter == PathInv /\ UNCHANGED vars => PathInv'
<1> SUFFICES ASSUME PathInv, UNCHANGED vars
             PROVE  PathInv'
  OBVIOUS
<1> USE DEF vars, app, store, stream, net, counters
<1>1. TypeOK'
  BY DEF PathInv, TypeOK
<1>2. IdsInv'
  BY DEF PathInv, IdsInv
<1>3. FrontInv'
  BY DEF PathInv, FrontInv, Started
<1>4. StreamInv'
  BY DEF PathInv, StreamInv
<1>5. TokenInv'
  BY DEF PathInv, TokenInv
<1> QED
  BY <1>1, <1>2, <1>3, <1>4, <1>5 DEF PathInv

THEOREM PathHolds == Spec => []PathInv
<1>1. PathInv /\ [Next]_vars => PathInv'
  <2>1. PathInv /\ Next => PathInv'
    BY TypeStep, IdsStep, FrontStep, StreamStep, TokenStep DEF PathInv
  <2> QED
    BY <2>1, PathStutter
<1> QED
  BY <1>1, PathInit, PTL DEF Spec

(* Type correctness of the write path.                                     *)
THEOREM TypeCorrect == Spec => []TypeOK
<1>1. PathInv => TypeOK
  BY DEF PathInv
<1> QED
  BY <1>1, PathHolds, PTL

(* However accounts, breaks and crashes interleave with writes, a response *)
(* belongs to the front of the pipeline and a refusal to the first batch   *)
(* without a response, as OnWriteStreamMutationResult and HandleWriteError *)
(* take for granted.                                                       *)
THEOREM ResponsesInStep == Spec => []InStep
<1>1. PathInv => InStep
  <2> SUFFICES ASSUME PathInv
               PROVE  InStep
    OBVIOUS
  <2>1. /\ pipeline \in Seq(Batch)
        /\ wire \in Seq(Request) /\ answers \in Seq(Request)
        /\ ended \in {"none", "transient", "permanent"}
    BY PathFacts DEF PathInv, TypeOK, Statuses
  <2>2. state # "Open" =>
            wire = << >> /\ answers = << >> /\ ended = "none" /\ ~handshake
    BY DEF PathInv, StreamInv
  <2>3. state = "Open" /\ ~handshake =>
            \/ answers \o wire = <<Hello>>
            \/ ended = "transient" /\ answers = << >>
    <3>1. <<Hello>> \in Seq(Request)
      BY RequestIs
    <3>2. << >> \o <<Hello>> = <<Hello>> /\ <<Hello>> \o << >> = <<Hello>>
      BY <3>1, ConcatEmptySeq
    <3> QED
      BY <3>2 DEF PathInv, StreamInv, Greeting
  <2>4. handshake =>
            /\ ended = "none" => answers \o wire = pipeline
            /\ ended = "transient" => answers = SubSeq(pipeline, 1, Len(answers))
            /\ ended = "permanent" => \E i \in 1 .. Len(pipeline) :
                   /\ pipeline[i].write \in Bad
                   /\ answers \o <<pipeline[i]>> \o wire = pipeline
    BY <2>1, AlignedIs DEF PathInv, StreamInv
  <2>5. state = "Open" /\ handshake =>
            CASE ended = "none" -> answers \o wire = pipeline
              [] ended = "transient" ->
                     answers = SubSeq(pipeline, 1, Len(answers))
              [] ended = "permanent" ->
                     \E i \in 1 .. Len(pipeline) :
                         /\ pipeline[i].write \in Bad
                         /\ answers \o <<pipeline[i]>> \o wire = pipeline
    <3>1. CASE ended = "none"
      BY <2>4, <3>1
    <3>2. CASE ended = "transient"
      BY <2>4, <3>2
    <3>3. CASE ended = "permanent"
      BY <2>4, <3>3
    <3> QED
      BY <2>1, <3>1, <3>2, <3>3
  <2> QED
    BY <2>2, <2>3, <2>5 DEF InStep
<1> QED
  BY <1>1, PathHolds, PTL

(* The pipeline is the front of the queue of whoever is signed in, filled  *)
(* as far as it goes, and the stream is not stopped while there is         *)
(* something to send: the assertion of OnWriteStreamClose.                 *)
THEOREM PipelineFull == Spec => []PipelineIsFront
<1>1. PathInv => PipelineIsFront
  BY DEF PathInv, FrontInv, Front, TokenInv, PipelineIsFront
<1> QED
  BY <1>1, PathHolds, PTL

-----------------------------------------------------------------------------
(* Callbacks and batches belong together.                                  *)

LEMMA CallbacksAfterAnswer ==
    ASSUME PathInv, CallbackInv, pipeline # << >>,
           NEW outcome \in {"ok", "error"}, Answered(outcome),
           crashes' = crashes
    PROVE  CallbackInv'
<1>1. PICK q \in Seq(Batch) : q = queue[user]
  BY PathFacts
<1>2. /\ user \in Users /\ Growing(q) /\ q # << >>
      /\ Head(pipeline) = q[1]
      /\ queue' = [queue EXCEPT ![user] = Tail(q)]
      /\ queue \in [Users -> Seq(Batch)]
      /\ callbacks \subseteq Callback
  BY <1>1, PathFacts, AnsweredIs DEF PathInv, TypeOK
<1>3. PICK r : r = Tail(q)
  OBVIOUS
<1>4. /\ Len(q) \in Nat /\ Len(q) > 0
      /\ Len(r) = Len(q) - 1
      /\ \A i \in 1 .. Len(q) - 1 : r[i] = q[i + 1]
  BY <1>2, <1>3, TailIs
<1>5. \A u \in Users : queue'[u] = IF u = user THEN r ELSE queue[u]
  BY <1>2, <1>3
<1>6. callbacks' = {c \in callbacks : ~(c.user = user /\ c.id = q[1].id)}
  BY <1>2 DEF Answered, Registered
<1>7. ASSUME NEW c \in callbacks'
      PROVE  \E i \in 1 .. Len(queue'[c.user]) :
                 queue'[c.user][i] = [id |-> c.id, write |-> c.write]
  <2>1. /\ c \in callbacks /\ ~(c.user = user /\ c.id = q[1].id)
        /\ c.user \in Users
    BY <1>2, <1>6, <1>7 DEF Callback
  <2>2. PICK i \in 1 .. Len(queue[c.user]) :
            queue[c.user][i] = [id |-> c.id, write |-> c.write]
    BY <2>1 DEF CallbackInv
  <2>3. CASE c.user = user
    <3>1. i \in 1 .. Len(q) /\ q[i] = [id |-> c.id, write |-> c.write]
      BY <1>1, <2>2, <2>3
    <3>2. q[i].id = c.id
      BY <3>1
    <3>3. i # 1
      BY <2>1, <2>3, <3>2
    <3>4. PICK j : j = i - 1
      OBVIOUS
    <3>5. j \in 1 .. Len(r) /\ j \in 1 .. Len(q) - 1 /\ j + 1 = i
      BY <1>4, <3>1, <3>3, <3>4
    <3>6. r[j] = [id |-> c.id, write |-> c.write]
      BY <1>4, <3>1, <3>5
    <3> QED
      BY <1>2, <1>5, <2>3, <3>5, <3>6
  <2>4. CASE c.user # user
    BY <1>5, <2>1, <2>2, <2>4
  <2> QED
    BY <2>3, <2>4
<1>8. ASSUME crashes' = 0, NEW u \in Users, NEW i \in 1 .. Len(queue'[u])
      PROVE  CallbackOf(u, queue'[u][i]) \in callbacks'
  <2>1. \A v \in Users : \A j \in 1 .. Len(queue[v]) :
            CallbackOf(v, queue[v][j]) \in callbacks
    BY <1>8 DEF CallbackInv
  <2>2. CASE u = user
    <3>1. PICK j : j = i + 1
      OBVIOUS
    <3>2. i \in 1 .. Len(r) /\ queue'[u] = r
      BY <1>5, <1>8, <2>2
    <3>3. j \in 1 .. Len(q) /\ 1 \in 1 .. Len(q) /\ 1 < j
          /\ i \in 1 .. Len(q) - 1
      BY <1>4, <3>1, <3>2
    <3>4. r[i] = q[j] /\ q[1].id < q[j].id
      BY <1>2, <1>4, <3>1, <3>3 DEF Growing
    <3>5. q[1].id \in Nat /\ q[j].id \in Nat
      BY <3>3, IdsAreNumbers
    <3>6. CallbackOf(user, q[j]) \in callbacks
      BY <1>1, <1>2, <2>1, <3>3
    <3>7. CallbackOf(user, q[j]).id = q[j].id /\ q[j].id # q[1].id
      BY <3>4, <3>5 DEF CallbackOf
    <3> QED
      BY <1>6, <2>2, <3>2, <3>4, <3>6, <3>7
  <2>3. CASE u # user
    <3>1. queue'[u] = queue[u]
      BY <1>5, <2>3
    <3>2. CallbackOf(u, queue[u][i]) \in callbacks
      BY <1>8, <2>1, <3>1
    <3>3. CallbackOf(u, queue[u][i]).user = u
      BY DEF CallbackOf
    <3> QED
      BY <1>6, <2>3, <3>1, <3>2, <3>3
  <2> QED
    BY <2>2, <2>3
<1> QED
  BY <1>7, <1>8 DEF CallbackInv

LEMMA CallbackStep ==
    ASSUME PathInv, CallbackInv, Next
    PROVE  CallbackInv'
<1> USE DEF counters
<1>1. CASE UNCHANGED <<store, crashes>>
  BY <1>1 DEF store, CallbackInv
<1>2. CASE WriteMutations
  <2>1. PICK b \in Batch :
            /\ b = [id |-> nextId, write |-> Head(tasks).write]
            /\ queue' = [queue EXCEPT ![user] = Append(queue[user], b)]
    BY <1>2, JoinedIs
  <2>2. PICK q \in Seq(Batch) : q = queue[user]
    BY PathFacts
  <2>3. PICK r : r = Append(q, b)
    OBVIOUS
  <2>4. /\ Len(q) \in Nat
        /\ Len(r) = Len(q) + 1
        /\ \A i \in 1 .. Len(q) : r[i] = q[i]
        /\ r[Len(q) + 1] = b
    BY <2>3, AppendedIs
  <2>5. /\ user \in Users /\ queue \in [Users -> Seq(Batch)]
        /\ callbacks \subseteq Callback
        /\ nextId \in Nat /\ b.id = nextId
        /\ \A i \in 1 .. Len(q) : q[i].id < nextId
    BY <2>1, <2>2, PathFacts DEF PathInv, TypeOK, IdsInv
  <2>6. \A u \in Users : queue'[u] = IF u = user THEN r ELSE queue[u]
    BY <2>1, <2>2, <2>3, <2>5
  <2>7. Registered(b) = {}
    <3> SUFFICES ASSUME NEW c \in callbacks, c.user = user, c.id = b.id
                 PROVE  FALSE
      BY DEF Registered
    <3>1. PICK i \in 1 .. Len(q) : q[i] = [id |-> c.id, write |-> c.write]
      BY <2>2 DEF CallbackInv
    <3>2. q[i].id = nextId
      BY <2>5, <3>1
    <3> QED
      BY <2>5, <3>1, <3>2
  <2>8. callbacks' = callbacks \cup {CallbackOf(user, b)} /\ crashes' = crashes
    <3>1. UNCHANGED crashes
      BY <1>2 DEF WriteMutations
    <3>2. callbacks' = callbacks \cup
              (IF Registered(b) # {} THEN {}
               ELSE {[user |-> user, id |-> b.id, write |-> b.write]})
      BY <1>2, <2>1 DEF WriteMutations
    <3> QED
      BY <2>7, <3>1, <3>2 DEF CallbackOf
  <2>9. ASSUME NEW c \in callbacks'
        PROVE  \E i \in 1 .. Len(queue'[c.user]) :
                   queue'[c.user][i] = [id |-> c.id, write |-> c.write]
    <3>1. CASE c \in callbacks
      <4>1. c.user \in Users
        BY <2>5, <3>1 DEF Callback
      <4>2. PICK i \in 1 .. Len(queue[c.user]) :
                queue[c.user][i] = [id |-> c.id, write |-> c.write]
        BY <3>1 DEF CallbackInv
      <4>3. CASE c.user = user
        <5>1. i \in 1 .. Len(q) /\ q[i] = [id |-> c.id, write |-> c.write]
          BY <2>2, <4>2, <4>3
        <5>2. i \in 1 .. Len(r) /\ r[i] = q[i]
          BY <2>4, <5>1
        <5> QED
          BY <2>5, <2>6, <4>3, <5>1, <5>2
      <4>4. CASE c.user # user
        BY <2>6, <4>1, <4>2, <4>4
      <4> QED
        BY <4>3, <4>4
    <3>2. CASE c = CallbackOf(user, b)
      <4>1. c.user = user /\ c.id = b.id /\ c.write = b.write
        BY <3>2 DEF CallbackOf
      <4>2. b = [id |-> c.id, write |-> c.write]
        BY <4>1 DEF Batch
      <4>3. Len(q) + 1 \in 1 .. Len(r)
        BY <2>4
      <4> QED
        BY <2>4, <2>5, <2>6, <4>1, <4>2, <4>3
    <3> QED
      BY <2>8, <2>9, <3>1, <3>2
  <2>10. ASSUME crashes' = 0, NEW u \in Users, NEW i \in 1 .. Len(queue'[u])
         PROVE  CallbackOf(u, queue'[u][i]) \in callbacks'
    <3>1. \A v \in Users : \A j \in 1 .. Len(queue[v]) :
              CallbackOf(v, queue[v][j]) \in callbacks
      BY <2>8, <2>10 DEF CallbackInv
    <3>2. CASE u = user
      <4>1. i \in 1 .. Len(q) \/ i = Len(q) + 1
        BY <2>4, <2>6, <2>10, <3>2
      <4>2. i \in 1 .. Len(q) => CallbackOf(user, q[i]) \in callbacks
        BY <2>2, <2>5, <3>1
      <4> QED
        BY <2>4, <2>6, <2>8, <3>2, <4>1, <4>2
    <3>3. CASE u # user
      BY <2>6, <2>8, <2>10, <3>1, <3>3
    <3> QED
      BY <3>2, <3>3
  <2> QED
    BY <2>9, <2>10 DEF CallbackInv
<1>3. CASE HandleCredentialChange
  BY <1>3 DEF HandleCredentialChange, CallbackInv
<1>4. CASE Crash
  <2>1. callbacks' = {} /\ crashes' = crashes + 1 /\ crashes \in Nat
    BY <1>4 DEF Crash, PathInv, TypeOK
  <2>2. crashes' # 0
    BY <2>1
  <2> QED
    BY <2>1, <2>2 DEF CallbackInv
<1>5. CASE OnWriteStreamMutationResult
  BY <1>5, ResponseIs, CallbacksAfterAnswer DEF OnWriteStreamMutationResult
<1>6. CASE OnWriteStreamClose
  <2>1. crashes' = crashes
    BY <1>6 DEF OnWriteStreamClose
  <2>2. CASE BlamesWrite /\ Answered("error")
    BY <2>1, <2>2, CallbacksAfterAnswer DEF BlamesWrite
  <2> QED
    BY <1>1, <1>6, <2>1, <2>2 DEF OnWriteStreamClose
<1> QED
  BY <1>1, <1>2, <1>3, <1>4, <1>5, <1>6, OtherSteps DEF StoreSteps

(* Batch ids are counted again after a change of account, and used again:  *)
(* still every callback belongs to one batch of its user, and while the    *)
(* process lives no batch loses its callback.                              *)
THEOREM CallbacksKept == Spec => []CallbacksMatch
<1>1. Init => CallbackInv
  <2> SUFFICES ASSUME Init
               PROVE  CallbackInv
    OBVIOUS
  <2>1. callbacks = {} /\ \A u \in Users : queue[u] = << >>
    BY DEF Init
  <2> QED
    BY <2>1, EmptySeq DEF CallbackInv
<1>2. PathInv /\ CallbackInv /\ [Next]_vars => CallbackInv'
  <2>1. CallbackInv /\ UNCHANGED vars => CallbackInv'
    BY DEF CallbackInv, vars, store, counters
  <2> QED
    BY <2>1, CallbackStep
<1>3. PathInv /\ CallbackInv => CallbacksMatch
  <2> SUFFICES ASSUME PathInv, CallbackInv
               PROVE  CallbacksMatch
    OBVIOUS
  <2>1. ASSUME NEW u \in Users, NEW i \in 1 .. Len(queue[u])
        PROVE  /\ i > 1 => queue[u][i - 1].id < queue[u][i].id
               /\ queue[u][i].id > 0
    <3>1. Growing(queue[u]) /\ queue[u] \in Seq(Batch)
      BY DEF PathInv, TypeOK, IdsInv
    <3>2. i > 1 => i - 1 \in 1 .. Len(queue[u]) /\ i - 1 < i
      BY <3>1, LenProperties
    <3> QED
      BY <3>1, <3>2 DEF Growing
  <2>2. \A b \in {queue[user][i] : i \in 1 .. Len(queue[user])} : b.id < nextId
    BY DEF PathInv, IdsInv
  <2> QED
    BY <2>1, <2>2 DEF CallbacksMatch, CallbackInv, CallbackOf
<1>4. Spec => []CallbackInv
  BY <1>1, <1>2, PathHolds, PTL DEF Spec
<1> QED
  BY <1>3, <1>4, PathHolds, PTL

-----------------------------------------------------------------------------
(* The tasks of the worker queue are done for their owners.                *)

LEMMA DoneNothing ==
    ASSUME NEW m, NEW u \in Users, NEW ts, ts = << >>
    PROVE  DoneInTurn(m, ts, u, u)
<1>1. Len(ts) = 0
  BY EmptySeq
<1>2. PICK e : e = [i \in 0 .. 0 |-> u]
  OBVIOUS
<1>3. e \in [0 .. Len(ts) -> Users] /\ e[0] = u
  BY <1>1, <1>2
<1> QED
  BY <1>1, <1>3 DEF DoneInTurn

LEMMA DoneAppended ==
    ASSUME NEW m, NEW ts \in Seq(Task), NEW from, NEW to,
           DoneInTurn(m, ts, from, to),
           NEW t \in Task, NEW u \in Users, u = AccountAfter(t, to), Fits(m, t, u)
    PROVE  DoneInTurn(m, Append(ts, t), from, u)
<1>1. PICK e \in [0 .. Len(ts) -> Users] :
          /\ e[0] = from /\ e[Len(ts)] = to
          /\ \A i \in 1 .. Len(ts) :
                 e[i] = AccountAfter(ts[i], e[i - 1]) /\ Fits(m, ts[i], e[i])
  BY DEF DoneInTurn
<1>2. PICK r : r = Append(ts, t)
  OBVIOUS
<1>3. /\ Len(ts) \in Nat
      /\ Len(r) = Len(ts) + 1
      /\ \A i \in 1 .. Len(ts) : r[i] = ts[i]
      /\ r[Len(ts) + 1] = t
  BY <1>2, AppendProperties, LenProperties
<1>4. PICK n : n = Len(ts) + 1
  OBVIOUS
<1>5. PICK f : f = [i \in 0 .. n |-> IF i = n THEN u ELSE e[i]]
  OBVIOUS
<1>6. /\ n \in Nat /\ n > 0 /\ n - 1 = Len(ts)
      /\ \A i \in 0 .. n : i # n => i \in 0 .. Len(ts)
      /\ \A i \in 0 .. Len(ts) : i \in 0 .. n /\ i # n
  BY <1>3, <1>4
<1>7. f \in [0 .. n -> Users]
  BY <1>5, <1>6
<1>8. f[n] = u /\ \A i \in 0 .. Len(ts) : f[i] = e[i]
  BY <1>5, <1>6
<1>9. f[0] = from
  BY <1>1, <1>3, <1>8
<1>10. ASSUME NEW i \in 1 .. n
       PROVE  f[i] = AccountAfter(r[i], f[i - 1]) /\ Fits(m, r[i], f[i])
  <2>1. CASE i = n
    <3>1. f[i - 1] = to
      BY <1>1, <1>3, <1>6, <1>8, <2>1
    <3> QED
      BY <1>3, <1>4, <1>8, <2>1, <3>1
  <2>2. CASE i # n
    <3>1. i \in 1 .. Len(ts) /\ i \in 0 .. Len(ts) /\ i - 1 \in 0 .. Len(ts)
      BY <1>3, <1>4, <2>2
    <3> QED
      BY <1>1, <1>3, <1>8, <3>1
  <2> QED
    BY <2>1, <2>2
<1> QED
  BY <1>2, <1>3, <1>4, <1>7, <1>8, <1>9, <1>10 DEF DoneInTurn

LEMMA DoneTail ==
    ASSUME NEW m, NEW ts \in Seq(Task), ts # << >>, NEW from, NEW to,
           DoneInTurn(m, ts, from, to)
    PROVE  /\ AccountAfter(Head(ts), from) \in Users
           /\ Fits(m, Head(ts), AccountAfter(Head(ts), from))
           /\ DoneInTurn(m, Tail(ts), AccountAfter(Head(ts), from), to)
<1>1. PICK e \in [0 .. Len(ts) -> Users] :
          /\ e[0] = from /\ e[Len(ts)] = to
          /\ \A i \in 1 .. Len(ts) :
                 e[i] = AccountAfter(ts[i], e[i - 1]) /\ Fits(m, ts[i], e[i])
  BY DEF DoneInTurn
<1>2. PICK r : r = Tail(ts)
  OBVIOUS
<1>3. /\ Len(ts) \in Nat /\ Len(ts) > 0
      /\ Len(r) = Len(ts) - 1
      /\ \A i \in 1 .. Len(ts) - 1 : r[i] = ts[i + 1]
      /\ Head(ts) = ts[1]
  BY <1>2, TailIs
<1>4. /\ e[1] = AccountAfter(Head(ts), from) /\ Fits(m, Head(ts), e[1])
      /\ e[1] \in Users
  <2>1. 1 \in 1 .. Len(ts) /\ 1 \in 0 .. Len(ts) /\ 1 - 1 = 0
    BY <1>3
  <2> QED
    BY <1>1, <1>3, <2>1
<1>5. PICK n : n = Len(r)
  OBVIOUS
<1>6. /\ n \in Nat /\ n + 1 = Len(ts)
      /\ \A i \in 0 .. n : i + 1 \in 0 .. Len(ts)
      /\ \A i \in 1 .. n : i + 1 \in 1 .. Len(ts) /\ i \in 1 .. Len(ts) - 1
                           /\ i - 1 \in 0 .. n /\ i \in 0 .. n
                           /\ (i - 1) + 1 = (i + 1) - 1
      /\ 0 \in 0 .. n /\ n \in 0 .. n /\ 0 + 1 = 1
  BY <1>3, <1>5
<1>7. PICK f : f = [i \in 0 .. n |-> e[i + 1]]
  OBVIOUS
<1>8. f \in [0 .. n -> Users] /\ \A i \in 0 .. n : f[i] = e[i + 1]
  BY <1>6, <1>7
<1>9. f[0] = e[1] /\ f[n] = to
  BY <1>1, <1>6, <1>8
<1>10. ASSUME NEW i \in 1 .. n
       PROVE  f[i] = AccountAfter(r[i], f[i - 1]) /\ Fits(m, r[i], f[i])
  <2>1. f[i] = e[i + 1] /\ f[i - 1] = e[(i + 1) - 1] /\ r[i] = ts[i + 1]
    BY <1>3, <1>6, <1>8
  <2> QED
    BY <1>1, <1>6, <2>1
<1>11. DoneInTurn(m, r, e[1], to)
  BY <1>5, <1>8, <1>9, <1>10 DEF DoneInTurn
<1> QED
  BY <1>2, <1>4, <1>11

LEMMA DoneLate ==
    ASSUME NEW m, NEW ts \in Seq(Task), NEW from, NEW to,
           DoneInTurn(m, ts, from, to)
    PROVE  DoneInTurn(m, WithoutTokens(ts), from, to)
<1>1. PICK e \in [0 .. Len(ts) -> Users] :
          /\ e[0] = from /\ e[Len(ts)] = to
          /\ \A i \in 1 .. Len(ts) :
                 e[i] = AccountAfter(ts[i], e[i - 1]) /\ Fits(m, ts[i], e[i])
  BY DEF DoneInTurn
<1>2. PICK r : r = WithoutTokens(ts)
  OBVIOUS
<1>3. /\ Len(r) = Len(ts)
      /\ \A i \in 1 .. Len(ts) :
             /\ ~IsToken(r[i])
             /\ ts[i].task \in {"write", "user"} => r[i] = ts[i]
             /\ ts[i].task \notin {"write", "user"}
                    => r[i].task \notin {"write", "user"}
  BY <1>2, LateIs
<1>4. ASSUME NEW i \in 1 .. Len(ts)
      PROVE  e[i] = AccountAfter(r[i], e[i - 1]) /\ Fits(m, r[i], e[i])
  <2>1. CASE ts[i].task \in {"write", "user"}
    BY <1>1, <1>3, <2>1
  <2>2. CASE ts[i].task \notin {"write", "user"}
    BY <1>1, <1>3, <2>2 DEF AccountAfter, Fits, IsToken
  <2> QED
    BY <2>1, <2>2
<1>5. DoneInTurn(m, r, from, to)
  BY <1>1, <1>3, <1>4 DEF DoneInTurn
<1> QED
  BY <1>2, <1>5

(* A new write is in no task yet: naming its maker changes none.           *)
LEMMA DoneMade ==
    ASSUME NEW m \in [Writes -> Users \cup {NoWrite}], NEW ts \in Seq(Task),
           NEW from, NEW to, DoneInTurn(m, ts, from, to),
           NEW w \in Writes, m[w] = NoWrite, NEW u
    PROVE  DoneInTurn([m EXCEPT ![w] = u], ts, from, to)
<1>1. PICK e \in [0 .. Len(ts) -> Users] :
          /\ e[0] = from /\ e[Len(ts)] = to
          /\ \A i \in 1 .. Len(ts) :
                 e[i] = AccountAfter(ts[i], e[i - 1]) /\ Fits(m, ts[i], e[i])
  BY DEF DoneInTurn
<1>2. ASSUME NEW i \in 1 .. Len(ts)
      PROVE  Fits([m EXCEPT ![w] = u], ts[i], e[i])
  <2>1. ts[i] \in Task /\ e[i] \in Users /\ Fits(m, ts[i], e[i])
    <3>1. i \in 0 .. Len(ts)
      BY LenProperties
    <3> QED
      BY <1>1, <3>1, ElementOfSeq
  <2>2. ts[i].task = "write" => ts[i].write \in Writes /\ ts[i].write # w
    BY <2>1, TaskIs, StreamAssumption DEF Fits
  <2> QED
    BY <2>1, <2>2 DEF Fits
<1> QED
  BY <1>1, <1>2 DEF DoneInTurn

(* A write is made, by whoever is signed in.                               *)
LEMMA MadeIs ==
    ASSUME TypeOK, DoneInTurn(maker, tasks, user, account),
           NEW w \in Writes, Enqueue(w)
    PROVE  /\ maker[w] = NoWrite
           /\ maker' = [maker EXCEPT ![w] = account]
           /\ DoneInTurn(maker', tasks', user, account)
<1>1. /\ maker[w] = NoWrite
      /\ maker' = [maker EXCEPT ![w] = account]
      /\ tasks' = Append(tasks, [task |-> "write", write |-> w])
      /\ maker \in [Writes -> Users \cup {NoWrite}]
      /\ tasks \in Seq(Task) /\ account \in Users
  BY DEF Enqueue, Called, TypeOK
<1>2. PICK t : t = [task |-> "write", write |-> w]
  OBVIOUS
<1>3. t \in Task /\ t.task = "write" /\ t.write = w
  BY <1>2, NewTasks
<1>4. DoneInTurn(maker', tasks, user, account)
  BY <1>1, DoneMade
<1>5. maker'[w] = account
  BY <1>1
<1>6. account = AccountAfter(t, account) /\ Fits(maker', t, account)
  BY <1>3, <1>5 DEF AccountAfter, Fits
<1>7. DoneInTurn(maker', Append(tasks, t), user, account)
  BY <1>1, <1>3, <1>4, <1>6, DoneAppended
<1> QED
  BY <1>1, <1>2, <1>7

(* The write of a completion callback.                                     *)
LEMMA NextWrite ==
    ASSUME TypeOK, RunCallback
    PROVE  \/ UNCHANGED <<maker, tasks>>
           \/ \E w \in Writes : Enqueue(w)
<1>1. main # << >> /\ main \in Seq(Answer)
  BY DEF RunCallback, TypeOK
<1>2. Head(main) \in Answer
  BY <1>1, TailIs
<1>3. Then[Head(main).write] \in Writes \cup {NoWrite}
  BY <1>2, StreamAssumption DEF Answer
<1> QED
  BY <1>3 DEF RunCallback

LEMMA DoneStep ==
    ASSUME TypeOK, DoneInTurn(maker, tasks, user, account), Next
    PROVE  DoneInTurn(maker', tasks', user', account')
<1> USE DEF app, store
<1>0. tasks \in Seq(Task) /\ account \in Users /\ user \in Users
  BY DEF TypeOK
<1>1. CASE UNCHANGED <<maker, tasks, user, account>>
  BY <1>1
<1>2. ASSUME tasks # << >>, tasks' = Tail(tasks), Head(tasks).task # "user",
             UNCHANGED <<maker, user, account>>
      PROVE  DoneInTurn(maker', tasks', user', account')
  <2>1. AccountAfter(Head(tasks), user) = user
    BY <1>2 DEF AccountAfter
  <2> QED
    BY <1>0, <1>2, <2>1, DoneTail
<1>3. ASSUME tasks' = WithoutTokens(tasks), UNCHANGED <<maker, user, account>>
      PROVE  DoneInTurn(maker', tasks', user', account')
  BY <1>0, <1>3, DoneLate
<1>4. CASE \E w \in Writes : Write(w)
  BY <1>4, MadeIs DEF Write
<1>5. CASE RunCallback
  <2>1. UNCHANGED <<user, account>>
    BY <1>5 DEF RunCallback
  <2> QED
    BY <1>1, <1>5, <2>1, NextWrite, MadeIs
<1>6. CASE \E u \in Users : AuthChanged(u)
  <2>1. PICK u \in Users : AuthChanged(u)
    BY <1>6
  <2>2. PICK t : t = [task |-> "user", user |-> u]
    OBVIOUS
  <2>3. t.task = "user" /\ t.user = u /\ t \in Task
    BY <2>2, NewTasks
  <2>4. /\ tasks' = Append(tasks, t)
        /\ account' = u /\ UNCHANGED <<maker, user>>
    BY <2>1, <2>2 DEF AuthChanged, Passed
  <2>5. u = AccountAfter(t, account) /\ Fits(maker, t, u)
    BY <2>3 DEF AccountAfter, Fits
  <2>6. DoneInTurn(maker, Append(tasks, t), user, u)
    BY <1>0, <2>3, <2>5, DoneAppended
  <2> QED
    BY <2>4, <2>6
<1>7. CASE TokenArrives
  <2>1. /\ [task |-> "token", user |-> account] \in Task
        /\ [task |-> "no token"] \in Task
    BY <1>0, NewTasks
  <2>2. PICK t \in Task :
            /\ tasks' = Append(tasks, t)
            /\ \/ t = [task |-> "token", user |-> account]
               \/ t = [task |-> "no token"]
    BY <1>7, <2>1, Zenon DEF TokenArrives
  <2>3. \/ t.task = "token" /\ t.user = account
        \/ t.task = "no token"
    <3>1. CASE t = [task |-> "token", user |-> account]
      BY <3>1, NewTasks, <1>0
    <3>2. CASE t = [task |-> "no token"]
      BY <3>2, NewTasks
    <3> QED
      BY <2>2, <3>1, <3>2
  <2>4. account = AccountAfter(t, account) /\ Fits(maker, t, account)
    BY <2>3 DEF AccountAfter, Fits
  <2>5. DoneInTurn(maker, Append(tasks, t), user, account)
    BY <1>0, <2>4, DoneAppended
  <2>6. UNCHANGED <<maker, user, account>>
    BY <1>7 DEF TokenArrives
  <2> QED
    BY <2>2, <2>5, <2>6
<1>8. CASE WriteMutations
  BY <1>2, <1>8 DEF WriteMutations
<1>9. CASE HandleCredentialChange
  <2>1. /\ tasks # << >> /\ Head(tasks).task = "user"
        /\ tasks' = WithoutTokens(Tail(tasks))
        /\ user' = Head(tasks).user /\ UNCHANGED <<maker, account>>
    BY <1>9 DEF HandleCredentialChange
  <2>2. DoneInTurn(maker, Tail(tasks), user', account)
    BY <1>0, <2>1, DoneTail DEF AccountAfter
  <2>3. Tail(tasks) \in Seq(Task)
    BY <1>0, <2>1, TailIs
  <2> QED
    BY <2>1, <2>2, <2>3, DoneLate
<1>10. CASE ResumeStartWithCredentials
  BY <1>2, <1>10 DEF ResumeStartWithCredentials
<1>11. CASE ResumeStartFails
  <2>1. /\ tasks # << >> /\ Head(tasks).task = "no token"
        /\ tasks' = WithoutTokens(Tail(tasks))
        /\ UNCHANGED <<maker, user, account>>
    BY <1>11 DEF ResumeStartFails
  <2>2. DoneInTurn(maker, Tail(tasks), user, account)
    BY <1>0, <2>1, DoneTail DEF AccountAfter
  <2>3. Tail(tasks) \in Seq(Task)
    BY <1>0, <2>1, TailIs
  <2> QED
    BY <2>1, <2>2, <2>3, DoneLate
<1>12. CASE LateToken
  BY <1>2, <1>12 DEF LateToken
<1>13. CASE BackoffElapsed
  BY <1>1, <1>13 DEF BackoffElapsed
<1>14. CASE IdleTimeout
  BY <1>3, <1>14 DEF IdleTimeout
<1>15. CASE ConnectivityChanged
  BY <1>3, <1>15 DEF ConnectivityChanged
<1>16. CASE ServerTakes \/ Break \/ OnWriteStreamHandshakeComplete
  BY <1>1, <1>16 DEF ServerTakes, Break, OnWriteStreamHandshakeComplete
<1>17. CASE OnWriteStreamMutationResult
  BY <1>1, <1>17 DEF OnWriteStreamMutationResult, Answered
<1>18. CASE OnWriteStreamClose
  BY <1>3, <1>18 DEF OnWriteStreamClose, Answered
<1>19. CASE Crash
  <2>1. tasks' = << >> /\ user' = account /\ UNCHANGED account
    BY <1>19 DEF Crash
  <2> QED
    BY <1>0, <2>1, DoneNothing
<1> QED
  BY <1>4, <1>5, <1>6, <1>7, <1>8, <1>9, <1>10, <1>11, <1>12, <1>13, <1>14,
     <1>15, <1>16, <1>17, <1>18, <1>19 DEF Next

(* A step that makes a write does nothing else to what follows.            *)
LEMMA MakingSteps ==
    ASSUME TypeOK, Next
    PROVE  \/ UNCHANGED maker
           \/ /\ \E w \in Writes : Enqueue(w)
              /\ UNCHANGED <<account, store, stream, net, committed, told>>
<1>1. CASE \E w \in Writes : Write(w)
  BY <1>1 DEF Write, app
<1>2. CASE RunCallback
  BY <1>2, NextWrite DEF RunCallback
<1>3. CASE \E u \in Users : AuthChanged(u)
  BY <1>3 DEF AuthChanged
<1>4. CASE TokenArrives \/ WriteMutations \/ HandleCredentialChange
           \/ ResumeStartWithCredentials \/ ResumeStartFails \/ LateToken
           \/ BackoffElapsed \/ IdleTimeout \/ ConnectivityChanged
  BY <1>4 DEF TokenArrives, WriteMutations, HandleCredentialChange,
     ResumeStartWithCredentials, ResumeStartFails, LateToken, BackoffElapsed,
     IdleTimeout, ConnectivityChanged
<1>5. CASE ServerTakes \/ Break \/ OnWriteStreamHandshakeComplete
           \/ OnWriteStreamMutationResult \/ OnWriteStreamClose \/ Crash
  BY <1>5 DEF ServerTakes, Break, OnWriteStreamHandshakeComplete,
     OnWriteStreamMutationResult, OnWriteStreamClose, Crash
<1> QED
  BY <1>1, <1>2, <1>3, <1>4, <1>5 DEF Next

(* What a queue holds after a step it held before, or it is the write of   *)
(* the next task.                                                          *)
LEMMA ItemsAfterAnswer ==
    ASSUME PathInv, pipeline # << >>, NEW outcome \in {"ok", "error"},
           Answered(outcome)
    PROVE  \A u \in Users : \A i \in 1 .. Len(queue'[u]) :
               \E j \in 1 .. Len(queue[u]) : queue'[u][i] = queue[u][j]
<1>1. PICK q \in Seq(Batch) : q = queue[user]
  BY PathFacts
<1>2. /\ user \in Users /\ q # << >>
      /\ queue' = [queue EXCEPT ![user] = Tail(q)]
      /\ queue \in [Users -> Seq(Batch)]
  BY <1>1, PathFacts, AnsweredIs DEF PathInv, TypeOK
<1>3. PICK r : r = Tail(q)
  OBVIOUS
<1>4. \A i \in 1 .. Len(r) : i + 1 \in 1 .. Len(q) /\ r[i] = q[i + 1]
  BY <1>2, <1>3, TailIs
<1>5. \A u \in Users : queue'[u] = IF u = user THEN r ELSE queue[u]
  BY <1>2, <1>3
<1> QED
  BY <1>1, <1>4, <1>5

LEMMA ItemsStep ==
    ASSUME PathInv, Next, NEW u \in Users, NEW i \in 1 .. Len(queue'[u])
    PROVE  \/ \E j \in 1 .. Len(queue[u]) : queue'[u][i] = queue[u][j]
           \/ /\ WriteMutations /\ u = user
              /\ queue'[u][i].write = Head(tasks).write
<1>1. CASE UNCHANGED store
  BY <1>1 DEF store
<1>2. CASE WriteMutations
  <2>1. PICK b \in Batch :
            /\ b = [id |-> nextId, write |-> Head(tasks).write]
            /\ queue' = [queue EXCEPT ![user] = Append(queue[user], b)]
    BY <1>2, JoinedIs
  <2>2. PICK q \in Seq(Batch) : q = queue[user]
    BY PathFacts
  <2>3. PICK r : r = Append(q, b)
    OBVIOUS
  <2>4. \A j \in 1 .. Len(r) : \/ j \in 1 .. Len(q) /\ r[j] = q[j]
                               \/ r[j] = b
    BY <2>3, AppendedIs
  <2>5. user \in Users /\ queue \in [Users -> Seq(Batch)]
    BY DEF PathInv, TypeOK
  <2>6. queue'[u] = IF u = user THEN r ELSE queue[u]
    BY <2>1, <2>2, <2>3, <2>5
  <2>7. b.write = Head(tasks).write
    BY <2>1
  <2> QED
    BY <1>2, <2>2, <2>4, <2>6, <2>7
<1>3. CASE HandleCredentialChange \/ Crash
  BY <1>3 DEF HandleCredentialChange, Crash
<1>4. CASE OnWriteStreamMutationResult
  BY <1>4, ResponseIs, ItemsAfterAnswer DEF OnWriteStreamMutationResult
<1>5. CASE OnWriteStreamClose
  <2>1. CASE BlamesWrite /\ Answered("error")
    BY <2>1, ItemsAfterAnswer DEF BlamesWrite
  <2> QED
    BY <1>1, <1>5, <2>1 DEF OnWriteStreamClose
<1> QED
  BY <1>1, <1>2, <1>3, <1>4, <1>5, OtherSteps DEF StoreSteps

LEMMA ItemIs ==
    ASSUME TypeOK, NEW u \in Users, NEW i \in 1 .. Len(queue[u])
    PROVE  queue[u][i].write \in Writes
BY IdsAreNumbers DEF TypeOK

(* The writes of a queue are those of its user.                            *)
LEMMA QueueOwners ==
    ASSUME PathInv, DoneInTurn(maker, tasks, user, account), Next,
           \A u \in Users : \A i \in 1 .. Len(queue[u]) :
               maker[queue[u][i].write] = u
    PROVE  \A u \in Users : \A i \in 1 .. Len(queue'[u]) :
               maker'[queue'[u][i].write] = u
<1>1. TypeOK
  BY DEF PathInv
<1> SUFFICES ASSUME NEW u \in Users, NEW i \in 1 .. Len(queue'[u])
             PROVE  maker'[queue'[u][i].write] = u
  OBVIOUS
<1>2. maker[queue'[u][i].write] = u /\ queue'[u][i].write \in Writes
  <2>1. CASE \E j \in 1 .. Len(queue[u]) : queue'[u][i] = queue[u][j]
    BY <1>1, <2>1, ItemIs
  <2>2. CASE /\ WriteMutations /\ u = user
             /\ queue'[u][i].write = Head(tasks).write
    <3>1. /\ tasks # << >> /\ tasks \in Seq(Task)
          /\ Head(tasks).task = "write"
      BY <1>1, <2>2 DEF WriteMutations, TypeOK
    <3>2. Head(tasks).write \in Writes
      BY <3>1, TailIs, TaskIs
    <3>3. AccountAfter(Head(tasks), user) = user
      BY <3>1 DEF AccountAfter
    <3>4. Fits(maker, Head(tasks), user)
      BY <3>1, <3>3, DoneTail
    <3> QED
      BY <2>2, <3>1, <3>2, <3>4 DEF Fits
  <2> QED
    BY <2>1, <2>2, ItemsStep
<1>3. CASE UNCHANGED maker
  BY <1>2, <1>3
<1>4. CASE \E w \in Writes : Enqueue(w)
  <2>1. PICK w \in Writes : /\ maker[w] = NoWrite
                            /\ maker' = [maker EXCEPT ![w] = account]
    BY <1>4 DEF Enqueue, Called
  <2>2. u # NoWrite
    BY StreamAssumption
  <2> QED
    BY <1>1, <1>2, <2>1, <2>2 DEF TypeOK
<1> QED
  BY <1>1, <1>3, <1>4, MakingSteps

(* The stream is opened with a token of the current user.                  *)
LEMMA TokenOwner ==
    ASSUME TypeOK, DoneInTurn(maker, tasks, user, account), Next,
           state = "Open" => token = user
    PROVE  state' = "Open" => token' = user'
<1> USE DEF app, store, stream
<1>1. ASSUME NEW p, NEW from \in {"Initial", "Error"}, Reopen(from, p)
      PROVE  state' # "Open"
  BY <1>1, RestartedIs DEF Reopen
<1>2. CASE UNCHANGED <<state, token, user>>
  BY <1>2
<1>3. CASE \E w \in Writes : Write(w)
  BY <1>2, <1>3 DEF Write
<1>4. CASE \E u \in Users : AuthChanged(u)
  BY <1>2, <1>4 DEF AuthChanged
<1>5. CASE RunCallback \/ TokenArrives \/ LateToken \/ ServerTakes \/ Break
           \/ OnWriteStreamHandshakeComplete
  BY <1>2, <1>5 DEF RunCallback, TokenArrives, LateToken, ServerTakes, Break,
     OnWriteStreamHandshakeComplete
<1>6. CASE OnWriteStreamMutationResult
  BY <1>2, <1>6 DEF OnWriteStreamMutationResult, Answered
<1>7. CASE WriteMutations
  <2>1. user' = user /\ Refill(pipeline, queue'[user])
    BY <1>7 DEF WriteMutations
  <2>2. token' = token /\ (Started => state' = state)
    BY <2>1 DEF Refill
  <2>3. ~Started => state' # "Open"
    <3>1. ~Started => state \in {"Initial", "Error"}
      BY DEF Started, TypeOK, States
    <3>2. ~Started => \E p : state' = Restarted(p, state)
      BY <2>1 DEF Refill
    <3> QED
      BY <3>1, <3>2, RestartedIs
  <2> QED
    BY <2>1, <2>2, <2>3
<1>8. CASE ResumeStartWithCredentials
  <2>1. /\ tasks # << >> /\ tasks \in Seq(Task)
        /\ Head(tasks).task = "token"
        /\ token' = Head(tasks).user /\ user' = user
    BY <1>8 DEF ResumeStartWithCredentials, TypeOK
  <2>2. AccountAfter(Head(tasks), user) = user
    BY <2>1 DEF AccountAfter
  <2>3. Fits(maker, Head(tasks), user)
    BY <2>1, <2>2, DoneTail
  <2> QED
    BY <2>1, <2>3 DEF Fits
<1>9. CASE BackoffElapsed
  BY <1>9 DEF BackoffElapsed
<1>10. CASE HandleCredentialChange
  BY <1>1, <1>10 DEF HandleCredentialChange
<1>11. CASE ResumeStartFails
  BY <1>1, <1>11 DEF ResumeStartFails
<1>12. CASE IdleTimeout
  BY <1>1, <1>12 DEF IdleTimeout
<1>13. CASE ConnectivityChanged
  BY <1>1, <1>13 DEF ConnectivityChanged
<1>14. CASE OnWriteStreamClose
  BY <1>1, <1>14 DEF OnWriteStreamClose
<1>15. CASE Crash
  BY <1>1, <1>15 DEF Crash
<1> QED
  BY <1>3, <1>4, <1>5, <1>6, <1>7, <1>8, <1>9, <1>10, <1>11, <1>12, <1>13,
     <1>14, <1>15 DEF Next

LEMMA OwnerStep ==
    ASSUME PathInv, OwnerInv, Next
    PROVE  OwnerInv'
<1>1. TypeOK
  BY DEF PathInv
<1>2. /\ DoneInTurn(maker, tasks, user, account)
      /\ \A u \in Users : \A i \in 1 .. Len(queue[u]) :
             maker[queue[u][i].write] = u
      /\ state = "Open" => token = user
  BY DEF OwnerInv, OwnersOnly
<1>3. DoneInTurn(maker', tasks', user', account')
  BY <1>1, <1>2, DoneStep
<1>4. OwnersOnly'
  BY <1>1, <1>2, QueueOwners, TokenOwner DEF OwnersOnly
<1> QED
  BY <1>3, <1>4 DEF OwnerInv

LEMMA OwnersInit == Init => OwnerInv
<1> SUFFICES ASSUME Init
             PROVE  OwnerInv
  OBVIOUS
<1>1. DoneInTurn(maker, tasks, user, account)
  BY DoneNothing, StreamAssumption DEF Init
<1>2. \A u \in Users : queue[u] = << >>
  BY DEF Init
<1>3. OwnersOnly
  BY <1>2, EmptySeq DEF OwnersOnly, Init
<1> QED
  BY <1>1, <1>3 DEF OwnerInv

(* Accounts change while writes wait and tokens are under way: a write is  *)
(* in the queue of whoever made it, and the stream is opened with a token  *)
(* of the user whose queue it sends.                                       *)
THEOREM OwnersKept == Spec => []OwnersOnly
<1>1. PathInv /\ OwnerInv /\ [Next]_vars => OwnerInv'
  <2>1. ASSUME OwnerInv, UNCHANGED vars
        PROVE  OwnerInv'
    BY <2>1 DEF OwnerInv, OwnersOnly, vars, app, store, stream
  <2> QED
    BY <2>1, OwnerStep
<1>2. OwnerInv => OwnersOnly
  BY DEF OwnerInv
<1> QED
  BY <1>1, <1>2, OwnersInit, PathHolds, PTL DEF Spec

-----------------------------------------------------------------------------
(* A write is at one place of its way to the server.                       *)

(* The write tasks of rs are those of ts from the n-th on.                 *)
Shifted(ts, rs, n) ==
    \A i \in 1 .. Len(rs) :
        rs[i].task = "write" => i + n \in 1 .. Len(ts) /\ rs[i] = ts[i + n]

LEMMA ShiftedTail ==
    ASSUME NEW ts \in Seq(Task), ts # << >>
    PROVE  Shifted(ts, Tail(ts), 1)
<1>1. /\ Len(ts) \in Nat /\ Len(Tail(ts)) = Len(ts) - 1
      /\ \A i \in 1 .. Len(ts) - 1 : Tail(ts)[i] = ts[i + 1]
  BY TailIs
<1> QED
  BY <1>1 DEF Shifted

LEMMA ShiftedLate ==
    ASSUME NEW ts \in Seq(Task), NEW rs \in Seq(Task), NEW n \in Nat,
           Shifted(ts, rs, n)
    PROVE  Shifted(ts, WithoutTokens(rs), n)
<1>1. PICK r : r = WithoutTokens(rs)
  OBVIOUS
<1>2. /\ Len(r) = Len(rs)
      /\ \A i \in 1 .. Len(rs) : r[i].task # "late" => r[i] = rs[i]
  BY <1>1, LateIs
<1>3. Shifted(ts, r, n)
  BY <1>2 DEF Shifted
<1> QED
  BY <1>1, <1>3

LEMMA ShiftedAppend ==
    ASSUME NEW ts \in Seq(Task), NEW t \in Task, t.task # "write"
    PROVE  Shifted(ts, Append(ts, t), 0)
<1>1. PICK r : r = Append(ts, t)
  OBVIOUS
<1>2. /\ Len(ts) \in Nat
      /\ Len(r) = Len(ts) + 1
      /\ \A i \in 1 .. Len(ts) : r[i] = ts[i]
      /\ r[Len(ts) + 1] = t
  BY <1>1, AppendProperties, LenProperties
<1>3. \A i \in 1 .. Len(r) : i \in 1 .. Len(ts) \/ i = Len(ts) + 1
  BY <1>2
<1>4. Shifted(ts, r, 0)
  BY <1>2, <1>3 DEF Shifted
<1> QED
  BY <1>1, <1>4

LEMMA ShiftedSame ==
    ASSUME NEW ts \in Seq(Task)
    PROVE  Shifted(ts, ts, 0)
BY LenProperties DEF Shifted

(* A step takes a task, and tokens may come too late with it; it loses all *)
(* tasks; or it adds one.                                                  *)
LEMMA TasksStep ==
    ASSUME TypeOK, Next
    PROVE  \/ \E w \in Writes : Enqueue(w)
           \/ \E n \in {0, 1} : /\ Shifted(tasks, tasks', n)
                                /\ WriteMutations => n = 1
<1>0. tasks \in Seq(Task) /\ account \in Users
  BY DEF TypeOK
<1> DEFINE Moved == \E n \in {0, 1} : /\ Shifted(tasks, tasks', n)
                                      /\ WriteMutations => n = 1
<1>1. CASE tasks # << >> /\ tasks' = Tail(tasks)
  BY <1>0, <1>1, ShiftedTail
<1>2. ASSUME tasks # << >>, tasks' = WithoutTokens(Tail(tasks))
      PROVE  Moved
  <2>1. Tail(tasks) \in Seq(Task)
    BY <1>0, <1>2, TailIs
  <2> QED
    BY <1>0, <1>2, <2>1, ShiftedTail, ShiftedLate
<1>3. CASE WriteMutations
  BY <1>1, <1>3 DEF WriteMutations
<1>4. ASSUME ~WriteMutations, UNCHANGED tasks
      PROVE  Moved
  BY <1>0, <1>4, ShiftedSame
<1>5. ASSUME ~WriteMutations, tasks' = WithoutTokens(tasks)
      PROVE  Moved
  BY <1>0, <1>5, ShiftedSame, ShiftedLate
<1>6. ASSUME ~WriteMutations, NEW t \in Task, t.task # "write",
             tasks' = Append(tasks, t)
      PROVE  Moved
  BY <1>0, <1>6, ShiftedAppend
<1>7. CASE \E w \in Writes : Write(w)
  BY <1>7 DEF Write
<1>8. CASE RunCallback /\ ~WriteMutations
  BY <1>4, <1>8, NextWrite
<1>9. CASE (\E u \in Users : AuthChanged(u)) /\ ~WriteMutations
  <2>1. PICK u \in Users : AuthChanged(u)
    BY <1>9
  <2>2. PICK t : t = [task |-> "user", user |-> u]
    OBVIOUS
  <2>3. t.task = "user" /\ t \in Task
    BY <2>2, NewTasks
  <2>4. tasks' = Append(tasks, t)
    BY <2>1, <2>2 DEF AuthChanged, Passed
  <2> QED
    BY <1>6, <1>9, <2>3, <2>4
<1>10. CASE TokenArrives /\ ~WriteMutations
  <2>1. \E t \in Task : tasks' = Append(tasks, t) /\ IsToken(t)
    <3>1. PICK t : t = [task |-> "token", user |-> account]
      OBVIOUS
    <3>2. PICK r : r = [task |-> "no token"]
      OBVIOUS
    <3>3. t \in Task /\ r \in Task
      BY <1>0, <3>1, <3>2, NewTasks
    <3>4. t.task = "token"
      BY <3>1
    <3>5. r.task = "no token"
      BY <3>2
    <3>6. tasks' = Append(tasks, t) \/ tasks' = Append(tasks, r)
      BY <1>10, <3>1, <3>2 DEF TokenArrives
    <3> QED
      BY <3>3, <3>4, <3>5, <3>6 DEF IsToken
  <2> QED
    BY <1>6, <1>10, <2>1 DEF IsToken
<1>11. CASE HandleCredentialChange
  BY <1>2, <1>11 DEF HandleCredentialChange
<1>12. CASE ResumeStartWithCredentials
  BY <1>1, <1>12 DEF ResumeStartWithCredentials
<1>13. CASE ResumeStartFails
  BY <1>2, <1>13 DEF ResumeStartFails
<1>14. CASE LateToken
  BY <1>1, <1>14 DEF LateToken
<1>15. CASE (BackoffElapsed \/ ServerTakes \/ Break) /\ ~WriteMutations
  BY <1>4, <1>15 DEF BackoffElapsed, ServerTakes, Break
<1>16. CASE (OnWriteStreamHandshakeComplete \/ OnWriteStreamMutationResult)
            /\ ~WriteMutations
  BY <1>4, <1>16 DEF OnWriteStreamHandshakeComplete, OnWriteStreamMutationResult
<1>17. CASE (IdleTimeout \/ ConnectivityChanged \/ OnWriteStreamClose)
            /\ ~WriteMutations
  BY <1>5, <1>17 DEF IdleTimeout, ConnectivityChanged, OnWriteStreamClose
<1>18. CASE Crash /\ ~WriteMutations
  <2>1. Shifted(tasks, tasks', 0)
    BY <1>18, EmptySeq DEF Crash, Shifted
  <2> QED
    BY <1>18, <2>1
<1> QED
  BY <1>3, <1>7, <1>8, <1>9, <1>10, <1>11, <1>12, <1>13, <1>14, <1>15, <1>16,
     <1>17, <1>18 DEF Next

(* A request that is not the handshake is for the first batch of the queue *)
(* without a response.                                                     *)
LEMMA RequestTaken ==
    ASSUME PathInv, wire # << >>, ended = "none"
    PROVE  \/ ~handshake /\ wire = <<Hello>> /\ answers = << >>
           \/ /\ handshake
              /\ Len(answers) + 1 \in 1 .. Len(queue[user])
              /\ Head(wire) = queue[user][Len(answers) + 1]
              /\ Head(wire).write \in Writes
              /\ \A i \in 1 .. Len(answers) : answers[i] = queue[user][i]
<1>1. /\ wire \in Seq(Request) /\ answers \in Seq(Request)
      /\ queue[user] \in Seq(Batch)
      /\ pipeline = Front(queue[user]) /\ pipeline \in Seq(Batch)
  BY PathFacts
<1>2. state = "Open"
  BY DEF PathInv, StreamInv
<1>3. CASE ~handshake
  BY <1>2, <1>3 DEF PathInv, StreamInv, Greeting
<1>4. CASE handshake
  <2>1. /\ Follows(wire, pipeline, Len(answers))
        /\ Len(answers) <= Len(pipeline)
        /\ \A i \in 1 .. Len(answers) : answers[i] = pipeline[i]
    BY <1>4 DEF PathInv, StreamInv, Aligned
  <2>2. /\ Len(answers) \in Nat /\ Len(pipeline) \in Nat
        /\ Len(queue[user]) \in Nat
        /\ Len(pipeline) <= Len(queue[user])
        /\ \A i \in 1 .. Len(pipeline) : pipeline[i] = queue[user][i]
    BY <1>1, FrontIs, LenProperties
  <2>3. Len(wire) \in Nat /\ Len(wire) > 0 /\ Head(wire) = wire[1]
    BY <1>1, TailIs
  <2>4. /\ Len(pipeline) = Len(answers) + Len(wire)
        /\ wire[1] = pipeline[Len(answers) + 1]
    BY <2>1, <2>3 DEF Follows
  <2>5. Len(answers) + 1 \in 1 .. Len(pipeline)
    BY <2>2, <2>3, <2>4
  <2>6. Len(answers) + 1 \in 1 .. Len(queue[user])
    BY <2>2, <2>5
  <2>7. Head(wire) = queue[user][Len(answers) + 1]
    BY <2>2, <2>3, <2>4, <2>5
  <2>8. Head(wire).write \in Writes
    BY <1>1, <2>6, <2>7, IdsAreNumbers
  <2>9. \A i \in 1 .. Len(answers) : answers[i] = queue[user][i]
    BY <2>1, <2>2
  <2> QED
    BY <1>4, <2>6, <2>7, <2>8, <2>9
<1> QED
  BY <1>3, <1>4

(* Who tells, and who commits.                                             *)
LEMMA TellingSteps ==
    ASSUME PathInv, Next
    PROVE  \/ UNCHANGED told
           \/ /\ pipeline # << >>
              /\ \E outcome \in {"ok", "error"} : Answered(outcome)
<1>1. CASE \E w \in Writes : Write(w)
  BY <1>1 DEF Write
<1>2. CASE \E u \in Users : AuthChanged(u)
  BY <1>2 DEF AuthChanged
<1>3. CASE OnWriteStreamMutationResult
  BY <1>3, ResponseIs DEF OnWriteStreamMutationResult
<1>4. CASE OnWriteStreamClose
  BY <1>4 DEF OnWriteStreamClose, BlamesWrite
<1>5. CASE RunCallback \/ TokenArrives \/ WriteMutations
           \/ HandleCredentialChange \/ ResumeStartWithCredentials
           \/ ResumeStartFails \/ LateToken \/ BackoffElapsed
  BY <1>5 DEF RunCallback, TokenArrives, WriteMutations,
     HandleCredentialChange, ResumeStartWithCredentials, ResumeStartFails,
     LateToken, BackoffElapsed
<1>6. CASE IdleTimeout \/ ConnectivityChanged \/ ServerTakes \/ Break
           \/ OnWriteStreamHandshakeComplete \/ Crash
  BY <1>6 DEF IdleTimeout, ConnectivityChanged, ServerTakes, Break,
     OnWriteStreamHandshakeComplete, Crash
<1> QED
  BY <1>1, <1>2, <1>3, <1>4, <1>5, <1>6 DEF Next

LEMMA CommittingSteps ==
    ASSUME Next
    PROVE  UNCHANGED committed \/ ServerTakes
<1>1. CASE \E w \in Writes : Write(w)
  BY <1>1 DEF Write
<1>2. CASE \E u \in Users : AuthChanged(u)
  BY <1>2 DEF AuthChanged
<1>3. CASE RunCallback \/ TokenArrives \/ WriteMutations
           \/ HandleCredentialChange \/ ResumeStartWithCredentials
           \/ ResumeStartFails \/ LateToken \/ BackoffElapsed
  BY <1>3 DEF RunCallback, TokenArrives, WriteMutations,
     HandleCredentialChange, ResumeStartWithCredentials, ResumeStartFails,
     LateToken, BackoffElapsed
<1>4. CASE IdleTimeout \/ ConnectivityChanged \/ Break
           \/ OnWriteStreamHandshakeComplete \/ OnWriteStreamMutationResult
           \/ OnWriteStreamClose \/ Crash
  BY <1>4 DEF IdleTimeout, ConnectivityChanged, Break,
     OnWriteStreamHandshakeComplete, OnWriteStreamMutationResult,
     OnWriteStreamClose, Crash
<1> QED
  BY <1>1, <1>2, <1>3, <1>4 DEF Next

(* A fresh write stays fresh until its task is done.                       *)
LEMMA FreshStep ==
    ASSUME PathInv, CallbackInv, Next, NEW w \in Writes, Fresh(w),
           ~(WriteMutations /\ Head(tasks).write = w)
    PROVE  Fresh(w)'
<1>1. /\ \A u \in Users : \A i \in 1 .. Len(queue[u]) : queue[u][i].write # w
      /\ w \notin committed /\ told[w] = "nothing"
  BY DEF Fresh
<1>2. \A u \in Users : \A i \in 1 .. Len(queue'[u]) : queue'[u][i].write # w
  BY <1>1, ItemsStep
<1>3. w \notin committed'
  <2> SUFFICES ASSUME ServerTakes
               PROVE  w \notin committed'
    BY <1>1, CommittingSteps
  <2>1. /\ wire # << >> /\ ended = "none"
        /\ \/ UNCHANGED committed
           \/ /\ Head(wire) # Hello
              /\ committed' = committed \cup {Head(wire).write}
    BY DEF ServerTakes
  <2>2. Head(wire) # Hello => Head(wire).write # w
    <3>1. user \in Users
      BY PathFacts
    <3>2. wire = <<Hello>> => Head(wire) = Hello
      OBVIOUS
    <3> QED
      BY <1>1, <2>1, <3>1, <3>2, RequestTaken
  <2> QED
    BY <1>1, <2>1, <2>2
<1>4. told'[w] = "nothing"
  <2> SUFFICES ASSUME NEW outcome, Answered(outcome)
               PROVE  told'[w] = "nothing"
    BY <1>1, TellingSteps
  <2>1. ASSUME NEW c \in Registered(Head(pipeline))
        PROVE  c.write # w
    <3>1. c \in callbacks
      BY <2>1 DEF Registered
    <3>2. c.user \in Users
      BY <3>1 DEF PathInv, TypeOK, Callback
    <3>3. PICK i \in 1 .. Len(queue[c.user]) :
              queue[c.user][i] = [id |-> c.id, write |-> c.write]
      BY <3>1 DEF CallbackInv
    <3>4. queue[c.user][i].write = c.write
      BY <3>3
    <3> QED
      BY <1>1, <3>2, <3>4
  <2> QED
    BY <1>1, <2>1 DEF Answered
<1> QED
  BY <1>2, <1>3, <1>4 DEF Fresh

(* Whatever the worker queue is to write has been made.                    *)
LEMMA TasksCalled ==
    ASSUME TypeOK, DoneInTurn(maker, tasks, user, account),
           NEW i \in 1 .. Len(tasks), tasks[i].task = "write"
    PROVE  tasks[i].write \in Writes /\ Called(tasks[i].write)
<1>1. tasks \in Seq(Task)
  BY DEF TypeOK
<1>2. PICK e \in [0 .. Len(tasks) -> Users] :
          \A j \in 1 .. Len(tasks) : Fits(maker, tasks[j], e[j])
  BY DEF DoneInTurn
<1>3. i \in 0 .. Len(tasks)
  BY <1>1, LenProperties
<1>4. e[i] \in Users /\ maker[tasks[i].write] = e[i]
  BY <1>2, <1>3 DEF Fits
<1>5. tasks[i] \in Task
  BY <1>1, ElementOfSeq
<1> QED
  BY <1>4, <1>5, TaskIs, StreamAssumption DEF Called

(* The responses on their way are of committed writes.                     *)
LEMMA AnswersAfterReopen ==
    ASSUME NEW p, NEW from, Reopen(from, p)
    PROVE  ~handshake'
BY DEF Reopen

LEMMA AnswersStep ==
    ASSUME PathInv, Next,
           handshake => \A i \in 1 .. Len(answers) : answers[i].write \in committed
    PROVE  handshake' => \A i \in 1 .. Len(answers') :
                             answers'[i].write \in committed'
<1> USE DEF app, store, stream, net
<1>1. /\ answers \in Seq(Request) /\ Len(answers) \in Nat
      /\ wire \in Seq(Request)
  BY PathFacts, LenProperties
<1>2. CASE UNCHANGED <<handshake, answers, committed>>
  BY <1>2
<1>3. CASE ~handshake'
  BY <1>3
<1>4. CASE \E w \in Writes : Write(w)
  BY <1>2, <1>4 DEF Write
<1>5. CASE \E u \in Users : AuthChanged(u)
  BY <1>2, <1>5 DEF AuthChanged
<1>6. CASE RunCallback \/ TokenArrives \/ ResumeStartWithCredentials
           \/ LateToken \/ BackoffElapsed
  BY <1>2, <1>6 DEF RunCallback, TokenArrives, ResumeStartWithCredentials,
     LateToken, BackoffElapsed
<1>7. CASE WriteMutations
  BY <1>2, <1>7 DEF WriteMutations, Refill
<1>8. CASE HandleCredentialChange \/ ResumeStartFails \/ IdleTimeout
           \/ ConnectivityChanged \/ OnWriteStreamClose \/ Crash
  BY <1>3, <1>8, AnswersAfterReopen DEF HandleCredentialChange,
     ResumeStartFails, IdleTimeout, ConnectivityChanged, OnWriteStreamClose,
     Crash
<1>9. CASE ServerTakes
  <2> SUFFICES ASSUME handshake
               PROVE  \A i \in 1 .. Len(answers') :
                          answers'[i].write \in committed'
    BY <1>9 DEF ServerTakes
  <2>1. CASE UNCHANGED <<answers, committed>>
    BY <2>1
  <2>2. CASE /\ answers' = Append(answers, Head(wire))
             /\ committed' = IF Head(wire) = Hello THEN committed
                             ELSE committed \cup {Head(wire).write}
    <3>1. Head(wire).write \in Writes
      BY <1>9, RequestTaken DEF ServerTakes
    <3>2. Head(wire) # Hello
      BY <3>1, StreamAssumption DEF Hello
    <3>3. PICK r : r = Append(answers, Head(wire))
      OBVIOUS
    <3>4. Head(wire) \in Request
      BY <1>1, <1>9, TailIs DEF ServerTakes
    <3>5. /\ Len(r) = Len(answers) + 1
          /\ \A i \in 1 .. Len(answers) : r[i] = answers[i]
          /\ r[Len(answers) + 1] = Head(wire)
      BY <1>1, <3>3, <3>4, AppendProperties
    <3>6. \A i \in 1 .. Len(r) : i \in 1 .. Len(answers) \/ i = Len(answers) + 1
      BY <1>1, <3>5
    <3> QED
      BY <2>2, <3>2, <3>3, <3>5, <3>6
  <2> QED
    BY <1>9, <2>1, <2>2 DEF ServerTakes
<1>10. CASE Break
  <2>1. handshake' = handshake /\ committed' = committed
    BY <1>10 DEF Break
  <2>2. CASE UNCHANGED answers
    BY <1>2, <2>1, <2>2
  <2>3. CASE \E n \in 0 .. Len(answers) : answers' = SubSeq(answers, 1, n)
    <3>1. PICK n \in 0 .. Len(answers) : answers' = SubSeq(answers, 1, n)
      BY <2>3
    <3>2. \A i \in 1 .. n : answers[i] \in Request
      BY <1>1, <3>1, ElementOfSeq
    <3>3. /\ Len(answers') = n
          /\ \A i \in 1 .. n : answers'[i] = answers[i] /\ i \in 1 .. Len(answers)
      <4>1. /\ Len(SubSeq(answers, 1, n)) = IF 1 <= n THEN n - 1 + 1 ELSE 0
            /\ \A i \in 1 .. n - 1 + 1 :
                   SubSeq(answers, 1, n)[i] = answers[1 + i - 1]
        BY <1>1, <3>1, <3>2, SubSeqProperties
      <4> QED
        BY <1>1, <3>1, <4>1
    <3> QED
      BY <2>1, <3>3
  <2> QED
    BY <1>10, <2>2, <2>3 DEF Break
<1>11. CASE OnWriteStreamHandshakeComplete
  <2>1. /\ ~handshake /\ answers # << >> /\ answers' = Tail(answers)
    BY <1>11 DEF OnWriteStreamHandshakeComplete
  <2>2. answers = <<Hello>>
    BY <2>1 DEF PathInv, StreamInv, Greeting
  <2>3. Len(answers') = 0
    BY <1>1, <2>1, <2>2, TailIs
  <2> QED
    BY <2>3
<1>12. CASE OnWriteStreamMutationResult
  <2>1. /\ answers # << >> /\ answers' = Tail(answers)
        /\ committed' = committed /\ handshake
    BY <1>12 DEF OnWriteStreamMutationResult
  <2>2. \A i \in 1 .. Len(answers') :
            i + 1 \in 1 .. Len(answers) /\ answers'[i] = answers[i + 1]
    BY <1>1, <2>1, TailIs
  <2> QED
    BY <2>1, <2>2
<1> QED
  BY <1>4, <1>5, <1>6, <1>7, <1>8, <1>9, <1>10, <1>11, <1>12 DEF Next

LEMMA OnceStep ==
    ASSUME PathInv, CallbackInv, OwnerInv, OnceInv, Next
    PROVE  OnceInv'
<1>1. TypeOK /\ tasks \in Seq(Task) /\ account \in Users
  BY DEF PathInv, TypeOK
<1>2. /\ \A i \in 1 .. Len(tasks) :
             tasks[i].task = "write" => Fresh(tasks[i].write)
      /\ \A i, j \in 1 .. Len(tasks) :
             /\ tasks[i].task = "write" /\ tasks[j].task = "write"
             /\ tasks[i].write = tasks[j].write
             => i = j
      /\ \A w \in Writes : ~Called(w) => Fresh(w)
  BY DEF OnceInv
<1>3. \A i \in 1 .. Len(tasks) : tasks[i].task = "write" =>
          tasks[i].write \in Writes /\ Called(tasks[i].write)
  BY <1>1, TasksCalled DEF OwnerInv
<1>4. handshake' => \A i \in 1 .. Len(answers') :
                        answers'[i].write \in committed'
  BY AnswersStep DEF OnceInv
<1>5. ASSUME NEW w \in Writes, Enqueue(w),
             UNCHANGED <<store, committed, told>>
      PROVE  OnceInv'
  <2>1. /\ ~Called(w) /\ maker' = [maker EXCEPT ![w] = account]
        /\ maker \in [Writes -> Users \cup {NoWrite}]
    BY <1>1, <1>5 DEF Enqueue, TypeOK
  <2>2. \A v : Fresh(v) => Fresh(v)'
    BY <1>5 DEF store, Fresh
  <2>3. PICK t : t = [task |-> "write", write |-> w]
    OBVIOUS
  <2>4. t \in Task /\ t.task = "write" /\ t.write = w
    BY <2>3, NewTasks
  <2>5. PICK r : r = Append(tasks, t)
    OBVIOUS
  <2>6. /\ tasks' = r
        /\ Len(tasks) \in Nat
        /\ Len(r) = Len(tasks) + 1
        /\ \A i \in 1 .. Len(tasks) : r[i] = tasks[i]
        /\ r[Len(tasks) + 1] = t
    BY <1>1, <1>5, <2>3, <2>4, <2>5, AppendProperties, LenProperties DEF Enqueue
  <2>7. \A i \in 1 .. Len(r) : i \in 1 .. Len(tasks) \/ i = Len(tasks) + 1
    BY <2>6
  <2>8. \A i \in 1 .. Len(tasks) : tasks[i].task = "write" => tasks[i].write # w
    BY <1>3, <2>1
  <2>9. \A i \in 1 .. Len(r) : r[i].task = "write" => Fresh(r[i].write)'
    BY <1>2, <2>1, <2>2, <2>4, <2>6, <2>7
  <2>10. \A i, j \in 1 .. Len(r) :
             /\ r[i].task = "write" /\ r[j].task = "write"
             /\ r[i].write = r[j].write
             => i = j
    BY <1>2, <2>4, <2>6, <2>7, <2>8
  <2>11. \A v \in Writes : ~Called(v)' => Fresh(v)'
    <3>1. \A v \in Writes : ~Called(v)' => ~Called(v)
      BY <1>1, <2>1, StreamAssumption DEF Called
    <3> QED
      BY <1>2, <2>2, <3>1
  <2> QED
    BY <1>4, <2>6, <2>9, <2>10, <2>11 DEF OnceInv
<1>6. ASSUME UNCHANGED maker
      PROVE  OnceInv'
  <2>1. \A w \in Writes : ~Enqueue(w)
    BY <1>1, <1>6, StreamAssumption DEF Enqueue, Called, TypeOK
  <2>2. PICK n \in {0, 1} : Shifted(tasks, tasks', n) /\ (WriteMutations => n = 1)
    BY <1>1, <2>1, TasksStep
  <2>3. PICK r : r = tasks'
    OBVIOUS
  <2>4. \A i \in 1 .. Len(r) : r[i].task = "write" =>
            i + n \in 1 .. Len(tasks) /\ r[i] = tasks[i + n]
    BY <2>2, <2>3 DEF Shifted
  <2>5. ASSUME NEW i \in 1 .. Len(r), r[i].task = "write"
        PROVE  Fresh(r[i].write)'
    <3>1. i + n \in 1 .. Len(tasks) /\ r[i] = tasks[i + n]
      BY <2>4, <2>5
    <3>2. r[i].write \in Writes /\ Fresh(r[i].write)
      BY <1>2, <1>3, <2>5, <3>1
    <3>3. ASSUME WriteMutations, Head(tasks).write = r[i].write
          PROVE  FALSE
      <4>1. /\ n = 1 /\ tasks # << >> /\ Head(tasks).task = "write"
        BY <2>2, <3>3 DEF WriteMutations
      <4>2. Head(tasks) = tasks[1] /\ 1 \in 1 .. Len(tasks)
        BY <1>1, <4>1, TailIs
      <4>3. 1 = i + n
        BY <1>2, <2>5, <3>1, <3>3, <4>1, <4>2
      <4> QED
        BY <2>5, <4>1, <4>3
    <3> QED
      BY <3>2, <3>3, FreshStep
  <2>6. \A i, j \in 1 .. Len(r) :
            /\ r[i].task = "write" /\ r[j].task = "write"
            /\ r[i].write = r[j].write
            => i = j
    <3> SUFFICES ASSUME NEW i \in 1 .. Len(r), NEW j \in 1 .. Len(r),
                        r[i].task = "write", r[j].task = "write",
                        r[i].write = r[j].write
                 PROVE  i = j
      OBVIOUS
    <3>1. i + n = j + n
      BY <1>2, <2>4
    <3> QED
      BY <3>1
  <2>7. ASSUME NEW w \in Writes, ~Called(w)'
        PROVE  Fresh(w)'
    <3>1. ~Called(w)
      BY <1>6, <2>7 DEF Called
    <3>2. ASSUME WriteMutations
          PROVE  Head(tasks).write # w
      <4>1. tasks # << >> /\ Head(tasks).task = "write"
        BY <3>2 DEF WriteMutations
      <4>2. Head(tasks) = tasks[1] /\ 1 \in 1 .. Len(tasks)
        BY <1>1, <4>1, TailIs
      <4> QED
        BY <1>3, <3>1, <4>1, <4>2
    <3> QED
      BY <1>2, <3>1, <3>2, FreshStep
  <2> QED
    BY <1>4, <2>3, <2>5, <2>6, <2>7 DEF OnceInv
<1> QED
  BY <1>1, <1>5, <1>6, MakingSteps

(* The whole invariant.                                                    *)
THEOREM WriteHolds == Spec => []WriteInv
<1>1. Init => WriteInv
  <2> SUFFICES ASSUME Init
               PROVE  WriteInv
    OBVIOUS
  <2>1. \A u \in Users : queue[u] = << >>
    BY DEF Init
  <2>2. CallbackInv
    BY <2>1, EmptySeq DEF Init, CallbackInv
  <2>3. OwnerInv
    BY <2>1, OwnersInit
  <2>4. \A w \in Writes : Fresh(w)
    BY <2>1, EmptySeq DEF Init, Fresh
  <2>5. OnceInv
    BY <2>4, EmptySeq DEF Init, OnceInv
  <2> QED
    BY <2>2, <2>3, <2>5, PathInit DEF WriteInv
<1>2. WriteInv /\ [Next]_vars => WriteInv'
  <2>1. ASSUME WriteInv, Next
        PROVE  WriteInv'
    <3>1. PathInv'
      BY <2>1, TypeStep, IdsStep, FrontStep, StreamStep, TokenStep
      DEF WriteInv, PathInv
    <3> QED
      BY <2>1, <3>1, CallbackStep, OwnerStep, OnceStep DEF WriteInv
  <2>2. ASSUME WriteInv, UNCHANGED vars
        PROVE  WriteInv'
    <3> USE DEF vars, app, store, stream, net, counters
    <3>1. PathInv'
      BY <2>2, PathStutter DEF WriteInv
    <3>2. CallbackInv'
      BY <2>2 DEF WriteInv, CallbackInv
    <3>3. OwnerInv'
      BY <2>2 DEF WriteInv, OwnerInv, OwnersOnly
    <3>4. OnceInv'
      BY <2>2 DEF WriteInv, OnceInv, Called, Fresh
    <3> QED
      BY <3>1, <3>2, <3>3, <3>4 DEF WriteInv
  <2> QED
    BY <2>1, <2>2
<1> QED
  BY <1>1, <1>2, PTL DEF Spec

-----------------------------------------------------------------------------
(* The write path is a write queue.                                        *)

(* The writes of the batches of a queue.                                   *)
WritesOf(q) == [i \in 1 .. Len(q) |-> q[i].write]

Waiting == [u \in Users |-> WritesOf(queue[u])]

LEMMA WritesOfIs ==
    ASSUME NEW q \in Seq(Batch)
    PROVE  /\ WritesOf(q) \in Seq(Writes)
           /\ Len(WritesOf(q)) = Len(q)
           /\ \A i \in 1 .. Len(q) : WritesOf(q)[i] = q[i].write
<1>1. Len(q) \in Nat /\ \A i \in 1 .. Len(q) : q[i].write \in Writes
  BY LenProperties, IdsAreNumbers
<1>2. WritesOf(q) \in [1 .. Len(q) -> Writes]
  BY <1>1 DEF WritesOf
<1>3. WritesOf(q) \in Seq(Writes) /\ Len(WritesOf(q)) = Len(q)
  BY <1>1, <1>2
<1>4. \A i \in 1 .. Len(q) : WritesOf(q)[i] = q[i].write
  BY DEF WritesOf
<1> QED
  BY <1>3, <1>4

LEMMA WritesAppended ==
    ASSUME NEW q \in Seq(Batch), NEW b \in Batch
    PROVE  WritesOf(Append(q, b)) = Append(WritesOf(q), b.write)
<1>1. PICK r \in Seq(Batch) : r = Append(q, b)
  BY AppendedIs
<1>2. /\ Len(q) \in Nat /\ Len(r) = Len(q) + 1
      /\ \A i \in 1 .. Len(q) : r[i] = q[i]
      /\ r[Len(q) + 1] = b
  BY <1>1, AppendedIs
<1>3. b.write \in Writes
  BY DEF Batch
<1>4. PICK v \in Seq(Writes) : v = WritesOf(q)
  BY WritesOfIs
<1>5. PICK w \in Seq(Writes) : w = WritesOf(r)
  BY WritesOfIs
<1>6. PICK a \in Seq(Writes) : a = Append(v, b.write)
  BY <1>3, AppendProperties
<1>7. /\ Len(v) = Len(q) /\ \A i \in 1 .. Len(q) : v[i] = q[i].write
      /\ Len(w) = Len(r) /\ \A i \in 1 .. Len(r) : w[i] = r[i].write
  BY <1>4, <1>5, WritesOfIs
<1>8. /\ Len(a) = Len(v) + 1
      /\ \A i \in 1 .. Len(v) : a[i] = v[i]
      /\ a[Len(v) + 1] = b.write
  BY <1>3, <1>6, AppendProperties
<1>9. Len(w) = Len(a)
  BY <1>2, <1>7, <1>8
<1>10. ASSUME NEW i \in 1 .. Len(w)
       PROVE  w[i] = a[i]
  <2>1. i \in 1 .. Len(r) /\ (i \in 1 .. Len(q) \/ i = Len(q) + 1)
    BY <1>2, <1>7
  <2> QED
    BY <1>2, <1>7, <1>8, <2>1
<1>11. w = a
  BY <1>9, <1>10, SeqEqual
<1> QED
  BY <1>1, <1>4, <1>5, <1>6, <1>11

LEMMA WritesTail ==
    ASSUME NEW q \in Seq(Batch), q # << >>
    PROVE  /\ WritesOf(q) # << >>
           /\ Head(WritesOf(q)) = q[1].write
           /\ WritesOf(Tail(q)) = Tail(WritesOf(q))
<1>1. PICK r \in Seq(Batch) : r = Tail(q)
  BY TailIs
<1>2. /\ Len(q) \in Nat /\ Len(q) > 0 /\ Len(r) = Len(q) - 1
      /\ \A i \in 1 .. Len(q) - 1 : r[i] = q[i + 1]
  BY <1>1, TailIs
<1>3. PICK v \in Seq(Writes) : v = WritesOf(q)
  BY WritesOfIs
<1>4. PICK w \in Seq(Writes) : w = WritesOf(r)
  BY WritesOfIs
<1>5. /\ Len(v) = Len(q) /\ \A i \in 1 .. Len(q) : v[i] = q[i].write
      /\ Len(w) = Len(r) /\ \A i \in 1 .. Len(r) : w[i] = r[i].write
  BY <1>3, <1>4, WritesOfIs
<1>6. v # << >>
  BY <1>2, <1>5, EmptySeq
<1>7. PICK t \in Seq(Writes) : t = Tail(v)
  BY <1>6, TailIs
<1>8. /\ Len(t) = Len(v) - 1
      /\ \A i \in 1 .. Len(v) - 1 : t[i] = v[i + 1]
      /\ Head(v) = v[1]
  BY <1>6, <1>7, TailIs
<1>9. Len(w) = Len(t)
  BY <1>2, <1>5, <1>8
<1>10. ASSUME NEW i \in 1 .. Len(w)
       PROVE  w[i] = t[i]
  <2>1. i \in 1 .. Len(q) - 1 /\ i + 1 \in 1 .. Len(q) /\ i \in 1 .. Len(r)
    BY <1>2, <1>5
  <2> QED
    BY <1>2, <1>5, <1>8, <2>1
<1>11. w = t
  BY <1>9, <1>10, SeqEqual
<1>12. 1 \in 1 .. Len(q)
  BY <1>2
<1>13. Head(v) = q[1].write
  BY <1>5, <1>8, <1>12
<1> QED
  BY <1>1, <1>3, <1>4, <1>6, <1>7, <1>11, <1>13

(* A write joins its queue: it is accepted.                                *)
LEMMA Accepts ==
    ASSUME WriteInv, WriteMutations
    PROVE  \E u \in Users, w \in Writes : Queues!Accept(u, w)
<1>1. PathInv /\ TypeOK /\ user \in Users
  BY DEF WriteInv, PathInv, TypeOK
<1>2. /\ tasks # << >> /\ tasks \in Seq(Task) /\ Head(tasks).task = "write"
      /\ UNCHANGED <<committed, told>>
  BY <1>1 DEF WriteMutations, TypeOK
<1>3. PICK w : w = Head(tasks).write
  OBVIOUS
<1>4. w \in Writes /\ Fresh(w)
  <2>1. Head(tasks) = tasks[1] /\ 1 \in 1 .. Len(tasks) /\ tasks[1] \in Task
    BY <1>2, TailIs
  <2> QED
    BY <1>2, <1>3, <2>1, TaskIs DEF WriteInv, OnceInv
<1>5. PICK b \in Batch :
          /\ b = [id |-> nextId, write |-> w]
          /\ queue' = [queue EXCEPT ![user] = Append(queue[user], b)]
  BY <1>1, <1>3, JoinedIs
<1>6. queue \in [Users -> Seq(Batch)] /\ queue[user] \in Seq(Batch)
  BY <1>1 DEF TypeOK
<1>7. \A v \in Users : queue'[v] = IF v = user THEN Append(queue[user], b)
                                   ELSE queue[v]
  BY <1>1, <1>5, <1>6
<1>8. WritesOf(Append(queue[user], b)) = Append(WritesOf(queue[user]), w)
  <2>1. b.write = w
    BY <1>5
  <2> QED
    BY <1>6, <2>1, WritesAppended
<1>9. Waiting' = [Waiting EXCEPT ![user] = Append(@, w)]
  BY <1>1, <1>7, <1>8 DEF Waiting
<1>10. \A v \in Users : \A i \in 1 .. Len(Waiting[v]) : Waiting[v][i] # w
  <2>1. \A v \in Users : queue[v] \in Seq(Batch)
    BY <1>6
  <2>2. \A v \in Users : Waiting[v] = WritesOf(queue[v])
    BY DEF Waiting
  <2> QED
    BY <1>4, <2>1, <2>2, WritesOfIs DEF Fresh
<1>11. Queues!Accept(user, w)
  BY <1>2, <1>4, <1>9, <1>10 DEF Queues!Accept, Waiting, WritesOf, Fresh
<1> QED
  BY <1>1, <1>4, <1>11 DEF Queues!Accept

(* The server takes a request: it commits the oldest write of the user     *)
(* that it has not committed, or nothing.                                  *)
LEMMA Commits ==
    ASSUME WriteInv, ServerTakes
    PROVE  \/ UNCHANGED <<Waiting, committed, told>>
           \/ \E u \in Users : \E i \in 1 .. Len(Waiting[u]) :
                  Queues!Commit(u, i)
<1>1. PathInv /\ TypeOK /\ user \in Users /\ queue[user] \in Seq(Batch)
  BY DEF WriteInv, PathInv, TypeOK
<1>2. /\ wire # << >> /\ ended = "none"
      /\ UNCHANGED <<queue, told>>
  BY DEF ServerTakes, store
<1>3. Waiting' = Waiting
  BY <1>2 DEF Waiting
<1>4. CASE UNCHANGED committed
  BY <1>2, <1>3, <1>4
<1>5. CASE /\ Head(wire).write \notin Bad /\ Head(wire) # Hello
           /\ committed' = committed \cup {Head(wire).write}
  <2>1. PICK i : i = Len(answers) + 1
    OBVIOUS
  <2>2. wire = <<Hello>> => Head(wire) = Hello
    OBVIOUS
  <2>3. /\ handshake
        /\ i \in 1 .. Len(queue[user])
        /\ Head(wire) = queue[user][i]
        /\ \A j \in 1 .. Len(answers) : answers[j] = queue[user][j]
    BY <1>1, <1>2, <1>5, <2>1, <2>2, RequestTaken
  <2>4. Len(answers) \in Nat /\ Len(queue[user]) \in Nat
    BY <1>1, PathFacts, LenProperties
  <2>5. \A j \in 1 .. Len(answers) : answers[j].write \in committed
    BY <2>3 DEF WriteInv, OnceInv
  <2>6. \A j \in 1 .. i - 1 : j \in 1 .. Len(answers) /\ j \in 1 .. Len(queue[user])
    BY <2>1, <2>3, <2>4
  <2>7. /\ Waiting[user] = WritesOf(queue[user])
        /\ Len(WritesOf(queue[user])) = Len(queue[user])
        /\ \A j \in 1 .. Len(queue[user]) :
               WritesOf(queue[user])[j] = queue[user][j].write
    BY <1>1, WritesOfIs DEF Waiting
  <2>8. /\ i \in 1 .. Len(Waiting[user])
        /\ \A j \in 1 .. i - 1 : Waiting[user][j] \in committed
        /\ Waiting[user][i] = Head(wire).write
    <3>1. \A j \in 1 .. i - 1 : Waiting[user][j] = answers[j].write
      BY <2>3, <2>6, <2>7
    <3> QED
      BY <2>3, <2>5, <2>6, <2>7, <3>1
  <2>9. Queues!Commit(user, i)
    BY <1>2, <1>3, <1>5, <2>8 DEF Queues!Commit, Waiting, WritesOf
  <2> QED
    BY <1>1, <2>8, <2>9 DEF Queues!Commit
<1> QED
  BY <1>4, <1>5 DEF ServerTakes

(* The callbacks of a batch are of its write.                              *)
LEMMA RegisteredIs ==
    ASSUME PathInv, CallbackInv, pipeline # << >>,
           NEW c \in Registered(Head(pipeline))
    PROVE  c.write = Head(pipeline).write
<1>1. PICK q \in Seq(Batch) : q = queue[user]
  BY PathFacts
<1>2. /\ pipeline = Front(q) /\ pipeline \in Seq(Batch) /\ Growing(q)
  BY <1>1, PathFacts
<1>3. /\ 1 \in 1 .. Len(q) /\ Head(pipeline) = q[1]
  <2>1. /\ Len(pipeline) > 0 /\ Len(pipeline) \in Nat
        /\ Head(pipeline) = pipeline[1]
    BY <1>2, TailIs
  <2>2. /\ Len(pipeline) <= Len(q) /\ Len(q) \in Nat
        /\ \A i \in 1 .. Len(pipeline) : pipeline[i] = q[i]
    BY <1>2, FrontIs, LenProperties
  <2> QED
    BY <2>1, <2>2
<1>4. c \in callbacks /\ c.user = user /\ c.id = q[1].id
  BY <1>3 DEF Registered
<1>5. PICK i \in 1 .. Len(q) : q[i] = [id |-> c.id, write |-> c.write]
  BY <1>1, <1>4 DEF CallbackInv
<1>6. q[i].id = c.id /\ q[i].write = c.write
  BY <1>5
<1>7. i = 1
  <2>1. q[1].id \in Nat
    BY <1>3, IdsAreNumbers
  <2>2. 1 < i => q[1].id < q[i].id
    BY <1>2, <1>3 DEF Growing
  <2> QED
    BY <1>4, <1>6, <2>1, <2>2
<1> QED
  BY <1>3, <1>6, <1>7

(* The front batch leaves the pipeline: its write, which the server has    *)
(* decided on, leaves the queue.                                           *)
LEMMA Settles ==
    ASSUME WriteInv, pipeline # << >>,
           NEW outcome \in {"ok", "error"}, Answered(outcome),
           UNCHANGED committed,
           Head(pipeline).write \in committed \cup Bad,
           outcome = "ok" => Head(pipeline).write \in committed
    PROVE  \E u \in Users : Queues!Settle(u)
<1>1. /\ PathInv /\ CallbackInv /\ user \in Users
      /\ queue \in [Users -> Seq(Batch)]
      /\ told \in [Writes -> {"nothing", "ok", "error"}]
  BY DEF WriteInv, PathInv, TypeOK
<1>2. PICK q \in Seq(Batch) : q = queue[user]
  BY <1>1
<1>3. PICK w : w = Head(pipeline).write
  OBVIOUS
<1>4. /\ q # << >> /\ w = q[1].write
      /\ queue' = [queue EXCEPT ![user] = Tail(q)]
  BY <1>1, <1>2, <1>3, AnsweredIs
<1>5. /\ WritesOf(q) # << >>
      /\ Head(WritesOf(q)) = w
      /\ WritesOf(Tail(q)) = Tail(WritesOf(q))
  BY <1>4, WritesTail
<1>6. Waiting[user] = WritesOf(q)
  BY <1>1, <1>2 DEF Waiting
<1>7. \A v \in Users : queue'[v] = IF v = user THEN Tail(q) ELSE queue[v]
  BY <1>1, <1>4
<1>8. Waiting' = [Waiting EXCEPT ![user] = Tail(@)]
  BY <1>1, <1>5, <1>6, <1>7 DEF Waiting
<1>9. \/ UNCHANGED told
      \/ told' = [told EXCEPT ![w] = outcome]
  <2>1. PICK found : found = Registered(Head(pipeline))
    OBVIOUS
  <2>2. told' = [v \in Writes |-> IF \E c \in found : c.write = v
                                  THEN outcome ELSE told[v]]
    BY <2>1 DEF Answered
  <2>3. \A c \in found : c.write = w
    BY <1>1, <1>3, <2>1, RegisteredIs
  <2>4. CASE found = {}
    BY <1>1, <2>2, <2>4
  <2>5. CASE found # {}
    <3>1. \A v \in Writes : (\E c \in found : c.write = v) <=> v = w
      BY <2>3, <2>5
    <3>2. told' = [v \in Writes |-> IF v = w THEN outcome ELSE told[v]]
      BY <2>2, <3>1
    <3> QED
      BY <1>1, <3>2
  <2> QED
    BY <2>4, <2>5
<1>10. w \in committed \cup Bad /\ (outcome = "ok" => w \in committed)
  BY <1>3
<1>11. /\ Waiting[user] # << >> /\ Head(Waiting[user]) = w
  BY <1>5, <1>6
<1>12. Queues!Settle(user)
  BY <1>8, <1>9, <1>10, <1>11 DEF Queues!Settle, Waiting, WritesOf
<1> QED
  BY <1>1, <1>12 DEF Queues!Settle

(* Every step is one of the write queue, or leaves it as it is.            *)
LEMMA QueueStep ==
    ASSUME WriteInv, Next
    PROVE  \/ UNCHANGED <<Waiting, committed, told>>
           \/ \E u \in Users, w \in Writes : Queues!Accept(u, w)
           \/ \E u \in Users : \E i \in 1 .. Len(Waiting[u]) :
                  Queues!Commit(u, i)
           \/ \E u \in Users : Queues!Settle(u)
<1>1. PathInv
  BY DEF WriteInv
<1>2. ASSUME UNCHANGED <<queue, committed, told>>
      PROVE  UNCHANGED <<Waiting, committed, told>>
  BY <1>2 DEF Waiting
<1>3. CASE WriteMutations
  BY <1>3, Accepts DEF Queues!Accept
<1>4. CASE ServerTakes
  BY <1>4, Commits DEF Queues!Commit
<1>5. CASE OnWriteStreamMutationResult
  <2>1. /\ answers # << >> /\ handshake
        /\ Answered("ok") /\ UNCHANGED committed
    BY <1>5 DEF OnWriteStreamMutationResult
  <2>2. /\ pipeline # << >> /\ answers[1] = pipeline[1]
        /\ Head(pipeline) = pipeline[1]
    BY <1>1, <2>1, ResponseIs, PathFacts, TailIs
  <2>3. 1 \in 1 .. Len(answers)
    BY <1>1, <2>1, PathFacts, TailIs
  <2>4. Head(pipeline).write \in committed
    BY <2>1, <2>2, <2>3 DEF WriteInv, OnceInv
  <2> QED
    BY <2>1, <2>2, <2>4, Settles DEF Queues!Settle
<1>6. CASE OnWriteStreamClose
  <2>1. CASE BlamesWrite /\ Answered("error")
    <3>1. /\ EndNoticed /\ UNCHANGED committed
          /\ ended = "permanent" /\ handshake /\ pipeline # << >>
      BY <1>6, <2>1 DEF OnWriteStreamClose, BlamesWrite
    <3>2. Head(pipeline) = pipeline[1]
      BY <1>1, <3>1, PathFacts, TailIs
    <3>3. CASE answers = << >>
      <4>1. Len(answers) = 0
        BY <3>3
      <4>2. pipeline[Len(answers) + 1].write \in Bad
        BY <1>1, <3>1 DEF PathInv, StreamInv, Aligned
      <4>3. Head(pipeline).write \in Bad
        BY <3>2, <4>1, <4>2
      <4> QED
        BY <2>1, <3>1, <4>3, Settles DEF Queues!Settle
    <3>4. CASE answers # << >>
      <4>1. answers[1] = pipeline[1]
        BY <1>1, <3>1, <3>4, ResponseIs
      <4>2. 1 \in 1 .. Len(answers)
        BY <1>1, <3>4, PathFacts, TailIs
      <4>3. Head(pipeline).write \in committed
        BY <3>1, <3>2, <4>1, <4>2 DEF WriteInv, OnceInv
      <4> QED
        BY <2>1, <3>1, <4>3, Settles DEF Queues!Settle
    <3> QED
      BY <3>3, <3>4
  <2>2. CASE UNCHANGED <<store, told>>
    BY <1>2, <1>6, <2>2 DEF OnWriteStreamClose, store
  <2> QED
    BY <1>6, <2>1, <2>2 DEF OnWriteStreamClose
<1>7. CASE HandleCredentialChange \/ Crash
  BY <1>2, <1>7 DEF HandleCredentialChange, Crash
<1>8. CASE ~StoreSteps /\ ~ServerTakes
  <2>1. UNCHANGED queue
    BY <1>8, OtherSteps DEF store
  <2>2. UNCHANGED committed
    BY <1>8, CommittingSteps
  <2>3. UNCHANGED told
    <3>1. \A outcome : Answered(outcome) /\ pipeline # << >>
              /\ outcome \in {"ok", "error"} => queue' # queue
      <4> SUFFICES ASSUME NEW outcome \in {"ok", "error"},
                          Answered(outcome), pipeline # << >>
                   PROVE  queue' # queue
        OBVIOUS
      <4>1. PICK q \in Seq(Batch) : q = queue[user]
        BY <1>1, PathFacts
      <4>2. q # << >> /\ queue'[user] = Tail(q)
        BY <1>1, <4>1, AnsweredIs
      <4>3. Len(Tail(q)) # Len(q)
        BY <4>2, TailIs
      <4> QED
        BY <4>1, <4>2, <4>3
    <3> QED
      BY <1>1, <2>1, <3>1, TellingSteps
  <2> QED
    BY <1>2, <2>1, <2>2, <2>3
<1> QED
  BY <1>3, <1>4, <1>5, <1>6, <1>7, <1>8 DEF StoreSteps

(* The write path implements the write queue: whatever happens to streams, *)
(* accounts and the process, the writes of a user are committed in order,  *)
(* each leaves its queue only once the server has decided on it, and       *)
(* nobody is told of a success that was none.                              *)
THEOREM QueueImplemented == Spec => ImplementsQueue
<1>1. Init => Queues!Init
  <2> SUFFICES ASSUME Init
               PROVE  Queues!Init
    OBVIOUS
  <2>1. \A u \in Users : queue[u] = << >>
    BY DEF Init
  <2>2. \A u \in Users : [i \in 1 .. Len(queue[u]) |-> queue[u][i].write] = << >>
    <3>1. << >> \in Seq(Batch) /\ Len(<< >>) = 0
      BY EmptySeq
    <3>2. \A u \in Users : WritesOf(queue[u]) \in Seq(Writes)
                           /\ Len(WritesOf(queue[u])) = 0
      BY <2>1, <3>1, WritesOfIs
    <3> QED
      BY <3>2, EmptySeq DEF WritesOf
  <2> QED
    BY <2>2 DEF Init, Queues!Init
<1>2. WriteInv /\ [Next]_vars => [Queues!Next]_(Queues!vars)
  <2>1. ASSUME WriteInv, Next
        PROVE  [Queues!Next]_(Queues!vars)
    BY <2>1, QueueStep
    DEF Queues!Next, Queues!vars, Queues!Accept, Queues!Commit, Queues!Settle,
        Waiting, WritesOf
  <2>2. ASSUME UNCHANGED vars
        PROVE  UNCHANGED Queues!vars
    BY <2>2 DEF vars, store, Queues!vars
  <2> QED
    BY <2>1, <2>2
<1> QED
  BY <1>1, <1>2, WriteHolds, PTL DEF Spec, ImplementsQueue, Queues!Spec

=============================================================================
