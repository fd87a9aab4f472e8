--------------------------- MODULE LocalViewProofs ---------------------------
(***************************************************************************)
(* What holds of the read path of the Firestore client for every number of *)
(* documents, writes, listeners, lookups, deletions, breaks and crashes.   *)
(*                                                                         *)
(* The targets, lookups, aggregator and requests are one record, remote,   *)
(* and a task of the worker queue changes it in several steps: a snapshot  *)
(* resets the aggregator, may watch the query anew, and then stops and     *)
(* starts lookups one by one.  So the invariant of the watch stream is a   *)
(* predicate on such a record (Watching), each operator is shown to keep   *)
(* it, and so is any number of them in a row (LimboUpdatedKeeps).          *)
(***************************************************************************)
EXTENDS LocalView, FiniteSetTheorems, SequenceTheorems, TLAPS

-----------------------------------------------------------------------------
(* Types.                                                                  *)
Table(S) == UNION {[I -> S] : I \in SUBSET Nat}
Change == {"none", "added", "modified", "removed"}
Lookup == [key : Docs, received : BOOLEAN]
TargetState == [pending : Int, current : BOOLEAN, changes : [Docs -> Change]]
Request == [ask : {"watch", "unwatch"}, id : Nat, covers : SUBSET Docs,
            token : Nat]
Remote == [listens : Table(Nat), limbo : Table(Lookup), waiting : Seq(Docs),
           next : Nat, agg : Table(TargetState), requests : Seq(Request)]

Ack == [type : {"added", "removed"}, id : Nat]
Sent ==
    [type : {"document"}, id : Nat, key : Docs, version : Nat, value : Values]
        \cup [type : {"delete"}, id : Nat, key : Docs, version : Nat]
        \cup [type : {"current"}, id : Nat]
        \cup [type : {"filter"}, id : Nat, count : Nat]
        \cup [type : {"snapshot"}, version : Nat]
Response == Ack \cup Sent
Answer == [write : Writes, refused : BOOLEAN, version : Nat, read : Nat]
Served == [sent : Nat, current : BOOLEAN, covers : SUBSET Docs]
Update == [version : Nat, value : Values]
Cached == [version : Nat, value : Values, committed : BOOLEAN, read : Nat]
TargetData == [token : Nat, limboFree : Nat]
View == [on : BOOLEAN, docs : [Docs -> Values], mutated : SUBSET Docs,
         synced : SUBSET Docs, current : BOOLEAN, limbo : SUBSET Docs,
         state : {"None", "Local", "Synced"}]
TargetChange == [added : SUBSET Docs, removed : SUBSET Docs, current : BOOLEAN]

ServerTypes ==
    /\ history \in Seq([Docs -> Update]) /\ history # << >>
    /\ served \in Table(Served)
    /\ wire \in Seq(Response)
    /\ answers \in Seq(Answer) /\ Len(answers) <= Len(queue)

DiskTypes ==
    /\ queue \in Seq(Writes)
    /\ cache \in [Docs -> Cached]
    /\ keys \in SUBSET Docs
    /\ saved \in TargetData
    /\ last \in Nat

ClientTypes ==
    /\ target \in TargetData
    /\ open \in BOOLEAN /\ offline \in BOOLEAN
    /\ remote \in Remote
    /\ updates \in [Docs -> Seq(Update)]
    /\ resets \in SUBSET {Query}
    /\ view \in View
    /\ resetting \in {"no", "yes", "torn"}

ProgramTypes ==
    /\ opened \in SUBSET Listeners /\ raised \in SUBSET opened
    /\ shown \in [Listeners -> [Docs -> Values]]

Types == ServerTypes /\ DiskTypes /\ ClientTypes /\ ProgramTypes

-----------------------------------------------------------------------------
(* The invariant of the watch stream, for targets r, responses w under way *)
(* and targets s of the server.                                            *)

(* Every target has a number below the next one.                           *)
Numbered(r, w, s) ==
    /\ r.next > 0
    /\ \A id \in DOMAIN r.listens \cup DOMAIN r.agg \cup DOMAIN s : id < r.next
    /\ \A i \in 1 .. Len(r.requests) : r.requests[i].id < r.next
    /\ \A i \in 1 .. Len(w) : w[i].type # "snapshot" => w[i].id < r.next

(* What is watched is the query and the lookups.                           *)
Paired(r) == DOMAIN r.limbo = DOMAIN r.listens \ {Query}

(* Where a sequence has an element of a set.                               *)
Places(seq, T) == {i \in 1 .. Len(seq) : seq[i] \in T}
Count(seq, T) == Cardinality(Places(seq, T))

RequestsOf(id) == {m \in Request : m.id = id}
AcksOf(id) == {m \in Ack : m.id = id}

(* A target is pending for its requests and acknowledgements under way.    *)
Pending(r, w) ==
    \A id \in Nat : StateOf(r, id).pending =
        Count(r.requests, RequestsOf(id)) + Count(w, AcksOf(id))

(* Requests, targets and responses of a lookup are about its document.     *)
AboutOne(r, w, s) ==
    \A id \in DOMAIN r.limbo :
        /\ \A i \in 1 .. Len(r.requests) :
               r.requests[i].id = id =>
                   r.requests[i].covers \subseteq {r.limbo[id].key}
        /\ id \in DOMAIN s => s[id].covers \subseteq {r.limbo[id].key}
        /\ \A i \in 1 .. Len(w) :
               w[i].type \in {"document", "delete"} /\ w[i].id = id =>
                   w[i].key = r.limbo[id].key

(* RemoteKeys, for targets r and synced documents.                         *)
KeysIn(r, synced, id) ==
    IF id \in DOMAIN r.limbo
    THEN IF r.limbo[id].received THEN {r.limbo[id].key} ELSE {}
    ELSE IF id = Query THEN synced ELSE {}

(* The changes of an active target are those of documents it can have.     *)
Fits(r, synced) ==
    \A id \in DOMAIN r.agg \cap DOMAIN r.listens :
        r.agg[id].pending = 0 =>
            \A k \in Docs :
                /\ r.agg[id].changes[k] \in {"modified", "removed"} =>
                       k \in KeysIn(r, synced, id)
                /\ id \in DOMAIN r.limbo /\ r.agg[id].changes[k] # "none" =>
                       k = r.limbo[id].key

Closed(r, w, s) ==
    r.agg = << >> /\ r.requests = << >> /\ w = << >> /\ s = << >>

Watching(r, w, s, synced) ==
    /\ Numbered(r, w, s)
    /\ Paired(r)
    /\ Pending(r, w)
    /\ AboutOne(r, w, s)
    /\ Fits(r, synced)
    /\ ~open => Closed(r, w, s)

-----------------------------------------------------------------------------
(* Snapshots come in the order of their versions.                          *)
IsSnapshot(m) == m.type = "snapshot"

InOrder ==
    /\ last <= Clock
    /\ \A i \in 1 .. Len(wire) : IsSnapshot(wire[i]) =>
           last <= wire[i].version /\ wire[i].version <= Clock
    /\ \A i, j \in 1 .. Len(wire) :
           i < j /\ IsSnapshot(wire[i]) /\ IsSnapshot(wire[j]) =>
               wire[i].version <= wire[j].version

(* Without a view nothing is watched, and nobody listens.                  *)
ViewFirst ==
    ~view.on => /\ opened = {} /\ remote.listens = << >> /\ ~open

ReadInv ==
    /\ Types
    /\ Watching(remote, wire, served, view.synced)
    /\ InOrder
    /\ ViewFirst
    /\ ListenersAgree

-----------------------------------------------------------------------------
(* Tables.                                                                 *)

LEMMA TableIs ==
    ASSUME NEW S, NEW f \in Table(S)
    PROVE  /\ DOMAIN f \subseteq Nat
           /\ \A n \in DOMAIN f : f[n] \in S
           /\ f = [n \in DOMAIN f |-> f[n]]
<1>1. PICK I \in SUBSET Nat : f \in [I -> S]
  BY DEF Table
<1> QED
  BY <1>1

LEMMA IsTable ==
    ASSUME NEW S, NEW I \in SUBSET Nat, NEW f \in [I -> S]
    PROVE  f \in Table(S)
BY DEF Table

LEMMA EmptyTable ==
    ASSUME NEW S
    PROVE  << >> \in Table(S) /\ DOMAIN << >> = {}
<1>1. DOMAIN << >> = {} /\ << >> \in [{} -> S]
  OBVIOUS
<1> QED
  BY <1>1, IsTable

(* A table with another entry, or without one.                             *)
LEMMA WithTable ==
    ASSUME NEW S, NEW f \in Table(S), NEW n \in Nat, NEW y \in S
    PROVE  With(f, n, y) \in Table(S)
<1>1. DOMAIN f \subseteq Nat /\ \A m \in DOMAIN f : f[m] \in S
  BY TableIs
<1>2. With(f, n, y) = [m \in DOMAIN f \cup {n} |-> IF m = n THEN y ELSE f[m]]
  BY DEF With
<1>3. With(f, n, y) \in [DOMAIN f \cup {n} -> S]
  BY <1>1, <1>2
<1> QED
  BY <1>1, <1>3, IsTable

LEMMA WithoutTable ==
    ASSUME NEW S, NEW f \in Table(S), NEW n
    PROVE  Without(f, n) \in Table(S)
<1>1. DOMAIN f \subseteq Nat /\ \A m \in DOMAIN f : f[m] \in S
  BY TableIs
<1>2. Without(f, n) = [m \in DOMAIN f \ {n} |-> f[m]]
  BY DEF Without
<1>3. Without(f, n) \in [DOMAIN f \ {n} -> S]
  BY <1>1, <1>2
<1> QED
  BY <1>1, <1>3, IsTable

-----------------------------------------------------------------------------
(* Sequences.                                                              *)

LEMMA AppendIs ==
    ASSUME NEW S, NEW s \in Seq(S), NEW x \in S
    PROVE  /\ Append(s, x) \in Seq(S)
           /\ Len(Append(s, x)) = Len(s) + 1 /\ Len(s) \in Nat
           /\ \A i \in 1 .. Len(s) : Append(s, x)[i] = s[i]
           /\ Append(s, x)[Len(s) + 1] = x
OBVIOUS

LEMMA TailIs ==
    ASSUME NEW S, NEW s \in Seq(S), s # << >>
    PROVE  /\ Tail(s) \in Seq(S) /\ Head(s) \in S /\ Head(s) = s[1]
           /\ Len(Tail(s)) = Len(s) - 1 /\ Len(s) \in Nat /\ 1 \in 1 .. Len(s)
           /\ \A i \in 1 .. Len(Tail(s)) : /\ Tail(s)[i] = s[i + 1]
                                           /\ i + 1 \in 1 .. Len(s)
<1>1. Len(s) \in Nat /\ Len(s) > 0
  BY EmptySeq, LenProperties
<1> QED
  BY <1>1, HeadTailProperties

LEMMA PlacesFinite ==
    ASSUME NEW S, NEW s \in Seq(S), NEW T
    PROVE  IsFiniteSet(Places(s, T)) /\ Count(s, T) \in Nat
<1>1. IsFiniteSet(1 .. Len(s))
  BY FS_Interval
<1>2. Places(s, T) \in SUBSET (1 .. Len(s))
  BY DEF Places
<1> QED
  BY <1>1, <1>2, FS_Subset, FS_CardinalityType DEF Count

LEMMA CountEmpty ==
    ASSUME NEW T
    PROVE  Count(<< >>, T) = 0
<1>1. Places(<< >>, T) = {}
  BY DEF Places
<1> QED
  BY <1>1, FS_EmptySet DEF Count

LEMMA CountAppend ==
    ASSUME NEW S, NEW s \in Seq(S), NEW x \in S, NEW T
    PROVE  Count(Append(s, x), T) = Count(s, T) + (IF x \in T THEN 1 ELSE 0)
<1> DEFINE n == Len(s) + 1
<1>1. n \notin Places(s, T)
  BY LenProperties DEF Places
<1>2. CASE x \in T
  <2>1. Places(Append(s, x), T) = Places(s, T) \cup {n}
    BY <1>2, AppendIs DEF Places
  <2> QED
    BY <1>1, <1>2, <2>1, PlacesFinite, FS_AddElement DEF Count
<1>3. CASE x \notin T
  <2>1. Places(Append(s, x), T) = Places(s, T)
    BY <1>3, AppendIs DEF Places
  <2> QED
    BY <1>3, <2>1, PlacesFinite DEF Count
<1> QED
  BY <1>2, <1>3

(* Places one further on are as many.                                      *)
LEMMA ShiftedCount ==
    ASSUME NEW A, IsFiniteSet(A), A \subseteq Int
    PROVE  /\ IsFiniteSet({i + 1 : i \in A})
           /\ Cardinality({i + 1 : i \in A}) = Cardinality(A)
<1> DEFINE B == {i + 1 : i \in A}
           f == [i \in A |-> i + 1]
<1>1. f \in Bijection(A, B)
  <2>1. f \in [A -> B] /\ \A b \in B : \E a \in A : f[a] = b
    OBVIOUS
  <2>2. \A a, b \in A : f[a] = f[b] => a = b
    OBVIOUS
  <2> QED
    BY <2>1, <2>2 DEF Bijection, Injection, Surjection, IsInjective
<1>2. ExistsBijection(A, B)
  BY <1>1 DEF ExistsBijection
<1> HIDE DEF B, f
<1> QED
  BY <1>2, FS_Bijection DEF B

LEMMA CountTail ==
    ASSUME NEW S, NEW s \in Seq(S), s # << >>, NEW T
    PROVE  Count(s, T) = Count(Tail(s), T) + (IF Head(s) \in T THEN 1 ELSE 0)
<1> DEFINE A == Places(Tail(s), T)
           B == {i + 1 : i \in A}
<1>1. IsFiniteSet(A) /\ A \subseteq Int
  <2>1. Tail(s) \in Seq(S)
    BY TailIs
  <2>2. IsFiniteSet(A)
    BY <2>1, PlacesFinite
  <2>3. A \subseteq Int
    BY DEF Places
  <2> QED
    BY <2>2, <2>3
<1>2. IsFiniteSet(B) /\ Cardinality(B) = Cardinality(A)
  BY <1>1, ShiftedCount
<1>3. 1 \notin B
  BY TailIs DEF Places
<1>4. \A j \in Places(s, T) : j = 1 \/ j \in B
  <2> SUFFICES ASSUME NEW j \in Places(s, T), j # 1 PROVE j \in B
    OBVIOUS
  <2>1. j \in 1 .. Len(s) /\ s[j] \in T
    BY DEF Places
  <2>2. j - 1 \in 1 .. Len(Tail(s)) /\ (j - 1) + 1 = j
    BY <2>1, TailIs
  <2>3. j - 1 \in A
    BY <2>1, <2>2, TailIs DEF Places
  <2> QED
    BY <2>2, <2>3
<1>5. \A j \in B : j \in Places(s, T)
  BY TailIs DEF Places
<1>6. 1 \in Places(s, T) <=> Head(s) \in T
  BY TailIs DEF Places
<1>7. CASE Head(s) \in T
  <2>1. Places(s, T) = B \cup {1}
    BY <1>4, <1>5, <1>6, <1>7
  <2> HIDE DEF B
  <2> QED
    BY <1>2, <1>3, <1>7, <2>1, FS_AddElement DEF Count
<1>8. CASE Head(s) \notin T
  <2>1. Places(s, T) = B
    BY <1>4, <1>5, <1>6, <1>8
  <2>2. Count(Tail(s), T) \in Nat
    BY TailIs, PlacesFinite
  <2> HIDE DEF B
  <2> QED
    BY <1>2, <1>8, <2>1, <2>2 DEF Count
<1> QED
  BY <1>7, <1>8

(* s is w and then elements of N.                                          *)
Continues(s, w, N) ==
    /\ Len(s) >= Len(w)
    /\ \A i \in 1 .. Len(w) : s[i] = w[i]
    /\ \A i \in Len(w) + 1 .. Len(s) : s[i] \in N

LEMMA ContinuesOn ==
    ASSUME NEW S, NEW N \in SUBSET S, NEW w \in Seq(S), NEW s \in Seq(S),
           NEW t \in Seq(N), Continues(s, w, N)
    PROVE  s \o t \in Seq(S) /\ Continues(s \o t, w, N)
<1>1. t \in Seq(S)
  <2>1. \A i \in 1 .. Len(t) : t[i] \in S
    BY ElementOfSeq
  <2> QED
    BY <2>1, SeqDef
<1>2. s \o t \in Seq(S)
  BY <1>1, ConcatProperties
<1>3. /\ Len(s \o t) = Len(s) + Len(t)
      /\ \A i \in 1 .. Len(s) + Len(t) :
             (s \o t)[i] = IF i <= Len(s) THEN s[i] ELSE t[i - Len(s)]
  BY <1>1, ConcatProperties
<1>4. Len(s) \in Nat /\ Len(t) \in Nat /\ Len(w) \in Nat
  BY <1>1, LenProperties
<1>5. \A i \in 1 .. Len(t) : t[i] \in N
  BY ElementOfSeq
<1>6. \A i \in 1 .. Len(w) : (s \o t)[i] = w[i]
  BY <1>3, <1>4 DEF Continues
<1>7. \A i \in Len(w) + 1 .. Len(s \o t) : (s \o t)[i] \in N
  <2> SUFFICES ASSUME NEW i \in Len(w) + 1 .. Len(s \o t)
               PROVE  (s \o t)[i] \in N
    OBVIOUS
  <2>1. CASE i <= Len(s)
    BY <1>3, <1>4, <2>1 DEF Continues
  <2>2. CASE i > Len(s)
    BY <1>3, <1>4, <1>5, <2>2
  <2> QED
    BY <1>3, <1>4, <2>1, <2>2
<1> QED
  BY <1>2, <1>3, <1>4, <1>6, <1>7 DEF Continues

(* A finite set as a sequence.                                             *)
LEMMA SetToSeqIs ==
    ASSUME NEW S, IsFiniteSet(S)
    PROVE  /\ SetToSeq(S) \in Seq(S)
           /\ \A i, j \in 1 .. Len(SetToSeq(S)) :
                  SetToSeq(S)[i] = SetToSeq(S)[j] => i = j
           /\ \A x \in S : \E i \in 1 .. Len(SetToSeq(S)) : SetToSeq(S)[i] = x
<1> DEFINE n == Cardinality(S)
           f == SetToSeq(S)
<1>1. n \in Nat /\ ExistsBijection(1 .. n, S)
  BY FS_CardinalityType
<1>2. \E g \in [1 .. n -> S] : IsInjective(g)
  <2>1. PICK g \in Bijection(1 .. n, S) : TRUE
    BY <1>1 DEF ExistsBijection
  <2> QED
    BY <2>1 DEF Bijection, Injection
<1>3. f = CHOOSE g \in [1 .. n -> S] : IsInjective(g)
  BY DEF SetToSeq
<1>4. f \in [1 .. n -> S] /\ IsInjective(f)
  <2> HIDE DEF f
  <2> QED
    BY <1>2, <1>3
<1>5. f \in Injection(1 .. n, S)
  BY <1>4 DEF Injection
<1>6. Cardinality(1 .. n) = n /\ IsFiniteSet(1 .. n)
  BY <1>1, FS_Interval
<1>7. f \in Surjection(1 .. n, S)
  BY <1>5, <1>6, FS_Injection
<1>8. f \in Seq(S) /\ Len(f) = n
  <2> HIDE DEF f, n
  <2> QED
    BY <1>1, <1>4, IsASeq, LenProperties
<1> HIDE DEF f, n
<1>9. \A i, j \in 1 .. Len(f) : f[i] = f[j] => i = j
  BY <1>4, <1>8 DEF IsInjective
<1>10. \A x \in S : \E i \in 1 .. Len(f) : f[i] = x
  BY <1>7, <1>8 DEF Surjection
<1> QED
  BY <1>8, <1>9, <1>10 DEF f

(* A finite set in any order.                                              *)
LEMMA SetToSeqsIs ==
    ASSUME NEW S, IsFiniteSet(S), NEW f \in SetToSeqs(S)
    PROVE  /\ f \in Seq(S)
           /\ \A i, j \in 1 .. Len(f) : f[i] = f[j] => i = j
           /\ \A x \in S : \E i \in 1 .. Len(f) : f[i] = x
<1>1. PICK n \in Nat : n = Cardinality(S)
  BY FS_CardinalityType
<1>2. /\ f \in [1 .. n -> S]
      /\ \A i, j \in 1 .. n : i # j => f[i] # f[j]
  BY <1>1 DEF SetToSeqs
<1>3. f \in Injection(1 .. n, S)
  BY <1>2 DEF Injection, IsInjective
<1>4. Cardinality(1 .. n) = n /\ IsFiniteSet(1 .. n)
  BY <1>1, FS_Interval
<1>5. f \in Surjection(1 .. n, S)
  BY <1>1, <1>3, <1>4, FS_Injection
<1>6. f \in Seq(S) /\ Len(f) = n
  BY <1>1, <1>2, IsASeq, LenProperties
<1>7. \A x \in S : \E i \in 1 .. Len(f) : f[i] = x
  BY <1>5, <1>6 DEF Surjection
<1> QED
  BY <1>2, <1>6, <1>7

(* What a function has for the members of a finite set is finite.          *)
LEMMA ImageFinite ==
    ASSUME NEW S, IsFiniteSet(S), NEW f, DOMAIN f = S
    PROVE  IsFiniteSet({f[x] : x \in S})
<1> DEFINE T == {f[x] : x \in S}
           g == [x \in S |-> f[x]]
<1>1. g \in Surjection(S, T)
  BY DEF Surjection
<1> HIDE DEF T, g
<1>2. IsFiniteSet(T)
  BY <1>1, FS_Surjection
<1> QED
  BY <1>2 DEF T

-----------------------------------------------------------------------------
(* Requests.                                                               *)

LEMMA FreshIs == Fresh \in TargetState /\ Fresh.pending = 0
BY DEF Fresh, Untouched, TargetState, Change

LEMMA StateIs ==
    ASSUME NEW r \in Remote, NEW id
    PROVE  /\ StateOf(r, id) \in TargetState
           /\ id \in DOMAIN r.agg => StateOf(r, id) = r.agg[id]
           /\ id \notin DOMAIN r.agg => StateOf(r, id) = Fresh
<1>1. r.agg \in Table(TargetState)
  BY DEF Remote
<1>2. \A n \in DOMAIN r.agg : r.agg[n] \in TargetState
  BY <1>1, TableIs
<1> QED
  BY <1>2, FreshIs DEF StateOf

LEMMA OneMore ==
    ASSUME NEW s \in TargetState
    PROVE  LET t == [s EXCEPT !.pending = @ + 1]
           IN  /\ t \in TargetState /\ t.pending = s.pending + 1
               /\ t.changes = s.changes /\ t.current = s.current
BY DEF TargetState

LEMMA SendIs ==
    ASSUME NEW r \in Remote, NEW m \in Request
    PROVE  LET s == Send(r, m)
           IN  /\ s \in Remote
               /\ s.listens = r.listens /\ s.limbo = r.limbo
               /\ s.waiting = r.waiting /\ s.next = r.next
               /\ ~open => s = r
               /\ open => /\ s.requests = Append(r.requests, m)
                          /\ DOMAIN s.agg = DOMAIN r.agg \cup {m.id}
                          /\ \A id : StateOf(s, id).pending =
                                StateOf(r, id).pending
                                    + (IF id = m.id THEN 1 ELSE 0)
                          /\ \A id \in DOMAIN r.agg : id # m.id =>
                                s.agg[id] = r.agg[id]
<1>1. CASE ~open
  BY <1>1 DEF Send
<1>2. CASE open
  <2>1. m.id \in Nat /\ r.agg \in Table(TargetState) /\ r.requests \in Seq(Request)
    BY DEF Remote, Request
  <2>2. PICK t \in TargetState :
            /\ t = [StateOf(r, m.id) EXCEPT !.pending = @ + 1]
            /\ t.pending = StateOf(r, m.id).pending + 1
    BY StateIs, OneMore
  <2>3. PICK a : a = With(r.agg, m.id, t)
    OBVIOUS
  <2>4. a \in Table(TargetState)
    BY <2>1, <2>2, <2>3, WithTable
  <2>5. /\ DOMAIN a = DOMAIN r.agg \cup {m.id} /\ a[m.id] = t
         /\ \A id \in DOMAIN r.agg : id # m.id => a[id] = r.agg[id]
    BY <2>3 DEF With
  <2>6. PICK q \in Seq(Request) : q = Append(r.requests, m)
    BY <2>1, AppendIs
  <2>7. Send(r, m) = [r EXCEPT !.agg = a, !.requests = q]
    BY <1>2, <2>2, <2>3, <2>6 DEF Send
  <2>8. PICK s : s = Send(r, m)
    OBVIOUS
  <2>9. /\ s \in Remote /\ s.listens = r.listens /\ s.limbo = r.limbo
         /\ s.waiting = r.waiting /\ s.next = r.next
         /\ s.agg = a /\ s.requests = q
    BY <2>6, <2>7, <2>8, <2>4 DEF Remote
  <2>10. StateOf(s, m.id).pending = StateOf(r, m.id).pending + 1
    BY <2>2, <2>9, <2>5 DEF StateOf
  <2>11. \A id : id # m.id => StateOf(s, id) = StateOf(r, id)
    BY <2>9, <2>5 DEF StateOf
  <2>12. \A id : StateOf(r, id).pending \in Int
    BY StateIs DEF TargetState
  <2>13. \A id : StateOf(s, id).pending =
            StateOf(r, id).pending + (IF id = m.id THEN 1 ELSE 0)
    <3> TAKE id
    <3>1. CASE id = m.id
      BY <2>10, <3>1
    <3>2. CASE id # m.id
      BY <2>11, <2>12, <3>2
    <3> QED
      BY <3>1, <3>2
  <2> QED
    BY <1>2, <2>6, <2>8, <2>13, <2>9, <2>5
<1> QED
  BY <1>1, <1>2

(* What is pending is a number.                                            *)
LEMMA PendingNat ==
    ASSUME NEW r \in Remote, NEW w \in Seq(Response), Pending(r, w),
           NEW id \in Nat
    PROVE  StateOf(r, id).pending \in Nat
<1>1. r.requests \in Seq(Request)
  BY DEF Remote
<1>2. /\ Count(r.requests, RequestsOf(id)) \in Nat
      /\ Count(w, AcksOf(id)) \in Nat
  BY <1>1, PlacesFinite
<1> QED
  BY <1>2 DEF Pending

LEMMA SendKeeps ==
    ASSUME NEW w \in Seq(Response), NEW srv \in Table(Served), NEW synced,
           NEW r \in Remote, Watching(r, w, srv, synced),
           NEW m \in Request, m.id < r.next,
           m.id \in DOMAIN r.limbo => m.covers \subseteq {r.limbo[m.id].key}
    PROVE  Send(r, m) \in Remote /\ Watching(Send(r, m), w, srv, synced)
<1>1. PICK s \in Remote : s = Send(r, m)
  BY SendIs
<1>2. CASE ~open
  BY <1>1, <1>2, SendIs
<1>3. CASE open
  <2>1. /\ s.listens = r.listens /\ s.limbo = r.limbo
        /\ s.waiting = r.waiting /\ s.next = r.next
        /\ s.requests = Append(r.requests, m)
        /\ DOMAIN s.agg = DOMAIN r.agg \cup {m.id}
        /\ \A id : StateOf(s, id).pending =
                StateOf(r, id).pending + (IF id = m.id THEN 1 ELSE 0)
        /\ \A id \in DOMAIN r.agg : id # m.id => s.agg[id] = r.agg[id]
    BY <1>1, <1>3, SendIs
  <2>2. r.requests \in Seq(Request) /\ m.id \in Nat
    BY DEF Remote, Request
  <2>3. /\ Len(s.requests) = Len(r.requests) + 1 /\ Len(r.requests) \in Nat
        /\ \A i \in 1 .. Len(r.requests) : s.requests[i] = r.requests[i]
        /\ s.requests[Len(r.requests) + 1] = m
    BY <2>1, <2>2, AppendIs
  <2>4. \A i \in 1 .. Len(s.requests) : i \in 1 .. Len(r.requests) \/ s.requests[i] = m
    BY <2>3
  <2>5. Numbered(s, w, srv)
    BY <2>1, <2>3, <2>4 DEF Watching, Numbered
  <2>6. Paired(s)
    BY <2>1 DEF Watching, Paired
  <2>7. Pending(s, w)
    <3> SUFFICES ASSUME NEW id \in Nat
                 PROVE  StateOf(s, id).pending =
                          Count(s.requests, RequestsOf(id)) + Count(w, AcksOf(id))
      BY DEF Pending
    <3>1. Count(s.requests, RequestsOf(id)) =
            Count(r.requests, RequestsOf(id))
                + (IF m \in RequestsOf(id) THEN 1 ELSE 0)
      BY <2>1, <2>2, CountAppend
    <3>2. m \in RequestsOf(id) <=> id = m.id
      BY DEF RequestsOf
    <3>3. StateOf(r, id).pending =
            Count(r.requests, RequestsOf(id)) + Count(w, AcksOf(id))
      BY DEF Watching, Pending
    <3>4. /\ Count(r.requests, RequestsOf(id)) \in Nat
          /\ Count(w, AcksOf(id)) \in Nat
      BY <2>2, PlacesFinite
    <3> QED
      BY <2>1, <3>1, <3>2, <3>3, <3>4
  <2>8. AboutOne(s, w, srv)
    BY <2>1, <2>3, <2>4 DEF Watching, AboutOne
  <2>9. Fits(s, synced)
    <3> SUFFICES ASSUME NEW id \in DOMAIN s.agg \cap DOMAIN s.listens,
                        s.agg[id].pending = 0, NEW k \in Docs
                 PROVE  /\ s.agg[id].changes[k] \in {"modified", "removed"} =>
                               k \in KeysIn(s, synced, id)
                        /\ id \in DOMAIN s.limbo /\ s.agg[id].changes[k] # "none" =>
                               k = s.limbo[id].key
      BY DEF Fits
    <3>1. id # m.id
      <4>1. StateOf(r, m.id).pending \in Nat
        BY <2>2, PendingNat DEF Watching
      <4>2. StateOf(s, m.id) = s.agg[m.id]
        BY <2>1 DEF StateOf
      <4> QED
        BY <2>1, <4>1, <4>2
    <3>2. id \in DOMAIN r.agg \cap DOMAIN r.listens /\ s.agg[id] = r.agg[id]
      BY <2>1, <3>1
    <3>3. KeysIn(s, synced, id) = KeysIn(r, synced, id)
      BY <2>1 DEF KeysIn
    <3> QED
      BY <2>1, <3>2, <3>3 DEF Watching, Fits
  <2> QED
    BY <1>1, <1>3, <2>5, <2>6, <2>7, <2>8, <2>9 DEF Watching
<1> QED
  BY <1>2, <1>3

-----------------------------------------------------------------------------
(* Lookups.                                                                *)

LEMMA NumbersAre ==
    ASSUME NEW r \in Remote
    PROVE  /\ r.next \in Nat /\ r.waiting \in Seq(Docs)
           /\ r.listens \in Table(Nat) /\ r.limbo \in Table(Lookup)
           /\ r.agg \in Table(TargetState) /\ r.requests \in Seq(Request)
           /\ DOMAIN r.listens \subseteq Nat /\ DOMAIN r.limbo \subseteq Nat
           /\ DOMAIN r.agg \subseteq Nat
           /\ \A i \in 1 .. Len(r.requests) : r.requests[i] \in Request
           /\ \A id \in DOMAIN r.limbo : r.limbo[id] \in Lookup
           /\ \A id \in DOMAIN r.agg : r.agg[id] \in TargetState
<1>1. /\ r.next \in Nat /\ r.waiting \in Seq(Docs)
      /\ r.listens \in Table(Nat) /\ r.limbo \in Table(Lookup)
      /\ r.agg \in Table(TargetState) /\ r.requests \in Seq(Request)
  BY DEF Remote
<1>2. DOMAIN r.listens \subseteq Nat
  BY <1>1, TableIs
<1>3. DOMAIN r.limbo \subseteq Nat /\ \A id \in DOMAIN r.limbo : r.limbo[id] \in Lookup
  BY <1>1, TableIs
<1>4. DOMAIN r.agg \subseteq Nat /\ \A id \in DOMAIN r.agg : r.agg[id] \in TargetState
  BY <1>1, TableIs
<1>5. \A i \in 1 .. Len(r.requests) : r.requests[i] \in Request
  BY <1>1, ElementOfSeq
<1> QED
  BY <1>1, <1>2, <1>3, <1>4, <1>5

LEMMA ResponseIs ==
    ASSUME NEW m \in Response
    PROVE  /\ m.type # "snapshot" => m.id \in Nat
           /\ m.type = "snapshot" => m.version \in Nat
           /\ m.type \in {"document", "delete"} => m.key \in Docs /\ m.version \in Nat
           /\ m.type = "document" => m.value \in Values
           /\ m.type \in {"added", "removed"} <=> m \in Ack
           /\ m.type \in {"added", "removed", "document", "delete", "current",
                          "filter", "snapshot"}
BY DEF Response, Ack, Sent

LEMMA ResponsesAre ==
    ASSUME NEW w \in Seq(Response)
    PROVE  \A i \in 1 .. Len(w) : /\ w[i] \in Response
                                  /\ w[i].type # "snapshot" => w[i].id \in Nat
<1>1. \A i \in 1 .. Len(w) : w[i] \in Response
  BY ElementOfSeq
<1> QED
  BY <1>1, ResponseIs

(* The documents that wait make no difference to the stream.               *)
LEMMA WaitingKeeps ==
    ASSUME NEW w \in Seq(Response), NEW srv \in Table(Served), NEW synced,
           NEW r \in Remote, Watching(r, w, srv, synced),
           NEW q \in Seq(Docs)
    PROVE  LET s == [r EXCEPT !.waiting = q]
           IN  s \in Remote /\ Watching(s, w, srv, synced)
<1>1. PICK s : s = [r EXCEPT !.waiting = q]
  OBVIOUS
<1>2. /\ s \in Remote /\ s.listens = r.listens /\ s.limbo = r.limbo
      /\ s.next = r.next /\ s.agg = r.agg /\ s.requests = r.requests
  BY <1>1 DEF Remote
<1>3. \A id : StateOf(s, id) = StateOf(r, id)
  BY <1>2 DEF StateOf
<1>4. \A id : KeysIn(s, synced, id) = KeysIn(r, synced, id)
  BY <1>2 DEF KeysIn
<1>5. Numbered(s, w, srv) /\ Paired(s)
  BY <1>2 DEF Watching, Numbered, Paired
<1>6. Pending(s, w)
  BY <1>2, <1>3 DEF Watching, Pending
<1>7. AboutOne(s, w, srv)
  BY <1>2 DEF Watching, AboutOne
<1>8. Fits(s, synced)
  BY <1>2, <1>4 DEF Watching, Fits
<1>9. ~open => Closed(s, w, srv)
  BY <1>2 DEF Watching, Closed
<1> QED
  BY <1>1, <1>2, <1>5, <1>6, <1>7, <1>8, <1>9 DEF Watching

(* A lookup with the next number, before its request.                      *)
LEMMA LookupKeeps ==
    ASSUME NEW w \in Seq(Response), NEW srv \in Table(Served), NEW synced,
           NEW r \in Remote, Watching(r, w, srv, synced),
           NEW k \in Docs, NEW s \in Remote,
           s.limbo = With(r.limbo, r.next, [key |-> k, received |-> FALSE]),
           s.listens = With(r.listens, r.next, 0), s.next = r.next + 1,
           s.agg = r.agg, s.requests = r.requests
    PROVE  Watching(s, w, srv, synced)
<1> DEFINE n == r.next
<1>1. /\ DOMAIN s.listens = DOMAIN r.listens \cup {n}
      /\ DOMAIN s.limbo = DOMAIN r.limbo \cup {n}
      /\ \A id \in DOMAIN r.limbo : id # n => s.limbo[id] = r.limbo[id]
      /\ s.limbo[n].key = k
  BY DEF With
<1>2. n \in Nat /\ n > 0 /\ n # Query
  BY NumbersAre DEF Watching, Numbered, Query
<1>3. /\ \A id \in DOMAIN r.listens \cup DOMAIN r.agg \cup DOMAIN srv :
             id \in Nat /\ id < n
      /\ \A i \in 1 .. Len(r.requests) :
             r.requests[i].id \in Nat /\ r.requests[i].id < n
      /\ \A i \in 1 .. Len(w) : w[i].type # "snapshot" =>
             w[i].id \in Nat /\ w[i].id < n
  <2>1. \A i \in 1 .. Len(r.requests) : r.requests[i].id \in Nat
    BY NumbersAre DEF Request
  <2>2. DOMAIN srv \subseteq Nat
    BY TableIs
  <2> QED
    BY <2>1, <2>2, NumbersAre, ResponsesAre DEF Watching, Numbered
<1>4. n \notin DOMAIN r.listens \cup DOMAIN r.agg \cup DOMAIN srv
  BY <1>2, <1>3
<1>5. Numbered(s, w, srv)
  BY <1>1, <1>2, <1>3 DEF Numbered
<1>6. Paired(s)
  BY <1>1, <1>2 DEF Watching, Paired
<1>7. Pending(s, w)
  <2>1. \A id : StateOf(s, id) = StateOf(r, id)
    BY DEF StateOf
  <2> QED
    BY <2>1 DEF Watching, Pending
<1>8. AboutOne(s, w, srv)
  <2> SUFFICES ASSUME NEW id \in DOMAIN s.limbo
               PROVE  /\ \A i \in 1 .. Len(s.requests) :
                             s.requests[i].id = id =>
                                 s.requests[i].covers \subseteq {s.limbo[id].key}
                      /\ id \in DOMAIN srv =>
                             srv[id].covers \subseteq {s.limbo[id].key}
                      /\ \A i \in 1 .. Len(w) :
                             w[i].type \in {"document", "delete"} /\ w[i].id = id =>
                                 w[i].key = s.limbo[id].key
    BY DEF AboutOne
  <2>1. CASE id = n
    BY <1>2, <1>3, <1>4, <2>1
  <2>2. CASE id # n
    <3>1. id \in DOMAIN r.limbo /\ s.limbo[id] = r.limbo[id]
      BY <1>1, <2>2
    <3> QED
      BY <3>1 DEF Watching, AboutOne
  <2> QED
    BY <2>1, <2>2
<1>9. Fits(s, synced)
  <2> SUFFICES ASSUME NEW id \in DOMAIN r.agg \cap DOMAIN s.listens,
                      r.agg[id].pending = 0, NEW k1 \in Docs
               PROVE  /\ r.agg[id].changes[k1] \in {"modified", "removed"} =>
                             k1 \in KeysIn(s, synced, id)
                      /\ id \in DOMAIN s.limbo /\ r.agg[id].changes[k1] # "none" =>
                             k1 = s.limbo[id].key
    BY DEF Fits
  <2>1. id # n
    BY <1>4
  <2>2. id \in DOMAIN r.listens /\ KeysIn(s, synced, id) = KeysIn(r, synced, id)
    BY <1>1, <2>1 DEF KeysIn
  <2> QED
    BY <1>1, <2>1, <2>2 DEF Watching, Fits
<1>10. ~open => Closed(s, w, srv)
  BY DEF Watching, Closed
<1> QED
  BY <1>5, <1>6, <1>7, <1>8, <1>9, <1>10 DEF Watching

LEMMA PumpKeeps ==
    ASSUME NEW w \in Seq(Response), NEW srv \in Table(Served), NEW synced,
           NEW r \in Remote, Watching(r, w, srv, synced)
    PROVE  Pump(r) \in Remote /\ Watching(Pump(r), w, srv, synced)
<1>1. CASE r.waiting = << >> \/ Cardinality(DOMAIN r.limbo) >= MaxLookups
  BY <1>1 DEF Pump
<1>2. CASE ~(r.waiting = << >> \/ Cardinality(DOMAIN r.limbo) >= MaxLookups)
  <2>1. PICK k : k = Head(r.waiting)
    OBVIOUS
  <2>2. k \in Docs /\ Tail(r.waiting) \in Seq(Docs)
    BY <1>2, <2>1, NumbersAre, TailIs
  <2>3. PICK s : s = [r EXCEPT !.waiting = Tail(@),
                               !.limbo = With(@, r.next, [key |-> k,
                                                          received |-> FALSE]),
                               !.listens = With(@, r.next, 0),
                               !.next = @ + 1]
    OBVIOUS
  <2>4. PICK m : m = Watch(r.next, {k}, 0)
    OBVIOUS
  <2>5. Pump(r) = Send(s, m)
    BY <1>2, <2>1, <2>3, <2>4 DEF Pump
  <2>6. /\ s.waiting = Tail(r.waiting)
        /\ s.limbo = With(r.limbo, r.next, [key |-> k, received |-> FALSE])
        /\ s.listens = With(r.listens, r.next, 0)
        /\ s.next = r.next + 1 /\ s.agg = r.agg /\ s.requests = r.requests
    BY <2>3 DEF Remote
  <2>7. s \in Remote
    <3>1. [key |-> k, received |-> FALSE] \in Lookup
      BY <2>2 DEF Lookup
    <3>2. s.limbo \in Table(Lookup) /\ s.listens \in Table(Nat)
      BY <2>6, <3>1, NumbersAre, WithTable
    <3>3. s.next \in Nat
      BY <2>6, NumbersAre
    <3> QED
      BY <2>2, <2>3, <2>6, <3>2, <3>3 DEF Remote
  <2>8. Watching(s, w, srv, synced)
    BY <2>2, <2>6, <2>7, LookupKeeps
  <2>9. m \in Request /\ m.id = r.next /\ m.covers = {k}
    BY <2>2, <2>4, NumbersAre DEF Watch, Request
  <2>10. m.id < s.next
    BY <2>6, <2>9, NumbersAre
  <2>11. s.limbo[r.next].key = k
    BY <2>6 DEF With
  <2> QED
    BY <2>5, <2>7, <2>8, <2>9, <2>10, <2>11, SendKeeps
<1> QED
  BY <1>1, <1>2

LEMMA TrackedKeeps ==
    ASSUME NEW w \in Seq(Response), NEW srv \in Table(Served), NEW synced,
           NEW r \in Remote, Watching(r, w, srv, synced), NEW k \in Docs
    PROVE  Tracked(r, k) \in Remote /\ Watching(Tracked(r, k), w, srv, synced)
<1>1. CASE LookupsOf(r, k) # {} \/ k \in {r.waiting[i] : i \in DOMAIN r.waiting}
  BY <1>1 DEF Tracked
<1>2. CASE ~(LookupsOf(r, k) # {} \/ k \in {r.waiting[i] : i \in DOMAIN r.waiting})
  <2>1. PICK q : q = Append(r.waiting, k)
    OBVIOUS
  <2>2. PICK s : s = [r EXCEPT !.waiting = q]
    OBVIOUS
  <2>3. q \in Seq(Docs)
    BY <2>1, NumbersAre, AppendIs
  <2>4. s \in Remote /\ Watching(s, w, srv, synced)
    BY <2>2, <2>3, WaitingKeeps
  <2>5. Tracked(r, k) = Pump(s)
    BY <1>2, <2>1, <2>2 DEF Tracked
  <2> QED
    BY <2>4, <2>5, PumpKeeps
<1> QED
  BY <1>1, <1>2

LEMMA DequeuedIs ==
    ASSUME NEW s \in Seq(Docs), NEW k
    PROVE  Dequeued(s, k) \in Seq(Docs)
<1>1. CASE \E i \in DOMAIN s : s[i] = k
  <2>1. PICK i : i = CHOOSE j \in DOMAIN s : s[j] = k
    OBVIOUS
  <2>2. i \in 1 .. Len(s) /\ Len(s) \in Nat
    BY <1>1, <2>1, LenProperties
  <2>3. SubSeq(s, 1, i - 1) \in Seq(Docs) /\ SubSeq(s, i + 1, Len(s)) \in Seq(Docs)
    BY <2>2, SubSeqProperties
  <2>4. Dequeued(s, k) = SubSeq(s, 1, i - 1) \o SubSeq(s, i + 1, Len(s))
    BY <1>1, <2>1 DEF Dequeued, RemoveAt
  <2> QED
    BY <2>3, <2>4, ConcatProperties
<1>2. CASE ~\E i \in DOMAIN s : s[i] = k
  BY <1>2 DEF Dequeued
<1> QED
  BY <1>1, <1>2

(* A lookup that has been taken off.                                       *)
LEMMA TakenOffKeeps ==
    ASSUME NEW w \in Seq(Response), NEW srv \in Table(Served), NEW synced,
           NEW r \in Remote, Watching(r, w, srv, synced),
           NEW id \in DOMAIN r.limbo, NEW s \in Remote,
           s.limbo = Without(r.limbo, id), s.listens = Without(r.listens, id),
           s.next = r.next, s.agg = r.agg, s.requests = r.requests
    PROVE  Watching(s, w, srv, synced)
<1>1. /\ DOMAIN s.listens = DOMAIN r.listens \ {id}
      /\ DOMAIN s.limbo = DOMAIN r.limbo \ {id}
      /\ \A i \in DOMAIN s.limbo : s.limbo[i] = r.limbo[i]
  BY DEF Without
<1>2. id # Query
  BY DEF Watching, Paired
<1>3. Numbered(s, w, srv)
  BY <1>1 DEF Watching, Numbered
<1>4. Paired(s)
  BY <1>1, <1>2 DEF Watching, Paired
<1>5. Pending(s, w)
  <2>1. \A i : StateOf(s, i) = StateOf(r, i)
    BY DEF StateOf
  <2> QED
    BY <2>1 DEF Watching, Pending
<1>6. AboutOne(s, w, srv)
  <2>1. \A i \in DOMAIN s.limbo : i \in DOMAIN r.limbo /\ s.limbo[i] = r.limbo[i]
    BY <1>1
  <2> QED
    BY <2>1 DEF Watching, AboutOne
<1>7. Fits(s, synced)
  <2> SUFFICES ASSUME NEW i \in DOMAIN r.agg \cap DOMAIN s.listens,
                      r.agg[i].pending = 0, NEW k \in Docs
               PROVE  /\ r.agg[i].changes[k] \in {"modified", "removed"} =>
                             k \in KeysIn(s, synced, i)
                      /\ i \in DOMAIN s.limbo /\ r.agg[i].changes[k] # "none" =>
                             k = s.limbo[i].key
    BY DEF Fits
  <2>1. i \in DOMAIN r.listens /\ KeysIn(s, synced, i) = KeysIn(r, synced, i)
    BY <1>1 DEF KeysIn
  <2> QED
    BY <1>1, <2>1 DEF Watching, Fits
<1>8. ~open => Closed(s, w, srv)
  BY DEF Watching, Closed
<1> QED
  BY <1>3, <1>4, <1>5, <1>6, <1>7, <1>8 DEF Watching

LEMMA UntrackedKeeps ==
    ASSUME NEW w \in Seq(Response), NEW srv \in Table(Served), NEW synced,
           NEW r \in Remote, Watching(r, w, srv, synced), NEW k \in Docs
    PROVE  Untracked(r, k) \in Remote /\ Watching(Untracked(r, k), w, srv, synced)
<1>1. PICK s : s = [r EXCEPT !.waiting = Dequeued(@, k)]
  OBVIOUS
<1>2. s \in Remote /\ Watching(s, w, srv, synced)
  <2>1. PICK q \in Seq(Docs) : q = Dequeued(r.waiting, k)
    BY NumbersAre, DequeuedIs
  <2>2. s = [r EXCEPT !.waiting = q]
    BY <1>1, <2>1
  <2> QED
    BY <2>1, <2>2, WaitingKeeps
<1>3. CASE LookupsOf(r, k) = {}
  BY <1>1, <1>2, <1>3 DEF Untracked
<1>4. CASE LookupsOf(r, k) # {}
  <2>1. PICK id : id = CHOOSE i \in LookupsOf(r, k) : TRUE
    OBVIOUS
  <2>2. id \in DOMAIN r.limbo
    BY <1>4, <2>1 DEF LookupsOf
  <2>3. s.limbo = r.limbo /\ s.listens = r.listens
    BY <1>1 DEF Remote
  <2>4. PICK l : l = Without(r.listens, id)
    OBVIOUS
  <2>5. PICK b : b = Without(r.limbo, id)
    OBVIOUS
  <2>6. l \in Table(Nat) /\ b \in Table(Lookup)
    BY <2>4, <2>5, NumbersAre, WithoutTable
  <2>7. PICK m : m = Unwatch(id)
    OBVIOUS
  <2>8. PICK t : t = [s EXCEPT !.listens = l]
    OBVIOUS
  <2>9. PICK u : u = [s EXCEPT !.listens = l, !.limbo = b]
    OBVIOUS
  <2>10. t \in Remote /\ u \in Remote
    BY <1>2, <2>6, <2>8, <2>9 DEF Remote
  <2>11. Watching(u, w, srv, synced)
    <3>1. /\ u.limbo = b /\ u.listens = l /\ u.next = s.next
          /\ u.agg = s.agg /\ u.requests = s.requests
      BY <1>2, <2>9 DEF Remote
    <3> QED
      BY <1>2, <2>2, <2>3, <2>4, <2>5, <2>10, <3>1, TakenOffKeeps
  <2>12. [Send(t, m) EXCEPT !.limbo = b] = Send(u, m)
    <3>1. t.agg = u.agg /\ t.requests = u.requests
      BY <1>2, <2>8, <2>9 DEF Remote
    <3>2. StateOf(t, m.id) = StateOf(u, m.id)
      BY <3>1 DEF StateOf
    <3>3. PICK a : a = With(t.agg, m.id, [StateOf(t, m.id) EXCEPT !.pending = @ + 1])
      OBVIOUS
    <3>4. CASE open
      <4>1. Send(t, m) = [t EXCEPT !.agg = a, !.requests = Append(@, m)]
        BY <3>3, <3>4 DEF Send
      <4>2. Send(u, m) = [u EXCEPT !.agg = a, !.requests = Append(@, m)]
        BY <3>1, <3>2, <3>3, <3>4 DEF Send
      <4> QED
        BY <1>2, <2>8, <2>9, <4>1, <4>2 DEF Remote
    <3>5. CASE ~open
      BY <1>2, <2>8, <2>9, <3>5 DEF Send, Remote
    <3> QED
      BY <3>4, <3>5
  <2>13. Untracked(r, k) = Pump(Send(u, m))
    <3>1. t = [s EXCEPT !.listens = Without(@, id)]
      BY <2>3, <2>4, <2>8
    <3>2. (Send(t, m)).limbo = r.limbo
      BY <2>3, <2>7, <2>8, <2>10, SendIs DEF Send, Remote
    <3>3. [Send(t, m) EXCEPT !.limbo = Without(@, id)] = Send(u, m)
      BY <2>5, <2>12, <3>2
    <3> QED
      BY <1>1, <1>4, <2>1, <2>7, <3>1, <3>3 DEF Untracked
  <2>14. m \in Request /\ m.id = id /\ m.covers = {}
    BY <2>2, <2>7, NumbersAre DEF Unwatch, Request
  <2>15. id < u.next
    BY <1>2, <2>2, <2>3, <2>9 DEF Watching, Numbered, Paired, Remote
  <2>16. Send(u, m) \in Remote /\ Watching(Send(u, m), w, srv, synced)
    BY <2>10, <2>11, <2>14, <2>15, SendKeeps
  <2> QED
    BY <2>13, <2>16, PumpKeeps
<1> QED
  BY <1>3, <1>4

-----------------------------------------------------------------------------
(* Many steps in a row.                                                    *)

(* A set of numbers with a member has a smallest one.                      *)
LEMMA SmallestExists ==
    ASSUME NEW T \in SUBSET Nat, T # {}
    PROVE  \E x \in T : \A y \in T : x <= y
<1>1. IsWellFoundedOn(OpToRel(<, Nat), Nat)
  BY NatLessThanWellFounded
<1>2. \E x \in T : \A y \in T : ~(<<y, x>> \in OpToRel(<, Nat))
  BY <1>1, WFMin
<1>3. \A x, y \in Nat : y < x => <<y, x>> \in OpToRel(<, Nat)
  BY DEF OpToRel
<1>4. \A x, y \in T : ~(y < x) => x <= y
  OBVIOUS
<1> QED
  BY <1>2, <1>3, <1>4

(* The values f of a chain of n steps g that starts with r.                *)
IsChain(f, r, g, n) ==
    /\ f[0] = r
    /\ \A i \in 1 .. n : f[i] = g[i][f[i - 1]]

LEMMA ChainExists ==
    ASSUME NEW S, NEW r \in S, NEW n \in Nat, NEW g \in [1 .. n -> [S -> S]]
    PROVE  \E f \in [0 .. n -> S] : IsChain(f, r, g, n)
<1> DEFINE Has(m) == \E f \in [0 .. m -> S] : IsChain(f, r, g, m)
           T == {m \in 0 .. n : ~Has(m)}
<1>1. SUFFICES ASSUME T # {} PROVE FALSE
  <2>1. n \in 0 .. n
    OBVIOUS
  <2>2. n \notin T => Has(n)
    BY <2>1
  <2> QED
    BY <2>2
<1>2. PICK m \in T : \A y \in T : m <= y
  <2>1. T \in SUBSET Nat
    OBVIOUS
  <2> HIDE DEF T
  <2> QED
    BY <1>1, <2>1, SmallestExists
<1>3. m \in 0 .. n /\ ~Has(m)
  BY <1>2
<1>4. m # 0
  <2>1. Has(0)
    <3>1. PICK f : f = [i \in 0 .. 0 |-> r]
      OBVIOUS
    <3>2. f \in [0 .. 0 -> S] /\ f[0] = r
      BY <3>1
    <3>3. IsChain(f, r, g, 0)
      BY <3>2 DEF IsChain
    <3> QED
      BY <3>2, <3>3
  <2> QED
    BY <1>3, <2>1
<1>5. Has(m - 1)
  <2>1. m - 1 \in 0 .. n /\ m - 1 \notin T
    BY <1>2, <1>3, <1>4
  <2> QED
    BY <2>1
<1>6. PICK f \in [0 .. m - 1 -> S] : IsChain(f, r, g, m - 1)
  BY <1>5
<1>7. PICK h : h = [i \in 0 .. m |-> IF i = m THEN g[m][f[m - 1]] ELSE f[i]]
  OBVIOUS
<1>8. h \in [0 .. m -> S]
  <2>1. m \in 1 .. n /\ m - 1 \in 0 .. m - 1
    BY <1>3, <1>4
  <2>2. g[m][f[m - 1]] \in S
    BY <1>6, <2>1
  <2>3. \A i \in 0 .. m : i # m => f[i] \in S
    BY <1>3, <1>6
  <2> QED
    BY <1>7, <2>2, <2>3
<1>9. IsChain(h, r, g, m)
  <2>1. h[0] = r
    BY <1>3, <1>4, <1>6, <1>7 DEF IsChain
  <2>2. \A i \in 1 .. m : h[i] = g[i][h[i - 1]]
    <3> SUFFICES ASSUME NEW i \in 1 .. m PROVE h[i] = g[i][h[i - 1]]
      OBVIOUS
    <3>1. i - 1 \in 0 .. m /\ i - 1 # m /\ i \in 0 .. m
      BY <1>3
    <3>2. h[i - 1] = f[i - 1]
      BY <1>7, <3>1
    <3>3. CASE i = m
      BY <1>7, <3>1, <3>2, <3>3
    <3>4. CASE i # m
      <4>1. i \in 1 .. m - 1 /\ h[i] = f[i]
        BY <1>3, <1>7, <3>4
      <4> QED
        BY <1>6, <3>2, <4>1 DEF IsChain
    <3> QED
      BY <3>3, <3>4
  <2> QED
    BY <2>1, <2>2 DEF IsChain
<1> QED
  BY <1>3, <1>8, <1>9

(* A set that is closed under the steps has all values of a chain.         *)
LEMMA ChainStays ==
    ASSUME NEW S, NEW r \in S, NEW n \in Nat, NEW f, f[0] = r,
           \A i \in 1 .. n : f[i - 1] \in S => f[i] \in S
    PROVE  f[n] \in S
<1> DEFINE T == {m \in 0 .. n : f[m] \notin S}
<1>1. SUFFICES ASSUME T # {} PROVE FALSE
  OBVIOUS
<1>2. PICK m \in T : \A y \in T : m <= y
  <2>1. T \in SUBSET Nat
    OBVIOUS
  <2> HIDE DEF T
  <2> QED
    BY <1>1, <2>1, SmallestExists
<1>3. m \in 0 .. n /\ f[m] \notin S
  BY <1>2
<1>4. m # 0
  BY <1>3
<1>5. m - 1 \in 0 .. n /\ m - 1 \notin T
  BY <1>2, <1>3, <1>4
<1>6. f[m - 1] \in S
  BY <1>5
<1> QED
  BY <1>3, <1>4, <1>6

(* Stopping and starting lookups, one after the other.                     *)
LEMMA LimboUpdatedIn ==
    ASSUME NEW S, NEW r \in S, NEW old \in SUBSET Docs, NEW new \in SUBSET Docs,
           \A s \in S, k \in Docs : Tracked(s, k) \in S /\ Untracked(s, k) \in S
    PROVE  LimboUpdated(r, old, new) \in S
<1>1. PICK gone : gone = SetToSeq(old \ new)
  OBVIOUS
<1>2. PICK come : come = SetToSeq(new \ old)
  OBVIOUS
<1>3. gone \in Seq(old \ new) /\ come \in Seq(new \ old)
  <2>1. IsFiniteSet(old \ new) /\ IsFiniteSet(new \ old)
    <3>1. old \ new \in SUBSET Docs /\ new \ old \in SUBSET Docs
      OBVIOUS
    <3> QED
      BY <3>1, ViewAssumption, FS_Subset
  <2> QED
    BY <1>1, <1>2, <2>1, SetToSeqIs
<1>4. PICK n : n = Len(gone) + Len(come)
  OBVIOUS
<1>5. n \in Nat /\ Len(gone) \in Nat /\ Len(come) \in Nat
  BY <1>3, <1>4, LenProperties
<1>6. /\ \A i \in 1 .. Len(gone) : gone[i] \in Docs
      /\ \A i \in 1 .. Len(come) : come[i] \in Docs
  <2>1. \A i \in 1 .. Len(gone) : gone[i] \in old \ new
    BY <1>3, ElementOfSeq
  <2>2. \A i \in 1 .. Len(come) : come[i] \in new \ old
    BY <1>3, ElementOfSeq
  <2> QED
    BY <2>1, <2>2
<1> DEFINE StepOf(i, s) == IF i <= Len(gone) THEN Untracked(s, gone[i])
                           ELSE Tracked(s, come[i - Len(gone)])
           After(f) == f = [i \in 0 .. n |-> IF i = 0 THEN r
                                             ELSE StepOf(i, f[i - 1])]
<1>7. \A i \in 1 .. n, s \in S : StepOf(i, s) \in S
  <2> SUFFICES ASSUME NEW i \in 1 .. n, NEW s \in S PROVE StepOf(i, s) \in S
    OBVIOUS
  <2>1. CASE i <= Len(gone)
    BY <1>5, <1>6, <2>1
  <2>2. CASE ~(i <= Len(gone))
    <3>1. i - Len(gone) \in 1 .. Len(come)
      BY <1>4, <1>5, <2>2
    <3> QED
      BY <1>6, <2>2, <3>1
  <2> QED
    BY <2>1, <2>2
<1>8. LimboUpdated(r, old, new) = (CHOOSE f : After(f))[n]
  BY <1>1, <1>2, <1>4 DEF LimboUpdated
<1> HIDE DEF StepOf
<1>9. \E f : After(f)
  <2>1. PICK g : g = [i \in 1 .. n |-> [s \in S |-> StepOf(i, s)]]
    OBVIOUS
  <2>2. g \in [1 .. n -> [S -> S]]
    BY <1>7, <2>1
  <2>3. PICK f \in [0 .. n -> S] : IsChain(f, r, g, n)
    BY <1>5, <2>2, ChainExists
  <2>4. \A i \in 0 .. n : f[i] = IF i = 0 THEN r ELSE StepOf(i, f[i - 1])
    <3> SUFFICES ASSUME NEW i \in 0 .. n, i # 0 PROVE f[i] = StepOf(i, f[i - 1])
      BY <2>3 DEF IsChain
    <3>1. i \in 1 .. n /\ i - 1 \in 0 .. n
      BY <1>5
    <3>2. f[i - 1] \in S
      BY <2>3, <3>1
    <3>3. f[i] = g[i][f[i - 1]]
      BY <2>3, <3>1 DEF IsChain
    <3> QED
      BY <2>1, <3>1, <3>2, <3>3
  <2>5. After(f)
    BY <2>3, <2>4
  <2> QED
    BY <2>5
<1>10. PICK f : f = CHOOSE h : After(h)
  OBVIOUS
<1>11. After(f)
  <2> HIDE DEF After
  <2> QED
    BY <1>9, <1>10
<1>12. f[0] = r /\ \A i \in 1 .. n : f[i - 1] \in S => f[i] \in S
  <2>1. f[0] = r
    BY <1>5, <1>11
  <2>2. \A i \in 1 .. n : f[i] = StepOf(i, f[i - 1])
    BY <1>5, <1>11
  <2> QED
    BY <1>7, <2>1, <2>2
<1> HIDE DEF After
<1>13. f[n] \in S
  BY <1>5, <1>12, ChainStays
<1> QED
  BY <1>8, <1>10, <1>13

LEMMA LimboUpdatedKeeps ==
    ASSUME NEW w \in Seq(Response), NEW srv \in Table(Served), NEW synced,
           NEW r \in Remote, Watching(r, w, srv, synced),
           NEW old \in SUBSET Docs, NEW new \in SUBSET Docs
    PROVE  /\ LimboUpdated(r, old, new) \in Remote
           /\ Watching(LimboUpdated(r, old, new), w, srv, synced)
<1> DEFINE S == {s \in Remote : Watching(s, w, srv, synced)}
<1>1. \A s \in S, k \in Docs : Tracked(s, k) \in S /\ Untracked(s, k) \in S
  BY TrackedKeeps, UntrackedKeeps
<1>2. r \in S
  OBVIOUS
<1> HIDE DEF S
<1>3. LimboUpdated(r, old, new) \in S
  BY <1>1, <1>2, LimboUpdatedIn
<1> QED
  BY <1>3 DEF S

-----------------------------------------------------------------------------
(* The view.                                                               *)

Kind == {"none", "added", "removed", "modified", "metadata"}
Local == [value : Values, local : BOOLEAN, committed : BOOLEAN]

(* A set of numbers with a member and a bound has a largest one.           *)
LEMMA LargestExists ==
    ASSUME NEW T \in SUBSET Nat, NEW n \in Nat,
           T # {}, \A x \in T : x <= n
    PROVE  \E x \in T : \A y \in T : y <= x
<1> DEFINE B == {k \in Nat : \A x \in T : x <= k}
<1>1. PICK k \in B : \A y \in B : k <= y
  <2>1. n \in B /\ B \in SUBSET Nat
    OBVIOUS
  <2> HIDE DEF B
  <2> QED
    BY <2>1, SmallestExists
<1>2. k \in Nat /\ \A x \in T : x <= k
  BY <1>1
<1>3. k \in T
  <2> SUFFICES ASSUME k \notin T
               PROVE  FALSE
    OBVIOUS
  <2>1. PICK x \in T : TRUE
    OBVIOUS
  <2>2. x < k /\ \A y \in T : y < k
    BY <1>2
  <2>3. k - 1 \in B
    BY <1>2, <2>2
  <2> QED
    BY <1>1, <1>2, <2>3
<1> QED
  BY <1>2, <1>3

LEMMA LocalDocIs ==
    ASSUME NEW c \in [Docs -> Cached], NEW q \in Seq(Writes), NEW k \in Docs
    PROVE  LocalDoc(c, q, k) \in Local
<1>1. PICK mine : mine = {i \in DOMAIN q : Where[q[i]] = k}
  OBVIOUS
<1>2. CASE mine # {}
  <2>1. mine \in SUBSET Nat /\ Len(q) \in Nat /\ \A i \in mine : i <= Len(q)
    BY <1>1, LenProperties
  <2>2. \E x \in mine : \A y \in mine : y <= x
    BY <1>2, <2>1, LargestExists
  <2>3. \E x \in mine : \A y \in mine : x >= y
    BY <2>1, <2>2
  <2>4. Max(mine) \in mine
    BY <2>3 DEF Max
  <2>5. q[Max(mine)] \in Writes
    BY <1>1, <2>4, LenProperties
  <2>6. LocalDoc(c, q, k) = [value |-> q[Max(mine)], local |-> TRUE,
                             committed |-> FALSE]
    BY <1>1, <1>2 DEF LocalDoc
  <2> QED
    BY <2>5, <2>6 DEF Local, Values
<1>3. CASE mine = {}
  BY <1>1, <1>3 DEF LocalDoc, Cached, Local
<1> QED
  BY <1>2, <1>3

LEMMA ChangeOfIs ==
    ASSUME NEW v \in View, NEW k \in Docs, NEW d \in Local
    PROVE  /\ ChangeOf(v, k, d) \in Kind
           /\ ChangeOf(v, k, d) = "metadata" => d.value = v.docs[k]
BY DEF ChangeOf, Kind, View, Local

LEMMA ApplyChangesIs ==
    ASSUME NEW v \in View, NEW change \in [Docs -> Kind],
           NEW d \in [Docs -> Local], NEW tc \in TargetChange
    PROVE  LET w == ApplyChanges(v, change, d, tc)
           IN  /\ w \in View /\ w.on
               /\ w.synced = (v.synced \cup tc.added) \ tc.removed
               /\ \A k \in Docs :
                      w.docs[k] = IF change[k] # "none" THEN d[k].value
                                  ELSE v.docs[k]
<1>1. PICK applied \in SUBSET Docs : applied = {k \in Docs : change[k] # "none"}
  OBVIOUS
<1>2. PICK docs : docs = [k \in Docs |-> IF k \in applied THEN d[k].value
                                         ELSE v.docs[k]]
  OBVIOUS
<1>3. PICK mutated : mutated = (v.mutated \ applied)
                                   \cup {k \in applied : d[k].local}
  OBVIOUS
<1>4. PICK synced : synced = (v.synced \cup tc.added) \ tc.removed
  OBVIOUS
<1>5. PICK limbo : limbo = IF tc.current THEN InLimbo(docs, mutated, synced)
                           ELSE v.limbo
  OBVIOUS
<1>6. docs \in [Docs -> Values]
  <2>1. \A k \in Docs : d[k].value \in Values /\ v.docs[k] \in Values
    BY DEF Local, View
  <2> QED
    BY <1>2, <2>1
<1>7. mutated \in SUBSET Docs /\ synced \in SUBSET Docs /\ limbo \in SUBSET Docs
  BY <1>1, <1>3, <1>4, <1>5 DEF View, TargetChange, InLimbo
<1>8. ApplyChanges(v, change, d, tc) =
        [on |-> TRUE, docs |-> docs, mutated |-> mutated, synced |-> synced,
         current |-> tc.current, limbo |-> limbo,
         state |-> IF tc.current /\ limbo = {} THEN "Synced" ELSE "Local"]
  BY <1>1, <1>2, <1>3, <1>4, <1>5 DEF ApplyChanges
<1>9. tc.current \in BOOLEAN
  BY DEF TargetChange
<1>10. ApplyChanges(v, change, d, tc) \in View
  BY <1>6, <1>7, <1>8, <1>9 DEF View
<1> QED
  BY <1>1, <1>2, <1>4, <1>8, <1>10

(* A snapshot told to the listeners: those that had none get all, if the   *)
(* view makes a first event, and the others what changed.                  *)
LEMMA OnViewSnapshotIs ==
    ASSUME ProgramTypes, NEW change \in [Docs -> Kind], NEW v \in View,
           NEW off \in BOOLEAN, OnViewSnapshot(change, v, off)
    PROVE  /\ ProgramTypes'
           /\ opened' = opened
           /\ \A l \in opened \ raised :
                  IF FirstEvent(v, off) THEN l \in raised' /\ shown'[l] = v.docs
                  ELSE l \notin raised'
           /\ \A l \in raised :
                  /\ l \in raised'
                  /\ \A k \in Docs :
                         shown'[l][k] =
                             IF change[k] \in {"added", "modified", "removed"}
                             THEN v.docs[k] ELSE shown[l][k]
<1>1. PICK first : first = IF FirstEvent(v, off) THEN opened \ raised ELSE {}
  OBVIOUS
<1>2. PICK told : told = {k \in Docs : change[k] \in {"added", "modified", "removed"}}
  OBVIOUS
<1>3. /\ raised' = raised \cup first
      /\ opened' = opened
      /\ shown' = [l \in Listeners |->
                      IF l \in first THEN v.docs
                      ELSE IF l \in raised
                           THEN [k \in Docs |-> IF k \in told THEN v.docs[k]
                                                ELSE shown[l][k]]
                           ELSE shown[l]]
  BY <1>1, <1>2, Zenon DEF OnViewSnapshot
<1>4. v.docs \in [Docs -> Values]
  BY DEF View
<1>5. opened' \in SUBSET Listeners /\ raised' \in SUBSET opened'
  BY <1>1, <1>3 DEF ProgramTypes
<1>6. shown' \in [Listeners -> [Docs -> Values]]
  <2>1. \A l \in Listeners : shown'[l] \in [Docs -> Values]
    BY <1>3, <1>4 DEF ProgramTypes
  <2>2. shown' = [l \in Listeners |-> shown'[l]]
    BY <1>3
  <2> QED
    BY <2>1, <2>2
<1>7. raised \subseteq Listeners /\ first \subseteq Listeners
  BY <1>1 DEF ProgramTypes
<1>8. \A l \in opened \ raised :
          IF FirstEvent(v, off) THEN l \in raised' /\ shown'[l] = v.docs
          ELSE l \notin raised'
  BY <1>1, <1>3, <1>7
<1>9. \A l \in raised :
          /\ l \in raised'
          /\ \A k \in Docs : shown'[l][k] = IF k \in told THEN v.docs[k]
                                            ELSE shown[l][k]
  BY <1>1, <1>3, <1>7
<1> QED
  BY <1>2, <1>3, <1>5, <1>6, <1>8, <1>9 DEF ProgramTypes

LEMMA NoTargetChangeIs ==
    ASSUME NEW v \in View
    PROVE  /\ NoTargetChange(v) \in TargetChange
           /\ NoTargetChange(v).added = {} /\ NoTargetChange(v).removed = {}
BY DEF NoTargetChange, TargetChange, View

(* Emitting a snapshot of the view.                                        *)
LEMMA EmitIs ==
    ASSUME Types, NEW ks \in SUBSET Docs, NEW tc \in TargetChange,
           NEW r \in Remote, NEW t \in TargetData,
           cache' \in [Docs -> Cached], queue' \in Seq(Writes),
           offline' \in BOOLEAN, Emit(ks, tc, r, t)
    PROVE  /\ view' \in View /\ view'.on = view.on
           /\ target' \in TargetData
           /\ ProgramTypes' /\ opened' = opened
           /\ ~view.on => remote' = r /\ view' = view
           /\ view.on =>
                  /\ remote' = LimboUpdated(r, view.limbo, view'.limbo)
                  /\ view'.synced = (view.synced \cup tc.added) \ tc.removed
           /\ ListenersAgree /\ (offline' => offline) /\ (~view.on => opened = {})
                  => ListenersAgree'
<1> SUFFICES ASSUME TRUE
             PROVE  /\ view' \in View /\ view'.on = view.on
                    /\ target' \in TargetData
                    /\ ProgramTypes' /\ opened' = opened
                    /\ ~view.on => remote' = r /\ view' = view
                    /\ view.on =>
                        /\ remote' = LimboUpdated(r, view.limbo, view'.limbo)
                        /\ view'.synced = (view.synced \cup tc.added) \ tc.removed
                    /\ ListenersAgree /\ (offline' => offline)
                           /\ (~view.on => opened = {}) => ListenersAgree'
  OBVIOUS
<1>1. view \in View /\ ProgramTypes /\ view.on \in BOOLEAN
  BY DEF Types, ClientTypes, View
<1>2. CASE ~view.on
  <2>1. remote' = r /\ target' = t /\ UNCHANGED <<view, program>>
    BY <1>2, Zenon DEF Emit
  <2>2. view' = view /\ opened' = opened /\ raised' = raised /\ shown' = shown
    BY <2>1 DEF program
  <2>3. ProgramTypes'
    BY <1>1, <2>2 DEF ProgramTypes
  <2>4. opened = {} => ListenersAgree'
    BY <2>2 DEF ListenersAgree
  <2> QED
    BY <1>1, <1>2, <2>1, <2>2, <2>3, <2>4
<1>3. CASE view.on
  <2>1. PICK d : d = [k \in Docs |-> LocalDoc(cache', queue', k)]
    OBVIOUS
  <2>2. PICK change : change = [k \in Docs |-> IF k \in ks THEN ChangeOf(view, k, d[k])
                                               ELSE "none"]
    OBVIOUS
  <2>3. PICK v : v = ApplyChanges(view, change, d, tc)
    OBVIOUS
  <2>4. PICK raises \in BOOLEAN :
            raises <=> v.state # view.state \/ \E k \in Docs : change[k] # "none"
    OBVIOUS
  <2>5. /\ view' = v
        /\ remote' = LimboUpdated(r, view.limbo, v.limbo)
        /\ target' = IF raises /\ v.state = "Synced"
                     THEN [t EXCEPT !.limboFree = t.token] ELSE t
        /\ raises => OnViewSnapshot(change, v, offline')
        /\ ~raises => UNCHANGED program
    BY <1>3, <2>1, <2>2, <2>3, <2>4, Zenon DEF Emit
  <2>6. d \in [Docs -> Local]
    <3>1. \A k \in Docs : LocalDoc(cache', queue', k) \in Local
      BY LocalDocIs
    <3> QED
      BY <2>1, <3>1
  <2>7. /\ change \in [Docs -> Kind]
        /\ \A k \in Docs : change[k] = "metadata" => d[k].value = view.docs[k]
    <3>1. \A k \in Docs : /\ ChangeOf(view, k, d[k]) \in Kind
                          /\ ChangeOf(view, k, d[k]) = "metadata" =>
                                d[k].value = view.docs[k]
      BY <1>1, <2>6, ChangeOfIs
    <3>2. "none" \in Kind /\ "none" # "metadata"
      BY DEF Kind
    <3> QED
      BY <2>2, <3>1, <3>2
  <2>8. /\ v \in View /\ v.on
        /\ v.synced = (view.synced \cup tc.added) \ tc.removed
        /\ \A k \in Docs : v.docs[k] = IF change[k] # "none" THEN d[k].value
                                       ELSE view.docs[k]
    BY <1>1, <2>3, <2>6, <2>7, ApplyChangesIs
  <2>9. view.on = TRUE /\ v.on = TRUE
    BY <1>1, <1>3, <2>8 DEF View
  <2>10. target' \in TargetData
    BY <2>5 DEF TargetData
  <2>11. CASE raises
    <3>1. PICK off \in BOOLEAN : off = offline'
      OBVIOUS
    <3>2. OnViewSnapshot(change, v, off)
      BY <2>5, <2>11, <3>1
    <3>3. /\ ProgramTypes' /\ opened' = opened
          /\ \A l \in opened \ raised :
                 IF FirstEvent(v, off) THEN l \in raised' /\ shown'[l] = v.docs
                 ELSE l \notin raised'
          /\ \A l \in raised :
                 /\ l \in raised'
                 /\ \A k \in Docs :
                        shown'[l][k] =
                            IF change[k] \in {"added", "modified", "removed"}
                            THEN v.docs[k] ELSE shown[l][k]
      BY <1>1, <2>7, <2>8, <3>2, OnViewSnapshotIs
    <3>4. ASSUME ListenersAgree PROVE ListenersAgree'
      <4> SUFFICES ASSUME NEW l \in opened
                   PROVE  IF l \in raised' THEN shown'[l] = v.docs
                          ELSE ~FirstEvent(v, off)
        BY <2>5, <3>1, <3>3 DEF ListenersAgree, FirstEvent
      <4>1. CASE l \notin raised
        BY <3>3, <4>1
      <4>2. CASE l \in raised
        <5>1. shown[l] = view.docs
          BY <3>4, <4>2 DEF ListenersAgree
        <5>2. \A k \in Docs : shown'[l][k] = v.docs[k]
          <6>1. \A k \in Docs : change[k] \in {"none", "metadata", "added",
                                              "modified", "removed"}
            BY <2>7 DEF Kind
          <6> QED
            BY <2>7, <2>8, <3>3, <4>2, <5>1, <6>1
        <5>3. l \in Listeners /\ v.docs \in [Docs -> Values]
          BY <1>1, <2>8 DEF ProgramTypes, View
        <5>4. shown'[l] \in [Docs -> Values]
          BY <3>3, <5>3 DEF ProgramTypes
        <5>5. shown'[l] = v.docs
          BY <5>2, <5>3, <5>4
        <5> QED
          BY <3>3, <4>2, <5>5
      <4> QED
        BY <4>1, <4>2
    <3> QED
      BY <2>5, <2>8, <2>9, <2>10, <3>3, <3>4
  <2>12. CASE ~raises
    <3>1. opened' = opened /\ raised' = raised /\ shown' = shown
      BY <2>5, <2>12 DEF program
    <3>2. ProgramTypes'
      BY <1>1, <3>1 DEF ProgramTypes
    <3>3. v.docs = view.docs /\ v.state = view.state
      <4>1. \A k \in Docs : v.docs[k] = view.docs[k]
        BY <2>4, <2>8, <2>12
      <4>2. v.docs \in [Docs -> Values] /\ view.docs \in [Docs -> Values]
        BY <1>1, <2>8 DEF View
      <4> QED
        BY <2>4, <2>12, <4>1, <4>2
    <3>4. ASSUME ListenersAgree, offline' => offline PROVE ListenersAgree'
      <4> SUFFICES ASSUME NEW l \in opened
                   PROVE  IF l \in raised THEN shown[l] = v.docs
                          ELSE ~FirstEvent(v, offline')
        BY <2>5, <3>1 DEF ListenersAgree, FirstEvent
      <4>1. FirstEvent(v, offline') => FirstEvent(view, offline)
        BY <3>3, <3>4 DEF FirstEvent
      <4> QED
        BY <3>3, <3>4, <4>1 DEF ListenersAgree
    <3> QED
      BY <2>5, <2>8, <2>9, <2>10, <3>1, <3>2, <3>4
  <2> QED
    BY <2>11, <2>12
<1> QED
  BY <1>1, <1>2, <1>3

-----------------------------------------------------------------------------
(* Responses taken from the stream.                                        *)

LEMMA AcksTail ==
    ASSUME NEW w \in Seq(Response), w # << >>, NEW id
    PROVE  Count(w, AcksOf(id)) = Count(Tail(w), AcksOf(id))
                + (IF Head(w) \in Ack /\ Head(w).id = id THEN 1 ELSE 0)
<1>1. Head(w) \in AcksOf(id) <=> Head(w) \in Ack /\ Head(w).id = id
  BY DEF AcksOf
<1> QED
  BY <1>1, CountTail

(* The first response is like all others, and so are those after it.       *)
LEMMA HeadIs ==
    ASSUME NEW w \in Seq(Response), NEW srv \in Table(Served), NEW synced,
           NEW r \in Remote, Watching(r, w, srv, synced), w # << >>
    PROVE  /\ open
           /\ Head(w) \in Response /\ Tail(w) \in Seq(Response)
           /\ Head(w).type # "snapshot" => Head(w).id \in Nat /\ Head(w).id < r.next
           /\ Head(w).type \in {"document", "delete"} =>
                  /\ Head(w).key \in Docs
                  /\ Head(w).id \in DOMAIN r.limbo =>
                         Head(w).key = r.limbo[Head(w).id].key
           /\ Numbered(r, Tail(w), srv) /\ AboutOne(r, Tail(w), srv)
<1>1. /\ Head(w) = w[1] /\ 1 \in 1 .. Len(w) /\ Head(w) \in Response
      /\ Tail(w) \in Seq(Response)
      /\ \A i \in 1 .. Len(Tail(w)) : Tail(w)[i] = w[i + 1] /\ i + 1 \in 1 .. Len(w)
  BY TailIs
<1>2. open
  BY DEF Watching, Closed
<1>3. Head(w).type # "snapshot" => Head(w).id \in Nat /\ Head(w).id < r.next
  BY <1>1, ResponseIs DEF Watching, Numbered
<1>4. Head(w).type \in {"document", "delete"} =>
          /\ Head(w).key \in Docs
          /\ Head(w).id \in DOMAIN r.limbo =>
                 Head(w).key = r.limbo[Head(w).id].key
  BY <1>1, ResponseIs DEF Watching, AboutOne
<1>5. Numbered(r, Tail(w), srv)
  BY <1>1 DEF Watching, Numbered
<1>6. AboutOne(r, Tail(w), srv)
  BY <1>1 DEF Watching, AboutOne
<1> QED
  BY <1>1, <1>2, <1>3, <1>4, <1>5, <1>6

(* A response that is no acknowledgement may be ignored.                   *)
LEMMA IgnoredKeeps ==
    ASSUME NEW w \in Seq(Response), NEW srv \in Table(Served), NEW synced,
           NEW r \in Remote, Watching(r, w, srv, synced), w # << >>,
           Head(w) \notin Ack
    PROVE  Watching(r, Tail(w), srv, synced)
<1>1. Pending(r, Tail(w))
  <2> SUFFICES ASSUME NEW id \in Nat
               PROVE  StateOf(r, id).pending =
                        Count(r.requests, RequestsOf(id))
                            + Count(Tail(w), AcksOf(id))
    BY DEF Pending
  <2>1. Count(Tail(w), AcksOf(id)) \in Nat
    BY HeadIs, PlacesFinite
  <2>2. Count(w, AcksOf(id)) = Count(Tail(w), AcksOf(id))
    BY <2>1, AcksTail
  <2> QED
    BY <2>2 DEF Watching, Pending
<1> QED
  BY <1>1, HeadIs DEF Watching

(* The state of the target the first response is about changes; the        *)
(* acknowledgement, if it is one, is no longer pending.                    *)
Suits(st, r, synced, id) ==
    id \in DOMAIN r.listens /\ st.pending = 0 =>
        \A k \in Docs :
            /\ st.changes[k] \in {"modified", "removed"} =>
                   k \in KeysIn(r, synced, id)
            /\ id \in DOMAIN r.limbo /\ st.changes[k] # "none" =>
                   k = r.limbo[id].key

LEMMA StateKeeps ==
    ASSUME NEW w \in Seq(Response), NEW srv \in Table(Served), NEW synced,
           NEW r \in Remote, Watching(r, w, srv, synced), w # << >>,
           NEW id \in Nat, Head(w).type # "snapshot", id = Head(w).id,
           NEW st \in TargetState, Suits(st, r, synced, id),
           st.pending = StateOf(r, id).pending - (IF Head(w) \in Ack THEN 1 ELSE 0),
           NEW s, s = [r EXCEPT !.agg = With(@, id, st)]
    PROVE  /\ s \in Remote /\ s.listens = r.listens
           /\ Watching(s, Tail(w), srv, synced)
<1>1. PICK a : a = With(r.agg, id, st)
  OBVIOUS
<1>2. s = [r EXCEPT !.agg = a]
  BY <1>1
<1>3. /\ a \in Table(TargetState) /\ DOMAIN a = DOMAIN r.agg \cup {id}
      /\ a[id] = st
      /\ \A i \in DOMAIN r.agg : i # id => a[i] = r.agg[i]
  <2>1. a \in Table(TargetState)
    BY <1>1, NumbersAre, WithTable
  <2> QED
    BY <1>1, <2>1 DEF With
<1>4. /\ s \in Remote /\ s.listens = r.listens /\ s.limbo = r.limbo
      /\ s.next = r.next /\ s.agg = a /\ s.requests = r.requests
  BY <1>2, <1>3 DEF Remote
<1>5. open /\ Tail(w) \in Seq(Response)
  BY HeadIs
<1>6. Numbered(s, Tail(w), srv)
  <2>1. id < r.next /\ Numbered(r, Tail(w), srv)
    BY HeadIs
  <2> QED
    BY <1>3, <1>4, <2>1 DEF Numbered
<1>7. Paired(s)
  BY <1>4 DEF Watching, Paired
<1>8. Pending(s, Tail(w))
  <2> SUFFICES ASSUME NEW i \in Nat
               PROVE  StateOf(s, i).pending =
                        Count(r.requests, RequestsOf(i))
                            + Count(Tail(w), AcksOf(i))
    BY <1>4 DEF Pending
  <2>1. /\ Count(Tail(w), AcksOf(i)) \in Nat
        /\ Count(r.requests, RequestsOf(i)) \in Nat
    BY <1>5, NumbersAre, PlacesFinite
  <2>2. Count(w, AcksOf(i)) = Count(Tail(w), AcksOf(i))
            + (IF Head(w) \in Ack /\ Head(w).id = i THEN 1 ELSE 0)
    BY AcksTail
  <2>3. StateOf(r, i).pending =
            Count(r.requests, RequestsOf(i)) + Count(w, AcksOf(i))
    BY DEF Watching, Pending
  <2>4. CASE i = id
    <3>1. StateOf(s, i) = st
      BY <1>3, <1>4, <2>4 DEF StateOf
    <3> QED
      BY <2>1, <2>2, <2>3, <2>4, <3>1
  <2>5. CASE i # id
    <3>1. StateOf(s, i) = StateOf(r, i)
      BY <1>3, <1>4, <2>5 DEF StateOf
    <3> QED
      BY <2>1, <2>2, <2>3, <2>5, <3>1
  <2> QED
    BY <2>4, <2>5
<1>9. AboutOne(s, Tail(w), srv)
  <2>1. AboutOne(r, Tail(w), srv)
    BY HeadIs
  <2> QED
    BY <1>4, <2>1 DEF AboutOne
<1>10. Fits(s, synced)
  <2> SUFFICES ASSUME NEW i \in DOMAIN s.agg \cap DOMAIN r.listens,
                      s.agg[i].pending = 0, NEW k \in Docs
               PROVE  /\ s.agg[i].changes[k] \in {"modified", "removed"} =>
                             k \in KeysIn(s, synced, i)
                      /\ i \in DOMAIN r.limbo /\ s.agg[i].changes[k] # "none" =>
                             k = r.limbo[i].key
    BY <1>4 DEF Fits
  <2>1. KeysIn(s, synced, i) = KeysIn(r, synced, i)
    BY <1>4 DEF KeysIn
  <2>2. CASE i = id
    BY <1>3, <1>4, <2>1, <2>2 DEF Suits
  <2>3. CASE i # id
    <3>1. i \in DOMAIN r.agg /\ s.agg[i] = r.agg[i]
      BY <1>3, <1>4, <2>3
    <3> QED
      BY <2>1, <3>1 DEF Watching, Fits
  <2> QED
    BY <2>2, <2>3
<1>11. Watching(s, Tail(w), srv, synced)
  BY <1>5, <1>6, <1>7, <1>8, <1>9, <1>10 DEF Watching
<1> QED
  BY <1>4, <1>11

(* The last acknowledgement of a target that was stopped drops its state.  *)
LEMMA DroppedKeeps ==
    ASSUME NEW w \in Seq(Response), NEW srv \in Table(Served), NEW synced,
           NEW r \in Remote, Watching(r, w, srv, synced), w # << >>,
           NEW id \in Nat, Head(w) \in Ack, id = Head(w).id,
           StateOf(r, id).pending - 1 = 0,
           NEW s, s = [r EXCEPT !.agg = Without(@, id)]
    PROVE  /\ s \in Remote /\ s.listens = r.listens
           /\ Watching(s, Tail(w), srv, synced)
<1>1. PICK a : a = Without(r.agg, id)
  OBVIOUS
<1>2. s = [r EXCEPT !.agg = a]
  BY <1>1
<1>3. /\ a \in Table(TargetState) /\ DOMAIN a = DOMAIN r.agg \ {id}
      /\ \A i \in DOMAIN a : a[i] = r.agg[i]
  <2>1. a \in Table(TargetState)
    BY <1>1, NumbersAre, WithoutTable
  <2> QED
    BY <1>1, <2>1 DEF Without
<1>4. /\ s \in Remote /\ s.listens = r.listens /\ s.limbo = r.limbo
      /\ s.next = r.next /\ s.agg = a /\ s.requests = r.requests
  BY <1>2, <1>3 DEF Remote
<1>5. open /\ Tail(w) \in Seq(Response)
  BY HeadIs
<1>6. Numbered(s, Tail(w), srv)
  <2>1. Numbered(r, Tail(w), srv)
    BY HeadIs
  <2> QED
    BY <1>3, <1>4, <2>1 DEF Numbered
<1>7. Paired(s)
  BY <1>4 DEF Watching, Paired
<1>8. Pending(s, Tail(w))
  <2> SUFFICES ASSUME NEW i \in Nat
               PROVE  StateOf(s, i).pending =
                        Count(r.requests, RequestsOf(i))
                            + Count(Tail(w), AcksOf(i))
    BY <1>4 DEF Pending
  <2>1. /\ Count(Tail(w), AcksOf(i)) \in Nat
        /\ Count(r.requests, RequestsOf(i)) \in Nat
    BY <1>5, NumbersAre, PlacesFinite
  <2>2. Count(w, AcksOf(i)) = Count(Tail(w), AcksOf(i))
            + (IF Head(w) \in Ack /\ Head(w).id = i THEN 1 ELSE 0)
    BY AcksTail
  <2>3. StateOf(r, i).pending =
            Count(r.requests, RequestsOf(i)) + Count(w, AcksOf(i))
    BY DEF Watching, Pending
  <2>4. CASE i = id
    <3>1. StateOf(s, i).pending = 0
      BY <1>3, <1>4, <2>4, FreshIs DEF StateOf
    <3>2. StateOf(r, i).pending \in Int
      BY StateIs DEF TargetState
    <3> QED
      BY <2>1, <2>2, <2>3, <2>4, <3>1, <3>2
  <2>5. CASE i # id
    <3>1. StateOf(s, i) = StateOf(r, i)
      BY <1>3, <1>4, <2>5 DEF StateOf
    <3> QED
      BY <2>1, <2>2, <2>3, <2>5, <3>1
  <2> QED
    BY <2>4, <2>5
<1>9. AboutOne(s, Tail(w), srv)
  <2>1. AboutOne(r, Tail(w), srv)
    BY HeadIs
  <2> QED
    BY <1>4, <2>1 DEF AboutOne
<1>10. Fits(s, synced)
  <2> SUFFICES ASSUME NEW i \in DOMAIN s.agg \cap DOMAIN r.listens,
                      s.agg[i].pending = 0, NEW k \in Docs
               PROVE  /\ s.agg[i].changes[k] \in {"modified", "removed"} =>
                             k \in KeysIn(s, synced, i)
                      /\ i \in DOMAIN r.limbo /\ s.agg[i].changes[k] # "none" =>
                             k = r.limbo[i].key
    BY <1>4 DEF Fits
  <2>1. KeysIn(s, synced, i) = KeysIn(r, synced, i)
    BY <1>4 DEF KeysIn
  <2>2. i \in DOMAIN r.agg /\ s.agg[i] = r.agg[i]
    BY <1>3, <1>4
  <2> QED
    BY <2>1, <2>2 DEF Watching, Fits
<1>11. Watching(s, Tail(w), srv, synced)
  BY <1>5, <1>6, <1>7, <1>8, <1>9, <1>10 DEF Watching
<1> QED
  BY <1>4, <1>11

-----------------------------------------------------------------------------
(* The steps.                                                              *)

(* Nobody who has no event yet would get one of the same view.             *)
LEMMA SameView ==
    ASSUME ListenersAgree, UNCHANGED <<view, program>>, offline' => offline
    PROVE  ListenersAgree'
<1>1. view' = view /\ opened' = opened /\ raised' = raised /\ shown' = shown
  BY DEF program
<1>2. FirstEvent(view, offline') => FirstEvent(view, offline)
  BY DEF FirstEvent
<1> QED
  BY <1>1, <1>2 DEF ListenersAgree, FirstEvent

(* A response is taken that leaves the view and the disk alone.            *)
LEMMA QuietTake ==
    ASSUME ReadInv, NEW type, Takes(type), Quietly,
           remote' \in Remote, remote'.listens = remote.listens,
           updates' \in [Docs -> Seq(Update)], resets' \in SUBSET {Query},
           Watching(remote', Tail(wire), served, view.synced)
    PROVE  ReadInv'
<1>1. /\ wire # << >> /\ wire' = Tail(wire) /\ offline' = FALSE
      /\ history' = history /\ served' = served /\ answers' = answers
      /\ open' = open
  BY DEF Takes, server
<1>2. /\ queue' = queue /\ cache' = cache /\ keys' = keys /\ saved' = saved
      /\ last' = last /\ target' = target /\ view' = view
      /\ opened' = opened /\ raised' = raised /\ shown' = shown
      /\ resetting' = resetting
  BY DEF Quietly, disk, program
<1>3. wire \in Seq(Response)
  BY DEF ReadInv, Types, ServerTypes
<1>4. wire' \in Seq(Response)
  BY <1>1, <1>3, TailIs
<1>5. Types'
  BY <1>1, <1>2, <1>4
     DEF ReadInv, Types, ServerTypes, DiskTypes, ClientTypes, ProgramTypes
<1>6. Watching(remote, wire, served, view.synced)'
  BY <1>1, <1>2 DEF Watching
<1>7. InOrder'
  <2>1. /\ Len(wire) \in Nat /\ Len(Tail(wire)) = Len(wire) - 1
        /\ \A i \in 1 .. Len(Tail(wire)) : Tail(wire)[i] = wire[i + 1]
                                           /\ i + 1 \in 1 .. Len(wire)
    BY <1>1, <1>3, TailIs
  <2> QED
    BY <1>1, <1>2, <2>1 DEF ReadInv, InOrder, Clock
<1>8. ViewFirst'
  BY <1>1, <1>2 DEF ReadInv, ViewFirst
<1>9. ListenersAgree'
  <2>1. UNCHANGED <<view, program>>
    BY <1>2 DEF program
  <2> QED
    BY <1>1, <2>1, SameView DEF ReadInv
<1> QED
  BY <1>5, <1>6, <1>7, <1>8, <1>9 DEF ReadInv

LEMMA ReadFacts ==
    ASSUME ReadInv
    PROVE  /\ remote \in Remote /\ wire \in Seq(Response)
           /\ served \in Table(Served) /\ updates \in [Docs -> Seq(Update)]
           /\ resets \in SUBSET {Query} /\ view \in View /\ open \in BOOLEAN
           /\ Watching(remote, wire, served, view.synced)
BY DEF ReadInv, Types, ServerTypes, ClientTypes

LEMMA KeysAre ==
    ASSUME NEW id
    PROVE  RemoteKeys(id) = KeysIn(remote, view.synced, id)
BY DEF RemoteKeys, KeysIn

(* A response about a target changes its state, or is its last             *)
(* acknowledgement.                                                        *)
LEMMA StateTaken ==
    ASSUME ReadInv, NEW type, Takes(type), type # "snapshot", Quietly,
           NEW st \in TargetState, SetState(Head(wire).id, st),
           Suits(st, remote, view.synced, Head(wire).id),
           st.pending = StateOf(remote, Head(wire).id).pending
                            - (IF Head(wire) \in Ack THEN 1 ELSE 0),
           updates' \in [Docs -> Seq(Update)], resets' \in SUBSET {Query}
    PROVE  ReadInv'
<1>1. wire # << >> /\ Head(wire).type # "snapshot"
  BY DEF Takes
<1>2. PICK r \in Remote : r = remote
  BY ReadFacts
<1>3. PICK w \in Seq(Response) : w = wire
  BY ReadFacts
<1>4. PICK srv \in Table(Served) : srv = served
  BY ReadFacts
<1>5. PICK synced : synced = view.synced
  OBVIOUS
<1>6. Watching(r, w, srv, synced) /\ w # << >>
  BY <1>1, <1>2, <1>3, <1>4, <1>5, ReadFacts
<1>7. PICK id \in Nat : id = Head(w).id
  BY <1>1, <1>3, <1>6, HeadIs
<1>8. PICK s : s = remote'
  OBVIOUS
<1>9. s = [r EXCEPT !.agg = With(@, id, st)]
  BY <1>2, <1>3, <1>7, <1>8 DEF SetState
<1>10. /\ Suits(st, r, synced, id) /\ Head(w).type # "snapshot"
       /\ st.pending = StateOf(r, id).pending
                            - (IF Head(w) \in Ack THEN 1 ELSE 0)
  BY <1>1, <1>2, <1>3, <1>5, <1>7
<1>11. /\ s \in Remote /\ s.listens = r.listens
       /\ Watching(s, Tail(w), srv, synced)
  BY <1>6, <1>7, <1>9, <1>10, StateKeeps
<1>12. /\ remote' \in Remote /\ remote'.listens = remote.listens
       /\ Watching(remote', Tail(wire), served, view.synced)
  BY <1>2, <1>3, <1>4, <1>5, <1>8, <1>11
<1> QED
  BY <1>12, QuietTake

LEMMA DroppedTaken ==
    ASSUME ReadInv, NEW type, Takes(type), Quietly, UNCHANGED <<updates, resets>>,
           Head(wire) \in Ack, Head(wire).id \in Nat,
           StateOf(remote, Head(wire).id).pending - 1 = 0,
           remote' = [remote EXCEPT !.agg = Without(@, Head(wire).id)]
    PROVE  ReadInv'
<1>1. wire # << >>
  BY DEF Takes
<1>2. PICK r \in Remote : r = remote
  BY ReadFacts
<1>3. PICK w \in Seq(Response) : w = wire
  BY ReadFacts
<1>4. PICK srv \in Table(Served) : srv = served
  BY ReadFacts
<1>5. PICK synced : synced = view.synced
  OBVIOUS
<1>6. Watching(r, w, srv, synced) /\ w # << >>
  BY <1>1, <1>2, <1>3, <1>4, <1>5, ReadFacts
<1>7. PICK id \in Nat : id = Head(w).id
  BY <1>3
<1>8. PICK s : s = remote'
  OBVIOUS
<1>9. s = [r EXCEPT !.agg = Without(@, id)]
  BY <1>2, <1>3, <1>7, <1>8
<1>10. Head(w) \in Ack /\ StateOf(r, id).pending - 1 = 0
  BY <1>2, <1>3, <1>7
<1>11. /\ s \in Remote /\ s.listens = r.listens
       /\ Watching(s, Tail(w), srv, synced)
  BY <1>6, <1>7, <1>9, <1>10, DroppedKeeps
<1>12. /\ remote' \in Remote /\ remote'.listens = remote.listens
       /\ Watching(remote', Tail(wire), served, view.synced)
  BY <1>2, <1>3, <1>4, <1>5, <1>8, <1>11
<1> QED
  BY <1>12, ReadFacts, QuietTake

(* The first response.                                                     *)
LEMMA FirstIs ==
    ASSUME ReadInv, wire # << >>
    PROVE  /\ open
           /\ Head(wire) \in Response /\ Tail(wire) \in Seq(Response)
           /\ Head(wire).type # "snapshot" => Head(wire).id \in Nat
           /\ Head(wire).type \in {"document", "delete"} =>
                  /\ Head(wire).key \in Docs
                  /\ Head(wire).id \in DOMAIN remote.limbo =>
                         Head(wire).key = remote.limbo[Head(wire).id].key
<1>1. PICK r \in Remote : r = remote
  BY ReadFacts
<1>2. PICK w \in Seq(Response) : w = wire
  BY ReadFacts
<1>3. PICK srv \in Table(Served) : srv = served
  BY ReadFacts
<1>4. PICK synced : synced = view.synced
  OBVIOUS
<1>5. Watching(r, w, srv, synced) /\ w # << >>
  BY <1>1, <1>2, <1>3, <1>4, ReadFacts
<1> QED
  BY <1>1, <1>2, <1>5, HeadIs

LEMMA AckTaken ==
    ASSUME ReadInv, wire # << >>, Head(wire).type \in {"added", "removed"}
    PROVE  Head(wire) \in Ack /\ Head(wire).id \in Nat
BY FirstIs, ResponseIs

LEMMA TargetAddedStep == ReadInv /\ OnTargetAdded => ReadInv'
<1> SUFFICES ASSUME ReadInv, OnTargetAdded PROVE ReadInv'
  OBVIOUS
<1>1. /\ Takes("added") /\ wire # << >> /\ Head(wire).type = "added"
      /\ UNCHANGED <<updates, resets>> /\ Quietly
  BY DEF OnTargetAdded, Takes
<1>2. PICK m : m = Head(wire)
  OBVIOUS
<1>3. PICK s : s = [StateOf(remote, m.id) EXCEPT !.pending = @ - 1]
  OBVIOUS
<1>4. PICK st : st = IF s.pending = 0 THEN [s EXCEPT !.changes = Untouched] ELSE s
  OBVIOUS
<1>5. SetState(m.id, st)
  BY <1>2, <1>3, <1>4 DEF OnTargetAdded
<1>6. m \in Ack /\ m.id \in Nat
  BY <1>1, <1>2, AckTaken
<1>7. StateOf(remote, m.id) \in TargetState
  BY <1>6, ReadFacts, StateIs
<1>8. st \in TargetState /\ st.pending = StateOf(remote, m.id).pending - 1
  <2>1. s \in TargetState /\ s.pending = StateOf(remote, m.id).pending - 1
    BY <1>3, <1>7 DEF TargetState
  <2>2. Untouched \in [Docs -> Change]
    BY DEF Untouched, Change
  <2> QED
    BY <1>4, <2>1, <2>2 DEF TargetState
<1>9. Suits(st, remote, view.synced, m.id)
  BY <1>3, <1>4, <1>7, <1>8 DEF TargetState, Untouched, Suits
<1>10. st.pending = StateOf(remote, m.id).pending - (IF m \in Ack THEN 1 ELSE 0)
  BY <1>6, <1>8
<1> QED
  BY <1>1, <1>2, <1>5, <1>8, <1>9, <1>10, ReadFacts, StateTaken

LEMMA TargetRemovedStep == ReadInv /\ OnTargetRemoved => ReadInv'
<1> SUFFICES ASSUME ReadInv, OnTargetRemoved PROVE ReadInv'
  OBVIOUS
<1>1. /\ Takes("removed") /\ wire # << >> /\ Head(wire).type = "removed"
      /\ UNCHANGED <<updates, resets>> /\ Quietly
  BY DEF OnTargetRemoved, Takes
<1>2. PICK m : m = Head(wire)
  OBVIOUS
<1>3. PICK s : s = [StateOf(remote, m.id) EXCEPT !.pending = @ - 1]
  OBVIOUS
<1>4. m \in Ack /\ m.id \in Nat
  BY <1>1, <1>2, AckTaken
<1>5. s \in TargetState /\ s.pending = StateOf(remote, m.id).pending - 1
  <2>1. StateOf(remote, m.id) \in TargetState
    BY <1>4, ReadFacts, StateIs
  <2> QED
    BY <1>3, <2>1 DEF TargetState
<1>6. CASE s.pending = 0
  <2>1. remote' = [remote EXCEPT !.agg = Without(@, m.id)]
    BY <1>2, <1>3, <1>6 DEF OnTargetRemoved
  <2> QED
    BY <1>1, <1>2, <1>4, <1>5, <1>6, <2>1, DroppedTaken
<1>7. CASE s.pending # 0
  <2>1. SetState(m.id, s)
    BY <1>2, <1>3, <1>7 DEF OnTargetRemoved
  <2>2. Suits(s, remote, view.synced, m.id)
    BY <1>7 DEF Suits
  <2>3. s.pending = StateOf(remote, m.id).pending - (IF m \in Ack THEN 1 ELSE 0)
    BY <1>4, <1>5
  <2> QED
    BY <1>1, <1>2, <1>5, <2>1, <2>2, <2>3, ReadFacts, StateTaken
<1> QED
  BY <1>6, <1>7

LEMMA NotAck ==
    ASSUME ReadInv, wire # << >>,
           Head(wire).type \in {"current", "document", "delete", "filter", "snapshot"}
    PROVE  Head(wire) \notin Ack
BY FirstIs, ResponseIs

(* A response about a target that is not active is ignored.                *)
LEMMA IgnoredTaken ==
    ASSUME ReadInv, NEW type, Takes(type), Quietly, Head(wire) \notin Ack,
           UNCHANGED <<remote, updates, resets>>
    PROVE  ReadInv'
<1>1. wire # << >>
  BY DEF Takes
<1>2. PICK r \in Remote : r = remote
  BY ReadFacts
<1>3. PICK w \in Seq(Response) : w = wire
  BY ReadFacts
<1>4. PICK srv \in Table(Served) : srv = served
  BY ReadFacts
<1>5. PICK synced : synced = view.synced
  OBVIOUS
<1>6. Watching(r, w, srv, synced) /\ w # << >> /\ Head(w) \notin Ack
  BY <1>1, <1>2, <1>3, <1>4, <1>5, ReadFacts
<1>7. Watching(r, Tail(w), srv, synced)
  BY <1>6, IgnoredKeeps
<1>8. Watching(remote', Tail(wire), served, view.synced)
  BY <1>2, <1>3, <1>4, <1>5, <1>7
<1> QED
  BY <1>8, ReadFacts, QuietTake

(* The state an active target has suits it.                                *)
LEMMA ActiveState ==
    ASSUME ReadInv, NEW id \in Nat, IsActive(id)
    PROVE  /\ StateOf(remote, id) \in TargetState
           /\ StateOf(remote, id).pending = 0
           /\ id \in DOMAIN remote.listens
           /\ Suits(StateOf(remote, id), remote, view.synced, id)
           /\ id # Query => id \in DOMAIN remote.limbo
           /\ Query \notin DOMAIN remote.limbo
           /\ id \in DOMAIN remote.limbo => remote.limbo[id].key \in Docs
<1>1. StateOf(remote, id) \in TargetState
  BY ReadFacts, StateIs
<1>2. StateOf(remote, id).pending = 0 /\ id \in DOMAIN remote.listens
  BY DEF IsActive
<1>3. Fits(remote, view.synced) /\ Paired(remote)
  BY ReadFacts DEF Watching
<1>4. CASE id \in DOMAIN remote.agg
  <2>1. StateOf(remote, id) = remote.agg[id]
    BY <1>4 DEF StateOf
  <2>2. Suits(remote.agg[id], remote, view.synced, id)
    BY <1>2, <1>3, <1>4, <2>1 DEF Fits, Suits
  <2> QED
    BY <1>1, <1>2, <1>3, <2>1, <2>2, ReadFacts, NumbersAre DEF Paired, Lookup
<1>5. CASE id \notin DOMAIN remote.agg
  <2>1. StateOf(remote, id) = Fresh
    BY <1>5 DEF StateOf
  <2>2. \A k \in Docs : Fresh.changes[k] = "none"
    BY DEF Fresh, Untouched
  <2>3. Suits(Fresh, remote, view.synced, id)
    BY <2>2 DEF Suits
  <2> QED
    BY <1>1, <1>2, <1>3, <2>1, <2>3, ReadFacts, NumbersAre DEF Paired, Lookup
<1> QED
  BY <1>4, <1>5

LEMMA TargetCurrentStep == ReadInv /\ OnTargetCurrent => ReadInv'
<1> SUFFICES ASSUME ReadInv, OnTargetCurrent PROVE ReadInv'
  OBVIOUS
<1>1. /\ Takes("current") /\ wire # << >> /\ Head(wire).type = "current"
      /\ UNCHANGED <<updates, resets>> /\ Quietly
  BY DEF OnTargetCurrent, Takes
<1>2. PICK m : m = Head(wire)
  OBVIOUS
<1>3. m \notin Ack /\ m.id \in Nat
  BY <1>1, <1>2, NotAck, FirstIs
<1>4. CASE IsActive(m.id)
  <2>1. PICK st : st = [StateOf(remote, m.id) EXCEPT !.current = TRUE]
    OBVIOUS
  <2>2. SetState(m.id, st)
    BY <1>2, <1>4, <2>1 DEF OnTargetCurrent
  <2>3. /\ StateOf(remote, m.id) \in TargetState
        /\ Suits(StateOf(remote, m.id), remote, view.synced, m.id)
    BY <1>3, <1>4, ActiveState
  <2>4. /\ st \in TargetState
        /\ st.pending = StateOf(remote, m.id).pending
        /\ st.changes = StateOf(remote, m.id).changes
    BY <2>1, <2>3 DEF TargetState
  <2>5. Suits(st, remote, view.synced, m.id)
    BY <2>3, <2>4 DEF Suits
  <2>6. st.pending = StateOf(remote, m.id).pending - (IF m \in Ack THEN 1 ELSE 0)
    BY <1>3, <2>3, <2>4 DEF TargetState
  <2> QED
    BY <1>1, <1>2, <2>2, <2>4, <2>5, <2>6, ReadFacts, StateTaken
<1>5. CASE ~IsActive(m.id)
  <2>1. UNCHANGED remote
    BY <1>2, <1>5 DEF OnTargetCurrent
  <2> QED
    BY <1>1, <1>2, <1>3, <2>1, IgnoredTaken
<1> QED
  BY <1>4, <1>5

(* A document of an active target changes.                                 *)
LEMMA ChangeTaken ==
    ASSUME ReadInv, NEW type, Takes(type), type # "snapshot", Quietly,
           Head(wire) \notin Ack, NEW id \in Nat, id = Head(wire).id,
           IsActive(id), NEW k \in Docs, NEW kind \in Change,
           id \in DOMAIN remote.limbo => k = remote.limbo[id].key,
           kind \in {"modified", "removed"} => k \in RemoteKeys(id),
           SetState(id, [StateOf(remote, id) EXCEPT !.changes[k] = kind]),
           updates' \in [Docs -> Seq(Update)], resets' \in SUBSET {Query}
    PROVE  ReadInv'
<1>1. PICK st : st = [StateOf(remote, id) EXCEPT !.changes[k] = kind]
  OBVIOUS
<1>2. /\ StateOf(remote, id) \in TargetState
      /\ StateOf(remote, id).pending = 0 /\ id \in DOMAIN remote.listens
      /\ Suits(StateOf(remote, id), remote, view.synced, id)
  BY ActiveState
<1>3. /\ st \in TargetState
      /\ st.pending = StateOf(remote, id).pending
      /\ \A j \in Docs : st.changes[j] = IF j = k THEN kind
                                         ELSE StateOf(remote, id).changes[j]
  BY <1>1, <1>2 DEF TargetState
<1>4. Suits(st, remote, view.synced, id)
  BY <1>2, <1>3, KeysAre DEF Suits
<1>5. st.pending = StateOf(remote, id).pending - (IF Head(wire) \in Ack THEN 1 ELSE 0)
  BY <1>2, <1>3
<1>6. SetState(Head(wire).id, st)
  BY <1>1
<1> QED
  BY <1>3, <1>4, <1>5, <1>6, StateTaken

LEMMA UpdateIs ==
    ASSUME ReadInv, NEW k \in Docs, NEW u \in Update
    PROVE  [updates EXCEPT ![k] = <<u>>] \in [Docs -> Seq(Update)]
BY ReadFacts

LEMMA DocumentStep == ReadInv /\ OnDocument => ReadInv'
<1> SUFFICES ASSUME ReadInv, OnDocument PROVE ReadInv'
  OBVIOUS
<1>1. /\ Takes("document") /\ wire # << >> /\ Head(wire).type = "document"
      /\ UNCHANGED resets /\ Quietly
  BY DEF OnDocument, Takes
<1>2. PICK m : m = Head(wire)
  OBVIOUS
<1>3. /\ m \notin Ack /\ m.id \in Nat /\ m.key \in Docs
      /\ m.version \in Nat /\ m.value \in Values
      /\ m.id \in DOMAIN remote.limbo => m.key = remote.limbo[m.id].key
  BY <1>1, <1>2, NotAck, FirstIs, ResponseIs
<1>4. CASE IsActive(m.id)
  <2>1. PICK kind : kind = IF m.key \in RemoteKeys(m.id) THEN "modified" ELSE "added"
    OBVIOUS
  <2>2. SetState(m.id, [StateOf(remote, m.id) EXCEPT !.changes[m.key] = kind])
    BY <1>2, <1>4, <2>1 DEF OnDocument
  <2>3. updates' = [updates EXCEPT ![m.key] =
                        <<[version |-> m.version, value |-> m.value]>>]
    BY <1>2, <1>4 DEF OnDocument
  <2>4. updates' \in [Docs -> Seq(Update)]
    BY <1>3, <2>3, UpdateIs DEF Update
  <2>5. kind \in Change /\ (kind \in {"modified", "removed"} => m.key \in RemoteKeys(m.id))
    BY <2>1 DEF Change
  <2> QED
    BY <1>1, <1>2, <1>3, <1>4, <2>2, <2>4, <2>5, ReadFacts, ChangeTaken
<1>5. CASE ~IsActive(m.id)
  <2>1. UNCHANGED <<remote, updates>>
    BY <1>2, <1>5 DEF OnDocument
  <2> QED
    BY <1>1, <1>2, <1>3, <2>1, IgnoredTaken
<1> QED
  BY <1>4, <1>5

LEMMA DeleteStep == ReadInv /\ OnDelete => ReadInv'
<1> SUFFICES ASSUME ReadInv, OnDelete PROVE ReadInv'
  OBVIOUS
<1>1. /\ Takes("delete") /\ wire # << >> /\ Head(wire).type = "delete"
      /\ UNCHANGED resets /\ Quietly
  BY DEF OnDelete, Takes
<1>2. PICK m : m = Head(wire)
  OBVIOUS
<1>3. /\ m \notin Ack /\ m.id \in Nat /\ m.key \in Docs /\ m.version \in Nat
      /\ m.id \in DOMAIN remote.limbo => m.key = remote.limbo[m.id].key
  BY <1>1, <1>2, NotAck, FirstIs, ResponseIs
<1>4. CASE IsActive(m.id)
  <2>1. PICK kind : kind = IF m.key \in RemoteKeys(m.id) THEN "removed" ELSE "none"
    OBVIOUS
  <2>2. SetState(m.id, [StateOf(remote, m.id) EXCEPT !.changes[m.key] = kind])
    BY <1>2, <1>4, <2>1 DEF OnDelete, Removal
  <2>3. updates' = [updates EXCEPT ![m.key] =
                        <<[version |-> m.version, value |-> Absent]>>]
    BY <1>2, <1>4 DEF OnDelete, Deleted
  <2>4. updates' \in [Docs -> Seq(Update)]
    BY <1>3, <2>3, UpdateIs DEF Update, Values
  <2>5. kind \in Change /\ (kind \in {"modified", "removed"} => m.key \in RemoteKeys(m.id))
    BY <2>1 DEF Change
  <2> QED
    BY <1>1, <1>2, <1>3, <1>4, <2>2, <2>4, <2>5, ReadFacts, ChangeTaken
<1>5. CASE ~IsActive(m.id)
  <2>1. UNCHANGED <<remote, updates>>
    BY <1>2, <1>5 DEF OnDelete
  <2> QED
    BY <1>1, <1>2, <1>3, <2>1, IgnoredTaken
<1> QED
  BY <1>4, <1>5

LEMMA ExistenceFilterStep == ReadInv /\ OnExistenceFilter => ReadInv'
<1> SUFFICES ASSUME ReadInv, OnExistenceFilter PROVE ReadInv'
  OBVIOUS
<1>1. /\ Takes("filter") /\ wire # << >> /\ Head(wire).type = "filter" /\ Quietly
  BY DEF OnExistenceFilter, Takes
<1>2. PICK m : m = Head(wire)
  OBVIOUS
<1>3. m \notin Ack /\ m.id \in Nat
  BY <1>1, <1>2, NotAck, FirstIs
<1>4. CASE IsActive(m.id) /\ m.id # Query /\ m.count = 0
  <2>1. PICK k : k = remote.limbo[m.id].key
    OBVIOUS
  <2>2. PICK kind : kind = IF k \in RemoteKeys(m.id) THEN "removed" ELSE "none"
    OBVIOUS
  <2>3. SetState(m.id, [StateOf(remote, m.id) EXCEPT !.changes[k] = kind])
    BY <1>2, <1>4, <2>1, <2>2 DEF OnExistenceFilter, Removal
  <2>4. /\ updates' = [updates EXCEPT ![k] = <<[version |-> 0, value |-> Absent]>>]
        /\ UNCHANGED resets
    BY <1>2, <1>4, <2>1 DEF OnExistenceFilter, Deleted
  <2>5. k \in Docs
    BY <1>3, <1>4, <2>1, ActiveState
  <2>6. updates' \in [Docs -> Seq(Update)]
    BY <2>4, <2>5, UpdateIs DEF Update, Values
  <2>7. kind \in Change /\ (kind \in {"modified", "removed"} => k \in RemoteKeys(m.id))
    BY <2>2 DEF Change
  <2> QED
    BY <1>1, <1>2, <1>3, <1>4, <2>1, <2>3, <2>4, <2>5, <2>6, <2>7, ReadFacts,
       ChangeTaken
<1>5. CASE IsActive(m.id) /\ m.id = Query /\ m.count # CountOf(Query)
  <2>1. PICK c : c = [k \in Docs |-> IF k \in RemoteKeys(Query)
                                     THEN "removed" ELSE "none"]
    OBVIOUS
  <2>2. PICK st : st = [Fresh EXCEPT !.changes = c]
    OBVIOUS
  <2>3. /\ SetState(m.id, st)
        /\ resets' = resets \cup {Query} /\ UNCHANGED updates
    BY <1>2, <1>5, <2>1, <2>2 DEF OnExistenceFilter
  <2>4. /\ st \in TargetState /\ st.pending = 0
        /\ \A k \in Docs : st.changes[k] = IF k \in RemoteKeys(Query)
                                           THEN "removed" ELSE "none"
    <3>1. c \in [Docs -> Change]
      BY <2>1 DEF Change
    <3>2. st = [pending |-> 0, current |-> FALSE, changes |-> c]
      BY <2>2 DEF Fresh
    <3>3. st \in TargetState /\ st.pending = 0 /\ st.changes = c
      BY <3>1, <3>2 DEF TargetState
    <3> QED
      BY <2>1, <3>3
  <2>5. /\ StateOf(remote, m.id).pending = 0
        /\ StateOf(remote, m.id) \in TargetState
        /\ Query \notin DOMAIN remote.limbo
    BY <1>3, <1>5, ActiveState
  <2>6. Suits(st, remote, view.synced, m.id)
    BY <1>5, <2>4, <2>5, KeysAre DEF Suits
  <2>7. st.pending = StateOf(remote, m.id).pending - (IF m \in Ack THEN 1 ELSE 0)
    <3>1. st.pending = StateOf(remote, m.id).pending
      BY <2>4, <2>5
    <3>2. StateOf(remote, m.id) \in TargetState
      BY <2>5
    <3> QED
      BY <1>3, <3>1, <3>2 DEF TargetState
  <2> QED
    BY <1>1, <1>2, <2>3, <2>4, <2>6, <2>7, ReadFacts, StateTaken
<1>6. CASE /\ ~(IsActive(m.id) /\ m.id # Query /\ m.count = 0)
           /\ ~(IsActive(m.id) /\ m.id = Query /\ m.count # CountOf(Query))
  <2>1. UNCHANGED <<remote, updates, resets>>
    BY <1>2, <1>6 DEF OnExistenceFilter
  <2> QED
    BY <1>1, <1>2, <1>3, <2>1, IgnoredTaken
<1> QED
  BY <1>4, <1>5, <1>6

-----------------------------------------------------------------------------
(* The server and the faults that only lose answers.                       *)

LEMMA BesideKeeps ==
    ASSUME ReadInv, history' \in Seq([Docs -> Update]), history' # << >>,
           Len(history) <= Len(history'),
           answers' \in Seq(Answer), Len(answers') <= Len(queue),
           UNCHANGED <<served, wire, disk, target, open, offline, remote,
                       updates, resets, view, program, resetting>>
    PROVE  ReadInv'
<1>1. /\ served' = served /\ wire' = wire /\ target' = target /\ open' = open
      /\ offline' = offline /\ remote' = remote /\ updates' = updates
      /\ resets' = resets /\ view' = view /\ resetting' = resetting
      /\ queue' = queue /\ cache' = cache /\ keys' = keys /\ saved' = saved
      /\ last' = last
      /\ opened' = opened /\ raised' = raised /\ shown' = shown
  BY DEF disk, program
<1>2. Types'
  BY <1>1 DEF ReadInv, Types, ServerTypes, DiskTypes, ClientTypes, ProgramTypes
<1>3. Watching(remote, wire, served, view.synced)'
  BY <1>1 DEF ReadInv, Watching
<1>4. InOrder'
  <2>1. Len(history) \in Nat /\ Len(history') \in Nat /\ last \in Nat
    BY LenProperties DEF ReadInv, Types, ServerTypes, DiskTypes
  <2>2. \A i \in 1 .. Len(wire) : IsSnapshot(wire[i]) => wire[i].version \in Nat
    BY ReadFacts, ResponsesAre, ResponseIs DEF IsSnapshot
  <2>3. Clock \in Nat /\ Clock' \in Nat /\ Clock <= Clock'
    BY <2>1 DEF Clock
  <2>4. InOrder
    BY DEF ReadInv
  <2>5. last' <= Clock'
    BY <1>1, <2>1, <2>3, <2>4 DEF InOrder
  <2>6. \A i \in 1 .. Len(wire) : IsSnapshot(wire[i]) =>
            last <= wire[i].version /\ wire[i].version <= Clock'
    BY <2>2, <2>3, <2>4 DEF InOrder
  <2> QED
    BY <1>1, <2>4, <2>5, <2>6 DEF InOrder
<1>5. ViewFirst'
  BY <1>1 DEF ReadInv, ViewFirst
<1>6. ListenersAgree'
  BY <1>1 DEF ReadInv, ListenersAgree, FirstEvent
<1> QED
  BY <1>2, <1>3, <1>4, <1>5, <1>6 DEF ReadInv

(* A document is set.                                                      *)
LEMMA SetIs ==
    ASSUME ReadInv, NEW k \in Docs, NEW value \in Values, Set(k, value)
    PROVE  /\ history' \in Seq([Docs -> Update]) /\ history' # << >>
           /\ Len(history) <= Len(history')
<1>1. history \in Seq([Docs -> Update]) /\ history # << >>
  BY DEF ReadInv, Types, ServerTypes
<1>2. Clock \in 1 .. Len(history) /\ Clock + 1 \in Nat
  BY <1>1, EmptySeq, LenProperties DEF Clock
<1>3. Now \in [Docs -> Update]
  BY <1>1, <1>2, ElementOfSeq DEF Now
<1>4. PICK h : h = [Now EXCEPT ![k] = [version |-> Clock + 1, value |-> value]]
  OBVIOUS
<1>5. h \in [Docs -> Update]
  BY <1>2, <1>3, <1>4 DEF Update
<1>6. history' = Append(history, h)
  BY <1>4 DEF Set
<1> QED
  BY <1>1, <1>5, <1>6, AppendProperties

LEMMA HistoryIs ==
    ASSUME ReadInv
    PROVE  /\ history \in Seq([Docs -> Update]) /\ history # << >>
           /\ Len(history) \in Nat /\ answers \in Seq(Answer)
           /\ Len(answers) <= Len(queue) /\ Len(answers) \in Nat
           /\ Len(queue) \in Nat /\ queue \in Seq(Writes)
BY LenProperties DEF ReadInv, Types, ServerTypes, DiskTypes

LEMMA ForeignSetStep == ReadInv /\ (\E f \in Foreign : ForeignSet(f)) => ReadInv'
<1> SUFFICES ASSUME ReadInv, NEW f \in Foreign, ForeignSet(f) PROVE ReadInv'
  OBVIOUS
<1>1. Where[f] \in Docs /\ f \in Values
  BY ViewAssumption DEF Values
<1>2. Set(Where[f], f) /\ answers' = answers
  BY DEF ForeignSet
<1>3. UNCHANGED <<served, wire, disk, target, open, offline, remote,
                  updates, resets, view, program, resetting>>
  BY DEF ForeignSet, disk, program
<1> QED
  BY <1>1, <1>2, <1>3, SetIs, HistoryIs, BesideKeeps

LEMMA DeletedStep == ReadInv /\ (\E k \in Docs : Delete(k)) => ReadInv'
<1> SUFFICES ASSUME ReadInv, NEW k \in Docs, Delete(k) PROVE ReadInv'
  OBVIOUS
<1>1. Absent \in Values
  BY DEF Values
<1>2. Set(k, Absent) /\ answers' = answers
  BY DEF Delete
<1>3. UNCHANGED <<served, wire, disk, target, open, offline, remote,
                  updates, resets, view, program, resetting>>
  BY DEF Delete, disk, program
<1> QED
  BY <1>1, <1>2, <1>3, SetIs, HistoryIs, BesideKeeps

LEMMA CommitStep == ReadInv /\ Commit => ReadInv'
<1> SUFFICES ASSUME ReadInv, Commit PROVE ReadInv'
  OBVIOUS
<1>1. PICK w : w = queue[Len(answers) + 1]
  OBVIOUS
<1>2. w \in Writes /\ Where[w] \in Docs /\ w \in Values
  <2>1. Len(answers) + 1 \in 1 .. Len(queue)
    BY HistoryIs DEF Commit
  <2> QED
    BY <1>1, <2>1, HistoryIs, ElementOfSeq, ViewAssumption DEF Values
<1>3. PICK a : /\ answers' = Append(answers, a)
               /\ \/ /\ IF Now[Where[w]].value = w THEN UNCHANGED history
                        ELSE Set(Where[w], w)
                     /\ a = [write |-> w, refused |-> FALSE,
                             version |-> history'[Len(history')][Where[w]].version,
                             read |-> Len(history')]
                  \/ /\ a = [write |-> w, refused |-> TRUE, version |-> 0, read |-> 0]
                     /\ UNCHANGED history
  BY <1>1 DEF Commit
<1>4. /\ history' \in Seq([Docs -> Update]) /\ history' # << >>
      /\ Len(history) <= Len(history')
  <2>1. CASE UNCHANGED history
    BY <2>1, HistoryIs
  <2>2. CASE Set(Where[w], w)
    BY <1>2, <2>2, SetIs
  <2> QED
    BY <1>3, <2>1, <2>2
<1>5. a \in Answer
  <2>1. Len(history') \in 1 .. Len(history') /\ Len(history') \in Nat
    BY <1>4, EmptySeq, LenProperties
  <2>2. history'[Len(history')] \in [Docs -> Update]
    BY <1>4, <2>1, ElementOfSeq
  <2>3. history'[Len(history')][Where[w]].version \in Nat
    BY <1>2, <2>2 DEF Update
  <2>4. PICK v, n : v = history'[Len(history')][Where[w]].version
                    /\ n = Len(history')
    OBVIOUS
  <2>5. v \in Nat /\ n \in Nat
    BY <2>1, <2>3, <2>4
  <2>6. CASE a = [write |-> w, refused |-> FALSE, version |-> v, read |-> n]
    BY <1>2, <2>5, <2>6 DEF Answer
  <2>7. CASE a = [write |-> w, refused |-> TRUE, version |-> 0, read |-> 0]
    BY <1>2, <2>7 DEF Answer
  <2> QED
    BY <1>3, <2>4, <2>6, <2>7
<1>6. answers' \in Seq(Answer) /\ Len(answers') <= Len(queue)
  <2>1. Len(answers) < Len(queue)
    BY DEF Commit
  <2> QED
    BY <1>3, <1>5, <2>1, HistoryIs, AppendProperties
<1>7. UNCHANGED <<served, wire, disk, target, open, offline, remote,
                  updates, resets, view, program, resetting>>
  BY DEF Commit, disk, program
<1> QED
  BY <1>4, <1>6, <1>7, BesideKeeps

LEMMA AnswersLostStep == ReadInv /\ AnswersLost => ReadInv'
<1> SUFFICES ASSUME ReadInv, AnswersLost PROVE ReadInv'
  OBVIOUS
<1>1. answers' = << >> /\ history' = history
  BY DEF AnswersLost, server
<1>2. answers' \in Seq(Answer) /\ Len(answers') <= Len(queue)
  BY <1>1, HistoryIs
<1>3. UNCHANGED <<served, wire, disk, target, open, offline, remote,
                  updates, resets, view, program, resetting>>
  BY DEF AnswersLost, server, disk, program
<1> QED
  BY <1>1, <1>2, <1>3, HistoryIs, BesideKeeps

(* The server takes a request: it is answered, and srv becomes n.          *)
LEMMA RequestTaken ==
    ASSUME NEW w \in Seq(Response), NEW srv \in Table(Served), NEW synced,
           NEW r \in Remote, Watching(r, w, srv, synced), r.requests # << >>,
           NEW m, m = Head(r.requests),
           NEW a \in Ack, a.id = m.id,
           NEW n \in Table(Served),
           \A id \in DOMAIN n :
               \/ id \in DOMAIN srv /\ n[id].covers = srv[id].covers
               \/ id = m.id /\ n[id].covers = m.covers,
           NEW s, s = [r EXCEPT !.requests = Tail(@)]
    PROVE  /\ s \in Remote /\ s.listens = r.listens
           /\ Append(w, a) \in Seq(Response)
           /\ Watching(s, Append(w, a), n, synced)
<1>1. r.requests \in Seq(Request) /\ a \in Response
  BY NumbersAre DEF Response
<1>2. PICK q \in Seq(Request) : q = r.requests
  BY <1>1
<1>3. /\ Tail(q) \in Seq(Request) /\ m \in Request /\ m = q[1]
      /\ 1 \in 1 .. Len(q)
      /\ \A i \in 1 .. Len(Tail(q)) : Tail(q)[i] = q[i + 1] /\ i + 1 \in 1 .. Len(q)
  BY <1>2, TailIs
<1>4. /\ s \in Remote /\ s.listens = r.listens /\ s.limbo = r.limbo
      /\ s.next = r.next /\ s.agg = r.agg /\ s.requests = Tail(q)
  BY <1>2, <1>3 DEF Remote
<1>5. PICK x : x = Append(w, a)
  OBVIOUS
<1>6. /\ x \in Seq(Response) /\ Len(x) = Len(w) + 1 /\ Len(w) \in Nat
      /\ \A i \in 1 .. Len(w) : x[i] = w[i]
      /\ x[Len(w) + 1] = a
  BY <1>1, <1>5, AppendIs
<1>7. /\ Numbered(r, w, srv) /\ Paired(r) /\ Pending(r, w)
      /\ AboutOne(r, w, srv) /\ Fits(r, synced) /\ open
  BY <1>1 DEF Watching, Closed
<1>8. m.id < r.next
  BY <1>2, <1>3, <1>7 DEF Numbered
<1>9. Numbered(s, x, n)
  <2>1. \A i \in 1 .. Len(x) : x[i].type # "snapshot" => x[i].id < r.next
    <3> SUFFICES ASSUME NEW i \in 1 .. Len(x), x[i].type # "snapshot"
                 PROVE  x[i].id < r.next
      OBVIOUS
    <3>1. i \in 1 .. Len(w) \/ i = Len(w) + 1
      BY <1>6
    <3> QED
      BY <1>6, <1>7, <1>8, <3>1 DEF Numbered
  <2>2. \A i \in 1 .. Len(Tail(q)) : Tail(q)[i].id < r.next
    BY <1>2, <1>3, <1>7 DEF Numbered
  <2>3. \A id \in DOMAIN n : id < r.next
    BY <1>7, <1>8 DEF Numbered
  <2> QED
    BY <1>4, <1>7, <2>1, <2>2, <2>3 DEF Numbered
<1>10. Paired(s)
  BY <1>4, <1>7 DEF Paired
<1>11. Pending(s, x)
  <2> SUFFICES ASSUME NEW id \in Nat
               PROVE  StateOf(s, id).pending =
                        Count(Tail(q), RequestsOf(id)) + Count(x, AcksOf(id))
    BY <1>4 DEF Pending
  <2>1. StateOf(s, id) = StateOf(r, id)
    BY <1>4 DEF StateOf
  <2>2. StateOf(r, id).pending = Count(q, RequestsOf(id)) + Count(w, AcksOf(id))
    BY <1>2, <1>7 DEF Pending
  <2>3. Count(q, RequestsOf(id)) =
            Count(Tail(q), RequestsOf(id)) + (IF m \in RequestsOf(id) THEN 1 ELSE 0)
    <3>1. q # << >> /\ m = Head(q)
      BY <1>2
    <3> QED
      BY <3>1, CountTail
  <2>4. Count(x, AcksOf(id)) =
            Count(w, AcksOf(id)) + (IF a \in AcksOf(id) THEN 1 ELSE 0)
    BY <1>1, <1>5, CountAppend
  <2>5. m \in RequestsOf(id) <=> a \in AcksOf(id)
    BY <1>3 DEF RequestsOf, AcksOf
  <2>6. Count(Tail(q), RequestsOf(id)) \in Nat /\ Count(w, AcksOf(id)) \in Nat
    BY <1>3, PlacesFinite
  <2> QED
    BY <2>1, <2>2, <2>3, <2>4, <2>5, <2>6
<1>12. AboutOne(s, x, n)
  <2> SUFFICES ASSUME NEW id \in DOMAIN s.limbo
               PROVE  /\ \A i \in 1 .. Len(s.requests) :
                             s.requests[i].id = id =>
                                 s.requests[i].covers \subseteq {s.limbo[id].key}
                      /\ id \in DOMAIN n => n[id].covers \subseteq {s.limbo[id].key}
                      /\ \A i \in 1 .. Len(x) :
                             x[i].type \in {"document", "delete"} /\ x[i].id = id =>
                                 x[i].key = s.limbo[id].key
    BY DEF AboutOne
  <2>1. /\ \A i \in 1 .. Len(q) : q[i].id = id => q[i].covers \subseteq {r.limbo[id].key}
        /\ id \in DOMAIN srv => srv[id].covers \subseteq {r.limbo[id].key}
        /\ \A i \in 1 .. Len(w) :
               w[i].type \in {"document", "delete"} /\ w[i].id = id =>
                   w[i].key = r.limbo[id].key
    BY <1>2, <1>4, <1>7 DEF AboutOne
  <2>2. a.type \notin {"document", "delete"}
    BY DEF Ack
  <2>3. \A i \in 1 .. Len(x) :
            x[i].type \in {"document", "delete"} /\ x[i].id = id =>
                x[i].key = r.limbo[id].key
    <3> SUFFICES ASSUME NEW i \in 1 .. Len(x), x[i].type \in {"document", "delete"},
                        x[i].id = id
                 PROVE  x[i].key = r.limbo[id].key
      OBVIOUS
    <3>1. i \in 1 .. Len(w) \/ i = Len(w) + 1
      BY <1>6
    <3> QED
      BY <1>6, <2>1, <2>2, <3>1
  <2>4. PICK t : t = s.requests
    OBVIOUS
  <2>5. \A i \in 1 .. Len(t) : t[i].id = id => t[i].covers \subseteq {r.limbo[id].key}
    BY <1>3, <1>4, <2>1, <2>4
  <2>6. id \in DOMAIN n => n[id].covers \subseteq {r.limbo[id].key}
    <3> SUFFICES ASSUME id \in DOMAIN n
                 PROVE  n[id].covers \subseteq {r.limbo[id].key}
      OBVIOUS
    <3>1. CASE id \in DOMAIN srv /\ n[id].covers = srv[id].covers
      BY <2>1, <3>1
    <3>2. CASE id = m.id /\ n[id].covers = m.covers
      BY <1>3, <2>1, <3>2
    <3> QED
      BY <3>1, <3>2
  <2> QED
    BY <1>4, <2>3, <2>4, <2>5, <2>6
<1>13. Fits(s, synced)
  BY <1>4, <1>7 DEF Fits, KeysIn
<1> QED
  BY <1>4, <1>5, <1>6, <1>7, <1>9, <1>10, <1>11, <1>12, <1>13 DEF Watching

(* The stream changes and the client does not.                             *)
LEMMA ServerKeeps ==
    ASSUME ReadInv,
           UNCHANGED <<history, answers, disk, target, open, offline, updates,
                       resets, view, program, resetting>>,
           remote' \in Remote, remote'.listens = remote.listens,
           served' \in Table(Served), wire' \in Seq(Response),
           Watching(remote', wire', served', view.synced), InOrder'
    PROVE  ReadInv'
<1>1. /\ history' = history /\ answers' = answers
      /\ target' = target /\ open' = open
      /\ offline' = offline /\ updates' = updates
      /\ resets' = resets /\ view' = view /\ resetting' = resetting
      /\ queue' = queue /\ cache' = cache /\ keys' = keys /\ saved' = saved
      /\ last' = last
      /\ opened' = opened /\ raised' = raised /\ shown' = shown
  BY DEF disk, program
<1>2. Types'
  BY <1>1 DEF ReadInv, Types, ServerTypes, DiskTypes, ClientTypes, ProgramTypes
<1>3. Watching(remote, wire, served, view.synced)'
  BY <1>1 DEF Watching
<1>4. ViewFirst'
  BY <1>1 DEF ReadInv, ViewFirst
<1>5. ListenersAgree'
  BY <1>1 DEF ReadInv, ListenersAgree, FirstEvent
<1> QED
  BY <1>2, <1>3, <1>4, <1>5 DEF ReadInv

LEMMA ServerTakesStep == ReadInv /\ ServerTakes => ReadInv'
<1> SUFFICES ASSUME ReadInv, ServerTakes PROVE ReadInv'
  OBVIOUS
<1>1. PICK r \in Remote : r = remote
  BY ReadFacts
<1>2. PICK w \in Seq(Response) : w = wire
  BY ReadFacts
<1>3. PICK srv \in Table(Served) : srv = served
  BY ReadFacts
<1>4. PICK synced : synced = view.synced
  OBVIOUS
<1>5. Watching(r, w, srv, synced) /\ r.requests # << >>
  BY <1>1, <1>2, <1>3, <1>4, ReadFacts DEF ServerTakes
<1>6. PICK m : m = Head(r.requests)
  OBVIOUS
<1>7. m \in Request
  BY <1>5, <1>6, NumbersAre, TailIs
<1>8. m.id \in Nat /\ m.covers \in SUBSET Docs /\ m.token \in Nat
  BY <1>7 DEF Request
<1>9. PICK a \in Ack, n \in Table(Served) :
          /\ a.id = m.id /\ wire' = Append(w, a) /\ served' = n
          /\ \A id \in DOMAIN n :
                 \/ id \in DOMAIN srv /\ n[id].covers = srv[id].covers
                 \/ id = m.id /\ n[id].covers = m.covers
  <2>1. CASE /\ served' = With(served, m.id,
                    [sent |-> m.token, current |-> FALSE, covers |-> m.covers])
             /\ wire' = Append(wire, [type |-> "added", id |-> m.id])
    <3>1. PICK t : t = [sent |-> m.token, current |-> FALSE, covers |-> m.covers]
      OBVIOUS
    <3>2. t \in Served /\ t.covers = m.covers
      BY <1>8, <3>1 DEF Served
    <3>3. PICK n : n = With(srv, m.id, t)
      OBVIOUS
    <3>4. n \in Table(Served)
      BY <1>8, <3>2, <3>3, WithTable
    <3>5. \A id \in DOMAIN n :
              \/ id \in DOMAIN srv /\ n[id].covers = srv[id].covers
              \/ id = m.id /\ n[id].covers = m.covers
      BY <3>2, <3>3 DEF With
    <3>6. PICK a : a = [type |-> "added", id |-> m.id]
      OBVIOUS
    <3>7. a \in Ack /\ a.id = m.id
      BY <1>8, <3>6 DEF Ack
    <3>8. wire' = Append(w, a) /\ served' = n
      BY <1>2, <1>3, <2>1, <3>1, <3>3, <3>6
    <3> QED
      BY <3>4, <3>5, <3>7, <3>8
  <2>2. CASE /\ served' = Without(served, m.id)
             /\ wire' = Append(wire, [type |-> "removed", id |-> m.id])
    <3>1. PICK n : n = Without(srv, m.id)
      OBVIOUS
    <3>2. n \in Table(Served)
      BY <3>1, WithoutTable
    <3>3. \A id \in DOMAIN n :
              \/ id \in DOMAIN srv /\ n[id].covers = srv[id].covers
              \/ id = m.id /\ n[id].covers = m.covers
      BY <3>1 DEF Without
    <3>4. PICK a : a = [type |-> "removed", id |-> m.id]
      OBVIOUS
    <3>5. a \in Ack /\ a.id = m.id
      BY <1>8, <3>4 DEF Ack
    <3>6. wire' = Append(w, a) /\ served' = n
      BY <1>2, <1>3, <2>2, <3>1, <3>4
    <3> QED
      BY <3>2, <3>3, <3>5, <3>6
  <2> QED
    BY <1>1, <1>6, <2>1, <2>2 DEF ServerTakes
<1>10. PICK s : s = [r EXCEPT !.requests = Tail(@)]
  OBVIOUS
<1>11. /\ s \in Remote /\ s.listens = r.listens
       /\ Append(w, a) \in Seq(Response)
       /\ Watching(s, Append(w, a), n, synced)
  BY <1>5, <1>6, <1>9, <1>10, RequestTaken
<1>12. remote' = s
  BY <1>1, <1>10 DEF ServerTakes
<1>13. /\ remote' \in Remote /\ remote'.listens = remote.listens
       /\ served' \in Table(Served) /\ wire' \in Seq(Response)
       /\ Watching(remote', wire', served', view.synced)
  BY <1>1, <1>4, <1>9, <1>11, <1>12
<1>14. InOrder'
  <2>1. PICK x : x = Append(w, a)
    OBVIOUS
  <2>2. /\ Len(x) = Len(w) + 1 /\ Len(w) \in Nat
        /\ \A i \in 1 .. Len(w) : x[i] = w[i]
        /\ x[Len(w) + 1] = a
    BY <2>1, AppendIs DEF Response
  <2>3. ~IsSnapshot(a)
    BY DEF IsSnapshot, Ack
  <2>4. \A i \in 1 .. Len(x) : IsSnapshot(x[i]) => i \in 1 .. Len(w) /\ x[i] = w[i]
    <3> SUFFICES ASSUME NEW i \in 1 .. Len(x), IsSnapshot(x[i])
                 PROVE  i \in 1 .. Len(w) /\ x[i] = w[i]
      OBVIOUS
    <3>1. i \in 1 .. Len(w) \/ i = Len(w) + 1
      BY <2>2
    <3> QED
      BY <2>2, <2>3, <3>1
  <2>5. InOrder
    BY DEF ReadInv
  <2>6. wire' = x /\ last' = last /\ Clock' = Clock
    BY <1>9, <2>1 DEF ServerTakes, disk, Clock
  <2> QED
    BY <1>2, <2>4, <2>5, <2>6 DEF InOrder
<1>15. UNCHANGED <<history, answers, disk, target, open, offline, updates,
                   resets, view, program, resetting>>
  BY DEF ServerTakes, disk, program
<1> QED
  BY <1>13, <1>14, <1>15, ServerKeeps

(* What the server sends besides acknowledgements.                         *)
SentFor(r, n) ==
    {m \in Sent : /\ m.type # "snapshot" => m.id < r.next
                  /\ m.type \in {"document", "delete"} /\ m.id \in DOMAIN r.limbo
                        => m.key = r.limbo[m.id].key
                  /\ m.type = "snapshot" => m.version = n}

LEMMA SentKeeps ==
    ASSUME NEW w \in Seq(Response), NEW srv \in Table(Served), NEW synced,
           NEW r \in Remote, Watching(r, w, srv, synced), open,
           NEW c, NEW x \in Seq(Response), Continues(x, w, SentFor(r, c)),
           NEW n \in Table(Served), DOMAIN n = DOMAIN srv,
           \A id \in DOMAIN n : n[id].covers = srv[id].covers
    PROVE  Watching(r, x, n, synced)
<1>1. /\ Numbered(r, w, srv) /\ Paired(r) /\ Pending(r, w)
      /\ AboutOne(r, w, srv) /\ Fits(r, synced)
  BY DEF Watching
<1>2. /\ Len(w) \in Nat /\ Len(x) \in Nat /\ Len(w) <= Len(x)
      /\ \A i \in 1 .. Len(w) : x[i] = w[i]
      /\ \A i \in 1 .. Len(x) : i \in 1 .. Len(w) \/ x[i] \in SentFor(r, c)
  <2>1. Len(w) \in Nat /\ Len(x) \in Nat
    BY LenProperties
  <2> QED
    BY <2>1 DEF Continues
<1>3. Numbered(r, x, n)
  <2>1. \A i \in 1 .. Len(x) : x[i].type # "snapshot" => x[i].id < r.next
    BY <1>1, <1>2 DEF Numbered, SentFor
  <2> QED
    BY <1>1, <2>1 DEF Numbered
<1>4. Pending(r, x)
  <2> SUFFICES ASSUME NEW id \in Nat
               PROVE  Count(x, AcksOf(id)) = Count(w, AcksOf(id))
    BY <1>1 DEF Pending
  <2>1. \A m \in SentFor(r, c) : m \notin AcksOf(id)
    BY DEF SentFor, AcksOf, Ack, Sent
  <2>2. Places(x, AcksOf(id)) = Places(w, AcksOf(id))
    BY <1>2, <2>1 DEF Places
  <2> QED
    BY <2>2 DEF Count
<1>5. AboutOne(r, x, n)
  <2> SUFFICES ASSUME NEW id \in DOMAIN r.limbo
               PROVE  /\ id \in DOMAIN n => n[id].covers \subseteq {r.limbo[id].key}
                      /\ \A i \in 1 .. Len(x) :
                             x[i].type \in {"document", "delete"} /\ x[i].id = id =>
                                 x[i].key = r.limbo[id].key
    BY <1>1 DEF AboutOne
  <2>1. id \in DOMAIN n => n[id].covers \subseteq {r.limbo[id].key}
    BY <1>1 DEF AboutOne
  <2>2. \A i \in 1 .. Len(w) :
            x[i].type \in {"document", "delete"} /\ x[i].id = id =>
                x[i].key = r.limbo[id].key
    BY <1>1, <1>2 DEF AboutOne
  <2>3. \A m \in SentFor(r, c) :
            m.type \in {"document", "delete"} /\ m.id = id =>
                m.key = r.limbo[id].key
    BY DEF SentFor
  <2> QED
    BY <1>2, <2>1, <2>2, <2>3
<1> QED
  BY <1>1, <1>3, <1>4, <1>5 DEF Watching

(* Those are finitely many.                                                *)
LEMMA ServedFinite ==
    ASSUME ReadInv
    PROVE  /\ IsFiniteSet(DOMAIN served) /\ DOMAIN served \subseteq Nat
           /\ \A id \in DOMAIN served :
                  /\ served[id] \in Served /\ id < remote.next
                  /\ id \in DOMAIN remote.limbo =>
                         served[id].covers \subseteq {remote.limbo[id].key}
<1>1. DOMAIN served \subseteq Nat /\ \A id \in DOMAIN served : served[id] \in Served
  BY ReadFacts, TableIs
<1>2. remote.next \in Nat
  BY ReadFacts, NumbersAre
<1>3. Numbered(remote, wire, served) /\ AboutOne(remote, wire, served)
  BY ReadFacts DEF Watching
<1>4. \A id \in DOMAIN served : id < remote.next
  BY <1>3 DEF Numbered
<1>5. IsFiniteSet(0 .. remote.next) /\ DOMAIN served \subseteq 0 .. remote.next
  BY <1>1, <1>2, <1>4, FS_Interval
<1>6. IsFiniteSet(DOMAIN served)
  BY <1>5, FS_Subset
<1>7. \A id \in DOMAIN served : id \in DOMAIN remote.limbo =>
          served[id].covers \subseteq {remote.limbo[id].key}
  BY <1>3 DEF AboutOne
<1> QED
  BY <1>1, <1>4, <1>6, <1>7

LEMMA NowIs ==
    ASSUME ReadInv
    PROVE  Clock \in Nat /\ Now \in [Docs -> Update]
<1>1. Clock \in 1 .. Len(history) /\ Clock \in Nat
  BY HistoryIs, EmptySeq, LenProperties DEF Clock
<1> QED
  BY <1>1, HistoryIs, ElementOfSeq DEF Now

(* Finitely many of each of finitely many targets.                         *)
LEMMA EachFinite ==
    ASSUME NEW I, IsFiniteSet(I), NEW T, DOMAIN T = I,
           \A id \in I : IsFiniteSet(T[id])
    PROVE  IsFiniteSet(UNION {T[id] : id \in I})
<1>1. IsFiniteSet({T[id] : id \in I})
  BY ImageFinite
<1> QED
  BY <1>1, FS_UNION

LEMMA DocumentsAre ==
    ASSUME ReadInv
    PROVE  Documents \in SUBSET SentFor(remote, Clock) /\ IsFiniteSet(Documents)
<1> DEFINE Due(id) == {j \in served[id].covers : /\ Now[j].value # Absent
                                                 /\ Now[j].version > served[id].sent}
           message(id, k) == [type |-> "document", id |-> id, key |-> k,
                              version |-> Now[k].version, value |-> Now[k].value]
           T == [id \in DOMAIN served |-> {message(id, k) : k \in Due(id)}]
<1>1. \A id \in DOMAIN served : IsFiniteSet(T[id])
  <2> SUFFICES ASSUME NEW id \in DOMAIN served
               PROVE  IsFiniteSet({message(id, k) : k \in Due(id)})
    OBVIOUS
  <2> DEFINE f == [k \in Due(id) |-> message(id, k)]
  <2>1. IsFiniteSet(Due(id))
    <3>1. Due(id) \subseteq Docs
      BY ServedFinite DEF Served
    <3> QED
      BY <3>1, ViewAssumption, FS_Subset
  <2>2. IsFiniteSet({f[k] : k \in Due(id)})
    <3>1. DOMAIN f = Due(id)
      OBVIOUS
    <3> HIDE DEF f, Due
    <3> QED
      BY <2>1, <3>1, ImageFinite
  <2>3. {message(id, k) : k \in Due(id)} = {f[k] : k \in Due(id)}
    OBVIOUS
  <2> QED
    BY <2>2, <2>3
<1>2. IsFiniteSet(UNION {T[id] : id \in DOMAIN served})
  <2>1. DOMAIN T = DOMAIN served
    OBVIOUS
  <2> HIDE DEF T
  <2> QED
    BY <1>1, <2>1, ServedFinite, EachFinite
<1>3. Documents = UNION {T[id] : id \in DOMAIN served}
  BY DEF Documents
<1>4. \A id \in DOMAIN served : \A k \in Due(id) :
          message(id, k) \in SentFor(remote, Clock)
  <2> SUFFICES ASSUME NEW id \in DOMAIN served, NEW k \in Due(id)
               PROVE  message(id, k) \in SentFor(remote, Clock)
    OBVIOUS
  <2>1. /\ id \in Nat /\ k \in Docs /\ id < remote.next
        /\ id \in DOMAIN remote.limbo => k = remote.limbo[id].key
    BY ServedFinite DEF Served
  <2>2. Now[k].version \in Nat /\ Now[k].value \in Values
    BY <2>1, NowIs DEF Update
  <2>3. message(id, k) \in Sent
    BY <2>1, <2>2 DEF Sent
  <2> QED
    BY <2>1, <2>3 DEF SentFor
<1>5. Documents \subseteq SentFor(remote, Clock)
  BY <1>4 DEF Documents
<1> QED
  BY <1>2, <1>3, <1>5

LEMMA DeletionsAre ==
    ASSUME ReadInv, NEW I \in SUBSET DOMAIN served
    PROVE  Deletions(I) \in SUBSET SentFor(remote, Clock)
           /\ IsFiniteSet(Deletions(I))
<1> DEFINE Due(id) == {j \in served[id].covers : /\ Now[j].value = Absent
                                                 /\ At(served[id].sent, j) # Absent}
           message(id, k) == [type |-> "delete", id |-> id, key |-> k,
                              version |-> Clock]
           T == [id \in I |-> {message(id, k) : k \in Due(id)}]
<1>1. \A id \in I : IsFiniteSet(T[id])
  <2> SUFFICES ASSUME NEW id \in I
               PROVE  IsFiniteSet({message(id, k) : k \in Due(id)})
    OBVIOUS
  <2> DEFINE f == [k \in Due(id) |-> message(id, k)]
  <2>1. IsFiniteSet(Due(id))
    <3>1. Due(id) \subseteq Docs
      BY ServedFinite DEF Served
    <3> QED
      BY <3>1, ViewAssumption, FS_Subset
  <2>2. IsFiniteSet({f[k] : k \in Due(id)})
    <3>1. DOMAIN f = Due(id)
      OBVIOUS
    <3> HIDE DEF f, Due
    <3> QED
      BY <2>1, <3>1, ImageFinite
  <2>3. {message(id, k) : k \in Due(id)} = {f[k] : k \in Due(id)}
    OBVIOUS
  <2> QED
    BY <2>2, <2>3
<1>2. IsFiniteSet(UNION {T[id] : id \in I})
  <2>1. DOMAIN T = I /\ IsFiniteSet(I)
    BY ServedFinite, FS_Subset
  <2> HIDE DEF T
  <2> QED
    BY <1>1, <2>1, EachFinite
<1>3. Deletions(I) = UNION {T[id] : id \in I}
  BY DEF Deletions
<1>4. \A id \in I : \A k \in Due(id) :
          message(id, k) \in SentFor(remote, Clock)
  <2> SUFFICES ASSUME NEW id \in I, NEW k \in Due(id)
               PROVE  message(id, k) \in SentFor(remote, Clock)
    OBVIOUS
  <2>1. /\ id \in Nat /\ k \in Docs /\ id < remote.next
        /\ id \in DOMAIN remote.limbo => k = remote.limbo[id].key
    BY ServedFinite DEF Served
  <2>2. message(id, k) \in Sent
    BY <2>1, NowIs DEF Sent
  <2> QED
    BY <2>1, <2>2 DEF SentFor
<1>5. Deletions(I) \subseteq SentFor(remote, Clock)
  BY <1>4 DEF Deletions
<1> QED
  BY <1>2, <1>3, <1>5

LEMMA CurrentsAre ==
    ASSUME ReadInv
    PROVE  Currents \in SUBSET SentFor(remote, Clock) /\ IsFiniteSet(Currents)
<1> DEFINE I == {i \in DOMAIN served : ~served[i].current}
           f == [id \in I |-> [type |-> "current", id |-> id]]
<1>1. IsFiniteSet({f[id] : id \in I})
  <2>1. DOMAIN f = I /\ IsFiniteSet(I)
    BY ServedFinite, FS_Subset
  <2> HIDE DEF f, I
  <2> QED
    BY <2>1, ImageFinite
<1>2. Currents = {f[id] : id \in I}
  BY DEF Currents
<1>3. \A id \in I : f[id] \in SentFor(remote, Clock)
  <2> SUFFICES ASSUME NEW id \in I
               PROVE  [type |-> "current", id |-> id] \in SentFor(remote, Clock)
    OBVIOUS
  <2>1. id \in Nat /\ id < remote.next
    BY ServedFinite
  <2>2. [type |-> "current", id |-> id] \in Sent
    BY <2>1 DEF Sent
  <2> QED
    BY <2>1, <2>2 DEF SentFor
<1> HIDE DEF f, I
<1> QED
  BY <1>1, <1>2, <1>3

LEMMA FiltersAre ==
    ASSUME ReadInv, NEW I \in SUBSET DOMAIN served
    PROVE  Filters(I) \in SUBSET SentFor(remote, Clock) /\ IsFiniteSet(Filters(I))
<1> DEFINE C(id) == {k \in served[id].covers : Now[k].value # Absent}
           f == [id \in I |-> [type |-> "filter", id |-> id,
                               count |-> Cardinality(C(id))]]
<1>1. IsFiniteSet({f[id] : id \in I})
  <2>1. DOMAIN f = I /\ IsFiniteSet(I)
    BY ServedFinite, FS_Subset
  <2> HIDE DEF f
  <2> QED
    BY <2>1, ImageFinite
<1>2. Filters(I) = {f[id] : id \in I}
  BY DEF Filters
<1>3. \A id \in I : f[id] \in SentFor(remote, Clock)
  <2> SUFFICES ASSUME NEW id \in I
               PROVE  [type |-> "filter", id |-> id, count |-> Cardinality(C(id))]
                          \in SentFor(remote, Clock)
    OBVIOUS
  <2>1. id \in Nat /\ id < remote.next
    BY ServedFinite
  <2>2. Cardinality(C(id)) \in Nat
    <3>1. C(id) \subseteq Docs
      BY ServedFinite DEF Served
    <3> QED
      BY <3>1, ViewAssumption, FS_Subset, FS_CardinalityType
  <2> HIDE DEF C
  <2>3. [type |-> "filter", id |-> id, count |-> Cardinality(C(id))] \in Sent
    BY <2>1, <2>2 DEF Sent
  <2> QED
    BY <2>1, <2>3 DEF SentFor
<1> HIDE DEF f
<1> QED
  BY <1>1, <1>2, <1>3

(* Finitely many of them in some order go on from what was sent before.    *)
LEMMA SentOn ==
    ASSUME NEW w \in Seq(Response), NEW r, NEW n, NEW x \in Seq(Response),
           Continues(x, w, SentFor(r, n)),
           NEW M \in SUBSET SentFor(r, n), IsFiniteSet(M)
    PROVE  /\ x \o SetToSeq(M) \in Seq(Response)
           /\ Continues(x \o SetToSeq(M), w, SentFor(r, n))
<1>1. SetToSeq(M) \in Seq(M)
  BY SetToSeqIs
<1>2. \A i \in 1 .. Len(SetToSeq(M)) : SetToSeq(M)[i] \in SentFor(r, n)
  BY <1>1, ElementOfSeq
<1>3. SetToSeq(M) \in Seq(SentFor(r, n))
  BY <1>1, <1>2, SeqDef
<1>4. SentFor(r, n) \in SUBSET Response
  BY DEF SentFor, Response
<1> QED
  BY <1>3, <1>4, ContinuesOn

LEMMA SendsStep == ReadInv /\ (\E forgets \in BOOLEAN : Sends(forgets)) => ReadInv'
<1> SUFFICES ASSUME ReadInv, NEW forgets \in BOOLEAN, Sends(forgets) PROVE ReadInv'
  OBVIOUS
<1>1. PICK r \in Remote : r = remote
  BY ReadFacts
<1>2. PICK w \in Seq(Response) : w = wire
  BY ReadFacts
<1>3. PICK srv \in Table(Served) : srv = served
  BY ReadFacts
<1>4. PICK synced : synced = view.synced
  OBVIOUS
<1>5. PICK c \in Nat : c = Clock
  BY NowIs
<1>6. Watching(r, w, srv, synced)
  BY <1>1, <1>2, <1>3, <1>4, ReadFacts
<1>7. open
  <2>1. DOMAIN served # {}
    BY DEF Sends
  <2>2. served # << >>
    BY <2>1, EmptyTable
  <2> QED
    BY <1>3, <1>6, <2>2 DEF Watching, Closed
<1>8. PICK I : I = {id \in DOMAIN served :
                        /\ forgets /\ ~served[id].current
                        /\ served[id].sent > 0 \/ id # Query}
  OBVIOUS
<1>9. I \in SUBSET DOMAIN served /\ DOMAIN served \ I \in SUBSET DOMAIN served
  BY <1>8
<1>10. PICK d : d = w \o SetToSeq(Documents)
  OBVIOUS
<1>11. PICK e : e = d \o SetToSeq(Deletions(DOMAIN served \ I))
  OBVIOUS
<1>12. PICK f : f = e \o SetToSeq(Currents)
  OBVIOUS
<1>13. PICK g : g = f \o SetToSeq(Filters(I))
  OBVIOUS
<1>14. PICK end : end = [type |-> "snapshot", version |-> c]
  OBVIOUS
<1>15. wire' = g \o <<end>>
  BY <1>2, <1>5, <1>8, <1>10, <1>11, <1>12, <1>13, <1>14 DEF Sends
<1>16. d \in Seq(Response) /\ Continues(d, w, SentFor(r, c))
  <2>1. Continues(w, w, SentFor(r, c))
    BY LenProperties DEF Continues
  <2> QED
    BY <1>1, <1>5, <1>10, <2>1, DocumentsAre, SentOn
<1>17. e \in Seq(Response) /\ Continues(e, w, SentFor(r, c))
  BY <1>1, <1>5, <1>9, <1>11, <1>16, DeletionsAre, SentOn
<1>18. f \in Seq(Response) /\ Continues(f, w, SentFor(r, c))
  BY <1>1, <1>5, <1>12, <1>17, CurrentsAre, SentOn
<1>19. g \in Seq(Response) /\ Continues(g, w, SentFor(r, c))
  BY <1>1, <1>5, <1>9, <1>13, <1>18, FiltersAre, SentOn
<1>20. PICK x : x = g \o <<end>>
  OBVIOUS
<1>21. x \in Seq(Response) /\ Continues(x, w, SentFor(r, c))
  <2>1. end \in SentFor(r, c)
    BY <1>14 DEF SentFor, Sent
  <2>2. <<end>> \in Seq(SentFor(r, c))
    BY <2>1
  <2>3. SentFor(r, c) \in SUBSET Response
    BY DEF SentFor, Response
  <2> QED
    BY <1>19, <1>20, <2>2, <2>3, ContinuesOn
<1>22. PICK n : n = served'
  OBVIOUS
<1>23. n \in Table(Served) /\ DOMAIN n = DOMAIN srv
       /\ \A id \in DOMAIN n : n[id].covers = srv[id].covers
  <2>1. n = [id \in DOMAIN srv |-> [srv[id] EXCEPT !.sent = c, !.current = TRUE]]
    BY <1>3, <1>5, <1>22 DEF Sends
  <2>2. DOMAIN srv \in SUBSET Nat /\ \A id \in DOMAIN srv : srv[id] \in Served
    BY TableIs
  <2>3. \A id \in DOMAIN srv : /\ n[id] \in Served
                               /\ n[id].covers = srv[id].covers
    BY <2>1, <2>2 DEF Served
  <2>4. n \in [DOMAIN srv -> Served]
    BY <2>1, <2>3
  <2> QED
    BY <2>1, <2>2, <2>3, <2>4, IsTable
<1>24. Watching(r, x, n, synced)
  BY <1>6, <1>7, <1>21, <1>23, SentKeeps
<1>25. /\ remote' = remote /\ open' = open /\ last' = last /\ Clock' = Clock
       /\ UNCHANGED <<history, answers, disk, target, open, offline, updates,
                      resets, view, program, resetting>>
  BY DEF Sends, disk, program, Clock
<1>26. /\ remote' \in Remote /\ remote'.listens = remote.listens
       /\ served' \in Table(Served) /\ wire' \in Seq(Response)
       /\ Watching(remote', wire', served', view.synced)
  BY <1>1, <1>4, <1>15, <1>20, <1>21, <1>22, <1>23, <1>24, <1>25
<1>27. InOrder'
  <2>1. /\ Len(w) \in Nat /\ Len(x) \in Nat
        /\ \A i \in 1 .. Len(w) : x[i] = w[i]
        /\ \A i \in 1 .. Len(x) : i \in 1 .. Len(w) \/ x[i] \in SentFor(r, c)
    <3>1. Len(w) \in Nat /\ Len(x) \in Nat
      BY <1>21, LenProperties
    <3> QED
      BY <1>21, <3>1 DEF Continues
  <2>2. \A m \in SentFor(r, c) : IsSnapshot(m) => m.version = c
    BY DEF SentFor, IsSnapshot
  <2>3. /\ last <= c /\ last \in Nat
        /\ \A i \in 1 .. Len(w) : IsSnapshot(w[i]) =>
               last <= w[i].version /\ w[i].version <= c
        /\ \A i, j \in 1 .. Len(w) :
               i < j /\ IsSnapshot(w[i]) /\ IsSnapshot(w[j]) =>
                   w[i].version <= w[j].version
    BY <1>2, <1>5 DEF ReadInv, InOrder, Types, DiskTypes
  <2>4. \A i \in 1 .. Len(x) : IsSnapshot(x[i]) => last <= x[i].version /\ x[i].version <= c
    BY <2>1, <2>2, <2>3
  <2>5. \A i, j \in 1 .. Len(x) :
            i < j /\ IsSnapshot(x[i]) /\ IsSnapshot(x[j]) =>
                x[i].version <= x[j].version
    <3> SUFFICES ASSUME NEW i \in 1 .. Len(x), NEW j \in 1 .. Len(x), i < j,
                        IsSnapshot(x[i]), IsSnapshot(x[j])
                 PROVE  x[i].version <= x[j].version
      OBVIOUS
    <3>1. CASE j \in 1 .. Len(w)
      BY <2>1, <2>3, <3>1
    <3>2. CASE j \notin 1 .. Len(w)
      BY <2>1, <2>2, <2>4, <3>2
    <3> QED
      BY <3>1, <3>2
  <2>6. wire' = x /\ last' = last /\ Clock' = c
    BY <1>5, <1>15, <1>20, <1>25
  <2> QED
    BY <2>3, <2>4, <2>5, <2>6 DEF InOrder
<1> QED
  BY <1>25, <1>26, <1>27, ServerKeeps

-----------------------------------------------------------------------------
(* The watch stream opens and breaks, the client goes offline or dies.     *)

LEMMA BelowFinite ==
    ASSUME NEW D \in SUBSET Nat, NEW n \in Nat, \A id \in D : id < n
    PROVE  IsFiniteSet(D)
<1>1. IsFiniteSet(0 .. n)
  BY FS_Interval
<1>2. D \in SUBSET (0 .. n)
  OBVIOUS
<1> QED
  BY <1>1, <1>2, FS_Subset

(* The targets of a stream that opens, asked for in the order ids.         *)
AskedFor(r, ids) ==
    [r EXCEPT !.agg = [id \in DOMAIN r.listens |-> [Fresh EXCEPT !.pending = 1]],
              !.requests = [i \in DOMAIN ids |->
                  Watch(ids[i], CoveredBy(r, ids[i]), r.listens[ids[i]])]]

(* Every target is asked for once.                                         *)
LEMMA OpenedKeeps ==
    ASSUME NEW r \in Remote, Paired(r), NEW srv, NEW w, Numbered(r, w, srv),
           NEW ids \in SetToSeqs(DOMAIN r.listens), NEW s, s = AskedFor(r, ids),
           NEW synced
    PROVE  /\ s \in Remote /\ s.listens = r.listens
           /\ Numbered(s, << >>, << >>) /\ Paired(s) /\ Pending(s, << >>)
           /\ AboutOne(s, << >>, << >>) /\ Fits(s, synced)
<1>1. PICK D : D = DOMAIN r.listens
  OBVIOUS
<1>2. /\ D \subseteq Nat /\ \A id \in D : r.listens[id] \in Nat
      /\ \A id \in DOMAIN r.limbo : r.limbo[id] \in Lookup
      /\ DOMAIN r.limbo = D \ {Query} /\ r.next \in Nat /\ r.next > 0
      /\ \A id \in D : id < r.next
  BY <1>1, NumbersAre, TableIs DEF Paired, Numbered
<1>3. IsFiniteSet(D)
  BY <1>1, <1>2, BelowFinite
<1>5. /\ ids \in Seq(D) /\ Len(ids) \in Nat /\ DOMAIN ids = 1 .. Len(ids)
      /\ \A i \in 1 .. Len(ids) : ids[i] \in D
      /\ \A i, j \in 1 .. Len(ids) : ids[i] = ids[j] => i = j
      /\ \A x \in D : \E i \in 1 .. Len(ids) : ids[i] = x
  <2>1. /\ ids \in Seq(D)
        /\ \A i, j \in 1 .. Len(ids) : ids[i] = ids[j] => i = j
        /\ \A x \in D : \E i \in 1 .. Len(ids) : ids[i] = x
    <3>1. ids \in SetToSeqs(D)
      BY <1>1
    <3> QED
      BY <1>3, <3>1, SetToSeqsIs
  <2>2. Len(ids) \in Nat /\ DOMAIN ids = 1 .. Len(ids)
    BY <2>1, LenProperties
  <2>3. \A i \in 1 .. Len(ids) : ids[i] \in D
    BY <2>1, ElementOfSeq
  <2> QED
    BY <2>1, <2>2, <2>3
<1>6. PICK q : q = [i \in 1 .. Len(ids) |->
                        Watch(ids[i], CoveredBy(r, ids[i]), r.listens[ids[i]])]
  OBVIOUS
<1>7. \A id \in D : /\ CoveredBy(r, id) \in SUBSET Docs
                    /\ id \in DOMAIN r.limbo => CoveredBy(r, id) = {r.limbo[id].key}
  BY <1>2 DEF CoveredBy, Lookup
<1>8. \A i \in 1 .. Len(ids) :
          /\ q[i] \in Request /\ q[i].id = ids[i]
          /\ ids[i] \in DOMAIN r.limbo => q[i].covers \subseteq {r.limbo[ids[i]].key}
  <2> SUFFICES ASSUME NEW i \in 1 .. Len(ids)
               PROVE  /\ q[i] \in Request /\ q[i].id = ids[i]
                      /\ ids[i] \in DOMAIN r.limbo =>
                             q[i].covers \subseteq {r.limbo[ids[i]].key}
    OBVIOUS
  <2>1. PICK id \in D : id = ids[i]
    BY <1>5
  <2>2. PICK c \in SUBSET Docs, t \in Nat : c = CoveredBy(r, id) /\ t = r.listens[id]
    BY <1>2, <1>7
  <2>3. q[i] = [ask |-> "watch", id |-> id, covers |-> c, token |-> t]
    BY <1>6, <2>1, <2>2 DEF Watch
  <2>4. q[i] \in Request /\ q[i].id = id /\ q[i].covers = c
    BY <1>2, <2>3 DEF Request
  <2> QED
    BY <1>7, <2>1, <2>2, <2>4
<1>9. q \in Seq(Request) /\ Len(q) = Len(ids)
  <2>1. q \in [1 .. Len(ids) -> Request]
    BY <1>6, <1>8
  <2> QED
    BY <1>5, <2>1, IsASeq, LenProperties
<1>10. PICK st : st = [Fresh EXCEPT !.pending = 1]
  OBVIOUS
<1>11. st \in TargetState /\ st.pending = 1
  BY <1>10, FreshIs DEF TargetState
<1>12. PICK a : a = [id \in D |-> st]
  OBVIOUS
<1>13. a \in Table(TargetState) /\ DOMAIN a = D /\ \A id \in D : a[id] = st
  <2>1. a \in [D -> TargetState]
    BY <1>11, <1>12
  <2>2. D \in SUBSET Nat
    BY <1>2
  <2> QED
    BY <1>12, <2>1, <2>2, IsTable
<1>14. s = [r EXCEPT !.agg = a, !.requests = q]
  BY <1>1, <1>5, <1>6, <1>10, <1>12 DEF AskedFor
<1>15. /\ s \in Remote /\ s.listens = r.listens /\ s.limbo = r.limbo
       /\ s.next = r.next /\ s.agg = a /\ s.requests = q
  BY <1>9, <1>13, <1>14 DEF Remote
<1>16. Numbered(s, << >>, << >>)
  <2>1. \A i \in 1 .. Len(q) : q[i].id < r.next
    BY <1>2, <1>5, <1>8, <1>9
  <2>2. DOMAIN << >> = {} /\ Len(<< >>) = 0
    OBVIOUS
  <2> QED
    BY <1>1, <1>2, <1>13, <1>15, <2>1, <2>2 DEF Numbered
<1>17. Paired(s)
  BY <1>15 DEF Paired
<1>18. Pending(s, << >>)
  <2> SUFFICES ASSUME NEW id \in Nat
               PROVE  StateOf(s, id).pending =
                        Count(q, RequestsOf(id)) + Count(<< >>, AcksOf(id))
    BY <1>15 DEF Pending
  <2>1. Count(<< >>, AcksOf(id)) = 0
    BY CountEmpty
  <2>2. CASE id \in D
    <3>1. PICK i \in 1 .. Len(ids) : ids[i] = id
      BY <1>5, <2>2
    <3>2. Places(q, RequestsOf(id)) = {i}
      BY <1>5, <1>8, <1>9, <3>1 DEF Places, RequestsOf
    <3>3. Count(q, RequestsOf(id)) = 1
      BY <3>2, FS_Singleton DEF Count
    <3>4. StateOf(s, id).pending = 1
      BY <1>11, <1>13, <1>15, <2>2 DEF StateOf
    <3> QED
      BY <2>1, <3>3, <3>4
  <2>3. CASE id \notin D
    <3>1. Places(q, RequestsOf(id)) = {}
      BY <1>5, <1>8, <1>9, <2>3 DEF Places, RequestsOf
    <3>2. Count(q, RequestsOf(id)) = 0
      BY <3>1, FS_EmptySet DEF Count
    <3>3. StateOf(s, id).pending = 0
      BY <1>13, <1>15, <2>3, FreshIs DEF StateOf
    <3> QED
      BY <2>1, <3>2, <3>3
  <2> QED
    BY <2>2, <2>3
<1>19. AboutOne(s, << >>, << >>)
  <2>1. \A i \in 1 .. Len(q) : q[i].id \in DOMAIN r.limbo =>
            q[i].covers \subseteq {r.limbo[q[i].id].key}
    BY <1>8, <1>9
  <2>2. DOMAIN << >> = {} /\ Len(<< >>) = 0
    OBVIOUS
  <2> QED
    BY <1>15, <2>1, <2>2 DEF AboutOne
<1>20. Fits(s, synced)
  BY <1>11, <1>13, <1>15 DEF Fits
<1> QED
  BY <1>15, <1>16, <1>17, <1>18, <1>19, <1>20

LEMMA OpenStep == ReadInv /\ OnWatchStreamOpen => ReadInv'
<1> SUFFICES ASSUME ReadInv, OnWatchStreamOpen PROVE ReadInv'
  OBVIOUS
<1>1. PICK r \in Remote : r = remote
  BY ReadFacts
<1>2. PICK w \in Seq(Response) : w = wire
  BY ReadFacts
<1>3. PICK srv \in Table(Served) : srv = served
  BY ReadFacts
<1>4. PICK synced : synced = view.synced
  OBVIOUS
<1>5. /\ Watching(r, w, srv, synced) /\ ~open
      /\ w = << >> /\ srv = << >>
  BY <1>1, <1>2, <1>3, <1>4, ReadFacts DEF OnWatchStreamOpen, Watching, Closed
<1>6. PICK s : s = remote'
  OBVIOUS
<1>7. PICK ids \in SetToSeqs(DOMAIN remote.listens) :
            remote' = AskedFor(remote, ids)
  BY Zenon DEF OnWatchStreamOpen, AskedFor
<1>8. Paired(r) /\ Numbered(r, w, srv)
  BY <1>5 DEF Watching
<1>9. /\ s \in Remote /\ s.listens = r.listens
      /\ Numbered(s, << >>, << >>) /\ Paired(s) /\ Pending(s, << >>)
      /\ AboutOne(s, << >>, << >>) /\ Fits(s, synced)
  <2>1. ids \in SetToSeqs(DOMAIN r.listens)
    BY <1>1, <1>7
  <2>2. s = AskedFor(r, ids)
    BY <1>1, <1>6, <1>7
  <2> QED
    BY <1>1, <1>8, <2>1, <2>2, OpenedKeeps
<1>10. /\ open' = TRUE /\ wire' = wire /\ served' = served /\ history' = history
       /\ answers' = answers /\ target' = target /\ offline' = offline
       /\ updates' = updates /\ resets' = resets /\ view' = view
       /\ resetting' = resetting
       /\ queue' = queue /\ cache' = cache /\ keys' = keys /\ saved' = saved
       /\ last' = last /\ opened' = opened /\ raised' = raised /\ shown' = shown
  BY DEF OnWatchStreamOpen, server, disk, program
<1>11. Types'
  BY <1>6, <1>9, <1>10
     DEF ReadInv, Types, ServerTypes, DiskTypes, ClientTypes, ProgramTypes
<1>12. Watching(remote, wire, served, view.synced)'
  BY <1>2, <1>3, <1>4, <1>5, <1>6, <1>9, <1>10 DEF Watching
<1>13. InOrder'
  BY <1>10 DEF ReadInv, InOrder, Clock
<1>14. ViewFirst'
  <2>1. view.on
    BY DEF OnWatchStreamOpen, ReadInv, ViewFirst
  <2> QED
    BY <1>10, <2>1 DEF ViewFirst
<1>15. ListenersAgree'
  BY <1>10 DEF ReadInv, ListenersAgree, FirstEvent
<1> QED
  BY <1>11, <1>12, <1>13, <1>14, <1>15 DEF ReadInv

(* A closed stream has no state.                                           *)
LEMMA ClosedKeeps ==
    ASSUME NEW r \in Remote, Paired(r), r.next > 0,
           \A id \in DOMAIN r.listens : id < r.next,
           NEW s, s = [r EXCEPT !.agg = << >>, !.requests = << >>], NEW synced
    PROVE  /\ s \in Remote /\ s.listens = r.listens
           /\ Numbered(s, << >>, << >>) /\ Paired(s) /\ Pending(s, << >>)
           /\ AboutOne(s, << >>, << >>) /\ Fits(s, synced)
           /\ Closed(s, << >>, << >>)
<1>1. << >> \in Table(TargetState) /\ DOMAIN << >> = {} /\ Len(<< >>) = 0
      /\ << >> \in Seq(Request)
  BY EmptyTable
<1>2. /\ s \in Remote /\ s.listens = r.listens /\ s.limbo = r.limbo
      /\ s.next = r.next /\ s.agg = << >> /\ s.requests = << >>
  BY <1>1 DEF Remote
<1>3. Numbered(s, << >>, << >>)
  BY <1>1, <1>2 DEF Numbered
<1>4. Paired(s)
  BY <1>2 DEF Paired
<1>5. Pending(s, << >>)
  <2> SUFFICES ASSUME NEW id \in Nat
               PROVE  StateOf(s, id).pending =
                        Count(<< >>, RequestsOf(id)) + Count(<< >>, AcksOf(id))
    BY <1>2 DEF Pending
  <2>1. StateOf(s, id).pending = 0
    BY <1>1, <1>2, FreshIs DEF StateOf
  <2>2. Count(<< >>, RequestsOf(id)) = 0 /\ Count(<< >>, AcksOf(id)) = 0
    BY CountEmpty
  <2> QED
    BY <2>1, <2>2
<1>6. AboutOne(s, << >>, << >>)
  BY <1>1, <1>2 DEF AboutOne
<1>7. Fits(s, synced)
  BY <1>1, <1>2 DEF Fits
<1>8. Closed(s, << >>, << >>)
  BY <1>2 DEF Closed
<1> QED
  BY <1>2, <1>3, <1>4, <1>5, <1>6, <1>7, <1>8

LEMMA CloseStep == ReadInv /\ OnWatchStreamClose => ReadInv'
<1> SUFFICES ASSUME ReadInv, OnWatchStreamClose PROVE ReadInv'
  OBVIOUS
<1>1. PICK r \in Remote : r = remote
  BY ReadFacts
<1>2. PICK synced : synced = view.synced
  OBVIOUS
<1>3. /\ Paired(r) /\ r.next > 0 /\ \A id \in DOMAIN r.listens : id < r.next
  BY <1>1, ReadFacts DEF Watching, Numbered
<1>4. PICK s : s = remote'
  OBVIOUS
<1>5. s = [r EXCEPT !.agg = << >>, !.requests = << >>]
  BY <1>1, <1>4 DEF OnWatchStreamClose
<1>6. /\ s \in Remote /\ s.listens = r.listens
      /\ Numbered(s, << >>, << >>) /\ Paired(s) /\ Pending(s, << >>)
      /\ AboutOne(s, << >>, << >>) /\ Fits(s, synced)
      /\ Closed(s, << >>, << >>)
  BY <1>3, <1>5, ClosedKeeps
<1>7. /\ open' = FALSE /\ wire' = << >> /\ served' = << >> /\ history' = history
      /\ answers' = answers /\ target' = target /\ offline' = offline
      /\ updates' = NoUpdates /\ resets' = {} /\ view' = view
      /\ resetting' = resetting
      /\ queue' = queue /\ cache' = cache /\ keys' = keys /\ saved' = saved
      /\ last' = last /\ opened' = opened /\ raised' = raised /\ shown' = shown
  BY DEF OnWatchStreamClose, disk, program
<1>8. Types'
  <2>1. NoUpdates \in [Docs -> Seq(Update)]
    BY DEF NoUpdates
  <2>2. << >> \in Table(Served) /\ << >> \in Seq(Response)
    BY EmptyTable
  <2> QED
    BY <1>4, <1>6, <1>7, <2>1, <2>2
       DEF ReadInv, Types, ServerTypes, DiskTypes, ClientTypes, ProgramTypes
<1>9. Watching(remote, wire, served, view.synced)'
  BY <1>2, <1>4, <1>6, <1>7 DEF Watching
<1>10. InOrder'
  <2>1. Len(<< >>) = 0
    OBVIOUS
  <2> QED
    BY <1>7, <2>1 DEF ReadInv, InOrder, Clock
<1>11. ViewFirst'
  BY <1>1, <1>4, <1>6, <1>7 DEF ReadInv, ViewFirst
<1>12. ListenersAgree'
  BY <1>7 DEF ReadInv, ListenersAgree, FirstEvent
<1> QED
  BY <1>8, <1>9, <1>10, <1>11, <1>12 DEF ReadInv

LEMMA NoTargetsIs ==
    /\ NoTargets \in Remote /\ NoTargets.listens = << >>
    /\ \A synced : /\ Numbered(NoTargets, << >>, << >>) /\ Paired(NoTargets)
                   /\ Pending(NoTargets, << >>)
                   /\ AboutOne(NoTargets, << >>, << >>)
                   /\ Fits(NoTargets, synced)
                   /\ Closed(NoTargets, << >>, << >>)
<1>1. /\ << >> \in Table(TargetState) /\ << >> \in Table(Nat)
      /\ << >> \in Table(Lookup) /\ << >> \in Seq(Docs) /\ << >> \in Seq(Request)
      /\ DOMAIN << >> = {}
  BY EmptyTable
<1>2. NoTargets \in Remote
  BY <1>1 DEF NoTargets, Remote
<1>3. /\ NoTargets.listens = << >> /\ NoTargets.limbo = << >>
      /\ NoTargets.next = 1 /\ NoTargets.agg = << >>
      /\ NoTargets.requests = << >>
  BY DEF NoTargets
<1>4. ASSUME NEW r \in Remote, r.agg = << >>, r.requests = << >>
      PROVE  r = [r EXCEPT !.agg = << >>, !.requests = << >>]
  BY <1>4 DEF Remote
<1>5. Paired(NoTargets)
  BY <1>1, <1>3 DEF Paired
<1>6. NoTargets.next > 0 /\ \A id \in DOMAIN NoTargets.listens : id < NoTargets.next
  BY <1>1, <1>3
<1>7. PICK r \in Remote : r = NoTargets
  BY <1>2
<1>8. /\ r = [r EXCEPT !.agg = << >>, !.requests = << >>] /\ Paired(r)
      /\ r.next > 0 /\ \A id \in DOMAIN r.listens : id < r.next
  BY <1>3, <1>4, <1>5, <1>6, <1>7
<1>9. ASSUME NEW synced
      PROVE  /\ Numbered(r, << >>, << >>) /\ Paired(r) /\ Pending(r, << >>)
             /\ AboutOne(r, << >>, << >>) /\ Fits(r, synced)
             /\ Closed(r, << >>, << >>)
  BY <1>7, <1>8, ClosedKeeps
<1> QED
  BY <1>2, <1>3, <1>7, <1>9

LEMMA NoViewIs ==
    /\ NoView \in View /\ ~NoView.on /\ NoView.state = "None"
    /\ \A k \in Docs : NoView.docs[k] = Absent
    /\ NoView.docs \in [Docs -> Values]
BY DEF NoView, View, Values

LEMMA CrashStep == ReadInv /\ Crash => ReadInv'
<1> SUFFICES ASSUME ReadInv, Crash PROVE ReadInv'
  OBVIOUS
<1>1. /\ open' = FALSE /\ offline' = FALSE /\ remote' = NoTargets
      /\ updates' = NoUpdates /\ resets' = {} /\ served' = << >>
      /\ wire' = << >> /\ answers' = << >> /\ view' = NoView
      /\ target' = Unknown /\ opened' = {} /\ raised' = {}
      /\ shown' = [l \in Listeners |-> NoView.docs]
      /\ history' = history /\ queue' = queue /\ cache' = cache
      /\ keys' = keys /\ saved' = saved /\ last' = last
  BY DEF Crash, disk
<1>2. Types'
  <2>1. ServerTypes'
    <3>1. << >> \in Table(Served) /\ << >> \in Seq(Response)
      BY EmptyTable
    <3>2. << >> \in Seq(Answer) /\ Len(<< >>) = 0
      OBVIOUS
    <3> QED
      BY <1>1, <3>1, <3>2, HistoryIs DEF ServerTypes
  <2>2. DiskTypes'
    BY <1>1 DEF ReadInv, Types, DiskTypes
  <2>3. ClientTypes'
    <3>1. NoUpdates \in [Docs -> Seq(Update)] /\ Unknown \in TargetData
      BY DEF NoUpdates, Unknown, TargetData
    <3>2. resetting' \in {"no", "yes", "torn"}
      BY DEF Crash
    <3> QED
      BY <1>1, <3>1, <3>2, NoTargetsIs, NoViewIs DEF ClientTypes
  <2>4. ProgramTypes'
    BY <1>1, NoViewIs DEF ProgramTypes
  <2> QED
    BY <2>1, <2>2, <2>3, <2>4 DEF Types
<1>3. Watching(remote, wire, served, view.synced)'
  BY <1>1, NoTargetsIs DEF Watching
<1>4. InOrder'
  <2>1. Len(<< >>) = 0
    OBVIOUS
  <2> QED
    BY <1>1, <2>1 DEF ReadInv, InOrder, Clock
<1>5. ViewFirst'
  BY <1>1, NoTargetsIs DEF ViewFirst
<1>6. ListenersAgree'
  BY <1>1 DEF ListenersAgree
<1> QED
  BY <1>2, <1>3, <1>4, <1>5, <1>6 DEF ReadInv

LEMMA OfflineStep == ReadInv /\ GoOffline => ReadInv'
<1> SUFFICES ASSUME ReadInv, GoOffline PROVE ReadInv'
  OBVIOUS
<1>1. /\ view.on /\ offline' = TRUE
      /\ OnViewSnapshot(Untouched, view', TRUE)
      /\ history' = history /\ served' = served /\ wire' = wire
      /\ answers' = answers /\ target' = target /\ open' = open
      /\ remote' = remote /\ updates' = updates /\ resets' = resets
      /\ resetting' = resetting
      /\ queue' = queue /\ cache' = cache /\ keys' = keys /\ saved' = saved
      /\ last' = last
  BY DEF GoOffline, server, disk
<1>2. PICK v \in View : v = view
  BY ReadFacts
<1>3. PICK u : u = view'
  OBVIOUS
<1>4. u = [v EXCEPT !.current = FALSE, !.state = "Local"]
  BY <1>2, <1>3 DEF GoOffline
<1>5. u \in View /\ u.on = v.on /\ u.synced = v.synced /\ u.docs = v.docs
  BY <1>4 DEF View
<1>6. Untouched \in [Docs -> Kind] /\ \A k \in Docs : Untouched[k] = "none"
  BY DEF Untouched, Kind
<1>7. ProgramTypes
  BY DEF ReadInv, Types
<1>8. /\ ProgramTypes' /\ opened' = opened
      /\ \A l \in opened \ raised :
             IF FirstEvent(u, TRUE) THEN l \in raised' /\ shown'[l] = u.docs
             ELSE l \notin raised'
      /\ \A l \in raised :
             /\ l \in raised'
             /\ \A k \in Docs :
                    shown'[l][k] =
                        IF Untouched[k] \in {"added", "modified", "removed"}
                        THEN u.docs[k] ELSE shown[l][k]
  <2>1. OnViewSnapshot(Untouched, u, TRUE)
    BY <1>1, <1>3
  <2> QED
    BY <1>5, <1>6, <1>7, <2>1, OnViewSnapshotIs
<1>9. Types'
  BY <1>1, <1>3, <1>5, <1>8
     DEF ReadInv, Types, ServerTypes, DiskTypes, ClientTypes
<1>10. Watching(remote, wire, served, view.synced)'
  BY <1>1, <1>2, <1>3, <1>5 DEF ReadInv, Watching
<1>11. InOrder'
  BY <1>1 DEF ReadInv, InOrder, Clock
<1>12. ViewFirst'
  BY <1>1, <1>2, <1>3, <1>5 DEF ViewFirst
<1>13. ListenersAgree'
  <2> SUFFICES ASSUME NEW l \in opened
               PROVE  l \in raised' /\ shown'[l] = u.docs
    BY <1>3, <1>8 DEF ListenersAgree
  <2>1. CASE l \in raised
    <3>1. shown[l] = v.docs
      BY <1>2, <2>1 DEF ReadInv, ListenersAgree
    <3>2. l \in Listeners /\ shown'[l] \in [Docs -> Values] /\ v.docs \in [Docs -> Values]
      BY <1>7, <1>8 DEF ProgramTypes, View
    <3>3. \A k \in Docs : shown'[l][k] = v.docs[k]
      BY <1>6, <1>8, <2>1, <3>1
    <3>4. shown'[l] = v.docs
      BY <3>2, <3>3
    <3> QED
      BY <1>5, <1>8, <2>1, <3>4
  <2>2. CASE l \notin raised
    <3>1. FirstEvent(u, TRUE)
      BY DEF FirstEvent
    <3> QED
      BY <1>8, <2>2, <3>1
  <2> QED
    BY <2>1, <2>2
<1> QED
  BY <1>9, <1>10, <1>11, <1>12, <1>13 DEF ReadInv

-----------------------------------------------------------------------------
(* The program and the write path.                                         *)

LEMMA EmittedKeeps ==
    ASSUME ReadInv, NEW ks \in SUBSET Docs,
           Emit(ks, NoTargetChange(view), remote, target),
           cache' \in [Docs -> Cached], queue' \in Seq(Writes),
           answers' \in Seq(Answer), Len(answers') <= Len(queue'),
           UNCHANGED <<server, wire, keys, saved, last, open, updates, resets,
                       resetting, offline>>
    PROVE  ReadInv'
<1>1. /\ history' = history /\ served' = served /\ wire' = wire /\ keys' = keys
      /\ saved' = saved /\ last' = last /\ open' = open /\ updates' = updates
      /\ resets' = resets /\ resetting' = resetting /\ offline' = offline
  BY DEF server
<1>2. PICK tc \in TargetChange : /\ tc = NoTargetChange(view)
                                 /\ tc.added = {} /\ tc.removed = {}
  BY ReadFacts, NoTargetChangeIs
<1>3. PICK r \in Remote : r = remote
  BY ReadFacts
<1>4. PICK t \in TargetData : t = target
  BY DEF ReadInv, Types, ClientTypes
<1>5. Types /\ offline' \in BOOLEAN /\ Emit(ks, tc, r, t)
  BY <1>1, <1>2, <1>3, <1>4 DEF ReadInv, Types, ClientTypes
<1>6. /\ view' \in View /\ view'.on = view.on
      /\ target' \in TargetData
      /\ ProgramTypes' /\ opened' = opened
      /\ ~view.on => remote' = r /\ view' = view
      /\ view.on =>
             /\ remote' = LimboUpdated(r, view.limbo, view'.limbo)
             /\ view'.synced = (view.synced \cup tc.added) \ tc.removed
      /\ ListenersAgree /\ (offline' => offline) /\ (~view.on => opened = {})
             => ListenersAgree'
  BY <1>5, EmitIs
<1>7. PICK w \in Seq(Response) : w = wire
  BY ReadFacts
<1>8. PICK srv \in Table(Served) : srv = served
  BY ReadFacts
<1>9. PICK synced : synced = view.synced
  OBVIOUS
<1>10. Watching(r, w, srv, synced)
  BY <1>3, <1>7, <1>8, <1>9, ReadFacts
<1>11. view'.synced = synced
  BY <1>2, <1>6, <1>9
<1>12. remote' \in Remote /\ Watching(remote', w, srv, synced)
  <2>1. CASE view.on
    <3>1. PICK old \in SUBSET Docs : old = view.limbo
      BY ReadFacts DEF View
    <3>2. PICK new \in SUBSET Docs : new = view'.limbo
      BY <1>6 DEF View
    <3>3. remote' = LimboUpdated(r, old, new)
      BY <1>6, <2>1, <3>1, <3>2
    <3> QED
      BY <1>10, <3>3, LimboUpdatedKeeps
  <2>2. CASE ~view.on
    BY <1>6, <1>10, <2>2
  <2> QED
    BY <2>1, <2>2
<1>13. Types'
  BY <1>1, <1>6, <1>12
     DEF ReadInv, Types, ServerTypes, DiskTypes, ClientTypes
<1>14. Watching(remote, wire, served, view.synced)'
  BY <1>1, <1>7, <1>8, <1>11, <1>12 DEF Watching
<1>15. InOrder'
  BY <1>1 DEF ReadInv, InOrder, Clock
<1>16. ViewFirst'
  BY <1>1, <1>3, <1>6 DEF ReadInv, ViewFirst
<1>17. ListenersAgree'
  BY <1>1, <1>6 DEF ReadInv, ViewFirst
<1> QED
  BY <1>13, <1>14, <1>15, <1>16, <1>17 DEF ReadInv

LEMMA DiskIs ==
    ASSUME ReadInv
    PROVE  /\ queue \in Seq(Writes) /\ cache \in [Docs -> Cached]
           /\ keys \in SUBSET Docs /\ saved \in TargetData /\ last \in Nat
BY DEF ReadInv, Types, DiskTypes

LEMMA WriteStep == ReadInv /\ (\E w \in Writes : Write(w)) => ReadInv'
<1> SUFFICES ASSUME ReadInv, NEW w \in Writes, Write(w) PROVE ReadInv'
  OBVIOUS
<1>1. PICK ks \in SUBSET Docs : ks = {Where[w]}
  BY ViewAssumption
<1>2. /\ Emit(ks, NoTargetChange(view), remote, target)
      /\ cache' = cache /\ queue' = Append(queue, w) /\ answers' = answers
      /\ UNCHANGED <<server, wire, keys, saved, last, open, updates, resets,
                     resetting, offline>>
  BY <1>1 DEF Write, server
<1>3. /\ cache' \in [Docs -> Cached] /\ queue' \in Seq(Writes)
      /\ answers' \in Seq(Answer) /\ Len(answers') <= Len(queue')
  BY <1>2, HistoryIs, DiskIs, AppendProperties
<1> QED
  BY <1>2, <1>3, EmittedKeeps

LEMMA AcknowledgedIs ==
    ASSUME NEW c \in Cached, NEW a \in Answer
    PROVE  Acknowledged(c, a) \in Cached
BY DEF Acknowledged, Cached, Answer, Values

LEMMA WriteAnsweredStep == ReadInv /\ WriteAnswered => ReadInv'
<1> SUFFICES ASSUME ReadInv, WriteAnswered PROVE ReadInv'
  OBVIOUS
<1>1. PICK a \in Answer : a = Head(answers)
  BY HistoryIs, TailIs DEF WriteAnswered
<1>2. Where[a.write] \in Docs
  BY <1>1, ViewAssumption DEF Answer
<1>3. PICK ks \in SUBSET Docs : ks = {Where[a.write]}
  BY <1>2
<1>4. /\ Emit(ks, NoTargetChange(view), remote, target)
      /\ queue' = Tail(queue) /\ answers' = Tail(answers)
      /\ cache' = IF a.refused THEN cache
                  ELSE [cache EXCEPT ![Where[a.write]] = Acknowledged(@, a)]
      /\ UNCHANGED <<server, wire, keys, saved, last, open, updates, resets,
                     resetting, offline>>
  BY <1>1, <1>3 DEF WriteAnswered, server
<1>5. cache' \in [Docs -> Cached]
  <2>1. cache[Where[a.write]] \in Cached
    BY <1>2, DiskIs
  <2>2. PICK y : y = Acknowledged(cache[Where[a.write]], a)
    OBVIOUS
  <2>3. y \in Cached
    BY <1>1, <2>1, <2>2, AcknowledgedIs
  <2>4. cache' = cache \/ cache' = [cache EXCEPT ![Where[a.write]] = y]
    BY <1>4, <2>2
  <2> QED
    BY <1>2, <2>3, <2>4, DiskIs
<1>6. /\ queue' \in Seq(Writes) /\ answers' \in Seq(Answer)
      /\ Len(answers') <= Len(queue')
  <2>1. /\ answers # << >> /\ Len(answers) \in Nat /\ Len(queue) \in Nat
        /\ Len(answers) <= Len(queue)
        /\ answers \in Seq(Answer) /\ queue \in Seq(Writes)
    BY HistoryIs DEF WriteAnswered
  <2>2. Tail(answers) \in Seq(Answer) /\ Len(Tail(answers)) = Len(answers) - 1
        /\ 1 \in 1 .. Len(answers)
    BY <2>1, TailIs
  <2>3. queue # << >>
    BY <2>1, <2>2, EmptySeq
  <2>4. Tail(queue) \in Seq(Writes) /\ Len(Tail(queue)) = Len(queue) - 1
    BY <2>1, <2>3, TailIs
  <2> QED
    BY <1>4, <2>1, <2>2, <2>4
<1> QED
  BY <1>4, <1>5, <1>6, EmittedKeeps

LEMMA ListenStep == ReadInv /\ (\E l \in Listeners : Listen(l)) => ReadInv'
<1> SUFFICES ASSUME ReadInv, NEW l \in Listeners, Listen(l) PROVE ReadInv'
  OBVIOUS
<1>1. /\ l \notin opened /\ opened' = opened \cup {l}
      /\ history' = history /\ served' = served /\ wire' = wire
      /\ answers' = answers /\ open' = open /\ offline' = offline
      /\ updates' = updates /\ resets' = resets /\ resetting' = resetting
      /\ queue' = queue /\ cache' = cache /\ keys' = keys /\ saved' = saved
      /\ last' = last
  BY DEF Listen, server, disk
<1>2. PICK v : /\ v = view'
               /\ raised' = IF FirstEvent(v, offline) THEN raised \cup {l} ELSE raised
               /\ shown' = IF FirstEvent(v, offline)
                           THEN [shown EXCEPT ![l] = v.docs] ELSE shown
  BY DEF Listen
<1>3. /\ opened \in SUBSET Listeners /\ raised \in SUBSET opened
      /\ shown \in [Listeners -> [Docs -> Values]]
  BY DEF ReadInv, Types, ProgramTypes
<1>4. v \in View /\ v.on /\ (view.on => v = view)
  <2>1. CASE view.on
    <3>1. view' = view
      BY <2>1 DEF Listen
    <3> QED
      BY <1>2, <2>1, <3>1, ReadFacts
  <2>2. CASE ~view.on
    <3>1. PICK found, d, fresh, change :
              /\ found = IndexFree(cache, queue, keys, saved.limboFree)
              /\ d = [k \in Docs |-> LocalDoc(cache, queue, k)]
              /\ change = [k \in Docs |-> IF k \in found THEN "added" ELSE "none"]
              /\ fresh = [NoView EXCEPT !.synced = keys]
      OBVIOUS
    <3>2. view' = ApplyChanges(fresh, change, d, NoTargetChange(fresh))
      BY <2>2, <3>1 DEF Listen
    <3>3. fresh \in View
      BY <3>1, DiskIs, NoViewIs DEF View
    <3>4. change \in [Docs -> Kind]
      BY <3>1 DEF Kind
    <3>5. d \in [Docs -> Local]
      BY <3>1, DiskIs, LocalDocIs
    <3>6. PICK tc \in TargetChange : tc = NoTargetChange(fresh)
      BY <3>3, NoTargetChangeIs
    <3>7. view' = ApplyChanges(fresh, change, d, tc)
      BY <3>2, <3>6
    <3>8. view' \in View /\ view'.on
      BY <3>3, <3>4, <3>5, <3>7, ApplyChangesIs
    <3> QED
      BY <1>2, <2>2, <3>8
  <2> QED
    BY <2>1, <2>2
<1>5. /\ remote' \in Remote /\ target' \in TargetData
      /\ Watching(remote, wire, served, view.synced)'
  <2>1. CASE view.on
    <3>1. remote' = remote /\ target' = target /\ view' = view
      BY <1>2, <1>4, <2>1 DEF Listen
    <3> QED
      BY <1>1, <3>1 DEF ReadInv, Types, ClientTypes, Watching
  <2>2. CASE ~view.on
    <3>1. PICK r \in Remote : r = remote
      BY ReadFacts
    <3>2. r.listens = << >> /\ ~open
      BY <2>2, <3>1 DEF ReadInv, ViewFirst
    <3>3. PICK a : a = With(r.listens, Query, saved.token)
      OBVIOUS
    <3>4. a \in Table(Nat) /\ DOMAIN a = {Query}
      <4>1. saved.token \in Nat /\ Query \in Nat
        BY DiskIs DEF TargetData, Query
      <4>2. a \in Table(Nat)
        BY <3>1, <3>3, <4>1, NumbersAre, WithTable
      <4>3. DOMAIN << >> = {}
        OBVIOUS
      <4> QED
        BY <3>2, <3>3, <4>2, <4>3 DEF With
    <3>5. remote' = [r EXCEPT !.listens = a] /\ target' = saved
      BY <2>2, <3>1, <3>3 DEF Listen
    <3>6. PICK s : s = remote'
      OBVIOUS
    <3>7. /\ s \in Remote /\ s.listens = a /\ s.limbo = r.limbo /\ s.next = r.next
          /\ s.agg = r.agg /\ s.requests = r.requests
      BY <3>4, <3>5, <3>6 DEF Remote
    <3>8. Watching(r, wire, served, view.synced)
      BY <3>1, ReadFacts
    <3>9. wire = << >> /\ served = << >> /\ r.agg = << >> /\ r.requests = << >>
      BY <3>2, <3>8 DEF Watching, Closed
    <3>10. Closed(s, wire, served)
      BY <3>7, <3>9 DEF Closed
    <3>11. Numbered(s, wire, served)
      BY <3>4, <3>7, <3>8 DEF Watching, Numbered, Query
    <3>12. Paired(s)
      <4>1. DOMAIN r.limbo = {}
        <5>1. DOMAIN << >> = {}
          OBVIOUS
        <5> QED
          BY <3>2, <3>8, <5>1 DEF Watching, Paired
      <4> QED
        BY <3>4, <3>7, <4>1 DEF Paired
    <3>13. Pending(s, wire)
      BY <3>7, <3>8 DEF Watching, Pending, StateOf
    <3>14. AboutOne(s, wire, served)
      BY <3>7, <3>8 DEF Watching, AboutOne
    <3>15. Fits(s, v.synced)
      <4>1. DOMAIN s.agg = {}
        BY <3>7, <3>9
      <4> QED
        BY <4>1 DEF Fits
    <3> QED
      BY <1>1, <1>2, <3>5, <3>6, <3>7, <3>10, <3>11, <3>12, <3>13, <3>14, <3>15,
         DiskIs DEF Watching
  <2> QED
    BY <2>1, <2>2
<1>6. Types'
  <2>1. ProgramTypes'
    <3>1. v.docs \in [Docs -> Values]
      BY <1>4 DEF View
    <3> QED
      BY <1>1, <1>2, <1>3, <3>1 DEF ProgramTypes
  <2> QED
    BY <1>1, <1>2, <1>4, <1>5, <2>1
       DEF ReadInv, Types, ServerTypes, DiskTypes, ClientTypes
<1>7. InOrder'
  BY <1>1 DEF ReadInv, InOrder, Clock
<1>8. ViewFirst'
  BY <1>2, <1>4 DEF ViewFirst
<1>9. ListenersAgree'
  <2> SUFFICES ASSUME NEW j \in opened'
               PROVE  IF j \in raised' THEN shown'[j] = v.docs
                      ELSE ~FirstEvent(v, offline)
    BY <1>1, <1>2 DEF ListenersAgree
  <2>1. CASE j = l
    <3>1. l \notin raised
      BY <1>1, <1>3
    <3> QED
      BY <1>2, <1>3, <2>1, <3>1
  <2>2. CASE j # l
    <3>1. j \in opened /\ (j \in raised' <=> j \in raised) /\ shown'[j] = shown[j]
      BY <1>1, <1>2, <1>3, <2>2
    <3>2. v = view
      BY <1>4, <3>1 DEF ReadInv, ViewFirst
    <3> QED
      BY <3>1, <3>2 DEF ReadInv, ListenersAgree
  <2> QED
    BY <2>1, <2>2
<1> QED
  BY <1>5, <1>6, <1>7, <1>8, <1>9 DEF ReadInv

-----------------------------------------------------------------------------
(* A global snapshot.                                                      *)

(* The changes of the active targets are taken, and numbers, documents and *)
(* requests stay.                                                          *)
LEMMA RenewedKeeps ==
    ASSUME NEW w \in Seq(Response), NEW srv \in Table(Served), NEW synced,
           NEW r \in Remote, Watching(r, w, srv, synced),
           NEW s \in Remote, s.next = r.next, s.requests = r.requests,
           DOMAIN s.listens = DOMAIN r.listens,
           DOMAIN s.limbo = DOMAIN r.limbo,
           \A id \in DOMAIN r.limbo : s.limbo[id].key = r.limbo[id].key,
           DOMAIN s.agg = DOMAIN r.agg,
           \A id \in DOMAIN r.agg :
               /\ s.agg[id].pending = r.agg[id].pending
               /\ id \in DOMAIN r.listens /\ r.agg[id].pending = 0 =>
                      \A k \in Docs : s.agg[id].changes[k] = "none",
           NEW after, open
    PROVE  Watching(s, w, srv, after)
<1>1. /\ Numbered(r, w, srv) /\ Paired(r) /\ Pending(r, w)
      /\ AboutOne(r, w, srv)
  BY DEF Watching
<1>2. Numbered(s, w, srv)
  BY <1>1 DEF Numbered
<1>3. Paired(s)
  BY <1>1 DEF Paired
<1>4. Pending(s, w)
  <2> SUFFICES ASSUME NEW id \in Nat
               PROVE  StateOf(s, id).pending = StateOf(r, id).pending
    BY <1>1 DEF Pending
  <2> QED
    BY DEF StateOf
<1>5. AboutOne(s, w, srv)
  BY <1>1 DEF AboutOne
<1>6. Fits(s, after)
  BY DEF Fits
<1> QED
  BY <1>2, <1>3, <1>4, <1>5, <1>6 DEF Watching

LEMMA RewatchedKeeps ==
    ASSUME NEW w \in Seq(Response), NEW srv \in Table(Served), NEW synced,
           NEW r \in Remote, Watching(r, w, srv, synced), open
    PROVE  Rewatched(r) \in Remote /\ Watching(Rewatched(r), w, srv, synced)
<1>1. PICK a : a = [r.listens EXCEPT ![Query] = 0]
  OBVIOUS
<1>2. PICK s : s = [r EXCEPT !.listens = a]
  OBVIOUS
<1>3. a \in Table(Nat) /\ DOMAIN a = DOMAIN r.listens
  <2>1. DOMAIN r.listens \in SUBSET Nat /\ \A id \in DOMAIN r.listens : r.listens[id] \in Nat
    BY NumbersAre, TableIs
  <2>2. a \in [DOMAIN r.listens -> Nat]
    BY <1>1, <2>1
  <2> QED
    BY <1>1, <2>1, <2>2, IsTable
<1>4. /\ s \in Remote /\ s.listens = a /\ s.limbo = r.limbo /\ s.next = r.next
      /\ s.agg = r.agg /\ s.requests = r.requests
  BY <1>2, <1>3 DEF Remote
<1>5. Watching(s, w, srv, synced)
  BY <1>3, <1>4 DEF Watching, Numbered, Paired, Pending, StateOf, AboutOne, Fits, KeysIn
<1>6. PICK m, n : m = Unwatch(Query) /\ n = Watch(Query, Docs, 0)
  OBVIOUS
<1>7. /\ m \in Request /\ m.id = Query /\ n \in Request /\ n.id = Query
  BY <1>6 DEF Unwatch, Watch, Request, Query
<1>8. PICK t : t = Send(s, m)
  OBVIOUS
<1>9. /\ \A x \in Remote : Watching(x, w, srv, synced) =>
             Query < x.next /\ Query \notin DOMAIN x.limbo
  BY DEF Watching, Numbered, Paired, Query
<1>10. t \in Remote /\ Watching(t, w, srv, synced)
  BY <1>4, <1>5, <1>7, <1>8, <1>9, SendKeeps
<1>11. Send(t, n) \in Remote /\ Watching(Send(t, n), w, srv, synced)
  BY <1>7, <1>9, <1>10, SendKeeps
<1>12. Rewatched(r) = Send(t, n)
  BY <1>1, <1>2, <1>6, <1>8 DEF Rewatched
<1> QED
  BY <1>11, <1>12

LEMMA TargetsAfterKeeps ==
    ASSUME ReadInv, wire # << >>, Head(wire).type = "snapshot",
           NEW n \in Nat, NEW after
    PROVE  /\ TargetsAfter(n) \in Remote
           /\ Watching(TargetsAfter(n), Tail(wire), served, after)
<1>1. PICK r \in Remote : r = remote
  BY ReadFacts
<1>2. PICK w \in Seq(Response) : w = wire
  BY ReadFacts
<1>3. PICK srv \in Table(Served) : srv = served
  BY ReadFacts
<1>4. PICK synced : synced = view.synced
  OBVIOUS
<1>5. Watching(r, w, srv, synced) /\ w # << >>
  BY <1>1, <1>2, <1>3, <1>4, ReadFacts
<1>6. open
  BY FirstIs
<1>7. PICK x : x = Tail(w)
  OBVIOUS
<1>8. x \in Seq(Response) /\ Watching(r, x, srv, synced)
  <2>1. Head(w) \notin Ack
    BY <1>2, NotAck
  <2> QED
    BY <1>5, <1>7, <2>1, IgnoredKeeps, TailIs
<1>9. /\ DOMAIN r.agg \in SUBSET Nat /\ DOMAIN r.listens \in SUBSET Nat
      /\ DOMAIN r.limbo \in SUBSET Nat
      /\ \A id \in DOMAIN r.agg : r.agg[id] \in TargetState
      /\ \A id \in DOMAIN r.listens : r.listens[id] \in Nat
      /\ \A id \in DOMAIN r.limbo : r.limbo[id] \in Lookup
  BY NumbersAre, TableIs
<1>10. PICK a : a = [id \in DOMAIN r.agg |->
                        IF id \in Active
                        THEN [r.agg[id] EXCEPT !.changes = Untouched]
                        ELSE r.agg[id]]
  OBVIOUS
<1>11. /\ a \in Table(TargetState) /\ DOMAIN a = DOMAIN r.agg
       /\ \A id \in DOMAIN r.agg :
              /\ a[id].pending = r.agg[id].pending
              /\ id \in DOMAIN r.listens /\ r.agg[id].pending = 0 =>
                     \A k \in Docs : a[id].changes[k] = "none"
  <2>1. Untouched \in [Docs -> Change] /\ \A k \in Docs : Untouched[k] = "none"
    BY DEF Untouched, Change
  <2>2. \A id \in DOMAIN r.agg :
            id \in DOMAIN r.listens /\ r.agg[id].pending = 0 => id \in Active
    BY <1>1 DEF Active, IsActive, StateOf
  <2>3. \A id \in DOMAIN r.agg :
            /\ a[id] \in TargetState
            /\ a[id].pending = r.agg[id].pending
            /\ id \in Active => a[id].changes = Untouched
    BY <1>9, <1>10, <2>1 DEF TargetState
  <2>4. a \in [DOMAIN r.agg -> TargetState]
    BY <1>10, <2>3
  <2> QED
    BY <1>9, <1>10, <2>1, <2>2, <2>3, <2>4, IsTable
<1>12. PICK b : b = [id \in DOMAIN r.listens |-> IF id \in Active THEN n
                                                 ELSE r.listens[id]]
  OBVIOUS
<1>13. b \in Table(Nat) /\ DOMAIN b = DOMAIN r.listens
  <2>1. b \in [DOMAIN r.listens -> Nat]
    BY <1>9, <1>12
  <2> QED
    BY <1>9, <1>12, <2>1, IsTable
<1>14. PICK c : c = [id \in DOMAIN r.limbo |->
                [r.limbo[id] EXCEPT !.received =
                    \/ KeysWith(id, "added") # {}
                    \/ r.limbo[id].received /\ KeysWith(id, "removed") = {}]]
  OBVIOUS
<1>15. /\ c \in Table(Lookup) /\ DOMAIN c = DOMAIN r.limbo
       /\ \A id \in DOMAIN r.limbo : c[id].key = r.limbo[id].key
  <2>1. ASSUME NEW id \in DOMAIN r.limbo
        PROVE  c[id] \in Lookup /\ c[id].key = r.limbo[id].key
    <3>1. PICK y \in BOOLEAN :
              y = (\/ KeysWith(id, "added") # {}
                   \/ r.limbo[id].received /\ KeysWith(id, "removed") = {})
      OBVIOUS
    <3>2. c[id] = [r.limbo[id] EXCEPT !.received = y]
      BY <1>14, <3>1
    <3> QED
      BY <1>9, <3>1, <3>2 DEF Lookup
  <2>2. c \in [DOMAIN r.limbo -> Lookup]
    BY <1>14, <2>1
  <2> QED
    BY <1>9, <1>14, <2>1, <2>2, IsTable
<1>16. PICK s : s = [r EXCEPT !.agg = a, !.listens = b, !.limbo = c]
  OBVIOUS
<1>17. /\ s \in Remote /\ s.agg = a /\ s.listens = b /\ s.limbo = c
       /\ s.next = r.next /\ s.requests = r.requests
  BY <1>11, <1>13, <1>15, <1>16 DEF Remote
<1>18. Watching(s, x, srv, after)
  BY <1>6, <1>8, <1>11, <1>13, <1>15, <1>17, RenewedKeeps
<1>19. TargetsAfter(n) = IF resets = {} THEN s ELSE Rewatched(s)
  BY <1>1, <1>10, <1>12, <1>14, <1>16 DEF TargetsAfter
<1>20. Rewatched(s) \in Remote /\ Watching(Rewatched(s), x, srv, after)
  BY <1>6, <1>8, <1>17, <1>18, RewatchedKeeps
<1> QED
  BY <1>2, <1>3, <1>7, <1>17, <1>18, <1>19, <1>20

(* What the snapshot makes of the updates and of the cache.                *)
LEMMA DocumentUpdatesAre ==
    ASSUME ReadInv, NEW n \in Nat
    PROVE  DocumentUpdates(n) \in [Docs -> Seq(Update)]
<1>1. Deleted(n) \in Seq(Update)
  <2>1. [version |-> n, value |-> Absent] \in Update
    BY DEF Update, Values
  <2> QED
    BY <2>1 DEF Deleted
<1> QED
  BY <1>1, ReadFacts DEF DocumentUpdates

LEMMA CacheAfterIs ==
    ASSUME NEW c \in [Docs -> Cached], c = cache,
           NEW u \in [Docs -> Seq(Update)], NEW n \in Nat
    PROVE  CacheAfter(u, n) \in [Docs -> Cached] /\ Changed(u) \in SUBSET Docs
<1>1. Changed(u) \in SUBSET Docs /\ \A k \in Changed(u) : u[k] # << >>
  BY DEF Changed
<1>2. Invalid \in Cached
  BY DEF Invalid, Cached, Values
<1>3. ASSUME NEW k \in Changed(u)
      PROVE  [version |-> u[k][1].version, value |-> u[k][1].value,
              committed |-> FALSE, read |-> n] \in Cached
  <2>1. u[k] \in Seq(Update) /\ u[k] # << >>
    BY <1>1
  <2>2. u[k][1] \in Update
    BY <2>1, TailIs
  <2> QED
    BY <2>2 DEF Update, Cached
<1> QED
  BY <1>1, <1>2, <1>3 DEF CacheAfter

LEMMA SnapshotStep == ReadInv /\ OnSnapshot => ReadInv'
<1> SUFFICES ASSUME ReadInv, OnSnapshot PROVE ReadInv'
  OBVIOUS
<1>1. /\ Takes("snapshot") /\ wire # << >> /\ Head(wire).type = "snapshot"
  BY DEF OnSnapshot, Takes
<1>2. PICK n \in Nat : n = Head(wire).version
  BY <1>1, FirstIs, ResponseIs
<1>3. PICK u \in [Docs -> Seq(Update)] : u = DocumentUpdates(n)
  BY <1>2, DocumentUpdatesAre
<1>4. PICK r : r = TargetsAfter(n)
  OBVIOUS
<1>5. PICK ks \in SUBSET Docs : ks = Changed(u)
  BY <1>3, DiskIs, CacheAfterIs
<1>6. PICK added, removed, modified \in SUBSET Docs :
          /\ added = KeysWith(Query, "added")
          /\ removed = KeysWith(Query, "removed")
          /\ modified = KeysWith(Query, "modified")
  BY DEF KeysWith
<1>7. PICK tc \in TargetChange, t \in TargetData :
          /\ tc = IF Query \in Active
                  THEN [added |-> added, removed |-> removed,
                        current |-> StateOf(remote, Query).current]
                  ELSE NoTargetChange(view)
          /\ t = IF Query \in Active THEN [target EXCEPT !.token = n] ELSE target
  <2>1. StateOf(remote, Query).current \in BOOLEAN
    BY ReadFacts, StateIs DEF Query, TargetState
  <2>2. [added |-> added, removed |-> removed,
         current |-> StateOf(remote, Query).current] \in TargetChange
    BY <1>6, <2>1 DEF TargetChange
  <2>3. NoTargetChange(view) \in TargetChange
    BY ReadFacts, NoTargetChangeIs
  <2>4. target \in TargetData
    BY DEF ReadInv, Types, ClientTypes
  <2>5. [target EXCEPT !.token = n] \in TargetData
    BY <1>2, <2>4 DEF TargetData
  <2> QED
    BY <2>2, <2>3, <2>4, <2>5
<1>8. /\ keys' = (keys \ removed) \cup added
      /\ saved' = saved \/ saved' = t
      /\ cache' = CacheAfter(u, n) /\ last' = n /\ queue' = queue
      /\ updates' = NoUpdates /\ resets' = {}
      /\ Emit(ks, tc, r, t)
  <2>1. \A T \in {{t}, {saved, t}} : \A x \in T : x = saved \/ x = t
    OBVIOUS
  <2> QED
    BY <1>2, <1>3, <1>4, <1>5, <1>6, <1>7, <2>1 DEF OnSnapshot, Persisted
<1>9. resetting' \in {"no", "yes", "torn"}
  <2>1. resetting \in {"no", "yes", "torn"}
    BY DEF ReadInv, Types, ClientTypes
  <2> QED
    BY <2>1 DEF OnSnapshot
<1>10. /\ wire' = Tail(wire) /\ offline' = FALSE /\ history' = history
       /\ served' = served /\ answers' = answers /\ open' = open
  BY <1>1 DEF Takes, server
<1>11. cache' \in [Docs -> Cached]
  BY <1>2, <1>3, <1>8, DiskIs, CacheAfterIs
<1>12. PICK after : after = view'.synced
  OBVIOUS
<1>13. PICK w \in Seq(Response) : w = Tail(wire)
  BY <1>1, FirstIs
<1>14. PICK srv \in Table(Served) : srv = served
  BY ReadFacts
<1>15. r \in Remote /\ Watching(r, w, srv, after)
  BY <1>1, <1>2, <1>4, <1>13, <1>14, TargetsAfterKeeps
<1>16. Types
  BY DEF ReadInv
<1>17. queue' \in Seq(Writes) /\ offline' \in BOOLEAN
  BY <1>8, <1>10, DiskIs
<1>18. /\ view' \in View /\ view'.on = view.on
       /\ target' \in TargetData
       /\ ProgramTypes' /\ opened' = opened
       /\ view.on => remote' = LimboUpdated(r, view.limbo, view'.limbo)
       /\ ListenersAgree /\ (offline' => offline) /\ (~view.on => opened = {})
              => ListenersAgree'
  BY <1>5, <1>7, <1>8, <1>11, <1>15, <1>16, <1>17, EmitIs
<1>19. view.on
  BY <1>1, FirstIs DEF ReadInv, ViewFirst
<1>20. remote' \in Remote /\ Watching(remote', w, srv, after)
  <2>1. PICK old \in SUBSET Docs : old = view.limbo
    BY ReadFacts DEF View
  <2>2. PICK new \in SUBSET Docs : new = view'.limbo
    BY <1>18 DEF View
  <2>3. remote' = LimboUpdated(r, old, new)
    BY <1>18, <1>19, <2>1, <2>2
  <2> QED
    BY <1>15, <2>3, LimboUpdatedKeeps
<1>21. Types'
  <2>1. ServerTypes'
    BY <1>8, <1>10, <1>13, <1>14, HistoryIs DEF ServerTypes
  <2>2. DiskTypes'
    BY <1>2, <1>6, <1>7, <1>8, <1>11, <1>17, DiskIs DEF DiskTypes
  <2>3. ClientTypes'
    <3>1. NoUpdates \in [Docs -> Seq(Update)]
      BY DEF NoUpdates
    <3> QED
      BY <1>8, <1>9, <1>10, <1>18, <1>20, <3>1, ReadFacts DEF ClientTypes
  <2> QED
    BY <1>18, <2>1, <2>2, <2>3 DEF Types
<1>22. Watching(remote, wire, served, view.synced)'
  BY <1>10, <1>12, <1>13, <1>14, <1>20 DEF Watching
<1>23. InOrder'
  <2>1. PICK v \in Seq(Response) : v = wire
    BY ReadFacts
  <2>2. /\ Len(v) \in Nat /\ Len(w) = Len(v) - 1 /\ v[1] = Head(v)
        /\ 1 \in 1 .. Len(v)
        /\ \A i \in 1 .. Len(w) : w[i] = v[i + 1] /\ i + 1 \in 1 .. Len(v)
    BY <1>1, <1>13, <2>1, TailIs
  <2>3. IsSnapshot(v[1]) /\ v[1].version = n
    BY <1>1, <1>2, <2>1, <2>2 DEF IsSnapshot
  <2>4. /\ \A i \in 1 .. Len(v) : IsSnapshot(v[i]) => v[i].version <= Clock
        /\ \A i, j \in 1 .. Len(v) :
               i < j /\ IsSnapshot(v[i]) /\ IsSnapshot(v[j]) =>
                   v[i].version <= v[j].version
    BY <2>1 DEF ReadInv, InOrder
  <2>5. n <= Clock
    BY <2>2, <2>3, <2>4
  <2>6. \A i \in 1 .. Len(w) : IsSnapshot(w[i]) =>
            n <= w[i].version /\ w[i].version <= Clock
    <3> SUFFICES ASSUME NEW i \in 1 .. Len(w), IsSnapshot(w[i])
                 PROVE  n <= w[i].version /\ w[i].version <= Clock
      OBVIOUS
    <3>1. i + 1 \in 1 .. Len(v) /\ 1 < i + 1 /\ IsSnapshot(v[i + 1])
          /\ w[i] = v[i + 1]
      BY <2>2
    <3> QED
      BY <2>2, <2>3, <2>4, <3>1
  <2>7. \A i, j \in 1 .. Len(w) :
            i < j /\ IsSnapshot(w[i]) /\ IsSnapshot(w[j]) =>
                w[i].version <= w[j].version
    <3> SUFFICES ASSUME NEW i \in 1 .. Len(w), NEW j \in 1 .. Len(w), i < j,
                        IsSnapshot(w[i]), IsSnapshot(w[j])
                 PROVE  w[i].version <= w[j].version
      OBVIOUS
    <3>1. /\ i + 1 \in 1 .. Len(v) /\ j + 1 \in 1 .. Len(v) /\ i + 1 < j + 1
          /\ IsSnapshot(v[i + 1]) /\ IsSnapshot(v[j + 1])
          /\ w[i] = v[i + 1] /\ w[j] = v[j + 1]
      BY <2>2
    <3> QED
      BY <2>4, <3>1
  <2>8. wire' = w /\ last' = n /\ Clock' = Clock
    BY <1>8, <1>10, <1>13 DEF Clock
  <2> QED
    BY <2>5, <2>6, <2>7, <2>8 DEF InOrder
<1>24. ViewFirst'
  BY <1>18, <1>19 DEF ViewFirst
<1>25. ListenersAgree'
  BY <1>10, <1>18, <1>19 DEF ReadInv
<1> QED
  BY <1>21, <1>22, <1>23, <1>24, <1>25 DEF ReadInv

-----------------------------------------------------------------------------
LEMMA ReadInit == Init => ReadInv
<1> SUFFICES ASSUME Init PROVE ReadInv
  OBVIOUS
<1>1. /\ served = << >> /\ wire = << >> /\ answers = << >> /\ queue = << >>
      /\ cache = [k \in Docs |-> Invalid] /\ keys = {} /\ saved = Unknown
      /\ last = 0 /\ target = Unknown /\ open = FALSE /\ offline = FALSE
      /\ remote = NoTargets /\ updates = NoUpdates /\ resets = {}
      /\ view = NoView /\ opened = {} /\ raised = {}
      /\ shown = [l \in Listeners |-> NoView.docs] /\ resetting = "no"
  BY DEF Init
<1>2. PICK h : /\ history = <<h>>
               /\ h = [k \in Docs |->
                        [version |-> 1,
                         value |-> IF \E f \in Early : Where[f] = k
                                   THEN CHOOSE f \in Early : Where[f] = k
                                   ELSE Absent]]
  BY DEF Init
<1>3. h \in [Docs -> Update]
  <2> SUFFICES ASSUME NEW k \in Docs PROVE h[k] \in Update
    BY <1>2
  <2>1. PICK v : v = IF \E f \in Early : Where[f] = k
                     THEN CHOOSE f \in Early : Where[f] = k ELSE Absent
    OBVIOUS
  <2>2. v \in Values
    <3>1. CASE \E f \in Early : Where[f] = k
      <4>1. v = CHOOSE f \in Early : Where[f] = k
        BY <2>1, <3>1
      <4>2. v \in Early
        BY <3>1, <4>1
      <4> QED
        BY <4>2, ViewAssumption DEF Values
    <3>2. CASE ~\E f \in Early : Where[f] = k
      BY <2>1, <3>2 DEF Values
    <3> QED
      BY <3>1, <3>2
  <2>3. h[k] = [version |-> 1, value |-> v]
    BY <1>2, <2>1
  <2> QED
    BY <2>2, <2>3 DEF Update
<1>4. history \in Seq([Docs -> Update]) /\ history # << >> /\ Clock = 1
  BY <1>2, <1>3 DEF Clock
<1>5. Types
  <2>1. ServerTypes
    <3>1. << >> \in Table(Served) /\ << >> \in Seq(Response)
          /\ << >> \in Seq(Answer) /\ Len(<< >>) = 0
      BY EmptyTable
    <3> QED
      BY <1>1, <1>4, <3>1 DEF ServerTypes
  <2>2. DiskTypes
    BY <1>1 DEF DiskTypes, Invalid, Cached, Values, Unknown, TargetData
  <2>3. ClientTypes
    <3>1. NoUpdates \in [Docs -> Seq(Update)] /\ Unknown \in TargetData
      BY DEF NoUpdates, Unknown, TargetData
    <3> QED
      BY <1>1, <3>1, NoTargetsIs, NoViewIs DEF ClientTypes
  <2>4. ProgramTypes
    BY <1>1, NoViewIs DEF ProgramTypes
  <2> QED
    BY <2>1, <2>2, <2>3, <2>4 DEF Types
<1>6. Watching(remote, wire, served, view.synced)
  BY <1>1, NoTargetsIs DEF Watching
<1>7. InOrder
  <2>1. Len(<< >>) = 0
    OBVIOUS
  <2> QED
    BY <1>1, <1>4, <2>1 DEF InOrder
<1>8. ViewFirst
  BY <1>1, NoTargetsIs DEF ViewFirst
<1>9. ListenersAgree
  BY <1>1 DEF ListenersAgree
<1> QED
  BY <1>5, <1>6, <1>7, <1>8, <1>9 DEF ReadInv

LEMMA ReadStutter == ReadInv /\ UNCHANGED vars => ReadInv'
<1> SUFFICES ASSUME ReadInv, UNCHANGED vars PROVE ReadInv'
  OBVIOUS
<1>1. UNCHANGED <<served, wire, disk, target, open, offline, remote, updates,
                  resets, view, program, resetting>>
  BY DEF vars, server, disk, program
<1>2. history' = history /\ answers' = answers
  BY DEF vars, server
<1> QED
  BY <1>1, <1>2, HistoryIs, BesideKeeps

(* The invariant of the read path: every table, queue and document has its *)
(* type, the targets of the client and those of the server stay in step,   *)
(* snapshots come in order, and the listeners have been told the view.     *)
THEOREM ReadHolds == Spec => []ReadInv
<1>1. ReadInv /\ [Next]_vars => ReadInv'
  <2> SUFFICES ASSUME ReadInv, [Next]_vars PROVE ReadInv'
    OBVIOUS
  <2>1. CASE \/ \E f \in Foreign : ForeignSet(f)
             \/ \E k \in Docs : Delete(k)
             \/ Commit
             \/ AnswersLost
    BY <2>1, ForeignSetStep, DeletedStep, CommitStep, AnswersLostStep
  <2>2. CASE ServerTakes \/ \E forgets \in BOOLEAN : Sends(forgets)
    BY <2>2, ServerTakesStep, SendsStep
  <2>3. CASE \/ \E l \in Listeners : Listen(l)
             \/ \E w \in Writes : Write(w)
             \/ WriteAnswered
    BY <2>3, ListenStep, WriteStep, WriteAnsweredStep
  <2>4. CASE OnWatchStreamOpen \/ OnWatchStreamClose \/ GoOffline \/ Crash
    BY <2>4, OpenStep, CloseStep, OfflineStep, CrashStep
  <2>5. CASE OnWatchStreamChange
    BY <2>5, TargetAddedStep, TargetRemovedStep, TargetCurrentStep,
       DocumentStep, DeleteStep, ExistenceFilterStep, SnapshotStep
       DEF OnWatchStreamChange
  <2>6. CASE UNCHANGED vars
    BY <2>6, ReadStutter
  <2> QED
    BY <2>1, <2>2, <2>3, <2>4, <2>5, <2>6 DEF Next
<1> QED
  BY <1>1, ReadInit, PTL DEF Spec

LEMMA TypesFollow == ReadInv => TypeOK
<1> SUFFICES ASSUME ReadInv PROVE TypeOK
  OBVIOUS
<1>1. /\ history \in Seq([Docs -> Update]) /\ served \in Table(Served)
      /\ queue \in Seq(Writes) /\ cache \in [Docs -> Cached]
      /\ keys \in SUBSET Docs /\ saved \in TargetData /\ last \in Nat
      /\ target \in TargetData /\ open \in BOOLEAN /\ offline \in BOOLEAN
      /\ remote \in Remote /\ view \in View
      /\ resetting \in {"no", "yes", "torn"}
      /\ opened \in SUBSET Listeners /\ raised \in SUBSET opened
      /\ shown \in [Listeners -> [Docs -> Values]]
  BY DEF ReadInv, Types, ServerTypes, DiskTypes, ClientTypes, ProgramTypes
<1>2. history \in Seq([Docs -> [version : Version, value : Values]])
  BY <1>1 DEF Update, Version
<1>3. \A id \in DOMAIN served :
          served[id] \in [sent : Version, current : BOOLEAN, covers : SUBSET Docs]
  BY <1>1, TableIs DEF Served, Version
<1>4. /\ cache \in [Docs -> [version : Version, value : Values,
                             committed : BOOLEAN, read : Version]]
      /\ {saved, target} \subseteq [token : Version, limboFree : Version]
  BY <1>1 DEF Cached, TargetData, Version
<1>5. \A id \in DOMAIN remote.agg :
          remote.agg[id] \in
              [pending : Nat, current : BOOLEAN,
               changes : [Docs -> {"none", "added", "modified", "removed"}]]
  <2> SUFFICES ASSUME NEW id \in DOMAIN remote.agg
               PROVE  remote.agg[id] \in
                        [pending : Nat, current : BOOLEAN,
                         changes : [Docs -> {"none", "added", "modified", "removed"}]]
    OBVIOUS
  <2>1. id \in Nat /\ remote.agg[id] \in TargetState
    BY <1>1, NumbersAre
  <2>2. Pending(remote, wire)
    BY ReadFacts DEF Watching
  <2>3. StateOf(remote, id).pending \in Nat
    BY <2>1, <2>2, ReadFacts, PendingNat
  <2>4. StateOf(remote, id) = remote.agg[id]
    BY DEF StateOf
  <2> QED
    BY <2>1, <2>3, <2>4 DEF TargetState, Change
<1>6. DOMAIN remote.limbo = DOMAIN remote.listens \ {Query}
  BY ReadFacts DEF Watching, Paired
<1> QED
  BY <1>1, <1>2, <1>3, <1>4, <1>5, <1>6 DEF TypeOK, View, Version

LEMMA InStepFollows == ReadInv => TargetsInStep
<1> SUFFICES ASSUME ReadInv PROVE TargetsInStep
  OBVIOUS
<1>1. /\ remote \in Remote /\ wire \in Seq(Response) /\ served \in Table(Served)
      /\ Pending(remote, wire)
  BY ReadFacts DEF Watching
<1>2. PICK q \in Seq(Request) : q = remote.requests
  BY <1>1, NumbersAre
<1>3. /\ DOMAIN q = 1 .. Len(q) /\ \A i \in 1 .. Len(q) : q[i] \in Request
      /\ DOMAIN wire = 1 .. Len(wire) /\ \A i \in 1 .. Len(wire) : wire[i] \in Response
  BY <1>1, LenProperties, ElementOfSeq
<1>4. {q[i].id : i \in DOMAIN q} \cup {id \in DOMAIN served : TRUE}
          \cup DOMAIN remote.agg \subseteq Nat
  <2>1. \A i \in DOMAIN q : q[i].id \in Nat
    BY <1>3 DEF Request
  <2>2. DOMAIN served \subseteq Nat /\ DOMAIN remote.agg \subseteq Nat
    BY <1>1, TableIs, NumbersAre
  <2> QED
    BY <2>1, <2>2
<1>5. ASSUME NEW id \in Nat
      PROVE  /\ {i \in DOMAIN q : q[i].id = id} = Places(q, RequestsOf(id))
             /\ {i \in DOMAIN wire : /\ wire[i].type \in {"added", "removed"}
                                     /\ wire[i].id = id} = Places(wire, AcksOf(id))
  <2>1. {i \in DOMAIN q : q[i].id = id} = Places(q, RequestsOf(id))
    BY <1>3 DEF Places, RequestsOf
  <2>2. \A i \in 1 .. Len(wire) :
            wire[i].type \in {"added", "removed"} <=> wire[i] \in Ack
    BY <1>3, ResponseIs
  <2>3. {i \in DOMAIN wire : /\ wire[i].type \in {"added", "removed"}
                             /\ wire[i].id = id} = Places(wire, AcksOf(id))
    BY <1>3, <2>2 DEF Places, AcksOf
  <2> QED
    BY <2>1, <2>3
<1>6. ASSUME NEW id \in Nat
      PROVE  StateOf(remote, id).pending =
                Cardinality({i \in DOMAIN q : q[i].id = id})
              + Cardinality({i \in DOMAIN wire :
                                /\ wire[i].type \in {"added", "removed"}
                                /\ wire[i].id = id})
  BY <1>1, <1>2, <1>5 DEF Pending, Count
<1> QED
  BY <1>2, <1>4, <1>6 DEF TargetsInStep, CountIn

LEMMA AssertionsFollow == ReadInv => AssertionsHold
<1> SUFFICES ASSUME ReadInv PROVE AssertionsHold
  OBVIOUS
<1>1. ASSUME NEW id \in Active
      PROVE  /\ id \in Nat /\ IsActive(id) /\ id \in DOMAIN remote.listens
             /\ StateOf(remote, id).pending = 0
             /\ Suits(StateOf(remote, id), remote, view.synced, id)
  <2>1. id \in Nat /\ IsActive(id)
    BY ReadFacts, NumbersAre DEF Active
  <2> QED
    BY <2>1, ActiveState
<1>2. ASSUME NEW id \in Active
      PROVE  KeysWith(id, "modified") \cup KeysWith(id, "removed")
                 \subseteq RemoteKeys(id)
  BY <1>1, KeysAre DEF KeysWith, Suits
<1>3. ASSUME NEW id \in Active \cap DOMAIN remote.limbo, NEW k \in Docs,
             StateOf(remote, id).changes[k] # "none"
      PROVE  k = remote.limbo[id].key
  BY <1>1, <1>3 DEF Suits
<1>4. ASSUME NEW i \in DOMAIN wire, wire[i].type = "snapshot"
      PROVE  wire[i].version >= last
  <2>1. i \in 1 .. Len(wire) /\ wire[i].version \in Nat
    BY <1>4, ReadFacts, LenProperties, ResponsesAre, ResponseIs
  <2>2. last <= wire[i].version
    BY <1>4, <2>1 DEF ReadInv, InOrder, IsSnapshot
  <2> QED
    BY <2>1, <2>2, DiskIs
<1> QED
  BY <1>2, <1>3, <1>4 DEF AssertionsHold

(* Types, among them that no pending count is negative, and that there is  *)
(* a lookup for every target but the query.                                *)
THEOREM TypeCorrect == Spec => []TypeOK
BY ReadHolds, TypesFollow, PTL

(* A target is pending for as many requests and acknowledgements as are    *)
(* under way, however many there are, of whatever targets, and whenever    *)
(* the stream breaks: so what is applied to it belongs to its last request.*)
THEOREM TargetsStayInStep == Spec => []TargetsInStep
BY ReadHolds, InStepFollows, PTL

(* No hard assertion of the client on what the watch stream sends fails.   *)
THEOREM AssertionsKept == Spec => []AssertionsHold
BY ReadHolds, AssertionsFollow, PTL

(* What a listener was told adds up to the view, and one that was told     *)
(* nothing has nothing to be told.                                         *)
THEOREM ListenersTold == Spec => []ListenersAgree
<1>1. ReadInv => ListenersAgree
  BY DEF ReadInv
<1> QED
  BY <1>1, ReadHolds, PTL

=============================================================================
