-------------------------- MODULE LocalQueryProofs --------------------------
(***************************************************************************)
(* Why the query by matching keys misses nothing (QueryFindsAll), for      *)
(* every number of documents, writes, lookups, deletions, breaks and       *)
(* crashes.                                                                *)
(*                                                                         *)
(* The matching keys on the disk and the resume token have to be kept in   *)
(* step: what the server has had unchanged since the version of the token  *)
(* is a matching key.  They change at a snapshot, from what came before it *)
(* on the wire, so the invariant follows the documents of the query from   *)
(* the server through the wire and the aggregator (Following): whatever    *)
(* the server has at a snapshot that speaks for the query is a matching    *)
(* key, or a change of the target, or told of before that snapshot.        *)
(* A second part proves what the view then shows (ViewIsLocal).            *)
(***************************************************************************)
EXTENDS LocalViewProofs

-----------------------------------------------------------------------------
(* What is under way for the query.                                        *)
IsQueryAck(m) == m.type \in {"added", "removed"} /\ m.id = Query
Quiet(r) == \A i \in 1 .. Len(r.requests) : r.requests[i].id # Query
QueryActive(r) == Query \in DOMAIN r.listens /\ StateOf(r, Query).pending = 0
ChangesIn(r) == StateOf(r, Query).changes

(* A snapshot speaks for the query if it is sent after the last request.   *)
Speaks(r, w, i) ==
    /\ i \in 1 .. Len(w) /\ IsSnapshot(w[i])
    /\ Quiet(r)
    /\ \A j \in i .. Len(w) : ~IsQueryAck(w[j])

SpeaksFirst(r, w, i) == Speaks(r, w, i) /\ \A j \in 1 .. i - 1 : ~Speaks(r, w, j)

(* No snapshot from the one place to before the other.                     *)
Before(w, j, i) == \A h \in j .. i - 1 : ~IsSnapshot(w[h])

(* With the collection h: the document is there, and has been as it is     *)
(* since version n.                                                        *)
There(h, k, n) == h[k].value # Absent /\ h[k].version <= n

TellsOf(m, k) == m.type = "document" /\ m.id = Query /\ m.key = k

(* The documents, targets and responses below are h, r and w, and x is the *)
(* targets to be reset.                                                    *)

(* The last request for the query asks for what there is after its token.  *)
Latest(r) ==
    \A i \in 1 .. Len(r.requests) :
        /\ r.requests[i].id = Query
        /\ \A j \in i + 1 .. Len(r.requests) : r.requests[j].id # Query
        => /\ r.requests[i].ask = "watch" /\ r.requests[i].covers = Docs
           /\ r.requests[i].token = r.listens[Query]

(* When no request is under way, the server has the query, and has sent    *)
(* what there was at its last snapshot that speaks for it.                 *)
Standing(r, w, s) ==
    Quiet(r) =>
        /\ Query \in DOMAIN s /\ s[Query].covers = Docs
        /\ (\A i \in 1 .. Len(w) : ~Speaks(r, w, i)) =>
               s[Query].sent = r.listens[Query]
        /\ \A i \in 1 .. Len(w) :
               Speaks(r, w, i) /\ (\A j \in i + 1 .. Len(w) : ~Speaks(r, w, j))
                   => s[Query].sent = w[i].version

(* Between two snapshots is every document set in between.                 *)
ToldBetween(h, r, w) ==
    \A i, j \in 1 .. Len(w) : \A k \in Docs :
        /\ i < j /\ Speaks(r, w, i) /\ Speaks(r, w, j)
        /\ There(h, k, w[j].version) /\ ~There(h, k, w[i].version)
        => \E m \in i .. j : TellsOf(w[m], k)

(* Before the first is every document set since the token.                 *)
ToldFirst(h, r, w, x) ==
    \A i \in 1 .. Len(w) : \A k \in Docs :
        /\ SpeaksFirst(r, w, i) /\ x = {}
        /\ There(h, k, w[i].version) /\ ~There(h, k, r.listens[Query])
        => \/ QueryActive(r) /\ ChangesIn(r)[k] \in {"added", "modified"}
           \/ \E m \in 1 .. i : /\ TellsOf(w[m], k)
                                /\ \A j \in m .. Len(w) : ~IsQueryAck(w[j])

(* What is deleted, or taken for removed, is not there at the snapshot     *)
(* that follows.                                                           *)
DeletedGone(h, w) ==
    \A i, j \in 1 .. Len(w) :
        /\ j < i /\ w[j].type = "delete" /\ w[j].id = Query
        /\ IsSnapshot(w[i]) /\ Before(w, j, i)
        => ~There(h, w[j].key, w[i].version)

RemovedGone(h, r, w, x) ==
    \A i \in 1 .. Len(w) : \A k \in Docs :
        /\ IsSnapshot(w[i]) /\ Before(w, 1, i) /\ x = {}
        /\ QueryActive(r) /\ ChangesIn(r)[k] = "removed"
        => ~There(h, k, w[i].version)

(* Changes wait for a snapshot that is under way.                          *)
Expected(r, w, x) ==
    (\A i \in 1 .. Len(w) : ~IsSnapshot(w[i])) =>
        x = {} /\ (QueryActive(r) => ChangesIn(r) = Untouched)

(* A query that is to be reset is not current when the snapshot comes.     *)
Awaited(r, w, x) ==
    x # {} =>
        /\ QueryActive(r) /\ ~StateOf(r, Query).current
        /\ \A c \in 1 .. Len(w) : w[c].type = "current" => ~Before(w, 1, c)

(* A batch ends with a snapshot, and no CURRENT comes after a filter.      *)
Batches(w) ==
    /\ \A j \in 1 .. Len(w) : w[j].type \notin {"added", "removed"} =>
           \E i \in j .. Len(w) : IsSnapshot(w[i])
    /\ \A j, c \in 1 .. Len(w) :
           j < c /\ w[j].type = "filter" /\ w[c].type = "current" =>
               \E i \in j .. c : IsSnapshot(w[i])

Following(h, r, w, s, x) ==
    /\ Latest(r)
    /\ Standing(r, w, s)
    /\ ToldBetween(h, r, w)
    /\ ToldFirst(h, r, w, x)
    /\ DeletedGone(h, w)
    /\ RemovedGone(h, r, w, x)
    /\ Expected(r, w, x)
    /\ Awaited(r, w, x)
    /\ Batches(w)

-----------------------------------------------------------------------------
(* Versions and tokens: what is told of a document is no newer than the    *)
(* snapshot after it, and what the cache has was read at its version or    *)
(* later.                                                                  *)
InTime(w, u, n) ==
    /\ \A j \in 1 .. Len(w) : w[j].type \in {"document", "delete"} =>
           /\ w[j].version <= n
           /\ \A i \in j .. Len(w) : IsSnapshot(w[i]) =>
                  w[j].version <= w[i].version
    /\ \A k \in Docs : u[k] # << >> =>
           /\ u[k][1].version <= n
           /\ \A i \in 1 .. Len(w) : IsSnapshot(w[i]) =>
                  u[k][1].version <= w[i].version

Dated ==
    /\ \A k \in Docs : 1 <= Now[k].version /\ Now[k].version <= Clock
    /\ \A i \in 1 .. Len(answers) : answers[i].version <= answers[i].read
    /\ \A k \in Docs : cache[k].version <= cache[k].read
    /\ InTime(wire, updates, Clock)

Tokens ==
    /\ saved.limboFree <= saved.token /\ saved.token <= last
    /\ target.limboFree <= target.token /\ target.token <= last
    /\ view.on => /\ Query \in DOMAIN remote.listens
                  /\ saved.token <= target.token
                  /\ remote.listens[Query] <= last
    /\ view.current => view.on /\ remote.listens[Query] = target.token

(* The version the matching keys speak of: what is there since is a        *)
(* matching key, unless a crash interrupted a reset.                       *)
Base == IF view.on THEN remote.listens[Query] ELSE saved.token

KeysKept ==
    /\ resetting # "torn" =>
           \A k \in Docs : There(Now, k, Base) => k \in keys
    /\ resetting = "no" => saved.token <= Base
    /\ view.on => keys = view.synced
    /\ ~view.on => resetting # "yes"

SyncInv ==
    /\ ReadInv
    /\ Dated
    /\ Tokens
    /\ KeysKept
    /\ open => Following(Now, remote, wire, served, resets)
    /\ ~open => resets = {}


-----------------------------------------------------------------------------
(* What requests and lookups of other targets leave alone.                 *)

(* The record s differs from r for other targets than the query only, and  *)
(* has more requests for them.                                             *)
Others == {m \in Request : m.id # Query}
SameQuery(s, r) ==
    /\ Query \in DOMAIN s.listens <=> Query \in DOMAIN r.listens
    /\ Query \in DOMAIN r.listens => s.listens[Query] = r.listens[Query]
    /\ StateOf(s, Query) = StateOf(r, Query)
    /\ Query \in DOMAIN r.agg => Query \in DOMAIN s.agg
    /\ Continues(s.requests, r.requests, Others)

LEMMA SameQueryAgain ==
    ASSUME NEW r \in Remote, NEW s \in Remote, NEW t \in Remote,
           SameQuery(s, r), SameQuery(t, s)
    PROVE  SameQuery(t, r)
<1>1. /\ r.requests \in Seq(Request) /\ s.requests \in Seq(Request)
      /\ t.requests \in Seq(Request)
  BY NumbersAre
<1>2. PICK a, b, c : a = r.requests /\ b = s.requests /\ c = t.requests
  OBVIOUS
<1>3. /\ Len(a) \in Nat /\ Len(b) \in Nat /\ Len(c) \in Nat
      /\ Len(b) >= Len(a) /\ Len(c) >= Len(b)
      /\ \A i \in 1 .. Len(a) : b[i] = a[i]
      /\ \A i \in 1 .. Len(b) : c[i] = b[i]
      /\ \A i \in Len(a) + 1 .. Len(b) : b[i] \in Others
      /\ \A i \in Len(b) + 1 .. Len(c) : c[i] \in Others
  BY <1>1, <1>2, SMTT(20) DEF SameQuery, Continues
<1>4. \A i \in 1 .. Len(a) : c[i] = a[i]
  BY <1>3
<1>5. \A i \in Len(a) + 1 .. Len(c) : c[i] \in Others
  BY <1>3
<1>6. Len(c) >= Len(a)
  BY <1>3
<1>7. Continues(c, a, Others)
  BY <1>4, <1>5, <1>6 DEF Continues
<1> QED
  BY <1>2, <1>7 DEF SameQuery

LEMMA SameQueryQuiet ==
    ASSUME NEW r \in Remote, NEW s \in Remote, SameQuery(s, r)
    PROVE  /\ Quiet(s) <=> Quiet(r)
           /\ QueryActive(s) <=> QueryActive(r)
           /\ ChangesIn(s) = ChangesIn(r)
           /\ \A w, i : Speaks(s, w, i) <=> Speaks(r, w, i)
<1>1. r.requests \in Seq(Request) /\ s.requests \in Seq(Request)
  BY NumbersAre
<1>2. /\ Len(s.requests) >= Len(r.requests)
      /\ \A i \in 1 .. Len(r.requests) : s.requests[i] = r.requests[i]
      /\ \A i \in Len(r.requests) + 1 .. Len(s.requests) :
             s.requests[i].id # Query
  BY DEF SameQuery, Continues, Others
<1>3. Quiet(s) <=> Quiet(r)
  BY <1>1, <1>2 DEF Quiet
<1> QED
  BY <1>3 DEF SameQuery, QueryActive, ChangesIn, Speaks

LEMMA SameQueryFollows ==
    ASSUME NEW r \in Remote, NEW s \in Remote, SameQuery(s, r),
           Query \in DOMAIN r.listens,
           NEW h, NEW w, NEW srv, NEW x, Following(h, r, w, srv, x)
    PROVE  Following(h, s, w, srv, x)
<1>1. /\ Quiet(s) <=> Quiet(r)
      /\ QueryActive(s) <=> QueryActive(r)
      /\ ChangesIn(s) = ChangesIn(r)
      /\ \A i : Speaks(s, w, i) <=> Speaks(r, w, i)
      /\ s.listens[Query] = r.listens[Query]
      /\ StateOf(s, Query) = StateOf(r, Query)
  BY SameQueryQuiet DEF SameQuery
<1>2. Latest(s)
  <2>1. r.requests \in Seq(Request) /\ s.requests \in Seq(Request)
    BY NumbersAre
  <2>2. /\ Len(s.requests) >= Len(r.requests)
        /\ \A i \in 1 .. Len(r.requests) : s.requests[i] = r.requests[i]
        /\ \A i \in Len(r.requests) + 1 .. Len(s.requests) :
               s.requests[i].id # Query
    BY DEF SameQuery, Continues, Others
  <2> SUFFICES ASSUME NEW i \in 1 .. Len(s.requests), s.requests[i].id = Query,
                      \A j \in i + 1 .. Len(s.requests) : s.requests[j].id # Query
               PROVE  /\ s.requests[i].ask = "watch" /\ s.requests[i].covers = Docs
                      /\ s.requests[i].token = s.listens[Query]
    BY DEF Latest
  <2>3. i \in 1 .. Len(r.requests)
    BY <2>1, <2>2
  <2>4. \A j \in i + 1 .. Len(r.requests) : r.requests[j].id # Query
    BY <2>1, <2>2
  <2>5. s.requests[i] = r.requests[i]
    BY <2>2, <2>3
  <2>6. Latest(r)
    BY DEF Following
  <2> QED
    BY <1>1, <2>3, <2>4, <2>5, <2>6 DEF Latest
<1>3. Standing(s, w, srv)
  BY <1>1 DEF Following, Standing
<1>4. ToldBetween(h, s, w)
  BY <1>1 DEF Following, ToldBetween
<1>5. ToldFirst(h, s, w, x)
  BY <1>1 DEF Following, ToldFirst, SpeaksFirst
<1>6. RemovedGone(h, s, w, x)
  BY <1>1 DEF Following, RemovedGone
<1>7. Expected(s, w, x)
  BY <1>1 DEF Following, Expected
<1>8. Awaited(s, w, x)
  BY <1>1 DEF Following, Awaited
<1> QED
  BY <1>2, <1>3, <1>4, <1>5, <1>6, <1>7, <1>8 DEF Following

(* Requests for lookups, lookups that start and lookups that end.          *)
LEMMA SendSame ==
    ASSUME NEW r \in Remote, NEW s \in Remote, SameQuery(s, r),
           NEW m \in Request, m.id # Query
    PROVE  Send(s, m) \in Remote /\ SameQuery(Send(s, m), r)
<1>1. PICK t : t = Send(s, m)
  OBVIOUS
<1>2. /\ t \in Remote /\ t.listens = s.listens
      /\ ~open => t = s
      /\ open => /\ t.requests = Append(s.requests, m)
                 /\ DOMAIN t.agg = DOMAIN s.agg \cup {m.id}
                 /\ \A id \in DOMAIN s.agg : id # m.id => t.agg[id] = s.agg[id]
  BY <1>1, SendIs
<1>3. CASE ~open
  BY <1>1, <1>2, <1>3
<1>4. CASE open
  <2>1. StateOf(t, Query) = StateOf(s, Query)
    BY <1>2, <1>4 DEF StateOf
  <2>2. s.requests \in Seq(Request)
    BY NumbersAre
  <2>3. /\ Len(t.requests) = Len(s.requests) + 1 /\ Len(s.requests) \in Nat
        /\ \A i \in 1 .. Len(s.requests) : t.requests[i] = s.requests[i]
        /\ t.requests[Len(s.requests) + 1] = m
    BY <1>2, <1>4, <2>2, AppendIs
  <2>4. m \in Others
    BY DEF Others
  <2>5. Continues(t.requests, s.requests, Others)
    BY <2>3, <2>4 DEF Continues
  <2>6. SameQuery(t, s)
    BY <1>2, <2>1, <2>5 DEF SameQuery
  <2> QED
    BY <1>1, <1>2, <2>6, SameQueryAgain
<1> QED
  BY <1>3, <1>4

(* A record with the same requests and aggregator, and the same token.     *)
LEMMA RequestsSame ==
    ASSUME NEW r \in Remote, NEW s \in Remote, SameQuery(s, r),
           NEW t \in Remote, t.agg = s.agg, t.requests = s.requests,
           Query \in DOMAIN t.listens <=> Query \in DOMAIN s.listens,
           Query \in DOMAIN s.listens => t.listens[Query] = s.listens[Query]
    PROVE  SameQuery(t, r)
<1>1. StateOf(t, Query) = StateOf(s, Query)
  BY DEF StateOf
<1>2. Continues(t.requests, r.requests, Others)
  BY DEF SameQuery
<1> QED
  BY <1>1, <1>2 DEF SameQuery

LEMMA PumpSame ==
    ASSUME NEW r \in Remote, NEW s \in Remote, SameQuery(s, r),
           s.next > 0
    PROVE  SameQuery(Pump(s), r)
<1>1. CASE s.waiting = << >> \/ Cardinality(DOMAIN s.limbo) >= MaxLookups
  BY <1>1 DEF Pump
<1>2. CASE ~(s.waiting = << >> \/ Cardinality(DOMAIN s.limbo) >= MaxLookups)
  <2>1. PICK k : k = Head(s.waiting)
    OBVIOUS
  <2>2. k \in Docs /\ Tail(s.waiting) \in Seq(Docs)
    BY <1>2, <2>1, NumbersAre, TailIs
  <2>3. PICK t : t = [s EXCEPT !.waiting = Tail(@),
                               !.limbo = With(@, s.next, [key |-> k,
                                                          received |-> FALSE]),
                               !.listens = With(@, s.next, 0),
                               !.next = @ + 1]
    OBVIOUS
  <2>4. PICK m : m = Watch(s.next, {k}, 0)
    OBVIOUS
  <2>5. Pump(s) = Send(t, m)
    BY <1>2, <2>1, <2>3, <2>4 DEF Pump
  <2>6. /\ t.waiting = Tail(s.waiting)
        /\ t.limbo = With(s.limbo, s.next, [key |-> k, received |-> FALSE])
        /\ t.listens = With(s.listens, s.next, 0)
        /\ t.next = s.next + 1 /\ t.agg = s.agg /\ t.requests = s.requests
    BY <2>3 DEF Remote
  <2>7. t \in Remote
    <3>1. [key |-> k, received |-> FALSE] \in Lookup
      BY <2>2 DEF Lookup
    <3>2. t.limbo \in Table(Lookup) /\ t.listens \in Table(Nat)
      BY <2>6, <3>1, NumbersAre, WithTable
    <3>3. t.next \in Nat
      BY <2>6, NumbersAre
    <3> QED
      BY <2>2, <2>3, <2>6, <3>2, <3>3 DEF Remote
  <2>8. m \in Request /\ m.id = s.next /\ m.id # Query
    BY <2>2, <2>4, NumbersAre DEF Watch, Request, Query
  <2>9. /\ Query \in DOMAIN t.listens <=> Query \in DOMAIN s.listens
        /\ Query \in DOMAIN s.listens => t.listens[Query] = s.listens[Query]
    BY <2>6, <2>8 DEF With
  <2>10. SameQuery(t, r)
    BY <2>6, <2>7, <2>9, RequestsSame
  <2> QED
    BY <2>5, <2>7, <2>8, <2>10, SendSame
<1> QED
  BY <1>1, <1>2

LEMMA TrackedSame ==
    ASSUME NEW r \in Remote, NEW s \in Remote, SameQuery(s, r),
           s.next > 0, NEW k \in Docs
    PROVE  SameQuery(Tracked(s, k), r)
<1>1. CASE LookupsOf(s, k) # {} \/ k \in {s.waiting[i] : i \in DOMAIN s.waiting}
  BY <1>1 DEF Tracked
<1>2. CASE ~(LookupsOf(s, k) # {} \/ k \in {s.waiting[i] : i \in DOMAIN s.waiting})
  <2>1. PICK q : q = Append(s.waiting, k)
    OBVIOUS
  <2>2. PICK t : t = [s EXCEPT !.waiting = q]
    OBVIOUS
  <2>3. q \in Seq(Docs)
    BY <2>1, NumbersAre, AppendIs
  <2>4. t \in Remote /\ t.agg = s.agg /\ t.requests = s.requests
        /\ t.listens = s.listens /\ t.next = s.next
    BY <2>2, <2>3 DEF Remote
  <2>5. SameQuery(t, r)
    BY <2>4, RequestsSame
  <2>6. Tracked(s, k) = Pump(t)
    BY <1>2, <2>1, <2>2 DEF Tracked
  <2> QED
    BY <2>4, <2>5, <2>6, PumpSame
<1> QED
  BY <1>1, <1>2

LEMMA UntrackedSame ==
    ASSUME NEW r \in Remote, NEW s \in Remote, SameQuery(s, r),
           s.next > 0, Paired(s), NEW k \in Docs
    PROVE  SameQuery(Untracked(s, k), r)
<1>1. PICK t : t = [s EXCEPT !.waiting = Dequeued(@, k)]
  OBVIOUS
<1>2. /\ t \in Remote /\ t.agg = s.agg /\ t.requests = s.requests
      /\ t.listens = s.listens /\ t.next = s.next /\ t.limbo = s.limbo
  <2>1. PICK q \in Seq(Docs) : q = Dequeued(s.waiting, k)
    BY NumbersAre, DequeuedIs
  <2>2. t = [s EXCEPT !.waiting = q]
    BY <1>1, <2>1
  <2> QED
    BY <2>1, <2>2 DEF Remote
<1>3. SameQuery(t, r)
  BY <1>2, RequestsSame
<1>4. CASE LookupsOf(s, k) = {}
  BY <1>1, <1>3, <1>4 DEF Untracked
<1>5. CASE LookupsOf(s, k) # {}
  <2>1. PICK id : id = CHOOSE i \in LookupsOf(s, k) : TRUE
    OBVIOUS
  <2>2. id \in DOMAIN s.limbo /\ id # Query /\ id \in Nat
    BY <1>5, <2>1, NumbersAre DEF LookupsOf, Paired
  <2>3. PICK m : m = Unwatch(id)
    OBVIOUS
  <2>4. m \in Request /\ m.id = id
    BY <2>2, <2>3 DEF Unwatch, Request
  <2>5. PICK u : u = [t EXCEPT !.listens = Without(@, id)]
    OBVIOUS
  <2>6. /\ u \in Remote /\ u.agg = t.agg /\ u.requests = t.requests
        /\ u.listens = Without(t.listens, id) /\ u.next = t.next
        /\ u.limbo = t.limbo
    <3>1. Without(t.listens, id) \in Table(Nat)
      BY <1>2, NumbersAre, WithoutTable
    <3> QED
      BY <1>2, <2>5, <3>1 DEF Remote
  <2>7. SameQuery(u, r)
    <3>1. /\ Query \in DOMAIN u.listens <=> Query \in DOMAIN t.listens
          /\ Query \in DOMAIN t.listens => u.listens[Query] = t.listens[Query]
      BY <2>2, <2>6 DEF Without
    <3> QED
      BY <1>2, <1>3, <2>6, <3>1, RequestsSame
  <2>8. PICK v : v = Send(u, m)
    OBVIOUS
  <2>9. v \in Remote /\ SameQuery(v, r)
    BY <2>2, <2>4, <2>6, <2>7, <2>8, SendSame
  <2>10. v.next = s.next
    BY <1>2, <2>4, <2>6, <2>8, SendIs
  <2>11. PICK x : x = [v EXCEPT !.limbo = Without(@, id)]
    OBVIOUS
  <2>12. /\ x \in Remote /\ x.agg = v.agg /\ x.requests = v.requests
         /\ x.listens = v.listens /\ x.next = v.next
    <3>1. Without(v.limbo, id) \in Table(Lookup)
      BY <2>9, NumbersAre, WithoutTable
    <3> QED
      BY <2>9, <2>11, <3>1 DEF Remote
  <2>13. SameQuery(x, r)
    BY <2>9, <2>12, RequestsSame
  <2>14. Untracked(s, k) = Pump(x)
    BY <1>1, <1>5, <2>1, <2>3, <2>5, <2>8, <2>11 DEF Untracked
  <2> QED
    BY <2>10, <2>12, <2>13, <2>14, PumpSame
<1> QED
  BY <1>4, <1>5

LEMMA LimboUpdatedSame ==
    ASSUME NEW w \in Seq(Response), NEW srv \in Table(Served), NEW synced,
           NEW r \in Remote, Watching(r, w, srv, synced),
           NEW old \in SUBSET Docs, NEW new \in SUBSET Docs
    PROVE  SameQuery(LimboUpdated(r, old, new), r)
<1> DEFINE S == {s \in Remote : Watching(s, w, srv, synced) /\ SameQuery(s, r)}
<1>1. ASSUME NEW s \in S, NEW k \in Docs
      PROVE  Tracked(s, k) \in S /\ Untracked(s, k) \in S
  <2>1. s \in Remote /\ Watching(s, w, srv, synced) /\ SameQuery(s, r)
    OBVIOUS
  <2>2. s.next > 0 /\ Paired(s)
    BY <2>1 DEF Watching, Numbered
  <2>3. SameQuery(Tracked(s, k), r) /\ SameQuery(Untracked(s, k), r)
    BY <2>1, <2>2, TrackedSame, UntrackedSame
  <2> QED
    BY <2>1, <2>3, TrackedKeeps, UntrackedKeeps
<1>2. r \in S
  <2>1. Continues(r.requests, r.requests, Others)
    BY NumbersAre DEF Continues
  <2> QED
    BY <2>1 DEF SameQuery
<1> HIDE DEF S
<1>3. LimboUpdated(r, old, new) \in S
  BY <1>1, <1>2, LimboUpdatedIn
<1> QED
  BY <1>3 DEF S

-----------------------------------------------------------------------------
(* What follows on the wire when the first response is taken.              *)

(* The query is active when nothing about it is under way.                 *)
LEMMA CountNone ==
    ASSUME NEW S, NEW s \in Seq(S), NEW T
    PROVE  Count(s, T) = 0 <=> \A i \in 1 .. Len(s) : s[i] \notin T
<1>1. IsFiniteSet(Places(s, T)) /\ Count(s, T) = Cardinality(Places(s, T))
  BY PlacesFinite DEF Count
<1>2. Cardinality(Places(s, T)) = 0 <=> Places(s, T) = {}
  BY <1>1, FS_EmptySet
<1> QED
  BY <1>1, <1>2 DEF Places

LEMMA QueryActiveIs ==
    ASSUME NEW r \in Remote, NEW w \in Seq(Response), Pending(r, w)
    PROVE  StateOf(r, Query).pending = 0 <=>
               Quiet(r) /\ \A j \in 1 .. Len(w) : ~IsQueryAck(w[j])
<1>1. Query \in Nat /\ r.requests \in Seq(Request)
  BY NumbersAre DEF Query
<1>2. StateOf(r, Query).pending = Count(r.requests, RequestsOf(Query))
                                      + Count(w, AcksOf(Query))
  BY <1>1 DEF Pending
<1>3. Count(r.requests, RequestsOf(Query)) \in Nat /\ Count(w, AcksOf(Query)) \in Nat
  BY <1>1, PlacesFinite
<1>4. Count(r.requests, RequestsOf(Query)) = 0 <=> Quiet(r)
  <2>1. \A i \in 1 .. Len(r.requests) :
            r.requests[i] \in RequestsOf(Query) <=> r.requests[i].id = Query
    BY NumbersAre DEF RequestsOf
  <2> QED
    BY <1>1, <2>1, CountNone DEF Quiet
<1>5. Count(w, AcksOf(Query)) = 0 <=> \A j \in 1 .. Len(w) : ~IsQueryAck(w[j])
  <2>1. \A j \in 1 .. Len(w) : w[j] \in AcksOf(Query) <=> IsQueryAck(w[j])
    BY ResponsesAre, ResponseIs DEF AcksOf, IsQueryAck
  <2> QED
    BY <2>1, CountNone
<1> QED
  BY <1>2, <1>3, <1>4, <1>5

(* The places of the tail are those after the first.                       *)
LEMMA SpeaksTail ==
    ASSUME NEW w \in Seq(Response), w # << >>,
           NEW r, NEW q, q.requests = r.requests
    PROVE  /\ Quiet(q) <=> Quiet(r)
           /\ \A i \in 1 .. Len(Tail(w)) :
                  Speaks(q, Tail(w), i) <=> Speaks(r, w, i + 1)
<1>1. /\ Len(Tail(w)) = Len(w) - 1 /\ Len(w) \in Nat
      /\ \A i \in 1 .. Len(Tail(w)) : /\ Tail(w)[i] = w[i + 1]
                                      /\ i + 1 \in 1 .. Len(w)
  BY TailIs
<1>2. Quiet(q) <=> Quiet(r)
  BY DEF Quiet
<1>3. ASSUME NEW i \in 1 .. Len(Tail(w))
      PROVE  (\A j \in i .. Len(Tail(w)) : ~IsQueryAck(Tail(w)[j]))
                 <=> (\A j \in i + 1 .. Len(w) : ~IsQueryAck(w[j]))
  <2>1. ASSUME \A j \in i .. Len(Tail(w)) : ~IsQueryAck(Tail(w)[j]),
               NEW j \in i + 1 .. Len(w)
        PROVE  ~IsQueryAck(w[j])
    <3>1. j - 1 \in i .. Len(Tail(w)) /\ j - 1 \in 1 .. Len(Tail(w))
          /\ (j - 1) + 1 = j
      BY <1>1
    <3>2. Tail(w)[j - 1] = w[j]
      BY <1>1, <3>1
    <3> QED
      BY <2>1, <3>1, <3>2
  <2>2. ASSUME \A j \in i + 1 .. Len(w) : ~IsQueryAck(w[j]),
               NEW j \in i .. Len(Tail(w))
        PROVE  ~IsQueryAck(Tail(w)[j])
    <3>1. j + 1 \in i + 1 .. Len(w) /\ j \in 1 .. Len(Tail(w))
      BY <1>1
    <3> QED
      BY <1>1, <2>2, <3>1
  <2> QED
    BY <2>1, <2>2
<1>4. ASSUME NEW i \in 1 .. Len(Tail(w))
      PROVE  Speaks(q, Tail(w), i) <=> Speaks(r, w, i + 1)
  <2>1. Tail(w)[i] = w[i + 1] /\ i + 1 \in 1 .. Len(w)
    BY <1>1
  <2> QED
    BY <1>2, <1>3, <2>1 DEF Speaks
<1> QED
  BY <1>2, <1>4

(* The token that counts when the first response is taken.                 *)
TokenAfter(r, w) ==
    IF Speaks(r, w, 1) THEN w[1].version ELSE r.listens[Query]

LEMMA StandingTail ==
    ASSUME NEW w \in Seq(Response), w # << >>, NEW s,
           NEW r, NEW q, q.requests = r.requests,
           q.listens[Query] = TokenAfter(r, w), Standing(r, w, s)
    PROVE  Standing(q, Tail(w), s)
<1>1. /\ Len(Tail(w)) = Len(w) - 1 /\ Len(w) \in Nat /\ 1 \in 1 .. Len(w)
      /\ \A i \in 1 .. Len(Tail(w)) : /\ Tail(w)[i] = w[i + 1]
                                      /\ i + 1 \in 1 .. Len(w)
  BY TailIs
<1>2. /\ Quiet(q) <=> Quiet(r)
      /\ \A i \in 1 .. Len(Tail(w)) : Speaks(q, Tail(w), i) <=> Speaks(r, w, i + 1)
  BY SpeaksTail
<1> SUFFICES ASSUME Quiet(q)
             PROVE  /\ Query \in DOMAIN s /\ s[Query].covers = Docs
                    /\ (\A i \in 1 .. Len(Tail(w)) : ~Speaks(q, Tail(w), i)) =>
                           s[Query].sent = q.listens[Query]
                    /\ \A i \in 1 .. Len(Tail(w)) :
                           /\ Speaks(q, Tail(w), i)
                           /\ \A j \in i + 1 .. Len(Tail(w)) :
                                  ~Speaks(q, Tail(w), j)
                           => s[Query].sent = Tail(w)[i].version
  BY DEF Standing
<1>3. Query \in DOMAIN s /\ s[Query].covers = Docs
  BY <1>2 DEF Standing
<1>4. ASSUME \A i \in 1 .. Len(Tail(w)) : ~Speaks(q, Tail(w), i)
      PROVE  s[Query].sent = q.listens[Query]
  <2>1. ASSUME NEW j \in 2 .. Len(w)
        PROVE  ~Speaks(r, w, j)
    <3>1. j - 1 \in 1 .. Len(Tail(w)) /\ (j - 1) + 1 = j
      BY <1>1
    <3> QED
      BY <1>2, <1>4, <3>1
  <2>2. CASE Speaks(r, w, 1)
    <3>1. s[Query].sent = w[1].version
      BY <1>1, <1>2, <2>1, <2>2 DEF Standing
    <3> QED
      BY <2>2, <3>1 DEF TokenAfter
  <2>3. CASE ~Speaks(r, w, 1)
    <3>1. \A i \in 1 .. Len(w) : ~Speaks(r, w, i)
      BY <1>1, <2>1, <2>3
    <3> QED
      BY <1>2, <2>3, <3>1 DEF Standing, TokenAfter
  <2> QED
    BY <2>2, <2>3
<1>5. ASSUME NEW i \in 1 .. Len(Tail(w)), Speaks(q, Tail(w), i),
             \A j \in i + 1 .. Len(Tail(w)) : ~Speaks(q, Tail(w), j)
      PROVE  s[Query].sent = Tail(w)[i].version
  <2>1. Speaks(r, w, i + 1) /\ i + 1 \in 1 .. Len(w) /\ Tail(w)[i] = w[i + 1]
    BY <1>1, <1>2, <1>5
  <2>2. ASSUME NEW j \in (i + 1) + 1 .. Len(w)
        PROVE  ~Speaks(r, w, j)
    <3>1. j - 1 \in i + 1 .. Len(Tail(w)) /\ j - 1 \in 1 .. Len(Tail(w))
          /\ (j - 1) + 1 = j
      BY <1>1
    <3> QED
      BY <1>2, <1>5, <3>1
  <2> QED
    BY <1>2, <2>1, <2>2 DEF Standing
<1> QED
  BY <1>3, <1>4, <1>5

LEMMA ToldBetweenTail ==
    ASSUME NEW w \in Seq(Response), w # << >>, NEW h,
           NEW r, NEW q, q.requests = r.requests, ToldBetween(h, r, w)
    PROVE  ToldBetween(h, q, Tail(w))
<1>1. /\ Len(Tail(w)) = Len(w) - 1 /\ Len(w) \in Nat
      /\ \A i \in 1 .. Len(Tail(w)) : /\ Tail(w)[i] = w[i + 1]
                                      /\ i + 1 \in 1 .. Len(w)
  BY TailIs
<1>2. \A i \in 1 .. Len(Tail(w)) : Speaks(q, Tail(w), i) <=> Speaks(r, w, i + 1)
  BY SpeaksTail
<1> SUFFICES ASSUME NEW i \in 1 .. Len(Tail(w)), NEW j \in 1 .. Len(Tail(w)),
                    NEW k \in Docs,
                    i < j, Speaks(q, Tail(w), i), Speaks(q, Tail(w), j),
                    There(h, k, Tail(w)[j].version),
                    ~There(h, k, Tail(w)[i].version)
             PROVE  \E m \in i .. j : TellsOf(Tail(w)[m], k)
  BY DEF ToldBetween
<1>3. /\ i + 1 \in 1 .. Len(w) /\ j + 1 \in 1 .. Len(w) /\ i + 1 < j + 1
      /\ Tail(w)[i] = w[i + 1] /\ Tail(w)[j] = w[j + 1]
      /\ Speaks(r, w, i + 1) /\ Speaks(r, w, j + 1)
  BY <1>1, <1>2
<1>4. PICK m \in i + 1 .. j + 1 : TellsOf(w[m], k)
  BY <1>3 DEF ToldBetween
<1>5. m - 1 \in i .. j /\ m - 1 \in 1 .. Len(Tail(w)) /\ (m - 1) + 1 = m
  BY <1>1, <1>3
<1>6. Tail(w)[m - 1] = w[m]
  BY <1>1, <1>5
<1> QED
  BY <1>4, <1>5, <1>6

LEMMA BeforeTail ==
    ASSUME NEW w \in Seq(Response), w # << >>,
           NEW i \in 1 .. Len(Tail(w)), NEW j \in 1 .. Len(Tail(w))
    PROVE  Before(Tail(w), j, i) <=> Before(w, j + 1, i + 1)
<1>1. /\ Len(Tail(w)) = Len(w) - 1 /\ Len(w) \in Nat
      /\ \A m \in 1 .. Len(Tail(w)) : /\ Tail(w)[m] = w[m + 1]
                                      /\ m + 1 \in 1 .. Len(w)
  BY TailIs
<1>2. ASSUME Before(Tail(w), j, i), NEW m \in j + 1 .. (i + 1) - 1
      PROVE  ~IsSnapshot(w[m])
  <2>1. m - 1 \in j .. i - 1 /\ m - 1 \in 1 .. Len(Tail(w)) /\ (m - 1) + 1 = m
    BY <1>1
  <2>2. Tail(w)[m - 1] = w[m]
    BY <1>1, <2>1
  <2> QED
    BY <1>2, <2>1, <2>2 DEF Before
<1>3. ASSUME Before(w, j + 1, i + 1), NEW m \in j .. i - 1
      PROVE  ~IsSnapshot(Tail(w)[m])
  <2>1. m + 1 \in j + 1 .. (i + 1) - 1 /\ m \in 1 .. Len(Tail(w))
    BY <1>1
  <2>2. Tail(w)[m] = w[m + 1]
    BY <1>1, <2>1
  <2> QED
    BY <1>3, <2>1, <2>2 DEF Before
<1> QED
  BY <1>2, <1>3 DEF Before

LEMMA DeletedGoneTail ==
    ASSUME NEW w \in Seq(Response), w # << >>, NEW h, DeletedGone(h, w)
    PROVE  DeletedGone(h, Tail(w))
<1>1. /\ Len(Tail(w)) = Len(w) - 1 /\ Len(w) \in Nat
      /\ \A m \in 1 .. Len(Tail(w)) : /\ Tail(w)[m] = w[m + 1]
                                      /\ m + 1 \in 1 .. Len(w)
  BY TailIs
<1> SUFFICES ASSUME NEW i \in 1 .. Len(Tail(w)), NEW j \in 1 .. Len(Tail(w)),
                    j < i, Tail(w)[j].type = "delete", Tail(w)[j].id = Query,
                    IsSnapshot(Tail(w)[i]), Before(Tail(w), j, i)
             PROVE  ~There(h, Tail(w)[j].key, Tail(w)[i].version)
  BY DEF DeletedGone
<1>2. /\ i + 1 \in 1 .. Len(w) /\ j + 1 \in 1 .. Len(w) /\ j + 1 < i + 1
      /\ Tail(w)[i] = w[i + 1] /\ Tail(w)[j] = w[j + 1]
      /\ Before(w, j + 1, i + 1)
  BY <1>1, BeforeTail
<1> QED
  BY <1>2 DEF DeletedGone

LEMMA BatchesTail ==
    ASSUME NEW w \in Seq(Response), w # << >>, Batches(w)
    PROVE  Batches(Tail(w))
<1>1. /\ Len(Tail(w)) = Len(w) - 1 /\ Len(w) \in Nat
      /\ \A m \in 1 .. Len(Tail(w)) : /\ Tail(w)[m] = w[m + 1]
                                      /\ m + 1 \in 1 .. Len(w)
  BY TailIs
<1>2. ASSUME NEW j \in 1 .. Len(Tail(w)),
             Tail(w)[j].type \notin {"added", "removed"}
      PROVE  \E i \in j .. Len(Tail(w)) : IsSnapshot(Tail(w)[i])
  <2>1. j + 1 \in 1 .. Len(w) /\ Tail(w)[j] = w[j + 1]
    BY <1>1
  <2>2. PICK i \in j + 1 .. Len(w) : IsSnapshot(w[i])
    BY <1>2, <2>1 DEF Batches
  <2>3. i - 1 \in j .. Len(Tail(w)) /\ i - 1 \in 1 .. Len(Tail(w))
        /\ (i - 1) + 1 = i
    BY <1>1
  <2>4. Tail(w)[i - 1] = w[i]
    BY <1>1, <2>3
  <2> QED
    BY <2>2, <2>3, <2>4
<1>3. ASSUME NEW j \in 1 .. Len(Tail(w)), NEW c \in 1 .. Len(Tail(w)),
             j < c, Tail(w)[j].type = "filter", Tail(w)[c].type = "current"
      PROVE  \E i \in j .. c : IsSnapshot(Tail(w)[i])
  <2>1. /\ j + 1 \in 1 .. Len(w) /\ c + 1 \in 1 .. Len(w) /\ j + 1 < c + 1
        /\ Tail(w)[j] = w[j + 1] /\ Tail(w)[c] = w[c + 1]
    BY <1>1, <1>3
  <2>2. PICK i \in j + 1 .. c + 1 : IsSnapshot(w[i])
    BY <1>3, <2>1 DEF Batches
  <2>3. i - 1 \in j .. c /\ i - 1 \in 1 .. Len(Tail(w)) /\ (i - 1) + 1 = i
    BY <1>1, <2>1
  <2>4. Tail(w)[i - 1] = w[i]
    BY <1>1, <2>3
  <2> QED
    BY <2>2, <2>3, <2>4
<1> QED
  BY <1>2, <1>3 DEF Batches

LEMMA LatestTail ==
    ASSUME NEW w, NEW r, NEW q, q.requests = r.requests,
           q.listens[Query] = TokenAfter(r, w), Latest(r)
    PROVE  Latest(q)
<1>1. CASE Speaks(r, w, 1)
  BY <1>1 DEF Speaks, Quiet, Latest
<1>2. CASE ~Speaks(r, w, 1)
  BY <1>2 DEF TokenAfter, Latest
<1> QED
  BY <1>1, <1>2

(* What becomes of the changes of the query when the first response is     *)
(* taken: a document told of is a change, and so is a change of before,    *)
(* unless the document is gone.                                            *)
KeepsTold(h, r, w, q, y) ==
    y = {} /\ ~IsSnapshot(w[1]) => \A k \in Docs :
        /\ QueryActive(r)
        /\ ChangesIn(r)[k] \in {"added", "modified"} \/ TellsOf(w[1], k)
        => \/ QueryActive(q) /\ ChangesIn(q)[k] \in {"added", "modified"}
           \/ \A i \in 1 .. Len(w) : SpeaksFirst(r, w, i) =>
                  ~There(h, k, w[i].version)

KeepsGone(h, r, w, q, y) ==
    \A k \in Docs : y = {} /\ QueryActive(q) /\ ChangesIn(q)[k] = "removed" =>
        /\ ~IsSnapshot(w[1])
        /\ \/ QueryActive(r) /\ ChangesIn(r)[k] = "removed"
           \/ \A i \in 1 .. Len(w) : IsSnapshot(w[i]) /\ Before(w, 1, i) =>
                  ~There(h, k, w[i].version)

KeepsExpected(r, w, x, q, y) ==
    w[1].type \in {"added", "removed", "snapshot"} =>
        /\ y = {} \/ (y = x /\ ~IsSnapshot(w[1]))
        /\ QueryActive(q) => \/ ChangesIn(q) = Untouched
                             \/ /\ QueryActive(r) /\ ~IsSnapshot(w[1])
                                /\ ChangesIn(q) = ChangesIn(r)

KeepsAwaited(w, x, q, y) ==
    y # {} => /\ QueryActive(q) /\ ~StateOf(q, Query).current
              /\ w[1].type = "filter" \/ (x # {} /\ ~IsSnapshot(w[1]))

LEMMA ToldFirstTail ==
    ASSUME NEW w \in Seq(Response), w # << >>, NEW h,
           NEW r \in Remote, Pending(r, w), Query \in DOMAIN r.listens,
           NEW q, q.requests = r.requests, q.listens[Query] = TokenAfter(r, w),
           NEW x, NEW y, y = {} => x = {},
           ToldBetween(h, r, w), ToldFirst(h, r, w, x), KeepsTold(h, r, w, q, y)
    PROVE  ToldFirst(h, q, Tail(w), y)
<1>1. /\ Len(Tail(w)) = Len(w) - 1 /\ Len(w) \in Nat /\ 1 \in 1 .. Len(w)
      /\ \A i \in 1 .. Len(Tail(w)) : /\ Tail(w)[i] = w[i + 1]
                                      /\ i + 1 \in 1 .. Len(w)
  BY TailIs
<1>2. /\ Quiet(q) <=> Quiet(r)
      /\ \A i \in 1 .. Len(Tail(w)) : Speaks(q, Tail(w), i) <=> Speaks(r, w, i + 1)
  BY SpeaksTail
<1>3. QueryActive(r) <=> Quiet(r) /\ \A j \in 1 .. Len(w) : ~IsQueryAck(w[j])
  BY QueryActiveIs DEF QueryActive
<1> SUFFICES ASSUME NEW i \in 1 .. Len(Tail(w)), NEW k \in Docs,
                    SpeaksFirst(q, Tail(w), i), y = {},
                    There(h, k, Tail(w)[i].version),
                    ~There(h, k, q.listens[Query])
             PROVE  \/ QueryActive(q) /\ ChangesIn(q)[k] \in {"added", "modified"}
                    \/ \E m \in 1 .. i :
                           /\ TellsOf(Tail(w)[m], k)
                           /\ \A j \in m .. Len(Tail(w)) : ~IsQueryAck(Tail(w)[j])
  BY DEF ToldFirst
<1>4. /\ i + 1 \in 1 .. Len(w) /\ Tail(w)[i] = w[i + 1]
      /\ Speaks(r, w, i + 1) /\ Quiet(r)
  BY <1>1, <1>2 DEF SpeaksFirst, Speaks
(* A document told of later than the first response.                       *)
<1>5. ASSUME NEW m \in 2 .. i + 1, TellsOf(w[m], k),
             \A j \in m .. Len(w) : ~IsQueryAck(w[j])
      PROVE  \E n \in 1 .. i :
                 /\ TellsOf(Tail(w)[n], k)
                 /\ \A j \in n .. Len(Tail(w)) : ~IsQueryAck(Tail(w)[j])
  <2>1. /\ m - 1 \in 1 .. i /\ m - 1 \in 1 .. Len(Tail(w)) /\ (m - 1) + 1 = m
    BY <1>1
  <2>2. TellsOf(Tail(w)[m - 1], k)
    BY <1>1, <1>5, <2>1
  <2>3. ASSUME NEW j \in m - 1 .. Len(Tail(w))
        PROVE  ~IsQueryAck(Tail(w)[j])
    <3>1. j \in 1 .. Len(Tail(w)) /\ j + 1 \in m .. Len(w)
      BY <1>1, <2>1
    <3> QED
      BY <1>1, <1>5, <3>1
  <2> QED
    BY <2>1, <2>2, <2>3
<1>6. CASE Speaks(r, w, 1)
  <2>1. ~There(h, k, w[1].version)
    BY <1>6 DEF TokenAfter
  <2>2. PICK m \in 1 .. i + 1 : TellsOf(w[m], k)
    <3>1. 1 < i + 1
      BY <1>1
    <3> QED
      BY <1>1, <1>4, <1>6, <2>1, <3>1 DEF ToldBetween
  <2>3. m # 1
    BY <1>6, <2>2 DEF Speaks, IsSnapshot, TellsOf
  <2>4. \A j \in m .. Len(w) : ~IsQueryAck(w[j])
    BY <1>6, <2>2 DEF Speaks
  <2> QED
    BY <1>5, <2>2, <2>3, <2>4, SMTT(20)
<1>7. CASE ~Speaks(r, w, 1)
  <2>1. SpeaksFirst(r, w, i + 1)
    <3>1. ASSUME NEW j \in 2 .. i
          PROVE  ~Speaks(r, w, j)
      <4>1. j - 1 \in 1 .. i - 1 /\ j - 1 \in 1 .. Len(Tail(w)) /\ (j - 1) + 1 = j
        BY <1>1
      <4> QED
        BY <1>2, <4>1 DEF SpeaksFirst
    <3>2. \A j \in 1 .. (i + 1) - 1 : j = 1 \/ j \in 2 .. i
      BY <1>1
    <3> QED
      BY <1>4, <1>7, <3>1, <3>2 DEF SpeaksFirst
  <2>2. ~There(h, k, r.listens[Query]) /\ There(h, k, w[i + 1].version) /\ x = {}
    BY <1>4, <1>7 DEF TokenAfter
  <2>3. \/ QueryActive(r) /\ ChangesIn(r)[k] \in {"added", "modified"}
        \/ \E m \in 1 .. i + 1 : /\ TellsOf(w[m], k)
                                 /\ \A j \in m .. Len(w) : ~IsQueryAck(w[j])
    BY <1>4, <2>1, <2>2 DEF ToldFirst
  <2>4. CASE /\ QueryActive(r)
             /\ ChangesIn(r)[k] \in {"added", "modified"} \/ TellsOf(w[1], k)
    <3>1. ~IsSnapshot(w[1])
      BY <1>1, <1>3, <1>7, <2>4 DEF Speaks
    <3> QED
      BY <1>4, <2>1, <2>2, <2>4, <3>1 DEF KeepsTold
  <2>5. CASE \E m \in 1 .. i + 1 : /\ TellsOf(w[m], k)
                                   /\ \A j \in m .. Len(w) : ~IsQueryAck(w[j])
    <3>1. PICK m \in 1 .. i + 1 : /\ TellsOf(w[m], k)
                                  /\ \A j \in m .. Len(w) : ~IsQueryAck(w[j])
      BY <2>5
    <3>2. CASE m = 1
      BY <1>3, <1>4, <2>4, <3>1, <3>2
    <3>3. CASE m # 1
      BY <1>5, <3>1, <3>3
    <3> QED
      BY <3>2, <3>3
  <2> QED
    BY <2>3, <2>4, <2>5
<1> QED
  BY <1>6, <1>7

LEMMA BeforeFirst ==
    ASSUME NEW w \in Seq(Response), w # << >>, ~IsSnapshot(w[1]),
           NEW i \in 1 .. Len(Tail(w))
    PROVE  Before(Tail(w), 1, i) <=> Before(w, 1, i + 1)
<1>1. Len(Tail(w)) \in Nat /\ 1 \in 1 .. Len(Tail(w))
  BY TailIs
<1>2. Before(Tail(w), 1, i) <=> Before(w, 1 + 1, i + 1)
  BY <1>1, BeforeTail
<1>3. \A m \in 1 .. (i + 1) - 1 : m = 1 \/ m \in 1 + 1 .. (i + 1) - 1
  BY <1>1
<1>4. Before(w, 1 + 1, i + 1) <=> Before(w, 1, i + 1)
  BY <1>3 DEF Before
<1> QED
  BY <1>2, <1>4

LEMMA RemovedGoneTail ==
    ASSUME NEW w \in Seq(Response), w # << >>, NEW h, NEW r, NEW q,
           NEW x, NEW y, y = {} => x = {},
           RemovedGone(h, r, w, x), KeepsGone(h, r, w, q, y)
    PROVE  RemovedGone(h, q, Tail(w), y)
<1> SUFFICES ASSUME NEW i \in 1 .. Len(Tail(w)), NEW k \in Docs,
                    IsSnapshot(Tail(w)[i]), Before(Tail(w), 1, i), y = {},
                    QueryActive(q), ChangesIn(q)[k] = "removed"
             PROVE  ~There(h, k, Tail(w)[i].version)
  BY DEF RemovedGone
<1>1. Tail(w)[i] = w[i + 1] /\ i + 1 \in 1 .. Len(w)
  BY TailIs
<1>2. ~IsSnapshot(w[1])
  BY DEF KeepsGone
<1>3. Before(w, 1, i + 1)
  BY <1>2, BeforeFirst
<1> QED
  BY <1>1, <1>3 DEF KeepsGone, RemovedGone

LEMMA ExpectedTail ==
    ASSUME NEW w \in Seq(Response), w # << >>, NEW r, NEW q, NEW x, NEW y,
           Batches(w), Expected(r, w, x), KeepsExpected(r, w, x, q, y)
    PROVE  Expected(q, Tail(w), y)
<1>1. /\ Len(Tail(w)) = Len(w) - 1 /\ Len(w) \in Nat /\ 1 \in 1 .. Len(w)
      /\ \A i \in 1 .. Len(Tail(w)) : /\ Tail(w)[i] = w[i + 1]
                                      /\ i + 1 \in 1 .. Len(w)
  BY TailIs
<1> SUFFICES ASSUME \A i \in 1 .. Len(Tail(w)) : ~IsSnapshot(Tail(w)[i])
             PROVE  y = {} /\ (QueryActive(q) => ChangesIn(q) = Untouched)
  BY DEF Expected
<1>2. ASSUME NEW i \in 2 .. Len(w)
      PROVE  ~IsSnapshot(w[i])
  <2>1. i - 1 \in 1 .. Len(Tail(w)) /\ (i - 1) + 1 = i
    BY <1>1
  <2> QED
    BY <1>1, <2>1
<1>3. w[1].type \in {"added", "removed", "snapshot"}
  <2>1. CASE w[1].type \notin {"added", "removed"}
    <3>1. PICK i \in 1 .. Len(w) : IsSnapshot(w[i])
      BY <1>1, <2>1 DEF Batches
    <3>2. i = 1
      BY <1>1, <1>2, <3>1
    <3> QED
      BY <3>1, <3>2 DEF IsSnapshot
  <2> QED
    BY <2>1
<1>4. ~IsSnapshot(w[1]) => \A i \in 1 .. Len(w) : ~IsSnapshot(w[i])
  BY <1>1, <1>2
<1> QED
  BY <1>3, <1>4 DEF Expected, KeepsExpected

LEMMA AwaitedTail ==
    ASSUME NEW w \in Seq(Response), w # << >>, NEW r, NEW q, NEW x, NEW y,
           Batches(w), Awaited(r, w, x), KeepsAwaited(w, x, q, y)
    PROVE  Awaited(q, Tail(w), y)
<1>1. /\ Len(Tail(w)) = Len(w) - 1 /\ Len(w) \in Nat /\ 1 \in 1 .. Len(w)
      /\ \A i \in 1 .. Len(Tail(w)) : /\ Tail(w)[i] = w[i + 1]
                                      /\ i + 1 \in 1 .. Len(w)
  BY TailIs
<1> SUFFICES ASSUME y # {}
             PROVE  /\ QueryActive(q) /\ ~StateOf(q, Query).current
                    /\ \A c \in 1 .. Len(Tail(w)) :
                           Tail(w)[c].type = "current" => ~Before(Tail(w), 1, c)
  BY DEF Awaited
<1>2. QueryActive(q) /\ ~StateOf(q, Query).current
  BY DEF KeepsAwaited
<1>3. ASSUME NEW c \in 1 .. Len(Tail(w)), Tail(w)[c].type = "current"
      PROVE  ~Before(Tail(w), 1, c)
  <2>1. c + 1 \in 1 .. Len(w) /\ w[c + 1].type = "current"
    BY <1>1, <1>3
  <2>2. ~IsSnapshot(w[1])
    BY DEF KeepsAwaited, IsSnapshot
  <2>3. CASE x # {} /\ w[1].type # "filter"
    <3>1. ~Before(w, 1, c + 1)
      BY <2>1, <2>3 DEF Awaited
    <3> QED
      BY <2>2, <3>1, BeforeFirst
  <2>4. CASE w[1].type = "filter"
    <3>1. PICK i \in 1 .. c + 1 : IsSnapshot(w[i])
      <4>1. 1 < c + 1
        BY <1>1
      <4> QED
        BY <1>1, <2>1, <2>4, <4>1 DEF Batches
    <3>2. i # c + 1
      BY <2>1, <3>1 DEF IsSnapshot
    <3>3. i \in 1 .. (c + 1) - 1
      BY <1>1, <3>2
    <3>4. ~Before(w, 1, c + 1)
      BY <3>1, <3>3 DEF Before
    <3> QED
      BY <2>2, <3>4, BeforeFirst
  <2> QED
    BY <2>3, <2>4 DEF KeepsAwaited
<1> QED
  BY <1>2, <1>3

LEMMA FollowingTail ==
    ASSUME NEW w \in Seq(Response), w # << >>, NEW h, NEW s,
           NEW r \in Remote, Pending(r, w), Query \in DOMAIN r.listens,
           NEW q, q.requests = r.requests, q.listens[Query] = TokenAfter(r, w),
           NEW x, NEW y, y = {} => x = {},
           Following(h, r, w, s, x),
           KeepsTold(h, r, w, q, y), KeepsGone(h, r, w, q, y),
           KeepsExpected(r, w, x, q, y), KeepsAwaited(w, x, q, y)
    PROVE  Following(h, q, Tail(w), s, y)
<1>1. /\ Latest(r) /\ Standing(r, w, s) /\ ToldBetween(h, r, w)
      /\ ToldFirst(h, r, w, x) /\ DeletedGone(h, w) /\ RemovedGone(h, r, w, x)
      /\ Expected(r, w, x) /\ Awaited(r, w, x) /\ Batches(w)
  BY DEF Following
<1>2. Latest(q) /\ Standing(q, Tail(w), s)
  BY <1>1, LatestTail, StandingTail
<1>3. ToldBetween(h, q, Tail(w)) /\ DeletedGone(h, Tail(w)) /\ Batches(Tail(w))
  BY <1>1, ToldBetweenTail, DeletedGoneTail, BatchesTail
<1>4. ToldFirst(h, q, Tail(w), y)
  BY <1>1, ToldFirstTail
<1>5. RemovedGone(h, q, Tail(w), y)
  BY <1>1, RemovedGoneTail
<1>6. Expected(q, Tail(w), y) /\ Awaited(q, Tail(w), y)
  BY <1>1, ExpectedTail, AwaitedTail
<1> QED
  BY <1>2, <1>3, <1>4, <1>5, <1>6 DEF Following

(* A response that is not about the query, or that the query ignores.      *)
LEMMA OtherKeeps ==
    ASSUME NEW w, NEW h, NEW s, NEW r, NEW q, NEW x, Following(h, r, w, s, x),
           StateOf(q, Query) = StateOf(r, Query), q.listens = r.listens,
           ~IsSnapshot(w[1]),
           QueryActive(r) => \A k \in Docs : ~TellsOf(w[1], k)
    PROVE  /\ KeepsTold(h, r, w, q, x) /\ KeepsGone(h, r, w, q, x)
           /\ KeepsExpected(r, w, x, q, x) /\ KeepsAwaited(w, x, q, x)
<1>1. /\ QueryActive(q) <=> QueryActive(r)
      /\ ChangesIn(q) = ChangesIn(r)
      /\ StateOf(q, Query).current = StateOf(r, Query).current
  BY DEF QueryActive, ChangesIn
<1>2. KeepsTold(h, r, w, q, x)
  BY <1>1 DEF KeepsTold
<1>3. KeepsGone(h, r, w, q, x)
  BY <1>1 DEF KeepsGone
<1>4. KeepsExpected(r, w, x, q, x)
  BY <1>1 DEF KeepsExpected, IsSnapshot, Following, Expected
<1>5. KeepsAwaited(w, x, q, x)
  BY <1>1 DEF KeepsAwaited, Following, Awaited
<1> QED
  BY <1>2, <1>3, <1>4, <1>5

LEMMA InTimeTail ==
    ASSUME NEW w \in Seq(Response), w # << >>, NEW u, NEW v, NEW n,
           InTime(w, u, n), n \in Nat,
           \A k \in Docs : v[k] # << >> =>
               \/ v[k] = u[k]
               \/ v[k][1].version = 0
               \/ /\ w[1].type \in {"document", "delete"}
                  /\ v[k][1].version = w[1].version
    PROVE  InTime(Tail(w), v, n)
<1>1. /\ Len(Tail(w)) = Len(w) - 1 /\ Len(w) \in Nat /\ 1 \in 1 .. Len(w)
      /\ \A i \in 1 .. Len(Tail(w)) : /\ Tail(w)[i] = w[i + 1]
                                      /\ i + 1 \in 1 .. Len(w)
  BY TailIs
<1>2. \A i \in 1 .. Len(w) : IsSnapshot(w[i]) => w[i].version \in Nat
  BY ResponsesAre, ResponseIs DEF IsSnapshot
<1>3. ASSUME NEW j \in 1 .. Len(Tail(w)), Tail(w)[j].type \in {"document", "delete"}
      PROVE  /\ Tail(w)[j].version <= n
             /\ \A i \in j .. Len(Tail(w)) : IsSnapshot(Tail(w)[i]) =>
                    Tail(w)[j].version <= Tail(w)[i].version
  <2>1. j + 1 \in 1 .. Len(w) /\ Tail(w)[j] = w[j + 1]
    BY <1>1
  <2>2. ASSUME NEW i \in j .. Len(Tail(w)), IsSnapshot(Tail(w)[i])
        PROVE  Tail(w)[j].version <= Tail(w)[i].version
    <3>1. i + 1 \in j + 1 .. Len(w) /\ i \in 1 .. Len(Tail(w))
      BY <1>1
    <3>2. Tail(w)[i] = w[i + 1]
      BY <1>1, <3>1
    <3> QED
      BY <1>3, <2>1, <2>2, <3>1, <3>2 DEF InTime
  <2> QED
    BY <1>3, <2>1, <2>2 DEF InTime
<1>4. ASSUME NEW k \in Docs, v[k] # << >>
      PROVE  /\ v[k][1].version <= n
             /\ \A i \in 1 .. Len(w) : IsSnapshot(w[i]) =>
                    v[k][1].version <= w[i].version
  <2>1. CASE v[k] = u[k]
    BY <1>4, <2>1 DEF InTime
  <2>2. CASE v[k][1].version = 0
    BY <1>2, <2>2
  <2>3. CASE w[1].type \in {"document", "delete"} /\ v[k][1].version = w[1].version
    BY <1>1, <2>3 DEF InTime
  <2> QED
    BY <1>4, <2>1, <2>2, <2>3
<1>5. \A k \in Docs : v[k] # << >> =>
          /\ v[k][1].version <= n
          /\ \A i \in 1 .. Len(Tail(w)) : IsSnapshot(Tail(w)[i]) =>
                 v[k][1].version <= Tail(w)[i].version
  BY <1>1, <1>4
<1> QED
  BY <1>3, <1>5 DEF InTime

-----------------------------------------------------------------------------
(* Responses taken from the stream.                                        *)

LEMMA SyncFacts ==
    ASSUME SyncInv, wire # << >>
    PROVE  /\ remote \in Remote /\ wire \in Seq(Response)
           /\ open /\ view.on /\ Query \in DOMAIN remote.listens
           /\ Pending(remote, wire) /\ Paired(remote)
           /\ Following(Now, remote, wire, served, resets)
           /\ Head(wire) = wire[1] /\ wire[1] \in Response
           /\ InTime(wire, updates, Clock) /\ Clock \in Nat
           /\ QueryActive(remote) <=>
                  Quiet(remote) /\ \A j \in 1 .. Len(wire) : ~IsQueryAck(wire[j])
<1>1. ReadInv
  BY DEF SyncInv
<1>2. remote \in Remote /\ wire \in Seq(Response) /\ open
  BY <1>1, ReadFacts, FirstIs
<1>3. view.on
  BY <1>1, <1>2 DEF ReadInv, ViewFirst
<1>4. Query \in DOMAIN remote.listens
  BY <1>3 DEF SyncInv, Tokens
<1>5. Pending(remote, wire) /\ Paired(remote)
  BY <1>1, ReadFacts DEF Watching
<1>6. Following(Now, remote, wire, served, resets)
  BY <1>2 DEF SyncInv
<1>7. Head(wire) = wire[1] /\ wire[1] \in Response
  BY <1>2, TailIs
<1>8. InTime(wire, updates, Clock) /\ Clock \in Nat
  BY <1>1, NowIs DEF SyncInv, Dated
<1>9. QueryActive(remote) <=>
          Quiet(remote) /\ \A j \in 1 .. Len(wire) : ~IsQueryAck(wire[j])
  BY <1>2, <1>4, <1>5, QueryActiveIs DEF QueryActive
<1> QED
  BY <1>2, <1>3, <1>4, <1>5, <1>6, <1>7, <1>8, <1>9

LEMMA TakenSync ==
    ASSUME SyncInv, ReadInv', NEW type, Takes(type), type # "snapshot", Quietly,
           remote'.requests = remote.requests, remote'.listens = remote.listens,
           resets' = {} => resets = {},
           KeepsTold(Now, remote, wire, remote', resets'),
           KeepsGone(Now, remote, wire, remote', resets'),
           KeepsExpected(remote, wire, resets, remote', resets'),
           KeepsAwaited(wire, resets, remote', resets'),
           \A k \in Docs : updates'[k] # << >> =>
               \/ updates'[k] = updates[k]
               \/ updates'[k][1].version = 0
               \/ /\ wire[1].type \in {"document", "delete"}
                  /\ updates'[k][1].version = wire[1].version
    PROVE  SyncInv'
<1>1. /\ wire # << >> /\ wire' = Tail(wire) /\ Head(wire).type = type
      /\ history' = history /\ served' = served /\ answers' = answers
      /\ open' = open
  BY DEF Takes, server
<1>2. /\ queue' = queue /\ cache' = cache /\ keys' = keys /\ saved' = saved
      /\ last' = last /\ target' = target /\ view' = view
      /\ resetting' = resetting
  BY DEF Quietly, disk, program
<1>3. Now' = Now /\ Clock' = Clock
  BY <1>1 DEF Now, Clock
<1>4. InTime(wire', updates', Clock')
  BY <1>1, <1>3, SyncFacts, InTimeTail
<1>5. Dated'
  BY <1>1, <1>2, <1>3, <1>4 DEF SyncInv, Dated
<1>6. Tokens'
  BY <1>2 DEF SyncInv, Tokens
<1>7. KeysKept'
  BY <1>2, <1>3 DEF SyncInv, KeysKept, Base
<1>8. Following(Now', remote', wire', served', resets')
  <2>1. TokenAfter(remote, wire) = remote'.listens[Query]
    BY <1>1, SyncFacts DEF TokenAfter, Speaks, IsSnapshot
  <2>2. Following(Now, remote', Tail(wire), served, resets')
    BY <1>1, <2>1, SyncFacts, FollowingTail
  <2> QED
    BY <1>1, <1>3, <2>2
<1>9. open'
  BY <1>1, SyncFacts
<1> QED
  BY <1>5, <1>6, <1>7, <1>8, <1>9 DEF SyncInv

(* A change of the state of another target.                                *)
LEMMA OtherTaken ==
    ASSUME SyncInv, ReadInv', NEW type, Takes(type), type # "snapshot", Quietly,
           remote'.requests = remote.requests, remote'.listens = remote.listens,
           StateOf(remote', Query) = StateOf(remote, Query),
           QueryActive(remote) => \A k \in Docs : ~TellsOf(wire[1], k),
           resets' = resets,
           \A k \in Docs : updates'[k] # << >> =>
               \/ updates'[k] = updates[k]
               \/ updates'[k][1].version = 0
               \/ /\ wire[1].type \in {"document", "delete"}
                  /\ updates'[k][1].version = wire[1].version
    PROVE  SyncInv'
<1>1. wire # << >> /\ Head(wire).type = type
  BY DEF Takes
<1>2. ~IsSnapshot(wire[1]) /\ Following(Now, remote, wire, served, resets)
  BY <1>1, SyncFacts DEF IsSnapshot
<1>3. /\ KeepsTold(Now, remote, wire, remote', resets)
      /\ KeepsGone(Now, remote, wire, remote', resets)
      /\ KeepsExpected(remote, wire, resets, remote', resets)
      /\ KeepsAwaited(wire, resets, remote', resets)
  BY <1>2, OtherKeeps
<1> QED
  BY <1>3, TakenSync

(* The state of a target, once set or dropped.                             *)
StateIn(r, id, st) == [r EXCEPT !.agg = With(@, id, st)]
StateOut(r, id) == [r EXCEPT !.agg = Without(@, id)]

LEMMA StateSet ==
    ASSUME remote \in Remote, NEW id, NEW st, remote' = StateIn(remote, id, st)
    PROVE  /\ remote'.requests = remote.requests
           /\ remote'.listens = remote.listens
           /\ remote'.limbo = remote.limbo
           /\ StateOf(remote', id) = st
           /\ \A other : other # id =>
                  StateOf(remote', other) = StateOf(remote, other)
<1>1. PICK r \in Remote : r = remote
  OBVIOUS
<1>2. PICK q : q = remote'
  OBVIOUS
<1>3. /\ q.requests = r.requests /\ q.listens = r.listens
      /\ q.limbo = r.limbo /\ q.agg = With(r.agg, id, st)
  BY <1>1, <1>2 DEF StateIn, Remote
<1>4. /\ StateOf(q, id) = st
      /\ \A other : other # id => StateOf(q, other) = StateOf(r, other)
  BY <1>3 DEF StateOf, With
<1> QED
  BY <1>1, <1>2, <1>3, <1>4

LEMMA StateUnset ==
    ASSUME remote \in Remote, NEW id, remote' = StateOut(remote, id)
    PROVE  /\ remote'.requests = remote.requests
           /\ remote'.listens = remote.listens
           /\ StateOf(remote', id) = Fresh
           /\ \A other : other # id =>
                  StateOf(remote', other) = StateOf(remote, other)
<1>1. PICK r \in Remote : r = remote
  OBVIOUS
<1>2. PICK q : q = remote'
  OBVIOUS
<1>3. /\ q.requests = r.requests /\ q.listens = r.listens
      /\ q.agg = Without(r.agg, id)
  BY <1>1, <1>2 DEF StateOut, Remote
<1>4. /\ StateOf(q, id) = Fresh
      /\ \A other : other # id => StateOf(q, other) = StateOf(r, other)
  BY <1>3 DEF StateOf, Without
<1> QED
  BY <1>1, <1>2, <1>3, <1>4

(* An acknowledgement for the query: it was not active, and if it is now,  *)
(* nothing is known of its changes.                                        *)
LEMMA AckSync ==
    ASSUME SyncInv, ReadInv', NEW type, Takes(type), Quietly,
           type \in {"added", "removed"}, UNCHANGED <<updates, resets>>,
           remote'.requests = remote.requests, remote'.listens = remote.listens,
           Head(wire).id # Query => StateOf(remote', Query) = StateOf(remote, Query),
           Head(wire).id = Query /\ StateOf(remote', Query).pending = 0 =>
               StateOf(remote', Query).changes = Untouched
    PROVE  SyncInv'
<1>1. wire # << >> /\ wire[1].type = type /\ 1 \in 1 .. Len(wire)
  BY SyncFacts, TailIs DEF Takes
<1>2. CASE wire[1].id # Query
  BY <1>1, <1>2, SyncFacts, OtherTaken DEF TellsOf
<1>3. CASE wire[1].id = Query
  <2>1. IsQueryAck(wire[1])
    BY <1>1, <1>3 DEF IsQueryAck
  <2>2. ~QueryActive(remote)
    BY <1>1, <2>1, SyncFacts
  <2>3. resets = {}
    BY <1>1, <2>2, SyncFacts DEF Following, Awaited
  <2>4. QueryActive(remote') => ChangesIn(remote') = Untouched
    BY <1>1, <1>3, SyncFacts DEF QueryActive, ChangesIn
  <2>5. ~IsSnapshot(wire[1])
    BY <1>1 DEF IsSnapshot
  <2>6. KeepsTold(Now, remote, wire, remote', resets')
    BY <2>2 DEF KeepsTold
  <2>7. KeepsGone(Now, remote, wire, remote', resets')
    BY <2>4 DEF KeepsGone, Untouched
  <2>8. /\ KeepsExpected(remote, wire, resets, remote', resets')
        /\ KeepsAwaited(wire, resets, remote', resets')
    BY <2>3, <2>4 DEF KeepsExpected, KeepsAwaited
  <2> QED
    BY <2>6, <2>7, <2>8, TakenSync
<1> QED
  BY <1>2, <1>3

LEMMA TargetAddedSync == SyncInv /\ OnTargetAdded => SyncInv'
<1> SUFFICES ASSUME SyncInv, OnTargetAdded PROVE SyncInv'
  OBVIOUS
<1>1. Takes("added") /\ Quietly /\ UNCHANGED <<updates, resets>> /\ wire # << >>
  BY DEF OnTargetAdded, Takes
<1>2. ReadInv'
  BY TargetAddedStep DEF SyncInv
<1>3. PICK id : id = Head(wire).id
  OBVIOUS
<1>4. PICK s : s = [StateOf(remote, id) EXCEPT !.pending = @ - 1]
  OBVIOUS
<1>5. PICK st : st = IF s.pending = 0 THEN [s EXCEPT !.changes = Untouched] ELSE s
  OBVIOUS
<1>6. remote' = StateIn(remote, id, st)
  BY <1>3, <1>4, <1>5 DEF OnTargetAdded, SetState, StateIn
<1>7. /\ remote'.requests = remote.requests /\ remote'.listens = remote.listens
      /\ StateOf(remote', id) = st
      /\ id # Query => StateOf(remote', Query) = StateOf(remote, Query)
  BY <1>1, <1>6, SyncFacts, StateSet
<1>8. st.pending = 0 => st.changes = Untouched
  <2>1. StateOf(remote, id) \in TargetState
    BY <1>1, SyncFacts, StateIs
  <2> QED
    BY <1>4, <1>5, <2>1 DEF TargetState
<1> QED
  BY <1>1, <1>2, <1>3, <1>7, <1>8, AckSync

LEMMA TargetRemovedSync == SyncInv /\ OnTargetRemoved => SyncInv'
<1> SUFFICES ASSUME SyncInv, OnTargetRemoved PROVE SyncInv'
  OBVIOUS
<1>1. Takes("removed") /\ Quietly /\ UNCHANGED <<updates, resets>> /\ wire # << >>
  BY DEF OnTargetRemoved, Takes
<1>2. ReadInv'
  BY TargetRemovedStep DEF SyncInv
<1>3. PICK id : id = Head(wire).id
  OBVIOUS
<1>4. PICK s : s = [StateOf(remote, id) EXCEPT !.pending = @ - 1]
  OBVIOUS
<1>5. CASE s.pending = 0
  <2>1. remote' = StateOut(remote, id)
    BY <1>3, <1>4, <1>5 DEF OnTargetRemoved, StateOut
  <2>2. /\ remote'.requests = remote.requests /\ remote'.listens = remote.listens
        /\ StateOf(remote', id) = Fresh
        /\ id # Query => StateOf(remote', Query) = StateOf(remote, Query)
    BY <1>1, <2>1, SyncFacts, StateUnset
  <2>3. Fresh.changes = Untouched
    BY DEF Fresh
  <2> QED
    BY <1>1, <1>2, <1>3, <2>2, <2>3, AckSync
<1>6. CASE s.pending # 0
  <2>1. remote' = StateIn(remote, id, s)
    BY <1>3, <1>4, <1>6 DEF OnTargetRemoved, SetState, StateIn
  <2>2. /\ remote'.requests = remote.requests /\ remote'.listens = remote.listens
        /\ StateOf(remote', id) = s
        /\ id # Query => StateOf(remote', Query) = StateOf(remote, Query)
    BY <1>1, <2>1, SyncFacts, StateSet
  <2> QED
    BY <1>1, <1>2, <1>3, <1>6, <2>2, AckSync
<1> QED
  BY <1>5, <1>6

(* Until an active query is asked for again, every snapshot speaks for it. *)
LEMMA FirstBefore ==
    ASSUME SyncInv, wire # << >>, QueryActive(remote),
           NEW i \in 1 .. Len(wire), SpeaksFirst(remote, wire, i)
    PROVE  Before(wire, 1, i) /\ IsSnapshot(wire[i])
<1>1. /\ Quiet(remote) /\ \A j \in 1 .. Len(wire) : ~IsQueryAck(wire[j])
      /\ Len(wire) \in Nat
  BY SyncFacts
<1>2. ASSUME NEW j \in 1 .. i - 1
      PROVE  ~IsSnapshot(wire[j])
  <2>1. j \in 1 .. Len(wire) /\ j .. Len(wire) \subseteq 1 .. Len(wire)
    BY <1>1
  <2> QED
    BY <1>1, <2>1 DEF SpeaksFirst, Speaks
<1> QED
  BY <1>2 DEF Before, SpeaksFirst, Speaks

(* A response that changes the state of the active query.                  *)
LEMMA QueryTaken ==
    ASSUME SyncInv, ReadInv', NEW type, Takes(type), Quietly,
           type \in {"current", "document", "delete"}, UNCHANGED resets,
           QueryActive(remote), NEW st \in TargetState, st.pending = 0,
           remote' = StateIn(remote, Query, st),
           \A k \in Docs :
               /\ ChangesIn(remote)[k] \in {"added", "modified"}
                      \/ TellsOf(wire[1], k)
                  => \/ st.changes[k] \in {"added", "modified"}
                     \/ \A i \in 1 .. Len(wire) : SpeaksFirst(remote, wire, i) =>
                            ~There(Now, k, wire[i].version)
               /\ st.changes[k] = "removed" =>
                     \/ ChangesIn(remote)[k] = "removed"
                     \/ \A i \in 1 .. Len(wire) :
                            IsSnapshot(wire[i]) /\ Before(wire, 1, i) =>
                                ~There(Now, k, wire[i].version),
           resets # {} => ~st.current,
           \A k \in Docs : updates'[k] # << >> =>
               \/ updates'[k] = updates[k]
               \/ /\ wire[1].type \in {"document", "delete"}
                  /\ updates'[k][1].version = wire[1].version
    PROVE  SyncInv'
<1>1. /\ wire # << >> /\ wire[1].type = type /\ remote \in Remote
  BY SyncFacts DEF Takes
<1>2. /\ remote'.requests = remote.requests /\ remote'.listens = remote.listens
      /\ StateOf(remote', Query) = st
  BY <1>1, StateSet
<1>3. QueryActive(remote') /\ ChangesIn(remote') = st.changes
  BY <1>2 DEF QueryActive, ChangesIn
<1>4. ~IsSnapshot(wire[1])
  BY <1>1 DEF IsSnapshot
<1>5. KeepsTold(Now, remote, wire, remote', resets')
  BY <1>3 DEF KeepsTold
<1>6. KeepsGone(Now, remote, wire, remote', resets')
  BY <1>3, <1>4 DEF KeepsGone
<1>7. KeepsExpected(remote, wire, resets, remote', resets')
  BY <1>1 DEF KeepsExpected
<1>8. KeepsAwaited(wire, resets, remote', resets')
  BY <1>2, <1>3, <1>4 DEF KeepsAwaited
<1> QED
  BY <1>1, <1>2, <1>5, <1>6, <1>7, <1>8, TakenSync

(* A response that is ignored.                                             *)
LEMMA IgnoredSync ==
    ASSUME SyncInv, ReadInv', NEW type, Takes(type), type # "snapshot", Quietly,
           UNCHANGED <<remote, updates, resets>>,
           wire[1].id = Query => ~QueryActive(remote) \/ type # "document"
    PROVE  SyncInv'
<1>1. wire # << >> /\ wire[1].type = type
  BY SyncFacts DEF Takes
<1>2. QueryActive(remote) => \A k \in Docs : ~TellsOf(wire[1], k)
  BY <1>1 DEF TellsOf
<1> QED
  BY <1>2, OtherTaken

LEMMA QueryIsActive == IsActive(Query) <=> QueryActive(remote)
BY DEF IsActive, QueryActive

LEMMA TargetCurrentSync == SyncInv /\ OnTargetCurrent => SyncInv'
<1> SUFFICES ASSUME SyncInv, OnTargetCurrent PROVE SyncInv'
  OBVIOUS
<1>1. /\ Takes("current") /\ Quietly /\ UNCHANGED <<updates, resets>>
      /\ wire # << >> /\ Head(wire).type = "current"
  BY DEF OnTargetCurrent, Takes
<1>2. ReadInv' /\ Head(wire) = wire[1] /\ remote \in Remote
  BY <1>1, TargetCurrentStep, SyncFacts DEF SyncInv
<1>3. PICK id : id = Head(wire).id
  OBVIOUS
<1>4. PICK st : st = [StateOf(remote, id) EXCEPT !.current = TRUE]
  OBVIOUS
<1>5. CASE ~IsActive(id)
  <2>1. UNCHANGED remote
    BY <1>3, <1>5 DEF OnTargetCurrent
  <2> QED
    BY <1>1, <1>2, <2>1, IgnoredSync
<1>6. CASE IsActive(id)
  <2>1. remote' = StateIn(remote, id, st)
    BY <1>3, <1>4, <1>6 DEF OnTargetCurrent, SetState, StateIn
  <2>2. CASE id # Query
    <3>1. /\ remote'.requests = remote.requests /\ remote'.listens = remote.listens
          /\ StateOf(remote', Query) = StateOf(remote, Query)
      BY <1>2, <2>1, <2>2, StateSet
    <3>2. \A k \in Docs : ~TellsOf(wire[1], k)
      BY <1>1, <1>2 DEF TellsOf
    <3> QED
      BY <1>1, <1>2, <3>1, <3>2, OtherTaken
  <2>3. CASE id = Query
    <3>1. /\ StateOf(remote, Query) \in TargetState
          /\ StateOf(remote, Query).pending = 0 /\ QueryActive(remote)
      BY <1>2, <1>6, <2>3, StateIs, QueryIsActive DEF QueryActive
    <3>2. /\ st \in TargetState /\ st.pending = 0
          /\ st.changes = ChangesIn(remote)
      BY <1>4, <2>3, <3>1 DEF TargetState, ChangesIn
    <3>3. resets = {}
      <4>1. ~Before(wire, 1, 1) => FALSE
        BY DEF Before
      <4>2. 1 \in 1 .. Len(wire) /\ Awaited(remote, wire, resets)
        BY <1>1, SyncFacts, TailIs DEF Following
      <4> QED
        BY <1>1, <1>2, <4>1, <4>2 DEF Awaited
    <3>4. \A k \in Docs : ~TellsOf(wire[1], k)
      BY <1>1, <1>2 DEF TellsOf
    <3> QED
      BY <1>1, <1>2, <2>1, <2>3, <3>1, <3>2, <3>3, <3>4, QueryTaken
  <2> QED
    BY <2>2, <2>3
<1> QED
  BY <1>5, <1>6

LEMMA DocumentSync == SyncInv /\ OnDocument => SyncInv'
<1> SUFFICES ASSUME SyncInv, OnDocument PROVE SyncInv'
  OBVIOUS
<1>1. /\ Takes("document") /\ Quietly /\ UNCHANGED resets
      /\ wire # << >> /\ Head(wire).type = "document"
  BY DEF OnDocument, Takes
<1>2. /\ ReadInv' /\ Head(wire) = wire[1] /\ remote \in Remote
      /\ wire[1].key \in Docs /\ updates \in [Docs -> Seq(Update)]
  BY <1>1, DocumentStep, SyncFacts, ResponseIs, ReadFacts DEF SyncInv
<1>3. PICK m : m = Head(wire)
  OBVIOUS
<1>4. CASE ~IsActive(m.id)
  <2>1. UNCHANGED <<remote, updates>>
    BY <1>3, <1>4 DEF OnDocument
  <2> QED
    BY <1>1, <1>2, <1>3, <1>4, <2>1, IgnoredSync, QueryIsActive
<1>5. CASE IsActive(m.id)
  <2>1. PICK kind \in {"added", "modified"} :
            kind = IF m.key \in RemoteKeys(m.id) THEN "modified" ELSE "added"
    OBVIOUS
  <2>2. PICK st : st = [StateOf(remote, m.id) EXCEPT !.changes[m.key] = kind]
    OBVIOUS
  <2>3. remote' = StateIn(remote, m.id, st)
    BY <1>3, <1>5, <2>1, <2>2 DEF OnDocument, SetState, StateIn
  <2>4. updates' = [updates EXCEPT ![m.key] =
                        <<[version |-> m.version, value |-> m.value]>>]
    BY <1>3, <1>5 DEF OnDocument
  <2>5. ASSUME NEW k \in Docs, updates'[k] # << >>
        PROVE  \/ updates'[k] = updates[k]
               \/ /\ wire[1].type \in {"document", "delete"}
                  /\ updates'[k][1].version = wire[1].version
    BY <1>1, <1>2, <1>3, <2>4
  <2>6. CASE m.id # Query
    <3>1. /\ remote'.requests = remote.requests /\ remote'.listens = remote.listens
          /\ StateOf(remote', Query) = StateOf(remote, Query)
      BY <1>2, <2>3, <2>6, StateSet
    <3>2. \A k \in Docs : ~TellsOf(wire[1], k)
      BY <1>2, <1>3, <2>6 DEF TellsOf
    <3> QED
      BY <1>1, <1>2, <2>5, <3>1, <3>2, OtherTaken
  <2>7. CASE m.id = Query
    <3>1. /\ StateOf(remote, Query) \in TargetState
          /\ StateOf(remote, Query).pending = 0 /\ QueryActive(remote)
      BY <1>2, <1>5, <2>7, StateIs, QueryIsActive DEF QueryActive
    <3>2. /\ st \in TargetState /\ st.pending = 0
          /\ st.current = StateOf(remote, Query).current
          /\ \A k \in Docs : st.changes[k] = IF k = m.key THEN kind
                                             ELSE ChangesIn(remote)[k]
      BY <1>2, <1>3, <2>1, <2>2, <2>7, <3>1 DEF TargetState, ChangesIn, Change
    <3>3. resets # {} => ~st.current
      BY <1>1, <3>2, SyncFacts DEF Following, Awaited
    <3>4. \A k \in Docs : TellsOf(wire[1], k) => k = m.key
      BY <1>2, <1>3 DEF TellsOf
    <3>5. \A k \in Docs :
              /\ ChangesIn(remote)[k] \in {"added", "modified"}
                     \/ TellsOf(wire[1], k)
                 => st.changes[k] \in {"added", "modified"}
              /\ st.changes[k] = "removed" => ChangesIn(remote)[k] = "removed"
      BY <2>1, <3>2, <3>4
    <3>6. remote' = StateIn(remote, Query, st)
      BY <2>3, <2>7
    <3> HIDE <2>1, <2>2
    <3> QED
      BY <1>1, <1>2, <2>5, <3>1, <3>2, <3>3, <3>5, <3>6, QueryTaken
  <2> QED
    BY <2>6, <2>7
<1> QED
  BY <1>4, <1>5

LEMMA DeleteSync == SyncInv /\ OnDelete => SyncInv'
<1> SUFFICES ASSUME SyncInv, OnDelete PROVE SyncInv'
  OBVIOUS
<1>1. /\ Takes("delete") /\ Quietly /\ UNCHANGED resets
      /\ wire # << >> /\ Head(wire).type = "delete"
  BY DEF OnDelete, Takes
<1>2. /\ ReadInv' /\ Head(wire) = wire[1] /\ remote \in Remote
      /\ wire[1].key \in Docs /\ updates \in [Docs -> Seq(Update)]
  BY <1>1, DeleteStep, SyncFacts, ResponseIs, ReadFacts DEF SyncInv
<1>3. PICK m : m = Head(wire)
  OBVIOUS
<1>4. CASE ~IsActive(m.id)
  <2>1. UNCHANGED <<remote, updates>>
    BY <1>3, <1>4 DEF OnDelete
  <2> QED
    BY <1>1, <1>2, <1>3, <1>4, <2>1, IgnoredSync, QueryIsActive
<1>5. CASE IsActive(m.id)
  <2>1. PICK kind \in {"removed", "none"} :
            kind = IF m.key \in RemoteKeys(m.id) THEN "removed" ELSE "none"
    OBVIOUS
  <2>2. PICK st : st = [StateOf(remote, m.id) EXCEPT !.changes[m.key] = kind]
    OBVIOUS
  <2>3. remote' = StateIn(remote, m.id, st)
    BY <1>3, <1>5, <2>1, <2>2 DEF OnDelete, Removal, SetState, StateIn
  <2>4. updates' = [updates EXCEPT ![m.key] =
                        <<[version |-> m.version, value |-> Absent]>>]
    BY <1>3, <1>5 DEF OnDelete, Deleted
  <2>5. ASSUME NEW k \in Docs, updates'[k] # << >>
        PROVE  \/ updates'[k] = updates[k]
               \/ /\ wire[1].type \in {"document", "delete"}
                  /\ updates'[k][1].version = wire[1].version
    BY <1>1, <1>2, <1>3, <2>4
  <2>6. \A k \in Docs : ~TellsOf(wire[1], k)
    BY <1>1, <1>2 DEF TellsOf
  <2>7. CASE m.id # Query
    <3>1. /\ remote'.requests = remote.requests /\ remote'.listens = remote.listens
          /\ StateOf(remote', Query) = StateOf(remote, Query)
      BY <1>2, <2>3, <2>7, StateSet
    <3> QED
      BY <1>1, <1>2, <2>5, <2>6, <3>1, OtherTaken
  <2>8. CASE m.id = Query
    <3>1. /\ StateOf(remote, Query) \in TargetState
          /\ StateOf(remote, Query).pending = 0 /\ QueryActive(remote)
      BY <1>2, <1>5, <2>8, StateIs, QueryIsActive DEF QueryActive
    <3>2. /\ st \in TargetState /\ st.pending = 0
          /\ st.current = StateOf(remote, Query).current
          /\ \A k \in Docs : st.changes[k] = IF k = m.key THEN kind
                                             ELSE ChangesIn(remote)[k]
      BY <1>2, <1>3, <2>1, <2>2, <2>8, <3>1 DEF TargetState, ChangesIn, Change
    <3>3. resets # {} => ~st.current
      BY <1>1, <3>2, SyncFacts DEF Following, Awaited
    <3>4. ASSUME NEW i \in 1 .. Len(wire), IsSnapshot(wire[i]), Before(wire, 1, i)
          PROVE  ~There(Now, m.key, wire[i].version)
      <4>1. DeletedGone(Now, wire) /\ 1 \in 1 .. Len(wire) /\ Len(wire) \in Nat
        BY <1>1, SyncFacts, TailIs DEF Following
      <4>2. i # 1
        BY <1>1, <1>2, <3>4 DEF IsSnapshot
      <4>3. 1 < i
        BY <4>1, <4>2
      <4> QED
        BY <1>1, <1>2, <1>3, <2>8, <3>4, <4>1, <4>3 DEF DeletedGone
    <3>5. \A i \in 1 .. Len(wire) : SpeaksFirst(remote, wire, i) =>
              ~There(Now, m.key, wire[i].version)
      BY <1>1, <3>1, <3>4, FirstBefore
    <3>6. \A k \in Docs :
              /\ ChangesIn(remote)[k] \in {"added", "modified"}
                     \/ TellsOf(wire[1], k)
                 => \/ st.changes[k] \in {"added", "modified"}
                    \/ k = m.key
              /\ st.changes[k] = "removed" =>
                     ChangesIn(remote)[k] = "removed" \/ k = m.key
      BY <2>6, <3>2
    <3>7. remote' = StateIn(remote, Query, st)
      BY <2>3, <2>8
    <3> HIDE <2>1, <2>2
    <3> QED
      BY <1>1, <1>2, <2>5, <3>1, <3>2, <3>3, <3>4, <3>5, <3>6, <3>7, QueryTaken
  <2> QED
    BY <2>7, <2>8
<1> QED
  BY <1>4, <1>5

LEMMA ExistenceFilterSync == SyncInv /\ OnExistenceFilter => SyncInv'
<1> SUFFICES ASSUME SyncInv, OnExistenceFilter PROVE SyncInv'
  OBVIOUS
<1>1. /\ Takes("filter") /\ Quietly
      /\ wire # << >> /\ Head(wire).type = "filter"
  BY DEF OnExistenceFilter, Takes
<1>2. /\ ReadInv' /\ Head(wire) = wire[1] /\ remote \in Remote
      /\ updates \in [Docs -> Seq(Update)]
  BY <1>1, ExistenceFilterStep, SyncFacts, ReadFacts DEF SyncInv
<1>3. PICK m : m = Head(wire)
  OBVIOUS
<1>4. \A k \in Docs : ~TellsOf(wire[1], k)
  BY <1>1, <1>2 DEF TellsOf
<1>5. CASE IsActive(m.id) /\ m.id # Query /\ m.count = 0
  <2>1. PICK k : k = remote.limbo[m.id].key
    OBVIOUS
  <2>2. PICK st : st = Removal(m.id, k)
    OBVIOUS
  <2>3. /\ remote' = StateIn(remote, m.id, st)
        /\ updates' = [updates EXCEPT ![k] = <<[version |-> 0, value |-> Absent]>>]
        /\ UNCHANGED resets
    BY <1>3, <1>5, <2>1, <2>2 DEF OnExistenceFilter, SetState, StateIn, Deleted
  <2>4. \A j \in Docs : updates'[j] # << >> =>
            updates'[j] = updates[j] \/ updates'[j][1].version = 0
    BY <1>2, <2>3
  <2>5. /\ remote'.requests = remote.requests /\ remote'.listens = remote.listens
        /\ StateOf(remote', Query) = StateOf(remote, Query)
    BY <1>2, <1>5, <2>3, StateSet
  <2> QED
    BY <1>1, <1>2, <1>4, <2>3, <2>4, <2>5, OtherTaken
<1>6. CASE IsActive(m.id) /\ m.id = Query /\ m.count # CountOf(Query)
  <2>1. PICK c : c = [k \in Docs |-> IF k \in RemoteKeys(Query)
                                     THEN "removed" ELSE "none"]
    OBVIOUS
  <2>2. PICK st : st = [Fresh EXCEPT !.changes = c]
    OBVIOUS
  <2>3. /\ remote' = StateIn(remote, Query, st)
        /\ resets' = resets \cup {Query} /\ UNCHANGED updates
    BY <1>3, <1>6, <2>1, <2>2 DEF OnExistenceFilter, SetState, StateIn
  <2>4. st.pending = 0 /\ st.current = FALSE
    BY <2>2 DEF Fresh
  <2>5. /\ remote'.requests = remote.requests /\ remote'.listens = remote.listens
        /\ StateOf(remote', Query) = st
    BY <1>2, <2>3, StateSet
  <2>6. QueryActive(remote') /\ resets' # {}
    BY <1>6, <2>3, <2>4, <2>5, QueryIsActive DEF QueryActive
  <2>7. /\ KeepsTold(Now, remote, wire, remote', resets')
        /\ KeepsGone(Now, remote, wire, remote', resets')
    BY <2>6 DEF KeepsTold, KeepsGone
  <2>8. /\ KeepsExpected(remote, wire, resets, remote', resets')
        /\ KeepsAwaited(wire, resets, remote', resets')
    BY <1>1, <1>2, <2>4, <2>5, <2>6 DEF KeepsExpected, KeepsAwaited
  <2> QED
    BY <1>1, <1>2, <2>3, <2>5, <2>6, <2>7, <2>8, TakenSync
<1>7. CASE /\ ~(IsActive(m.id) /\ m.id # Query /\ m.count = 0)
           /\ ~(IsActive(m.id) /\ m.id = Query /\ m.count # CountOf(Query))
  <2>1. UNCHANGED <<remote, updates, resets>>
    BY <1>3, <1>7 DEF OnExistenceFilter
  <2> QED
    BY <1>1, <1>2, <2>1, IgnoredSync
<1> QED
  BY <1>5, <1>6, <1>7

-----------------------------------------------------------------------------
(* The server's collection changes: a document that is set anew is not     *)
(* there any more as it was at any version before.                         *)
LEMMA HistoryGrows ==
    ASSUME SyncInv, NEW k \in Docs, NEW value \in Values, Set(k, value)
    PROVE  /\ Clock' = Clock + 1 /\ Clock \in Nat
           /\ Now' = [Now EXCEPT ![k] = [version |-> Clock + 1, value |-> value]]
           /\ Now \in [Docs -> Update]
<1>1. /\ history \in Seq([Docs -> Update]) /\ history # << >>
  BY HistoryIs DEF SyncInv
<1>2. Clock \in Nat /\ Now \in [Docs -> Update]
  BY NowIs DEF SyncInv
<1>3. PICK x : x = [Now EXCEPT ![k] = [version |-> Clock + 1, value |-> value]]
  OBVIOUS
<1>4. x \in [Docs -> Update]
  BY <1>2, <1>3 DEF Update
<1>5. history' = Append(history, x)
  BY <1>3 DEF Set
<1>6. /\ Len(history') = Len(history) + 1
      /\ history'[Len(history) + 1] = x
  BY <1>1, <1>4, <1>5, AppendIs
<1>7. Clock' = Clock + 1
  BY <1>6 DEF Clock
<1>8. Now' = x
  BY <1>6 DEF Now, Clock
<1> QED
  BY <1>2, <1>3, <1>7, <1>8

LEMMA OlderFollows ==
    ASSUME NEW r, NEW s, NEW x, NEW w \in Seq(Response), NEW c \in Nat,
           \A i \in 1 .. Len(w) : IsSnapshot(w[i]) => w[i].version <= c,
           NEW g, NEW h, Following(g, r, w, s, x),
           \A j \in Docs : \A n \in Nat : n <= c /\ There(h, j, n) => h[j] = g[j],
           \A i \in 1 .. Len(w) : w[i].type = "delete" => w[i].key \in Docs
    PROVE  Following(h, r, w, s, x)
<1>1. ASSUME NEW j \in Docs, NEW n \in Nat, n <= c, There(h, j, n)
      PROVE  \A m : There(h, j, m) <=> There(g, j, m)
  BY <1>1 DEF There
<1>2. \A i \in 1 .. Len(w) : IsSnapshot(w[i]) => w[i].version \in Nat
  BY ResponsesAre, ResponseIs DEF IsSnapshot
<1>3. ToldBetween(h, r, w)
  <2> SUFFICES ASSUME NEW i \in 1 .. Len(w), NEW j \in 1 .. Len(w),
                      NEW k \in Docs, i < j, Speaks(r, w, i), Speaks(r, w, j),
                      There(h, k, w[j].version), ~There(h, k, w[i].version)
               PROVE  \E m \in i .. j : TellsOf(w[m], k)
    BY DEF ToldBetween
  <2>1. There(g, k, w[j].version) /\ ~There(g, k, w[i].version)
    BY <1>1, <1>2 DEF Speaks
  <2> QED
    BY <2>1 DEF Following, ToldBetween
<1>4. ToldFirst(h, r, w, x)
  <2> SUFFICES ASSUME NEW i \in 1 .. Len(w), NEW k \in Docs,
                      SpeaksFirst(r, w, i), x = {},
                      There(h, k, w[i].version), ~There(h, k, r.listens[Query])
               PROVE  \/ /\ QueryActive(r)
                         /\ ChangesIn(r)[k] \in {"added", "modified"}
                      \/ \E m \in 1 .. i :
                             /\ TellsOf(w[m], k)
                             /\ \A j \in m .. Len(w) : ~IsQueryAck(w[j])
    BY DEF ToldFirst
  <2>1. There(g, k, w[i].version) /\ ~There(g, k, r.listens[Query])
    BY <1>1, <1>2 DEF SpeaksFirst, Speaks
  <2> QED
    BY <2>1 DEF Following, ToldFirst
<1>5. DeletedGone(h, w)
  BY <1>1, <1>2 DEF Following, DeletedGone
<1>6. RemovedGone(h, r, w, x)
  BY <1>1, <1>2 DEF Following, RemovedGone
<1> QED
  BY <1>3, <1>4, <1>5, <1>6 DEF Following

LEMMA Grown ==
    ASSUME SyncInv, \/ UNCHANGED history
                    \/ \E k \in Docs : \E value \in Values : Set(k, value)
    PROVE  /\ Clock \in Nat /\ Clock' \in Nat /\ Clock <= Clock'
           /\ Now' \in [Docs -> Update]
           /\ \A k \in Docs : 1 <= Now'[k].version /\ Now'[k].version <= Clock'
           /\ \A j \in Docs : \A n \in Nat :
                  n <= Clock /\ There(Now', j, n) => Now'[j] = Now[j]
<1>1. /\ Clock \in Nat /\ Now \in [Docs -> Update]
      /\ \A k \in Docs : 1 <= Now[k].version /\ Now[k].version <= Clock
  BY NowIs DEF SyncInv, Dated
<1>2. CASE UNCHANGED history
  <2>1. Clock' = Clock /\ Now' = Now
    BY <1>2 DEF Clock, Now
  <2> QED
    BY <1>1, <2>1
<1>3. CASE \E k \in Docs : \E value \in Values : Set(k, value)
  <2>1. PICK k \in Docs, value \in Values : Set(k, value)
    BY <1>3
  <2>2. /\ Clock' = Clock + 1
        /\ Now' = [Now EXCEPT ![k] = [version |-> Clock + 1, value |-> value]]
    BY <2>1, HistoryGrows
  <2>3. PICK g, h, c : g = Now /\ h = Now' /\ c = Clock
    OBVIOUS
  <2>4. /\ g \in [Docs -> Update] /\ c \in Nat
        /\ \A j \in Docs : 1 <= g[j].version /\ g[j].version <= c
        /\ h = [g EXCEPT ![k] = [version |-> c + 1, value |-> value]]
    BY <1>1, <2>2, <2>3
  <2>5. \A j \in Docs : \A n \in Nat : n <= c /\ There(h, j, n) => h[j] = g[j]
    <3>1. (\A i \in Docs : i # k => h[i] = g[i]) /\ h[k].version = c + 1
      BY <2>4
    <3>2. ASSUME NEW j \in Docs, NEW n \in Nat, n <= c, There(h, j, n), j = k
          PROVE  FALSE
      BY <2>4, <3>1, <3>2 DEF There
    <3> QED
      BY <3>1, <3>2
  <2>6. \A j \in Docs : 1 <= h[j].version /\ h[j].version <= c + 1
    BY <2>4 DEF Update
  <2>7. h \in [Docs -> Update]
    <3>1. [version |-> c + 1, value |-> value] \in Update
      BY <2>4 DEF Update
    <3>2. PICK y \in Update : y = [version |-> c + 1, value |-> value]
      BY <3>1
    <3> QED
      BY <2>4, <3>2
  <2>8. Clock' = c + 1 /\ c <= c + 1 /\ c + 1 \in Nat
    BY <2>2, <2>3, <2>4
  <2> HIDE <2>2, <2>4
  <2> QED
    BY <1>1, <2>3, <2>5, <2>6, <2>7, <2>8
<1> QED
  BY <1>2, <1>3

(* The matching keys speak of a version that a snapshot had.               *)
LEMMA BaseIs == SyncInv => Base \in Nat /\ Base <= last /\ last \in Nat
                           /\ saved.token \in Nat
<1> SUFFICES ASSUME SyncInv PROVE Base \in Nat /\ Base <= last /\ last \in Nat
                                  /\ saved.token \in Nat
  OBVIOUS
<1>1. saved.token \in Nat /\ last \in Nat /\ remote \in Remote
  BY DEF SyncInv, ReadInv, Types, DiskTypes, ClientTypes, TargetData
<1>2. CASE view.on
  <2>1. remote.listens[Query] \in Nat /\ remote.listens[Query] <= last
    BY <1>1, <1>2, NumbersAre, TableIs DEF SyncInv, Tokens
  <2> QED
    BY <1>1, <1>2, <2>1 DEF Base
<1>3. CASE ~view.on
  BY <1>1, <1>3 DEF Base, SyncInv, Tokens
<1> QED
  BY <1>2, <1>3

LEMMA InTimeLonger ==
    ASSUME NEW w, NEW u, NEW n \in Nat, NEW m \in Nat, n <= m, InTime(w, u, n),
           \A j \in 1 .. Len(w) : w[j].type \in {"document", "delete"} =>
               w[j].version \in Nat,
           \A k \in Docs : u[k] # << >> => u[k][1].version \in Nat
    PROVE  InTime(w, u, m)
BY DEF InTime

LEMMA GrownSync ==
    ASSUME SyncInv, ReadInv',
           \/ UNCHANGED history
           \/ \E k \in Docs : \E value \in Values : Set(k, value),
           \A i \in 1 .. Len(answers') : answers'[i].version <= answers'[i].read,
           UNCHANGED <<served, wire, disk, target, open, remote, updates,
                       resets, view, resetting>>
    PROVE  SyncInv'
<1>1. /\ served' = served /\ wire' = wire /\ target' = target /\ open' = open
      /\ remote' = remote /\ updates' = updates /\ resets' = resets
      /\ view' = view /\ resetting' = resetting
      /\ cache' = cache /\ keys' = keys /\ saved' = saved /\ last' = last
  BY DEF disk
<1>2. /\ Clock \in Nat /\ Clock' \in Nat /\ Clock <= Clock'
      /\ Now' \in [Docs -> Update]
      /\ \A k \in Docs : 1 <= Now'[k].version /\ Now'[k].version <= Clock'
      /\ \A j \in Docs : \A n \in Nat :
             n <= Clock /\ There(Now', j, n) => Now'[j] = Now[j]
  BY Grown
<1>3. /\ wire \in Seq(Response) /\ updates \in [Docs -> Seq(Update)]
      /\ InOrder
  BY DEF SyncInv, ReadInv, Types, ServerTypes, ClientTypes
<1>4. Dated'
  <2>1. \A j \in 1 .. Len(wire) : wire[j].type \in {"document", "delete"} =>
            wire[j].version \in Nat
    BY <1>3, ResponsesAre, ResponseIs
  <2>2. \A k \in Docs : updates[k] # << >> => updates[k][1].version \in Nat
    <3> SUFFICES ASSUME NEW k \in Docs, updates[k] # << >>
                 PROVE  updates[k][1].version \in Nat
      OBVIOUS
    <3>1. updates[k][1] \in Update
      BY <1>3, TailIs
    <3> QED
      BY <3>1 DEF Update
  <2>3. PICK n, m : n = Clock /\ m = Clock'
    OBVIOUS
  <2>4. n \in Nat /\ m \in Nat /\ n <= m /\ InTime(wire, updates, n)
    BY <1>2, <2>3 DEF SyncInv, Dated
  <2>5. InTime(wire, updates, m)
    BY <2>1, <2>2, <2>4, InTimeLonger
  <2> QED
    BY <1>1, <1>2, <2>3, <2>5 DEF SyncInv, Dated
<1>5. Tokens'
  BY <1>1 DEF SyncInv, Tokens
<1>6. KeysKept'
  <2>1. Base' = Base /\ Base \in Nat /\ Base <= Clock
    BY <1>1, <1>2, <1>3, BaseIs DEF Base, InOrder
  <2>2. \A k \in Docs : There(Now', k, Base) => There(Now, k, Base)
    BY <1>2, <2>1 DEF There
  <2> QED
    BY <1>1, <2>1, <2>2 DEF SyncInv, KeysKept
<1>7. ASSUME open
      PROVE  Following(Now', remote, wire, served, resets)
  <2>1. \A i \in 1 .. Len(wire) : IsSnapshot(wire[i]) => wire[i].version <= Clock
    BY <1>3 DEF InOrder
  <2>2. \A i \in 1 .. Len(wire) : wire[i].type = "delete" => wire[i].key \in Docs
    BY <1>3, ResponsesAre, ResponseIs
  <2>3. Following(Now, remote, wire, served, resets)
    BY <1>7 DEF SyncInv
  <2>4. PICK g, h, c : g = Now /\ h = Now' /\ c = Clock
    OBVIOUS
  <2>5. \A j \in Docs : \A n \in Nat : n <= c /\ There(h, j, n) => h[j] = g[j]
    BY <1>2, <2>4
  <2>6. Following(h, remote, wire, served, resets)
    BY <1>2, <1>3, <2>1, <2>2, <2>3, <2>4, <2>5, OlderFollows
  <2> QED
    BY <2>4, <2>6
<1> QED
  BY <1>1, <1>4, <1>5, <1>6, <1>7 DEF SyncInv

LEMMA ForeignSetSync ==
    SyncInv /\ (\E f \in Foreign : ForeignSet(f)) => SyncInv'
<1> SUFFICES ASSUME SyncInv, NEW f \in Foreign, ForeignSet(f) PROVE SyncInv'
  OBVIOUS
<1>1. Where[f] \in Docs /\ f \in Values
  BY ViewAssumption DEF Values
<1>2. Set(Where[f], f) /\ answers' = answers
  BY DEF ForeignSet
<1>3. UNCHANGED <<served, wire, disk, target, open, remote, updates, resets,
                  view, resetting>>
  BY DEF ForeignSet, disk
<1>4. ReadInv'
  BY ForeignSetStep DEF SyncInv
<1>5. \A i \in 1 .. Len(answers') : answers'[i].version <= answers'[i].read
  BY <1>2 DEF SyncInv, Dated
<1>6. \E k \in Docs : \E value \in Values : Set(k, value)
  BY <1>1, <1>2
<1> QED
  BY <1>3, <1>4, <1>5, <1>6, GrownSync

LEMMA DeletedSync == SyncInv /\ (\E k \in Docs : Delete(k)) => SyncInv'
<1> SUFFICES ASSUME SyncInv, NEW k \in Docs, Delete(k) PROVE SyncInv'
  OBVIOUS
<1>1. Absent \in Values
  BY DEF Values
<1>2. Set(k, Absent) /\ answers' = answers
  BY DEF Delete
<1>3. UNCHANGED <<served, wire, disk, target, open, remote, updates, resets,
                  view, resetting>>
  BY DEF Delete, disk
<1>4. ReadInv'
  BY DeletedStep DEF SyncInv
<1>5. \A i \in 1 .. Len(answers') : answers'[i].version <= answers'[i].read
  BY <1>2 DEF SyncInv, Dated
<1>6. \E j \in Docs : \E value \in Values : Set(j, value)
  BY <1>1, <1>2
<1> QED
  BY <1>3, <1>4, <1>5, <1>6, GrownSync

LEMMA CommitSync == SyncInv /\ Commit => SyncInv'
<1> SUFFICES ASSUME SyncInv, Commit PROVE SyncInv'
  OBVIOUS
<1>1. PICK w : w = queue[Len(answers) + 1]
  OBVIOUS
<1>2. ReadInv /\ ReadInv'
  BY CommitStep DEF SyncInv
<1>3. w \in Writes /\ Where[w] \in Docs /\ w \in Values
  <2>1. Len(answers) + 1 \in 1 .. Len(queue)
    BY <1>2, HistoryIs DEF Commit
  <2> QED
    BY <1>1, <1>2, <2>1, HistoryIs, ElementOfSeq, ViewAssumption DEF Values
<1>4. PICK a : /\ answers' = Append(answers, a)
               /\ \/ /\ IF Now[Where[w]].value = w THEN UNCHANGED history
                        ELSE Set(Where[w], w)
                     /\ a = [write |-> w, refused |-> FALSE,
                             version |-> history'[Len(history')][Where[w]].version,
                             read |-> Len(history')]
                  \/ /\ a = [write |-> w, refused |-> TRUE, version |-> 0, read |-> 0]
                     /\ UNCHANGED history
  BY <1>1 DEF Commit
<1>5. \/ UNCHANGED history
      \/ \E k \in Docs : \E value \in Values : Set(k, value)
  BY <1>3, <1>4
<1>6. a.version <= a.read
  <2>1. Now'[Where[w]].version <= Clock'
    BY <1>3, <1>5, Grown
  <2>2. history'[Len(history')][Where[w]].version <= Len(history')
    BY <2>1 DEF Now, Clock
  <2>3. CASE a = [write |-> w, refused |-> FALSE,
                  version |-> history'[Len(history')][Where[w]].version,
                  read |-> Len(history')]
    BY <2>2, <2>3
  <2>4. CASE a = [write |-> w, refused |-> TRUE, version |-> 0, read |-> 0]
    BY <2>4
  <2> QED
    BY <1>4, <2>3, <2>4
<1>7. \A i \in 1 .. Len(answers') : answers'[i].version <= answers'[i].read
  <2>1. \A i \in 1 .. Len(answers) : answers[i].version <= answers[i].read
    BY DEF SyncInv, Dated
  <2>2. Len(answers) \in Nat /\ answers \in Seq(Answer)
    BY <1>2, HistoryIs
  <2>3. /\ Len(answers') = Len(answers) + 1 /\ answers'[Len(answers) + 1] = a
        /\ \A i \in 1 .. Len(answers) : answers'[i] = answers[i]
    BY <1>4, <2>2
  <2> QED
    BY <1>6, <2>1, <2>2, <2>3
<1>8. UNCHANGED <<served, wire, disk, target, open, remote, updates, resets,
                  view, resetting>>
  BY DEF Commit, disk
<1> QED
  BY <1>2, <1>5, <1>7, <1>8, GrownSync

LEMMA AnswersLostSync == SyncInv /\ AnswersLost => SyncInv'
<1> SUFFICES ASSUME SyncInv, AnswersLost PROVE SyncInv'
  OBVIOUS
<1>1. answers' = << >> /\ history' = history
  BY DEF AnswersLost, server
<1>2. ReadInv'
  BY AnswersLostStep DEF SyncInv
<1>3. UNCHANGED <<served, wire, disk, target, open, remote, updates, resets,
                  view, resetting>>
  BY DEF AnswersLost, server, disk
<1>4. \A i \in 1 .. Len(answers') : answers'[i].version <= answers'[i].read
  BY <1>1
<1> QED
  BY <1>1, <1>2, <1>3, <1>4, GrownSync

-----------------------------------------------------------------------------
(* The server answers a request.  A request for the query silences the     *)
(* snapshots before it; the last one leaves the server with the token the  *)
(* client has.                                                             *)
Acked(r, w, q, a, y) ==
    /\ y \in Seq(Response) /\ Len(y) = Len(w) + 1 /\ Len(w) \in Nat
    /\ \A i \in 1 .. Len(w) : y[i] = w[i]
    /\ y[Len(w) + 1] = a /\ a.type \in {"added", "removed"}
    /\ \A i \in 1 .. Len(y) : y[i].type \notin {"added", "removed"} =>
           i \in 1 .. Len(w) /\ y[i] = w[i]
    /\ \A i : Speaks(q, y, i) => Speaks(r, w, i) /\ a.id # Query
    /\ a.id # Query =>
           /\ Quiet(q) <=> Quiet(r)
           /\ \A i : Speaks(q, y, i) <=> Speaks(r, w, i)

LEMMA AckSpeaks ==
    ASSUME NEW w \in Seq(Response), NEW r \in Remote, r.requests # << >>,
           NEW q, q.requests = Tail(r.requests),
           NEW a \in Ack, a.id = Head(r.requests).id, NEW y, y = Append(w, a)
    PROVE  Acked(r, w, q, a, y)
<1>1. a \in Response /\ a.type \in {"added", "removed"}
  BY DEF Ack, Response
<1>2. /\ y \in Seq(Response) /\ Len(y) = Len(w) + 1 /\ Len(w) \in Nat
      /\ \A i \in 1 .. Len(w) : y[i] = w[i]
      /\ y[Len(w) + 1] = a
  BY <1>1, AppendIs
<1>3. ASSUME NEW i \in 1 .. Len(y), y[i].type \notin {"added", "removed"}
      PROVE  i \in 1 .. Len(w) /\ y[i] = w[i]
  <2>1. i \in 1 .. Len(w) \/ i = Len(w) + 1
    BY <1>2
  <2> QED
    BY <1>1, <1>2, <1>3, <2>1
<1>4. PICK p : p = r.requests
  OBVIOUS
<1>5. /\ p \in Seq(Request) /\ p # << >> /\ Head(p) = p[1] /\ Len(p) \in Nat
      /\ 1 \in 1 .. Len(p) /\ Len(Tail(p)) = Len(p) - 1
      /\ \A i \in 1 .. Len(Tail(p)) : /\ Tail(p)[i] = p[i + 1]
                                      /\ i + 1 \in 1 .. Len(p)
  BY <1>4, NumbersAre, TailIs
<1>6. a.id # Query => (Quiet(q) <=> Quiet(r))
  <2>1. Quiet(r) => Quiet(q)
    BY <1>4, <1>5 DEF Quiet
  <2>2. ASSUME a.id # Query, Quiet(q), NEW i \in 1 .. Len(p)
        PROVE  p[i].id # Query
    <3>1. CASE i = 1
      BY <1>4, <1>5, <2>2, <3>1
    <3>2. CASE i # 1
      <4>1. i - 1 \in 1 .. Len(Tail(p)) /\ (i - 1) + 1 = i
        BY <1>5, <3>2
      <4>2. Tail(p)[i - 1] = p[i]
        BY <1>5, <4>1
      <4> QED
        BY <1>4, <2>2, <4>1, <4>2 DEF Quiet
    <3> QED
      BY <3>1, <3>2
  <2> QED
    BY <1>4, <2>1, <2>2 DEF Quiet
<1>7. ASSUME NEW i, Speaks(q, y, i)
      PROVE  Speaks(r, w, i) /\ a.id # Query
  <2>1. /\ i \in 1 .. Len(y) /\ IsSnapshot(y[i]) /\ Quiet(q)
        /\ \A j \in i .. Len(y) : ~IsQueryAck(y[j])
    BY <1>7 DEF Speaks
  <2>2. i \in 1 .. Len(w) /\ y[i] = w[i]
    BY <1>3, <2>1 DEF IsSnapshot
  <2>3. Len(w) + 1 \in i .. Len(y) /\ i .. Len(w) \subseteq i .. Len(y)
        /\ i .. Len(w) \subseteq 1 .. Len(w)
    BY <1>2, <2>2
  <2>4. a.id # Query
    BY <1>1, <1>2, <2>1, <2>3 DEF IsQueryAck
  <2>5. \A j \in i .. Len(w) : ~IsQueryAck(w[j])
    BY <1>2, <2>1, <2>3
  <2> QED
    BY <1>6, <2>1, <2>2, <2>4, <2>5 DEF Speaks
<1>8. ASSUME a.id # Query, NEW i, Speaks(r, w, i)
      PROVE  Speaks(q, y, i)
  <2>1. /\ i \in 1 .. Len(w) /\ IsSnapshot(w[i]) /\ Quiet(r)
        /\ \A j \in i .. Len(w) : ~IsQueryAck(w[j])
    BY <1>8 DEF Speaks
  <2>2. i \in 1 .. Len(y) /\ y[i] = w[i]
    BY <1>2, <2>1
  <2>3. ASSUME NEW j \in i .. Len(y) PROVE ~IsQueryAck(y[j])
    <3>1. CASE j = Len(w) + 1
      BY <1>2, <1>8, <3>1 DEF IsQueryAck
    <3>2. CASE j # Len(w) + 1
      <4>1. j \in i .. Len(w) /\ j \in 1 .. Len(w)
        BY <1>2, <2>1, <3>2
      <4> QED
        BY <1>2, <2>1, <4>1
    <3> QED
      BY <3>1, <3>2
  <2> QED
    BY <1>6, <1>8, <2>1, <2>2, <2>3 DEF Speaks
<1> QED
  BY <1>1, <1>2, <1>3, <1>6, <1>7, <1>8 DEF Acked

(* Until the acknowledgement, the places are those of before.              *)
LEMMA AckBefore ==
    ASSUME NEW w, NEW y, Len(w) \in Nat, \A i \in 1 .. Len(w) : y[i] = w[i],
           NEW i \in 1 .. Len(w), NEW j \in 1 .. Len(w)
    PROVE  Before(y, j, i) <=> Before(w, j, i)
<1>1. \A m \in j .. i - 1 : m \in 1 .. Len(w)
  OBVIOUS
<1> QED
  BY <1>1 DEF Before

LEMMA AckFollows ==
    ASSUME NEW w \in Seq(Response), NEW r \in Remote, r.requests # << >>,
           NEW q, q.requests = Tail(r.requests), q.listens = r.listens,
           StateOf(q, Query) = StateOf(r, Query),
           NEW a \in Ack, NEW m, m = Head(r.requests), a.id = m.id,
           NEW h, NEW s, NEW n, NEW x, Following(h, r, w, s, x),
           a.id # Query /\ Query \in DOMAIN s =>
               Query \in DOMAIN n /\ n[Query] = s[Query],
           a.id = Query /\ m.ask = "watch" =>
               /\ Query \in DOMAIN n
               /\ n[Query].covers = m.covers /\ n[Query].sent = m.token
    PROVE  Following(h, q, Append(w, a), n, x)
<1>1. PICK y : y = Append(w, a)
  OBVIOUS
<1>2. /\ y \in Seq(Response) /\ Len(y) = Len(w) + 1 /\ Len(w) \in Nat
      /\ \A i \in 1 .. Len(w) : y[i] = w[i]
      /\ y[Len(w) + 1] = a /\ a.type \in {"added", "removed"}
      /\ \A i \in 1 .. Len(y) : y[i].type \notin {"added", "removed"} =>
             i \in 1 .. Len(w) /\ y[i] = w[i]
      /\ \A i : Speaks(q, y, i) => Speaks(r, w, i) /\ a.id # Query
      /\ a.id # Query =>
             /\ Quiet(q) <=> Quiet(r)
             /\ \A i : Speaks(q, y, i) <=> Speaks(r, w, i)
  <2>1. a.id = Head(r.requests).id
    OBVIOUS
  <2>2. Acked(r, w, q, a, y)
    BY <1>1, <2>1, AckSpeaks
  <2> QED
    BY <2>2 DEF Acked
<1>3. QueryActive(q) <=> QueryActive(r)
  BY DEF QueryActive
<1>4. ChangesIn(q) = ChangesIn(r)
  BY DEF ChangesIn
<1>5. \A i \in 1 .. Len(y) : IsSnapshot(y[i]) => i \in 1 .. Len(w) /\ y[i] = w[i]
  BY <1>2 DEF IsSnapshot
<1>6. \A i, j \in 1 .. Len(w) : Before(y, j, i) <=> Before(w, j, i)
  BY <1>2, AckBefore
<1>7. PICK p : p = r.requests
  OBVIOUS
<1>8. /\ p \in Seq(Request) /\ p # << >> /\ Head(p) = p[1] /\ Len(p) \in Nat
      /\ 1 \in 1 .. Len(p) /\ Len(Tail(p)) = Len(p) - 1
      /\ \A i \in 1 .. Len(Tail(p)) : /\ Tail(p)[i] = p[i + 1]
                                      /\ i + 1 \in 1 .. Len(p)
  BY <1>7, NumbersAre, TailIs
<1>9. \A i \in 1 .. Len(p) :
          /\ p[i].id = Query
          /\ \A j \in i + 1 .. Len(p) : p[j].id # Query
          => /\ p[i].ask = "watch" /\ p[i].covers = Docs
             /\ p[i].token = r.listens[Query]
  <2>1. Latest(r)
    BY DEF Following
  <2> QED
    BY <1>7, <2>1 DEF Latest
<1>10. Latest(q)
  <2>0. q.requests = Tail(p) /\ q.listens = r.listens
    BY <1>7
  <2> SUFFICES ASSUME NEW i \in 1 .. Len(Tail(p)), Tail(p)[i].id = Query,
                      \A j \in i + 1 .. Len(Tail(p)) : Tail(p)[j].id # Query
               PROVE  /\ Tail(p)[i].ask = "watch" /\ Tail(p)[i].covers = Docs
                      /\ Tail(p)[i].token = r.listens[Query]
    BY <2>0 DEF Latest
  <2>1. i + 1 \in 1 .. Len(p) /\ p[i + 1] = Tail(p)[i]
    BY <1>8
  <2>2. ASSUME NEW j \in (i + 1) + 1 .. Len(p) PROVE p[j].id # Query
    <3>1. j - 1 \in i + 1 .. Len(Tail(p)) /\ j - 1 \in 1 .. Len(Tail(p))
          /\ (j - 1) + 1 = j
      BY <1>8
    <3>2. Tail(p)[j - 1] = p[j]
      BY <1>8, <3>1
    <3> QED
      BY <3>1, <3>2
  <2> QED
    BY <1>9, <2>1, <2>2
<1>11. Standing(q, y, n)
  <2>1. CASE a.id # Query
    <3> SUFFICES ASSUME Quiet(q)
                 PROVE  /\ Query \in DOMAIN n /\ n[Query].covers = Docs
                        /\ (\A i \in 1 .. Len(y) : ~Speaks(q, y, i)) =>
                               n[Query].sent = q.listens[Query]
                        /\ \A i \in 1 .. Len(y) :
                               /\ Speaks(q, y, i)
                               /\ \A j \in i + 1 .. Len(y) : ~Speaks(q, y, j)
                               => n[Query].sent = y[i].version
      BY DEF Standing
    <3>1. /\ Query \in DOMAIN s /\ s[Query].covers = Docs
          /\ (\A i \in 1 .. Len(w) : ~Speaks(r, w, i)) =>
                 s[Query].sent = r.listens[Query]
          /\ \A i \in 1 .. Len(w) :
                 /\ Speaks(r, w, i)
                 /\ \A j \in i + 1 .. Len(w) : ~Speaks(r, w, j)
                 => s[Query].sent = w[i].version
      BY <1>2, <2>1 DEF Following, Standing
    <3>2. n[Query] = s[Query] /\ Query \in DOMAIN n
      BY <2>1, <3>1
    <3>3. \A i \in 1 .. Len(w) : i \in 1 .. Len(y)
      BY <1>2
    <3>4. ASSUME NEW i \in 1 .. Len(y), Speaks(q, y, i),
                 \A j \in i + 1 .. Len(y) : ~Speaks(q, y, j)
          PROVE  n[Query].sent = y[i].version
      <4>1. i \in 1 .. Len(w) /\ y[i] = w[i] /\ Speaks(r, w, i)
        BY <1>2, <1>5, <3>4 DEF Speaks
      <4>2. \A j \in i + 1 .. Len(w) : j \in i + 1 .. Len(y)
        BY <1>2
      <4>3. \A j \in i + 1 .. Len(w) : ~Speaks(r, w, j)
        BY <1>2, <2>1, <3>4, <4>2
      <4> QED
        BY <3>1, <3>2, <4>1, <4>3
    <3> QED
      BY <1>2, <2>1, <3>1, <3>2, <3>3, <3>4
  <2>2. CASE a.id = Query
    <3> SUFFICES ASSUME Quiet(q)
                 PROVE  /\ Query \in DOMAIN n /\ n[Query].covers = Docs
                        /\ n[Query].sent = q.listens[Query]
      BY <1>2, <2>2 DEF Standing
    <3>1. ASSUME NEW j \in 1 + 1 .. Len(p) PROVE p[j].id # Query
      <4>1. j - 1 \in 1 .. Len(Tail(p)) /\ (j - 1) + 1 = j
        BY <1>8
      <4>2. Tail(p)[j - 1] = p[j]
        BY <1>8, <4>1
      <4> QED
        BY <1>7, <4>1, <4>2 DEF Quiet
    <3>2. p[1] = m /\ m.id = Query
      BY <1>7, <1>8, <2>2
    <3>3. m.ask = "watch" /\ m.covers = Docs /\ m.token = r.listens[Query]
      BY <1>8, <1>9, <3>1, <3>2
    <3> QED
      BY <2>2, <3>3
  <2> QED
    BY <2>1, <2>2
<1>12. ToldBetween(h, q, y)
  <2> SUFFICES ASSUME NEW i \in 1 .. Len(y), NEW j \in 1 .. Len(y),
                      NEW k \in Docs, i < j, Speaks(q, y, i), Speaks(q, y, j),
                      There(h, k, y[j].version), ~There(h, k, y[i].version)
               PROVE  \E e \in i .. j : TellsOf(y[e], k)
    BY DEF ToldBetween
  <2>1. /\ Speaks(r, w, i) /\ Speaks(r, w, j)
        /\ i \in 1 .. Len(w) /\ j \in 1 .. Len(w) /\ y[i] = w[i] /\ y[j] = w[j]
    BY <1>2 DEF Speaks
  <2>2. PICK e \in i .. j : TellsOf(w[e], k)
    BY <2>1 DEF Following, ToldBetween
  <2>3. e \in 1 .. Len(w)
    BY <1>2, <2>1
  <2> QED
    BY <1>2, <2>2, <2>3
<1>13. ToldFirst(h, q, y, x)
  <2> SUFFICES ASSUME NEW i \in 1 .. Len(y), NEW k \in Docs,
                      SpeaksFirst(q, y, i), x = {},
                      There(h, k, y[i].version), ~There(h, k, q.listens[Query])
               PROVE  \/ /\ QueryActive(q)
                         /\ ChangesIn(q)[k] \in {"added", "modified"}
                      \/ \E e \in 1 .. i :
                             /\ TellsOf(y[e], k)
                             /\ \A j \in e .. Len(y) : ~IsQueryAck(y[j])
    BY DEF ToldFirst
  <2>1. /\ Speaks(r, w, i) /\ a.id # Query
        /\ i \in 1 .. Len(w) /\ y[i] = w[i]
    BY <1>2 DEF SpeaksFirst, Speaks
  <2>2. SpeaksFirst(r, w, i)
    BY <1>2, <2>1 DEF SpeaksFirst
  <2>3. CASE QueryActive(r) /\ ChangesIn(r)[k] \in {"added", "modified"}
    BY <1>3, <1>4, <2>3
  <2>4. ASSUME NEW e \in 1 .. i, TellsOf(w[e], k),
               \A j \in e .. Len(w) : ~IsQueryAck(w[j])
        PROVE  \E f \in 1 .. i : /\ TellsOf(y[f], k)
                                 /\ \A j \in f .. Len(y) : ~IsQueryAck(y[j])
    <3>1. e \in 1 .. Len(w) /\ y[e] = w[e]
      BY <1>2, <2>1
    <3>2. ASSUME NEW j \in e .. Len(y) PROVE ~IsQueryAck(y[j])
      <4>1. CASE j = Len(w) + 1
        BY <1>2, <2>1, <4>1 DEF IsQueryAck
      <4>2. CASE j # Len(w) + 1
        <5>1. j \in e .. Len(w) /\ j \in 1 .. Len(w)
          BY <1>2, <3>1, <4>2
        <5> QED
          BY <1>2, <2>4, <5>1
      <4> QED
        BY <4>1, <4>2
    <3> QED
      BY <2>4, <3>1, <3>2
  <2> QED
    BY <2>1, <2>2, <2>3, <2>4 DEF Following, ToldFirst
<1>14. DeletedGone(h, y)
  <2> SUFFICES ASSUME NEW i \in 1 .. Len(y), NEW j \in 1 .. Len(y), j < i,
                      y[j].type = "delete", y[j].id = Query,
                      IsSnapshot(y[i]), Before(y, j, i)
               PROVE  ~There(h, y[j].key, y[i].version)
    BY DEF DeletedGone
  <2>1. /\ i \in 1 .. Len(w) /\ j \in 1 .. Len(w) /\ y[i] = w[i] /\ y[j] = w[j]
    BY <1>2, <1>5
  <2> QED
    BY <1>6, <2>1 DEF Following, DeletedGone
<1>15. RemovedGone(h, q, y, x)
  <2> SUFFICES ASSUME NEW i \in 1 .. Len(y), NEW k \in Docs,
                      IsSnapshot(y[i]), Before(y, 1, i), x = {},
                      QueryActive(q), ChangesIn(q)[k] = "removed"
               PROVE  ~There(h, k, y[i].version)
    BY DEF RemovedGone
  <2>1. i \in 1 .. Len(w) /\ 1 \in 1 .. Len(w) /\ y[i] = w[i]
    BY <1>2, <1>5
  <2> QED
    BY <1>3, <1>4, <1>6, <2>1 DEF Following, RemovedGone
<1>16. Expected(q, y, x)
  <2>1. (\A i \in 1 .. Len(y) : ~IsSnapshot(y[i])) =>
            \A i \in 1 .. Len(w) : ~IsSnapshot(w[i])
    BY <1>2
  <2> QED
    BY <1>3, <1>4, <2>1 DEF Following, Expected
<1>17. Awaited(q, y, x)
  <2> SUFFICES ASSUME x # {}
               PROVE  /\ QueryActive(q) /\ ~StateOf(q, Query).current
                      /\ \A c \in 1 .. Len(y) :
                             y[c].type = "current" => ~Before(y, 1, c)
    BY DEF Awaited
  <2>1. /\ QueryActive(r) /\ ~StateOf(r, Query).current
        /\ \A c \in 1 .. Len(w) : w[c].type = "current" => ~Before(w, 1, c)
    BY DEF Following, Awaited
  <2>2. ASSUME NEW c \in 1 .. Len(y), y[c].type = "current"
        PROVE  ~Before(y, 1, c)
    <3>1. c \in 1 .. Len(w) /\ 1 \in 1 .. Len(w) /\ y[c] = w[c]
      BY <1>2, <2>2
    <3> QED
      BY <1>6, <2>1, <2>2, <3>1
  <2> QED
    BY <1>3, <2>1, <2>2
<1>18. Batches(y)
  <2>1. Batches(w)
    BY DEF Following
  <2>2. ASSUME NEW j \in 1 .. Len(y), y[j].type \notin {"added", "removed"}
        PROVE  \E i \in j .. Len(y) : IsSnapshot(y[i])
    <3>1. j \in 1 .. Len(w) /\ y[j] = w[j]
      BY <1>2, <2>2
    <3>2. PICK i \in j .. Len(w) : IsSnapshot(w[i])
      BY <2>1, <2>2, <3>1 DEF Batches
    <3>3. i \in 1 .. Len(w) /\ i \in j .. Len(y)
      BY <1>2, <3>1
    <3> QED
      BY <1>2, <3>2, <3>3
  <2>3. ASSUME NEW j \in 1 .. Len(y), NEW c \in 1 .. Len(y), j < c,
               y[j].type = "filter", y[c].type = "current"
        PROVE  \E i \in j .. c : IsSnapshot(y[i])
    <3>1. /\ j \in 1 .. Len(w) /\ y[j] = w[j]
          /\ c \in 1 .. Len(w) /\ y[c] = w[c]
      BY <1>2, <2>3
    <3>2. PICK i \in j .. c : IsSnapshot(w[i])
      BY <2>1, <2>3, <3>1 DEF Batches
    <3>3. i \in 1 .. Len(w)
      BY <1>2, <3>1
    <3> QED
      BY <1>2, <3>2, <3>3
  <2> QED
    BY <2>2, <2>3 DEF Batches
<1> QED
  BY <1>1, <1>10, <1>11, <1>12, <1>13, <1>14, <1>15, <1>16, <1>17, <1>18
  DEF Following

(* The stream changes and the client does not.                             *)
LEMMA StreamSync ==
    ASSUME SyncInv, ReadInv', remote'.listens = remote.listens,
           UNCHANGED <<history, answers, disk, target, open, updates, resets,
                       view, resetting>>,
           InTime(wire', updates, Clock),
           open => Following(Now, remote', wire', served', resets)
    PROVE  SyncInv'
<1>1. /\ history' = history /\ answers' = answers /\ target' = target
      /\ open' = open /\ updates' = updates /\ resets' = resets
      /\ view' = view /\ resetting' = resetting
      /\ cache' = cache /\ keys' = keys /\ saved' = saved /\ last' = last
  BY DEF disk
<1>2. Clock' = Clock /\ Now' = Now
  BY <1>1 DEF Clock, Now
<1>3. Dated'
  BY <1>1, <1>2 DEF SyncInv, Dated
<1>4. Tokens'
  BY <1>1 DEF SyncInv, Tokens
<1>5. KeysKept'
  <2>1. Base' = Base
    BY <1>1 DEF Base
  <2> QED
    BY <1>1, <1>2, <2>1 DEF SyncInv, KeysKept
<1> QED
  BY <1>1, <1>2, <1>3, <1>4, <1>5 DEF SyncInv

LEMMA InTimeAck ==
    ASSUME NEW w \in Seq(Response), NEW a \in Ack, NEW u, NEW n, InTime(w, u, n)
    PROVE  InTime(Append(w, a), u, n)
<1>1. PICK y : y = Append(w, a)
  OBVIOUS
<1>2. a \in Response /\ a.type \in {"added", "removed"}
  BY DEF Ack, Response
<1>3. /\ y \in Seq(Response) /\ Len(y) = Len(w) + 1 /\ Len(w) \in Nat
      /\ \A i \in 1 .. Len(w) : y[i] = w[i]
      /\ y[Len(w) + 1] = a
  BY <1>1, <1>2, AppendIs
<1>4. ASSUME NEW i \in 1 .. Len(y), y[i].type \notin {"added", "removed"}
      PROVE  i \in 1 .. Len(w) /\ y[i] = w[i]
  <2>1. i \in 1 .. Len(w) \/ i = Len(w) + 1
    BY <1>3
  <2> QED
    BY <1>2, <1>3, <1>4, <2>1
<1>5. ASSUME NEW j \in 1 .. Len(y), y[j].type \in {"document", "delete"}
      PROVE  /\ y[j].version <= n
             /\ \A i \in j .. Len(y) : IsSnapshot(y[i]) =>
                    y[j].version <= y[i].version
  <2>1. j \in 1 .. Len(w) /\ y[j] = w[j]
    BY <1>4, <1>5
  <2>2. /\ w[j].version <= n
        /\ \A i \in j .. Len(w) : IsSnapshot(w[i]) => w[j].version <= w[i].version
    BY <1>5, <2>1 DEF InTime
  <2>3. ASSUME NEW i \in j .. Len(y), IsSnapshot(y[i])
        PROVE  y[j].version <= y[i].version
    <3>1. i \in 1 .. Len(y)
      BY <1>3
    <3>2. i \in 1 .. Len(w) /\ y[i] = w[i]
      BY <1>4, <2>3, <3>1 DEF IsSnapshot
    <3>3. i \in j .. Len(w)
      BY <1>3, <2>1, <3>2
    <3> QED
      BY <2>1, <2>2, <2>3, <3>2, <3>3
  <2> QED
    BY <2>1, <2>2, <2>3
<1>6. \A k \in Docs : u[k] # << >> =>
          /\ u[k][1].version <= n
          /\ \A i \in 1 .. Len(y) : IsSnapshot(y[i]) =>
                 u[k][1].version <= y[i].version
  BY <1>4 DEF InTime, IsSnapshot
<1> QED
  BY <1>1, <1>5, <1>6 DEF InTime

LEMMA ServerTakesSync == SyncInv /\ ServerTakes => SyncInv'
<1> SUFFICES ASSUME SyncInv, ServerTakes PROVE SyncInv'
  OBVIOUS
<1>1. /\ remote \in Remote /\ wire \in Seq(Response) /\ served \in Table(Served)
      /\ remote.requests # << >> /\ ReadInv /\ ReadInv'
  BY ReadFacts, ServerTakesStep DEF SyncInv, ServerTakes
<1>2. PICK m : m = Head(remote.requests)
  OBVIOUS
<1>3. m \in Request
  BY <1>1, <1>2, NumbersAre, TailIs
<1>4. m.id \in Nat /\ m.covers \in SUBSET Docs /\ m.token \in Nat
  BY <1>3 DEF Request
<1>5. PICK a \in Ack : /\ a.id = m.id /\ wire' = Append(wire, a)
                       /\ \/ /\ m.ask = "watch"
                             /\ served' = With(served, m.id,
                                    [sent |-> m.token, current |-> FALSE,
                                     covers |-> m.covers])
                          \/ /\ m.ask = "unwatch"
                             /\ served' = Without(served, m.id)
  <2>1. PICK type \in {"added", "removed"} :
            /\ wire' = Append(wire, [type |-> type, id |-> m.id])
            /\ \/ /\ m.ask = "watch"
                  /\ served' = With(served, m.id,
                         [sent |-> m.token, current |-> FALSE,
                          covers |-> m.covers])
               \/ /\ m.ask = "unwatch"
                  /\ served' = Without(served, m.id)
    BY <1>2 DEF ServerTakes
  <2>2. PICK a : a = [type |-> type, id |-> m.id]
    OBVIOUS
  <2>3. a \in Ack /\ a.id = m.id
    BY <1>4, <2>1, <2>2 DEF Ack
  <2> QED
    BY <2>1, <2>2, <2>3
<1>6. remote' = [remote EXCEPT !.requests = Tail(@)]
  BY DEF ServerTakes
<1>7. /\ remote'.requests = Tail(remote.requests)
      /\ remote'.listens = remote.listens /\ remote'.agg = remote.agg
  BY <1>1, <1>6 DEF Remote
<1>8. StateOf(remote', Query) = StateOf(remote, Query)
  BY <1>7 DEF StateOf
<1>9. /\ a.id # Query /\ Query \in DOMAIN served =>
             Query \in DOMAIN served' /\ served'[Query] = served[Query]
      /\ a.id = Query /\ m.ask = "watch" =>
             /\ Query \in DOMAIN served'
             /\ served'[Query].covers = m.covers
             /\ served'[Query].sent = m.token
  <2>1. CASE m.ask = "watch" /\ served' = With(served, m.id,
                 [sent |-> m.token, current |-> FALSE, covers |-> m.covers])
    BY <1>5, <2>1 DEF With
  <2>2. CASE m.ask = "unwatch" /\ served' = Without(served, m.id)
    BY <1>5, <2>2 DEF Without
  <2> QED
    BY <1>5, <2>1, <2>2
<1>10. UNCHANGED <<history, answers, disk, target, open, updates, resets, view,
                   resetting>>
  BY DEF ServerTakes, disk
<1>11. ASSUME open PROVE Following(Now, remote', wire', served', resets)
  <2>1. Following(Now, remote, wire, served, resets)
    BY <1>11 DEF SyncInv
  <2>2. Following(Now, remote', Append(wire, a), served', resets)
    BY <1>1, <1>2, <1>5, <1>7, <1>8, <1>9, <2>1, AckFollows
  <2> QED
    BY <1>5, <2>2
<1>12. InTime(wire', updates, Clock)
  BY <1>1, <1>5, InTimeAck DEF SyncInv, Dated
<1> QED
  BY <1>1, <1>7, <1>10, <1>11, <1>12, StreamSync

-----------------------------------------------------------------------------
(* The server sends: x is w and then a batch that brings the query to the  *)
(* collection h, of version c, from where it was.                          *)
Batch(h, c, w, x, s) ==
    /\ Len(w) \in Nat /\ Len(x) \in Nat /\ Len(w) < Len(x)
    /\ \A i \in 1 .. Len(w) : x[i] = w[i]
    /\ IsSnapshot(x[Len(x)]) /\ x[Len(x)].version = c
    /\ \A i \in Len(w) + 1 .. Len(x) :
           /\ IsSnapshot(x[i]) => i = Len(x)
           /\ x[i].type \notin {"added", "removed"}
           /\ x[i].type \in {"document", "delete"} => x[i].version <= c
           /\ x[i].type = "delete" => h[x[i].key].value = Absent
           /\ x[i].type = "filter" =>
                  \A j \in i + 1 .. Len(x) : x[j].type # "current"
    /\ Query \in DOMAIN s => \A k \in s[Query].covers :
           h[k].value # Absent /\ h[k].version > s[Query].sent =>
               \E i \in Len(w) + 1 .. Len(x) - 1 : TellsOf(x[i], k)

LEMMA BatchSpeaks ==
    ASSUME NEW h, NEW c, NEW w, NEW x, NEW s, Batch(h, c, w, x, s), NEW r
    PROVE  /\ \A i \in 1 .. Len(w) : Speaks(r, x, i) <=> Speaks(r, w, i)
           /\ Speaks(r, x, Len(x)) <=> Quiet(r)
           /\ \A i : Speaks(r, x, i) => i \in 1 .. Len(w) \/ i = Len(x)
           /\ \A i : Speaks(r, w, i) => i \in 1 .. Len(w)
           /\ \A i, j \in 1 .. Len(w) : Before(x, j, i) <=> Before(w, j, i)
           /\ \A i \in 1 .. Len(x) : i \in 1 .. Len(w) \/ i \in Len(w) + 1 .. Len(x)
<1>1. /\ Len(w) \in Nat /\ Len(x) \in Nat /\ Len(w) < Len(x)
      /\ \A i \in 1 .. Len(w) : x[i] = w[i]
      /\ IsSnapshot(x[Len(x)])
      /\ \A i \in Len(w) + 1 .. Len(x) :
             /\ IsSnapshot(x[i]) => i = Len(x)
             /\ ~IsQueryAck(x[i])
  BY DEF Batch, IsQueryAck
<1>2. ASSUME NEW i \in 1 .. Len(w)
      PROVE  Speaks(r, x, i) <=> Speaks(r, w, i)
  <2>1. ASSUME \A j \in i .. Len(w) : ~IsQueryAck(w[j]), NEW j \in i .. Len(x)
        PROVE  ~IsQueryAck(x[j])
    <3>1. CASE j <= Len(w)
      BY <1>1, <2>1, <3>1
    <3>2. CASE j > Len(w)
      BY <1>1, <3>2
    <3> QED
      BY <1>1, <3>1, <3>2
  <2>2. ASSUME \A j \in i .. Len(x) : ~IsQueryAck(x[j]), NEW j \in i .. Len(w)
        PROVE  ~IsQueryAck(w[j])
    <3>1. j \in i .. Len(x) /\ j \in 1 .. Len(w)
      BY <1>1
    <3> QED
      BY <1>1, <2>2, <3>1
  <2>3. i \in 1 .. Len(x) /\ x[i] = w[i]
    BY <1>1
  <2> QED
    BY <2>1, <2>2, <2>3 DEF Speaks
<1>3. Speaks(r, x, Len(x)) <=> Quiet(r)
  <2>1. Len(x) \in 1 .. Len(x) /\ Len(x) \in Len(w) + 1 .. Len(x)
    BY <1>1
  <2>2. \A j \in Len(x) .. Len(x) : ~IsQueryAck(x[j])
    BY <1>1, <2>1
  <2> QED
    BY <1>1, <2>1, <2>2 DEF Speaks
<1>4. \A i \in 1 .. Len(x) : i \in 1 .. Len(w) \/ i \in Len(w) + 1 .. Len(x)
  BY <1>1
<1>5. \A i : Speaks(r, x, i) => i \in 1 .. Len(w) \/ i = Len(x)
  BY <1>1, <1>4 DEF Speaks
<1>6. \A i : Speaks(r, w, i) => i \in 1 .. Len(w)
  BY DEF Speaks
<1>7. \A i, j \in 1 .. Len(w) : Before(x, j, i) <=> Before(w, j, i)
  BY <1>1, AckBefore
<1> QED
  BY <1>2, <1>3, <1>4, <1>5, <1>6, <1>7

LEMMA BatchFollows ==
    ASSUME NEW h, NEW c \in Nat, NEW w, NEW x, NEW s, Batch(h, c, w, x, s),
           NEW r, NEW n, NEW y, Following(h, r, w, s, y),
           Query \in DOMAIN s =>
               /\ Query \in DOMAIN n /\ n[Query].sent = c
               /\ n[Query].covers = s[Query].covers,
           \A i \in 1 .. Len(w) : IsSnapshot(w[i]) => w[i].version \in Nat,
           \A k \in Docs : h[k].version \in Nat,
           r.listens[Query] \in Nat
    PROVE  Following(h, r, x, n, y)
<1>1. /\ Len(w) \in Nat /\ Len(x) \in Nat /\ Len(w) < Len(x)
      /\ \A i \in 1 .. Len(w) : x[i] = w[i]
      /\ IsSnapshot(x[Len(x)]) /\ x[Len(x)].version = c
      /\ \A i \in Len(w) + 1 .. Len(x) :
             /\ IsSnapshot(x[i]) => i = Len(x)
             /\ x[i].type \notin {"added", "removed"}
             /\ x[i].type = "delete" => h[x[i].key].value = Absent
             /\ x[i].type = "filter" =>
                    \A j \in i + 1 .. Len(x) : x[j].type # "current"
  BY DEF Batch
<1>2. /\ \A i \in 1 .. Len(w) : Speaks(r, x, i) <=> Speaks(r, w, i)
      /\ Speaks(r, x, Len(x)) <=> Quiet(r)
      /\ \A i : Speaks(r, x, i) => i \in 1 .. Len(w) \/ i = Len(x)
      /\ \A i : Speaks(r, w, i) => i \in 1 .. Len(w)
      /\ \A i, j \in 1 .. Len(w) : Before(x, j, i) <=> Before(w, j, i)
      /\ \A i \in 1 .. Len(x) : i \in 1 .. Len(w) \/ i \in Len(w) + 1 .. Len(x)
  BY BatchSpeaks
<1>3. Latest(r) /\ Batches(w)
  BY DEF Following
<1>4. Quiet(r) =>
          /\ Query \in DOMAIN s /\ s[Query].covers = Docs
          /\ (\A i \in 1 .. Len(w) : ~Speaks(r, w, i)) =>
                 s[Query].sent = r.listens[Query]
          /\ \A i \in 1 .. Len(w) :
                 /\ Speaks(r, w, i)
                 /\ \A j \in i + 1 .. Len(w) : ~Speaks(r, w, j)
                 => s[Query].sent = w[i].version
  BY DEF Following, Standing
<1>5. Standing(r, x, n)
  <2> SUFFICES ASSUME Quiet(r)
               PROVE  /\ Query \in DOMAIN n /\ n[Query].covers = Docs
                      /\ n[Query].sent = c
                      /\ Speaks(r, x, Len(x))
                      /\ \A i \in 1 .. Len(x) :
                             /\ Speaks(r, x, i)
                             /\ \A j \in i + 1 .. Len(x) : ~Speaks(r, x, j)
                             => i = Len(x)
    <3>1. Len(x) \in 1 .. Len(x)
      BY <1>1
    <3> QED
      BY <1>1, <3>1 DEF Standing
  <2>1. ASSUME NEW i \in 1 .. Len(x), i # Len(x)
        PROVE  Len(x) \in i + 1 .. Len(x)
    BY <1>1, <2>1
  <2> QED
    BY <1>2, <1>4, <2>1
<1>6. ASSUME Quiet(r), NEW k \in Docs, h[k].value # Absent,
             h[k].version > s[Query].sent
      PROVE  \E m \in Len(w) + 1 .. Len(x) - 1 : TellsOf(x[m], k)
  BY <1>4, <1>6 DEF Batch
<1>7. ASSUME NEW i \in 1 .. Len(w), Speaks(r, w, i)
      PROVE  \E e \in 1 .. Len(w) :
                 /\ Speaks(r, w, e) /\ i <= e
                 /\ s[Query].sent = w[e].version
  <2>1. PICK S : S = {e \in 1 .. Len(w) : Speaks(r, w, e)}
    OBVIOUS
  <2>2. S \in SUBSET Nat /\ S # {} /\ \A e \in S : e <= Len(w)
    BY <1>1, <1>7, <2>1
  <2>3. PICK e \in S : \A f \in S : f <= e
    BY <1>1, <2>2, LargestExists
  <2>4. \A f \in e + 1 .. Len(w) : ~Speaks(r, w, f)
    <3> SUFFICES ASSUME NEW f \in e + 1 .. Len(w), Speaks(r, w, f) PROVE FALSE
      OBVIOUS
    <3>1. f \in S /\ e \in 1 .. Len(w)
      BY <1>2, <2>1
    <3>2. f <= e
      BY <2>3, <3>1
    <3> QED
      BY <1>1, <3>1, <3>2
  <2>5. e \in 1 .. Len(w) /\ Speaks(r, w, e) /\ i <= e
    BY <1>7, <2>1, <2>3
  <2>6. Quiet(r)
    BY <2>5 DEF Speaks
  <2> QED
    BY <1>4, <2>4, <2>5, <2>6
<1>8. ToldBetween(h, r, x)
  <2> SUFFICES ASSUME NEW i \in 1 .. Len(x), NEW j \in 1 .. Len(x),
                      NEW k \in Docs, i < j, Speaks(r, x, i), Speaks(r, x, j),
                      There(h, k, x[j].version), ~There(h, k, x[i].version)
               PROVE  \E m \in i .. j : TellsOf(x[m], k)
    BY DEF ToldBetween
  <2>1. i \in 1 .. Len(w) /\ Speaks(r, w, i) /\ x[i] = w[i]
    BY <1>1, <1>2
  <2>2. ASSUME NEW e \in 1 .. Len(w), i < e, Speaks(r, w, e), e <= j,
               There(h, k, w[e].version)
        PROVE  \E m \in i .. j : TellsOf(x[m], k)
    <3>1. PICK m \in i .. e : TellsOf(w[m], k)
      BY <2>1, <2>2 DEF Following, ToldBetween
    <3>2. m \in 1 .. Len(w) /\ m \in i .. j
      BY <1>1, <2>1, <2>2
    <3> QED
      BY <1>1, <3>1, <3>2
  <2>3. CASE j \in 1 .. Len(w)
    <3>1. Speaks(r, w, j) /\ x[j] = w[j]
      BY <1>1, <1>2, <2>3
    <3> QED
      BY <2>2, <2>3, <3>1
  <2>4. CASE j = Len(x)
    <3>1. PICK e \in 1 .. Len(w) : /\ Speaks(r, w, e) /\ i <= e
                                   /\ s[Query].sent = w[e].version
      BY <1>7, <2>1
    <3>2. CASE There(h, k, w[e].version)
      <4>1. i # e
        BY <2>1, <3>2
      <4>2. i < e /\ e <= j
        BY <1>1, <2>4, <3>1, <4>1
      <4> QED
        BY <2>2, <3>1, <3>2, <4>2
    <3>3. CASE ~There(h, k, w[e].version)
      <4>1. w[e].version \in Nat /\ h[k].version \in Nat /\ Quiet(r)
        BY <3>1 DEF Speaks
      <4>2. h[k].value # Absent /\ ~(h[k].version <= w[e].version)
        BY <3>3 DEF There
      <4>3. h[k].version > s[Query].sent
        BY <3>1, <4>1, <4>2
      <4>5. PICK m \in Len(w) + 1 .. Len(x) - 1 : TellsOf(x[m], k)
        BY <1>6, <4>1, <4>2, <4>3
      <4>4. m \in i .. j
        BY <1>1, <2>1, <2>4
      <4> QED
        BY <4>4, <4>5
    <3> QED
      BY <3>2, <3>3
  <2> QED
    BY <1>2, <2>3, <2>4
<1>9. ToldFirst(h, r, x, y)
  <2> SUFFICES ASSUME NEW i \in 1 .. Len(x), NEW k \in Docs,
                      SpeaksFirst(r, x, i), y = {},
                      There(h, k, x[i].version), ~There(h, k, r.listens[Query]),
                      ~(QueryActive(r) /\ ChangesIn(r)[k] \in {"added", "modified"})
               PROVE  \E e \in 1 .. i : /\ TellsOf(x[e], k)
                                        /\ \A j \in e .. Len(x) : ~IsQueryAck(x[j])
    BY DEF ToldFirst
  <2>1. Speaks(r, x, i) /\ \A j \in 1 .. i - 1 : ~Speaks(r, x, j)
    BY DEF SpeaksFirst
  <2>2. CASE i \in 1 .. Len(w)
    <3>1. \A j \in 1 .. i - 1 : ~Speaks(r, w, j)
      <4> SUFFICES ASSUME NEW j \in 1 .. i - 1, Speaks(r, w, j) PROVE FALSE
        OBVIOUS
      <4> QED
        BY <1>2, <2>1
    <3>2. SpeaksFirst(r, w, i) /\ x[i] = w[i]
      BY <1>1, <1>2, <2>1, <2>2, <3>1 DEF SpeaksFirst
    <3>3. PICK e \in 1 .. i : /\ TellsOf(w[e], k)
                              /\ \A j \in e .. Len(w) : ~IsQueryAck(w[j])
      BY <2>2, <3>2 DEF Following, ToldFirst
    <3>4. e \in 1 .. Len(w) /\ x[e] = w[e]
      BY <1>1, <2>2
    <3>5. ASSUME NEW j \in e .. Len(x) PROVE ~IsQueryAck(x[j])
      <4>1. CASE j <= Len(w)
        <5>1. j \in e .. Len(w) /\ j \in 1 .. Len(w)
          BY <1>1, <3>4, <4>1
        <5> QED
          BY <1>1, <3>3, <5>1
      <4>2. CASE j > Len(w)
        <5>1. j \in Len(w) + 1 .. Len(x)
          BY <1>1, <3>4, <4>2
        <5> QED
          BY <1>1, <5>1 DEF IsQueryAck
      <4> QED
        BY <1>1, <3>4, <4>1, <4>2
    <3> QED
      BY <3>3, <3>4, <3>5
  <2>3. CASE i = Len(x)
    <3>1. Quiet(r)
      BY <1>2, <2>1, <2>3
    <3>2. \A j \in 1 .. Len(w) : ~Speaks(r, w, j)
      <4>1. \A j \in 1 .. Len(w) : j \in 1 .. i - 1
        BY <1>1, <2>3
      <4> QED
        BY <1>2, <2>1, <4>1
    <3>3. s[Query].sent = r.listens[Query]
      BY <1>4, <3>1, <3>2
    <3>4. h[k].value # Absent /\ h[k].version > s[Query].sent
      BY <3>3 DEF There
    <3>5. PICK m \in Len(w) + 1 .. Len(x) - 1 : TellsOf(x[m], k)
      BY <1>6, <3>1, <3>4
    <3>6. m \in 1 .. i /\ \A j \in m .. Len(x) : j \in Len(w) + 1 .. Len(x)
      BY <1>1, <2>3
    <3>7. \A j \in m .. Len(x) : ~IsQueryAck(x[j])
      BY <1>1, <3>6 DEF IsQueryAck
    <3> QED
      BY <3>5, <3>6, <3>7
  <2> QED
    BY <1>2, <2>1, <2>2, <2>3
<1>10. ASSUME NEW j \in 1 .. Len(w), w[j].type \notin {"added", "removed"}
       PROVE  \E i \in j .. Len(w) : IsSnapshot(x[i])
  <2>1. PICK i \in j .. Len(w) : IsSnapshot(w[i])
    BY <1>3, <1>10 DEF Batches
  <2>2. i \in 1 .. Len(w)
    BY <1>1
  <2> QED
    BY <1>1, <2>1, <2>2
<1>11. DeletedGone(h, x)
  <2> SUFFICES ASSUME NEW i \in 1 .. Len(x), NEW j \in 1 .. Len(x), j < i,
                      x[j].type = "delete", x[j].id = Query,
                      IsSnapshot(x[i]), Before(x, j, i),
                      There(h, x[j].key, x[i].version)
               PROVE  FALSE
    BY DEF DeletedGone
  <2>1. CASE j \in Len(w) + 1 .. Len(x)
    BY <1>1, <2>1 DEF There
  <2>2. CASE j \in 1 .. Len(w) /\ i \in 1 .. Len(w)
    <3>1. x[i] = w[i] /\ x[j] = w[j] /\ Before(w, j, i)
      BY <1>1, <1>2, <2>2
    <3> QED
      BY <2>2, <3>1 DEF Following, DeletedGone
  <2>3. CASE j \in 1 .. Len(w) /\ i \in Len(w) + 1 .. Len(x)
    <3>1. w[j].type \notin {"added", "removed"}
      BY <1>1, <2>3
    <3>2. PICK e \in j .. Len(w) : IsSnapshot(x[e])
      BY <1>10, <2>3, <3>1
    <3>3. e \in j .. i - 1
      BY <1>1, <2>3
    <3> QED
      BY <3>2, <3>3 DEF Before
  <2> QED
    BY <1>2, <2>1, <2>2, <2>3
<1>12. RemovedGone(h, r, x, y)
  <2> SUFFICES ASSUME NEW i \in 1 .. Len(x), NEW k \in Docs,
                      IsSnapshot(x[i]), Before(x, 1, i), y = {},
                      QueryActive(r), ChangesIn(r)[k] = "removed"
               PROVE  ~There(h, k, x[i].version)
    BY DEF RemovedGone
  <2>1. CASE i \in 1 .. Len(w)
    <3>1. 1 \in 1 .. Len(w) /\ x[i] = w[i]
      BY <1>1, <2>1
    <3>2. Before(w, 1, i)
      BY <1>2, <2>1, <3>1
    <3> QED
      BY <2>1, <3>1, <3>2 DEF Following, RemovedGone
  <2>2. CASE i \in Len(w) + 1 .. Len(x)
    <3>1. ASSUME NEW e \in 1 .. Len(w) PROVE ~IsSnapshot(w[e])
      <4>1. e \in 1 .. i - 1 /\ x[e] = w[e]
        BY <1>1, <2>2
      <4> QED
        BY <4>1 DEF Before
    <3>2. ChangesIn(r) = Untouched
      BY <3>1 DEF Following, Expected
    <3> QED
      BY <3>2 DEF Untouched
  <2> QED
    BY <1>2, <2>1, <2>2
<1>13. Expected(r, x, y)
  <2>1. Len(x) \in 1 .. Len(x)
    BY <1>1
  <2> QED
    BY <1>1, <2>1 DEF Expected
<1>14. Awaited(r, x, y)
  <2> SUFFICES ASSUME y # {}
               PROVE  /\ QueryActive(r) /\ ~StateOf(r, Query).current
                      /\ \A e \in 1 .. Len(x) :
                             x[e].type = "current" => ~Before(x, 1, e)
    BY DEF Awaited
  <2>1. /\ QueryActive(r) /\ ~StateOf(r, Query).current
        /\ \A e \in 1 .. Len(w) : w[e].type = "current" => ~Before(w, 1, e)
    BY DEF Following, Awaited
  <2>2. PICK p \in 1 .. Len(w) : IsSnapshot(w[p])
    BY DEF Following, Expected
  <2>3. ASSUME NEW e \in 1 .. Len(x), x[e].type = "current", Before(x, 1, e)
        PROVE  FALSE
    <3>1. CASE e \in 1 .. Len(w)
      <4>1. 1 \in 1 .. Len(w) /\ x[e] = w[e]
        BY <1>1, <3>1
      <4>2. Before(w, 1, e)
        BY <1>2, <2>3, <3>1, <4>1
      <4> QED
        BY <2>1, <2>3, <3>1, <4>1, <4>2
    <3>2. CASE e \in Len(w) + 1 .. Len(x)
      <4>1. p \in 1 .. e - 1 /\ x[p] = w[p]
        BY <1>1, <3>2
      <4> QED
        BY <2>2, <2>3, <4>1 DEF Before
    <3> QED
      BY <1>2, <3>1, <3>2
  <2> QED
    BY <2>1, <2>3
<1>15. Batches(x)
  <2>1. ASSUME NEW j \in 1 .. Len(x), x[j].type \notin {"added", "removed"}
        PROVE  \E i \in j .. Len(x) : IsSnapshot(x[i])
    <3>1. Len(x) \in j .. Len(x)
      BY <1>1
    <3> QED
      BY <1>1, <3>1
  <2>2. ASSUME NEW j \in 1 .. Len(x), NEW e \in 1 .. Len(x), j < e,
               x[j].type = "filter", x[e].type = "current"
        PROVE  \E i \in j .. e : IsSnapshot(x[i])
    <3>1. CASE j \in Len(w) + 1 .. Len(x)
      <4>1. e \in j + 1 .. Len(x)
        BY <1>1, <2>2, <3>1
      <4> QED
        BY <1>1, <2>2, <3>1, <4>1
    <3>2. CASE j \in 1 .. Len(w) /\ e \in 1 .. Len(w)
      <4>1. x[j] = w[j] /\ x[e] = w[e]
        BY <1>1, <3>2
      <4>2. PICK i \in j .. e : IsSnapshot(w[i])
        BY <1>3, <2>2, <3>2, <4>1 DEF Batches
      <4>3. i \in 1 .. Len(w)
        BY <1>1, <3>2
      <4> QED
        BY <1>1, <4>2, <4>3
    <3>3. CASE j \in 1 .. Len(w) /\ e \in Len(w) + 1 .. Len(x)
      <4>1. w[j].type \notin {"added", "removed"}
        BY <1>1, <2>2, <3>3
      <4>2. PICK i \in j .. Len(w) : IsSnapshot(x[i])
        BY <1>10, <3>3, <4>1
      <4>3. i \in j .. e
        BY <1>1, <3>3
      <4> QED
        BY <4>2, <4>3
    <3> QED
      BY <1>2, <3>1, <3>2, <3>3
  <2> QED
    BY <2>1, <2>2 DEF Batches
<1> QED
  BY <1>3, <1>5, <1>8, <1>9, <1>11, <1>12, <1>13, <1>14, <1>15 DEF Following

(* What is appended to a sequence, in the order of a set: every element of *)
(* M comes after w.                                                        *)
Follow(x, w, M) == \A m \in M : \E i \in Len(w) + 1 .. Len(x) : x[i] = m

LEMMA SetAppended ==
    ASSUME NEW S, NEW w \in Seq(S), NEW M \in SUBSET S, IsFiniteSet(M),
           NEW x, x = w \o SetToSeq(M)
    PROVE  /\ x \in Seq(S) /\ Len(w) \in Nat /\ Len(x) \in Nat
           /\ Continues(x, w, M)
           /\ Follow(x, w, M)
<1>1. PICK t : t = SetToSeq(M)
  OBVIOUS
<1>2. t \in Seq(M) /\ \A m \in M : \E i \in 1 .. Len(t) : t[i] = m
  BY <1>1, SetToSeqIs
<1>3. Continues(w, w, M)
  BY LenProperties DEF Continues
<1>4. x \in Seq(S) /\ Continues(x, w, M)
  BY <1>1, <1>2, <1>3, ContinuesOn
<1>5. t \in Seq(S)
  <2>1. \A i \in 1 .. Len(t) : t[i] \in S
    BY <1>2, ElementOfSeq
  <2> QED
    BY <1>2, <2>1, SeqDef
<1>6. /\ Len(x) = Len(w) + Len(t) /\ Len(w) \in Nat /\ Len(t) \in Nat
      /\ \A i \in 1 .. Len(w) + Len(t) :
             x[i] = IF i <= Len(w) THEN w[i] ELSE t[i - Len(w)]
  BY <1>1, <1>5, ConcatProperties, LenProperties
<1>7. ASSUME NEW m \in M
      PROVE  \E i \in Len(w) + 1 .. Len(x) : x[i] = m
  <2>1. PICK i \in 1 .. Len(t) : t[i] = m
    BY <1>2
  <2>2. Len(w) + i \in Len(w) + 1 .. Len(x) /\ (Len(w) + i) - Len(w) = i
        /\ ~(Len(w) + i <= Len(w)) /\ Len(w) + i \in 1 .. Len(w) + Len(t)
    BY <1>6
  <2>3. x[Len(w) + i] = t[i]
    BY <1>6, <2>2
  <2> QED
    BY <2>1, <2>2, <2>3
<1> QED
  BY <1>4, <1>6, <1>7 DEF Follow

(* A sequence that starts with g, which is f and then elements of G.       *)
LEMMA Piece ==
    ASSUME NEW f, NEW g, NEW G, NEW x, Continues(g, f, G),
           Len(f) \in Nat, Len(g) \in Nat, \A i \in 1 .. Len(g) : x[i] = g[i]
    PROVE  /\ Len(f) <= Len(g)
           /\ \A i \in 1 .. Len(f) : x[i] = f[i]
           /\ \A i \in Len(f) + 1 .. Len(g) : x[i] \in G
<1>1. /\ Len(f) <= Len(g)
      /\ \A i \in 1 .. Len(f) : g[i] = f[i]
      /\ \A i \in Len(f) + 1 .. Len(g) : g[i] \in G
  BY DEF Continues
<1>2. \A i \in 1 .. Len(f) : i \in 1 .. Len(g)
  BY <1>1
<1>3. \A i \in Len(f) + 1 .. Len(g) : i \in 1 .. Len(g)
  BY <1>1
<1> QED
  BY <1>1, <1>2, <1>3

(* Five pieces one after the other.                                        *)
Pieced(w, d, e, f, g, x, D, E, F, G, end) ==
    /\ Len(w) <= Len(d) /\ Len(d) <= Len(e) /\ Len(e) <= Len(f)
    /\ Len(f) <= Len(g)
    /\ \A i \in 1 .. Len(w) : x[i] = w[i]
    /\ \A i \in 1 .. Len(d) : x[i] = d[i]
    /\ \A i \in Len(w) + 1 .. Len(x) :
           \/ i <= Len(d) /\ x[i] \in D
           \/ i > Len(d) /\ i <= Len(e) /\ x[i] \in E
           \/ i > Len(e) /\ i <= Len(f) /\ x[i] \in F
           \/ i > Len(f) /\ i <= Len(g) /\ x[i] \in G
           \/ i = Len(x) /\ x[i] = end

LEMMA Pieces ==
    ASSUME NEW w, NEW d, NEW e, NEW f, NEW g, NEW x,
           NEW D, NEW E, NEW F, NEW G, NEW end,
           Len(w) \in Nat, Len(d) \in Nat, Len(e) \in Nat, Len(f) \in Nat,
           Len(g) \in Nat, Len(x) = Len(g) + 1,
           Continues(d, w, D), Continues(e, d, E), Continues(f, e, F),
           Continues(g, f, G), \A i \in 1 .. Len(g) : x[i] = g[i],
           x[Len(g) + 1] = end
    PROVE  Pieced(w, d, e, f, g, x, D, E, F, G, end)
<1>1. /\ Len(f) <= Len(g) /\ \A i \in 1 .. Len(f) : x[i] = f[i]
      /\ \A i \in Len(f) + 1 .. Len(g) : x[i] \in G
  BY Piece, SMTT(20)
<1>2. /\ Len(e) <= Len(f) /\ \A i \in 1 .. Len(e) : x[i] = e[i]
      /\ \A i \in Len(e) + 1 .. Len(f) : x[i] \in F
  BY <1>1, Piece
<1>3. /\ Len(d) <= Len(e) /\ \A i \in 1 .. Len(d) : x[i] = d[i]
      /\ \A i \in Len(d) + 1 .. Len(e) : x[i] \in E
  BY <1>2, Piece
<1>4. /\ Len(w) <= Len(d) /\ \A i \in 1 .. Len(w) : x[i] = w[i]
      /\ \A i \in Len(w) + 1 .. Len(d) : x[i] \in D
  BY <1>3, Piece
<1>5. /\ Len(w) <= Len(d) /\ Len(d) <= Len(e) /\ Len(e) <= Len(f)
      /\ Len(f) <= Len(g)
  BY <1>1, <1>2, <1>3, <1>4
<1>6. ASSUME NEW i \in Len(w) + 1 .. Len(x)
      PROVE  \/ i \in Len(w) + 1 .. Len(d)
             \/ i \in Len(d) + 1 .. Len(e)
             \/ i \in Len(e) + 1 .. Len(f)
             \/ i \in Len(f) + 1 .. Len(g)
             \/ i = Len(x)
  BY <1>5
<1>7. ASSUME NEW i \in Len(w) + 1 .. Len(x)
      PROVE  \/ i <= Len(d) /\ x[i] \in D
             \/ i > Len(d) /\ i <= Len(e) /\ x[i] \in E
             \/ i > Len(e) /\ i <= Len(f) /\ x[i] \in F
             \/ i > Len(f) /\ i <= Len(g) /\ x[i] \in G
             \/ i = Len(x) /\ x[i] = end
  <2>1. CASE i \in Len(w) + 1 .. Len(d)
    BY <1>5, <1>4, <2>1
  <2>2. CASE i \in Len(d) + 1 .. Len(e)
    BY <1>5, <1>3, <2>2
  <2>3. CASE i \in Len(e) + 1 .. Len(f)
    BY <1>5, <1>2, <2>3
  <2>4. CASE i \in Len(f) + 1 .. Len(g)
    BY <1>5, <1>1, <2>4
  <2>5. CASE i = Len(x)
    BY <2>5
  <2> QED
    BY <1>6, <2>1, <2>2, <2>3, <2>4, <2>5
<1> QED
  BY <1>3, <1>4, <1>5, <1>7 DEF Pieced

LEMMA BatchSent ==
    ASSUME SyncInv, NEW forgets \in BOOLEAN, Sends(forgets)
    PROVE  Batch(Now, Clock, wire, wire', served)
<1>1. /\ ReadInv /\ wire \in Seq(Response) /\ Clock \in Nat
      /\ Now \in [Docs -> Update]
      /\ \A k \in Docs : Now[k].version <= Clock
  BY ReadFacts, NowIs DEF SyncInv, Dated
<1>2. PICK I : I = {id \in DOMAIN served :
                        /\ forgets /\ ~served[id].current
                        /\ served[id].sent > 0 \/ id # Query}
  OBVIOUS
<1>3. I \in SUBSET DOMAIN served /\ DOMAIN served \ I \in SUBSET DOMAIN served
  BY <1>2
<1>8. /\ Documents \in SUBSET Response /\ IsFiniteSet(Documents)
      /\ Deletions(DOMAIN served \ I) \in SUBSET Response
      /\ IsFiniteSet(Deletions(DOMAIN served \ I))
      /\ Currents \in SUBSET Response /\ IsFiniteSet(Currents)
      /\ Filters(I) \in SUBSET Response /\ IsFiniteSet(Filters(I))
  <2>1. SentFor(remote, Clock) \subseteq Response
    BY DEF SentFor, Response
  <2> QED
    BY <1>1, <1>3, <2>1, DocumentsAre, DeletionsAre, CurrentsAre, FiltersAre
<1>9. PICK w : w = wire
  OBVIOUS
<1>10. PICK d : d = w \o SetToSeq(Documents)
  OBVIOUS
<1>11. PICK e : e = d \o SetToSeq(Deletions(DOMAIN served \ I))
  OBVIOUS
<1>12. PICK f : f = e \o SetToSeq(Currents)
  OBVIOUS
<1>13. PICK g : g = f \o SetToSeq(Filters(I))
  OBVIOUS
<1>14. PICK end : end = [type |-> "snapshot", version |-> Clock]
  OBVIOUS
<1>15. PICK x : x = g \o <<end>>
  OBVIOUS
<1>16. wire' = x
  BY <1>2, <1>9, <1>10, <1>11, <1>12, <1>13, <1>14, <1>15
  DEF Sends
<1>17. /\ d \in Seq(Response) /\ Len(w) \in Nat /\ Continues(d, w, Documents)
       /\ \A m \in Documents : \E i \in Len(w) + 1 .. Len(d) : d[i] = m
  <2>1. PICK D : D = Documents
    OBVIOUS
  <2>2. D \in SUBSET Response /\ IsFiniteSet(D) /\ d = w \o SetToSeq(D)
        /\ w \in Seq(Response)
    BY <1>1, <1>8, <1>9, <1>10, <2>1
  <2>3. d \in Seq(Response) /\ Len(w) \in Nat /\ Continues(d, w, D)
    BY <2>2, SetAppended
  <2>4. Follow(d, w, D)
    BY <2>2, SetAppended
  <2> QED
    BY <2>1, <2>3, <2>4 DEF Follow
<1>18. e \in Seq(Response) /\ Len(d) \in Nat /\ Continues(e, d, Deletions(DOMAIN served \ I))
  BY <1>8, <1>11, <1>17, SetAppended
<1>19. f \in Seq(Response) /\ Len(e) \in Nat /\ Continues(f, e, Currents)
  BY <1>8, <1>12, <1>18, SetAppended
<1>20. /\ g \in Seq(Response) /\ Len(f) \in Nat /\ Len(g) \in Nat
       /\ Continues(g, f, Filters(I))
  BY <1>8, <1>13, <1>19, SetAppended
<1>21. /\ Len(x) = Len(g) + 1 /\ x[Len(g) + 1] = end
       /\ \A i \in 1 .. Len(g) : x[i] = g[i]
  <2>1. end \in Response
    BY <1>1, <1>14 DEF Response, Sent
  <2>2. PICK y : y = Append(g, end)
    OBVIOUS
  <2>3. x = y
    BY <1>15, <1>20, <2>1, <2>2
  <2> QED
    BY <1>20, <2>1, <2>2, <2>3, AppendIs
<1>22. /\ Len(w) <= Len(d) /\ Len(d) <= Len(e) /\ Len(e) <= Len(f)
       /\ Len(f) <= Len(g)
       /\ \A i \in 1 .. Len(w) : x[i] = w[i]
       /\ \A i \in 1 .. Len(d) : x[i] = d[i]
       /\ \A i \in Len(w) + 1 .. Len(x) :
              \/ i <= Len(d) /\ x[i] \in Documents
              \/ i > Len(d) /\ i <= Len(e) /\ x[i] \in Deletions(DOMAIN served \ I)
              \/ i > Len(e) /\ i <= Len(f) /\ x[i] \in Currents
              \/ i > Len(f) /\ i <= Len(g) /\ x[i] \in Filters(I)
              \/ i = Len(x) /\ x[i] = end
  <2>1. PICK D, E, F, G : D = Documents /\ E = Deletions(DOMAIN served \ I)
                          /\ F = Currents /\ G = Filters(I)
    OBVIOUS
  <2>2. /\ Continues(d, w, D) /\ Continues(e, d, E) /\ Continues(f, e, F)
        /\ Continues(g, f, G)
    BY <1>17, <1>18, <1>19, <1>20, <2>1
  <2>3. Pieced(w, d, e, f, g, x, D, E, F, G, end)
    BY <1>17, <1>18, <1>19, <1>20, <1>21, <2>2, Pieces
  <2> QED
    BY <2>1, <2>3 DEF Pieced
<1>23. \A m \in Documents : /\ m.type = "document" /\ m.version <= Clock
  <2>1. \A id \in DOMAIN served : served[id].covers \subseteq Docs
    BY <1>1, ServedFinite DEF Served
  <2> QED
    BY <1>1, <2>1 DEF Documents
<1>24. \A m \in Deletions(DOMAIN served \ I) : /\ m.type = "delete" /\ m.version = Clock
                    /\ Now[m.key].value = Absent
  BY DEF Deletions
<1>25. \A m \in Currents : m.type = "current"
  BY DEF Currents
<1>26. \A m \in Filters(I) : m.type = "filter"
  <2> SUFFICES ASSUME NEW m \in Filters(I) PROVE m.type = "filter"
    OBVIOUS
  <2>1. PICK id \in I : \E n : m = [type |-> "filter", id |-> id, count |-> n]
    BY DEF Filters
  <2> QED
    BY <2>1
<1>27. ASSUME Query \in DOMAIN served, NEW k \in served[Query].covers,
              Now[k].value # Absent, Now[k].version > served[Query].sent
       PROVE  \E i \in Len(w) + 1 .. Len(x) - 1 : TellsOf(x[i], k)
  <2>1. PICK m : m = [type |-> "document", id |-> Query, key |-> k,
                      version |-> Now[k].version, value |-> Now[k].value]
    OBVIOUS
  <2>2. m \in Documents
    BY <1>27, <2>1 DEF Documents
  <2>3. PICK i \in Len(w) + 1 .. Len(d) : d[i] = m
    BY <1>17, <2>2
  <2>4. i \in 1 .. Len(d) /\ i \in Len(w) + 1 .. Len(x) - 1
    BY <1>17, <1>18, <1>19, <1>20, <1>21, <1>22
  <2>5. TellsOf(m, k)
    BY <2>1 DEF TellsOf
  <2> QED
    BY <1>22, <2>3, <2>4, <2>5
<1>28. end.type = "snapshot" /\ end.version = Clock
  BY <1>14
<1>29. ASSUME NEW i \in Len(w) + 1 .. Len(x)
       PROVE  /\ IsSnapshot(x[i]) => i = Len(x)
              /\ x[i].type \notin {"added", "removed"}
              /\ x[i].type \in {"document", "delete"} => x[i].version <= Clock
              /\ x[i].type = "delete" => Now[x[i].key].value = Absent
              /\ x[i].type = "filter" => i > Len(f)
              /\ x[i].type = "current" => i <= Len(f)
  <2>6. i \in Nat /\ (i <= Len(d) \/ i <= Len(e) => i <= Len(f))
    BY <1>17, <1>18, <1>19, <1>22
  <2>7. Clock <= Clock
    BY <1>1
  <2>1. CASE i <= Len(d) /\ x[i] \in Documents
    BY <1>23, <2>1, <2>6 DEF IsSnapshot
  <2>2. CASE i > Len(d) /\ i <= Len(e) /\ x[i] \in Deletions(DOMAIN served \ I)
    BY <1>24, <2>2, <2>6, <2>7 DEF IsSnapshot
  <2>3. CASE i > Len(e) /\ i <= Len(f) /\ x[i] \in Currents
    BY <1>25, <2>3 DEF IsSnapshot
  <2>4. CASE i > Len(f) /\ i <= Len(g) /\ x[i] \in Filters(I)
    BY <1>26, <2>4 DEF IsSnapshot
  <2>5. CASE i = Len(x) /\ x[i] = end
    BY <1>28, <2>5
  <2> QED
    BY <1>22, <2>1, <2>2, <2>3, <2>4, <2>5
<1>30. ASSUME NEW i \in Len(w) + 1 .. Len(x), x[i].type = "filter",
              NEW j \in i + 1 .. Len(x), x[j].type = "current"
       PROVE  FALSE
  <2>1. j \in Len(w) + 1 .. Len(x)
    BY <1>17, <1>20, <1>21
  <2>2. i > Len(f) /\ j <= Len(f)
    BY <1>29, <1>30, <2>1
  <2> QED
    BY <1>17, <1>20, <2>2
<1>31. /\ Len(w) \in Nat /\ Len(x) \in Nat /\ Len(w) < Len(x)
       /\ IsSnapshot(x[Len(x)]) /\ x[Len(x)].version = Clock
  BY <1>17, <1>18, <1>19, <1>20, <1>21, <1>22, <1>28 DEF IsSnapshot
<1>32. Batch(Now, Clock, w, x, served)
  BY <1>22, <1>27, <1>29, <1>30, <1>31 DEF Batch
<1> QED
  BY <1>9, <1>16, <1>32

LEMMA InTimeBatch ==
    ASSUME NEW h, NEW c \in Nat, NEW w, NEW x, NEW s, Batch(h, c, w, x, s),
           NEW u, InTime(w, u, c),
           \A k \in Docs : u[k] # << >> => u[k][1].version <= c
    PROVE  InTime(x, u, c)
<1>1. /\ Len(w) \in Nat /\ Len(x) \in Nat /\ Len(w) < Len(x)
      /\ \A i \in 1 .. Len(w) : x[i] = w[i]
      /\ IsSnapshot(x[Len(x)]) /\ x[Len(x)].version = c
      /\ \A i \in Len(w) + 1 .. Len(x) :
             /\ IsSnapshot(x[i]) => i = Len(x)
             /\ x[i].type \in {"document", "delete"} => x[i].version <= c
  BY DEF Batch
<1>2. \A i \in 1 .. Len(x) : i \in 1 .. Len(w) \/ i \in Len(w) + 1 .. Len(x)
  BY <1>1
<1>3. ASSUME NEW j \in 1 .. Len(x), x[j].type \in {"document", "delete"}
      PROVE  /\ x[j].version <= c
             /\ \A i \in j .. Len(x) : IsSnapshot(x[i]) =>
                    x[j].version <= x[i].version
  <2>1. x[j].version <= c
    BY <1>1, <1>2, <1>3 DEF InTime
  <2>2. ASSUME NEW i \in j .. Len(x), IsSnapshot(x[i])
        PROVE  x[j].version <= x[i].version
    <3>1. CASE i \in 1 .. Len(w)
      <4>1. j \in 1 .. Len(w) /\ i \in j .. Len(w)
        BY <1>1, <3>1
      <4> QED
        BY <1>1, <1>3, <2>2, <3>1, <4>1 DEF InTime
    <3>2. CASE i \in Len(w) + 1 .. Len(x)
      BY <1>1, <2>1, <2>2, <3>2
    <3> QED
      BY <1>1, <1>2, <3>1, <3>2
  <2> QED
    BY <2>1, <2>2
<1>4. ASSUME NEW k \in Docs, u[k] # << >>
      PROVE  /\ u[k][1].version <= c
             /\ \A i \in 1 .. Len(x) : IsSnapshot(x[i]) =>
                    u[k][1].version <= x[i].version
  BY <1>1, <1>2, <1>4 DEF InTime
<1> QED
  BY <1>3, <1>4 DEF InTime

LEMMA SendsSync ==
    SyncInv /\ (\E forgets \in BOOLEAN : Sends(forgets)) => SyncInv'
<1> SUFFICES ASSUME SyncInv, NEW forgets \in BOOLEAN, Sends(forgets)
             PROVE  SyncInv'
  OBVIOUS
<1>1. /\ ReadInv /\ ReadInv' /\ wire \in Seq(Response) /\ Clock \in Nat
      /\ Now \in [Docs -> Update] /\ remote \in Remote
      /\ served \in Table(Served)
  BY ReadFacts, NowIs, SendsStep DEF SyncInv
<1>2. Batch(Now, Clock, wire, wire', served)
  BY BatchSent
<1>3. /\ remote' = remote
      /\ UNCHANGED <<history, answers, disk, target, open, updates, resets,
                     view, resetting>>
  BY DEF Sends, disk
<1>4. InTime(wire', updates, Clock)
  <2>1. InTime(wire, updates, Clock)
    BY DEF SyncInv, Dated
  <2>2. \A k \in Docs : updates[k] # << >> => updates[k][1].version <= Clock
    BY <2>1 DEF InTime
  <2> QED
    BY <1>1, <1>2, <2>1, <2>2, InTimeBatch
<1>5. ASSUME open PROVE Following(Now, remote, wire', served', resets)
  <2>1. Following(Now, remote, wire, served, resets)
    BY <1>5 DEF SyncInv
  <2>2. view.on /\ Query \in DOMAIN remote.listens
    BY <1>1, <1>5 DEF ReadInv, ViewFirst, SyncInv, Tokens
  <2>3. remote.listens[Query] \in Nat
    BY <1>1, <2>2, NumbersAre, TableIs
  <2>4. Query \in DOMAIN served =>
            /\ Query \in DOMAIN served' /\ served'[Query].sent = Clock
            /\ served'[Query].covers = served[Query].covers
    <3>1. served' = [id \in DOMAIN served |->
                        [served[id] EXCEPT !.sent = Clock, !.current = TRUE]]
      BY DEF Sends
    <3>2. \A id \in DOMAIN served : served[id] \in Served
      BY <1>1, TableIs
    <3> QED
      BY <3>1, <3>2 DEF Served
  <2>5. \A i \in 1 .. Len(wire) : IsSnapshot(wire[i]) => wire[i].version \in Nat
    BY <1>1, ResponsesAre, ResponseIs DEF IsSnapshot
  <2>6. \A k \in Docs : Now[k].version \in Nat
    BY <1>1 DEF Update
  <2> QED
    BY <1>1, <1>2, <2>1, <2>3, <2>4, <2>5, <2>6, BatchFollows
<1> QED
  BY <1>1, <1>3, <1>4, <1>5, StreamSync
-----------------------------------------------------------------------------
(* A stream that opens or closes, or is taken for closed.                  *)
LEMMA RestartSync ==
    ASSUME SyncInv, ReadInv', remote'.listens = remote.listens,
           UNCHANGED <<history, answers, disk, target, resetting>>,
           view'.on = view.on, view'.synced = view.synced,
           view'.current => view.current,
           InTime(wire', updates', Clock),
           open' => Following(Now, remote', wire', served', resets'),
           ~open' => resets' = {}
    PROVE  SyncInv'
<1>1. /\ history' = history /\ answers' = answers /\ target' = target
      /\ resetting' = resetting
      /\ cache' = cache /\ keys' = keys /\ saved' = saved /\ last' = last
  BY DEF disk
<1>2. Clock' = Clock /\ Now' = Now
  BY <1>1 DEF Clock, Now
<1>3. Dated'
  BY <1>1, <1>2 DEF SyncInv, Dated
<1>4. Tokens'
  BY <1>1 DEF SyncInv, Tokens
<1>5. KeysKept'
  <2>1. Base' = Base
    BY <1>1 DEF Base
  <2> QED
    BY <1>1, <1>2, <2>1 DEF SyncInv, KeysKept
<1>6. (open => Following(Now, remote, wire, served, resets))'
  BY <1>2
<1> QED
  BY <1>3, <1>4, <1>5, <1>6 DEF SyncInv

(* A stream that opens asks for the query once.                            *)
LEMMA AskedFollows ==
    ASSUME NEW r \in Remote, NEW w \in Seq(Response), w = << >>,
           Paired(r), NEW srv, Numbered(r, w, srv),
           Query \in DOMAIN r.listens,
           NEW ids \in SetToSeqs(DOMAIN r.listens), NEW s, s = AskedFor(r, ids),
           NEW h
    PROVE  Following(h, s, << >>, << >>, {})
<1>1. PICK D : D = DOMAIN r.listens
  OBVIOUS
<1>2. /\ D \subseteq Nat /\ \A id \in D : id < r.next /\ r.next \in Nat
  BY <1>1, NumbersAre, TableIs DEF Paired, Numbered
<1>3. IsFiniteSet(D)
  BY <1>1, <1>2, BelowFinite
<1>4. /\ Len(ids) \in Nat /\ DOMAIN ids = 1 .. Len(ids)
      /\ \A i, j \in 1 .. Len(ids) : ids[i] = ids[j] => i = j
      /\ \A x \in D : \E i \in 1 .. Len(ids) : ids[i] = x
  <2>1. /\ ids \in Seq(D)
        /\ \A i, j \in 1 .. Len(ids) : ids[i] = ids[j] => i = j
        /\ \A x \in D : \E i \in 1 .. Len(ids) : ids[i] = x
    <3>1. ids \in SetToSeqs(D)
      BY <1>1
    <3> QED
      BY <1>3, <3>1, SetToSeqsIs, SMTT(20)
  <2>2. Len(ids) \in Nat /\ DOMAIN ids = 1 .. Len(ids)
    BY <2>1, LenProperties
  <2> QED
    BY <2>1, <2>2
<1>5. s \in Remote /\ s.listens = r.listens
  BY OpenedKeeps
<1>6. PICK q : q = [i \in 1 .. Len(ids) |->
                        Watch(ids[i], CoveredBy(r, ids[i]), r.listens[ids[i]])]
  OBVIOUS
<1>7. PICK a : a = [id \in DOMAIN r.listens |-> [Fresh EXCEPT !.pending = 1]]
  OBVIOUS
<1>8. s = [r EXCEPT !.agg = a, !.requests = q]
  BY <1>4, <1>6, <1>7 DEF AskedFor
<1>9. s.requests = q /\ s.agg = a
  BY <1>8 DEF Remote
<1>10. DOMAIN q = 1 .. Len(ids) /\ q \in Seq(Request)
  BY <1>5, <1>6, <1>9, NumbersAre
<1>11. Len(q) = Len(ids)
  BY <1>4, <1>10, LenProperties
<1>12. \A i \in 1 .. Len(ids) :
          /\ q[i].id = ids[i] /\ q[i].ask = "watch"
          /\ q[i].covers = CoveredBy(r, ids[i])
          /\ q[i].token = r.listens[ids[i]]
  BY <1>6 DEF Watch
<1>13. ~Quiet(s)
  <2>1. PICK i \in 1 .. Len(ids) : ids[i] = Query
    BY <1>1, <1>4
  <2> QED
    BY <1>9, <1>11, <1>12, <2>1 DEF Quiet
<1>14. ~QueryActive(s)
  <2>1. a[Query] = [Fresh EXCEPT !.pending = 1] /\ Query \in DOMAIN a
    BY <1>7
  <2>2. a[Query].pending = 1
    BY <2>1 DEF Fresh
  <2> QED
    BY <1>9, <2>1, <2>2 DEF QueryActive, StateOf
<1>15. Len(<< >>) = 0
  OBVIOUS
<1>16. Latest(s)
  <2>1. ASSUME NEW i \in 1 .. Len(ids), q[i].id = Query
        PROVE  /\ q[i].ask = "watch" /\ q[i].covers = Docs
               /\ q[i].token = s.listens[Query]
    <3>1. ids[i] = Query /\ CoveredBy(r, Query) = Docs
      BY <1>12, <2>1 DEF CoveredBy
    <3> QED
      BY <1>5, <1>12, <3>1
  <2> QED
    BY <1>9, <1>11, <2>1 DEF Latest
<1>17. Standing(s, << >>, << >>)
  BY <1>13 DEF Standing
<1>18. ToldBetween(h, s, << >>) /\ ToldFirst(h, s, << >>, {})
  BY <1>15 DEF ToldBetween, ToldFirst
<1>19. DeletedGone(h, << >>) /\ RemovedGone(h, s, << >>, {})
  BY <1>15 DEF DeletedGone, RemovedGone
<1>20. Expected(s, << >>, {}) /\ Awaited(s, << >>, {})
  BY <1>14 DEF Expected, Awaited
<1>21. Batches(<< >>)
  BY <1>15 DEF Batches
<1> QED
  BY <1>16, <1>17, <1>18, <1>19, <1>20, <1>21 DEF Following

LEMMA InTimeNone ==
    ASSUME NEW n
    PROVE  InTime(<< >>, NoUpdates, n)
<1>1. Len(<< >>) = 0 /\ \A k \in Docs : NoUpdates[k] = << >>
  BY DEF NoUpdates
<1> QED
  BY <1>1 DEF InTime

LEMMA OpenSync == SyncInv /\ OnWatchStreamOpen => SyncInv'
<1> SUFFICES ASSUME SyncInv, OnWatchStreamOpen PROVE SyncInv'
  OBVIOUS
<1>1. /\ ReadInv /\ ReadInv' /\ ~open /\ remote \in Remote
      /\ wire \in Seq(Response) /\ served \in Table(Served)
      /\ Watching(remote, wire, served, view.synced)
  BY OpenStep, ReadFacts DEF SyncInv, OnWatchStreamOpen
<1>2. /\ UNCHANGED <<history, answers, disk, target, resetting>>
      /\ open' = TRUE /\ wire' = wire /\ served' = served /\ view' = view
      /\ updates' = updates /\ resets' = resets
  BY DEF OnWatchStreamOpen, server
<1>3. /\ wire = << >> /\ served = << >> /\ resets = {}
      /\ Paired(remote) /\ Numbered(remote, wire, served)
  BY <1>1 DEF Watching, Closed, SyncInv
<1>4. PICK ids \in SetToSeqs(DOMAIN remote.listens) :
            remote' = AskedFor(remote, ids)
  BY Zenon DEF OnWatchStreamOpen, AskedFor
<1>5. Query \in DOMAIN remote.listens
  <2>1. view.on
    BY <1>1 DEF OnWatchStreamOpen, ReadInv, ViewFirst
  <2> QED
    BY <2>1 DEF SyncInv, Tokens
<1>6. remote'.listens = remote.listens
  BY <1>1, <1>3, <1>4, OpenedKeeps
<1>7. Following(Now, remote', << >>, << >>, {})
  <2>1. PICK r \in Remote : r = remote
    BY <1>1
  <2>2. PICK s : s = remote'
    OBVIOUS
  <2>3. PICK h : h = Now
    OBVIOUS
  <2>4. PICK w \in Seq(Response) : w = wire
    BY <1>1
  <2>5. PICK srv : srv = served
    OBVIOUS
  <2>6. ids \in SetToSeqs(DOMAIN r.listens) /\ s = AskedFor(r, ids)
    BY <1>4, <2>1, <2>2
  <2>7. Following(h, s, << >>, << >>, {})
    BY <1>3, <1>5, <2>1, <2>4, <2>5, <2>6, AskedFollows
  <2> QED
    BY <2>2, <2>3, <2>7
<1>8. Following(Now, remote', wire', served', resets')
  BY <1>2, <1>3, <1>7
<1>9. InTime(wire', updates', Clock)
  BY <1>2 DEF SyncInv, Dated
<1> QED
  BY <1>1, <1>2, <1>6, <1>8, <1>9, RestartSync

LEMMA CloseSync == SyncInv /\ OnWatchStreamClose => SyncInv'
<1> SUFFICES ASSUME SyncInv, OnWatchStreamClose PROVE SyncInv'
  OBVIOUS
<1>1. ReadInv' /\ remote \in Remote
  BY CloseStep, ReadFacts DEF SyncInv
<1>2. /\ UNCHANGED <<history, answers, disk, target, resetting>>
      /\ open' = FALSE /\ wire' = << >> /\ view' = view
      /\ updates' = NoUpdates /\ resets' = {}
      /\ remote' = [remote EXCEPT !.agg = << >>, !.requests = << >>]
  BY DEF OnWatchStreamClose
<1>3. remote'.listens = remote.listens
  BY <1>1, <1>2 DEF Remote
<1>4. InTime(wire', updates', Clock)
  BY <1>2, InTimeNone
<1> QED
  BY <1>1, <1>2, <1>3, <1>4, RestartSync

LEMMA OfflineSync == SyncInv /\ GoOffline => SyncInv'
<1> SUFFICES ASSUME SyncInv, GoOffline PROVE SyncInv'
  OBVIOUS
<1>1. ReadInv' /\ view \in View
  BY OfflineStep, ReadFacts DEF SyncInv
<1>2. /\ UNCHANGED <<history, answers, disk, target, resetting>>
      /\ open' = open /\ wire' = wire /\ remote' = remote /\ served' = served
      /\ updates' = updates /\ resets' = resets /\ ~open
      /\ view' = [view EXCEPT !.current = FALSE, !.state = "Local"]
  BY DEF GoOffline, server
<1>3. view'.on = view.on /\ view'.synced = view.synced /\ ~view'.current
  BY <1>1, <1>2 DEF View
<1>4. InTime(wire', updates', Clock) /\ resets' = {}
  BY <1>2 DEF SyncInv, Dated
<1> QED
  BY <1>1, <1>2, <1>3, <1>4, RestartSync

LEMMA CrashSync == SyncInv /\ Crash => SyncInv'
<1> SUFFICES ASSUME SyncInv, Crash PROVE SyncInv'
  OBVIOUS
<1>1. /\ open' = FALSE /\ resets' = {} /\ updates' = NoUpdates
      /\ wire' = << >> /\ answers' = << >> /\ view' = NoView
      /\ target' = Unknown /\ history' = history /\ cache' = cache
      /\ keys' = keys /\ saved' = saved /\ last' = last
      /\ resetting' = IF resetting = "no" THEN "no" ELSE "torn"
  BY DEF Crash, disk
<1>2. ReadInv' /\ Clock' = Clock /\ Now' = Now
  BY <1>1, CrashStep DEF SyncInv, Clock, Now
<1>3. Dated'
  <2>1. Len(<< >>) = 0
    OBVIOUS
  <2> QED
    BY <1>1, <1>2, <2>1, InTimeNone DEF SyncInv, Dated
<1>4. ~view'.on /\ ~view'.current
  BY <1>1 DEF NoView
<1>5. Tokens'
  <2>1. saved.limboFree <= saved.token /\ saved.token <= last
    BY DEF SyncInv, Tokens
  <2>2. Unknown.limboFree <= Unknown.token /\ Unknown.token <= last
    BY BaseIs DEF Unknown
  <2> QED
    BY <1>1, <1>4, <2>1, <2>2 DEF Tokens
<1>6. KeysKept'
  <2>1. Base' = saved.token
    BY <1>1, <1>4 DEF Base
  <2>2. resetting' # "torn" => resetting = "no" /\ resetting' = "no"
    BY <1>1
  <2>3. saved.token \in Nat /\ saved.token <= saved.token
    BY BaseIs
  <2>4. ASSUME NEW k \in Docs, resetting = "no", There(Now, k, saved.token)
        PROVE  k \in keys
    <3>1. Now \in [Docs -> Update] /\ Base \in Nat /\ saved.token <= Base
      BY <2>4, NowIs, BaseIs DEF SyncInv, KeysKept
    <3>2. There(Now, k, Base)
      BY <2>3, <2>4, <3>1 DEF There, Update
    <3> QED
      BY <2>4, <3>2 DEF SyncInv, KeysKept
  <2>5. resetting' # "yes"
    BY <1>1
  <2> QED
    BY <1>1, <1>2, <1>4, <2>1, <2>2, <2>3, <2>4, <2>5 DEF KeysKept
<1> QED
  BY <1>1, <1>2, <1>3, <1>5, <1>6 DEF SyncInv
-----------------------------------------------------------------------------
(* A snapshot of the view.                                                 *)
LEMMA EmitTokens ==
    ASSUME Types, NEW ks \in SUBSET Docs, NEW tc \in TargetChange,
           NEW r \in Remote, NEW t \in TargetData, t.limboFree <= t.token,
           cache' \in [Docs -> Cached], queue' \in Seq(Writes),
           offline' \in BOOLEAN, Emit(ks, tc, r, t)
    PROVE  /\ target'.token = t.token /\ target'.limboFree <= target'.token
           /\ ~view.on => view' = view
           /\ view.on =>
                  /\ view'.current = tc.current
                  /\ view'.state = "Synced" => view'.current
<1>1. CASE ~view.on
  <2>1. target' = t /\ UNCHANGED <<view, program>>
    BY <1>1, Zenon DEF Emit
  <2> QED
    BY <1>1, <2>1
<1>2. CASE view.on
  <2>1. PICK d : d = [k \in Docs |-> LocalDoc(cache', queue', k)]
    OBVIOUS
  <2>2. PICK change : change = [k \in Docs |-> IF k \in ks THEN ChangeOf(view, k, d[k])
                                               ELSE "none"]
    OBVIOUS
  <2>3. PICK v : v = ApplyChanges(view, change, d, tc)
    OBVIOUS
  <2>4. PICK raises \in BOOLEAN :
            raises <=> v.state # view.state \/ \E k \in Docs : change[k] # "none"
    OBVIOUS
  <2>5. /\ view' = v
        /\ target' = IF raises /\ v.state = "Synced"
                     THEN [t EXCEPT !.limboFree = t.token] ELSE t
    BY <1>2, <2>1, <2>2, <2>3, <2>4, Zenon DEF Emit
  <2>6. target'.token = t.token /\ target'.limboFree <= target'.token
    <3>1. [t EXCEPT !.limboFree = t.token].token = t.token
          /\ [t EXCEPT !.limboFree = t.token].limboFree = t.token
          /\ t.token \in Nat
      BY DEF TargetData
    <3>2. t.token <= t.token
      BY <3>1
    <3> QED
      BY <2>5, <3>1, <3>2
  <2>7. PICK limbo, docs, mutated, synced :
            v = [on |-> TRUE, docs |-> docs, mutated |-> mutated,
                 synced |-> synced, current |-> tc.current, limbo |-> limbo,
                 state |-> IF tc.current /\ limbo = {} THEN "Synced" ELSE "Local"]
    BY <2>3 DEF ApplyChanges
  <2>8. v.current = tc.current /\ (v.state = "Synced" => tc.current)
    BY <2>7
  <2> QED
    BY <1>2, <2>5, <2>6, <2>8
<1>3. view.on \in BOOLEAN
  BY DEF Types, ClientTypes, View
<1> QED
  BY <1>1, <1>2, <1>3

LEMMA EmittedSync ==
    ASSUME SyncInv, ReadInv', NEW ks \in SUBSET Docs,
           Emit(ks, NoTargetChange(view), remote, target),
           cache' \in [Docs -> Cached], queue' \in Seq(Writes),
           \A k \in Docs : cache'[k].version <= cache'[k].read,
           \A i \in 1 .. Len(answers') : answers'[i].version <= answers'[i].read,
           UNCHANGED <<server, wire, keys, saved, last, open, updates, resets,
                       resetting, offline>>
    PROVE  SyncInv'
<1>1. /\ history' = history /\ served' = served /\ wire' = wire /\ keys' = keys
      /\ saved' = saved /\ last' = last /\ open' = open /\ updates' = updates
      /\ resets' = resets /\ resetting' = resetting /\ offline' = offline
  BY DEF server
<1>2. Clock' = Clock /\ Now' = Now
  BY <1>1 DEF Clock, Now
<1>3. PICK tc \in TargetChange : /\ tc = NoTargetChange(view)
                                 /\ tc.added = {} /\ tc.removed = {}
                                 /\ tc.current = view.current
  <2>1. ReadInv
    BY DEF SyncInv
  <2> QED
    BY <2>1, ReadFacts, NoTargetChangeIs DEF NoTargetChange
<1>4. PICK r \in Remote : r = remote
  BY ReadFacts DEF SyncInv
<1>5. PICK t \in TargetData : t = target
  BY DEF SyncInv, ReadInv, Types, ClientTypes
<1>6. Types /\ offline' \in BOOLEAN /\ Emit(ks, tc, r, t)
      /\ t.limboFree <= t.token
  BY <1>1, <1>3, <1>4, <1>5 DEF SyncInv, Tokens, ReadInv, Types, ClientTypes
<1>7. /\ view'.on = view.on /\ view' \in View
      /\ ~view.on => remote' = r /\ view' = view
      /\ view.on => /\ remote' = LimboUpdated(r, view.limbo, view'.limbo)
                    /\ view'.synced = (view.synced \cup tc.added) \ tc.removed
  BY <1>6, EmitIs
<1>8. /\ target'.token = target.token /\ target'.limboFree <= target'.token
      /\ view'.current = view.current
  BY <1>3, <1>5, <1>6, EmitTokens
<1>9. view'.synced = view.synced
  BY <1>3, <1>7
<1>10. view.on => SameQuery(remote', remote)
  <2> SUFFICES ASSUME view.on PROVE SameQuery(remote', remote)
    OBVIOUS
  <2>1. PICK w \in Seq(Response) : w = wire
    BY ReadFacts DEF SyncInv
  <2>2. PICK srv \in Table(Served) : srv = served
    BY ReadFacts DEF SyncInv
  <2>3. PICK synced : synced = view.synced
    OBVIOUS
  <2>4. Watching(r, w, srv, synced)
    BY <1>4, <2>1, <2>2, <2>3, ReadFacts DEF SyncInv
  <2>5. PICK old \in SUBSET Docs, new \in SUBSET Docs :
            old = view.limbo /\ new = view'.limbo
    BY <1>7, ReadFacts DEF SyncInv, View
  <2>6. remote' = LimboUpdated(r, old, new)
    BY <1>7, <2>5
  <2> QED
    BY <1>4, <2>4, <2>6, LimboUpdatedSame
<1>11. view.on => /\ Query \in DOMAIN remote.listens
                  /\ Query \in DOMAIN remote'.listens
                  /\ remote'.listens[Query] = remote.listens[Query]
  BY <1>10 DEF SyncInv, Tokens, SameQuery
<1>12. Dated'
  BY <1>1, <1>2 DEF SyncInv, Dated
<1>13. Tokens'
  BY <1>1, <1>7, <1>8, <1>11 DEF SyncInv, Tokens
<1>14. KeysKept'
  <2>1. Base' = Base
    BY <1>1, <1>7, <1>11 DEF Base
  <2> QED
    BY <1>1, <1>2, <1>7, <1>9, <2>1 DEF SyncInv, KeysKept
<1>15. open => Following(Now, remote', wire, served, resets)
  <2> SUFFICES ASSUME open PROVE Following(Now, remote', wire, served, resets)
    OBVIOUS
  <2>1. view.on /\ Following(Now, remote, wire, served, resets)
    BY DEF SyncInv, ReadInv, ViewFirst
  <2>2. PICK s \in Remote : s = remote'
    BY DEF ReadInv, Types, ClientTypes
  <2>3. SameQuery(s, r) /\ Query \in DOMAIN r.listens
    BY <1>4, <1>10, <1>11, <2>1, <2>2
  <2>4. PICK h, w, srv, x : h = Now /\ w = wire /\ srv = served /\ x = resets
    OBVIOUS
  <2>5. Following(h, r, w, srv, x)
    BY <1>4, <2>1, <2>4
  <2>6. Following(h, s, w, srv, x)
    BY <2>3, <2>5, SameQueryFollows
  <2> QED
    BY <2>2, <2>4, <2>6
<1>16. (open => Following(Now, remote, wire, served, resets))'
       /\ (~open => resets = {})'
  BY <1>1, <1>2, <1>15 DEF SyncInv
<1> QED
  BY <1>12, <1>13, <1>14, <1>16 DEF SyncInv

LEMMA WriteSync == SyncInv /\ (\E w \in Writes : Write(w)) => SyncInv'
<1> SUFFICES ASSUME SyncInv, NEW w \in Writes, Write(w) PROVE SyncInv'
  OBVIOUS
<1>1. PICK ks \in SUBSET Docs : ks = {Where[w]}
  BY ViewAssumption
<1>2. /\ Emit(ks, NoTargetChange(view), remote, target)
      /\ cache' = cache /\ queue' = Append(queue, w) /\ answers' = answers
      /\ UNCHANGED <<server, wire, keys, saved, last, open, updates, resets,
                     resetting, offline>>
  BY <1>1 DEF Write, server
<1>3. /\ cache' \in [Docs -> Cached] /\ queue' \in Seq(Writes)
      /\ \A k \in Docs : cache'[k].version <= cache'[k].read
      /\ \A i \in 1 .. Len(answers') : answers'[i].version <= answers'[i].read
  BY <1>2, DiskIs, AppendProperties DEF SyncInv, Dated
<1>4. ReadInv'
  BY WriteStep DEF SyncInv
<1> QED
  BY <1>1, <1>2, <1>3, <1>4, EmittedSync

LEMMA WriteAnsweredSync == SyncInv /\ WriteAnswered => SyncInv'
<1> SUFFICES ASSUME SyncInv, WriteAnswered PROVE SyncInv'
  OBVIOUS
<1>1. /\ answers \in Seq(Answer) /\ answers # << >> /\ queue \in Seq(Writes)
      /\ Len(answers) <= Len(queue) /\ cache \in [Docs -> Cached]
  BY HistoryIs, DiskIs DEF SyncInv, WriteAnswered
<1>2. PICK a \in Answer : a = Head(answers) /\ a = answers[1]
  BY <1>1, TailIs
<1>3. Where[a.write] \in Docs
  BY <1>2, ViewAssumption DEF Answer
<1>4. PICK ks \in SUBSET Docs : ks = {Where[a.write]}
  BY <1>3
<1>5. /\ Emit(ks, NoTargetChange(view), remote, target)
      /\ queue' = Tail(queue) /\ answers' = Tail(answers)
      /\ cache' = IF a.refused THEN cache
                  ELSE [cache EXCEPT ![Where[a.write]] = Acknowledged(@, a)]
      /\ UNCHANGED <<server, wire, keys, saved, last, open, updates, resets,
                     resetting, offline>>
  BY <1>2, <1>4 DEF WriteAnswered, server
<1>6. ReadInv'
  BY WriteAnsweredStep DEF SyncInv
<1>7. /\ Len(answers) \in Nat /\ 1 \in 1 .. Len(answers)
      /\ Len(Tail(answers)) = Len(answers) - 1
      /\ \A i \in 1 .. Len(Tail(answers)) : /\ Tail(answers)[i] = answers[i + 1]
                                            /\ i + 1 \in 1 .. Len(answers)
  BY <1>1, TailIs
<1>8. \A i \in 1 .. Len(answers') : answers'[i].version <= answers'[i].read
  BY <1>5, <1>7 DEF SyncInv, Dated
<1>9. a.version <= a.read
  BY <1>2, <1>7 DEF SyncInv, Dated
<1>10. /\ cache' \in [Docs -> Cached]
       /\ \A k \in Docs : cache'[k].version <= cache'[k].read
  <2>1. PICK y : y = Acknowledged(cache[Where[a.write]], a)
    OBVIOUS
  <2>2. cache[Where[a.write]] \in Cached
    BY <1>1, <1>3
  <2>3. y \in Cached
    BY <2>1, <2>2, AcknowledgedIs
  <2>4. y.version <= y.read
    <3>1. PICK c \in Cached : c = cache[Where[a.write]] /\ c.version <= c.read
      BY <1>3, <2>2 DEF SyncInv, Dated
    <3>2. y = Acknowledged(c, a)
      BY <2>1, <3>1
    <3> QED
      BY <1>9, <3>1, <3>2 DEF Acknowledged
  <2>5. cache' = cache \/ cache' = [cache EXCEPT ![Where[a.write]] = y]
    BY <1>5, <2>1
  <2>6. \A k \in Docs : cache[k].version <= cache[k].read
    BY DEF SyncInv, Dated
  <2> QED
    BY <1>1, <1>3, <2>3, <2>4, <2>5, <2>6
<1>11. queue' \in Seq(Writes)
  <2>1. Len(queue) \in Nat /\ queue # << >>
    BY <1>1, <1>7, LenProperties, EmptySeq
  <2> QED
    BY <1>1, <1>5, <2>1, TailIs
<1> QED
  BY <1>4, <1>5, <1>6, <1>8, <1>10, <1>11, EmittedSync
LEMMA ListenSync == SyncInv /\ (\E l \in Listeners : Listen(l)) => SyncInv'
<1> SUFFICES ASSUME SyncInv, NEW l \in Listeners, Listen(l) PROVE SyncInv'
  OBVIOUS
<1>1. /\ history' = history /\ served' = served /\ wire' = wire
      /\ answers' = answers /\ open' = open
      /\ updates' = updates /\ resets' = resets /\ resetting' = resetting
      /\ cache' = cache /\ keys' = keys /\ saved' = saved /\ last' = last
  BY DEF Listen, server, disk
<1>2. /\ ReadInv /\ ReadInv' /\ Clock' = Clock /\ Now' = Now
      /\ view.on \in BOOLEAN
  BY <1>1, ListenStep, ReadFacts DEF SyncInv, Clock, Now, View
<1>3. Dated'
  BY <1>1, <1>2 DEF SyncInv, Dated
<1>4. CASE view.on
  <2>1. view' = view /\ remote' = remote /\ target' = target
    BY <1>4 DEF Listen
  <2>2. Tokens'
    BY <1>1, <2>1 DEF SyncInv, Tokens
  <2>3. KeysKept'
    BY <1>1, <1>2, <2>1 DEF SyncInv, KeysKept, Base
  <2> QED
    BY <1>1, <1>2, <1>3, <2>1, <2>2, <2>3 DEF SyncInv
<1>5. CASE ~view.on
  <2>1. ~open
    BY <1>2, <1>5 DEF ReadInv, ViewFirst
  <2>2. target' = saved /\ remote' = [remote EXCEPT !.listens =
                                          With(@, Query, saved.token)]
    BY <1>5 DEF Listen
  <2>3. view'.on /\ view'.synced = keys /\ view'.current = FALSE
    <3>1. PICK change, d, fresh :
              /\ fresh = [NoView EXCEPT !.synced = keys]
              /\ view' = ApplyChanges(fresh, change, d, NoTargetChange(fresh))
      BY <1>5 DEF Listen
    <3>2. fresh.synced = keys /\ fresh.current = FALSE
      BY <3>1 DEF NoView
    <3>3. PICK tc : tc = NoTargetChange(fresh)
      OBVIOUS
    <3>4. tc.added = {} /\ tc.removed = {} /\ tc.current = FALSE
      BY <3>2, <3>3 DEF NoTargetChange
    <3>5. PICK v : v = ApplyChanges(fresh, change, d, tc)
      OBVIOUS
    <3>6. PICK limbo, docs, mutated, state :
              v = [on |-> TRUE, docs |-> docs, mutated |-> mutated,
                   synced |-> (fresh.synced \cup tc.added) \ tc.removed,
                   current |-> tc.current, limbo |-> limbo, state |-> state]
      BY <3>5 DEF ApplyChanges
    <3>7. v.on /\ v.synced = (fresh.synced \cup tc.added) \ tc.removed
          /\ v.current = tc.current
      BY <3>6
    <3> QED
      BY <3>1, <3>2, <3>3, <3>4, <3>5, <3>7
  <2>4. Query \in DOMAIN remote'.listens /\ remote'.listens[Query] = saved.token
    <3>1. remote \in Remote
      BY <1>2, ReadFacts
    <3>2. PICK a : a = With(remote.listens, Query, saved.token)
      OBVIOUS
    <3>3. Query \in DOMAIN a /\ a[Query] = saved.token
      BY <3>2 DEF With
    <3>4. remote'.listens = a
      BY <2>2, <3>1, <3>2 DEF Remote
    <3> QED
      BY <3>3, <3>4
  <2>5. /\ saved.limboFree <= saved.token /\ saved.token <= last
        /\ saved.token \in Nat
    BY BaseIs DEF SyncInv, Tokens
  <2>6. Tokens'
    BY <1>1, <2>2, <2>3, <2>4, <2>5 DEF Tokens
  <2>7. KeysKept'
    <3>1. Base' = Base
      BY <1>1, <1>5, <2>3, <2>4 DEF Base
    <3> QED
      BY <1>1, <1>2, <2>3, <3>1 DEF SyncInv, KeysKept
  <2> QED
    BY <1>1, <1>2, <1>3, <2>1, <2>6, <2>7 DEF SyncInv
<1> QED
  BY <1>2, <1>4, <1>5

LEMMA NoStepSync == SyncInv /\ UNCHANGED vars => SyncInv'
<1> SUFFICES ASSUME SyncInv, UNCHANGED vars PROVE SyncInv'
  OBVIOUS
<1>1. /\ history' = history /\ served' = served /\ wire' = wire
      /\ answers' = answers /\ open' = open /\ view' = view
      /\ remote' = remote /\ target' = target
      /\ updates' = updates /\ resets' = resets /\ resetting' = resetting
      /\ cache' = cache /\ keys' = keys /\ saved' = saved /\ last' = last
  BY DEF vars, server, disk
<1>2. ReadInv'
  BY ReadStutter DEF SyncInv
<1> QED
  BY <1>1, <1>2 DEF SyncInv, Dated, Tokens, KeysKept, Base, Now, Clock

LEMMA InitSync == Init => SyncInv
<1> SUFFICES ASSUME Init PROVE SyncInv
  OBVIOUS
<1>1. ReadInv
  BY ReadInit
<1>2. /\ wire = << >> /\ answers = << >> /\ open = FALSE /\ updates = NoUpdates
      /\ resets = {} /\ saved = Unknown /\ target = Unknown /\ view = NoView
      /\ last = 0 /\ resetting = "no" /\ cache = [k \in Docs |-> Invalid]
  BY DEF Init
<1>3. Len(<< >>) = 0
  OBVIOUS
<1>4. Clock = 1 /\ \A k \in Docs : Now[k].version = 1
  <2>1. PICK f : history = <<f>> /\ \A k \in Docs : f[k].version = 1
    <3>1. PICK f : f = [k \in Docs |->
                        [version |-> 1,
                         value |-> IF \E e \in Early : Where[e] = k
                                   THEN CHOOSE e \in Early : Where[e] = k
                                   ELSE Absent]]
      OBVIOUS
    <3>2. \A k \in Docs : f[k].version = 1
      BY <3>1
    <3>3. history = <<f>>
      BY <3>1 DEF Init
    <3> QED
      BY <3>2, <3>3
  <2>2. Len(<<f>>) = 1 /\ <<f>>[1] = f
    OBVIOUS
  <2> QED
    BY <2>1, <2>2 DEF Clock, Now
<1>5. Dated
  <2>1. \A k \in Docs : cache[k].version <= cache[k].read
    BY <1>2 DEF Invalid
  <2>2. \A k \in Docs : 1 <= Now[k].version /\ Now[k].version <= Clock
    BY <1>4
  <2> QED
    BY <1>2, <1>3, <2>1, <2>2, InTimeNone DEF Dated
<1>6. Unknown.token = 0 /\ Unknown.limboFree = 0 /\ ~NoView.on /\ ~NoView.current
  BY DEF Unknown, NoView
<1>7. Tokens
  BY <1>2, <1>6 DEF Tokens
<1>8. KeysKept
  <2>1. Base = 0
    BY <1>2, <1>6 DEF Base
  <2>2. \A k \in Docs : ~There(Now, k, 0)
    BY <1>4 DEF There
  <2> QED
    BY <1>2, <1>6, <2>1, <2>2 DEF KeysKept
<1> QED
  BY <1>1, <1>2, <1>5, <1>7, <1>8 DEF SyncInv
-----------------------------------------------------------------------------
(* The aggregator has the state of the query as long as the stream is open *)
(* even when a target is removed: the query is watched again at once, and  *)
(* the last acknowledgement for it is that it was added.                   *)
LastAdded(r, w) ==
    Quiet(r) => \A i \in 1 .. Len(w) :
        IsQueryAck(w[i]) /\ (\A j \in i + 1 .. Len(w) : ~IsQueryAck(w[j]))
            => w[i].type = "added"

QueryKept == open => Query \in DOMAIN remote.agg /\ LastAdded(remote, wire)

LEMMA AddedTail ==
    ASSUME NEW w \in Seq(Response), w # << >>, NEW r, NEW q,
           q.requests = r.requests, LastAdded(r, w)
    PROVE  LastAdded(q, Tail(w))
<1>1. /\ Len(Tail(w)) = Len(w) - 1 /\ Len(w) \in Nat
      /\ \A i \in 1 .. Len(Tail(w)) : /\ Tail(w)[i] = w[i + 1]
                                      /\ i + 1 \in 1 .. Len(w)
  BY TailIs
<1> SUFFICES ASSUME Quiet(q), NEW i \in 1 .. Len(Tail(w)), IsQueryAck(Tail(w)[i]),
                    \A j \in i + 1 .. Len(Tail(w)) : ~IsQueryAck(Tail(w)[j])
             PROVE  Tail(w)[i].type = "added"
  BY DEF LastAdded
<1>2. ASSUME NEW j \in (i + 1) + 1 .. Len(w)
      PROVE  ~IsQueryAck(w[j])
  <2>1. /\ j - 1 \in i + 1 .. Len(Tail(w)) /\ j - 1 \in 1 .. Len(Tail(w))
        /\ (j - 1) + 1 = j
    BY <1>1
  <2>2. Tail(w)[j - 1] = w[j]
    BY <1>1, <2>1
  <2> QED
    BY <2>1, <2>2
<1>3. Quiet(r)
  BY DEF Quiet
<1>4. Tail(w)[i] = w[i + 1] /\ i + 1 \in 1 .. Len(w)
  BY <1>1
<1> QED
  BY <1>2, <1>3, <1>4 DEF LastAdded

LEMMA AddedAck ==
    ASSUME NEW w \in Seq(Response), NEW r \in Remote, r.requests # << >>,
           NEW q, q.requests = Tail(r.requests),
           NEW a \in Ack, a.id = Head(r.requests).id,
           Head(r.requests).ask = "watch" => a.type = "added",
           Latest(r), LastAdded(r, w), NEW y, y = Append(w, a)
    PROVE  LastAdded(q, y)
<1>1. a \in Response
  BY DEF Response
<1>2. /\ Len(y) = Len(w) + 1 /\ Len(w) \in Nat
      /\ \A i \in 1 .. Len(w) : y[i] = w[i]
      /\ y[Len(w) + 1] = a
  BY <1>1, AppendIs
<1>3. PICK p \in Seq(Request) : p = r.requests
  BY NumbersAre
<1>4. /\ p # << >> /\ Head(p) = p[1] /\ 1 \in 1 .. Len(p)
      /\ Len(p) \in Nat /\ Len(Tail(p)) = Len(p) - 1
      /\ \A i \in 1 .. Len(Tail(p)) : Tail(p)[i] = p[i + 1]
  BY <1>3, TailIs
<1>5. q.requests = Tail(p)
  BY <1>3
<1> SUFFICES ASSUME Quiet(q), NEW i \in 1 .. Len(y), IsQueryAck(y[i]),
                    \A j \in i + 1 .. Len(y) : ~IsQueryAck(y[j])
             PROVE  y[i].type = "added"
  BY DEF LastAdded
<1>6. \A j \in 2 .. Len(p) : p[j].id # Query
  <2> SUFFICES ASSUME NEW j \in 2 .. Len(p) PROVE p[j].id # Query
    OBVIOUS
  <2>1. j - 1 \in 1 .. Len(Tail(p)) /\ (j - 1) + 1 = j
    BY <1>4
  <2>2. Tail(p)[j - 1].id # Query
    BY <1>5, <2>1 DEF Quiet
  <2> QED
    BY <1>4, <2>1, <2>2
<1>7. CASE a.id = Query
  <2>1. p[1].id = Query
    BY <1>3, <1>4, <1>7
  <2>2. \A j \in 1 + 1 .. Len(r.requests) : r.requests[j].id # Query
    BY <1>3, <1>6
  <2>3. r.requests[1].id = Query /\ 1 \in 1 .. Len(r.requests)
    BY <1>3, <1>4, <2>1
  <2>4. r.requests[1].ask = "watch"
    BY <2>2, <2>3 DEF Latest
  <2>5. a.type = "added"
    BY <1>3, <1>4, <2>4
  <2>6. IsQueryAck(a)
    BY <1>7, <2>5 DEF IsQueryAck
  <2>7. i = Len(w) + 1
    BY <1>2, <2>6
  <2> QED
    BY <1>2, <2>5, <2>7
<1>8. CASE a.id # Query
  <2>1. Quiet(r)
    <3>1. p[1].id # Query
      BY <1>3, <1>4, <1>8
    <3>2. \A j \in 1 .. Len(p) : p[j].id # Query
      BY <1>4, <1>6, <3>1
    <3> QED
      BY <1>3, <3>2 DEF Quiet
  <2>2. ~IsQueryAck(a)
    BY <1>8 DEF IsQueryAck
  <2>3. i \in 1 .. Len(w)
    BY <1>2, <2>2
  <2>4. \A j \in i + 1 .. Len(w) : ~IsQueryAck(w[j])
    BY <1>2, <2>3
  <2> QED
    BY <1>2, <2>1, <2>3, <2>4 DEF LastAdded
<1> QED
  BY <1>7, <1>8

LEMMA AddedLonger ==
    ASSUME NEW w, NEW x, NEW r, LastAdded(r, w),
           Len(w) \in Nat, Len(x) \in Nat, Len(w) <= Len(x),
           \A i \in 1 .. Len(w) : x[i] = w[i],
           \A i \in Len(w) + 1 .. Len(x) : ~IsQueryAck(x[i])
    PROVE  LastAdded(r, x)
<1> SUFFICES ASSUME Quiet(r), NEW i \in 1 .. Len(x), IsQueryAck(x[i]),
                    \A j \in i + 1 .. Len(x) : ~IsQueryAck(x[j])
             PROVE  x[i].type = "added"
  BY DEF LastAdded
<1>1. i \in 1 .. Len(w)
  OBVIOUS
<1>2. \A j \in i + 1 .. Len(w) : ~IsQueryAck(w[j])
  BY <1>1
<1> QED
  BY <1>1, <1>2 DEF LastAdded

LEMMA AddedSame ==
    ASSUME NEW r, NEW s, NEW w, Quiet(s) => Quiet(r), LastAdded(r, w)
    PROVE  LastAdded(s, w)
BY DEF LastAdded

-----------------------------------------------------------------------------
LEMMA TakenKept ==
    ASSUME SyncInv, QueryKept, NEW type, Takes(type),
           remote'.requests = remote.requests,
           Query \in DOMAIN remote.agg => Query \in DOMAIN remote'.agg
    PROVE  QueryKept'
<1>1. wire # << >> /\ wire' = Tail(wire) /\ wire \in Seq(Response) /\ open
  BY SyncFacts DEF Takes
<1>2. LastAdded(remote', Tail(wire))
  BY <1>1, AddedTail DEF QueryKept
<1> QED
  BY <1>1, <1>2 DEF QueryKept

LEMMA StateKept ==
    ASSUME SyncInv, QueryKept, NEW type, Takes(type), NEW id, NEW st,
           SetState(id, st) \/ UNCHANGED remote
    PROVE  QueryKept'
<1>1. remote \in Remote
  BY SyncFacts DEF Takes
<1>2. CASE UNCHANGED remote
  BY <1>2, TakenKept
<1>3. CASE SetState(id, st)
  <2>1. PICK q : q = remote'
    OBVIOUS
  <2>2. PICK a : a = With(remote.agg, id, st)
    OBVIOUS
  <2>3. q = [remote EXCEPT !.agg = a]
    BY <1>3, <2>1, <2>2 DEF SetState
  <2>4. q.requests = remote.requests /\ q.agg = a
    BY <1>1, <2>3 DEF Remote
  <2>5. DOMAIN a = DOMAIN remote.agg \cup {id}
    BY <2>2 DEF With
  <2> QED
    BY <2>1, <2>4, <2>5, TakenKept
<1> QED
  BY <1>2, <1>3

LEMMA StreamKept ==
    SyncInv /\ QueryKept /\ OnWatchStreamChange /\ ~OnSnapshot => QueryKept'
<1> SUFFICES ASSUME SyncInv, QueryKept, OnWatchStreamChange, ~OnSnapshot
             PROVE  QueryKept'
  OBVIOUS
<1>1. CASE OnTargetAdded
  <2>1. PICK id, st : Takes("added") /\ SetState(id, st)
    BY <1>1 DEF OnTargetAdded
  <2> QED
    BY <2>1, StateKept
<1>2. CASE OnTargetRemoved
  <2>1. Takes("removed") /\ wire # << >> /\ Head(wire).type = "removed"
        /\ wire' = Tail(wire) /\ open' = open
    BY <1>2 DEF OnTargetRemoved, Takes
  <2>2. PICK id, s : /\ id = Head(wire).id
                     /\ s = [StateOf(remote, id) EXCEPT !.pending = @ - 1]
    OBVIOUS
  <2>3. CASE s.pending # 0
    <3>1. SetState(id, s)
      BY <1>2, <2>2, <2>3 DEF OnTargetRemoved
    <3> QED
      BY <2>1, <3>1, StateKept
  <2>4. CASE s.pending = 0
    <3>1. remote' = StateOut(remote, id)
      BY <1>2, <2>2, <2>4 DEF OnTargetRemoved, StateOut
    <3>2. /\ remote'.requests = remote.requests
          /\ StateOf(remote', id) = Fresh
      BY <2>1, <3>1, SyncFacts, StateUnset
    <3>3. id # Query
      <4> SUFFICES ASSUME id = Query PROVE FALSE
        OBVIOUS
      <4>1. ReadInv'
        BY <1>2, TargetRemovedStep DEF SyncInv
      <4>2. /\ remote' \in Remote /\ Tail(wire) \in Seq(Response)
            /\ Pending(remote', Tail(wire))
        BY <2>1, <4>1, ReadFacts DEF Watching, ReadInv, Types, ClientTypes,
                                     ServerTypes
      <4>3. StateOf(remote', Query).pending = 0
        BY <3>2 DEF Fresh
      <4>4. /\ Quiet(remote')
            /\ \A j \in 1 .. Len(Tail(wire)) : ~IsQueryAck(Tail(wire)[j])
        BY <4>2, <4>3, QueryActiveIs
      <4>5. Quiet(remote)
        BY <3>2, <4>4 DEF Quiet
      <4>6. /\ wire[1] = Head(wire) /\ wire \in Seq(Response) /\ open
        BY <2>1, SyncFacts
      <4>7. IsQueryAck(wire[1])
        BY <2>1, <2>2, <4>6 DEF IsQueryAck
      <4>8. 1 \in 1 .. Len(wire) /\ \A j \in 2 .. Len(wire) : ~IsQueryAck(wire[j])
        <5>1. /\ Len(Tail(wire)) = Len(wire) - 1 /\ Len(wire) \in Nat
              /\ 1 \in 1 .. Len(wire)
              /\ \A i \in 1 .. Len(Tail(wire)) : Tail(wire)[i] = wire[i + 1]
          BY <2>1, <4>6, TailIs
        <5>2. ASSUME NEW j \in 2 .. Len(wire) PROVE ~IsQueryAck(wire[j])
          <6>1. j - 1 \in 1 .. Len(Tail(wire)) /\ (j - 1) + 1 = j
            BY <5>1
          <6> QED
            BY <4>4, <5>1, <6>1
        <5> QED
          BY <5>1, <5>2
      <4>9. wire[1].type = "added"
        <5>1. \A j \in 1 + 1 .. Len(wire) : ~IsQueryAck(wire[j])
          BY <4>8
        <5> QED
          BY <4>5, <4>6, <4>7, <4>8, <5>1 DEF QueryKept, LastAdded
      <4> QED
        BY <2>1, <4>6, <4>9
    <3>4. Query \in DOMAIN remote.agg => Query \in DOMAIN remote'.agg
      <4>1. remote \in Remote
        BY <2>1, SyncFacts
      <4>2. PICK a : a = Without(remote.agg, id)
        OBVIOUS
      <4>3. remote'.agg = a
        BY <3>1, <4>1, <4>2 DEF StateOut, Remote
      <4>4. DOMAIN a = DOMAIN remote.agg \ {id}
        BY <4>2 DEF Without
      <4> QED
        BY <3>3, <4>3, <4>4
    <3> QED
      BY <2>1, <3>2, <3>4, TakenKept
  <2> QED
    BY <2>3, <2>4
<1>3. CASE OnTargetCurrent
  <2>1. Takes("current")
        /\ \E id, st : SetState(id, st) \/ UNCHANGED remote
    BY <1>3, Zenon DEF OnTargetCurrent
  <2> QED
    BY <2>1, StateKept
<1>4. CASE OnDocument
  <2>1. Takes("document")
        /\ \E id, st : SetState(id, st) \/ UNCHANGED remote
    BY <1>4, Zenon DEF OnDocument
  <2> QED
    BY <2>1, StateKept
<1>5. CASE OnDelete
  <2>1. Takes("delete")
        /\ \E id, st : SetState(id, st) \/ UNCHANGED remote
    BY <1>5, Zenon DEF OnDelete
  <2> QED
    BY <2>1, StateKept
<1>6. CASE OnExistenceFilter
  <2>1. Takes("filter")
        /\ \E id, st : SetState(id, st) \/ UNCHANGED remote
    BY <1>6 DEF OnExistenceFilter
  <2> QED
    BY <2>1, StateKept
<1> QED
  BY <1>1, <1>2, <1>3, <1>4, <1>5, <1>6 DEF OnWatchStreamChange

LEMMA EmittedKept ==
    ASSUME SyncInv, QueryKept, ReadInv', NEW ks \in SUBSET Docs,
           Emit(ks, NoTargetChange(view), remote, target),
           cache' \in [Docs -> Cached], queue' \in Seq(Writes),
           offline' = offline, open' = open, wire' = wire
    PROVE  QueryKept'
<1>1. PICK r \in Remote : r = remote
  BY ReadFacts DEF SyncInv
<1>2. PICK t \in TargetData : t = target
  BY DEF SyncInv, ReadInv, Types, ClientTypes
<1>3. PICK tc \in TargetChange : tc = NoTargetChange(view)
  BY ReadFacts, NoTargetChangeIs DEF SyncInv
<1>4. Types /\ offline' \in BOOLEAN /\ Emit(ks, tc, r, t)
  BY <1>1, <1>2, <1>3 DEF SyncInv, ReadInv, Types, ClientTypes
<1>5. /\ view' \in View
      /\ ~view.on => remote' = r
      /\ view.on => remote' = LimboUpdated(r, view.limbo, view'.limbo)
  BY <1>4, EmitIs
<1>6. PICK w \in Seq(Response) : w = wire
  BY ReadFacts DEF SyncInv
<1>7. PICK srv \in Table(Served) : srv = served
  BY ReadFacts DEF SyncInv
<1>8. PICK synced : synced = view.synced
  OBVIOUS
<1>9. Watching(r, w, srv, synced)
  BY <1>1, <1>6, <1>7, <1>8, ReadFacts DEF SyncInv
<1>10. PICK s \in Remote : s = remote'
  BY DEF ReadInv, Types, ClientTypes
<1>11. CASE view.on
  <2>1. PICK old \in SUBSET Docs, new \in SUBSET Docs :
            old = view.limbo /\ new = view'.limbo
    BY <1>5, ReadFacts DEF SyncInv, View
  <2>2. s = LimboUpdated(r, old, new)
    BY <1>5, <1>10, <1>11, <2>1
  <2>3. SameQuery(s, r)
    BY <1>9, <2>2, LimboUpdatedSame
  <2>4. Quiet(s) <=> Quiet(r)
    BY <2>3, SameQueryQuiet
  <2>5. LastAdded(r, w) => LastAdded(s, w)
    BY <2>4, AddedSame
  <2> QED
    BY <1>1, <1>6, <1>10, <2>3, <2>5 DEF QueryKept, SameQuery
<1>12. CASE ~view.on
  BY <1>1, <1>5, <1>12 DEF QueryKept
<1> QED
  BY <1>11, <1>12

LEMMA BeforeKept ==
    ASSUME SyncInv, QueryKept, Next, ~OnWatchStreamChange
    PROVE  QueryKept'
<1>1. CASE \E f \in Foreign : ForeignSet(f)
  BY <1>1 DEF ForeignSet, QueryKept
<1>2. CASE \E k \in Docs : Delete(k)
  BY <1>2 DEF Delete, QueryKept
<1>3. CASE Commit
  BY <1>3 DEF Commit, QueryKept
<1>4. CASE ServerTakes
  <2>1. /\ remote \in Remote /\ wire \in Seq(Response)
        /\ remote.requests # << >>
    BY <1>4, ReadFacts DEF SyncInv, ServerTakes
  <2>2. PICK m : m = Head(remote.requests)
    OBVIOUS
  <2>3. m \in Request
    BY <2>1, <2>2, NumbersAre, TailIs
  <2>4. PICK a : /\ wire' = Append(wire, a)
                 /\ \/ m.ask = "watch" /\ a = [type |-> "added", id |-> m.id]
                    \/ m.ask = "unwatch" /\ a = [type |-> "removed", id |-> m.id]
    BY <1>4, <2>2, Zenon DEF ServerTakes
  <2>5. a \in Ack /\ a.id = m.id /\ (m.ask = "watch" => a.type = "added")
    BY <2>3, <2>4 DEF Ack, Request
  <2>6. remote'.requests = Tail(remote.requests) /\ remote'.agg = remote.agg
        /\ open' = open
    BY <1>4, <2>1 DEF ServerTakes, Remote
  <2>7. open => Latest(remote)
    BY DEF SyncInv, Following
  <2>8. open => LastAdded(remote', wire')
    BY <2>1, <2>2, <2>4, <2>5, <2>6, <2>7, AddedAck DEF QueryKept
  <2> QED
    BY <2>6, <2>8 DEF QueryKept
<1>5. CASE \E forgets \in BOOLEAN : Sends(forgets)
  <2>1. PICK forgets \in BOOLEAN : Sends(forgets)
    BY <1>5
  <2>2. Batch(Now, Clock, wire, wire', served)
    BY <2>1, BatchSent
  <2>3. /\ Len(wire) \in Nat /\ Len(wire') \in Nat /\ Len(wire) <= Len(wire')
        /\ \A i \in 1 .. Len(wire) : wire'[i] = wire[i]
        /\ \A i \in Len(wire) + 1 .. Len(wire') : ~IsQueryAck(wire'[i])
    BY <2>2 DEF Batch, IsQueryAck
  <2>4. remote' = remote /\ open' = open
    BY <2>1 DEF Sends
  <2>5. open => LastAdded(remote, wire')
    BY <2>3, AddedLonger DEF QueryKept
  <2> QED
    BY <2>4, <2>5 DEF QueryKept
<1>6. CASE \E l \in Listeners : Listen(l)
  <2>1. PICK l \in Listeners : Listen(l)
    BY <1>6
  <2>2. open' = open /\ wire' = wire
    BY <2>1 DEF Listen
  <2>3. view.on => remote' = remote
    BY <2>1 DEF Listen
  <2>4. open => view.on
    BY DEF SyncInv, ReadInv, ViewFirst
  <2> QED
    BY <2>2, <2>3, <2>4 DEF QueryKept
<1>7. CASE \E w \in Writes : Write(w)
  <2>1. PICK w \in Writes : Write(w)
    BY <1>7
  <2>2. PICK ks \in SUBSET Docs : ks = {Where[w]}
    BY ViewAssumption
  <2>3. /\ Emit(ks, NoTargetChange(view), remote, target)
        /\ cache' = cache /\ queue' = Append(queue, w)
        /\ offline' = offline /\ open' = open /\ wire' = wire
    BY <2>1, <2>2 DEF Write, server
  <2>4. cache' \in [Docs -> Cached] /\ queue' \in Seq(Writes)
    BY <2>3, DiskIs, AppendProperties DEF SyncInv
  <2>5. ReadInv'
    BY <2>1, WriteStep DEF SyncInv
  <2> QED
    BY <2>3, <2>4, <2>5, EmittedKept
<1>8. CASE WriteAnswered
  <2>1. ReadInv'
    BY <1>8, WriteAnsweredStep DEF SyncInv
  <2>2. PICK ks : /\ ks = {Where[Head(answers).write]}
                  /\ Emit(ks, NoTargetChange(view), remote, target)
                  /\ offline' = offline /\ open' = open /\ wire' = wire
                  /\ answers # << >>
    BY <1>8 DEF WriteAnswered, server
  <2>3. ks \in SUBSET Docs
    <3>1. Head(answers) \in Answer
      BY <2>2, HistoryIs, TailIs DEF SyncInv
    <3> QED
      BY <2>2, <3>1, ViewAssumption DEF Answer
  <2>4. cache' \in [Docs -> Cached] /\ queue' \in Seq(Writes)
    BY <2>1 DEF ReadInv, Types, DiskTypes
  <2> QED
    BY <2>1, <2>2, <2>3, <2>4, EmittedKept
<1>9. CASE AnswersLost
  BY <1>9 DEF AnswersLost, QueryKept
<1>10. CASE OnWatchStreamOpen
  <2>1. PICK ids \in SetToSeqs(DOMAIN remote.listens) :
              remote' = AskedFor(remote, ids)
    BY <1>10, Zenon DEF OnWatchStreamOpen, AskedFor
  <2>2. /\ remote \in Remote /\ ReadInv /\ wire' = wire /\ ~open
        /\ Watching(remote, wire, served, view.synced)
    BY <1>10, ReadFacts DEF SyncInv, OnWatchStreamOpen
  <2>3. wire' = << >> /\ view.on
    BY <1>10, <2>2 DEF Watching, Closed, OnWatchStreamOpen, ReadInv, ViewFirst
  <2>4. Query \in DOMAIN remote.listens
    BY <2>3 DEF SyncInv, Tokens
  <2>5. PICK a, q :
            /\ a = [id \in DOMAIN remote.listens |-> [Fresh EXCEPT !.pending = 1]]
            /\ remote' = [remote EXCEPT !.agg = a, !.requests = q]
    BY <2>1 DEF AskedFor
  <2>6. remote'.agg = a /\ Query \in DOMAIN a
    BY <2>2, <2>4, <2>5 DEF Remote
  <2>7. LastAdded(remote', << >>)
    <3>1. Len(<< >>) = 0
      OBVIOUS
    <3> QED
      BY <3>1 DEF LastAdded
  <2> QED
    BY <2>3, <2>6, <2>7 DEF QueryKept
<1>11. CASE OnWatchStreamClose
  BY <1>11 DEF OnWatchStreamClose, QueryKept
<1>12. CASE GoOffline
  BY <1>12 DEF GoOffline, QueryKept
<1>13. CASE Crash
  BY <1>13 DEF Crash, QueryKept
<1> QED
  BY <1>1, <1>2, <1>3, <1>4, <1>5, <1>6, <1>7, <1>8, <1>9, <1>10, <1>11, <1>12,
     <1>13 DEF Next
-----------------------------------------------------------------------------
(* A global snapshot: what becomes of the targets.                         *)

(* The targets with the changes of the active ones taken.                  *)
Renewed(n) ==
    [remote EXCEPT
        !.agg = [id \in DOMAIN @ |->
                    IF id \in Active
                    THEN [@[id] EXCEPT !.changes = Untouched]
                    ELSE @[id]],
        !.listens = [id \in DOMAIN @ |-> IF id \in Active THEN n ELSE @[id]],
        !.limbo = [id \in DOMAIN @ |->
                    [@[id] EXCEPT !.received =
                        \/ KeysWith(id, "added") # {}
                        \/ remote.limbo[id].received
                               /\ KeysWith(id, "removed") = {}]]]

LEMMA TargetsAfterIs ==
    ASSUME NEW n
    PROVE  TargetsAfter(n) = IF resets = {} THEN Renewed(n)
                             ELSE Rewatched(Renewed(n))
BY DEF TargetsAfter, Renewed

LEMMA RenewedIs ==
    ASSUME ReadInv, NEW n \in Nat, NEW s, s = Renewed(n)
    PROVE  /\ s \in Remote /\ s.requests = remote.requests
           /\ DOMAIN s.listens = DOMAIN remote.listens
           /\ \A id \in DOMAIN remote.listens :
                  s.listens[id] = IF id \in Active THEN n ELSE remote.listens[id]
           /\ DOMAIN s.agg = DOMAIN remote.agg
           /\ \A id : StateOf(s, id).pending = StateOf(remote, id).pending
           /\ \A id \in Active : StateOf(s, id).changes = Untouched
<1>1. PICK r \in Remote : r = remote
  BY ReadFacts
<1>2. /\ DOMAIN r.agg \in SUBSET Nat /\ DOMAIN r.listens \in SUBSET Nat
      /\ DOMAIN r.limbo \in SUBSET Nat
      /\ \A id \in DOMAIN r.agg : r.agg[id] \in TargetState
      /\ \A id \in DOMAIN r.listens : r.listens[id] \in Nat
      /\ \A id \in DOMAIN r.limbo : r.limbo[id] \in Lookup
  BY NumbersAre, TableIs
<1>3. PICK a : a = [id \in DOMAIN r.agg |->
                        IF id \in Active
                        THEN [r.agg[id] EXCEPT !.changes = Untouched]
                        ELSE r.agg[id]]
  OBVIOUS
<1>4. /\ a \in Table(TargetState) /\ DOMAIN a = DOMAIN r.agg
      /\ \A id \in DOMAIN r.agg :
             /\ a[id].pending = r.agg[id].pending
             /\ id \in Active => a[id].changes = Untouched
  <2>1. Untouched \in [Docs -> Change]
    BY DEF Untouched, Change
  <2>2. \A id \in DOMAIN r.agg :
            /\ a[id] \in TargetState
            /\ a[id].pending = r.agg[id].pending
            /\ id \in Active => a[id].changes = Untouched
    BY <1>2, <1>3, <2>1 DEF TargetState
  <2>3. a \in [DOMAIN r.agg -> TargetState]
    BY <1>3, <2>2
  <2> QED
    BY <1>2, <1>3, <2>2, <2>3, IsTable
<1>5. PICK b : b = [id \in DOMAIN r.listens |-> IF id \in Active THEN n
                                                ELSE r.listens[id]]
  OBVIOUS
<1>6. /\ b \in Table(Nat) /\ DOMAIN b = DOMAIN r.listens
      /\ \A id \in DOMAIN r.listens :
             b[id] = IF id \in Active THEN n ELSE r.listens[id]
  <2>1. b \in [DOMAIN r.listens -> Nat]
    BY <1>2, <1>5
  <2> QED
    BY <1>2, <1>5, <2>1, IsTable
<1>7. PICK c : c = [id \in DOMAIN r.limbo |->
                [r.limbo[id] EXCEPT !.received =
                    \/ KeysWith(id, "added") # {}
                    \/ r.limbo[id].received /\ KeysWith(id, "removed") = {}]]
  OBVIOUS
<1>8. c \in Table(Lookup)
  <2>1. ASSUME NEW id \in DOMAIN r.limbo
        PROVE  c[id] \in Lookup
    <3>1. PICK y \in BOOLEAN :
              y = (\/ KeysWith(id, "added") # {}
                   \/ r.limbo[id].received /\ KeysWith(id, "removed") = {})
      OBVIOUS
    <3>2. c[id] = [r.limbo[id] EXCEPT !.received = y]
      BY <1>7, <3>1
    <3> QED
      BY <1>2, <3>1, <3>2 DEF Lookup
  <2>2. c \in [DOMAIN r.limbo -> Lookup]
    BY <1>7, <2>1
  <2> QED
    BY <1>2, <2>2, IsTable
<1>9. s = [r EXCEPT !.agg = a, !.listens = b, !.limbo = c]
  BY <1>1, <1>3, <1>5, <1>7 DEF Renewed
<1>10. /\ s \in Remote /\ s.agg = a /\ s.listens = b
       /\ s.requests = r.requests
  BY <1>4, <1>6, <1>8, <1>9 DEF Remote
<1>11. \A id : StateOf(s, id).pending = StateOf(r, id).pending
  BY <1>4, <1>10 DEF StateOf
<1>12. \A id \in Active : StateOf(s, id).changes = Untouched
  <2>1. Active \subseteq DOMAIN r.agg
    BY <1>1 DEF Active
  <2> QED
    BY <1>4, <1>10, <2>1 DEF StateOf
<1> QED
  BY <1>1, <1>4, <1>6, <1>10, <1>11, <1>12

LEMMA SendCounts ==
    ASSUME NEW r \in Remote, NEW m \in Request, open, NEW s, s = Send(r, m),
           NEW id
    PROVE  StateOf(s, id).pending =
               StateOf(r, id).pending + (IF id = m.id THEN 1 ELSE 0)
BY SendIs

LEMMA RewatchedIs ==
    ASSUME NEW r \in Remote, open, NEW q, q = Rewatched(r),
           Query \in DOMAIN r.listens
    PROVE  /\ q \in Remote
           /\ \E m, n \in Request :
                  /\ m.id = Query
                  /\ n.id = Query /\ n.ask = "watch" /\ n.covers = Docs
                  /\ n.token = 0
                  /\ q.requests = Append(Append(r.requests, m), n)
           /\ Query \in DOMAIN q.listens /\ q.listens[Query] = 0
           /\ Query \in DOMAIN q.agg
           /\ StateOf(q, Query).pending = StateOf(r, Query).pending + 1 + 1
<1>1. PICK a : a = [r.listens EXCEPT ![Query] = 0]
  OBVIOUS
<1>2. PICK s : s = [r EXCEPT !.listens = a]
  OBVIOUS
<1>3. a \in Table(Nat) /\ Query \in DOMAIN a /\ a[Query] = 0
  <2>1. DOMAIN r.listens \in SUBSET Nat /\ \A id \in DOMAIN r.listens : r.listens[id] \in Nat
    BY NumbersAre, TableIs
  <2>2. a \in [DOMAIN r.listens -> Nat]
    BY <1>1, <2>1
  <2> QED
    BY <1>1, <2>1, <2>2, IsTable
<1>4. /\ s \in Remote /\ s.listens = a
      /\ s.agg = r.agg /\ s.requests = r.requests
  BY <1>2, <1>3 DEF Remote
<1>5. PICK m, n : m = Unwatch(Query) /\ n = Watch(Query, Docs, 0)
  OBVIOUS
<1>6. /\ m \in Request /\ m.id = Query /\ n \in Request /\ n.id = Query
      /\ n.ask = "watch" /\ n.covers = Docs /\ n.token = 0
  BY <1>5 DEF Unwatch, Watch, Request, Query
<1>7. PICK t : t = Send(s, m)
  OBVIOUS
<1>8. /\ t \in Remote /\ t.listens = a
      /\ t.requests = Append(r.requests, m)
      /\ StateOf(t, Query).pending = StateOf(s, Query).pending + 1
  <2>1. /\ t \in Remote /\ t.listens = s.listens
        /\ t.requests = Append(s.requests, m)
    BY <1>4, <1>6, <1>7, SendIs
  <2>3. StateOf(t, Query).pending =
            StateOf(s, Query).pending + (IF Query = m.id THEN 1 ELSE 0)
    BY <1>4, <1>6, <1>7, SendCounts
  <2> QED
    BY <1>4, <1>6, <2>1, <2>3
<1>9. PICK u : u = Send(t, n)
  OBVIOUS
<1>10. /\ u \in Remote /\ u.listens = a
       /\ u.requests = Append(t.requests, n)
       /\ Query \in DOMAIN u.agg
       /\ StateOf(u, Query).pending = StateOf(t, Query).pending + 1
  <2>1. /\ u \in Remote /\ u.listens = t.listens
        /\ u.requests = Append(t.requests, n)
        /\ DOMAIN u.agg = DOMAIN t.agg \cup {n.id}
    BY <1>6, <1>8, <1>9, SendIs
  <2>3. StateOf(u, Query).pending =
            StateOf(t, Query).pending + (IF Query = n.id THEN 1 ELSE 0)
    BY <1>6, <1>8, <1>9, SendCounts
  <2> QED
    BY <1>6, <1>8, <2>1, <2>3
<1>11. q = u
  BY <1>1, <1>2, <1>5, <1>7, <1>9 DEF Rewatched
<1>12. StateOf(s, Query).pending = StateOf(r, Query).pending
  BY <1>4 DEF StateOf
<1> QED
  BY <1>3, <1>6, <1>8, <1>10, <1>11, <1>12

(* A query that is watched again has nothing to follow yet.                *)
LEMMA RewatchedFollows ==
    ASSUME NEW r \in Remote, NEW q, ~QueryActive(q),
           NEW m \in Request, NEW n \in Request,
           n.id = Query, n.ask = "watch", n.covers = Docs,
           n.token = q.listens[Query],
           q.requests = Append(Append(r.requests, m), n),
           NEW h, NEW w, NEW srv, DeletedGone(h, w), Batches(w)
    PROVE  Following(h, q, w, srv, {}) /\ ~Quiet(q)
<1>1. PICK p \in Seq(Request) : p = Append(r.requests, m)
  BY NumbersAre, AppendIs
<1>2. /\ Len(q.requests) = Len(p) + 1 /\ Len(p) \in Nat
      /\ \A i \in 1 .. Len(p) : q.requests[i] = p[i]
      /\ q.requests[Len(p) + 1] = n
  BY <1>1, AppendIs
<1>3. ~Quiet(q)
  <2>1. Len(p) + 1 \in 1 .. Len(q.requests)
    BY <1>2
  <2> QED
    BY <1>2, <2>1 DEF Quiet
<1>4. Latest(q)
  <2> SUFFICES ASSUME NEW i \in 1 .. Len(q.requests),
                      \A j \in i + 1 .. Len(q.requests) : q.requests[j].id # Query
               PROVE  i = Len(p) + 1
    BY <1>2 DEF Latest
  <2>1. CASE i \in 1 .. Len(p)
    <3>1. Len(p) + 1 \in i + 1 .. Len(q.requests)
      BY <1>2, <2>1
    <3> QED
      BY <1>2, <3>1
  <2> QED
    BY <1>2, <2>1
<1>5. \A i : ~Speaks(q, w, i)
  BY <1>3 DEF Speaks
<1>6. Standing(q, w, srv)
  BY <1>3 DEF Standing
<1>7. ToldBetween(h, q, w) /\ ToldFirst(h, q, w, {})
  BY <1>5 DEF ToldBetween, ToldFirst, SpeaksFirst
<1>8. RemovedGone(h, q, w, {}) /\ Expected(q, w, {}) /\ Awaited(q, w, {})
  BY DEF RemovedGone, Expected, Awaited
<1> QED
  BY <1>3, <1>4, <1>6, <1>7, <1>8 DEF Following

LEMMA ActiveIs ==
    ASSUME SyncInv, QueryKept, wire # << >>
    PROVE  Query \in Active <=> QueryActive(remote)
<1>1. Query \in DOMAIN remote.agg
  BY SyncFacts DEF QueryKept
<1> QED
  BY <1>1, QueryIsActive DEF Active

(* The token the query has after the snapshot of version n.                *)
NextToken(n) ==
    IF resets # {} THEN 0
    ELSE IF QueryActive(remote) THEN n ELSE remote.listens[Query]

LEMMA AfterFollows ==
    ASSUME SyncInv, QueryKept, wire # << >>, IsSnapshot(wire[1]),
           NEW n \in Nat, n = wire[1].version, NEW q, q = TargetsAfter(n)
    PROVE  /\ q \in Remote /\ Following(Now, q, Tail(wire), served, {})
           /\ Query \in DOMAIN q.listens /\ q.listens[Query] = NextToken(n)
           /\ Query \in DOMAIN q.agg /\ LastAdded(q, Tail(wire))
<1>1. ReadInv
  BY DEF SyncInv
<1>2. /\ remote \in Remote /\ wire \in Seq(Response) /\ open
      /\ Query \in DOMAIN remote.listens /\ Pending(remote, wire)
      /\ Following(Now, remote, wire, served, resets)
      /\ QueryActive(remote) <=>
             Quiet(remote) /\ \A j \in 1 .. Len(wire) : ~IsQueryAck(wire[j])
      /\ 1 \in 1 .. Len(wire)
  BY SyncFacts, TailIs
<1>3. Query \in DOMAIN remote.agg /\ LastAdded(remote, wire)
  BY <1>2 DEF QueryKept
<1>4. PICK s : s = Renewed(n)
  OBVIOUS
<1>5. /\ s \in Remote /\ s.requests = remote.requests
      /\ DOMAIN s.listens = DOMAIN remote.listens
      /\ s.listens[Query] = IF QueryActive(remote) THEN n
                            ELSE remote.listens[Query]
      /\ DOMAIN s.agg = DOMAIN remote.agg
      /\ StateOf(s, Query).pending = StateOf(remote, Query).pending
      /\ QueryActive(remote) => StateOf(s, Query).changes = Untouched
  BY <1>1, <1>2, <1>4, ActiveIs, RenewedIs
<1>6. CASE resets = {}
  <2>1. q = s
    BY <1>4, <1>6, TargetsAfterIs
  <2>2. Speaks(remote, wire, 1) <=> QueryActive(remote)
    BY <1>2 DEF Speaks
  <2>3. s.listens[Query] = TokenAfter(remote, wire)
    BY <1>5, <2>2 DEF TokenAfter
  <2>4. QueryActive(s) <=> QueryActive(remote)
    BY <1>5 DEF QueryActive
  <2>5. QueryActive(s) => ChangesIn(s) = Untouched
    BY <1>5, <2>4 DEF ChangesIn
  <2>6. \A h : /\ KeepsTold(h, remote, wire, s, {})
               /\ KeepsGone(h, remote, wire, s, {})
               /\ KeepsExpected(remote, wire, {}, s, {})
               /\ KeepsAwaited(wire, {}, s, {})
    BY <2>5 DEF KeepsTold, KeepsGone, KeepsExpected, KeepsAwaited, Untouched
  <2>7. Following(Now, s, Tail(wire), served, {})
    <3>1. PICK h, srv : h = Now /\ srv = served
      OBVIOUS
    <3>2. Following(h, remote, wire, srv, {})
      BY <1>2, <1>6, <3>1
    <3>3. Following(h, s, Tail(wire), srv, {})
      BY <1>2, <1>5, <2>3, <2>6, <3>2, FollowingTail
    <3> QED
      BY <3>1, <3>3
  <2>8. LastAdded(s, Tail(wire))
    BY <1>2, <1>3, <1>5, AddedTail
  <2> QED
    BY <1>2, <1>3, <1>5, <1>6, <2>1, <2>7, <2>8 DEF NextToken
<1>7. CASE resets # {}
  <2>1. q = Rewatched(s)
    BY <1>4, <1>7, TargetsAfterIs
  <2>2. QueryActive(remote)
    BY <1>2, <1>7 DEF Following, Awaited
  <2>3. StateOf(s, Query).pending = 0
    BY <1>5, <2>2 DEF QueryActive
  <2>4. /\ q \in Remote
        /\ Query \in DOMAIN q.listens /\ q.listens[Query] = 0
        /\ Query \in DOMAIN q.agg
        /\ StateOf(q, Query).pending = StateOf(s, Query).pending + 1 + 1
    BY <1>2, <1>5, <2>1, RewatchedIs
  <2>5. PICK m, k \in Request :
            /\ m.id = Query
            /\ k.id = Query /\ k.ask = "watch" /\ k.covers = Docs
            /\ k.token = 0
            /\ q.requests = Append(Append(s.requests, m), k)
    BY <1>2, <1>5, <2>1, RewatchedIs
  <2>6. ~QueryActive(q)
    BY <2>3, <2>4 DEF QueryActive
  <2>7. \A h : DeletedGone(h, wire) => DeletedGone(h, Tail(wire))
    BY <1>2, DeletedGoneTail
  <2>8. Batches(Tail(wire))
    BY <1>2, BatchesTail DEF Following
  <2>9. Following(Now, q, Tail(wire), served, {}) /\ ~Quiet(q)
    <3>1. PICK h, srv, w : h = Now /\ srv = served /\ w = Tail(wire)
      OBVIOUS
    <3>2. DeletedGone(h, w) /\ Batches(w)
      BY <1>2, <2>7, <2>8, <3>1 DEF Following
    <3>3. Following(h, q, w, srv, {}) /\ ~Quiet(q)
      BY <1>5, <2>4, <2>5, <2>6, <3>2, RewatchedFollows
    <3> QED
      BY <3>1, <3>3
  <2>10. LastAdded(q, Tail(wire))
    BY <2>9 DEF LastAdded
  <2> QED
    BY <1>7, <2>4, <2>9, <2>10 DEF NextToken
<1> QED
  BY <1>6, <1>7
-----------------------------------------------------------------------------
(* What becomes of the matching keys, the cache and the tokens.            *)

LEMMA SnapshotKeys ==
    ASSUME SyncInv, QueryKept, wire # << >>, IsSnapshot(wire[1]), resets = {},
           QueryActive(remote), resetting # "torn",
           NEW k \in Docs, There(Now, k, wire[1].version)
    PROVE  k \in (keys \ KeysWith(Query, "removed")) \cup KeysWith(Query, "added")
<1>1. /\ wire \in Seq(Response) /\ 1 \in 1 .. Len(wire) /\ Len(wire) \in Nat
      /\ view.on /\ Paired(remote) /\ Query \in Active /\ ReadInv
      /\ Following(Now, remote, wire, served, resets)
      /\ Quiet(remote) /\ \A j \in 1 .. Len(wire) : ~IsQueryAck(wire[j])
  BY SyncFacts, ActiveIs, TailIs DEF SyncInv
<1>2. \A c : k \in KeysWith(Query, c) <=> ChangesIn(remote)[k] = c
  BY <1>1 DEF KeysWith, ChangesIn
<1>3. ChangesIn(remote)[k] # "removed"
  <2>1. Before(wire, 1, 1)
    BY DEF Before
  <2>2. RemovedGone(Now, remote, wire, resets)
    BY <1>1 DEF Following
  <2> QED
    BY <1>1, <2>1, <2>2 DEF RemovedGone
<1>4. CASE There(Now, k, remote.listens[Query])
  <2>1. k \in keys
    BY <1>1, <1>4 DEF SyncInv, KeysKept, Base
  <2> QED
    BY <1>2, <1>3, <2>1
<1>5. CASE ~There(Now, k, remote.listens[Query])
  <2>1. SpeaksFirst(remote, wire, 1)
    BY <1>1 DEF SpeaksFirst, Speaks
  <2>2. ToldFirst(Now, remote, wire, resets)
    BY <1>1 DEF Following
  <2>3. \/ ChangesIn(remote)[k] \in {"added", "modified"}
        \/ \E m \in 1 .. 1 : TellsOf(wire[m], k)
    BY <1>1, <1>5, <2>1, <2>2 DEF ToldFirst
  <2>4. ~TellsOf(wire[1], k)
    BY DEF TellsOf, IsSnapshot
  <2>5. CASE ChangesIn(remote)[k] = "added"
    BY <1>2, <2>5
  <2>6. CASE ChangesIn(remote)[k] = "modified"
    <3>1. k \in RemoteKeys(Query)
      BY <1>1, <1>2, <2>6, AssertionsFollow DEF AssertionsHold
    <3>2. RemoteKeys(Query) = view.synced
      BY <1>1 DEF RemoteKeys, Paired
    <3>3. view.synced = keys
      BY <1>1 DEF SyncInv, KeysKept
    <3> QED
      BY <1>2, <1>3, <3>1, <3>2, <3>3
  <2> QED
    BY <2>3, <2>4, <2>5, <2>6
<1> QED
  BY <1>4, <1>5

(* What the cache has was read when the snapshot came, or before.          *)
LEMMA SnapshotCache ==
    ASSUME SyncInv, wire # << >>, IsSnapshot(wire[1]),
           NEW n \in Nat, n = wire[1].version
    PROVE  \A k \in Docs : CacheAfter(DocumentUpdates(n), n)[k].version
                               <= CacheAfter(DocumentUpdates(n), n)[k].read
<1>1. PICK u \in [Docs -> Seq(Update)] : u = DocumentUpdates(n)
  BY DocumentUpdatesAre DEF SyncInv
<1>2. ASSUME NEW k \in Docs, u[k] # << >>
      PROVE  u[k][1].version <= n
  <2>1. u[k] = Deleted(n) \/ u[k] = updates[k]
    BY <1>1 DEF DocumentUpdates
  <2>2. CASE u[k] = Deleted(n)
    BY <2>2 DEF Deleted
  <2>3. CASE u[k] = updates[k]
    <3>1. 1 \in 1 .. Len(wire) /\ InTime(wire, updates, Clock)
      BY SyncFacts, TailIs
    <3> QED
      BY <1>2, <2>3, <3>1 DEF InTime
  <2> QED
    BY <2>1, <2>2, <2>3
<1>3. ASSUME NEW k \in Docs
      PROVE  CacheAfter(u, n)[k].version <= CacheAfter(u, n)[k].read
  <2>1. CASE k \notin Changed(u)
    <3>1. CacheAfter(u, n)[k] = cache[k]
      BY <2>1 DEF CacheAfter
    <3> QED
      BY <3>1 DEF SyncInv, Dated
  <2>2. CASE k \in Changed(u) /\ u[k][1].version = 0
    <3>1. CacheAfter(u, n)[k] = Invalid
      BY <2>2 DEF CacheAfter
    <3> QED
      BY <3>1 DEF Invalid
  <2>3. CASE k \in Changed(u) /\ u[k][1].version # 0
    <3>1. u[k] # << >>
      BY <2>3 DEF Changed
    <3>2. PICK c : c = CacheAfter(u, n)[k]
      OBVIOUS
    <3>3. c = [version |-> u[k][1].version, value |-> u[k][1].value,
               committed |-> FALSE, read |-> n]
      BY <2>3, <3>2 DEF CacheAfter
    <3>4. c.version = u[k][1].version /\ c.read = n
      BY <3>3
    <3> QED
      BY <1>2, <3>1, <3>2, <3>4
  <2> QED
    BY <2>1, <2>2, <2>3
<1> QED
  BY <1>1, <1>3

(* The snapshot told to the view, with the change tc of the target and the *)
(* target data t.                                                          *)
Taken(n, tc, t) ==
    /\ tc \in TargetChange /\ t \in TargetData
    /\ Emit(Changed(DocumentUpdates(n)), tc, TargetsAfter(n), t)
    /\ IF QueryActive(remote)
       THEN /\ tc.added = KeysWith(Query, "added")
            /\ tc.removed = KeysWith(Query, "removed")
            /\ tc.current = StateOf(remote, Query).current
            /\ t.token = n /\ t.limboFree = target.limboFree
            /\ saved' \in {saved, t}
            /\ keys' = (keys \ KeysWith(Query, "removed"))
                            \cup KeysWith(Query, "added")
       ELSE /\ tc.added = {} /\ tc.removed = {} /\ tc.current = view.current
            /\ t = target /\ saved' = saved /\ keys' = keys

LEMMA SnapshotTaken ==
    ASSUME SyncInv, QueryKept, OnSnapshot
    PROVE  /\ wire # << >> /\ IsSnapshot(wire[1]) /\ wire' = Tail(wire)
           /\ wire[1].version \in Nat /\ Head(wire) = wire[1]
           /\ \E tc, t : Taken(wire[1].version, tc, t)
           /\ last' = wire[1].version /\ history' = history
           /\ cache' = CacheAfter(DocumentUpdates(wire[1].version), wire[1].version)
           /\ answers' = answers /\ open' = open /\ served' = served
           /\ updates' = NoUpdates /\ resets' = {} /\ queue' = queue
           /\ offline' = FALSE
<1>1. /\ Takes("snapshot") /\ wire # << >> /\ Head(wire).type = "snapshot"
      /\ wire' = Tail(wire) /\ history' = history /\ served' = served
      /\ answers' = answers /\ open' = open /\ offline' = FALSE
  BY DEF OnSnapshot, Takes, server
<1>2. ReadInv /\ Head(wire) = wire[1]
  BY <1>1, SyncFacts DEF SyncInv
<1>3. PICK n \in Nat : n = Head(wire).version
  BY <1>1, <1>2, FirstIs, ResponseIs
<1>4. PICK tc, t :
          /\ tc = IF Query \in Active
                  THEN [added |-> KeysWith(Query, "added"),
                        removed |-> KeysWith(Query, "removed"),
                        current |-> StateOf(remote, Query).current]
                  ELSE NoTargetChange(view)
          /\ t = IF Query \in Active THEN [target EXCEPT !.token = n] ELSE target
  OBVIOUS
<1>5. target \in TargetData /\ view \in View
      /\ StateOf(remote, Query).current \in BOOLEAN
  BY <1>2, ReadFacts, StateIs DEF ReadInv, Types, ClientTypes, Query, TargetState
<1>6. /\ tc \in TargetChange /\ t \in TargetData
      /\ Query \in Active =>
             /\ tc.added = KeysWith(Query, "added")
             /\ tc.removed = KeysWith(Query, "removed")
             /\ tc.current = StateOf(remote, Query).current
             /\ t.token = n /\ t.limboFree = target.limboFree
      /\ Query \notin Active =>
             /\ tc.added = {} /\ tc.removed = {} /\ tc.current = view.current
             /\ t = target
  <2>1. KeysWith(Query, "added") \in SUBSET Docs
        /\ KeysWith(Query, "removed") \in SUBSET Docs
    BY DEF KeysWith
  <2>2. CASE Query \in Active
    <3>1. PICK a \in SUBSET Docs, r \in SUBSET Docs, c \in BOOLEAN :
              /\ a = KeysWith(Query, "added") /\ r = KeysWith(Query, "removed")
              /\ c = StateOf(remote, Query).current
      BY <1>5, <2>1
    <3>2. tc = [added |-> a, removed |-> r, current |-> c]
      BY <1>4, <2>2, <3>1
    <3>3. t = [target EXCEPT !.token = n]
      BY <1>4, <2>2
    <3>4. /\ tc \in TargetChange /\ tc.added = a /\ tc.removed = r /\ tc.current = c
      BY <3>2 DEF TargetChange
    <3>5. t \in TargetData /\ t.token = n /\ t.limboFree = target.limboFree
      BY <1>3, <1>5, <3>3 DEF TargetData
    <3> QED
      BY <2>2, <3>1, <3>4, <3>5
  <2>3. CASE Query \notin Active
    <3>1. tc = NoTargetChange(view) /\ t = target
      BY <1>4, <2>3
    <3>2. tc \in TargetChange /\ tc.added = {} /\ tc.removed = {}
      BY <1>5, <3>1, NoTargetChangeIs
    <3>3. tc.current = view.current
      BY <3>1 DEF NoTargetChange
    <3> QED
      BY <1>5, <2>3, <3>1, <3>2, <3>3
  <2> QED
    BY <2>2, <2>3
<1>7. /\ keys' = (keys \ KeysWith(Query, "removed")) \cup KeysWith(Query, "added")
      /\ Query \in Active => saved' \in {saved, t}
      /\ Query \notin Active => saved' = saved
      /\ cache' = CacheAfter(DocumentUpdates(n), n) /\ last' = n
      /\ queue' = queue /\ updates' = NoUpdates /\ resets' = {}
      /\ Emit(Changed(DocumentUpdates(n)), tc, TargetsAfter(n), t)
  <2>1. \A x : Persisted(t, x) \subseteq {saved, t}
    BY DEF Persisted
  <2> QED
    BY <1>3, <1>4, <2>1 DEF OnSnapshot
<1>8. Query \notin Active => keys' = keys
  BY <1>7 DEF KeysWith
<1>9. Query \in Active <=> QueryActive(remote)
  BY <1>1, ActiveIs
<1>10. Taken(n, tc, t)
  BY <1>6, <1>7, <1>8, <1>9 DEF Taken
<1> QED
  BY <1>1, <1>2, <1>3, <1>7, <1>10 DEF IsSnapshot

(* The targets and the view after the snapshot.                            *)
LEMMA SnapshotEmitted ==
    ASSUME SyncInv, QueryKept, OnSnapshot, ReadInv',
           NEW n \in Nat, n = wire[1].version, NEW tc, NEW t, Taken(n, tc, t)
    PROVE  /\ Following(Now, remote', Tail(wire), served, {})
           /\ Query \in DOMAIN remote'.listens
           /\ remote'.listens[Query] = NextToken(n)
           /\ Query \in DOMAIN remote'.agg /\ LastAdded(remote', Tail(wire))
           /\ view.on /\ view'.on
           /\ view'.synced = (view.synced \cup tc.added) \ tc.removed
           /\ view'.current = tc.current
           /\ view'.state = "Synced" => view'.current
           /\ target'.token = t.token /\ target'.limboFree <= target'.token
           /\ t.limboFree <= t.token /\ t.token <= n /\ last <= n
           /\ n \in Nat /\ last \in Nat /\ target.token <= t.token
           /\ t.token \in Nat /\ target.token \in Nat
           /\ TargetsAfter(n) \in Remote /\ SameQuery(remote', TargetsAfter(n))
<1>1. /\ wire # << >> /\ IsSnapshot(wire[1]) /\ Head(wire) = wire[1]
      /\ cache' = CacheAfter(DocumentUpdates(n), n)
      /\ queue' = queue /\ offline' = FALSE /\ wire' = Tail(wire)
  BY SnapshotTaken
<1>2. ReadInv /\ view.on /\ Types
  BY <1>1, SyncFacts DEF SyncInv, ReadInv
<1>3. PICK q \in Remote :
          /\ q = TargetsAfter(n) /\ Following(Now, q, Tail(wire), served, {})
          /\ Query \in DOMAIN q.listens /\ q.listens[Query] = NextToken(n)
          /\ Query \in DOMAIN q.agg /\ LastAdded(q, Tail(wire))
  BY <1>1, AfterFollows
<1>4. PICK ks \in SUBSET Docs : ks = Changed(DocumentUpdates(n))
  BY DEF Changed
<1>5. /\ tc \in TargetChange /\ t \in TargetData /\ Emit(ks, tc, q, t)
  BY <1>3, <1>4 DEF Taken
<1>6. last <= n /\ last \in Nat
  <2>1. wire \in Seq(Response)
    BY <1>1, SyncFacts
  <2>2. 1 \in DOMAIN wire
    BY <1>1, <2>1
  <2>3. wire[1].type = "snapshot"
    BY <1>1 DEF IsSnapshot
  <2>4. n >= last
    BY <1>2, <2>2, <2>3, AssertionsFollow DEF AssertionsHold
  <2> QED
    BY <2>4, BaseIs
<1>7. target \in TargetData /\ target.token <= last /\ target.limboFree <= target.token
  BY <1>2 DEF SyncInv, Tokens, Types, ClientTypes
<1>8. /\ t.limboFree <= t.token /\ t.token <= n /\ target.token <= t.token
      /\ t.token \in Nat /\ target.token \in Nat
  <2>1. target.token \in Nat /\ target.limboFree \in Nat
    BY <1>7 DEF TargetData
  <2>2. \/ t.token = n /\ t.limboFree = target.limboFree
        \/ t = target
    BY DEF Taken
  <2> QED
    BY <1>6, <1>7, <2>1, <2>2
<1>9. cache' \in [Docs -> Cached] /\ queue' \in Seq(Writes) /\ offline' \in BOOLEAN
  <2>1. Types'
    BY DEF ReadInv
  <2> QED
    BY <1>1, <1>2, <2>1 DEF Types, ClientTypes, DiskTypes
<1>10. /\ target'.token = t.token /\ target'.limboFree <= target'.token
       /\ view'.current = tc.current
       /\ view'.state = "Synced" => view'.current
  BY <1>2, <1>5, <1>8, <1>9, EmitTokens
<1>11. /\ view'.on = view.on /\ view' \in View
       /\ remote' = LimboUpdated(q, view.limbo, view'.limbo)
       /\ view'.synced = (view.synced \cup tc.added) \ tc.removed
  BY <1>2, <1>5, <1>9, EmitIs
<1>12. SameQuery(remote', q)
  <2>1. view.limbo \in SUBSET Docs /\ view'.limbo \in SUBSET Docs
    BY <1>2, <1>11 DEF Types, ClientTypes, View
  <2>2. Tail(wire) \in Seq(Response) /\ served \in Table(Served)
    BY <1>1, <1>2, SyncFacts, ReadFacts, TailIs
  <2>3. Watching(q, Tail(wire), served, view.synced)
    BY <1>1, <1>2, <1>3, TargetsAfterKeeps DEF IsSnapshot
  <2> QED
    BY <1>11, <2>1, <2>2, <2>3, LimboUpdatedSame
<1>13. remote' \in Remote
  BY DEF ReadInv, Types, ClientTypes
<1>14. Following(Now, remote', Tail(wire), served, {})
  <2>1. PICK h, w, srv : h = Now /\ w = Tail(wire) /\ srv = served
    OBVIOUS
  <2> QED
    BY <1>3, <1>12, <1>13, <2>1, SameQueryFollows
<1>15. LastAdded(remote', Tail(wire))
  BY <1>3, <1>12, <1>13, SameQueryQuiet, AddedSame
<1>16. /\ Query \in DOMAIN remote'.listens /\ remote'.listens[Query] = NextToken(n)
       /\ Query \in DOMAIN remote'.agg
  BY <1>3, <1>12 DEF SameQuery
<1>17. view.on /\ view'.on
  BY <1>2, <1>11
<1>18. TargetsAfter(n) \in Remote /\ SameQuery(remote', TargetsAfter(n))
  BY <1>3, <1>12
<1> QED
  BY <1>6, <1>8, <1>10, <1>11, <1>14, <1>15, <1>16, <1>17, <1>18, Zenon

(* The query as the snapshot finds it: not active, active, or to be reset, *)
(* and then not current.                                                   *)
LEMMA SnapshotCases ==
    ASSUME SyncInv, QueryKept, wire # << >>, IsSnapshot(wire[1]), NEW n
    PROVE  \/ /\ ~QueryActive(remote) /\ resets = {}
              /\ NextToken(n) = remote.listens[Query]
           \/ QueryActive(remote) /\ resets = {} /\ NextToken(n) = n
           \/ /\ QueryActive(remote) /\ resets # {} /\ NextToken(n) = 0
              /\ ~StateOf(remote, Query).current
<1>1. Awaited(remote, wire, resets)
  BY SyncFacts DEF Following
<1> QED
  BY <1>1 DEF Awaited, NextToken

LEMMA SnapshotTokens ==
    ASSUME SyncInv, QueryKept, OnSnapshot, ReadInv'
    PROVE  Tokens'
<1>1. /\ wire # << >> /\ IsSnapshot(wire[1]) /\ last' = wire[1].version
  BY SnapshotTaken
<1>2. PICK n, tc, t : n = wire[1].version /\ Taken(n, tc, t)
  BY SnapshotTaken
<1>3. n \in Nat
  BY <1>2, SnapshotTaken
<1>4. /\ Query \in DOMAIN remote'.listens
      /\ remote'.listens[Query] = NextToken(n)
      /\ view.on /\ view'.on /\ view'.current = tc.current
      /\ target'.token = t.token /\ target'.limboFree <= target'.token
      /\ t.limboFree <= t.token /\ t.token <= n /\ last <= n
      /\ last \in Nat /\ target.token <= t.token
      /\ t.token \in Nat /\ target.token \in Nat
  BY <1>2, <1>3, SnapshotEmitted
<1>5. /\ saved.limboFree <= saved.token /\ saved.token <= target.token
      /\ remote.listens[Query] <= last
      /\ view.current => remote.listens[Query] = target.token
  BY <1>4 DEF SyncInv, Tokens
<1>6. saved \in TargetData /\ remote.listens[Query] \in Nat
  <2>1. saved \in TargetData
    BY DEF SyncInv, ReadInv, Types, DiskTypes
  <2>2. remote \in Remote /\ Query \in DOMAIN remote.listens
    BY <1>1, SyncFacts
  <2> QED
    BY <2>1, <2>2, NumbersAre, TableIs
<1>7. saved.token \in Nat /\ saved.limboFree \in Nat
  BY <1>6 DEF TargetData
<1>8. saved' \in {saved, t}
  BY <1>2 DEF Taken
<1>9. /\ saved'.limboFree <= saved'.token /\ saved'.token <= n
      /\ saved'.token <= target'.token
  <2>1. CASE saved' = saved
    BY <1>3, <1>4, <1>5, <1>7, <2>1
  <2>2. CASE saved' = t
    BY <1>3, <1>4, <2>2
  <2> QED
    BY <1>8, <2>1, <2>2
<1>10. /\ remote'.listens[Query] <= n
       /\ view'.current => remote'.listens[Query] = target'.token
  <2>1. CASE ~QueryActive(remote) /\ NextToken(n) = remote.listens[Query]
    <3>1. t = target /\ tc.current = view.current
      BY <1>2, <2>1 DEF Taken
    <3> QED
      BY <1>3, <1>4, <1>5, <1>6, <2>1, <3>1
  <2>2. CASE QueryActive(remote) /\ NextToken(n) = n
    <3>1. t.token = n
      BY <1>2, <2>2 DEF Taken
    <3> QED
      BY <1>3, <1>4, <2>2, <3>1
  <2>3. CASE /\ QueryActive(remote) /\ NextToken(n) = 0
             /\ ~StateOf(remote, Query).current
    <3>1. ~tc.current
      BY <1>2, <2>3 DEF Taken
    <3> QED
      BY <1>3, <1>4, <2>3, <3>1
  <2> QED
    BY <1>1, <2>1, <2>2, <2>3, SnapshotCases
<1>11. target'.token <= last' /\ saved'.token <= last'
       /\ remote'.listens[Query] <= last'
  BY <1>1, <1>2, <1>4, <1>9, <1>10
<1> QED
  BY <1>4, <1>9, <1>10, <1>11 DEF Tokens

LEMMA SnapshotKept ==
    ASSUME SyncInv, QueryKept, OnSnapshot, ReadInv'
    PROVE  KeysKept'
<1>1. /\ wire # << >> /\ IsSnapshot(wire[1]) /\ last' = wire[1].version
      /\ resets' = {} /\ history' = history
  BY SnapshotTaken
<1>2. PICK n, tc, t : n = wire[1].version /\ Taken(n, tc, t)
  BY SnapshotTaken
<1>3. n \in Nat /\ Now' = Now
  BY <1>1, <1>2, SnapshotTaken DEF Now, Clock
<1>4. /\ remote'.listens[Query] = NextToken(n)
      /\ view.on /\ view'.on /\ view'.current = tc.current
      /\ view'.synced = (view.synced \cup tc.added) \ tc.removed
      /\ view'.state = "Synced" => view'.current
      /\ target'.token = t.token
      /\ t.token <= n
  BY <1>2, <1>3, SnapshotEmitted
<1>5. /\ keys = view.synced /\ Base = remote.listens[Query] /\ Base' = NextToken(n)
      /\ resetting # "torn" => \A k \in Docs : There(Now, k, Base) => k \in keys
      /\ resetting = "no" => saved.token <= Base
  BY <1>4 DEF SyncInv, KeysKept, Base
<1>6. keys' = view'.synced
  <2>1. CASE QueryActive(remote)
    <3>1. /\ tc.added = KeysWith(Query, "added")
          /\ tc.removed = KeysWith(Query, "removed")
          /\ keys' = (keys \ KeysWith(Query, "removed"))
                          \cup KeysWith(Query, "added")
      BY <1>2, <2>1 DEF Taken
    <3>2. KeysWith(Query, "added") \cap KeysWith(Query, "removed") = {}
      BY DEF KeysWith
    <3> QED
      BY <1>4, <1>5, <3>1, <3>2
  <2>2. CASE ~QueryActive(remote)
    <3>1. tc.added = {} /\ tc.removed = {} /\ keys' = keys
      BY <1>2, <2>2 DEF Taken
    <3> QED
      BY <1>4, <1>5, <3>1
  <2> QED
    BY <2>1, <2>2
<1>7. /\ resetting \in {"no", "yes", "torn"}
      /\ resetting' \in {"no", "yes", "torn"}
      /\ resetting' # "torn" => resetting # "torn"
      /\ resetting' = "no" =>
             /\ resets = {}
             /\ resetting # "no" => view'.state = "Synced"
  <2>1. /\ resetting \in {"no", "yes", "torn"}
        /\ resetting' \in {"no", "yes", "torn"}
    BY DEF SyncInv, ReadInv, Types, ClientTypes
  <2>2. resetting' = CASE resets # {} /\ resetting = "no" -> "yes"
                       [] /\ resetting = "yes" /\ resets = {}
                          /\ view'.state = "Synced"
                          /\ view'.mutated = {} -> "no"
                       [] OTHER -> resetting
    BY Zenon DEF OnSnapshot
  <2> QED
    BY <2>1, <2>2
<1>8. ASSUME resetting' # "torn", NEW k \in Docs, There(Now, k, NextToken(n))
      PROVE  k \in keys'
  <2>1. resetting # "torn"
    BY <1>7, <1>8
  <2>2. CASE ~QueryActive(remote) /\ NextToken(n) = remote.listens[Query]
    <3>1. keys' = keys
      BY <1>2, <2>2 DEF Taken
    <3> QED
      BY <1>5, <1>8, <2>1, <2>2, <3>1
  <2>3. CASE QueryActive(remote) /\ resets = {} /\ NextToken(n) = n
    <3>1. k \in (keys \ KeysWith(Query, "removed")) \cup KeysWith(Query, "added")
      BY <1>1, <1>2, <1>8, <2>1, <2>3, SnapshotKeys
    <3> QED
      BY <1>2, <2>3, <3>1 DEF Taken
  <2>4. CASE NextToken(n) = 0
    <3>1. 1 <= Now[k].version /\ Now[k].version <= 0
      BY <1>8, <2>4 DEF SyncInv, Dated, There
    <3>2. Now[k].version \in Nat
      BY NowIs DEF SyncInv, Update
    <3> QED
      BY <3>1, <3>2
  <2> QED
    BY <1>1, <2>2, <2>3, <2>4, SnapshotCases
<1>9. ASSUME resetting' = "no"
      PROVE  saved'.token <= NextToken(n)
  <2>1. Tokens'
    BY SnapshotTokens
  <2>2. CASE resetting # "no"
    <3>1. view'.current /\ remote'.listens[Query] = target'.token
          /\ saved'.token <= target'.token
      BY <1>4, <1>7, <1>9, <2>1, <2>2 DEF Tokens
    <3> QED
      BY <1>4, <3>1
  <2>3. CASE resetting = "no" /\ ~QueryActive(remote)
                  /\ NextToken(n) = remote.listens[Query]
    <3>1. saved' = saved
      BY <1>2, <2>3 DEF Taken
    <3> QED
      BY <1>5, <2>3, <3>1
  <2>4. CASE QueryActive(remote) /\ NextToken(n) = n
    BY <1>1, <1>2, <2>1, <2>4 DEF Tokens
  <2> QED
    BY <1>1, <1>7, <1>9, <2>2, <2>3, <2>4, SnapshotCases
<1> QED
  BY <1>3, <1>4, <1>5, <1>6, <1>8, <1>9 DEF KeysKept

LEMMA SnapshotSync == SyncInv /\ QueryKept /\ OnSnapshot => SyncInv' /\ QueryKept'
<1> SUFFICES ASSUME SyncInv, QueryKept, OnSnapshot PROVE SyncInv' /\ QueryKept'
  OBVIOUS
<1>1. /\ wire # << >> /\ IsSnapshot(wire[1]) /\ wire' = Tail(wire)
      /\ history' = history /\ answers' = answers /\ open' = open
      /\ served' = served /\ updates' = NoUpdates /\ resets' = {}
      /\ cache' = CacheAfter(DocumentUpdates(wire[1].version), wire[1].version)
      /\ wire[1].version \in Nat
  BY SnapshotTaken
<1>2. ReadInv'
  BY SnapshotStep DEF SyncInv
<1>3. PICK n, tc, t : n = wire[1].version /\ Taken(n, tc, t)
  BY SnapshotTaken
<1>4. /\ Following(Now, remote', Tail(wire), served, {})
      /\ Query \in DOMAIN remote'.agg /\ LastAdded(remote', Tail(wire))
  BY <1>1, <1>2, <1>3, SnapshotEmitted
<1>5. Now' = Now /\ Clock' = Clock
  BY <1>1 DEF Now, Clock
<1>6. Dated'
  <2>1. \A k \in Docs : cache'[k].version <= cache'[k].read
    BY <1>1, SnapshotCache
  <2>2. InTime(Tail(wire), NoUpdates, Clock)
    <3>1. \A k \in Docs : NoUpdates[k] = << >>
      BY DEF NoUpdates
    <3> QED
      BY <1>1, <3>1, SyncFacts, InTimeTail
  <2> QED
    BY <1>1, <1>5, <2>1, <2>2 DEF SyncInv, Dated
<1>7. Tokens' /\ KeysKept'
  BY <1>2, SnapshotTokens, SnapshotKept
<1>8. open'
  BY <1>1, SyncFacts
<1>9. Following(Now', remote', wire', served', resets')
  BY <1>1, <1>4, <1>5
<1>10. SyncInv'
  BY <1>2, <1>6, <1>7, <1>8, <1>9 DEF SyncInv
<1>11. QueryKept'
  BY <1>1, <1>4 DEF QueryKept
<1> QED
  BY <1>10, <1>11

-----------------------------------------------------------------------------
(* The invariant, and the theorem.                                         *)
QueryInv == SyncInv /\ QueryKept

LEMMA QueryInit == Init => QueryInv
<1> SUFFICES ASSUME Init PROVE QueryInv
  OBVIOUS
<1>1. ~open
  BY DEF Init
<1> QED
  BY <1>1, InitSync DEF QueryInv, QueryKept

LEMMA StreamStep == QueryInv /\ OnWatchStreamChange => QueryInv'
<1> SUFFICES ASSUME SyncInv, QueryKept, OnWatchStreamChange
             PROVE  SyncInv' /\ QueryKept'
  BY DEF QueryInv
<1>1. CASE OnSnapshot
  BY <1>1, SnapshotSync
<1>2. CASE ~OnSnapshot
  <2>1. SyncInv'
    BY <1>2, TargetAddedSync, TargetRemovedSync, TargetCurrentSync, DocumentSync,
       DeleteSync, ExistenceFilterSync DEF OnWatchStreamChange
  <2> QED
    BY <1>2, <2>1, StreamKept
<1> QED
  BY <1>1, <1>2

LEMMA QueryStep == QueryInv /\ [Next]_vars => QueryInv'
<1> SUFFICES ASSUME SyncInv, QueryKept, [Next]_vars
             PROVE  QueryInv'
  BY DEF QueryInv
<1>1. CASE OnWatchStreamChange
  BY <1>1, StreamStep DEF QueryInv
<1>2. CASE Next /\ ~OnWatchStreamChange
  <2>1. SyncInv'
    BY <1>2, ForeignSetSync, DeletedSync, CommitSync, ServerTakesSync, SendsSync,
       ListenSync, WriteSync, WriteAnsweredSync, AnswersLostSync, OpenSync,
       CloseSync, OfflineSync, CrashSync DEF Next
  <2> QED
    BY <1>2, <2>1, BeforeKept DEF QueryInv
<1>3. CASE UNCHANGED vars
  <2>1. SyncInv'
    BY <1>3, NoStepSync
  <2>2. open' = open /\ remote' = remote /\ wire' = wire
    BY <1>3 DEF vars
  <2>3. QueryKept'
    BY <2>2 DEF QueryKept
  <2> QED
    BY <2>1, <2>3 DEF QueryInv
<1> QED
  BY <1>1, <1>2, <1>3

THEOREM SyncHolds == Spec => []QueryInv
<1> QED
  BY QueryInit, QueryStep, PTL DEF Spec

(* A document the query does not look at is no matching key, and was read  *)
(* no later than the token of the last view free of limbo: its version is  *)
(* not above the saved token, and it is not there unless set since.        *)
LEMMA FindsAll == SyncInv => QueryFindsAll
<1> SUFFICES ASSUME SyncInv, resetting = "no",
                    NEW k \in Found(cache, queue, Docs)
                        \ IndexFree(cache, queue, keys, saved.limboFree)
             PROVE  /\ cache[k].version <= saved.token
                    /\ Now[k].value # Absent => Now[k].version > saved.token
  BY DEF QueryFindsAll
<1>1. k \in Docs
  BY DEF Found
<1>2. /\ cache \in [Docs -> Cached] /\ saved \in TargetData
      /\ Now \in [Docs -> Update]
  BY NowIs DEF SyncInv, ReadInv, Types, DiskTypes
<1>3. /\ cache[k].version \in Nat /\ cache[k].read \in Nat
      /\ saved.limboFree \in Nat /\ saved.token \in Nat /\ Now[k].version \in Nat
  BY <1>1, <1>2 DEF Cached, TargetData, Update
<1>4. k \notin keys /\ ~(cache[k].read > saved.limboFree)
  BY <1>1 DEF IndexFree, Found
<1>5. /\ cache[k].version <= cache[k].read
      /\ saved.limboFree <= saved.token
  BY <1>1 DEF SyncInv, Dated, Tokens
<1>6. ~There(Now, k, Base) /\ saved.token <= Base /\ Base \in Nat
  BY <1>1, <1>4, BaseIs DEF SyncInv, KeysKept
<1>7. cache[k].version <= saved.token
  BY <1>3, <1>4, <1>5
<1>8. Now[k].value # Absent => Now[k].version > saved.token
  BY <1>3, <1>6 DEF There
<1> QED
  BY <1>7, <1>8

(* A query that starts from the matching keys misses nothing the server    *)
(* will not tell of anew, whenever the process dies, however seldom the    *)
(* target is saved, and whatever is lost, deleted or in limbo, unless a    *)
(* target was being reset.                                                 *)
THEOREM QueryMissesNothing == Spec => []QueryFindsAll
<1>1. QueryInv => QueryFindsAll
  BY FindsAll DEF QueryInv
<1> QED
  BY <1>1, SyncHolds, PTL

-----------------------------------------------------------------------------
(* Second part: why the view is what the disk would give (ViewIsLocal).    *)
(*                                                                         *)
(* The view is kept up by changes, so a document is wrong in it if a       *)
(* change passes it by.  What the query on the disk did not find may be    *)
(* missing from the view, and has to be told of before it is a matching    *)
(* key: whatever is under way of it is newer than what the cache has, so   *)
(* the cache changes with the snapshot, and the view with the cache.  That *)
(* it is newer follows from what versions are: a document with a value was *)
(* so at its version, in the cache, on the wire and among the updates.     *)

(* What is said of a document that exists was so at its version.           *)
Was(h, k, u) ==
    u.value # Absent => /\ u.version \in 1 .. Len(h)
                        /\ h[u.version][k].value = u.value

Under(w) == {w[i] : i \in 1 .. Len(w)}

NowTrue == \A k \in Docs : Was(history, k, Now[k])
CacheTrue == \A k \in Docs : Was(history, k, cache[k])
WireTrue == \A m \in Under(wire) : m.type = "document" => Was(history, m.key, m)
UpdatesTrue == \A k \in Docs : updates[k] # << >> => Was(history, k, updates[k][1])

(* The answers are those to the oldest writes.                             *)
Made(a) == [version |-> a.version, value |-> a.write]
AnswersTrue ==
    \A i \in 1 .. Len(answers) :
        /\ answers[i].write = queue[i]
        /\ ~answers[i].refused => Was(history, Where[queue[i]], Made(answers[i]))

(* A document that was added to the query or modified is among the updates. *)
Has(u, r) ==
    QueryActive(r) => \A k \in Docs :
        ChangesIn(r)[k] \in {"added", "modified"} => u[k] # << >>

ToldInv ==
    /\ NowTrue /\ CacheTrue /\ WireTrue /\ UpdatesTrue /\ AnswersTrue
    /\ Has(updates, remote)
    /\ ~open => updates = NoUpdates

-----------------------------------------------------------------------------
(* What there is of a document beside the cache is newer, or it is gone.   *)
Newly(u, c) == u.version = 0 \/ u.version > c.version
Speaking(m, k) == m.type \in {"document", "delete"} /\ m.key = k

Behind(k) ==
    /\ Now[k].value = Absent \/ Now[k].version > cache[k].version
    /\ \A m \in Under(wire) : Speaking(m, k) => Newly(m, cache[k])
    /\ updates[k] # << >> => Newly(updates[k][1], cache[k])

(* The query on the disk does not find the document.                       *)
Unfound(k) ==
    /\ k \notin keys
    /\ target.limboFree # 0 /\ cache[k].read <= target.limboFree
    /\ Behind(k)

Missed(k) ==
    /\ view.docs[k] = Absent /\ cache[k].value # Absent
    /\ resetting # "torn" => Unfound(k)

(* An acknowledged document whose own write the view still shows.          *)
Awaits(k) ==
    view.docs[k] # Absent /\ cache[k].committed /\ k \in view.mutated

Queued(q, k) == \E i \in 1 .. Len(q) : Where[q[i]] = k

Kept(k) ==
    IF Queued(queue, k)
    THEN view.docs[k] = LocalDoc(cache, queue, k).value /\ k \in view.mutated
    ELSE view.docs[k] = cache[k].value \/ Awaits(k) \/ Missed(k)

ViewKept == view.on => \A k \in Docs : Kept(k)

LocalInv == QueryInv /\ ToldInv /\ ViewKept

-----------------------------------------------------------------------------
(* The history only grows.                                                 *)
Longer(h, g) ==
    /\ Len(g) \in Nat /\ Len(h) \in Nat /\ Len(g) <= Len(h)
    /\ \A n \in 1 .. Len(g) : h[n] = g[n]

LEMMA WasLonger ==
    ASSUME NEW g, NEW h, Longer(h, g), NEW k, NEW u, Was(g, k, u)
    PROVE  Was(h, k, u)
BY DEF Was, Longer

Grows ==
    \/ UNCHANGED history
    \/ \E k \in Docs : \E value \in Values : Set(k, value)

LEMMA HistoryLonger ==
    ASSUME SyncInv, NowTrue, Grows
    PROVE  /\ Longer(history', history)
           /\ NowTrue'
           /\ \A k \in Docs : Now'[k] = Now[k] \/ Now'[k].version = Clock + 1
<1>1. /\ history \in Seq([Docs -> Update]) /\ Len(history) \in Nat
      /\ Clock = Len(history) /\ Now \in [Docs -> Update]
  BY HistoryIs, NowIs DEF SyncInv, Clock
<1>2. CASE UNCHANGED history
  <2>1. Now' = Now /\ history' = history
    BY <1>2 DEF Now, Clock
  <2>2. Longer(history, history)
    BY <1>1 DEF Longer
  <2>3. NowTrue'
    BY <2>1 DEF NowTrue
  <2> QED
    BY <2>1, <2>2, <2>3
<1>3. CASE \E k \in Docs : \E value \in Values : Set(k, value)
  <2>1. PICK k \in Docs, value \in Values : Set(k, value)
    BY <1>3
  <2>2. PICK y \in Update : y = [version |-> Clock + 1, value |-> value]
    <3>1. [version |-> Clock + 1, value |-> value] \in Update
      BY <1>1 DEF Update
    <3> QED
      BY <3>1
  <2>3. PICK x \in [Docs -> Update] : x = [Now EXCEPT ![k] = y]
    BY <1>1
  <2>4. PICK g, h : g = history /\ h = history'
    OBVIOUS
  <2>5. h = Append(g, x)
    BY <2>1, <2>2, <2>3, <2>4 DEF Set
  <2>6. /\ Len(h) = Len(g) + 1 /\ h[Len(g) + 1] = x
        /\ \A i \in 1 .. Len(g) : h[i] = g[i]
    BY <1>1, <2>4, <2>5, AppendIs
  <2>7. Longer(h, g)
    BY <1>1, <2>4, <2>6 DEF Longer
  <2>8. Now' = x /\ Clock' = Clock + 1 /\ Len(h) = Clock + 1
    BY <1>1, <2>4, <2>6 DEF Now, Clock
  <2>9. \A j \in Docs : j # k => x[j] = Now[j]
    BY <1>1, <2>3
  <2>10. x[k].version = Clock + 1 /\ h[Clock + 1] = x
    BY <1>1, <2>2, <2>3, <2>4, <2>6
  <2>11. ASSUME NEW j \in Docs
         PROVE  Was(h, j, x[j])
    <3>1. CASE j # k
      <4>1. Was(g, j, x[j])
        BY <2>4, <2>9, <3>1 DEF NowTrue
      <4> QED
        BY <2>7, <4>1, WasLonger
    <3>2. CASE j = k
      BY <1>1, <2>8, <2>10, <3>2 DEF Was
    <3> QED
      BY <3>1, <3>2
  <2>12. NowTrue'
    BY <2>4, <2>8, <2>11 DEF NowTrue
  <2> QED
    BY <2>4, <2>7, <2>8, <2>9, <2>10, <2>12
<1> QED
  BY <1>2, <1>3 DEF Grows

(* Responses under way.                                                    *)
LEMMA UnderTail ==
    ASSUME NEW w \in Seq(Response), w # << >>
    PROVE  Under(Tail(w)) \subseteq Under(w) /\ w[1] \in Under(w)
<1>1. /\ Len(w) \in Nat /\ 1 \in 1 .. Len(w)
      /\ \A i \in 1 .. Len(Tail(w)) : /\ Tail(w)[i] = w[i + 1]
                                      /\ i + 1 \in 1 .. Len(w)
  BY TailIs
<1> QED
  BY <1>1 DEF Under

LEMMA UnderAppend ==
    ASSUME NEW w \in Seq(Response), NEW m \in Response
    PROVE  Under(Append(w, m)) \subseteq Under(w) \cup {m}
<1>1. /\ Len(Append(w, m)) = Len(w) + 1 /\ Len(w) \in Nat
      /\ \A i \in 1 .. Len(w) : Append(w, m)[i] = w[i]
      /\ Append(w, m)[Len(w) + 1] = m
  BY AppendIs
<1> QED
  BY <1>1 DEF Under

LEMMA UnderResponses ==
    ASSUME NEW w \in Seq(Response)
    PROVE  \A m \in Under(w) : m \in Response
BY ResponsesAre DEF Under

(* What is so of a document cannot have the version of a deletion.         *)
LEMMA CacheFacts ==
    ASSUME SyncInv, CacheTrue, NEW k \in Docs
    PROVE  /\ cache \in [Docs -> Cached] /\ cache[k] \in Cached
           /\ cache[k].version \in Nat /\ cache[k].read \in Nat
           /\ cache[k].version <= cache[k].read
           /\ Clock \in Nat /\ Now[k] \in Update /\ Now[k].version \in Nat
           /\ cache[k].value # Absent => cache[k].version <= Clock
<1>1. cache \in [Docs -> Cached] /\ Clock \in Nat /\ Now \in [Docs -> Update]
  BY NowIs DEF SyncInv, ReadInv, Types, DiskTypes
<1>2. cache[k] \in Cached /\ Now[k] \in Update
  BY <1>1
<1>3. cache[k].version <= cache[k].read
  BY DEF SyncInv, Dated
<1>4. cache[k].value # Absent => cache[k].version <= Clock
  BY <1>1 DEF CacheTrue, Was, Clock
<1> QED
  BY <1>1, <1>2, <1>3, <1>4 DEF Cached, Update

-----------------------------------------------------------------------------
(* Steps that leave the disk and the documents of the view alone.          *)
LEMMA BesideKept ==
    ASSUME ViewKept, UNCHANGED <<cache, queue, keys, target, resetting>>,
           view'.on => view.on,
           view'.docs = view.docs, view'.mutated = view.mutated,
           \A k \in Docs : cache[k].value # Absent /\ Behind(k) => Behind(k)'
    PROVE  ViewKept'
<1> SUFFICES ASSUME view.on, NEW k \in Docs PROVE Kept(k)'
  BY DEF ViewKept
<1>1. Kept(k)
  BY DEF ViewKept
<1>2. Missed(k) => Missed(k)'
  BY DEF Missed, Unfound
<1>3. Awaits(k) <=> Awaits(k)'
  BY DEF Awaits
<1> QED
  BY <1>1, <1>2, <1>3 DEF Kept

-----------------------------------------------------------------------------
(* The server's collection changes.                                        *)
LEMMA ToldLonger ==
    ASSUME LocalInv, Grows,
           UNCHANGED <<wire, updates, remote, open, cache>>
    PROVE  /\ NowTrue' /\ CacheTrue' /\ WireTrue' /\ UpdatesTrue'
           /\ Has(updates, remote)' /\ (~open => updates = NoUpdates)'
           /\ Longer(history', history)
<1>1. SyncInv /\ ToldInv
  BY DEF LocalInv, QueryInv
<1>2. PICK g, h : g = history /\ h = history'
  OBVIOUS
<1>3. Longer(h, g) /\ NowTrue'
  BY <1>1, <1>2, HistoryLonger DEF ToldInv
<1>4. /\ wire' = wire /\ updates' = updates /\ remote' = remote
      /\ open' = open /\ cache' = cache
  OBVIOUS
<1>5. CacheTrue'
  <2>1. \A k \in Docs : Was(h, k, cache[k])
    BY <1>1, <1>2, <1>3, WasLonger DEF ToldInv, CacheTrue
  <2> QED
    BY <1>2, <1>4, <2>1 DEF CacheTrue
<1>6. WireTrue'
  <2>1. \A m \in Under(wire) : m.type = "document" => Was(h, m.key, m)
    BY <1>1, <1>2, <1>3, WasLonger DEF ToldInv, WireTrue
  <2> QED
    BY <1>2, <1>4, <2>1 DEF WireTrue
<1>7. UpdatesTrue'
  <2>1. \A k \in Docs : updates[k] # << >> => Was(h, k, updates[k][1])
    BY <1>1, <1>2, <1>3, WasLonger DEF ToldInv, UpdatesTrue
  <2> QED
    BY <1>2, <1>4, <2>1 DEF UpdatesTrue
<1>8. Has(updates, remote)'
  BY <1>1, <1>4 DEF ToldInv
<1> QED
  BY <1>1, <1>2, <1>3, <1>4, <1>5, <1>6, <1>7, <1>8 DEF ToldInv

LEMMA GrownLocal ==
    ASSUME LocalInv, Grows, AnswersTrue',
           UNCHANGED <<wire, disk, target, open, remote, updates, view, resetting>>
    PROVE  ToldInv' /\ ViewKept'
<1>1. /\ SyncInv /\ ToldInv /\ ViewKept
  BY DEF LocalInv, QueryInv
<1>2. /\ wire' = wire /\ updates' = updates /\ remote' = remote
      /\ open' = open /\ cache' = cache /\ queue' = queue /\ keys' = keys
      /\ target' = target /\ view' = view /\ resetting' = resetting
  BY DEF disk
<1>3. ToldInv'
  BY <1>2, ToldLonger DEF ToldInv
<1>4. ASSUME NEW k \in Docs, cache[k].value # Absent, Behind(k)
      PROVE  Behind(k)'
  <2>1. Now'[k] = Now[k] \/ Now'[k].version = Clock + 1
    BY <1>1, HistoryLonger DEF ToldInv
  <2>2. cache[k].version \in Nat /\ Clock \in Nat /\ cache[k].version <= Clock
    BY <1>1, <1>4, CacheFacts DEF ToldInv
  <2>3. Now'[k].value = Absent \/ Now'[k].version > cache[k].version
    BY <1>4, <2>1, <2>2 DEF Behind
  <2> QED
    BY <1>2, <1>4, <2>3 DEF Behind
<1>5. ViewKept'
  BY <1>1, <1>2, <1>4, BesideKept
<1> QED
  BY <1>3, <1>5

(* Answers that are still under way.                                       *)
LEMMA AnswersLonger ==
    ASSUME AnswersTrue, Longer(history', history),
           answers' = answers, queue' = queue
    PROVE  AnswersTrue'
<1>1. PICK g, h : g = history /\ h = history'
  OBVIOUS
<1>2. Longer(h, g)
  BY <1>1
<1> SUFFICES ASSUME NEW i \in 1 .. Len(answers)
             PROVE  /\ answers[i].write = queue[i]
                    /\ ~answers[i].refused =>
                           Was(h, Where[queue[i]], Made(answers[i]))
  BY <1>1 DEF AnswersTrue, Made
<1> QED
  BY <1>1, <1>2, WasLonger DEF AnswersTrue

LEMMA ForeignSetLocal ==
    LocalInv /\ (\E f \in Foreign : ForeignSet(f)) => ToldInv' /\ ViewKept'
<1> SUFFICES ASSUME LocalInv, NEW f \in Foreign, ForeignSet(f)
             PROVE  ToldInv' /\ ViewKept'
  OBVIOUS
<1>1. Where[f] \in Docs /\ f \in Values
  BY ViewAssumption DEF Values
<1>2. Grows
  BY <1>1 DEF ForeignSet, Grows
<1>3. UNCHANGED <<wire, disk, target, open, remote, updates, view, resetting>>
      /\ answers' = answers /\ queue' = queue
  BY DEF ForeignSet, disk
<1>4. AnswersTrue'
  BY <1>2, <1>3, HistoryLonger, AnswersLonger DEF LocalInv, QueryInv, ToldInv
<1> QED
  BY <1>2, <1>3, <1>4, GrownLocal

LEMMA DeletedLocal ==
    LocalInv /\ (\E k \in Docs : Delete(k)) => ToldInv' /\ ViewKept'
<1> SUFFICES ASSUME LocalInv, NEW k \in Docs, Delete(k)
             PROVE  ToldInv' /\ ViewKept'
  OBVIOUS
<1>1. Grows
  BY DEF Delete, Grows, Values
<1>2. UNCHANGED <<wire, disk, target, open, remote, updates, view, resetting>>
      /\ answers' = answers /\ queue' = queue
  BY DEF Delete, disk
<1>3. AnswersTrue'
  BY <1>1, <1>2, HistoryLonger, AnswersLonger DEF LocalInv, QueryInv, ToldInv
<1> QED
  BY <1>1, <1>2, <1>3, GrownLocal

LEMMA CommitLocal == LocalInv /\ Commit => ToldInv' /\ ViewKept'
<1> SUFFICES ASSUME LocalInv, Commit PROVE ToldInv' /\ ViewKept'
  OBVIOUS
<1>1. ReadInv /\ SyncInv /\ ToldInv
  BY DEF LocalInv, QueryInv, SyncInv
<1>2. PICK i : i = Len(answers) + 1
  OBVIOUS
<1>3. PICK w : w = queue[i]
  OBVIOUS
<1>4. /\ answers \in Seq(Answer) /\ Len(answers) \in Nat
      /\ i \in 1 .. Len(queue)
      /\ w \in Writes /\ Where[w] \in Docs /\ w \in Values /\ w # Absent
  <2>1. /\ answers \in Seq(Answer) /\ Len(answers) \in Nat
        /\ Len(queue) \in Nat /\ queue \in Seq(Writes)
    BY <1>1, HistoryIs
  <2>2. i \in 1 .. Len(queue)
    BY <1>2, <2>1 DEF Commit
  <2> QED
    BY <1>3, <2>1, <2>2, ElementOfSeq, ViewAssumption DEF Values
<1>5. PICK a : /\ answers' = Append(answers, a)
               /\ \/ /\ IF Now[Where[w]].value = w THEN UNCHANGED history
                        ELSE Set(Where[w], w)
                     /\ a = [write |-> w, refused |-> FALSE,
                             version |-> history'[Len(history')][Where[w]].version,
                             read |-> Len(history')]
                  \/ /\ a = [write |-> w, refused |-> TRUE, version |-> 0, read |-> 0]
                     /\ UNCHANGED history
  BY <1>2, <1>3 DEF Commit
<1>6. Grows
  BY <1>4, <1>5 DEF Grows
<1>7. UNCHANGED <<wire, disk, target, open, remote, updates, view, resetting>>
      /\ queue' = queue
  BY DEF Commit, disk
<1>8. Longer(history', history) /\ NowTrue'
  BY <1>1, <1>6, HistoryLonger DEF ToldInv
<1>9. a.write = w /\ (~a.refused => Was(history', Where[w], Made(a)))
  <2>1. CASE a = [write |-> w, refused |-> TRUE, version |-> 0, read |-> 0]
    BY <2>1
  <2>2. CASE /\ IF Now[Where[w]].value = w THEN UNCHANGED history
                ELSE Set(Where[w], w)
             /\ a = [write |-> w, refused |-> FALSE,
                     version |-> history'[Len(history')][Where[w]].version,
                     read |-> Len(history')]
    <3>1. Now'[Where[w]].value = w
      <4>1. CASE UNCHANGED history /\ Now[Where[w]].value = w
        BY <4>1 DEF Now, Clock
      <4>2. CASE Set(Where[w], w)
        <5>1. PICK y : y = [version |-> Clock + 1, value |-> w]
          OBVIOUS
        <5>2. /\ Now' = [Now EXCEPT ![Where[w]] = y]
              /\ Now \in [Docs -> Update]
          BY <1>1, <1>4, <4>2, <5>1, HistoryGrows
        <5>3. Now'[Where[w]] = y
          BY <1>4, <5>2
        <5> QED
          BY <5>1, <5>3
      <4> QED
        BY <2>2, <4>1, <4>2
    <3>2. PICK x, h : x = Now'[Where[w]] /\ h = history'
      OBVIOUS
    <3>3. a.write = w /\ a.version = x.version
      BY <2>2, <3>2 DEF Now, Clock
    <3>4. Was(h, Where[w], x) /\ x.value = w
      BY <1>4, <1>8, <3>1, <3>2 DEF NowTrue
    <3>5. Was(h, Where[w], Made(a))
      BY <3>3, <3>4 DEF Was, Made
    <3> QED
      BY <3>2, <3>3, <3>5
  <2> QED
    BY <1>5, <2>1, <2>2
<1>10. AnswersTrue'
  <2>1. PICK g, h, q, b : g = history /\ h = history' /\ q = queue /\ b = answers'
    OBVIOUS
  <2>2. a \in Answer
    <3>1. ReadInv'
      BY <1>1, CommitStep
    <3>2. /\ b \in Seq(Answer) /\ b = Append(answers, a)
      BY <1>5, <2>1, <3>1 DEF ReadInv, Types, ServerTypes
    <3>3. Len(b) = Len(answers) + 1 /\ b[Len(answers) + 1] = a
      BY <1>4, <3>2
    <3>4. i \in 1 .. Len(b)
      BY <1>2, <1>4, <3>3
    <3> QED
      BY <1>2, <3>2, <3>3, <3>4, ElementOfSeq
  <2>3. /\ Len(b) = Len(answers) + 1 /\ b[i] = a
        /\ \A j \in 1 .. Len(answers) : b[j] = answers[j]
    BY <1>2, <1>4, <1>5, <2>1, <2>2, AppendIs
  <2>4. ASSUME NEW j \in 1 .. Len(b)
        PROVE  /\ b[j].write = q[j]
               /\ ~b[j].refused => Was(h, Where[q[j]], Made(b[j]))
    <3>1. CASE j = i
      BY <1>3, <1>9, <2>1, <2>3, <3>1
    <3>2. CASE j \in 1 .. Len(answers)
      <4>1. /\ b[j].write = q[j]
            /\ ~b[j].refused => Was(g, Where[q[j]], Made(b[j]))
        BY <1>1, <2>1, <2>3, <3>2 DEF ToldInv, AnswersTrue
      <4>2. Longer(h, g)
        BY <1>8, <2>1
      <4> QED
        BY <4>1, <4>2, WasLonger
    <3> QED
      BY <1>2, <1>4, <2>3, <3>1, <3>2
  <2> QED
    BY <1>7, <2>1, <2>4 DEF AnswersTrue
<1> QED
  BY <1>6, <1>7, <1>10, GrownLocal

LEMMA AnswersLostLocal == LocalInv /\ AnswersLost => ToldInv' /\ ViewKept'
<1> SUFFICES ASSUME LocalInv, AnswersLost PROVE ToldInv' /\ ViewKept'
  OBVIOUS
<1>1. Grows /\ answers' = << >>
  BY DEF AnswersLost, server, Grows
<1>2. UNCHANGED <<wire, disk, target, open, remote, updates, view, resetting>>
  BY DEF AnswersLost, disk
<1>3. AnswersTrue'
  BY <1>1 DEF AnswersTrue
<1> QED
  BY <1>1, <1>2, <1>3, GrownLocal

-----------------------------------------------------------------------------
(* The server sends and takes requests.                                    *)
LEMMA UnderContinued ==
    ASSUME NEW w, NEW x, NEW M, Continues(x, w, M), Len(w) \in Nat, Len(x) \in Nat
    PROVE  Under(x) \subseteq Under(w) \cup M
<1> SUFFICES ASSUME NEW i \in 1 .. Len(x) PROVE x[i] \in Under(w) \cup M
  BY DEF Under
<1>1. CASE i <= Len(w)
  BY <1>1 DEF Continues, Under
<1>2. CASE i > Len(w)
  BY <1>2 DEF Continues
<1> QED
  BY <1>1, <1>2

(* What the server sends: sets, deletions as of now, and what names no     *)
(* document.                                                               *)
Telling(m) ==
    \/ /\ m.type = "document" /\ m.key \in Docs
       /\ m.version = Now[m.key].version /\ m.value = Now[m.key].value
       /\ m.value # Absent
    \/ /\ m.type = "delete" /\ m.key \in Docs
       /\ m.version = Clock /\ Now[m.key].value = Absent
    \/ m.type \notin {"document", "delete"}

LEMMA UnderSent ==
    ASSUME ReadInv, NEW forgets \in BOOLEAN, Sends(forgets)
    PROVE  \A m \in Under(wire') : m \in Under(wire) \/ Telling(m)
<1>1. wire \in Seq(Response) /\ Clock \in Nat /\ Now \in [Docs -> Update]
  BY ReadFacts, NowIs
<1>2. PICK I : I = {id \in DOMAIN served :
                        /\ forgets /\ ~served[id].current
                        /\ served[id].sent > 0 \/ id # Query}
  OBVIOUS
<1>3. I \in SUBSET DOMAIN served /\ DOMAIN served \ I \in SUBSET DOMAIN served
  BY <1>2
<1>4. /\ Documents \in SUBSET Response /\ IsFiniteSet(Documents)
      /\ Deletions(DOMAIN served \ I) \in SUBSET Response
      /\ IsFiniteSet(Deletions(DOMAIN served \ I))
      /\ Currents \in SUBSET Response /\ IsFiniteSet(Currents)
      /\ Filters(I) \in SUBSET Response /\ IsFiniteSet(Filters(I))
  <2>1. SentFor(remote, Clock) \subseteq Response
    BY DEF SentFor, Response
  <2> QED
    BY <1>1, <1>3, <2>1, DocumentsAre, DeletionsAre, CurrentsAre, FiltersAre
<1>5. PICK w, D, E, F, G : /\ w = wire /\ D = Documents
                           /\ E = Deletions(DOMAIN served \ I)
                           /\ F = Currents /\ G = Filters(I)
  OBVIOUS
<1>6. PICK d : d = w \o SetToSeq(D)
  OBVIOUS
<1>7. PICK e : e = d \o SetToSeq(E)
  OBVIOUS
<1>8. PICK f : f = e \o SetToSeq(F)
  OBVIOUS
<1>9. PICK g : g = f \o SetToSeq(G)
  OBVIOUS
<1>10. PICK end : end = [type |-> "snapshot", version |-> Clock]
  OBVIOUS
<1>11. wire' = g \o <<end>>
  BY <1>2, <1>5, <1>6, <1>7, <1>8, <1>9, <1>10 DEF Sends
<1>12. w \in Seq(Response) /\ end \in Response
  <2>1. end \in Response
    BY <1>1, <1>10 DEF Response, Sent
  <2> QED
    BY <1>1, <1>5, <2>1
<1>13. d \in Seq(Response) /\ Under(d) \subseteq Under(w) \cup D
  <2>1. /\ d \in Seq(Response) /\ Len(w) \in Nat /\ Len(d) \in Nat
        /\ Continues(d, w, D)
    BY <1>4, <1>5, <1>6, <1>12, SetAppended
  <2> QED
    BY <2>1, UnderContinued
<1>14. e \in Seq(Response) /\ Under(e) \subseteq Under(d) \cup E
  <2>1. /\ e \in Seq(Response) /\ Len(d) \in Nat /\ Len(e) \in Nat
        /\ Continues(e, d, E)
    BY <1>4, <1>5, <1>7, <1>13, SetAppended
  <2> QED
    BY <1>13, <2>1, UnderContinued
<1>15. f \in Seq(Response) /\ Under(f) \subseteq Under(e) \cup F
  <2>1. /\ f \in Seq(Response) /\ Len(e) \in Nat /\ Len(f) \in Nat
        /\ Continues(f, e, F)
    BY <1>4, <1>5, <1>8, <1>14, SetAppended
  <2> QED
    BY <1>14, <2>1, UnderContinued
<1>16. g \in Seq(Response) /\ Under(g) \subseteq Under(f) \cup G
  <2>1. /\ g \in Seq(Response) /\ Len(f) \in Nat /\ Len(g) \in Nat
        /\ Continues(g, f, G)
    BY <1>4, <1>5, <1>9, <1>15, SetAppended
  <2> QED
    BY <1>15, <2>1, UnderContinued
<1>17. Under(wire') \subseteq Under(g) \cup {end}
  <2>1. wire' = Append(g, end)
    BY <1>11, <1>12, <1>16
  <2> QED
    BY <1>12, <1>16, <2>1, UnderAppend
<1>18. ASSUME NEW m \in D PROVE Telling(m)
  <2>1. \A id \in DOMAIN served : served[id].covers \subseteq Docs
    BY ServedFinite DEF Served
  <2>2. PICK id \in DOMAIN served : \E k \in Docs :
            /\ Now[k].value # Absent
            /\ m = [type |-> "document", id |-> id, key |-> k,
                    version |-> Now[k].version, value |-> Now[k].value]
    BY <1>5, <2>1 DEF Documents
  <2>3. PICK k \in Docs :
            /\ Now[k].value # Absent
            /\ m = [type |-> "document", id |-> id, key |-> k,
                    version |-> Now[k].version, value |-> Now[k].value]
    BY <2>2
  <2>4. m.type = "document" /\ m.key = k /\ m.version = Now[k].version
        /\ m.value = Now[k].value
    BY <2>3
  <2> QED
    BY <2>3, <2>4 DEF Telling
<1>19. ASSUME NEW m \in E PROVE Telling(m)
  <2>1. \A id \in DOMAIN served : served[id].covers \subseteq Docs
    BY ServedFinite DEF Served
  <2>2. PICK id \in DOMAIN served : \E k \in Docs :
            /\ Now[k].value = Absent
            /\ m = [type |-> "delete", id |-> id, key |-> k, version |-> Clock]
    BY <1>3, <1>5, <2>1 DEF Deletions
  <2>3. PICK k \in Docs :
            /\ Now[k].value = Absent
            /\ m = [type |-> "delete", id |-> id, key |-> k, version |-> Clock]
    BY <2>2
  <2>4. m.type = "delete" /\ m.key = k /\ m.version = Clock
    BY <2>3
  <2> QED
    BY <2>3, <2>4 DEF Telling
<1>20. ASSUME NEW m \in F PROVE Telling(m)
  BY <1>5, <1>20 DEF Currents, Telling
<1>21. ASSUME NEW m \in G PROVE Telling(m)
  <2>1. PICK id \in I : \E n : m = [type |-> "filter", id |-> id, count |-> n]
    BY <1>5, <1>21 DEF Filters
  <2> QED
    BY <2>1 DEF Telling
<1>22. Telling(end)
  BY <1>10 DEF Telling
<1> HIDE DEF Telling
<1> QED
  BY <1>5, <1>13, <1>14, <1>15, <1>16, <1>17, <1>18, <1>19, <1>20, <1>21, <1>22

(* New responses that tell of what there is leave what is missed behind.   *)
LEMMA SentLocal ==
    ASSUME LocalInv, \A m \in Under(wire') : m \in Under(wire) \/ Telling(m),
           QueryActive(remote') => /\ QueryActive(remote)
                                   /\ ChangesIn(remote') = ChangesIn(remote),
           UNCHANGED <<history, answers, disk, target, open, updates, view,
                       resetting>>
    PROVE  ToldInv' /\ ViewKept'
<1>1. SyncInv /\ ToldInv /\ ViewKept
  BY DEF LocalInv, QueryInv
<1>2. /\ history' = history /\ answers' = answers /\ updates' = updates
      /\ open' = open /\ cache' = cache /\ queue' = queue /\ keys' = keys
      /\ target' = target /\ view' = view /\ resetting' = resetting
      /\ Now' = Now
  BY DEF disk, Now, Clock
<1>3. WireTrue'
  <2>1. PICK y : y = Under(wire')
    OBVIOUS
  <2>2. ASSUME NEW m \in y, m.type = "document"
        PROVE  Was(history, m.key, m)
    <3>1. CASE m \in Under(wire)
      BY <1>1, <2>2, <3>1 DEF ToldInv, WireTrue
    <3>2. CASE Telling(m)
      BY <1>1, <2>2, <3>2 DEF ToldInv, NowTrue, Was, Telling
    <3> QED
      BY <2>1, <3>1, <3>2
  <2> QED
    BY <1>2, <2>1, <2>2 DEF WireTrue
<1>4. ToldInv'
  <2>1. NowTrue' /\ CacheTrue' /\ UpdatesTrue' /\ AnswersTrue'
        /\ (~open => updates = NoUpdates)'
    BY <1>1, <1>2 DEF ToldInv, NowTrue, CacheTrue, UpdatesTrue, AnswersTrue
  <2>2. Has(updates, remote)'
    BY <1>1, <1>2 DEF ToldInv, Has
  <2> QED
    BY <1>3, <2>1, <2>2 DEF ToldInv
<1>5. ASSUME NEW k \in Docs, cache[k].value # Absent, Behind(k)
      PROVE  Behind(k)'
  <2>1. /\ cache[k].version \in Nat /\ Clock \in Nat
        /\ cache[k].version <= Clock /\ Now[k].version \in Nat
    BY <1>1, <1>5, CacheFacts DEF ToldInv
  <2>2. Now[k].value = Absent => cache[k].version # Clock
    <3> SUFFICES ASSUME Now[k].value = Absent, cache[k].version = Clock PROVE FALSE
      OBVIOUS
    <3>1. history[cache[k].version][k].value = cache[k].value
      BY <1>1, <1>5 DEF ToldInv, CacheTrue, Was
    <3> QED
      BY <1>5, <3>1 DEF Now
  <2>3. PICK y : y = Under(wire')
    OBVIOUS
  <2>4. ASSUME NEW m \in y, Speaking(m, k)
        PROVE  Newly(m, cache[k])
    <3>1. CASE m \in Under(wire)
      BY <1>5, <2>4, <3>1 DEF Behind
    <3>2. CASE Telling(m)
      BY <1>5, <2>1, <2>2, <2>4, <3>2 DEF Behind, Speaking, Newly, Telling
    <3> QED
      BY <2>3, <3>1, <3>2
  <2> QED
    BY <1>2, <1>5, <2>3, <2>4 DEF Behind
<1>6. ViewKept'
  BY <1>1, <1>2, <1>5, BesideKept
<1> QED
  BY <1>4, <1>6

LEMMA SendsLocal ==
    LocalInv /\ (\E forgets \in BOOLEAN : Sends(forgets)) => ToldInv' /\ ViewKept'
<1> SUFFICES ASSUME LocalInv, NEW forgets \in BOOLEAN, Sends(forgets)
             PROVE  ToldInv' /\ ViewKept'
  OBVIOUS
<1>1. \A m \in Under(wire') : m \in Under(wire) \/ Telling(m)
  BY UnderSent DEF LocalInv, QueryInv, SyncInv
<1>2. remote' = remote
  BY DEF Sends
<1>3. UNCHANGED <<history, answers, disk, target, open, updates, view, resetting>>
  BY DEF Sends, disk
<1> QED
  BY <1>1, <1>2, <1>3, SentLocal

LEMMA ServerTakesLocal == LocalInv /\ ServerTakes => ToldInv' /\ ViewKept'
<1> SUFFICES ASSUME LocalInv, ServerTakes PROVE ToldInv' /\ ViewKept'
  OBVIOUS
<1>1. remote \in Remote /\ wire \in Seq(Response)
  BY ReadFacts DEF LocalInv, QueryInv, SyncInv
<1>2. PICK a : /\ wire' = Append(wire, a)
               /\ a.type \in {"added", "removed"} /\ a \in Response
  <2>1. PICK m : m = Head(remote.requests)
    OBVIOUS
  <2>2. m.id \in Nat
    <3>1. remote.requests \in Seq(Request) /\ remote.requests # << >>
      BY <1>1, NumbersAre DEF ServerTakes
    <3>2. m \in Request
      BY <2>1, <3>1
    <3> QED
      BY <3>2 DEF Request
  <2>3. PICK n \in Nat : n = m.id
    BY <2>2
  <2>4. \/ wire' = Append(wire, [type |-> "added", id |-> n])
        \/ wire' = Append(wire, [type |-> "removed", id |-> n])
    BY <2>1, <2>3 DEF ServerTakes
  <2>5. /\ [type |-> "added", id |-> n] \in Response
        /\ [type |-> "removed", id |-> n] \in Response
    BY DEF Response, Ack
  <2>6. PICK x, y : /\ x = [type |-> "added", id |-> n]
                    /\ y = [type |-> "removed", id |-> n]
    OBVIOUS
  <2>7. x.type = "added" /\ y.type = "removed"
    BY <2>6
  <2> QED
    BY <2>4, <2>5, <2>6, <2>7
<1>3. \A m \in Under(wire') : m \in Under(wire) \/ Telling(m)
  <2>1. Under(wire') \subseteq Under(wire) \cup {a}
    BY <1>1, <1>2, UnderAppend
  <2> QED
    BY <1>2, <2>1 DEF Telling
<1>4. QueryActive(remote') => /\ QueryActive(remote)
                              /\ ChangesIn(remote') = ChangesIn(remote)
  <2>1. PICK r, s : r \in Remote /\ r = remote /\ s = remote'
    BY <1>1
  <2>2. s = [r EXCEPT !.requests = Tail(@)]
    BY <2>1 DEF ServerTakes
  <2>3. s.agg = r.agg /\ s.listens = r.listens
    BY <2>2 DEF Remote
  <2> QED
    BY <2>1, <2>3 DEF QueryActive, ChangesIn, StateOf
<1>5. UNCHANGED <<history, answers, disk, target, open, updates, view, resetting>>
  BY DEF ServerTakes, disk
<1> QED
  BY <1>3, <1>4, <1>5, SentLocal

-----------------------------------------------------------------------------
(* The stream opens and closes, and the process dies.                      *)
LEMMA OpenLocal == LocalInv /\ OnWatchStreamOpen => ToldInv' /\ ViewKept'
<1> SUFFICES ASSUME LocalInv, OnWatchStreamOpen PROVE ToldInv' /\ ViewKept'
  OBVIOUS
<1>1. SyncInv /\ ToldInv /\ ViewKept /\ remote \in Remote
  BY ReadFacts DEF LocalInv, QueryInv, SyncInv
<1>2. /\ history' = history /\ answers' = answers /\ updates' = updates
      /\ wire' = wire /\ cache' = cache /\ queue' = queue /\ keys' = keys
      /\ target' = target /\ view' = view /\ resetting' = resetting
      /\ Now' = Now /\ open'
  BY DEF OnWatchStreamOpen, disk, server, Now, Clock
<1>3. ~QueryActive(remote')
  <2>1. PICK r, s : r \in Remote /\ r = remote /\ s = remote'
    BY <1>1
  <2>2. PICK a : a = [id \in DOMAIN r.listens |-> [Fresh EXCEPT !.pending = 1]]
    OBVIOUS
  <2>3. PICK q : s = [r EXCEPT !.agg = a, !.requests = q]
    BY <2>1, <2>2 DEF OnWatchStreamOpen
  <2>4. s.agg = a /\ s.listens = r.listens
    BY <2>3 DEF Remote
  <2>5. ASSUME Query \in DOMAIN r.listens
        PROVE  StateOf(s, Query).pending = 1
    BY <2>2, <2>4, <2>5 DEF StateOf, Fresh
  <2> QED
    BY <2>1, <2>4, <2>5 DEF QueryActive
<1>4. NowTrue' /\ CacheTrue' /\ WireTrue' /\ UpdatesTrue' /\ AnswersTrue'
  BY <1>1, <1>2 DEF ToldInv, NowTrue, CacheTrue, WireTrue, UpdatesTrue, AnswersTrue
<1>5. ToldInv'
  BY <1>2, <1>3, <1>4 DEF ToldInv, Has
<1>6. ViewKept'
  <2>1. \A k \in Docs : Behind(k) => Behind(k)'
    BY <1>2 DEF Behind
  <2> QED
    BY <1>1, <1>2, <2>1, BesideKept
<1> QED
  BY <1>5, <1>6

LEMMA CloseLocal == LocalInv /\ OnWatchStreamClose => ToldInv' /\ ViewKept'
<1> SUFFICES ASSUME LocalInv, OnWatchStreamClose PROVE ToldInv' /\ ViewKept'
  OBVIOUS
<1>1. SyncInv /\ ToldInv /\ ViewKept /\ remote \in Remote
  BY ReadFacts DEF LocalInv, QueryInv, SyncInv
<1>2. /\ history' = history /\ answers' = answers /\ updates' = NoUpdates
      /\ wire' = << >> /\ cache' = cache /\ queue' = queue /\ keys' = keys
      /\ target' = target /\ view' = view /\ resetting' = resetting
      /\ Now' = Now
  BY DEF OnWatchStreamClose, disk, Now, Clock
<1>3. ChangesIn(remote') = Untouched
  <2>1. PICK r, s : r \in Remote /\ r = remote /\ s = remote'
    BY <1>1
  <2>2. s = [r EXCEPT !.agg = << >>, !.requests = << >>]
    BY <2>1 DEF OnWatchStreamClose
  <2>3. s.agg = << >>
    BY <2>2 DEF Remote
  <2>4. StateOf(s, Query) = Fresh
    BY <2>3, EmptyTable DEF StateOf
  <2> QED
    BY <2>1, <2>4 DEF ChangesIn, Fresh
<1>4. Has(updates, remote)'
  BY <1>3 DEF Has, Untouched
<1>5. Under(wire') = {} /\ \A k \in Docs : updates'[k] = << >>
  BY <1>2 DEF Under, NoUpdates
<1>6. NowTrue' /\ CacheTrue' /\ WireTrue' /\ UpdatesTrue' /\ AnswersTrue'
  BY <1>1, <1>2, <1>5 DEF ToldInv, NowTrue, CacheTrue, WireTrue, UpdatesTrue, AnswersTrue
<1>7. ToldInv'
  BY <1>2, <1>4, <1>6 DEF ToldInv, NoUpdates
<1>8. ViewKept'
  <2>1. \A k \in Docs : Behind(k) => Behind(k)'
    BY <1>2, <1>5 DEF Behind
  <2> QED
    BY <1>1, <1>2, <2>1, BesideKept
<1> QED
  BY <1>7, <1>8

LEMMA OfflineLocal == LocalInv /\ GoOffline => ToldInv' /\ ViewKept'
<1> SUFFICES ASSUME LocalInv, GoOffline PROVE ToldInv' /\ ViewKept'
  OBVIOUS
<1>1. SyncInv /\ ToldInv /\ ViewKept /\ view \in View
  BY ReadFacts DEF LocalInv, QueryInv, SyncInv
<1>2. /\ history' = history /\ answers' = answers /\ updates' = updates
      /\ wire' = wire /\ cache' = cache /\ queue' = queue /\ keys' = keys
      /\ target' = target /\ remote' = remote /\ resetting' = resetting
      /\ Now' = Now /\ open' = open
  BY DEF GoOffline, disk, server, Now, Clock
<1>3. view'.on = view.on /\ view'.docs = view.docs /\ view'.mutated = view.mutated
  BY <1>1 DEF GoOffline, View
<1>4. ToldInv'
  BY <1>1, <1>2 DEF ToldInv, NowTrue, CacheTrue, WireTrue, UpdatesTrue, AnswersTrue
<1>5. ViewKept'
  <2>1. \A k \in Docs : Behind(k) => Behind(k)'
    BY <1>2 DEF Behind
  <2> QED
    BY <1>1, <1>2, <1>3, <2>1, BesideKept
<1> QED
  BY <1>4, <1>5

LEMMA CrashLocal == LocalInv /\ Crash => ToldInv' /\ ViewKept'
<1> SUFFICES ASSUME LocalInv, Crash PROVE ToldInv' /\ ViewKept'
  OBVIOUS
<1>1. SyncInv /\ ToldInv
  BY DEF LocalInv, QueryInv
<1>2. /\ history' = history /\ answers' = << >> /\ updates' = NoUpdates
      /\ wire' = << >> /\ cache' = cache /\ Now' = Now /\ remote' = NoTargets
      /\ view' = NoView
  BY DEF Crash, disk, Now, Clock
<1>3. Under(wire') = {} /\ \A k \in Docs : updates'[k] = << >>
  BY <1>2 DEF Under, NoUpdates
<1>4. Has(updates, remote)'
  BY <1>2 DEF Has, QueryActive, NoTargets
<1>5. NowTrue' /\ CacheTrue' /\ WireTrue' /\ UpdatesTrue' /\ AnswersTrue'
  BY <1>1, <1>2, <1>3 DEF ToldInv, NowTrue, CacheTrue, WireTrue, UpdatesTrue, AnswersTrue
<1>6. ToldInv'
  BY <1>2, <1>4, <1>5 DEF ToldInv, NoUpdates
<1>7. ViewKept'
  BY <1>2 DEF ViewKept, NoView
<1> QED
  BY <1>6, <1>7

LEMMA NoStepLocal == LocalInv /\ UNCHANGED vars => ToldInv' /\ ViewKept'
<1> SUFFICES ASSUME LocalInv, UNCHANGED vars PROVE ToldInv' /\ ViewKept'
  OBVIOUS
<1>1. SyncInv /\ ToldInv /\ ViewKept
  BY DEF LocalInv, QueryInv
<1>2. /\ history' = history /\ answers' = answers /\ updates' = updates
      /\ wire' = wire /\ cache' = cache /\ queue' = queue /\ keys' = keys
      /\ target' = target /\ remote' = remote /\ resetting' = resetting
      /\ Now' = Now /\ open' = open /\ view' = view
  BY DEF vars, disk, server, Now, Clock
<1>3. ToldInv'
  BY <1>1, <1>2 DEF ToldInv, NowTrue, CacheTrue, WireTrue, UpdatesTrue, AnswersTrue
<1>4. ViewKept'
  <2>1. \A k \in Docs : Behind(k) => Behind(k)'
    BY <1>2 DEF Behind
  <2> QED
    BY <1>1, <1>2, <2>1, BesideKept
<1> QED
  BY <1>3, <1>4

-----------------------------------------------------------------------------
(* A response is taken, other than a snapshot.                             *)

(* What the update of a document is after the response m.                  *)
Renews(m, k, old, new) ==
    \/ new = old
    \/ new # << >> /\ new[1].version = 0 /\ new[1].value = Absent
    \/ /\ new # << >> /\ Speaking(m, k) /\ new[1].version = m.version
       /\ \/ new[1].value = Absent
          \/ m.type = "document" /\ new[1].value = m.value

LEMMA TakenLocal ==
    ASSUME LocalInv, NEW type, Takes(type), Quietly,
           \A k \in Docs : Renews(wire[1], k, updates[k], updates'[k]),
           QueryActive(remote') => \A k \in Docs :
               ChangesIn(remote')[k] \in {"added", "modified"} =>
                   \/ updates'[k] # << >>
                   \/ /\ QueryActive(remote)
                      /\ ChangesIn(remote)[k] \in {"added", "modified"}
    PROVE  ToldInv' /\ ViewKept'
<1>1. SyncInv /\ ToldInv /\ ViewKept /\ wire # << >>
  BY DEF LocalInv, QueryInv, Takes
<1>2. /\ wire' = Tail(wire) /\ history' = history /\ answers' = answers
      /\ open' = open /\ queue' = queue /\ cache' = cache /\ keys' = keys
      /\ target' = target /\ view' = view /\ resetting' = resetting
      /\ Now' = Now
  BY DEF Takes, server, Quietly, disk, Now, Clock
<1>3. open /\ wire \in Seq(Response)
  BY <1>1, SyncFacts
<1>4. Under(wire') \subseteq Under(wire) /\ wire[1] \in Under(wire)
  BY <1>1, <1>2, <1>3, UnderTail
<1>5. PICK u : u = updates'
  OBVIOUS
<1>6. UpdatesTrue'
  <2>1. ASSUME NEW k \in Docs, u[k] # << >>
        PROVE  Was(history, k, u[k][1])
    <3>1. CASE u[k] = updates[k]
      BY <1>1, <2>1, <3>1 DEF ToldInv, UpdatesTrue
    <3>2. CASE u[k][1].value = Absent
      BY <3>2 DEF Was
    <3>3. CASE /\ Speaking(wire[1], k) /\ u[k][1].version = wire[1].version
               /\ wire[1].type = "document" /\ u[k][1].value = wire[1].value
      <4>1. Was(history, k, wire[1])
        BY <1>1, <1>4, <3>3 DEF ToldInv, WireTrue, Speaking
      <4> QED
        BY <3>3, <4>1 DEF Was
    <3> QED
      BY <1>5, <2>1, <3>1, <3>2, <3>3 DEF Renews
  <2> QED
    BY <1>2, <1>5, <2>1 DEF UpdatesTrue
<1>7. Has(updates, remote)'
  <2>1. \A k \in Docs : updates[k] # << >> => u[k] # << >>
    BY <1>5 DEF Renews
  <2> QED
    BY <1>1, <1>5, <2>1 DEF ToldInv, Has
<1>8. WireTrue'
  BY <1>1, <1>2, <1>4 DEF ToldInv, WireTrue
<1>9. NowTrue' /\ CacheTrue' /\ AnswersTrue'
  BY <1>1, <1>2 DEF ToldInv, NowTrue, CacheTrue, AnswersTrue
<1>10. ToldInv'
  BY <1>2, <1>3, <1>6, <1>7, <1>8, <1>9 DEF ToldInv
<1>11. ASSUME NEW k \in Docs, Behind(k)
       PROVE  Behind(k)'
  <2>1. u[k] # << >> => Newly(u[k][1], cache[k])
    <3>1. CASE u[k] = updates[k]
      BY <1>11, <3>1 DEF Behind
    <3>2. CASE u[k][1].version = 0
      BY <3>2 DEF Newly
    <3>3. CASE Speaking(wire[1], k) /\ u[k][1].version = wire[1].version
      BY <1>4, <1>11, <3>3 DEF Behind, Newly
    <3> QED
      BY <1>5, <3>1, <3>2, <3>3 DEF Renews
  <2>2. \A m \in Under(wire') : Speaking(m, k) => Newly(m, cache[k])
    BY <1>4, <1>11 DEF Behind
  <2> QED
    BY <1>2, <1>5, <1>11, <2>1, <2>2 DEF Behind
<1>12. ViewKept'
  BY <1>1, <1>2, <1>11, BesideKept
<1> QED
  BY <1>10, <1>12

(* The state of another target, or of the query, is set.                   *)
LEMMA StateLocal ==
    ASSUME remote \in Remote, NEW id, NEW st, remote' = StateIn(remote, id, st)
    PROVE  /\ id # Query => /\ QueryActive(remote') => QueryActive(remote)
                            /\ ChangesIn(remote') = ChangesIn(remote)
           /\ id = Query => /\ ChangesIn(remote') = st.changes
                            /\ QueryActive(remote') => st.pending = 0
<1>1. /\ remote'.listens = remote.listens /\ StateOf(remote', id) = st
      /\ \A other : other # id => StateOf(remote', other) = StateOf(remote, other)
  BY StateSet
<1> QED
  BY <1>1 DEF QueryActive, ChangesIn

LEMMA TargetAddedLocal == LocalInv /\ OnTargetAdded => ToldInv' /\ ViewKept'
<1> SUFFICES ASSUME LocalInv, OnTargetAdded PROVE ToldInv' /\ ViewKept'
  OBVIOUS
<1>1. /\ Takes("added") /\ Quietly /\ updates' = updates /\ wire # << >>
      /\ SyncInv
  BY DEF OnTargetAdded, Takes, LocalInv, QueryInv
<1>2. PICK id : id = Head(wire).id
  OBVIOUS
<1>3. PICK s : s = [StateOf(remote, id) EXCEPT !.pending = @ - 1]
  OBVIOUS
<1>4. PICK st : st = IF s.pending = 0 THEN [s EXCEPT !.changes = Untouched] ELSE s
  OBVIOUS
<1>5. remote' = StateIn(remote, id, st) /\ remote \in Remote
  BY <1>1, <1>2, <1>3, <1>4, SyncFacts DEF OnTargetAdded, SetState, StateIn
<1>6. st.pending = 0 => st.changes = Untouched
  <2>1. StateOf(remote, id) \in TargetState
    BY <1>5, StateIs
  <2> QED
    BY <1>3, <1>4, <2>1 DEF TargetState
<1>7. QueryActive(remote') => \A k \in Docs :
          ChangesIn(remote')[k] \in {"added", "modified"} =>
              /\ QueryActive(remote)
              /\ ChangesIn(remote)[k] \in {"added", "modified"}
  BY <1>5, <1>6, StateLocal DEF Untouched
<1> QED
  BY <1>1, <1>7, TakenLocal DEF Renews

LEMMA TargetRemovedLocal == LocalInv /\ OnTargetRemoved => ToldInv' /\ ViewKept'
<1> SUFFICES ASSUME LocalInv, OnTargetRemoved PROVE ToldInv' /\ ViewKept'
  OBVIOUS
<1>1. /\ Takes("removed") /\ Quietly /\ updates' = updates /\ wire # << >>
      /\ SyncInv
  BY DEF OnTargetRemoved, Takes, LocalInv, QueryInv
<1>2. PICK id : id = Head(wire).id
  OBVIOUS
<1>3. PICK s : s = [StateOf(remote, id) EXCEPT !.pending = @ - 1]
  OBVIOUS
<1>4. remote \in Remote
  BY <1>1, SyncFacts
<1>5. CASE s.pending = 0
  <2>1. remote' = StateOut(remote, id)
    BY <1>2, <1>3, <1>5 DEF OnTargetRemoved, StateOut
  <2>2. /\ remote'.listens = remote.listens /\ StateOf(remote', id) = Fresh
        /\ \A other : other # id => StateOf(remote', other) = StateOf(remote, other)
    BY <1>4, <2>1, StateUnset
  <2>3. \/ StateOf(remote', Query) = StateOf(remote, Query)
        \/ ChangesIn(remote') = Untouched
    BY <2>2 DEF ChangesIn, Fresh
  <2>4. QueryActive(remote') => \A k \in Docs :
            ChangesIn(remote')[k] \in {"added", "modified"} =>
                /\ QueryActive(remote)
                /\ ChangesIn(remote)[k] \in {"added", "modified"}
    BY <2>2, <2>3 DEF Untouched, ChangesIn, QueryActive
  <2> QED
    BY <1>1, <2>4, TakenLocal DEF Renews
<1>6. CASE s.pending # 0
  <2>1. remote' = StateIn(remote, id, s)
    BY <1>2, <1>3, <1>6 DEF OnTargetRemoved, SetState, StateIn
  <2>2. QueryActive(remote') => \A k \in Docs :
            ChangesIn(remote')[k] \in {"added", "modified"} =>
                /\ QueryActive(remote)
                /\ ChangesIn(remote)[k] \in {"added", "modified"}
    BY <1>4, <1>6, <2>1, StateLocal
  <2> QED
    BY <1>1, <2>2, TakenLocal DEF Renews
<1> QED
  BY <1>5, <1>6

(* A response to a target that is not active changes nothing.              *)
LEMMA IgnoredLocal ==
    ASSUME LocalInv, NEW type, Takes(type), Quietly, UNCHANGED <<remote, updates>>
    PROVE  ToldInv' /\ ViewKept'
BY TakenLocal DEF Renews

LEMMA TargetCurrentLocal == LocalInv /\ OnTargetCurrent => ToldInv' /\ ViewKept'
<1> SUFFICES ASSUME LocalInv, OnTargetCurrent PROVE ToldInv' /\ ViewKept'
  OBVIOUS
<1>1. /\ Takes("current") /\ Quietly /\ updates' = updates /\ wire # << >>
      /\ SyncInv
  BY DEF OnTargetCurrent, Takes, LocalInv, QueryInv
<1>2. PICK id : id = Head(wire).id
  OBVIOUS
<1>3. PICK st : st = [StateOf(remote, id) EXCEPT !.current = TRUE]
  OBVIOUS
<1>4. CASE ~IsActive(id)
  <2>1. UNCHANGED remote
    BY <1>2, <1>4 DEF OnTargetCurrent
  <2> QED
    BY <1>1, <2>1, IgnoredLocal
<1>5. CASE IsActive(id)
  <2>1. remote' = StateIn(remote, id, st) /\ remote \in Remote
    BY <1>1, <1>2, <1>3, <1>5, SyncFacts DEF OnTargetCurrent, SetState, StateIn
  <2>2. StateOf(remote, id) \in TargetState
    BY <2>1, StateIs
  <2>3. id = Query => st.changes = ChangesIn(remote) /\ QueryActive(remote)
    BY <1>3, <1>5, <2>2, QueryIsActive DEF ChangesIn, TargetState
  <2>4. QueryActive(remote') =>
            QueryActive(remote) /\ ChangesIn(remote') = ChangesIn(remote)
    BY <2>1, <2>3, StateLocal
  <2> QED
    BY <1>1, <2>4, TakenLocal DEF Renews
<1> QED
  BY <1>4, <1>5

LEMMA DocumentLocal == LocalInv /\ OnDocument => ToldInv' /\ ViewKept'
<1> SUFFICES ASSUME LocalInv, OnDocument PROVE ToldInv' /\ ViewKept'
  OBVIOUS
<1>1. /\ Takes("document") /\ Quietly /\ wire # << >> /\ SyncInv
      /\ Head(wire).type = "document"
  BY DEF OnDocument, Takes, LocalInv, QueryInv
<1>2. /\ Head(wire) = wire[1] /\ remote \in Remote
      /\ wire[1].key \in Docs /\ updates \in [Docs -> Seq(Update)]
  BY <1>1, SyncFacts, ResponseIs, ReadFacts DEF SyncInv
<1>3. PICK m : m = wire[1]
  OBVIOUS
<1>4. CASE ~IsActive(m.id)
  <2>1. UNCHANGED <<remote, updates>>
    BY <1>2, <1>3, <1>4 DEF OnDocument
  <2> QED
    BY <1>1, <2>1, IgnoredLocal
<1>5. CASE IsActive(m.id)
  <2>1. PICK kind \in {"added", "modified"} :
            kind = IF m.key \in RemoteKeys(m.id) THEN "modified" ELSE "added"
    OBVIOUS
  <2>2. PICK st : st = [StateOf(remote, m.id) EXCEPT !.changes[m.key] = kind]
    OBVIOUS
  <2>3. remote' = StateIn(remote, m.id, st)
    BY <1>2, <1>3, <1>5, <2>1, <2>2 DEF OnDocument, SetState, StateIn
  <2>4. PICK y : y = [version |-> m.version, value |-> m.value]
    OBVIOUS
  <2>5. updates' = [updates EXCEPT ![m.key] = <<y>>]
    BY <1>2, <1>3, <1>5, <2>4 DEF OnDocument
  <2>6. y.version = m.version /\ y.value = m.value /\ <<y>> # << >> /\ <<y>>[1] = y
    BY <2>4
  <2>7. \A k \in Docs : updates'[k] = IF k = m.key THEN <<y>> ELSE updates[k]
    BY <1>2, <1>3, <2>5
  <2>8. \A k \in Docs : Renews(wire[1], k, updates[k], updates'[k])
    BY <1>1, <1>2, <1>3, <2>6, <2>7 DEF Renews, Speaking
  <2>9. StateOf(remote, m.id) \in TargetState
    BY <1>2, StateIs
  <2>10. m.id = Query => /\ QueryActive(remote)
                         /\ \A k \in Docs : k # m.key =>
                                st.changes[k] = ChangesIn(remote)[k]
    BY <1>5, <2>2, <2>9, QueryIsActive DEF ChangesIn, TargetState
  <2>11. /\ m.id # Query => /\ QueryActive(remote') => QueryActive(remote)
                            /\ ChangesIn(remote') = ChangesIn(remote)
         /\ m.id = Query => ChangesIn(remote') = st.changes
    BY <1>2, <2>3, StateLocal
  <2>12. updates'[m.key] # << >>
    BY <1>2, <1>3, <2>6, <2>7
  <2>13. QueryActive(remote') => \A k \in Docs :
             ChangesIn(remote')[k] \in {"added", "modified"} =>
                 \/ updates'[k] # << >>
                 \/ /\ QueryActive(remote)
                    /\ ChangesIn(remote)[k] \in {"added", "modified"}
    BY <2>10, <2>11, <2>12
  <2> QED
    BY <1>1, <2>8, <2>13, TakenLocal
<1> QED
  BY <1>4, <1>5

(* What is removed is no longer added or modified.                         *)
LEMMA RemovedLocal ==
    ASSUME LocalInv, NEW type, Takes(type), Quietly, remote \in Remote,
           NEW id, IsActive(id), NEW k \in Docs,
           remote' = StateIn(remote, id, Removal(id, k)),
           updates \in [Docs -> Seq(Update)],
           NEW y, y.value = Absent, updates' = [updates EXCEPT ![k] = <<y>>],
           \/ y.version = 0
           \/ Speaking(wire[1], k) /\ y.version = wire[1].version
    PROVE  ToldInv' /\ ViewKept'
<1>1. PICK kind : /\ kind \in {"removed", "none"}
                  /\ kind = IF k \in RemoteKeys(id) THEN "removed" ELSE "none"
  OBVIOUS
<1>2. PICK st : st = [StateOf(remote, id) EXCEPT !.changes[k] = kind]
  OBVIOUS
<1>3. remote' = StateIn(remote, id, st)
  BY <1>1, <1>2 DEF Removal
<1>4. \A j \in Docs : updates'[j] = IF j = k THEN <<y>> ELSE updates[j]
  OBVIOUS
<1>5. <<y>> # << >> /\ <<y>>[1] = y
  OBVIOUS
<1>6. \A j \in Docs : Renews(wire[1], j, updates[j], updates'[j])
  BY <1>4, <1>5 DEF Renews
<1>7. StateOf(remote, id) \in TargetState
  BY StateIs
<1>8. id = Query => /\ QueryActive(remote)
                    /\ \A j \in Docs : j # k =>
                           st.changes[j] = ChangesIn(remote)[j]
  BY <1>2, <1>7, QueryIsActive DEF ChangesIn, TargetState
<1>9. /\ id # Query => /\ QueryActive(remote') => QueryActive(remote)
                       /\ ChangesIn(remote') = ChangesIn(remote)
      /\ id = Query => ChangesIn(remote') = st.changes
  BY <1>3, StateLocal
<1>10. updates'[k] # << >>
  BY <1>4, <1>5
<1>11. QueryActive(remote') => \A j \in Docs :
           ChangesIn(remote')[j] \in {"added", "modified"} =>
               \/ updates'[j] # << >>
               \/ /\ QueryActive(remote)
                  /\ ChangesIn(remote)[j] \in {"added", "modified"}
  BY <1>8, <1>9, <1>10
<1> QED
  BY <1>6, <1>11, TakenLocal

LEMMA DeleteLocal == LocalInv /\ OnDelete => ToldInv' /\ ViewKept'
<1> SUFFICES ASSUME LocalInv, OnDelete PROVE ToldInv' /\ ViewKept'
  OBVIOUS
<1>1. /\ Takes("delete") /\ Quietly /\ wire # << >> /\ SyncInv
      /\ Head(wire).type = "delete"
  BY DEF OnDelete, Takes, LocalInv, QueryInv
<1>2. /\ Head(wire) = wire[1] /\ remote \in Remote
      /\ wire[1].key \in Docs /\ updates \in [Docs -> Seq(Update)]
  BY <1>1, SyncFacts, ResponseIs, ReadFacts DEF SyncInv
<1>3. PICK m : m = wire[1]
  OBVIOUS
<1>4. CASE ~IsActive(m.id)
  <2>1. UNCHANGED <<remote, updates>>
    BY <1>2, <1>3, <1>4 DEF OnDelete
  <2> QED
    BY <1>1, <2>1, IgnoredLocal
<1>5. CASE IsActive(m.id)
  <2>1. PICK y : y = [version |-> m.version, value |-> Absent]
    OBVIOUS
  <2>2. y.version = m.version /\ y.value = Absent
    BY <2>1
  <2>3. /\ remote' = StateIn(remote, m.id, Removal(m.id, m.key))
        /\ updates' = [updates EXCEPT ![m.key] = <<y>>]
    BY <1>2, <1>3, <1>5, <2>1 DEF OnDelete, SetState, StateIn, Deleted
  <2>4. m.key \in Docs /\ Speaking(wire[1], m.key)
    BY <1>1, <1>2, <1>3 DEF Speaking
  <2> QED
    BY <1>1, <1>2, <1>3, <1>5, <2>2, <2>3, <2>4, RemovedLocal
<1> QED
  BY <1>4, <1>5

LEMMA ExistenceFilterLocal == LocalInv /\ OnExistenceFilter => ToldInv' /\ ViewKept'
<1> SUFFICES ASSUME LocalInv, OnExistenceFilter PROVE ToldInv' /\ ViewKept'
  OBVIOUS
<1>1. /\ Takes("filter") /\ Quietly /\ wire # << >> /\ SyncInv
      /\ Head(wire).type = "filter"
  BY DEF OnExistenceFilter, Takes, LocalInv, QueryInv
<1>2. /\ Head(wire) = wire[1] /\ remote \in Remote
      /\ updates \in [Docs -> Seq(Update)] /\ Paired(remote)
  BY <1>1, SyncFacts, ReadFacts DEF SyncInv
<1>3. PICK m : m = wire[1]
  OBVIOUS
<1>4. CASE IsActive(m.id) /\ m.id # Query /\ m.count = 0
  <2>1. PICK k : k = remote.limbo[m.id].key
    OBVIOUS
  <2>2. PICK y : y = [version |-> 0, value |-> Absent]
    OBVIOUS
  <2>3. y.version = 0 /\ y.value = Absent
    BY <2>2
  <2>4. /\ remote' = StateIn(remote, m.id, Removal(m.id, k))
        /\ updates' = [updates EXCEPT ![k] = <<y>>]
    BY <1>2, <1>3, <1>4, <2>1, <2>2 DEF OnExistenceFilter, SetState, StateIn, Deleted
  <2>5. k \in Docs
    <3>1. m.id \in DOMAIN remote.limbo
      BY <1>2, <1>4 DEF IsActive, Paired
    <3>2. remote.limbo[m.id] \in Lookup
      BY <1>2, <3>1, NumbersAre, TableIs
    <3> QED
      BY <2>1, <3>2 DEF Lookup
  <2> QED
    BY <1>1, <1>2, <1>4, <2>3, <2>4, <2>5, RemovedLocal
<1>5. CASE IsActive(m.id) /\ m.id = Query /\ m.count # CountOf(Query)
  <2>1. PICK c : c = [k \in Docs |-> IF k \in RemoteKeys(Query)
                                     THEN "removed" ELSE "none"]
    OBVIOUS
  <2>2. PICK st : st = [Fresh EXCEPT !.changes = c]
    OBVIOUS
  <2>3. remote' = StateIn(remote, Query, st) /\ updates' = updates
    BY <1>2, <1>3, <1>5, <2>1, <2>2 DEF OnExistenceFilter, SetState, StateIn
  <2>4. ChangesIn(remote') = c
    <3>1. ChangesIn(remote') = st.changes
      BY <1>2, <2>3, StateLocal
    <3>2. st.changes = c
      BY <2>2 DEF Fresh
    <3> QED
      BY <3>1, <3>2
  <2>5. \A k \in Docs : ChangesIn(remote')[k] \notin {"added", "modified"}
    BY <2>1, <2>4
  <2> QED
    BY <1>1, <2>3, <2>5, TakenLocal DEF Renews
<1>6. CASE /\ ~(IsActive(m.id) /\ m.id # Query /\ m.count = 0)
           /\ ~(IsActive(m.id) /\ m.id = Query /\ m.count # CountOf(Query))
  <2>1. UNCHANGED <<remote, updates>>
    BY <1>2, <1>3, <1>6 DEF OnExistenceFilter
  <2> QED
    BY <1>1, <2>1, IgnoredLocal
<1> QED
  BY <1>4, <1>5, <1>6

-----------------------------------------------------------------------------
(* The local view of a document.                                           *)
LastOf(q, k, i) ==
    /\ i \in 1 .. Len(q) /\ Where[q[i]] = k
    /\ \A j \in 1 .. Len(q) : Where[q[j]] = k => j <= i

LEMMA LastLocal ==
    ASSUME NEW c, NEW q \in Seq(Writes), NEW k, NEW i, LastOf(q, k, i)
    PROVE  LocalDoc(c, q, k) = [value |-> q[i], local |-> TRUE, committed |-> FALSE]
<1>1. PICK mine : mine = {j \in DOMAIN q : Where[q[j]] = k}
  OBVIOUS
<1>2. DOMAIN q = 1 .. Len(q) /\ Len(q) \in Nat
  BY LenProperties
<1>3. i \in mine /\ mine \in SUBSET Nat /\ \A j \in mine : j <= i
  BY <1>1, <1>2 DEF LastOf
<1>4. Max(mine) = i
  <2>1. i \in mine /\ \A j \in mine : i >= j
    BY <1>3
  <2>2. \A x \in mine : (\A j \in mine : x >= j) => x = i
    BY <1>3
  <2> QED
    BY <2>1, <2>2 DEF Max
<1> QED
  BY <1>1, <1>3, <1>4 DEF LocalDoc

LEMMA LastExists ==
    ASSUME NEW q \in Seq(Writes), NEW k, Queued(q, k)
    PROVE  \E i : LastOf(q, k, i)
<1>1. PICK T : T = {j \in 1 .. Len(q) : Where[q[j]] = k}
  OBVIOUS
<1>2. Len(q) \in Nat /\ T \in SUBSET Nat /\ T # {} /\ \A j \in T : j <= Len(q)
  BY <1>1, LenProperties DEF Queued
<1>3. \E i \in T : \A j \in T : j <= i
  BY <1>2, LargestExists
<1> QED
  BY <1>1, <1>3 DEF LastOf

LEMMA LocalDocCases ==
    ASSUME NEW c \in [Docs -> Cached], NEW q \in Seq(Writes), NEW k \in Docs,
           NEW d, d = LocalDoc(c, q, k)
    PROVE  /\ Queued(q, k) => d.local /\ ~d.committed /\ d.value # Absent
           /\ ~Queued(q, k) => /\ ~d.local /\ d.value = c[k].value
                               /\ d.committed = c[k].committed
<1>1. CASE Queued(q, k)
  <2>1. PICK i : LastOf(q, k, i)
    BY <1>1, LastExists
  <2>2. d = [value |-> q[i], local |-> TRUE, committed |-> FALSE]
    BY <2>1, LastLocal
  <2>3. q[i] \in Writes
    BY <2>1, ElementOfSeq DEF LastOf
  <2> QED
    BY <1>1, <2>2, <2>3, ViewAssumption
<1>2. CASE ~Queued(q, k)
  <2>1. {j \in DOMAIN q : Where[q[j]] = k} = {}
    BY <1>2, LenProperties DEF Queued
  <2>2. d = [value |-> c[k].value, local |-> FALSE, committed |-> c[k].committed]
    BY <2>1 DEF LocalDoc
  <2> QED
    BY <1>2, <2>2
<1> QED
  BY <1>1, <1>2

(* What a write of another document, or an answer to one, leaves alone.    *)
SameLocal(c, q, d, p, k) ==
    /\ Queued(q, k) <=> Queued(p, k)
    /\ Queued(q, k) => LocalDoc(c, q, k).value = LocalDoc(d, p, k).value

LEMMA LongerQueue ==
    ASSUME NEW q \in Seq(Writes), NEW w \in Writes, NEW k, Where[w] # k, NEW c
    PROVE  SameLocal(c, Append(q, w), c, q, k)
<1>1. PICK p : p = Append(q, w)
  OBVIOUS
<1>2. /\ p \in Seq(Writes) /\ Len(p) = Len(q) + 1 /\ Len(q) \in Nat
      /\ \A i \in 1 .. Len(q) : p[i] = q[i]
      /\ p[Len(q) + 1] = w
  BY <1>1, AppendIs
<1>3. Queued(p, k) <=> Queued(q, k)
  BY <1>2 DEF Queued
<1>4. ASSUME Queued(q, k)
      PROVE  LocalDoc(c, p, k).value = LocalDoc(c, q, k).value
  <2>1. PICK i : LastOf(q, k, i)
    BY <1>4, LastExists
  <2>2. LastOf(p, k, i) /\ p[i] = q[i]
    BY <1>2, <2>1 DEF LastOf
  <2> QED
    BY <1>2, <2>1, <2>2, LastLocal
<1> QED
  BY <1>1, <1>3, <1>4 DEF SameLocal

LEMMA ShorterQueue ==
    ASSUME NEW q \in Seq(Writes), q # << >>, NEW k, Where[q[1]] # k, NEW c, NEW d
    PROVE  SameLocal(c, Tail(q), d, q, k)
<1>1. PICK p : p = Tail(q)
  OBVIOUS
<1>2. /\ p \in Seq(Writes) /\ Len(p) = Len(q) - 1 /\ Len(q) \in Nat
      /\ 1 \in 1 .. Len(q)
      /\ \A i \in 1 .. Len(p) : p[i] = q[i + 1] /\ i + 1 \in 1 .. Len(q)
  BY <1>1, TailIs
<1>3. \A i \in 1 .. Len(q) : i # 1 => i - 1 \in 1 .. Len(p) /\ p[i - 1] = q[i]
  BY <1>2
<1>4. Queued(p, k) <=> Queued(q, k)
  BY <1>2, <1>3 DEF Queued
<1>5. ASSUME Queued(q, k)
      PROVE  LocalDoc(c, p, k).value = LocalDoc(d, q, k).value
  <2>1. PICK i : LastOf(q, k, i)
    BY <1>5, LastExists
  <2>2. i \in 1 .. Len(q) /\ i # 1
    BY <2>1 DEF LastOf
  <2>3. ASSUME NEW j \in 1 .. Len(p), Where[p[j]] = k
        PROVE  j <= i - 1
    <3>1. j + 1 <= i
      BY <1>2, <2>1, <2>3 DEF LastOf
    <3> QED
      BY <2>2, <3>1
  <2>4. LastOf(p, k, i - 1) /\ p[i - 1] = q[i]
    BY <1>3, <2>1, <2>2, <2>3 DEF LastOf
  <2>5. PICK j : j = i - 1
    OBVIOUS
  <2>6. LastOf(p, k, j) /\ p[j] = q[i]
    BY <2>4, <2>5
  <2>7. LocalDoc(c, p, k) = [value |-> p[j], local |-> TRUE, committed |-> FALSE]
    BY <1>2, <2>6, LastLocal
  <2>8. LocalDoc(d, q, k) = [value |-> q[i], local |-> TRUE, committed |-> FALSE]
    BY <2>1, LastLocal
  <2> QED
    BY <2>6, <2>7, <2>8
<1> QED
  BY <1>1, <1>4, <1>5 DEF SameLocal

-----------------------------------------------------------------------------
(* A snapshot of the view: a document is shown as it is on the disk, or    *)
(* its own write is shown until the watch stream tells of it.              *)
ShownAs(docs, mutated, k, d) ==
    \/ docs[k] = d.value /\ (d.local => k \in mutated)
    \/ d.committed /\ docs[k] # Absent /\ k \in mutated

LEMMA ChangeShows ==
    ASSUME NEW v \in View, NEW k \in Docs, NEW d \in Local,
           d.local => d.value # Absent /\ ~d.committed,
           ChangeOf(v, k, d) = "none"
    PROVE  ShownAs(v.docs, v.mutated, k, d)
BY DEF ChangeOf, ShownAs, View, Local

LEMMA EmitDocs ==
    ASSUME Types, NEW ks \in SUBSET Docs, NEW tc, NEW r, NEW t, view.on,
           cache' \in [Docs -> Cached], queue' \in Seq(Writes), Emit(ks, tc, r, t),
           t \in TargetData
    PROVE  /\ \A k \in Docs \ ks : /\ view'.docs[k] = view.docs[k]
                                   /\ k \in view'.mutated <=> k \in view.mutated
           /\ \A k \in ks : ShownAs(view'.docs, view'.mutated, k,
                                    LocalDoc(cache', queue', k))
           /\ target'.limboFree \in {t.limboFree, t.token}
<1>1. view \in View
  BY DEF Types, ClientTypes
<1>2. PICK d : d = [k \in Docs |-> LocalDoc(cache', queue', k)]
  OBVIOUS
<1>3. PICK change : change = [k \in Docs |-> IF k \in ks THEN ChangeOf(view, k, d[k])
                                             ELSE "none"]
  OBVIOUS
<1>4. PICK v : v = ApplyChanges(view, change, d, tc)
  OBVIOUS
<1>5. /\ view' = v
      /\ target' = t \/ target' = [t EXCEPT !.limboFree = t.token]
  <2>1. PICK raises \in BOOLEAN :
            raises <=> v.state # view.state \/ \E k \in Docs : change[k] # "none"
    OBVIOUS
  <2>2. /\ view' = v
        /\ target' = IF raises /\ v.state = "Synced"
                     THEN [t EXCEPT !.limboFree = t.token] ELSE t
    BY <1>2, <1>3, <1>4, <2>1, Zenon DEF Emit
  <2> QED
    BY <2>2
<1>6. target'.limboFree \in {t.limboFree, t.token}
  <2>1. [t EXCEPT !.limboFree = t.token].limboFree = t.token
    BY DEF TargetData
  <2> QED
    BY <1>5, <2>1
<1>7. PICK applied : applied = {k \in Docs : change[k] # "none"}
  OBVIOUS
<1>8. PICK docs : docs = [k \in Docs |-> IF k \in applied THEN d[k].value
                                         ELSE view.docs[k]]
  OBVIOUS
<1>9. PICK mutated : mutated = (view.mutated \ applied)
                                   \cup {k \in applied : d[k].local}
  OBVIOUS
<1>10. v.docs = docs /\ v.mutated = mutated
  <2>1. PICK on, synced, current, limbo, state :
            v = [on |-> on, docs |-> docs, mutated |-> mutated,
                 synced |-> synced, current |-> current, limbo |-> limbo,
                 state |-> state]
    BY <1>4, <1>7, <1>8, <1>9 DEF ApplyChanges
  <2> QED
    BY <2>1
<1>11. ASSUME NEW k \in Docs \ ks
       PROVE  docs[k] = view.docs[k] /\ (k \in mutated <=> k \in view.mutated)
  BY <1>3, <1>7, <1>8, <1>9
<1>12. ASSUME NEW k \in ks
       PROVE  ShownAs(docs, mutated, k, d[k])
  <2>1. d[k] = LocalDoc(cache', queue', k) /\ change[k] = ChangeOf(view, k, d[k])
    BY <1>2, <1>3
  <2>2. d[k] \in Local
    BY <2>1, LocalDocIs
  <2>3. d[k].local => d[k].value # Absent /\ ~d[k].committed
    <3>1. PICK c \in [Docs -> Cached], q \in Seq(Writes) : c = cache' /\ q = queue'
      OBVIOUS
    <3>2. d[k] = LocalDoc(c, q, k)
      BY <2>1, <3>1
    <3> QED
      BY <3>2, LocalDocCases
  <2>4. CASE change[k] = "none"
    <3>1. ShownAs(view.docs, view.mutated, k, d[k])
      BY <1>1, <2>1, <2>2, <2>3, <2>4, ChangeShows
    <3>2. docs[k] = view.docs[k] /\ (k \in mutated <=> k \in view.mutated)
      BY <1>7, <1>8, <1>9, <2>4
    <3> QED
      BY <3>1, <3>2 DEF ShownAs
  <2>5. CASE change[k] # "none"
    <3>1. docs[k] = d[k].value /\ (d[k].local => k \in mutated)
      BY <1>7, <1>8, <1>9, <2>5
    <3> QED
      BY <3>1 DEF ShownAs
  <2> QED
    BY <2>4, <2>5
<1> QED
  BY <1>2, <1>5, <1>6, <1>10, <1>11, <1>12

(* What is on the disk of other documents stays, and what is missing stays *)
(* unfound.                                                                *)
LEMMA ShownKept ==
    ASSUME ViewKept, view.on, NEW ks \in SUBSET Docs,
           cache' \in [Docs -> Cached], queue' \in Seq(Writes),
           \A k \in Docs \ ks : /\ view'.docs[k] = view.docs[k]
                                /\ k \in view'.mutated <=> k \in view.mutated,
           \A k \in ks : ShownAs(view'.docs, view'.mutated, k,
                                 LocalDoc(cache', queue', k)),
           \A k \in Docs \ ks :
               /\ cache'[k] = cache[k]
               /\ SameLocal(cache', queue', cache, queue, k)
               /\ Missed(k) /\ resetting' # "torn" => Unfound(k)'
    PROVE  ViewKept'
<1> SUFFICES ASSUME NEW k \in Docs PROVE Kept(k)'
  BY DEF ViewKept
<1>1. PICK c, q, v : /\ c \in [Docs -> Cached] /\ q \in Seq(Writes)
                     /\ c = cache' /\ q = queue' /\ v = view'
  OBVIOUS
<1>2. CASE k \in ks
  <2>1. PICK d : d = LocalDoc(c, q, k)
    OBVIOUS
  <2>2. ShownAs(v.docs, v.mutated, k, d)
    BY <1>1, <1>2, <2>1
  <2>3. /\ Queued(q, k) => d.local /\ ~d.committed
        /\ ~Queued(q, k) => /\ ~d.local /\ d.value = c[k].value
                            /\ d.committed = c[k].committed
    BY <1>1, <2>1, LocalDocCases
  <2>4. IF Queued(q, k)
        THEN v.docs[k] = d.value /\ k \in v.mutated
        ELSE \/ v.docs[k] = c[k].value
             \/ v.docs[k] # Absent /\ c[k].committed /\ k \in v.mutated
    BY <2>2, <2>3 DEF ShownAs
  <2> QED
    BY <1>1, <2>1, <2>4 DEF Kept, Awaits
<1>3. CASE k \notin ks
  <2>1. Kept(k) /\ c[k] = cache[k] /\ SameLocal(c, q, cache, queue, k)
        /\ v.docs[k] = view.docs[k] /\ (k \in v.mutated <=> k \in view.mutated)
    BY <1>1, <1>3 DEF ViewKept
  <2>2. Missed(k) => Missed(k)'
    BY <1>1, <1>3, <2>1 DEF Missed
  <2>3. Awaits(k) => Awaits(k)'
    BY <1>1, <2>1 DEF Awaits
  <2>4. CASE Queued(q, k)
    BY <1>1, <2>1, <2>4 DEF Kept, SameLocal
  <2>5. CASE ~Queued(q, k)
    BY <1>1, <2>1, <2>2, <2>3, <2>5 DEF Kept, SameLocal
  <2> QED
    BY <2>4, <2>5
<1> QED
  BY <1>2, <1>3

-----------------------------------------------------------------------------
(* A write, or the answer to one, is told to the view.                     *)
LEMMA EmittedLocal ==
    ASSUME LocalInv, ReadInv', NEW ks \in SUBSET Docs,
           Emit(ks, NoTargetChange(view), remote, target),
           cache' \in [Docs -> Cached], queue' \in Seq(Writes),
           UNCHANGED <<server, wire, keys, open, updates, resetting, offline>>,
           AnswersTrue', CacheTrue',
           \A k \in Docs \ ks : /\ cache'[k] = cache[k]
                                /\ SameLocal(cache', queue', cache, queue, k)
    PROVE  ToldInv' /\ ViewKept'
<1>1. SyncInv /\ ToldInv /\ ViewKept /\ Types /\ view.on \in BOOLEAN
  BY ReadFacts DEF LocalInv, QueryInv, SyncInv, ReadInv, View
<1>2. /\ history' = history /\ wire' = wire /\ keys' = keys /\ open' = open
      /\ updates' = updates /\ resetting' = resetting /\ Now' = Now
      /\ offline' \in BOOLEAN
  BY <1>1 DEF server, Now, Clock, Types, ClientTypes
<1>3. PICK tc \in TargetChange : tc = NoTargetChange(view)
  BY <1>1, ReadFacts, NoTargetChangeIs DEF SyncInv
<1>4. PICK r \in Remote, t \in TargetData : r = remote /\ t = target
  BY <1>1 DEF Types, ClientTypes
<1>5. Emit(ks, tc, r, t)
  BY <1>3, <1>4
<1>6. /\ view'.on = view.on /\ view' \in View
      /\ ~view.on => remote' = r
      /\ view.on => remote' = LimboUpdated(r, view.limbo, view'.limbo)
  BY <1>1, <1>2, <1>5, EmitIs
<1>7. QueryActive(remote') => /\ QueryActive(remote)
                              /\ ChangesIn(remote') = ChangesIn(remote)
  <2>1. CASE ~view.on
    BY <1>4, <1>6, <2>1
  <2>2. CASE view.on
    <3>1. PICK w \in Seq(Response), srv \in Table(Served), synced \in SUBSET Docs :
              w = wire /\ srv = served /\ synced = view.synced
      BY <1>1, ReadFacts DEF SyncInv, View
    <3>2. Watching(r, w, srv, synced)
      BY <1>1, <1>4, <3>1, ReadFacts DEF SyncInv
    <3>3. PICK old \in SUBSET Docs, new \in SUBSET Docs :
              old = view.limbo /\ new = view'.limbo
      BY <1>1, <1>6, ReadFacts DEF SyncInv, View
    <3>4. remote' = LimboUpdated(r, old, new)
      BY <1>6, <2>2, <3>3
    <3>5. SameQuery(remote', r)
      BY <3>2, <3>4, LimboUpdatedSame
    <3>6. remote' \in Remote
      BY DEF ReadInv, Types, ClientTypes
    <3> QED
      BY <1>4, <3>5, <3>6, SameQueryQuiet
  <2> QED
    BY <1>1, <2>1, <2>2
<1>8. ToldInv'
  <2>1. Has(updates, remote)'
    BY <1>1, <1>2, <1>7 DEF ToldInv, Has
  <2>2. NowTrue' /\ WireTrue' /\ UpdatesTrue'
    BY <1>1, <1>2 DEF ToldInv, NowTrue, WireTrue, UpdatesTrue
  <2> QED
    BY <1>1, <1>2, <2>1, <2>2 DEF ToldInv
<1>9. ViewKept'
  <2>1. CASE ~view.on
    BY <1>6, <2>1 DEF ViewKept
  <2>2. CASE view.on
    <3>1. /\ \A k \in Docs \ ks : /\ view'.docs[k] = view.docs[k]
                                  /\ k \in view'.mutated <=> k \in view.mutated
          /\ \A k \in ks : ShownAs(view'.docs, view'.mutated, k,
                                   LocalDoc(cache', queue', k))
          /\ target'.limboFree \in {t.limboFree, t.token}
      BY <1>1, <1>5, <2>2, EmitDocs
    <3>2. target.limboFree <= target'.limboFree /\ target.limboFree \in Nat
          /\ target'.limboFree \in Nat
      <4>1. target.limboFree <= target.token
        BY <1>1 DEF SyncInv, Tokens
      <4>2. target.limboFree \in Nat /\ target.token \in Nat
        BY <1>4 DEF TargetData
      <4> QED
        BY <1>4, <3>1, <4>1, <4>2
    <3>3. ASSUME NEW k \in Docs \ ks, Missed(k), resetting' # "torn"
          PROVE  Unfound(k)'
      <4>1. Unfound(k) /\ cache'[k] = cache[k]
        BY <1>2, <3>3 DEF Missed
      <4>2. cache[k].read \in Nat
        BY <1>1, CacheFacts DEF ToldInv
      <4>3. Behind(k)'
        BY <1>2, <4>1 DEF Behind, Unfound
      <4> QED
        BY <1>2, <3>2, <4>1, <4>2, <4>3 DEF Unfound
    <3> QED
      BY <1>1, <2>2, <3>1, <3>3, ShownKept
  <2> QED
    BY <1>1, <2>1, <2>2
<1> QED
  BY <1>8, <1>9

LEMMA WriteLocal == LocalInv /\ (\E w \in Writes : Write(w)) => ToldInv' /\ ViewKept'
<1> SUFFICES ASSUME LocalInv, NEW w \in Writes, Write(w)
             PROVE  ToldInv' /\ ViewKept'
  OBVIOUS
<1>1. SyncInv /\ ToldInv
  BY DEF LocalInv, QueryInv
<1>2. PICK ks \in SUBSET Docs : ks = {Where[w]}
  BY ViewAssumption
<1>3. /\ Emit(ks, NoTargetChange(view), remote, target)
      /\ cache' = cache /\ queue' = Append(queue, w) /\ answers' = answers
      /\ history' = history
      /\ UNCHANGED <<server, wire, keys, open, updates, resetting, offline>>
  BY <1>2 DEF Write, server
<1>4. /\ cache' \in [Docs -> Cached] /\ queue \in Seq(Writes)
      /\ answers \in Seq(Answer) /\ Len(answers) <= Len(queue)
  BY <1>1, <1>3, DiskIs, HistoryIs DEF SyncInv
<1>5. ReadInv'
  BY <1>1, WriteStep DEF SyncInv
<1>6. PICK q : q = queue'
  OBVIOUS
<1>7. /\ q \in Seq(Writes) /\ Len(queue) \in Nat /\ Len(answers) \in Nat
      /\ \A i \in 1 .. Len(queue) : q[i] = queue[i]
  BY <1>3, <1>4, <1>6, AppendIs, LenProperties
<1>8. AnswersTrue'
  <2>1. \A i \in 1 .. Len(answers) : q[i] = queue[i]
    BY <1>4, <1>7
  <2> QED
    BY <1>1, <1>3, <1>6, <2>1 DEF ToldInv, AnswersTrue, Made
<1>9. CacheTrue'
  BY <1>1, <1>3 DEF ToldInv, CacheTrue
<1>10. \A k \in Docs \ ks : SameLocal(cache', queue', cache, queue, k)
  BY <1>2, <1>3, <1>4, LongerQueue
<1> QED
  BY <1>3, <1>4, <1>5, <1>6, <1>7, <1>8, <1>9, <1>10, EmittedLocal

LEMMA WriteAnsweredLocal == LocalInv /\ WriteAnswered => ToldInv' /\ ViewKept'
<1> SUFFICES ASSUME LocalInv, WriteAnswered PROVE ToldInv' /\ ViewKept'
  OBVIOUS
<1>1. SyncInv /\ ToldInv
  BY DEF LocalInv, QueryInv
<1>2. /\ answers \in Seq(Answer) /\ answers # << >> /\ queue \in Seq(Writes)
      /\ Len(answers) <= Len(queue) /\ cache \in [Docs -> Cached]
  BY <1>1, HistoryIs, DiskIs DEF SyncInv, WriteAnswered
<1>3. PICK a \in Answer : a = Head(answers) /\ a = answers[1]
  BY <1>2, TailIs
<1>4. PICK k \in Docs : k = Where[a.write]
  BY <1>3, ViewAssumption DEF Answer
<1>5. PICK ks \in SUBSET Docs : ks = {k}
  OBVIOUS
<1>6. /\ Emit(ks, NoTargetChange(view), remote, target)
      /\ queue' = Tail(queue) /\ answers' = Tail(answers)
      /\ cache' = IF a.refused THEN cache
                  ELSE [cache EXCEPT ![k] = Acknowledged(@, a)]
      /\ history' = history
      /\ UNCHANGED <<server, wire, keys, open, updates, resetting, offline>>
  BY <1>3, <1>4, <1>5 DEF WriteAnswered, server
<1>7. ReadInv'
  BY <1>1, WriteAnsweredStep DEF SyncInv
<1>8. PICK q, b : q = queue' /\ b = answers'
  OBVIOUS
<1>9. /\ 1 \in 1 .. Len(answers) /\ Len(answers) \in Nat
      /\ Len(b) = Len(answers) - 1
      /\ \A i \in 1 .. Len(b) : b[i] = answers[i + 1] /\ i + 1 \in 1 .. Len(answers)
  BY <1>2, <1>6, <1>8, TailIs
<1>10. Len(queue) \in Nat /\ queue # << >>
  BY <1>2, <1>9, LenProperties, EmptySeq
<1>11. /\ Len(q) = Len(queue) - 1 /\ q \in Seq(Writes)
       /\ \A i \in 1 .. Len(q) : q[i] = queue[i + 1]
  BY <1>2, <1>6, <1>8, <1>10, TailIs
<1>12. a.write = queue[1] /\ (~a.refused => Was(history, k, Made(a)))
  BY <1>1, <1>3, <1>4, <1>9 DEF ToldInv, AnswersTrue
<1>13. AnswersTrue'
  <2>1. ASSUME NEW i \in 1 .. Len(b)
        PROVE  /\ b[i].write = q[i]
               /\ ~b[i].refused => Was(history, Where[q[i]], Made(b[i]))
    <3>1. PICK j \in 1 .. Len(answers) : j = i + 1 /\ b[i] = answers[j]
      BY <1>9
    <3>2. q[i] = queue[j]
      BY <1>2, <1>9, <1>10, <1>11, <3>1
    <3> QED
      BY <1>1, <3>1, <3>2 DEF ToldInv, AnswersTrue
  <2> QED
    BY <1>6, <1>8, <2>1 DEF AnswersTrue, Made
<1>14. PICK y : y = Acknowledged(cache[k], a)
  OBVIOUS
<1>15. ~a.refused => Was(history, k, y)
  <2>1. CASE cache[k].version >= a.version
    BY <1>1, <1>14, <2>1 DEF Acknowledged, ToldInv, CacheTrue
  <2>2. CASE ~(cache[k].version >= a.version)
    <3>1. y = [version |-> a.version, value |-> a.write, committed |-> TRUE,
               read |-> a.read]
      BY <1>14, <2>2 DEF Acknowledged
    <3>2. y.version = a.version /\ y.value = a.write
      BY <3>1
    <3> QED
      BY <1>12, <3>2 DEF Was, Made
  <2> QED
    BY <2>1, <2>2
<1>16. PICK c : c = cache'
  OBVIOUS
<1>17. /\ c = cache \/ (~a.refused /\ c = [cache EXCEPT ![k] = y])
       /\ y \in Cached
  <2>1. cache[k] \in Cached
    BY <1>2
  <2>2. y \in Cached
    BY <1>14, <2>1, AcknowledgedIs
  <2>3. a.refused \in BOOLEAN
    BY <1>3 DEF Answer
  <2>4. c = IF a.refused THEN cache ELSE [cache EXCEPT ![k] = y]
    BY <1>6, <1>14, <1>16
  <2>5. CASE a.refused
    BY <2>2, <2>4, <2>5
  <2>6. CASE ~a.refused
    BY <2>2, <2>4, <2>6
  <2> QED
    BY <2>5, <2>6
<1>18. c \in [Docs -> Cached] /\ \A j \in Docs \ ks : c[j] = cache[j]
  BY <1>2, <1>5, <1>17
<1>19. CacheTrue'
  <2>1. ASSUME NEW j \in Docs
        PROVE  Was(history, j, c[j])
    <3>1. CASE c[j] = cache[j]
      BY <1>1, <3>1 DEF ToldInv, CacheTrue
    <3>2. CASE c[j] # cache[j]
      <4>1. ~a.refused /\ c = [cache EXCEPT ![k] = y]
        BY <1>17, <3>2
      <4>2. j = k /\ c[j] = y
        BY <1>2, <3>2, <4>1
      <4> QED
        BY <1>15, <4>1, <4>2
    <3> QED
      BY <3>1, <3>2
  <2> QED
    BY <1>6, <1>16, <2>1 DEF CacheTrue
<1>20. \A j \in Docs \ ks : SameLocal(cache', queue', cache, queue, j)
  BY <1>2, <1>4, <1>5, <1>6, <1>10, <1>12, ShorterQueue
<1> QED
  BY <1>6, <1>7, <1>8, <1>11, <1>13, <1>16, <1>18, <1>19, <1>20, EmittedLocal

-----------------------------------------------------------------------------
(* The query starts from the disk.                                         *)
LEMMA FoundFacts ==
    ASSUME NEW c, NEW q, NEW ks, NEW n, NEW k \in Docs,
           LocalDoc(c, q, k).value # Absent
    PROVE  /\ Queued(q, k) /\ q \in Seq(Writes) => k \in IndexFree(c, q, ks, n)
           /\ k \notin IndexFree(c, q, ks, n) =>
                  n # 0 /\ k \notin ks /\ ~(c[k].read > n)
<1>1. Queued(q, k) /\ q \in Seq(Writes) => k \in {Where[q[i]] : i \in DOMAIN q}
  BY LenProperties DEF Queued
<1> QED
  BY <1>1 DEF IndexFree, Found

(* The first view shows what the query finds.                              *)
LEMMA FirstView ==
    ASSUME NEW l, Listen(l), ~view.on
    PROVE  LET found == IndexFree(cache, queue, keys, saved.limboFree)
           IN  \A k \in Docs :
                   IF k \in found
                   THEN /\ view'.docs[k] = LocalDoc(cache, queue, k).value
                        /\ LocalDoc(cache, queue, k).local => k \in view'.mutated
                   ELSE view'.docs[k] = Absent
<1>1. PICK found : found = IndexFree(cache, queue, keys, saved.limboFree)
  OBVIOUS
<1>2. PICK d : d = [k \in Docs |-> LocalDoc(cache, queue, k)]
  OBVIOUS
<1>3. PICK change : change = [k \in Docs |-> IF k \in found THEN "added" ELSE "none"]
  OBVIOUS
<1>4. PICK fresh : fresh = [NoView EXCEPT !.synced = keys]
  OBVIOUS
<1>5. view' = ApplyChanges(fresh, change, d, NoTargetChange(fresh))
  BY <1>1, <1>2, <1>3, <1>4 DEF Listen
<1>6. PICK applied : applied = {k \in Docs : change[k] # "none"}
  OBVIOUS
<1>7. PICK docs : docs = [k \in Docs |-> IF k \in applied THEN d[k].value
                                         ELSE fresh.docs[k]]
  OBVIOUS
<1>8. PICK mutated : mutated = (fresh.mutated \ applied)
                                   \cup {k \in applied : d[k].local}
  OBVIOUS
<1>9. view'.docs = docs /\ view'.mutated = mutated
  <2>1. PICK v : v = view'
    OBVIOUS
  <2>2. PICK on, synced, current, limbo, state :
            v = [on |-> on, docs |-> docs, mutated |-> mutated,
                 synced |-> synced, current |-> current, limbo |-> limbo,
                 state |-> state]
    BY <1>5, <1>6, <1>7, <1>8, <2>1 DEF ApplyChanges
  <2> QED
    BY <2>1, <2>2
<1>10. \A k \in Docs : fresh.docs[k] = Absent
  BY <1>4 DEF NoView
<1>11. \A k \in Docs : k \in applied <=> k \in found
  BY <1>3, <1>6
<1> QED
  BY <1>1, <1>2, <1>7, <1>8, <1>9, <1>10, <1>11

LEMMA ListenLocal ==
    LocalInv /\ (\E l \in Listeners : Listen(l)) => ToldInv' /\ ViewKept'
<1> SUFFICES ASSUME LocalInv, NEW l \in Listeners, Listen(l)
             PROVE  ToldInv' /\ ViewKept'
  OBVIOUS
<1>1. SyncInv /\ ToldInv /\ ViewKept /\ ReadInv /\ remote \in Remote
      /\ view.on \in BOOLEAN
  BY ReadFacts DEF LocalInv, QueryInv, SyncInv, View
<1>2. /\ history' = history /\ answers' = answers /\ updates' = updates
      /\ wire' = wire /\ cache' = cache /\ queue' = queue /\ keys' = keys
      /\ resetting' = resetting /\ Now' = Now /\ open' = open
  BY DEF Listen, disk, server, Now, Clock
<1>3. NowTrue' /\ CacheTrue' /\ WireTrue' /\ UpdatesTrue' /\ AnswersTrue'
      /\ (~open => updates = NoUpdates)'
  BY <1>1, <1>2 DEF ToldInv, NowTrue, CacheTrue, WireTrue, UpdatesTrue, AnswersTrue
<1>4. CASE view.on
  <2>1. view' = view /\ remote' = remote /\ target' = target
    BY <1>4 DEF Listen
  <2>2. ToldInv'
    BY <1>1, <1>2, <1>3, <2>1 DEF ToldInv
  <2>3. \A k \in Docs : Behind(k) => Behind(k)'
    BY <1>2 DEF Behind
  <2>4. ViewKept'
    BY <1>1, <1>2, <2>1, <2>3, BesideKept
  <2> QED
    BY <2>2, <2>4
<1>5. CASE ~view.on
  <2>1. target' = saved /\ ~open /\ Base = saved.token
    BY <1>1, <1>5 DEF Listen, ReadInv, ViewFirst, Base
  <2>2. wire = << >> /\ remote.agg = << >> /\ updates = NoUpdates
    BY <1>1, <2>1, ReadFacts DEF Watching, Closed, ToldInv
  <2>3. ChangesIn(remote') = Untouched
    <3>1. PICK r, s : r \in Remote /\ r = remote /\ s = remote'
      BY <1>1
    <3>2. s.agg = r.agg
      BY <1>5, <3>1 DEF Listen, Remote
    <3>3. StateOf(s, Query) = Fresh
      BY <2>2, <3>1, <3>2, EmptyTable DEF StateOf
    <3> QED
      BY <3>1, <3>3 DEF ChangesIn, Fresh
  <2>4. ToldInv'
    BY <1>3, <2>3 DEF ToldInv, Has, Untouched
  <2>5. PICK v, c, q : v = view' /\ c = cache /\ q = queue
    OBVIOUS
  <2>6. c \in [Docs -> Cached] /\ q \in Seq(Writes)
    BY <1>1, <2>5, DiskIs
  <2>7. PICK found : found = IndexFree(c, q, keys, saved.limboFree)
    OBVIOUS
  <2>8. ASSUME NEW k \in Docs
        PROVE  Kept(k)'
    <3>1. PICK d : d = LocalDoc(c, q, k)
      OBVIOUS
    <3>2. /\ Queued(q, k) => d.local /\ d.value # Absent
          /\ ~Queued(q, k) => d.value = c[k].value
      BY <2>6, <3>1, LocalDocCases
    <3>3. IF k \in found THEN v.docs[k] = d.value /\ (d.local => k \in v.mutated)
          ELSE v.docs[k] = Absent
      BY <1>5, <2>5, <2>7, <3>1, FirstView
    <3>4. CASE Queued(q, k)
      <4>1. k \in found
        BY <2>6, <2>7, <3>1, <3>2, <3>4, FoundFacts
      <4> QED
        BY <1>2, <2>5, <3>1, <3>2, <3>3, <3>4, <4>1 DEF Kept
    <3>5. CASE ~Queued(q, k) /\ (k \in found \/ c[k].value = Absent)
      <4>1. v.docs[k] = c[k].value
        BY <3>2, <3>3, <3>5
      <4> QED
        BY <1>2, <2>5, <3>5, <4>1 DEF Kept
    <3>6. CASE ~Queued(q, k) /\ k \notin found /\ c[k].value # Absent
      <4>1. saved.limboFree # 0 /\ k \notin keys /\ ~(c[k].read > saved.limboFree)
        BY <2>7, <3>1, <3>2, <3>6, FoundFacts
      <4>2. /\ c[k].read \in Nat /\ c[k].version \in Nat
            /\ c[k].version <= c[k].read
            /\ Now[k].version \in Nat
        BY <1>1, <2>5, CacheFacts DEF ToldInv
      <4>3. /\ saved.limboFree <= saved.token
            /\ saved.limboFree \in Nat /\ saved.token \in Nat
        BY <1>1 DEF SyncInv, Tokens, Types, ReadInv, DiskTypes, TargetData
      <4>4. c[k].read <= saved.limboFree
        BY <4>1, <4>2, <4>3
      <4>5. ASSUME resetting # "torn"
            PROVE  Now[k].value = Absent \/ Now[k].version > c[k].version
        <5>1. ~There(Now, k, saved.token)
          BY <1>1, <2>1, <4>1, <4>5 DEF SyncInv, KeysKept
        <5> QED
          BY <4>2, <4>3, <4>4, <5>1 DEF There
      <4>6. Under(wire) = {} /\ updates[k] = << >>
        BY <2>2 DEF Under, NoUpdates
      <4>7. resetting # "torn" => Behind(k)'
        BY <1>2, <2>5, <4>5, <4>6 DEF Behind
      <4>8. v.docs[k] = Absent
        BY <3>3, <3>6
      <4>9. Missed(k)'
        BY <1>2, <2>1, <2>5, <3>6, <4>1, <4>4, <4>7, <4>8 DEF Missed, Unfound
      <4> QED
        BY <1>2, <2>5, <3>6, <4>9 DEF Kept
    <3> QED
      BY <3>4, <3>5, <3>6
  <2> QED
    BY <2>4, <2>8 DEF ViewKept
<1> QED
  BY <1>1, <1>4, <1>5

-----------------------------------------------------------------------------
(* A snapshot.                                                             *)
LEMMA AfterUntouched ==
    ASSUME SyncInv, QueryKept, wire # << >>, IsSnapshot(wire[1]),
           NEW n \in Nat, NEW q, q = TargetsAfter(n), QueryActive(q)
    PROVE  ChangesIn(q) = Untouched
<1>1. /\ remote \in Remote /\ open /\ Query \in DOMAIN remote.listens /\ ReadInv
  BY SyncFacts DEF SyncInv
<1>2. PICK s : s = Renewed(n)
  OBVIOUS
<1>3. /\ s \in Remote /\ DOMAIN s.listens = DOMAIN remote.listens
      /\ StateOf(s, Query).pending = StateOf(remote, Query).pending
      /\ Query \in Active => StateOf(s, Query).changes = Untouched
  BY <1>1, <1>2, RenewedIs
<1>4. CASE resets = {}
  <2>1. q = s
    BY <1>2, <1>4, TargetsAfterIs
  <2>2. Query \in Active
    BY <1>1, <1>3, <2>1, ActiveIs DEF QueryActive
  <2> QED
    BY <1>3, <2>1, <2>2 DEF ChangesIn
<1>5. CASE resets # {}
  <2>1. q = Rewatched(s)
    BY <1>2, <1>5, TargetsAfterIs
  <2>2. StateOf(q, Query).pending = StateOf(s, Query).pending + 1 + 1
    BY <1>1, <1>3, <2>1, RewatchedIs
  <2>3. StateOf(remote, Query).pending = 0
    BY <1>5, SnapshotCases DEF QueryActive
  <2> QED
    BY <1>3, <2>2, <2>3 DEF QueryActive
<1> QED
  BY <1>4, <1>5

(* What the cache has after the snapshot.                                  *)
LEMMA AfterTrue ==
    ASSUME ToldInv, NEW n
    PROVE  \A k \in Docs :
               Was(history, k, CacheAfter(DocumentUpdates(n), n)[k])
<1>1. PICK u : u = DocumentUpdates(n)
  OBVIOUS
<1> SUFFICES ASSUME NEW k \in Docs
             PROVE  Was(history, k, CacheAfter(u, n)[k])
  BY <1>1
<1>2. PICK c : c = CacheAfter(u, n)[k]
  OBVIOUS
<1>3. CASE k \notin Changed(u)
  <2>1. c = cache[k]
    BY <1>2, <1>3 DEF CacheAfter
  <2> QED
    BY <1>2, <2>1 DEF ToldInv, CacheTrue
<1>4. CASE k \in Changed(u) /\ u[k][1].version = 0
  <2>1. c = Invalid
    BY <1>2, <1>4 DEF CacheAfter
  <2> QED
    BY <1>2, <2>1 DEF Was, Invalid
<1>5. CASE k \in Changed(u) /\ u[k][1].version # 0
  <2>1. PICK x : x = u[k][1]
    OBVIOUS
  <2>2. c = [version |-> x.version, value |-> x.value, committed |-> FALSE,
             read |-> n]
    BY <1>2, <1>5, <2>1 DEF CacheAfter
  <2>3. c.version = x.version /\ c.value = x.value
    BY <2>2
  <2>4. Was(history, k, x)
    <3>1. u[k] = Deleted(n) \/ u[k] = updates[k]
      BY <1>1 DEF DocumentUpdates
    <3>2. CASE u[k] = Deleted(n)
      BY <2>1, <3>2 DEF Deleted, Was
    <3>3. CASE u[k] = updates[k]
      <4>1. u[k] # << >>
        BY <1>5 DEF Changed
      <4> QED
        BY <2>1, <3>3, <4>1 DEF ToldInv, UpdatesTrue
    <3> QED
      BY <3>1, <3>2, <3>3
  <2> QED
    BY <1>2, <2>3, <2>4 DEF Was
<1> QED
  BY <1>3, <1>4, <1>5

(* A document that is added though the query on the disk did not find it   *)
(* is in the cache anew.                                                   *)
LEMMA AddedChanges ==
    ASSUME SyncInv, QueryKept, ToldInv, wire # << >>, NEW n,
           NEW k \in KeysWith(Query, "added"), Behind(k)
    PROVE  k \in Changed(DocumentUpdates(n))
<1>1. k \in Docs /\ Query \in Active /\ ChangesIn(remote)[k] = "added"
  BY DEF KeysWith, ChangesIn
<1>2. QueryActive(remote)
  BY <1>1, ActiveIs
<1>3. updates[k] # << >>
  BY <1>1, <1>2 DEF ToldInv, Has
<1>4. PICK u : u = DocumentUpdates(n)
  OBVIOUS
<1>5. u[k] = updates[k]
  BY <1>1, <1>3, <1>4 DEF DocumentUpdates
<1>6. Newly(u[k][1], cache[k])
  BY <1>3, <1>5 DEF Behind
<1> QED
  BY <1>1, <1>3, <1>4, <1>5, <1>6 DEF Changed, Replaces, Newly

LEMMA SnapshotTorn ==
    ASSUME OnSnapshot, resetting = "torn"
    PROVE  resetting' = "torn"
<1>1. resetting' = CASE resets # {} /\ resetting = "no" -> "yes"
                     [] /\ resetting = "yes" /\ resets = {}
                        /\ view'.state = "Synced"
                        /\ view'.mutated = {} -> "no"
                     [] OTHER -> resetting
  BY Zenon DEF OnSnapshot
<1> QED
  BY <1>1

LEMMA SameQueue ==
    ASSUME NEW q \in Seq(Writes), NEW k, NEW c, NEW d
    PROVE  SameLocal(c, q, d, q, k)
BY LastExists, LastLocal DEF SameLocal

LEMMA SnapshotLocal == LocalInv /\ OnSnapshot => ToldInv' /\ ViewKept'
<1> SUFFICES ASSUME LocalInv, OnSnapshot PROVE ToldInv' /\ ViewKept'
  OBVIOUS
<1>1. SyncInv /\ QueryKept /\ ToldInv /\ ViewKept /\ Types
  BY DEF LocalInv, QueryInv, SyncInv, ReadInv
<1>2. PICK n \in Nat, tc \in TargetChange, t \in TargetData :
          /\ n = wire[1].version /\ Taken(n, tc, t)
  <2>1. PICK tc, t : Taken(wire[1].version, tc, t)
    BY <1>1, SnapshotTaken
  <2>2. tc \in TargetChange /\ t \in TargetData
    BY <2>1 DEF Taken
  <2> QED
    BY <1>1, <2>1, <2>2, SnapshotTaken
<1>3. /\ wire # << >> /\ IsSnapshot(wire[1]) /\ wire' = Tail(wire)
      /\ history' = history
      /\ cache' = CacheAfter(DocumentUpdates(n), n)
      /\ answers' = answers /\ open' = open
      /\ updates' = NoUpdates /\ queue' = queue
      /\ Now' = Now
  BY <1>1, <1>2, SnapshotTaken DEF Now, Clock
<1>4. ReadInv'
  BY <1>1, SnapshotStep DEF SyncInv
<1>5. /\ view.on
      /\ t.limboFree <= t.token /\ t.token \in Nat
      /\ TargetsAfter(n) \in Remote /\ SameQuery(remote', TargetsAfter(n))
  BY <1>1, <1>2, <1>4, SnapshotEmitted
<1>6. Has(updates, remote)'
  <2> SUFFICES ASSUME QueryActive(remote')
               PROVE  ChangesIn(remote') = Untouched
    BY DEF Has, Untouched
  <2>1. PICK q \in Remote : q = TargetsAfter(n) /\ SameQuery(remote', q)
    BY <1>5
  <2>2. remote' \in Remote
    BY <1>4 DEF ReadInv, Types, ClientTypes
  <2>3. QueryActive(q) /\ ChangesIn(remote') = ChangesIn(q)
    BY <2>1, <2>2, SameQueryQuiet
  <2> QED
    BY <1>1, <1>3, <2>1, <2>3, AfterUntouched
<1>7. \A k \in Docs : updates'[k] = << >>
  BY <1>3 DEF NoUpdates
<1>8. Under(wire') \subseteq Under(wire) /\ wire \in Seq(Response)
  BY <1>1, <1>3, SyncFacts, UnderTail
<1>9. CacheTrue'
  BY <1>1, <1>3, AfterTrue DEF CacheTrue
<1>10. WireTrue'
  BY <1>1, <1>3, <1>8 DEF ToldInv, WireTrue
<1>11. NowTrue' /\ UpdatesTrue' /\ AnswersTrue'
  BY <1>1, <1>3, <1>7 DEF ToldInv, NowTrue, UpdatesTrue, AnswersTrue
<1>12. ToldInv'
  BY <1>3, <1>6, <1>9, <1>10, <1>11 DEF ToldInv
<1>13. PICK ks \in SUBSET Docs : ks = Changed(DocumentUpdates(n))
  BY DEF Changed
<1>14. PICK r : r = TargetsAfter(n)
  OBVIOUS
<1>15. Emit(ks, tc, r, t)
  BY <1>2, <1>13, <1>14 DEF Taken
<1>16. cache' \in [Docs -> Cached] /\ queue' \in Seq(Writes)
  BY <1>4 DEF ReadInv, Types, DiskTypes
<1>17. /\ \A k \in Docs \ ks : /\ view'.docs[k] = view.docs[k]
                               /\ k \in view'.mutated <=> k \in view.mutated
       /\ \A k \in ks : ShownAs(view'.docs, view'.mutated, k,
                                LocalDoc(cache', queue', k))
       /\ target'.limboFree \in {t.limboFree, t.token}
  BY <1>1, <1>5, <1>15, <1>16, EmitDocs
<1>18. /\ target.limboFree <= target'.limboFree /\ target.limboFree \in Nat
       /\ target'.limboFree \in Nat
  <2>1. t.limboFree = target.limboFree
    BY <1>2 DEF Taken
  <2>2. t.limboFree \in Nat
    BY DEF TargetData
  <2> QED
    BY <1>5, <1>17, <2>1, <2>2
<1>19. \A k \in Docs \ ks : cache'[k] = cache[k]
  BY <1>3, <1>13 DEF CacheAfter
<1>20. ASSUME NEW k \in Docs \ ks, Missed(k), resetting' # "torn"
       PROVE  Unfound(k)'
  <2>1. Unfound(k)
    BY <1>20, SnapshotTorn DEF Missed
  <2>2. k \notin KeysWith(Query, "added")
    BY <1>1, <1>3, <1>13, <2>1, AddedChanges DEF Unfound
  <2>3. k \notin keys'
    <3>1. keys' = keys \/ keys' = (keys \ KeysWith(Query, "removed"))
                                      \cup KeysWith(Query, "added")
      BY <1>2 DEF Taken
    <3> QED
      BY <2>1, <2>2, <3>1 DEF Unfound
  <2>4. cache[k].read \in Nat
    BY <1>1, CacheFacts DEF ToldInv
  <2>5. Behind(k)'
    BY <1>3, <1>7, <1>8, <1>19, <2>1 DEF Unfound, Behind
  <2> QED
    BY <1>18, <1>19, <2>1, <2>3, <2>4, <2>5 DEF Unfound
<1>21. \A k \in Docs \ ks : SameLocal(cache', queue', cache, queue, k)
  BY <1>3, <1>16, SameQueue
<1>22. ViewKept'
  BY <1>1, <1>5, <1>16, <1>17, <1>19, <1>20, <1>21, ShownKept
<1> QED
  BY <1>12, <1>22

-----------------------------------------------------------------------------
(* The invariant, and the theorem.                                         *)
LEMMA LocalInit == Init => LocalInv
<1> SUFFICES ASSUME Init PROVE LocalInv
  OBVIOUS
<1>1. QueryInv
  BY QueryInit
<1>2. /\ wire = << >> /\ answers = << >> /\ updates = NoUpdates
      /\ remote = NoTargets /\ view = NoView
      /\ cache = [k \in Docs |-> Invalid]
  BY DEF Init
<1>3. NowTrue
  <2>1. PICK x : /\ history = <<x>>
                 /\ \A k \in Docs : x[k].version = 1
    <3>1. PICK x : x = [k \in Docs |->
                           [version |-> 1,
                            value |-> IF \E f \in Early : Where[f] = k
                                      THEN CHOOSE f \in Early : Where[f] = k
                                      ELSE Absent]]
      OBVIOUS
    <3> QED
      BY <3>1 DEF Init
  <2>2. Now = x /\ Len(history) = 1 /\ history[1] = x
    BY <2>1 DEF Now, Clock
  <2> QED
    BY <2>1, <2>2 DEF NowTrue, Was
<1>4. CacheTrue
  BY <1>2 DEF CacheTrue, Was, Invalid
<1>5. WireTrue /\ UpdatesTrue /\ AnswersTrue
  BY <1>2 DEF WireTrue, Under, UpdatesTrue, NoUpdates, AnswersTrue
<1>6. Has(updates, remote)
  BY <1>2 DEF Has, QueryActive, NoTargets
<1>7. ToldInv
  BY <1>2, <1>3, <1>4, <1>5, <1>6 DEF ToldInv
<1>8. ViewKept
  BY <1>2 DEF ViewKept, NoView
<1> QED
  BY <1>1, <1>7, <1>8 DEF LocalInv

LEMMA LocalStep == LocalInv /\ [Next]_vars => LocalInv'
<1> SUFFICES ASSUME LocalInv, [Next]_vars
             PROVE  ToldInv' /\ ViewKept'
  BY QueryStep DEF LocalInv
<1>1. CASE OnWatchStreamChange
  BY <1>1, TargetAddedLocal, TargetRemovedLocal, TargetCurrentLocal,
     DocumentLocal, DeleteLocal, ExistenceFilterLocal, SnapshotLocal
     DEF OnWatchStreamChange
<1>2. CASE Next /\ ~OnWatchStreamChange
  BY <1>2, ForeignSetLocal, DeletedLocal, CommitLocal, ServerTakesLocal,
     SendsLocal, ListenLocal, WriteLocal, WriteAnsweredLocal, AnswersLostLocal,
     OpenLocal, CloseLocal, OfflineLocal, CrashLocal DEF Next
<1>3. CASE UNCHANGED vars
  BY <1>3, NoStepLocal
<1> QED
  BY <1>1, <1>2, <1>3

THEOREM LocalHolds == Spec => []LocalInv
<1> QED
  BY LocalInit, LocalStep, PTL DEF Spec

(* A document with a pending write is in the view as the last write sets   *)
(* it; another one is as in the cache, unless its own write was committed, *)
(* or the query on the disk, started now, would not find it.               *)
LEMMA LocalFollows == LocalInv => ViewIsLocal
<1> SUFFICES ASSUME LocalInv, view.on, resetting # "torn", NEW k \in Docs
             PROVE  \/ view.docs[k] = LocalDoc(cache, queue, k).value
                    \/ cache[k].committed
                    \/ /\ view.docs[k] = Absent
                       /\ k \notin IndexFree(cache, queue, keys, target.limboFree)
  BY DEF ViewIsLocal
<1>1. SyncInv /\ ToldInv /\ Kept(k)
  BY DEF LocalInv, QueryInv, ViewKept
<1>2. cache \in [Docs -> Cached] /\ queue \in Seq(Writes) /\ target \in TargetData
  BY <1>1, DiskIs DEF SyncInv, ReadInv, Types, ClientTypes
<1>3. CASE Queued(queue, k)
  BY <1>1, <1>3 DEF Kept
<1>4. CASE ~Queued(queue, k)
  <2>1. PICK d : d = LocalDoc(cache, queue, k)
    OBVIOUS
  <2>2. d.value = cache[k].value
    BY <1>2, <1>4, <2>1, LocalDocCases
  <2>3. CASE view.docs[k] = cache[k].value
    BY <2>1, <2>2, <2>3
  <2>4. CASE Awaits(k)
    BY <2>4 DEF Awaits
  <2>5. CASE Missed(k)
    <3>1. Unfound(k) /\ view.docs[k] = Absent
      BY <2>5 DEF Missed
    <3>2. cache[k].read \in Nat /\ target.limboFree \in Nat
      BY <1>1, <1>2, CacheFacts DEF ToldInv, TargetData
    <3>3. \A i \in DOMAIN queue : Where[queue[i]] # k
      BY <1>2, <1>4, LenProperties DEF Queued
    <3>4. k \notin IndexFree(cache, queue, keys, target.limboFree)
      BY <3>1, <3>2, <3>3 DEF IndexFree, Found, Unfound
    <3> QED
      BY <3>1, <3>4
  <2> QED
    BY <1>1, <1>4, <2>3, <2>4, <2>5 DEF Kept
<1> QED
  BY <1>3, <1>4

(* The view, kept up by changes, is what the disk would give: writes, their *)
(* answers and snapshots pass by no document that differs.                 *)
THEOREM ViewAgreesWithDisk == Spec => []ViewIsLocal
<1> QED
  BY LocalHolds, LocalFollows, PTL

=============================================================================
