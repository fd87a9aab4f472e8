------------------------------ MODULE LocalView ------------------------------
(***************************************************************************)
(* The read path of the Firestore client on one device, from the watch     *)
(* stream to the snapshot listeners of the program, for one collection:    *)
(* the watch change aggregator and the targets of RemoteStore, the lookups *)
(* of documents in limbo (SyncEngine), the document cache, mutation queue  *)
(* and target data on the disk (LocalStore), the index-free query          *)
(* (QueryEngine), the View and the listeners (EventManager).               *)
(*                                                                         *)
(* A document is a version and a value, a value is the write that set it.  *)
(* Other devices write to the collection, and documents are deleted in the *)
(* console.  A resume token is the version it was given out at.  Each      *)
(* action is one task of the worker queue, a step of the server or a fault.*)
(***************************************************************************)
EXTENDS Integers, Sequences, FiniteSets, SequencesExt

CONSTANTS
    Docs,           \* the documents of the collection
    Writes,         \* the sets this device makes
    Foreign,        \* the sets other devices make
    Early,          \* those of them made before this device starts
    Where,          \* the document each of them sets
    Absent,         \* the value of a document that does not exist
    Listeners,      \* the snapshot listeners of the program
    MaxLookups,     \* kMaxConcurrentLimboResolutions
    MaxDeletes,     \* bound: documents deleted in the console
    MaxFaults       \* bound: streams that break and process deaths

ASSUME ViewAssumption ==
    /\ \A w \in Writes \cup Foreign : w \in DOMAIN Where /\ Where[w] \in Docs
    /\ Early \subseteq Foreign
    /\ \A f, g \in Early : Where[f] = Where[g] => f = g
    /\ Writes \cap Foreign = {} /\ Absent \notin Writes \cup Foreign
    /\ IsFiniteSet(Docs)
    /\ MaxLookups \in Nat \ {0}
    /\ MaxDeletes \in Nat /\ MaxFaults \in Nat

VARIABLES
    history,        \* server: the collection at each version
    served,         \* server: the targets of the watch stream
    wire,           \* watch responses under way
    answers,        \* write responses under way
    queue,          \* disk: the mutation queue
    cache,          \* disk: the remote document cache
    keys,           \* disk: the matching keys of the target
    saved,          \* disk: the target data
    last,           \* disk: last_remote_snapshot_version
    target,         \* target data of the active target, in memory
    open,           \* the watch stream is open
    offline,        \* OnlineState is Offline
    remote,         \* targets, lookups, aggregator and requests
    updates,        \* pending_document_updates_
    resets,         \* pending_target_resets_
    view,           \* the View of the query
    opened,         \* listeners the program has added
    raised,         \* listeners that had their first event
    shown,          \* what the events of each listener add up to
    made,           \* history: the writes made, by whom ever
    resetting,      \* history: an existence filter did not match
    deletes, faults

server == <<history, served>>
disk == <<queue, cache, keys, saved, last>>
program == <<opened, raised, shown>>
counters == <<deletes, faults>>
vars == <<server, wire, answers, disk, target, open, offline, remote, updates,
          resets, view, program, made, resetting, counters>>

-----------------------------------------------------------------------------
Query == 0                              \* the target id of the query
Values == Writes \cup Foreign \cup {Absent}
Version == Nat
Invalid == [version |-> 0, value |-> Absent, committed |-> FALSE, read |-> 0]
Unknown == [token |-> 0, limboFree |-> 0]
Untouched == [k \in Docs |-> "none"]
Fresh == [pending |-> 0, current |-> FALSE, changes |-> Untouched]
NoUpdates == [k \in Docs |-> << >>]

Clock == Len(history)
Now == history[Clock]

NoView ==
    [on |-> FALSE, docs |-> [k \in Docs |-> Absent], mutated |-> {},
     synced |-> {}, current |-> FALSE, limbo |-> {}, state |-> "None"]
NoTargets ==
    [listens |-> << >>, limbo |-> << >>, waiting |-> << >>, next |-> 1,
     agg |-> << >>, requests |-> << >>]

-----------------------------------------------------------------------------
(* The local view of a document: the last pending set of it, or else the   *)
(* cached document, which may have a committed mutation the watch stream   *)
(* has not told of.                                                        *)
LocalDoc(c, q, k) ==
    LET mine == {i \in DOMAIN q : Where[q[i]] = k}
    IN  IF mine # {}
        THEN [value |-> q[Max(mine)], local |-> TRUE, committed |-> FALSE]
        ELSE [value |-> c[k].value, local |-> FALSE,
              committed |-> c[k].committed]

Found(c, q, ks) == {k \in ks : LocalDoc(c, q, k).value # Absent}

(* Slip: what was read since is left out. *)
ByKeysAlone(c, q, ks, since) ==
    IF since = 0 THEN Found(c, q, Docs)
    ELSE Found(c, q, ks \cup {Where[q[i]] : i \in DOMAIN q})

(* The query by the keys that matched before, and whatever was read after  *)
(* the last snapshot without documents in limbo; a full scan if there was  *)
(* no such snapshot.                                                       *)
IndexFree(c, q, ks, since) ==
    IF since = 0
    THEN Found(c, q, Docs)
    ELSE Found(c, q, ks \cup {k \in Docs : c[k].read > since}
                        \cup {Where[q[i]] : i \in DOMAIN q})

(* Slip: any update replaces the cached document. *)
ReplacesAlways(u, c) == TRUE

(* PopulateDocumentChanges: an update that is not older than the cached    *)
(* document replaces it.                                                   *)
Replaces(u, c) ==
    \/ c.version = 0
    \/ u.version > c.version
    \/ u.version = c.version /\ c.committed

-----------------------------------------------------------------------------
(* Slip: every change of a document with a pending write waits. *)
WaitsForAll(v, k, d) ==
    CASE v.docs[k] = Absent /\ d.value # Absent -> "added"
      [] v.docs[k] # Absent /\ d.value = Absent -> "removed"
      [] k \in v.mutated -> "none"
      [] v.docs[k] # d.value -> "modified"
      [] OTHER -> "none"

(* ComputeDocumentChanges, for one document.  A change that comes with an  *)
(* acknowledgment waits until the watch stream sends it too.               *)
ChangeOf(v, k, d) ==
    LET old == v.docs[k]
        waits == k \in v.mutated /\ d.committed
    IN  CASE old = Absent /\ d.value = Absent -> "none"
          [] old = Absent /\ d.value # Absent -> "added"
          [] old # Absent /\ d.value = Absent -> "removed"
          [] old # d.value /\ d.value # Absent /\ old # Absent ->
                IF waits THEN "none" ELSE "modified"
          [] OTHER ->
                IF (k \in v.mutated) # (d.local \/ waits)
                THEN "metadata" ELSE "none"

NoTargetChange(v) == [added |-> {}, removed |-> {}, current |-> v.current]

(* Slip: every document is taken for known. *)
NoneInLimbo(docs, mutated, synced) == {}

(* ShouldBeInLimbo: documents nothing but the cache speaks for.            *)
InLimbo(docs, mutated, synced) ==
    {k \in Docs : docs[k] # Absent /\ k \notin synced \cup mutated}

(* ApplyChanges, with the documents d and a change of the target.          *)
ApplyChanges(v, change, d, tc) ==
    LET applied == {k \in Docs : change[k] # "none"}
        docs == [k \in Docs |-> IF k \in applied THEN d[k].value ELSE v.docs[k]]
        mutated == (v.mutated \ applied)
                        \cup {k \in applied : d[k].local}
        synced == (v.synced \cup tc.added) \ tc.removed
        limbo == IF tc.current THEN InLimbo(docs, mutated, synced) ELSE v.limbo
    IN  [on |-> TRUE, docs |-> docs, mutated |-> mutated, synced |-> synced,
         current |-> tc.current, limbo |-> limbo,
         state |-> IF tc.current /\ limbo = {} THEN "Synced" ELSE "Local"]

(* QueryListener: the first event carries all documents, and waits for one *)
(* unless the view is synced or the client offline; the ones after it are  *)
(* raised for changes that are more than metadata.                         *)
FirstEvent(v, isOffline) ==
    v.state = "Synced" \/ isOffline \/ (\E k \in Docs : v.docs[k] # Absent)

(* Slip: listeners are not told of removals. *)
TellsNoRemoval(change, v, isOffline) ==
    LET first == IF FirstEvent(v, isOffline) THEN opened \ raised ELSE {}
    IN  /\ raised' = raised \cup first
        /\ shown' = [l \in Listeners |->
                        IF l \in first THEN v.docs
                        ELSE IF l \in raised
                             THEN [k \in Docs |->
                                    IF change[k] \in {"added", "modified"}
                                    THEN v.docs[k] ELSE shown[l][k]]
                             ELSE shown[l]]
        /\ UNCHANGED opened

OnViewSnapshot(change, v, isOffline) ==
    LET first == IF FirstEvent(v, isOffline) THEN opened \ raised ELSE {}
        told == {k \in Docs : change[k] \in {"added", "modified", "removed"}}
    IN  /\ raised' = raised \cup first
        /\ shown' = [l \in Listeners |->
                        IF l \in first THEN v.docs
                        ELSE IF l \in raised
                             THEN [k \in Docs |-> IF k \in told THEN v.docs[k]
                                                  ELSE shown[l][k]]
                             ELSE shown[l]]
        /\ UNCHANGED opened

-----------------------------------------------------------------------------
(* RemoteStore: a request counts as pending for its target until it is     *)
(* answered.                                                               *)
StateOf(r, id) == IF id \in DOMAIN r.agg THEN r.agg[id] ELSE Fresh

With(f, x, y) == [z \in DOMAIN f \cup {x} |-> IF z = x THEN y ELSE f[z]]

Without(f, x) == [y \in DOMAIN f \ {x} |-> f[y]]

(* Slip: the request is not counted. *)
SendUncounted(r, m) ==
    IF ~open THEN r
    ELSE [r EXCEPT !.agg = With(@, m.id, StateOf(r, m.id)),
                   !.requests = Append(@, m)]

Send(r, m) ==
    IF ~open THEN r
    ELSE [r EXCEPT !.agg = With(@, m.id, [StateOf(r, m.id) EXCEPT
                                            !.pending = @ + 1]),
                   !.requests = Append(@, m)]

Watch(id, covers, token) ==
    [ask |-> "watch", id |-> id, covers |-> covers, token |-> token]
Unwatch(id) == [ask |-> "unwatch", id |-> id, covers |-> {}, token |-> 0]

CoveredBy(r, id) == IF id = Query THEN Docs ELSE {r.limbo[id].key}

(* Slip: no lookup starts. *)
NeverPumps(r) == r

(* PumpEnqueuedLimboResolutions: one lookup starts for every one that ends *)
(* or is added, as long as there is room.                                  *)
Pump(r) ==
    IF r.waiting = << >> \/ Cardinality(DOMAIN r.limbo) >= MaxLookups THEN r
    ELSE LET k == Head(r.waiting)
         IN  Send([r EXCEPT !.waiting = Tail(@),
                            !.limbo = With(@, r.next, [key |-> k,
                                                       received |-> FALSE]),
                            !.listens = With(@, r.next, 0),
                            !.next = @ + 1],
                  Watch(r.next, {k}, 0))

LookupsOf(r, k) == {id \in DOMAIN r.limbo : r.limbo[id].key = k}

(* TrackLimboChange *)
Tracked(r, k) ==
    IF LookupsOf(r, k) # {} \/ k \in {r.waiting[i] : i \in DOMAIN r.waiting}
    THEN r
    ELSE Pump([r EXCEPT !.waiting = Append(@, k)])

(* A document waits once, if at all.                                       *)
Dequeued(s, k) ==
    IF \E i \in DOMAIN s : s[i] = k
    THEN RemoveAt(s, CHOOSE i \in DOMAIN s : s[i] = k)
    ELSE s

(* RemoveLimboTarget *)
Untracked(r, k) ==
    LET s == [r EXCEPT !.waiting = Dequeued(@, k)]
    IN  IF LookupsOf(r, k) = {} THEN s
        ELSE LET id == CHOOSE i \in LookupsOf(r, k) : TRUE
                 t == Send([s EXCEPT !.listens = Without(@, id)], Unwatch(id))
             IN  Pump([t EXCEPT !.limbo = Without(@, id)])

(* UpdateTrackedLimboDocuments, when the documents in limbo change: those  *)
(* that left it one by one, then those that came.                          *)
LimboUpdated(r, old, new) ==
    LET gone == SetToSeq(old \ new)
        come == SetToSeq(new \ old)
        after[i \in 0 .. Len(gone) + Len(come)] ==
            IF i = 0 THEN r
            ELSE IF i <= Len(gone) THEN Untracked(after[i - 1], gone[i])
            ELSE Tracked(after[i - 1], come[i - Len(gone)])
    IN  after[Len(gone) + Len(come)]

(* EmitNewSnapshotsAndNotifyLocalStore: the documents ks may have changed, *)
(* tc changes the target, r and t are the targets and target data so far.  *)
Emit(ks, tc, r, t) ==
    LET d == [k \in Docs |-> LocalDoc(cache', queue', k)]
        change == [k \in Docs |-> IF k \in ks THEN ChangeOf(view, k, d[k])
                                  ELSE "none"]
        v == ApplyChanges(view, change, d, tc)
        raises == v.state # view.state \/ \E k \in Docs : change[k] # "none"
    IN  IF ~view.on
        THEN /\ remote' = r /\ target' = t
             /\ UNCHANGED <<view, program>>
        ELSE /\ view' = v
             /\ remote' = LimboUpdated(r, view.limbo, v.limbo)
             /\ target' = IF raises /\ v.state = "Synced"
                          THEN [t EXCEPT !.limboFree = t.token] ELSE t
             /\ IF raises THEN OnViewSnapshot(change, v, offline')
                ELSE UNCHANGED program

-----------------------------------------------------------------------------
Init ==
    /\ history = <<[k \in Docs |->
                        [version |-> 1,
                         value |-> IF \E f \in Early : Where[f] = k
                                   THEN CHOOSE f \in Early : Where[f] = k
                                   ELSE Absent]]>>
    /\ served = << >> /\ wire = << >> /\ answers = << >>
    /\ queue = << >> /\ cache = [k \in Docs |-> Invalid]
    /\ keys = {} /\ saved = Unknown /\ last = 0
    /\ target = Unknown
    /\ open = FALSE /\ offline = FALSE
    /\ remote = NoTargets /\ updates = NoUpdates /\ resets = {}
    /\ view = NoView
    /\ opened = {} /\ raised = {}
    /\ shown = [l \in Listeners |-> NoView.docs]
    /\ made = Early /\ resetting = "no"
    /\ deletes = 0 /\ faults = 0

-----------------------------------------------------------------------------
(* The server.                                                             *)

Set(k, value) ==
    history' = Append(history, [Now EXCEPT ![k] = [version |-> Clock + 1,
                                                   value |-> value]])

(* Another device sets a document.                                         *)
ForeignSet(f) ==
    /\ f \notin made
    /\ made' = made \cup {f}
    /\ Set(Where[f], f)
    /\ UNCHANGED <<served, wire, answers, disk, target, open, offline, remote,
                   updates, resets, view, program, resetting, counters>>

(* A document is deleted in the console.                                   *)
Delete(k) ==
    /\ deletes < MaxDeletes
    /\ deletes' = deletes + 1
    /\ Now[k].value # Absent
    /\ Set(k, Absent)
    /\ UNCHANGED <<served, wire, answers, disk, target, open, offline, remote,
                   updates, resets, view, program, made, resetting, faults>>

(* The server commits the next write of the device, or refuses it and ends *)
(* the stream.  A write whose answer was lost is committed again.          *)
AtServer(w) == \E n \in 1 .. Clock : \E k \in Docs : history[n][k].value = w

Commit ==
    /\ Len(answers) < Len(queue)
    /\ \A i \in DOMAIN answers : ~answers[i].refused
    /\ LET w == queue[Len(answers) + 1]
           k == Where[w]
       IN  \/ /\ IF Now[k].value = w THEN UNCHANGED history ELSE Set(k, w)
              /\ answers' = Append(answers,
                    [write |-> w, refused |-> FALSE,
                     version |-> history'[Len(history')][k].version,
                     read |-> Len(history')])
           \/ /\ ~AtServer(w)
              /\ answers' = Append(answers,
                    [write |-> w, refused |-> TRUE, version |-> 0, read |-> 0])
              /\ UNCHANGED history
    /\ UNCHANGED <<served, wire, disk, target, open, offline, remote, updates,
                   resets, view, program, made, resetting, counters>>

(* The server takes the next watch request.                                *)
ServerTakes ==
    /\ remote.requests # << >>
    /\ remote' = [remote EXCEPT !.requests = Tail(@)]
    /\ LET m == Head(remote.requests)
       IN  \/ /\ m.ask = "watch"
              /\ served' = With(served, m.id,
                    [sent |-> m.token, current |-> FALSE, covers |-> m.covers])
              /\ wire' = Append(wire, [type |-> "added", id |-> m.id])
           \/ /\ m.ask = "unwatch"
              /\ served' = Without(served, m.id)
              /\ wire' = Append(wire, [type |-> "removed", id |-> m.id])
    /\ UNCHANGED <<history, answers, disk, target, open, offline, updates,
                   resets, view, program, made, resetting, counters>>

(* What the server sends of its targets to bring them from the version each *)
(* was sent to the present: documents that were set, documents that left a *)
(* target, CURRENT once.  When a target is resumed, or a lookup starts, the *)
(* server may have forgotten deletions, and sends an existence filter      *)
(* instead of them.                                                        *)
At(n, k) == IF n = 0 THEN Absent ELSE history[n][k].value

Documents ==
    UNION {{[type |-> "document", id |-> id, key |-> k,
             version |-> Now[k].version, value |-> Now[k].value] :
                k \in {j \in served[id].covers :
                            /\ Now[j].value # Absent
                            /\ Now[j].version > served[id].sent}} :
           id \in DOMAIN served}

Deletions(ids) ==
    UNION {{[type |-> "delete", id |-> id, key |-> k, version |-> Clock] :
                k \in {j \in served[id].covers :
                            /\ Now[j].value = Absent
                            /\ At(served[id].sent, j) # Absent}} :
           id \in ids}

Currents ==
    {[type |-> "current", id |-> id] :
        id \in {i \in DOMAIN served : ~served[i].current}}

Filters(ids) ==
    {[type |-> "filter", id |-> id,
      count |-> Cardinality({k \in served[id].covers : Now[k].value # Absent})] :
        id \in ids}

(* A consistent snapshot of all targets of the stream.                     *)
Sends(forgets) ==
    /\ \E id \in DOMAIN served : ~served[id].current \/ served[id].sent < Clock
    /\ LET filtered == {id \in DOMAIN served :
                            /\ forgets /\ ~served[id].current
                            /\ served[id].sent > 0 \/ id # Query}
       IN  wire' = wire
                \o SetToSeq(Documents)
                \o SetToSeq(Deletions(DOMAIN served \ filtered))
                \o SetToSeq(Currents)
                \o SetToSeq(Filters(filtered))
                \o <<[type |-> "snapshot", version |-> Clock]>>
    /\ served' = [id \in DOMAIN served |->
                    [served[id] EXCEPT !.sent = Clock, !.current = TRUE]]
    /\ UNCHANGED <<history, answers, disk, target, open, offline, remote,
                   updates, resets, view, program, made, resetting, counters>>

-----------------------------------------------------------------------------
(* The program and the write path.                                         *)

(* AddQueryListener: the first listener starts the query from the disk and *)
(* watches it; a later one is given the snapshot there is.  Nothing        *)
(* removes a listener.                                                     *)
Listen(l) ==
    /\ l \notin opened
    /\ opened' = opened \cup {l}
    /\ LET found == IndexFree(cache, queue, keys, saved.limboFree)
           d == [k \in Docs |-> LocalDoc(cache, queue, k)]
           change == [k \in Docs |-> IF k \in found THEN "added" ELSE "none"]
           fresh == [NoView EXCEPT !.synced = keys]
           v == IF view.on THEN view
                ELSE ApplyChanges(fresh, change, d, NoTargetChange(fresh))
       IN  /\ view' = v
           /\ raised' = IF FirstEvent(v, offline) THEN raised \cup {l} ELSE raised
           /\ shown' = IF FirstEvent(v, offline)
                       THEN [shown EXCEPT ![l] = v.docs] ELSE shown
    /\ IF view.on THEN UNCHANGED <<remote, target>>
       ELSE /\ target' = saved
            /\ remote' = [remote EXCEPT !.listens = With(@, Query, saved.token)]
    /\ UNCHANGED <<server, wire, answers, disk, open, offline, updates, resets,
                   made, resetting, counters>>

(* WriteLocally.                                                           *)
Write(w) ==
    /\ w \notin made
    /\ made' = made \cup {w}
    /\ queue' = Append(queue, w)
    /\ UNCHANGED <<cache, offline>>
    /\ Emit({Where[w]}, NoTargetChange(view), remote, target)
    /\ UNCHANGED <<server, wire, answers, keys, saved, last, open, updates,
                   resets, resetting, counters>>

(* ApplyBatchResult: the cached document takes the committed mutation,     *)
(* unless it is as new already.                                            *)
Acknowledged(c, a) ==
    IF c.version >= a.version THEN c
    ELSE [version |-> a.version, value |-> a.write, committed |-> TRUE,
          read |-> a.read]

(* The answer to the oldest pending write: it is acknowledged or rejected, *)
(* and leaves the queue.                                                   *)
WriteAnswered ==
    /\ answers # << >>
    /\ LET a == Head(answers)
           k == Where[a.write]
       IN  /\ queue' = Tail(queue)
           /\ cache' = IF a.refused THEN cache
                       ELSE [cache EXCEPT ![k] = Acknowledged(@, a)]
           /\ UNCHANGED offline
           /\ Emit({k}, NoTargetChange(view), remote, target)
    /\ answers' = Tail(answers)
    /\ UNCHANGED <<server, wire, keys, saved, last, open, updates, resets, made,
                   resetting, counters>>

(* The write stream breaks, and answers are lost.                          *)
AnswersLost ==
    /\ faults < MaxFaults
    /\ faults' = faults + 1
    /\ answers # << >>
    /\ answers' = << >>
    /\ UNCHANGED <<server, wire, disk, target, open, offline, remote, updates,
                   resets, view, program, made, resetting, deletes>>

-----------------------------------------------------------------------------
(* The watch stream.                                                       *)

(* OnWatchStreamOpen: every target is watched, with a new aggregator; the  *)
(* targets are in a hash table, and may be asked for in any order.         *)
OnWatchStreamOpen ==
    /\ ~open /\ remote.listens # << >>
    /\ open' = TRUE
    /\ \E ids \in SetToSeqs(DOMAIN remote.listens) :
           remote' = [remote EXCEPT
                !.agg = [id \in DOMAIN remote.listens |->
                            [Fresh EXCEPT !.pending = 1]],
                !.requests = [i \in DOMAIN ids |->
                                Watch(ids[i], CoveredBy(remote, ids[i]),
                                      remote.listens[ids[i]])]]
    /\ UNCHANGED <<server, wire, answers, disk, target, offline, updates,
                   resets, view, program, made, resetting, counters>>

(* The stream breaks, or is torn down for a change of network or token.    *)
OnWatchStreamClose ==
    /\ open
    /\ faults < MaxFaults
    /\ faults' = faults + 1
    /\ open' = FALSE
    /\ remote' = [remote EXCEPT !.agg = << >>, !.requests = << >>]
    /\ updates' = NoUpdates /\ resets' = {}
    /\ served' = << >> /\ wire' = << >>
    /\ UNCHANGED <<history, answers, disk, target, offline, view, program, made,
                   resetting, deletes>>

(* HandleOnlineStateChange to Offline, which takes a closed stream: the    *)
(* view is no longer current, and no listener waits any longer.            *)
GoOffline ==
    /\ ~open /\ ~offline /\ view.on
    /\ offline' = TRUE
    /\ view' = [view EXCEPT !.current = FALSE, !.state = "Local"]
    /\ OnViewSnapshot(Untouched, view', TRUE)
    /\ UNCHANGED <<server, wire, answers, disk, target, open, remote, updates,
                   resets, made, resetting, counters>>

IsActive(id) ==
    /\ id \in DOMAIN remote.listens
    /\ StateOf(remote, id).pending = 0

(* GetRemoteKeys: what the client takes the target to contain.             *)
RemoteKeys(id) ==
    IF id \in DOMAIN remote.limbo
    THEN IF remote.limbo[id].received THEN {remote.limbo[id].key} ELSE {}
    ELSE IF id = Query THEN view.synced ELSE {}

SetState(id, s) == remote' = [remote EXCEPT !.agg = With(@, id, s)]

(* The next watch response; the client is online.                          *)
Takes(type) ==
    /\ wire # << >> /\ Head(wire).type = type
    /\ wire' = Tail(wire)
    /\ offline' = FALSE
    /\ UNCHANGED <<server, answers, open, made, counters>>

Quietly == UNCHANGED <<disk, target, view, program, resetting>>

(* HandleTargetChange, Added.                                              *)
OnTargetAdded ==
    /\ Takes("added")
    /\ LET id == Head(wire).id
           s == [StateOf(remote, id) EXCEPT !.pending = @ - 1]
       IN  SetState(id, IF s.pending = 0 THEN [s EXCEPT !.changes = Untouched]
                        ELSE s)
    /\ UNCHANGED <<updates, resets>>
    /\ Quietly

(* HandleTargetChange, Removed.                                            *)
OnTargetRemoved ==
    /\ Takes("removed")
    /\ LET id == Head(wire).id
           s == [StateOf(remote, id) EXCEPT !.pending = @ - 1]
       IN  IF s.pending = 0
           THEN remote' = [remote EXCEPT !.agg = Without(@, id)]
           ELSE SetState(id, s)
    /\ UNCHANGED <<updates, resets>>
    /\ Quietly

(* HandleTargetChange, Current.                                            *)
OnTargetCurrent ==
    /\ Takes("current")
    /\ LET id == Head(wire).id
       IN  IF IsActive(id)
           THEN SetState(id, [StateOf(remote, id) EXCEPT !.current = TRUE])
           ELSE UNCHANGED remote
    /\ UNCHANGED <<updates, resets>>
    /\ Quietly

(* AddDocumentToTarget.                                                    *)
OnDocument ==
    /\ Takes("document")
    /\ LET m == Head(wire)
           change == IF m.key \in RemoteKeys(m.id) THEN "modified" ELSE "added"
       IN  IF IsActive(m.id)
           THEN /\ SetState(m.id, [StateOf(remote, m.id) EXCEPT
                                        !.changes[m.key] = change])
                /\ updates' = [updates EXCEPT ![m.key] =
                        <<[version |-> m.version, value |-> m.value]>>]
           ELSE UNCHANGED <<remote, updates>>
    /\ UNCHANGED resets
    /\ Quietly

(* Slip: whatever is deleted counts as removed from the target. *)
RemovesUnseen(id, k) == [StateOf(remote, id) EXCEPT !.changes[k] = "removed"]

(* RemoveDocumentFromTarget, with what the document is now.                *)
Removal(id, k) ==
    [StateOf(remote, id) EXCEPT
        !.changes[k] = IF k \in RemoteKeys(id) THEN "removed" ELSE "none"]

Deleted(version) == <<[version |-> version, value |-> Absent]>>

OnDelete ==
    /\ Takes("delete")
    /\ LET m == Head(wire)
       IN  IF IsActive(m.id)
           THEN /\ SetState(m.id, Removal(m.id, m.key))
                /\ updates' = [updates EXCEPT ![m.key] = Deleted(m.version)]
           ELSE UNCHANGED <<remote, updates>>
    /\ UNCHANGED resets
    /\ Quietly

(* HandleExistenceFilter: a lookup learns that there is no document; the   *)
(* query is reset when the count is not the one it has.                    *)
CountOf(id) ==
    LET s == StateOf(remote, id).changes
        count(c) == Cardinality({k \in Docs : s[k] = c})
    IN  Cardinality(RemoteKeys(id)) + count("added") - count("removed")

OnExistenceFilter ==
    /\ Takes("filter")
    /\ LET m == Head(wire)
       IN  CASE IsActive(m.id) /\ m.id # Query /\ m.count = 0 ->
                    LET k == remote.limbo[m.id].key
                    IN  /\ SetState(m.id, Removal(m.id, k))
                        /\ updates' = [updates EXCEPT ![k] = Deleted(0)]
                        /\ UNCHANGED resets
             [] IsActive(m.id) /\ m.id = Query /\ m.count # CountOf(Query) ->
                    /\ SetState(Query, [Fresh EXCEPT !.changes =
                            [k \in Docs |-> IF k \in RemoteKeys(Query)
                                            THEN "removed" ELSE "none"]])
                    /\ resets' = resets \cup {Query}
                    /\ UNCHANGED updates
             [] OTHER -> UNCHANGED <<remote, updates, resets>>
    /\ Quietly

(* CreateRemoteEvent and RaiseWatchSnapshot: the resume tokens advance,    *)
(* lookups that are CURRENT without a document find that there is none,    *)
(* and a query that was reset is watched again from the beginning.         *)
Active == {id \in DOMAIN remote.agg : IsActive(id)}

KeysWith(id, change) ==
    {k \in Docs : id \in Active /\ StateOf(remote, id).changes[k] = change}

DocumentUpdates(n) ==
    LET absent == {remote.limbo[id].key : id \in
                    {i \in Active \cap DOMAIN remote.limbo :
                        /\ StateOf(remote, i).current
                        /\ ~remote.limbo[i].received
                        /\ updates[remote.limbo[i].key] = << >>}}
    IN  [k \in Docs |-> IF k \in absent THEN Deleted(n) ELSE updates[k]]

(* A target that was reset is watched again without its resume token.      *)
Rewatched(r) ==
    Send(Send([r EXCEPT !.listens[Query] = 0], Unwatch(Query)),
         Watch(Query, Docs, 0))

TargetsAfter(n) ==
    LET received(id) ==
            \/ KeysWith(id, "added") # {}
            \/ remote.limbo[id].received /\ KeysWith(id, "removed") = {}
        r == [remote EXCEPT
                !.agg = [id \in DOMAIN @ |->
                            IF id \in Active
                            THEN [@[id] EXCEPT !.changes = Untouched]
                            ELSE @[id]],
                !.listens = [id \in DOMAIN @ |-> IF id \in Active THEN n
                                                 ELSE @[id]],
                !.limbo = [id \in DOMAIN @ |->
                            [@[id] EXCEPT !.received = received(id)]]]
    IN  IF resets = {} THEN r ELSE Rewatched(r)

(* PopulateDocumentChanges; a deletion without a version is only lost      *)
(* access, and the document is dropped.                                    *)
Changed(u) ==
    {k \in Docs : u[k] # << >> /\ (u[k][1].version = 0
                                    \/ Replaces(u[k][1], cache[k]))}

CacheAfter(u, n) ==
    [k \in Docs |->
        IF k \notin Changed(u) THEN cache[k]
        ELSE IF u[k][1].version = 0 THEN Invalid
        ELSE [version |-> u[k][1].version, value |-> u[k][1].value,
              committed |-> FALSE, read |-> n]]

(* ShouldPersistTargetData: the first token, or one with changes, is saved *)
(* at once, and every other one when five minutes have passed.             *)
Persisted(t, changes) ==
    IF target.token = 0 \/ changes # {} THEN {t} ELSE {saved, t}

(* A global snapshot: SyncEngine::ApplyRemoteEvent.                        *)
OnSnapshot ==
    /\ Takes("snapshot")
    /\ LET n == Head(wire).version
           u == DocumentUpdates(n)
           added == KeysWith(Query, "added")
           removed == KeysWith(Query, "removed")
           modified == KeysWith(Query, "modified")
           active == Query \in Active
           tc == IF active
                 THEN [added |-> added, removed |-> removed,
                       current |-> StateOf(remote, Query).current]
                 ELSE NoTargetChange(view)
           t == IF active THEN [target EXCEPT !.token = n] ELSE target
       IN  /\ keys' = (keys \ removed) \cup added
           /\ IF active
              THEN saved' \in Persisted(t, added \cup removed \cup modified)
              ELSE UNCHANGED saved
           /\ cache' = CacheAfter(u, n)
           /\ last' = n
           /\ UNCHANGED queue
           /\ updates' = NoUpdates /\ resets' = {}
           /\ Emit(Changed(u), tc, TargetsAfter(n), t)
           /\ resetting' = CASE resets # {} /\ resetting = "no" -> "yes"
                             [] /\ resetting = "yes" /\ resets = {}
                                /\ view'.state = "Synced"
                                /\ view'.mutated = {} -> "no"
                             [] OTHER -> resetting

(* The process dies; the disk is left.                                     *)
Crash ==
    /\ faults < MaxFaults
    /\ faults' = faults + 1
    /\ open' = FALSE /\ offline' = FALSE
    /\ remote' = NoTargets /\ updates' = NoUpdates /\ resets' = {}
    /\ served' = << >> /\ wire' = << >> /\ answers' = << >>
    /\ view' = NoView /\ target' = Unknown
    /\ opened' = {} /\ raised' = {}
    /\ shown' = [l \in Listeners |-> NoView.docs]
    /\ resetting' = IF resetting = "no" THEN "no" ELSE "torn"
    /\ UNCHANGED <<history, disk, made, deletes>>

-----------------------------------------------------------------------------
OnWatchStreamChange ==
    \/ OnTargetAdded
    \/ OnTargetRemoved
    \/ OnTargetCurrent
    \/ OnDocument
    \/ OnDelete
    \/ OnExistenceFilter
    \/ OnSnapshot

Next ==
    \/ \E f \in Foreign : ForeignSet(f)
    \/ \E k \in Docs : Delete(k)
    \/ Commit
    \/ ServerTakes
    \/ \E forgets \in BOOLEAN : Sends(forgets)
    \/ \E l \in Listeners : Listen(l)
    \/ \E w \in Writes : Write(w)
    \/ WriteAnswered
    \/ AnswersLost
    \/ OnWatchStreamOpen
    \/ OnWatchStreamClose
    \/ GoOffline
    \/ OnWatchStreamChange
    \/ Crash

Spec == Init /\ [][Next]_vars

(* The server and the network go on, and the worker queue runs its tasks.  *)
(* A step that takes the next answer or response, and is no fault, is that *)
(* of WriteAnswered or OnWatchStreamChange.                                *)
TakesNext(channel) ==
    /\ channel # << >> /\ channel' = Tail(channel)
    /\ faults' = faults

Fairness ==
    /\ WF_vars(Commit)
    /\ WF_vars(ServerTakes)
    /\ WF_vars(\E forgets \in BOOLEAN : Sends(forgets))
    /\ WF_vars(OnWatchStreamOpen)
    /\ WF_answers(TakesNext(answers))
    /\ WF_wire(TakesNext(wire))

FairSpec == Spec /\ Fairness

-----------------------------------------------------------------------------
(* Type correctness.                                                       *)
TypeOK ==
    /\ history \in Seq([Docs -> [version : Version, value : Values]])
    /\ \A id \in DOMAIN served :
            served[id] \in [sent : Version, current : BOOLEAN,
                            covers : SUBSET Docs]
    /\ queue \in Seq(Writes)
    /\ cache \in [Docs -> [version : Version, value : Values,
                           committed : BOOLEAN, read : Version]]
    /\ keys \subseteq Docs /\ last \in Version
    /\ {saved, target} \subseteq [token : Version, limboFree : Version]
    /\ open \in BOOLEAN /\ offline \in BOOLEAN
    /\ \A id \in DOMAIN remote.agg :
            remote.agg[id] \in
                [pending : Nat, current : BOOLEAN,
                 changes : [Docs -> {"none", "added", "modified", "removed"}]]
    /\ DOMAIN remote.limbo = DOMAIN remote.listens \ {Query}
    /\ view \in [on : BOOLEAN, docs : [Docs -> Values],
                 mutated : SUBSET Docs, synced : SUBSET Docs,
                 current : BOOLEAN, limbo : SUBSET Docs,
                 state : {"None", "Local", "Synced"}]
    /\ raised \subseteq opened /\ opened \subseteq Listeners
    /\ shown \in [Listeners -> [Docs -> Values]]
    /\ resetting \in {"no", "yes", "torn"}

-----------------------------------------------------------------------------
(* A target is pending for as many requests and responses as are under     *)
(* way: while it is, its responses are those of an earlier request, and    *)
(* are ignored.                                                            *)
CountIn(seq, P(_)) == Cardinality({i \in DOMAIN seq : P(seq[i])})

TargetsInStep ==
    LET ids == {remote.requests[i].id : i \in DOMAIN remote.requests}
                    \cup {id \in DOMAIN served : TRUE} \cup DOMAIN remote.agg
        IsFor(id) == CountIn(remote.requests, LAMBDA m : m.id = id)
                   + CountIn(wire, LAMBDA m : /\ m.type \in {"added", "removed"}
                                              /\ m.id = id)
    IN  \A id \in ids : StateOf(remote, id).pending = IsFor(id)

(* The assertions of the client hold, however requests, responses, breaks  *)
(* and lookups overlap: a document changes or leaves a target only when it *)
(* is in it, a lookup is about one document, and snapshots do not go back. *)
AssertionsHold ==
    /\ \A id \in Active :
            KeysWith(id, "modified") \cup KeysWith(id, "removed")
                \subseteq RemoteKeys(id)
    /\ \A id \in Active \cap DOMAIN remote.limbo :
            \A k \in Docs : StateOf(remote, id).changes[k] # "none" =>
                                k = remote.limbo[id].key
    /\ \A i \in DOMAIN wire : wire[i].type = "snapshot" =>
                                    wire[i].version >= last

(* The view is kept up by changes, from whatever of a document a write, an *)
(* answer or a snapshot touched; it is what the disk would give if it were *)
(* asked for every document anew.  Only a document that was acknowledged,  *)
(* and that the watch stream has not told of, may differ; one the query on *)
(* the disk does not find may be missing; and a crash in the middle of a   *)
(* reset leaves more.                                                      *)
ViewIsLocal ==
    view.on /\ resetting # "torn" => \A k \in Docs :
        \/ view.docs[k] = LocalDoc(cache, queue, k).value
        \/ cache[k].committed
        \/ /\ view.docs[k] = Absent
           /\ k \notin IndexFree(cache, queue, keys, target.limboFree)

(* What is not from the cache is guaranteed to be the data of the server:  *)
(* a view that is synced shows the collection as it was at one version,    *)
(* that of the resume token, own writes excepted.  Deletions the server    *)
(* has forgotten, lookups and snapshots of other targets, and broken       *)
(* streams may come in between.                                            *)
SyncedIsServer ==
    view.state = "Synced" => \A k \in Docs :
        view.docs[k] = At(target.token, k) \/ k \in view.mutated

(* It holds as long as no crash interrupts a reset (see the finding).      *)
SyncedUnlessTorn == resetting # "torn" => SyncedIsServer

(* A document never goes back to an older value: a snapshot that was under *)
(* way when a write was acknowledged must not undo it, nor a lookup what   *)
(* the query has been sent since.  Only a refused write is taken back, and *)
(* an existence filter that answers a lookup drops what the cache has,     *)
(* however new: PopulateDocumentChanges does not compare versions then.    *)
Newer(k, x, y) ==
    \/ ~AtServer(x) /\ x # Absent
    \/ \E n \in 1 .. Clock : \E m \in 0 .. n : At(m, k) = x /\ At(n, k) = y

NoStepBack ==
    [][\A k \in Docs :
            view.on /\ view'.on /\ view.docs[k] # view'.docs[k] =>
                \/ k \in view'.mutated
                \/ Newer(k, view.docs[k], view'.docs[k])
                \/ updates[k] = Deleted(0)]_vars

(* The changes a listener was told add up to the view, whenever it was     *)
(* added; one that has been told nothing has nothing to be told.           *)
ListenersAgree ==
    \A l \in opened :
        IF l \in raised THEN shown[l] = view.docs
        ELSE ~FirstEvent(view, offline)

(* A query that starts from the matching keys and from what was read after *)
(* the last snapshot free of limbo misses nothing: what a full scan would  *)
(* find besides, the server will tell of anew if it is there, unless a     *)
(* target was being reset.  Matching keys, resume token, versions and      *)
(* times of reading are kept in step on the disk, whenever the process     *)
(* dies and however seldom the target is saved.                            *)
QueryFindsAll ==
    resetting = "no" =>
        \A k \in Found(cache, queue, Docs)
                    \ IndexFree(cache, queue, keys, saved.limboFree) :
            /\ cache[k].version <= saved.token
            /\ Now[k].value # Absent => Now[k].version > saved.token

(* A document of this device that is shown although it is gone: its        *)
(* deletion overtook the query's first word about it.  The server has      *)
(* nothing to say of a document the target never had, and the view takes   *)
(* what was last written here for a write that is still pending, which is  *)
(* why it does not look it up (lines 312 to 323 of view.cc).               *)
LeftBehind(k) ==
    /\ k \in view.mutated /\ cache[k].committed
    /\ k \notin keys /\ Now[k].value = Absent

(* When the faults end, the writes leave the queue and the view becomes    *)
(* synced and shows what the server has, own deleted documents it cannot   *)
(* know of excepted: no lookup, reset or request waits for ever, and no    *)
(* document stays in limbo.                                                *)
Settles ==
    <>[](view.on /\ resetting # "torn" =>
            /\ queue = << >>
            /\ view.state = "Synced"
            /\ \A k \in Docs : view.docs[k] = Now[k].value \/ LeftBehind(k))

=============================================================================
