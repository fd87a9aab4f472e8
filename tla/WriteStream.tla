----------------------------- MODULE WriteStream -----------------------------
(***************************************************************************)
(* The write path of the Firestore client on one device, from the setData  *)
(* of the program to its completion callback: the worker queue, the        *)
(* persisted mutation queue of each account (LocalStore), the callbacks    *)
(* per account (SyncEngine), the write pipeline (RemoteStore), the write   *)
(* stream with its states, handshake and timers, and the gRPC stream.      *)
(*                                                                         *)
(* The program runs on the main queue, the client on its worker queue.     *)
(* Both are first in, first out.  Each action below is one task of one of  *)
(* them, with every call it makes, or a step of the server or the network. *)
(* Accounts change while writes wait: the queue of an account stays behind *)
(* until it signs in again.                                                *)
(***************************************************************************)
EXTENDS Integers, Sequences

CONSTANTS
    Users,          \* the accounts of the device, and Nobody
    Nobody,         \* no account is signed in
    AtStart,        \* who may be signed in when the program first starts
    Writes,         \* the writes the program can make
    Bad,            \* the writes the server refuses for good
    Then,           \* per write, what its completion callback writes
    NoWrite,        \* the callback writes nothing; also, nobody made a write
    PipelineSize,   \* kMaxPendingWrites
    MaxSwitches,    \* bound: changes of account or token
    MaxBreaks,      \* bound: broken streams, failed tokens, network changes
    MaxCrashes      \* bound: process deaths

ASSUME StreamAssumption ==
    /\ Nobody \in Users
    /\ AtStart \subseteq Users
    /\ Bad \subseteq Writes
    /\ NoWrite \notin Writes \cup Users
    /\ Then \in [Writes -> Writes \cup {NoWrite}]
    /\ PipelineSize \in Nat \ {0}
    /\ MaxSwitches \in Nat /\ MaxBreaks \in Nat /\ MaxCrashes \in Nat

VARIABLES
    account,        \* who is signed in, as the main queue knows it
    main,           \* answers on their way to completion callbacks
    tasks,          \* the client's worker queue
    user,           \* current_user_ of the sync engine
    queue,          \* the mutation queue of each user, on the disk
    nextId,         \* next_batch_id_
    callbacks,      \* mutation_callbacks_
    pipeline,       \* write_pipeline_, the batches sent or to be sent
    state,          \* state_ of the write stream
    asking,         \* a token was asked for and this stream still waits
    token,          \* whose token the stream was opened with
    handshake,      \* handshake_complete_
    idle,           \* the idle timer runs
    wire,           \* requests written and not yet read by the server
    answers,        \* responses the client has not read yet
    ended,          \* the status the gRPC stream ended with
    committed,      \* server: the writes it has applied
    maker,          \* history: who was signed in when a write was made
    told,           \* history: the answer given to a callback
    switches, breaks, crashes

app == <<account, main>>
store == <<user, queue, nextId, callbacks>>
stream == <<pipeline, state, asking, token, handshake, idle>>
net == <<wire, answers, ended>>
counters == <<switches, breaks, crashes>>
vars == <<app, tasks, store, stream, net, committed, maker, told, counters>>

-----------------------------------------------------------------------------
Batch == [id : Nat, write : Writes]
Hello == [id |-> 0, write |-> NoWrite]  \* the handshake, no batch has id 0
Request == Batch \cup {Hello}
Callback == [user : Users, id : Nat, write : Writes]
Answer == [write : Writes, outcome : {"ok", "error"}]
Task ==
    [task : {"write"}, write : Writes]
        \cup [task : {"user", "token"}, user : Users]
        \cup {[task |-> "no token"], [task |-> "late"]}
States == {"Initial", "Starting", "Open", "Error", "Backoff"}
Statuses == {"none", "transient", "permanent"}

Started == state \in {"Starting", "Open", "Backoff"}

(* The writes no completion callback makes: the user makes them.           *)
Heads == {w \in Writes : \A v \in Writes : Then[v] # w}

Called(w) == maker[w] # NoWrite

(* Slips, which show that the properties below can fail.                   *)
RestartsIds(q) == 1
Overtakes(ts, u) == <<[task |-> "user", user |-> u]>> \o ts
BlamesAnyError == handshake /\ pipeline # << >>
SendsNothing(p) == << >>
SendsBare(p) == [i \in 1 .. Len(p) |-> p[i].write]
NeverRestarts(p, from) == from
GivesUpAfterError(p, from) ==
    IF p = << >> \/ from = "Error" THEN from ELSE "Starting"

(* NextMutationBatchAfterBatchId: seeks the first batch with a larger id.  *)
PlaceAfter(q, id) ==
    CHOOSE k \in 1 .. Len(q) + 1 :
        /\ k <= Len(q) => q[k].id > id
        /\ \A i \in 1 .. k - 1 : q[i].id <= id

(* FillWritePipeline: the batches behind the last one in the pipeline, as  *)
(* many as fit.                                                            *)
Filled(p, q) ==
    LET first == IF p = << >> THEN 1 ELSE PlaceAfter(q, p[Len(p)].id)
        last == first + PipelineSize - Len(p) - 1
    IN  p \o SubSeq(q, first, IF Len(q) < last THEN Len(q) ELSE last)

(* RemoveMutationBatch: seeks the batch by its id and deletes it.          *)
Removed(q, b) ==
    LET i == CHOOSE j \in 1 .. Len(q) : q[j].id = b.id
    IN  SubSeq(q, 1, i - 1) \o SubSeq(q, i + 1, Len(q))

(* LoadNextBatchIdFromDb: one more than the largest id on the disk, over   *)
(* the queues of all users.                                                *)
IdsOnDisk(q) == UNION {{q[u][i].id : i \in 1 .. Len(q[u])} : u \in Users}
NextIdOnDisk(q) ==
    1 + (CHOOSE n \in IdsOnDisk(q) \cup {0} : \A m \in IdsOnDisk(q) : m <= n)

(* A change of account waits its turn behind the writes made before it.    *)
Passed(ts, u) == Append(ts, [task |-> "user", user |-> u])

(* The stream was closed since the tokens in the worker queue were asked   *)
(* for: its close count is another, and they arrive late.                  *)
WithoutTokens(ts) ==
    [i \in 1 .. Len(ts) |->
        IF ts[i].task \in {"token", "no token"} THEN [task |-> "late"] ELSE ts[i]]

(* What is written to an open stream once its handshake is complete.       *)
Sent(p) == p

(* Start, from a stopped stream with batches p to send: after an error it  *)
(* backs off first.                                                        *)
Restarted(p, from) ==
    IF p = << >> THEN from
    ELSE IF from = "Error" THEN "Backoff" ELSE "Starting"

-----------------------------------------------------------------------------
Init ==
    /\ account \in AtStart /\ user = account
    /\ main = << >> /\ tasks = << >>
    /\ queue = [u \in Users |-> << >>]
    /\ nextId = 1
    /\ callbacks = {}
    /\ pipeline = << >> /\ state = "Initial" /\ asking = FALSE
    /\ token = Nobody /\ handshake = FALSE /\ idle = FALSE
    /\ wire = << >> /\ answers = << >> /\ ended = "none"
    /\ committed = {}
    /\ maker = [w \in Writes |-> NoWrite]
    /\ told = [w \in Writes |-> "nothing"]
    /\ switches = 0 /\ breaks = 0 /\ crashes = 0

(* A setData or addDocument: the write goes to the worker queue.           *)
Enqueue(w) ==
    /\ ~Called(w)
    /\ maker' = [maker EXCEPT ![w] = account]
    /\ tasks' = Append(tasks, [task |-> "write", write |-> w])

(* The user makes a write; the program does so only when signed in.        *)
Write(w) ==
    /\ account # Nobody
    /\ w \in Heads
    /\ Enqueue(w)
    /\ UNCHANGED <<app, store, stream, net, committed, told, counters>>

(* A completion callback runs on the main queue.  It looks neither at the  *)
(* error nor at who is signed in by now.                                   *)
RunCallback ==
    /\ main # << >>
    /\ main' = Tail(main)
    /\ LET next == Then[Head(main).write]
       IN  \/ /\ next # NoWrite
              /\ Enqueue(next)
           \/ /\ next = NoWrite
              /\ UNCHANGED <<maker, tasks>>
    /\ UNCHANGED <<account, store, stream, net, committed, told, counters>>

(* Auth tells the main queue of a sign-in, a log out or a new token of the *)
(* same user, and the credentials provider passes it on in the same step.  *)
AuthChanged(u) ==
    /\ switches < MaxSwitches
    /\ switches' = switches + 1
    /\ u = account \/ u = Nobody \/ account = Nobody
    /\ account' = u
    /\ tasks' = Passed(tasks, u)
    /\ UNCHANGED <<main, store, stream, net, committed, maker, told, breaks, crashes>>

(* The provider answers a token request with a token of whoever is signed  *)
(* in by then (a request overtaken by a change is made again), or fails.   *)
TokenArrives ==
    /\ asking
    /\ asking' = FALSE
    /\ \/ /\ tasks' = Append(tasks, [task |-> "token", user |-> account])
          /\ UNCHANGED breaks
       \/ /\ breaks < MaxBreaks
          /\ breaks' = breaks + 1
          /\ tasks' = Append(tasks, [task |-> "no token"])
    /\ UNCHANGED <<app, store, pipeline, state, token, handshake, idle, net,
                   committed, maker, told, switches, crashes>>

-----------------------------------------------------------------------------
(* FillWritePipeline while the stream stays as it is: what is new in the   *)
(* pipeline is sent if the handshake is over, an empty pipeline starts the *)
(* idle timer of an open stream, and a stopped stream is started.          *)
Refill(p, q) ==
    LET full == Filled(p, q)
        new == SubSeq(full, Len(p) + 1, Len(full))
    IN  /\ pipeline' = full
        /\ wire' = IF state = "Open" /\ handshake THEN wire \o new ELSE wire
        /\ idle' = IF full = << >> THEN (idle \/ state = "Open")
                   ELSE (idle /\ (new = << >> \/ ~handshake))
        /\ state' = IF Started THEN state ELSE Restarted(full, state)
        /\ asking' = (asking \/ (~Started /\ state' = "Starting"))
        /\ UNCHANGED <<token, handshake, answers, ended>>

(* The stream is closed, in the state from, with p left in the pipeline,   *)
(* and started again if there is something to send.                        *)
Reopen(from, p) ==
    /\ pipeline' = p
    /\ state' = Restarted(p, from)
    /\ asking' = (state' = "Starting")
    /\ token' = Nobody
    /\ handshake' = FALSE /\ idle' = FALSE
    /\ wire' = << >> /\ answers' = << >> /\ ended' = "none"

(* The callbacks registered for a batch of the current user.               *)
Registered(b) == {c \in callbacks : c.user = user /\ c.id = b.id}

(* The batch at the front of the pipeline is answered: it leaves the       *)
(* mutation queue, and its callback, if it survived, is told.              *)
Answered(outcome) ==
    LET b == Head(pipeline)
        found == Registered(b)
    IN  /\ queue' = [queue EXCEPT ![user] = Removed(@, b)]
        /\ callbacks' = callbacks \ found
        /\ main' = main \o (IF found = {} THEN << >>
                            ELSE <<[write |-> (CHOOSE c \in found : TRUE).write,
                                    outcome |-> outcome]>>)
        /\ told' = [w \in Writes |-> IF \E c \in found : c.write = w
                                     THEN outcome ELSE told[w]]
        /\ UNCHANGED <<account, user, nextId>>

-----------------------------------------------------------------------------
(* SyncEngine::WriteMutations, on the worker queue.  A callback already    *)
(* registered under the id would stay and the new one be lost.             *)
WriteMutations ==
    /\ tasks # << >> /\ Head(tasks).task = "write"
    /\ tasks' = Tail(tasks)
    /\ LET b == [id |-> nextId, write |-> Head(tasks).write]
       IN  /\ queue' = [queue EXCEPT ![user] = Append(@, b)]
           /\ callbacks' = callbacks \cup
                 (IF Registered(b) # {} THEN {}
                  ELSE {[user |-> user, id |-> b.id, write |-> b.write]})
    /\ nextId' = nextId + 1
    /\ Refill(pipeline, queue'[user])
    /\ UNCHANGED <<app, user, committed, maker, told, counters>>

(* SyncEngine::HandleCredentialChange: the queue of the user who left is   *)
(* put away, ids are counted again from what is on the disk, and the       *)
(* stream is restarted, even for a new token of the same user.             *)
HandleCredentialChange ==
    /\ tasks # << >> /\ Head(tasks).task = "user"
    /\ tasks' = WithoutTokens(Tail(tasks))
    /\ user' = Head(tasks).user
    /\ nextId' = IF user' = user THEN nextId ELSE NextIdOnDisk(queue)
    /\ Reopen("Initial", Filled(<< >>, queue[user']))
    /\ UNCHANGED <<app, queue, callbacks, committed, maker, told, counters>>

(* A token is there: the stream opens and the handshake is written.        *)
ResumeStartWithCredentials ==
    /\ tasks # << >> /\ Head(tasks).task = "token"
    /\ tasks' = Tail(tasks)
    /\ state' = "Open"
    /\ token' = Head(tasks).user
    /\ wire' = <<Hello>>
    /\ UNCHANGED <<app, store, pipeline, asking, handshake, idle, answers,
                   ended, committed, maker, told, counters>>

(* No token: the stream closes with an error, and backs off.               *)
ResumeStartFails ==
    /\ tasks # << >> /\ Head(tasks).task = "no token"
    /\ tasks' = WithoutTokens(Tail(tasks))
    /\ Reopen("Error", pipeline)
    /\ UNCHANGED <<app, store, committed, maker, told, counters>>

(* A token arrives late: the stream it was asked for has been closed.      *)
LateToken ==
    /\ tasks # << >> /\ Head(tasks).task = "late"
    /\ tasks' = Tail(tasks)
    /\ UNCHANGED <<app, store, stream, net, committed, maker, told, counters>>

(* The backoff delay is over.                                              *)
BackoffElapsed ==
    /\ state = "Backoff"
    /\ state' = "Starting"
    /\ asking' = TRUE
    /\ UNCHANGED <<app, tasks, store, pipeline, token, handshake, idle, net,
                   committed, maker, told, counters>>

(* The stream has had nothing to send for a while, and is stopped.         *)
IdleTimeout ==
    /\ idle
    /\ tasks' = WithoutTokens(tasks)
    /\ Reopen("Initial", pipeline)
    /\ UNCHANGED <<app, store, committed, maker, told, counters>>

(* The network changed to another kind that is reachable: RestartNetwork.  *)
ConnectivityChanged ==
    /\ breaks < MaxBreaks
    /\ breaks' = breaks + 1
    /\ tasks' = WithoutTokens(tasks)
    /\ Reopen("Initial", Filled(<< >>, queue[user]))
    /\ UNCHANGED <<app, store, committed, maker, told, switches, crashes>>

-----------------------------------------------------------------------------
(* The server takes the next request: it answers a handshake, commits a    *)
(* write and answers, or ends the stream with an error that trying again   *)
(* does not cure.  Committing a write a second time changes nothing.       *)
ServerTakes ==
    /\ wire # << >> /\ ended = "none"
    /\ wire' = Tail(wire)
    /\ LET r == Head(wire)
       IN  IF r.write \in Bad
           THEN /\ ended' = "permanent"
                /\ UNCHANGED <<answers, committed>>
           ELSE /\ answers' = Append(answers, r)
                /\ committed' = IF r = Hello THEN committed
                                ELSE committed \cup {r.write}
                /\ UNCHANGED ended
    /\ UNCHANGED <<app, tasks, store, stream, maker, told, counters>>

(* The stream breaks, and responses on their way are lost with it, or the  *)
(* server refuses the handshake.                                           *)
Break ==
    /\ state = "Open" /\ ended = "none"
    /\ breaks < MaxBreaks
    /\ breaks' = breaks + 1
    /\ \/ /\ ended' = "transient"
          /\ \E n \in 0 .. Len(answers) : answers' = SubSeq(answers, 1, n)
       \/ /\ wire = <<Hello>>
          /\ ended' = "permanent"
          /\ UNCHANGED answers
    /\ UNCHANGED <<app, tasks, store, stream, wire, committed, maker, told,
                   switches, crashes>>

(* The response to the handshake: the whole pipeline is sent.              *)
OnWriteStreamHandshakeComplete ==
    /\ answers # << >> /\ ~handshake
    /\ answers' = Tail(answers)
    /\ handshake' = TRUE
    /\ wire' = wire \o Sent(pipeline)
    /\ idle' = (idle /\ pipeline = << >>)
    /\ UNCHANGED <<app, tasks, store, pipeline, state, asking, token, ended,
                   committed, maker, told, counters>>

(* The response to a write is taken for the front of the pipeline.         *)
OnWriteStreamMutationResult ==
    /\ answers # << >> /\ handshake
    /\ Answered("ok")
    /\ LET p == Tail(pipeline)
           full == Filled(p, queue'[user])
           new == SubSeq(full, Len(p) + 1, Len(full))
       IN  /\ pipeline' = full
           /\ wire' = wire \o new
           /\ idle' = (full = << >> \/ (idle /\ new = << >>))
    /\ answers' = Tail(answers)
    /\ UNCHANGED <<tasks, state, asking, token, handshake, ended, committed,
                   maker, counters>>

(* The client notices the end of the gRPC stream: by a read, when it has   *)
(* read every response, or by a write that fails, and then the responses   *)
(* it has not read are dropped.                                            *)
EndNoticed == ended # "none" /\ (answers = << >> \/ wire # << >>)

(* The error is about a write, and not about the stream.                   *)
BlamesWrite == ended = "permanent" /\ handshake /\ pipeline # << >>

(* OnStreamFinish with an error: the front of the pipeline is rejected if  *)
(* the error is about a write, and the stream then starts without backoff. *)
OnWriteStreamClose ==
    /\ EndNoticed
    /\ tasks' = WithoutTokens(tasks)
    /\ \/ /\ BlamesWrite
          /\ Answered("error")
          /\ Reopen("Initial", Filled(Tail(pipeline), queue'[user]))
       \/ /\ ~BlamesWrite
          /\ Reopen("Error", pipeline)
          /\ UNCHANGED <<app, store, told>>
    /\ UNCHANGED <<committed, maker, counters>>

(* The process dies and starts again.  What the worker queue held and the  *)
(* callbacks are gone; the mutation queues are on the disk.                *)
Crash ==
    /\ crashes < MaxCrashes
    /\ crashes' = crashes + 1
    /\ main' = << >> /\ tasks' = << >>
    /\ user' = account
    /\ callbacks' = {}
    /\ nextId' = NextIdOnDisk(queue)
    /\ Reopen("Initial", Filled(<< >>, queue[account]))
    /\ UNCHANGED <<account, queue, committed, maker, told, switches, breaks>>

-----------------------------------------------------------------------------
Next ==
    \/ \E w \in Writes : Write(w)
    \/ RunCallback
    \/ \E u \in Users : AuthChanged(u)
    \/ TokenArrives
    \/ WriteMutations
    \/ HandleCredentialChange
    \/ ResumeStartWithCredentials
    \/ ResumeStartFails
    \/ LateToken
    \/ BackoffElapsed
    \/ IdleTimeout
    \/ ConnectivityChanged
    \/ ServerTakes
    \/ Break
    \/ OnWriteStreamHandshakeComplete
    \/ OnWriteStreamMutationResult
    \/ OnWriteStreamClose
    \/ Crash

Spec == Init /\ [][Next]_vars

(* The device, its network and the server go on: every pending task, timer *)
(* and request is dealt with.  The user, Auth and breaks owe nothing.      *)
Fairness ==
    /\ WF_vars(RunCallback) /\ WF_vars(TokenArrives)
    /\ WF_vars(WriteMutations) /\ WF_vars(HandleCredentialChange)
    /\ WF_vars(ResumeStartWithCredentials) /\ WF_vars(ResumeStartFails)
    /\ WF_vars(LateToken) /\ WF_vars(BackoffElapsed)
    /\ WF_vars(ServerTakes)
    /\ WF_vars(OnWriteStreamHandshakeComplete)
    /\ WF_vars(OnWriteStreamMutationResult)
    /\ WF_vars(OnWriteStreamClose)

FairSpec == Spec /\ Fairness

-----------------------------------------------------------------------------
(* Type correctness.                                                       *)
TypeOK ==
    /\ account \in Users /\ user \in Users /\ token \in Users
    /\ main \in Seq(Answer)
    /\ tasks \in Seq(Task)
    /\ queue \in [Users -> Seq(Batch)]
    /\ nextId \in Nat
    /\ callbacks \in SUBSET Callback
    /\ pipeline \in Seq(Batch)
    /\ state \in States
    /\ asking \in BOOLEAN /\ handshake \in BOOLEAN /\ idle \in BOOLEAN
    /\ wire \in Seq(Request) /\ answers \in Seq(Request)
    /\ ended \in Statuses
    /\ committed \in SUBSET Writes
    /\ maker \in [Writes -> Users \cup {NoWrite}]
    /\ told \in [Writes -> {"nothing", "ok", "error"}]
    /\ switches \in Nat /\ breaks \in Nat /\ crashes \in Nat

-----------------------------------------------------------------------------
(* The responses and requests under way are, in order, those of the        *)
(* pipeline: so a response belongs to the front of the pipeline, as line   *)
(* 435 of remote_store.cc takes for granted, and a refusal to the first    *)
(* batch without a response.  A stream that is not open has none.          *)
InStep ==
    /\ state # "Open" =>
           wire = << >> /\ answers = << >> /\ ended = "none" /\ ~handshake
    /\ state = "Open" /\ ~handshake =>
           \/ answers \o wire = <<Hello>>
           \/ ended = "transient" /\ answers = << >>
    /\ state = "Open" /\ handshake =>
           CASE ended = "none" -> answers \o wire = pipeline
             [] ended = "transient" ->
                    answers = SubSeq(pipeline, 1, Len(answers))
             [] ended = "permanent" ->
                    \E i \in 1 .. Len(pipeline) :
                        /\ pipeline[i].write \in Bad
                        /\ answers \o <<pipeline[i]>> \o wire = pipeline

(* The pipeline is the front of the mutation queue of the current user,    *)
(* and never shorter than it could be; the stream is not stopped while     *)
(* there is something to send (the assertion at line 455), and idles only  *)
(* when there is not.                                                      *)
PipelineIsFront ==
    LET q == queue[user]
    IN  /\ pipeline = SubSeq(q, 1, IF Len(q) < PipelineSize
                                   THEN Len(q) ELSE PipelineSize)
        /\ pipeline # << >> => Started
        /\ idle => pipeline = << >> /\ state = "Open"
        /\ asking => state = "Starting"

(* Batch ids are counted again from the disk when the account changes, and *)
(* are used again: still they grow along every queue, a callback belongs   *)
(* to a batch that is in the queue of its user, and while the process      *)
(* lives every batch has its callback, whoever has been signed in since.   *)
CallbacksMatch ==
    /\ \A u \in Users : \A i \in 1 .. Len(queue[u]) :
            /\ i > 1 => queue[u][i - 1].id < queue[u][i].id
            /\ queue[u][i].id > 0
    /\ \A b \in {queue[user][i] : i \in 1 .. Len(queue[user])} : b.id < nextId
    /\ \A c \in callbacks :
            \E i \in 1 .. Len(queue[c.user]) :
                queue[c.user][i] = [id |-> c.id, write |-> c.write]
    /\ crashes = 0 =>
            \A u \in Users : \A i \in 1 .. Len(queue[u]) :
                [user |-> u, id |-> queue[u][i].id,
                 write |-> queue[u][i].write] \in callbacks

(* Accounts may change while writes, tokens and responses are under way: a *)
(* write is in the queue of whoever was signed in when it was made, and is *)
(* sent only on a stream opened with a token of that user.                 *)
OwnersOnly ==
    /\ \A u \in Users : \A i \in 1 .. Len(queue[u]) :
            maker[queue[u][i].write] = u
    /\ state = "Open" => token = user

(* A callback told of an error belongs to a write the server refused: the  *)
(* request at the front of the pipeline was the problem (the comment at    *)
(* line 513 of remote_store.cc).                                           *)
RefusedIsBad == \A w \in Writes : told[w] = "error" => w \in Bad

(* The write path is a write queue: its steps commit the writes of a user  *)
(* in order, and let a write go only once the server has decided on it,    *)
(* through lost responses, changes of account, restarts and crashes.       *)
Queues == INSTANCE WriteQueue WITH
    waiting <- [u \in Users |->
                    [i \in 1 .. Len(queue[u]) |-> queue[u][i].write]]

ImplementsQueue == Queues!Spec

(* Again and again nothing waits for whoever is signed in: the writes of   *)
(* an account that stays, or comes back, are all decided on, and no turn   *)
(* in the life of the stream leaves a batch behind.                        *)
Waits(w) ==
    \/ \E i \in 1 .. Len(tasks) : tasks[i].task = "write" /\ tasks[i].write = w
    \/ \E i \in 1 .. Len(queue[account]) : queue[account][i].write = w

WaitsEnd == []<>(\A w \in Writes : ~Waits(w))

=============================================================================
