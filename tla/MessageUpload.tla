--------------------------- MODULE MessageUpload ---------------------------
(***************************************************************************)
(* Sending a chat message: the input field and the send button of          *)
(* ChatController, the flatMapLatest of ChatViewModel, the chain of writes *)
(* of APIManager.uploadMessage, and the write queue of the Firestore       *)
(* client underneath, which is persisted, drained in order and re-sent     *)
(* after its stream breaks.                                                *)
(*                                                                         *)
(* Every user is signed in on one device.  A message is written four       *)
(* times: to the sender's log, then (in the completion callback of that    *)
(* write, whose error the code ignores) to the receiver's log, then (in    *)
(* the callback of that one) to the "recent-messages" document of both.    *)
(* The callbacks live in memory: a crash loses them, the queue survives.   *)
(***************************************************************************)
EXTENDS Integers, Sequences, FiniteSets

CONSTANTS
    Users,          \* account ids (uid)
    Texts,          \* message texts, the empty one excluded
    NoUser,         \* no chat screen is open
    NoText,         \* the empty text ""
    NoMsg,          \* "no message": an absent document, no pending upload
    PipelineSize,   \* kMaxPendingWrites of the Firestore client
    MaxTime,        \* bound: the last instant each user's device reaches
    MaxCrashes,     \* bound: process deaths
    MaxRefusals     \* bound: writes the server refuses for good

Message == {m \in [from: Users, to: Users, text: Texts, ts: Nat] :
                m.from # m.to}

(* The empty text is filtered before a message is made; the sentinels are  *)
(* told apart from the values they stand beside.                           *)
ASSUME UploadAssumption ==
    /\ NoUser \notin Users
    /\ NoText \notin Texts
    /\ NoMsg \notin Message
    /\ PipelineSize \in Nat \ {0}
    /\ MaxTime \in [Users -> Nat]
    /\ MaxCrashes \in Nat
    /\ MaxRefusals \in Nat

VARIABLES
    open,       \* the user whose chat screen is open on each device
    field,      \* the text in messageInputTextView
    inputText,  \* the view model's inputText relay, which lags the field
    upload,     \* the upload flatMapLatest is subscribed to, until it emits
    lastTime,   \* the last instant read from the device's clock
    awaiting,   \* messages whose completion callbacks are alive
    queue,      \* the Firestore client's persisted queue of writes
    applied,    \* how many writes at its front are committed, not acknowledged
    log,        \* server: messages/<user>/<partner>, all partners of a user
    recent,     \* server: messages/<user>/recent-messages/<partner>
    crashes,    \* process deaths so far
    cut,        \* history: messages whose callbacks a crash took
    refused,    \* history: writes the server refused for good
    raced       \* history: pairs who had recents under way in both directions

screen == <<open, field, inputText, upload>>
client == <<lastTime, awaiting, queue, applied>>
server == <<log, recent>>
history == <<crashes, cut, refused, raced>>
vars == <<screen, client, server, history>>

-----------------------------------------------------------------------------
(* A write puts a message into one document: an own document in a log      *)
(* collection, or the recent-messages document its owner keeps for the     *)
(* partner.                                                                *)
Write == [doc: {"log", "recent"}, owner: Users, msg: Message]

LogWrite(u, m) == [doc |-> "log", owner |-> u, msg |-> m]
RecentWrite(u, m) == [doc |-> "recent", owner |-> u, msg |-> m]

(* The other side of a message, seen from u.                               *)
Partner(u, m) == IF m.to = u THEN m.from ELSE m.to

(* Slips: what the operators below would be under a plausible mistake.     *)
(* They show that the properties of this module can fail.                  *)
OwnAndRecentAtOnce(u, m) == <<LogWrite(u, m), RecentWrite(u, m)>>
SendersRecentOnly(m) == <<RecentWrite(m.from, m)>>
OnlyNewestChain(u, m) == {m}
ListensToAny(u, m) == upload[u] # NoMsg
NothingSurvives(u) == << >>

(* The accounts a chat can be opened with: no list holds the user's own.   *)
Contacts(u) == Users \ {u}

(* What a tap writes at once, what follows when the sender's copy is       *)
(* written, and what follows when the receiver's copy is.                  *)
FirstWrites(u, m) == <<LogWrite(u, m)>>
SecondWrites(m) == <<LogWrite(m.to, m)>>
LastWrites(m) == <<RecentWrite(m.from, m), RecentWrite(m.to, m)>>

(* The chains alive after a tap: disposing the subscription to an upload   *)
(* does not stop the chain of the message before.                          *)
ChainsWith(u, m) == awaiting[u] \cup {m}

(* flatMapLatest turns to the newest upload, and its answer empties the    *)
(* field.                                                                  *)
Latest(u, m) == m
ListensTo(u, m) == upload[u] = m

(* The part of the write queue a crash leaves: the queue is on the disk.   *)
QueueOnDisk(u) == queue[u]

(* u still has to write a recent-messages document of its chat with v.     *)
WritingRecents(u, v) ==
    \E i \in 1 .. Len(queue[u]) :
        /\ queue[u][i].doc = "recent"
        /\ {queue[u][i].msg.from, queue[u][i].msg.to} = {u, v}

-----------------------------------------------------------------------------
Init ==
    /\ open = [u \in Users |-> NoUser]
    /\ field = [u \in Users |-> NoText]
    /\ inputText = [u \in Users |-> NoText]
    /\ upload = [u \in Users |-> NoMsg]
    /\ lastTime = [u \in Users |-> 0]
    /\ awaiting = [u \in Users |-> {}]
    /\ queue = [u \in Users |-> << >>]
    /\ applied = [u \in Users |-> 0]
    /\ log = [u \in Users |-> {}]
    /\ recent = [u \in Users |-> [v \in Users |-> NoMsg]]
    /\ crashes = 0
    /\ cut = {}
    /\ refused = {}
    /\ raced = {}

(* A new ChatController for v, reached from either list of users.          *)
OpenChat(u, v) ==
    /\ open[u] = NoUser
    /\ v \in Contacts(u)
    /\ open' = [open EXCEPT ![u] = v]
    /\ UNCHANGED <<field, inputText, upload, client, server, history>>

(* The screen goes away with its text, its view model and its subscription *)
(* to the upload; the callbacks of the writes stay.                        *)
LeaveChat(u) ==
    /\ open[u] # NoUser
    /\ open' = [open EXCEPT ![u] = NoUser]
    /\ field' = [field EXCEPT ![u] = NoText]
    /\ inputText' = [inputText EXCEPT ![u] = NoText]
    /\ upload' = [upload EXCEPT ![u] = NoMsg]
    /\ UNCHANGED <<client, server, history>>

Type(u, text) ==
    /\ open[u] # NoUser
    /\ text # field[u]
    /\ field' = [field EXCEPT ![u] = text]
    /\ UNCHANGED <<open, inputText, upload, client, server, history>>

(* The text view reports an edit one turn of the main loop later, with the *)
(* text it holds by then; the program's own clearing is reported too.      *)
TextArrives(u) ==
    /\ open[u] # NoUser
    /\ inputText[u] # field[u]
    /\ inputText' = [inputText EXCEPT ![u] = field[u]]
    /\ UNCHANGED <<open, field, upload, client, server, history>>

(* A tap uploads the text the view model knows of, stamped with the        *)
(* device's clock, and abandons the answer of the upload before it.        *)
SendTapped(u, ts) ==
    LET m == [from |-> u, to |-> open[u], text |-> inputText[u], ts |-> ts]
    IN  /\ open[u] # NoUser
        /\ inputText[u] # NoText
        /\ lastTime[u] < ts
        /\ lastTime' = [lastTime EXCEPT ![u] = ts]
        /\ awaiting' = [awaiting EXCEPT ![u] = ChainsWith(u, m)]
        /\ upload' = [upload EXCEPT ![u] = Latest(u, m)]
        /\ queue' = [queue EXCEPT ![u] = @ \o FirstWrites(u, m)]
        /\ UNCHANGED <<open, field, inputText, applied, server, history>>

-----------------------------------------------------------------------------
(* The backend commits the next write the pipeline has sent it.  A         *)
(* document in a log is new under its own id, so a write that is sent      *)
(* again changes nothing; a recent-messages document is overwritten.       *)
Commit(u) ==
    /\ applied[u] < Len(queue[u])
    /\ applied[u] < PipelineSize
    /\ applied' = [applied EXCEPT ![u] = @ + 1]
    /\ LET w == queue[u][applied[u] + 1]
       IN  \/ /\ w.doc = "log"
              /\ log' = [log EXCEPT ![w.owner] = @ \cup {w.msg}]
              /\ UNCHANGED recent
           \/ /\ w.doc = "recent"
              /\ recent' = [recent EXCEPT
                                ![w.owner][Partner(w.owner, w.msg)] = w.msg]
              /\ UNCHANGED log
    /\ UNCHANGED <<screen, lastTime, awaiting, queue, history>>

(* The stream breaks: what was sent and not acknowledged is sent again.    *)
StreamReset(u) ==
    /\ applied[u] > 0
    /\ applied' = [applied EXCEPT ![u] = 0]
    /\ UNCHANGED <<screen, lastTime, awaiting, queue, server, history>>

(* The client learns the fate of the write at the front of its queue: an   *)
(* acknowledgement, or an error that retrying cannot cure.                 *)
Answered(u) ==
    /\ queue[u] # << >>
    /\ \/ /\ applied[u] > 0
          /\ applied' = [applied EXCEPT ![u] = @ - 1]
          /\ UNCHANGED refused
       \/ /\ Cardinality(refused) < MaxRefusals
          /\ applied[u] = 0
          /\ refused' = refused \cup {Head(queue[u])}
          /\ UNCHANGED applied

(* The completion callback of the first write.  Its error is not looked    *)
(* at: the receiver's copy is written either way.                          *)
OwnWritten(u) ==
    LET w == Head(queue[u])
    IN  /\ Answered(u)
        /\ w.doc = "log" /\ w.owner = u
        /\ w.msg \in awaiting[u]
        /\ queue' = [queue EXCEPT ![u] = Tail(@) \o SecondWrites(w.msg)]
        /\ UNCHANGED <<screen, lastTime, awaiting, server, crashes, cut, raced>>

(* The completion callback of the second write: both recent-messages       *)
(* documents are set, without callbacks, and the upload reports true, which *)
(* empties the field if this upload is still the one listened to.          *)
PeerWritten(u) ==
    LET w == Head(queue[u])
        m == w.msg
    IN  /\ Answered(u)
        /\ w.doc = "log" /\ w.owner # u
        /\ m \in awaiting[u]
        /\ queue' = [queue EXCEPT ![u] = Tail(@) \o LastWrites(m)]
        /\ awaiting' = [awaiting EXCEPT ![u] = @ \ {m}]
        /\ IF ListensTo(u, m)
           THEN /\ field' = [field EXCEPT ![u] = NoText]
                /\ upload' = [upload EXCEPT ![u] = NoMsg]
           ELSE UNCHANGED <<field, upload>>
        /\ raced' = IF WritingRecents(m.to, m.from)
                    THEN raced \cup {{m.from, m.to}}
                    ELSE raced
        /\ UNCHANGED <<open, inputText, lastTime, server, crashes, cut>>

(* A write nobody waits for: a recent-messages document, or a log document *)
(* whose callback died with an earlier process.                            *)
QuietlyWritten(u) ==
    /\ Answered(u)
    /\ \/ Head(queue[u]).doc = "recent"
       \/ Head(queue[u]).msg \notin awaiting[u]
    /\ queue' = [queue EXCEPT ![u] = Tail(@)]
    /\ UNCHANGED <<screen, lastTime, awaiting, server, crashes, cut, raced>>

(* The process dies and is started again: the queue is read back from the  *)
(* disk and re-sent, the screen and every callback are gone.               *)
Crash(u) ==
    /\ crashes < MaxCrashes
    /\ crashes' = crashes + 1
    /\ cut' = cut \cup awaiting[u]
    /\ awaiting' = [awaiting EXCEPT ![u] = {}]
    /\ applied' = [applied EXCEPT ![u] = 0]
    /\ open' = [open EXCEPT ![u] = NoUser]
    /\ field' = [field EXCEPT ![u] = NoText]
    /\ inputText' = [inputText EXCEPT ![u] = NoText]
    /\ upload' = [upload EXCEPT ![u] = NoMsg]
    /\ queue' = [queue EXCEPT ![u] = QueueOnDisk(u)]
    /\ UNCHANGED <<lastTime, server, refused, raced>>

-----------------------------------------------------------------------------
Written(u) == OwnWritten(u) \/ PeerWritten(u) \/ QuietlyWritten(u)

Next ==
    \E u \in Users :
        \/ \E v \in Users : OpenChat(u, v)
        \/ LeaveChat(u)
        \/ \E text \in Texts \cup {NoText} : Type(u, text)
        \/ TextArrives(u)
        \/ \E ts \in 1 .. MaxTime[u] : SendTapped(u, ts)
        \/ Commit(u)
        \/ StreamReset(u)
        \/ OwnWritten(u)
        \/ PeerWritten(u)
        \/ QuietlyWritten(u)
        \/ Crash(u)

Spec == Init /\ [][Next]_vars

(* The network works in the long run: a pending write is committed, and an *)
(* acknowledgement that keeps becoming possible, however often the stream  *)
(* breaks in between, arrives.  The user owes nothing.                     *)
Fairness == \A u \in Users : WF_vars(Commit(u)) /\ SF_vars(Written(u))

FairSpec == Spec /\ Fairness

-----------------------------------------------------------------------------
(* Type correctness, with the two facts about screens and pipelines that   *)
(* the types of the rest rest on: nobody chats with themselves, and only   *)
(* queued writes can be waiting for an acknowledgement.                    *)
TypeOK ==
    /\ open \in [Users -> Users \cup {NoUser}]
    /\ \A u \in Users : open[u] # u
    /\ field \in [Users -> Texts \cup {NoText}]
    /\ inputText \in [Users -> Texts \cup {NoText}]
    /\ upload \in [Users -> Message \cup {NoMsg}]
    /\ lastTime \in [Users -> Nat]
    /\ awaiting \in [Users -> SUBSET Message]
    /\ queue \in [Users -> Seq(Write)]
    /\ applied \in [Users -> Nat]
    /\ \A u \in Users : applied[u] <= Len(queue[u])
    /\ log \in [Users -> SUBSET Message]
    /\ recent \in [Users -> [Users -> Message \cup {NoMsg}]]
    /\ crashes \in Nat
    /\ cut \in SUBSET Message
    /\ refused \in SUBSET Write
    /\ raced \in SUBSET SUBSET Users

-----------------------------------------------------------------------------
(* m is in u's log, unless the server refused that very write.             *)
Stored(u, m) == m \in log[u] \/ LogWrite(u, m) \in refused

(* The chat of u and v has nothing left to write, on either device.        *)
Drained(u, v) == queue[u] = << >> /\ queue[v] = << >>

(* The four writes of a message are not atomic, but they are chained: a    *)
(* receiver never holds a message its sender's own log lacks, and a        *)
(* conversation never shows as its latest message one that either of the   *)
(* two logs lacks (lines 138 to 141 of APIManager, through every crash,    *)
(* broken stream and overlapping upload).                                  *)
CopiesBacked ==
    /\ \A u \in Users : \A m \in log[u] :
            /\ u \in {m.from, m.to}
            /\ Stored(m.from, m)
    /\ \A u, v \in Users :
            recent[u][v] # NoMsg =>
                /\ {recent[u][v].from, recent[u][v].to} = {u, v}
                /\ Stored(u, recent[u][v])
                /\ Stored(v, recent[u][v])

(* What CopiesBacked rests on: every write waiting on u's device belongs   *)
(* to a message of u whose earlier copies are stored, and what the server  *)
(* committed ahead of an acknowledgement is in the log.                    *)
WriteBacked(u, w) ==
    /\ w.msg.from = u
    /\ w.owner \in {w.msg.from, w.msg.to}
    /\ w.doc = "log" /\ w.owner # u => Stored(u, w.msg)
    /\ w.doc = "recent" => Stored(w.msg.from, w.msg) /\ Stored(w.msg.to, w.msg)

QueueBacked ==
    \A u \in Users : \A i \in 1 .. Len(queue[u]) :
        /\ WriteBacked(u, queue[u][i])
        /\ i <= applied[u] /\ queue[u][i].doc = "log"
            => queue[u][i].msg \in log[queue[u][i].owner]

(* The upload the screen listens to is the newest tap, made on the chat    *)
(* that is open.                                                           *)
ListensToNewest ==
    \A u \in Users : upload[u] # NoMsg =>
        /\ upload[u].from = u /\ upload[u].to = open[u]
        /\ upload[u].ts = lastTime[u]

(* Taps may overlap uploads as they like: the receiver gets the messages   *)
(* of one sender without gaps.  What an earlier message of the same chat   *)
(* can miss is only what a crash cut off or the server refused.            *)
ReceiverSeesPrefix ==
    \A u, v \in Users : \A m1 \in log[u], m2 \in log[v] :
        /\ m1.from = u /\ m1.to = v
        /\ m2.from = u /\ m2.to = v
        /\ m1.ts < m2.ts
        => Stored(v, m1) \/ m1 \in cut

(* Once both devices have drained their queues, u's conversation with v    *)
(* shows some complete message if there is one, and never one older than   *)
(* another complete message of the same sender.                            *)
RecentIsLatest ==
    \A u, v \in Users : \A m \in log[u] \cap log[v] :
        /\ Drained(u, v)
        /\ {m.from, m.to} = {u, v}
        /\ m \notin cut
        /\ RecentWrite(u, m) \notin refused
        => /\ recent[u][v] # NoMsg
           /\ recent[u][v].from = m.from => m.ts <= recent[u][v].ts

(* After both have drained, the two sides of a chat list the same message, *)
(* unless their recent-messages writes were once under way in both         *)
(* directions (then they may disagree for good), or one was refused.       *)
RecentsAgree ==
    \A u, v \in Users :
        /\ Drained(u, v)
        /\ {u, v} \notin raced
        /\ \A w \in refused :
              w.doc = "recent" => {w.msg.from, w.msg.to} # {u, v}
        => recent[u][v] = recent[v][u]

(* The program empties the input field only for the answer of the newest   *)
(* tap of the screen that is open, and only when that message has reached  *)
(* both logs (flatMapLatest, and lines 150 to 155 of ChatController).      *)
ClearIsDeserved ==
    \A u \in Users :
        /\ field[u] # NoText /\ field'[u] = NoText
        /\ open[u] = open'[u] /\ queue[u] # queue'[u]
        => \A m \in {upload[u]} :
               /\ m # NoMsg
               /\ m.from = u /\ m.to = open[u] /\ m.ts = lastTime[u]
               /\ Stored(u, m)'
               /\ Stored(m.to, m)'

ClearsOnlyStored == [][ClearIsDeserved]_vars

(* A tapped message reaches its sender's log, whatever crashes; it reaches *)
(* the receiver's unless a crash cuts the chain in between.                *)
EventuallyDelivered ==
    \A u, v \in Users : \A text \in Texts : \A ts \in 1 .. MaxTime[u] :
        LET m == [from |-> u, to |-> v, text |-> text, ts |-> ts]
        IN  (m \in awaiting[u]) ~>
                (/\ Stored(u, m)
                 /\ Stored(v, m) \/ m \in cut)

-----------------------------------------------------------------------------
(* What the chain of writes implements.  A message is sent once a log or a *)
(* queue has it, or the server refused it; at risk are the messages that a *)
(* crash cut off or that had a copy refused.                               *)
Sendable ==
    UNION {[from: {u}, to: Users, text: Texts, ts: 1 .. MaxTime[u]] : u \in Users}

SentBy(u) == log[u] \cup {queue[u][i].msg : i \in 1 .. Len(queue[u])}

SentMessages == (UNION {SentBy(u) : u \in Users}) \cup {w.msg : w \in refused}

MessagesAtRisk == cut \cup {w.msg : w \in {x \in refused : x.doc = "log"}}

Promised == INSTANCE Delivery WITH sent <- SentMessages, atRisk <- MessagesAtRisk

(* Both logs get the messages of one sender in the order of the taps, and  *)
(* without gaps, and a conversation lists only what both logs have, save   *)
(* for messages at risk: overlapping chains, completions that ignore their *)
(* errors and writes that are sent again keep the promise of Delivery      *)
(* (lines 135 to 147 of APIManager on the client's write queue).           *)
KeepsPromise == Promised!Spec

=============================================================================
