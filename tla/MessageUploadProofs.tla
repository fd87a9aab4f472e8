------------------------ MODULE MessageUploadProofs ------------------------
(***************************************************************************)
(* What MessageUpload guarantees for every set of users and texts, every   *)
(* pipeline size and every number of messages, crashes and refusals.       *)
(***************************************************************************)
EXTENDS MessageUpload, TLAPS

(* The shape of the writes a message causes.                               *)
LEMMA WriteTypes ==
    ASSUME NEW u \in Users, NEW m \in Message
    PROVE  /\ LogWrite(u, m) \in Write
           /\ RecentWrite(u, m) \in Write
           /\ FirstWrites(u, m) \in Seq(Write)
           /\ SecondWrites(m) \in Seq(Write)
           /\ LastWrites(m) \in Seq(Write)
BY DEF Message, Write, LogWrite, RecentWrite, FirstWrites, SecondWrites,
       LastWrites

(* A message made of what the screen holds is a message.                   *)
LEMMA TappedMessage ==
    ASSUME TypeOK, NEW u \in Users, NEW ts \in Nat,
           open[u] # NoUser, inputText[u] # NoText
    PROVE  [from |-> u, to |-> open[u], text |-> inputText[u], ts |-> ts]
               \in Message
BY DEF TypeOK, Message

(* The front of a queue and what is left behind it.                        *)
LEMMA FrontOfQueue ==
    ASSUME NEW q \in Seq(Write), q # << >>
    PROVE  /\ Head(q) \in Write
           /\ Head(q) = q[1]
           /\ Tail(q) \in Seq(Write)
           /\ Len(q) \in Nat \ {0}
           /\ Len(Tail(q)) = Len(q) - 1
           /\ \A i \in 1 .. Len(Tail(q)) : Tail(q)[i] = q[i + 1]
OBVIOUS

(* A write names a message between two users.                              *)
LEMMA WriteParts ==
    ASSUME NEW w \in Write
    PROVE  /\ w.doc \in {"log", "recent"}
           /\ w.owner \in Users
           /\ w.msg \in Message
           /\ w.msg.from \in Users /\ w.msg.to \in Users
           /\ w.msg.from # w.msg.to
BY DEF Write, Message

-----------------------------------------------------------------------------
LEMMA TypeInit == Init => TypeOK
BY UploadAssumption DEF Init, TypeOK

LEMMA TypeNext == TypeOK /\ [Next]_vars => TypeOK'
<1> SUFFICES ASSUME TypeOK, [Next]_vars PROVE TypeOK'
    OBVIOUS
<1> USE UploadAssumption
<1>1. ASSUME NEW u \in Users, NEW v \in Users, OpenChat(u, v) PROVE TypeOK'
    BY <1>1 DEF TypeOK, OpenChat, Contacts, client, server, history
<1>2. ASSUME NEW u \in Users, LeaveChat(u) PROVE TypeOK'
    BY <1>2 DEF TypeOK, LeaveChat, client, server, history
<1>3. ASSUME NEW u \in Users, NEW text \in Texts \cup {NoText}, Type(u, text)
      PROVE TypeOK'
    BY <1>3 DEF TypeOK, Type, client, server, history
<1>4. ASSUME NEW u \in Users, TextArrives(u) PROVE TypeOK'
    BY <1>4 DEF TypeOK, TextArrives, client, server, history
<1>5. ASSUME NEW u \in Users, NEW ts \in 1 .. MaxTime[u], SendTapped(u, ts)
      PROVE TypeOK'
  <2> DEFINE m == [from |-> u, to |-> open[u], text |-> inputText[u],
                   ts |-> ts]
  <2>1. ts \in Nat /\ m \in Message
    BY <1>5, TappedMessage DEF SendTapped
  <2>2. FirstWrites(u, m) \in Seq(Write)
    BY <2>1, WriteTypes
  <2> HIDE DEF m
  <2>3. queue[u] \o FirstWrites(u, m) \in Seq(Write)
        /\ Len(queue[u]) <= Len(queue[u] \o FirstWrites(u, m))
    BY <2>2 DEF TypeOK
  <2>4. /\ lastTime' = [lastTime EXCEPT ![u] = ts]
        /\ awaiting' = [awaiting EXCEPT ![u] = awaiting[u] \cup {m}]
        /\ upload' = [upload EXCEPT ![u] = m]
        /\ queue' = [queue EXCEPT ![u] = queue[u] \o FirstWrites(u, m)]
        /\ UNCHANGED <<open, field, inputText, applied, server, history>>
    BY <1>5 DEF SendTapped, ChainsWith, Latest, m
  <2> QED
    BY <2>1, <2>3, <2>4 DEF TypeOK, server, history
<1>6. ASSUME NEW u \in Users, Commit(u) PROVE TypeOK'
  <2> DEFINE w == queue[u][applied[u] + 1]
  <2>1. w \in Write /\ applied[u] + 1 <= Len(queue[u])
    BY <1>6 DEF TypeOK, Commit
  <2>2. Partner(w.owner, w.msg) \in Users
    BY <2>1, WriteParts DEF Partner
  <2>3. w.owner \in Users /\ w.msg \in Message
    BY <2>1, WriteParts
  <2>4. \/ log' = [log EXCEPT ![w.owner] = log[w.owner] \cup {w.msg}]
           /\ recent' = recent
        \/ recent' = [recent EXCEPT
                          ![w.owner][Partner(w.owner, w.msg)] = w.msg]
           /\ log' = log
    BY <1>6 DEF Commit
  <2>5. /\ applied' = [applied EXCEPT ![u] = applied[u] + 1]
        /\ UNCHANGED <<screen, lastTime, awaiting, queue, history>>
    BY <1>6 DEF Commit
  <2>6. /\ applied' \in [Users -> Nat]
        /\ \A v \in Users : applied'[v] <= Len(queue'[v])
    BY <2>1, <2>5 DEF TypeOK
  <2> HIDE DEF w
  <2>7. log' \in [Users -> SUBSET Message]
    <3>1. log \in [Users -> SUBSET Message]
      BY DEF TypeOK
    <3> QED
      BY <2>3, <2>4, <3>1
  <2>8. recent' \in [Users -> [Users -> Message \cup {NoMsg}]]
    <3>1. recent \in [Users -> [Users -> Message \cup {NoMsg}]]
      BY DEF TypeOK
    <3> QED
      BY <2>2, <2>3, <2>4, <3>1
  <2> QED
    BY <2>5, <2>6, <2>7, <2>8 DEF TypeOK, screen, history
<1>7. ASSUME NEW u \in Users, StreamReset(u) PROVE TypeOK'
    BY <1>7 DEF TypeOK, StreamReset, screen, server, history
<1>8. ASSUME NEW u \in Users, Answered(u),
             NEW q \in Seq(Write),
             queue' = [queue EXCEPT ![u] = Tail(queue[u]) \o q]
      PROVE  /\ queue' \in [Users -> Seq(Write)]
             /\ applied' \in [Users -> Nat]
             /\ \A v \in Users : applied'[v] <= Len(queue'[v])
             /\ refused' \in SUBSET Write
  <2>1. queue[u] \in Seq(Write) /\ queue[u] # << >>
    BY <1>8 DEF Answered, TypeOK
  <2>2. Tail(queue[u]) \o q \in Seq(Write)
        /\ Len(Tail(queue[u]) \o q) >= Len(queue[u]) - 1
    BY <2>1, FrontOfQueue
  <2>3. Head(queue[u]) \in Write /\ Len(queue[u]) \in Nat \ {0}
    BY <2>1, FrontOfQueue
  <2>4. \/ applied[u] > 0 /\ refused' = refused
           /\ applied' = [applied EXCEPT ![u] = applied[u] - 1]
        \/ applied[u] = 0 /\ applied' = applied
           /\ refused' = refused \cup {Head(queue[u])}
    BY <1>8 DEF Answered
  <2>5. refused' \in SUBSET Write
    BY <2>3, <2>4 DEF TypeOK
  <2>6. /\ applied' \in [Users -> Nat]
        /\ applied'[u] <= Len(queue[u]) - 1
        /\ \A v \in Users \ {u} : applied'[v] = applied[v]
    <3>1. applied \in [Users -> Nat]
      BY DEF TypeOK
    <3>2. CASE applied[u] > 0 /\ applied' = [applied EXCEPT ![u] = applied[u] - 1]
      <4>1. applied[u] \in Nat /\ applied[u] <= Len(queue[u])
        BY <3>1 DEF TypeOK
      <4>2. applied'[u] = applied[u] - 1
        BY <3>1, <3>2
      <4>3. applied[u] - 1 \in Nat
        BY <3>2, <4>1
      <4>4. applied' \in [Users -> Nat]
        BY <3>1, <3>2, <4>3
      <4>5. \A v \in Users \ {u} : applied'[v] = applied[v]
        BY <3>1, <3>2
      <4> QED
        BY <2>3, <4>1, <4>2, <4>4, <4>5
    <3>3. CASE applied[u] = 0 /\ applied' = applied
      BY <2>3, <3>1, <3>3
    <3> QED
      BY <2>4, <3>2, <3>3
  <2>7. /\ queue' \in [Users -> Seq(Write)]
        /\ Len(queue'[u]) >= Len(queue[u]) - 1
        /\ \A v \in Users \ {u} : queue'[v] = queue[v]
    BY <1>8, <2>2 DEF TypeOK
  <2>8. \A v \in Users : applied'[v] <= Len(queue'[v])
    BY <2>3, <2>6, <2>7 DEF TypeOK
  <2> QED
    BY <2>5, <2>6, <2>7, <2>8
<1>9. ASSUME NEW u \in Users, OwnWritten(u) PROVE TypeOK'
  <2>1. Head(queue[u]).msg \in Message /\ Head(queue[u]).owner \in Users
    BY <1>9, FrontOfQueue, WriteParts DEF OwnWritten, Answered, TypeOK
  <2>2. SecondWrites(Head(queue[u]).msg) \in Seq(Write)
    BY <2>1, WriteTypes
  <2>3. /\ queue' \in [Users -> Seq(Write)]
        /\ applied' \in [Users -> Nat]
        /\ \A v \in Users : applied'[v] <= Len(queue'[v])
        /\ refused' \in SUBSET Write
    BY <1>8, <1>9, <2>2 DEF OwnWritten
  <2> QED
    BY <1>9, <2>3 DEF OwnWritten, TypeOK, screen, server
<1>10. ASSUME NEW u \in Users, PeerWritten(u) PROVE TypeOK'
  <2> DEFINE m == Head(queue[u]).msg
  <2>1. m \in Message /\ Head(queue[u]).owner \in Users
    BY <1>10, FrontOfQueue, WriteParts DEF PeerWritten, Answered, TypeOK
  <2>2. LastWrites(m) \in Seq(Write)
    BY <2>1, WriteTypes
  <2>3. {m.from, m.to} \in SUBSET Users
    BY <2>1 DEF Message
  <2>4. /\ field' = [field EXCEPT ![u] = NoText] \/ field' = field
        /\ upload' = [upload EXCEPT ![u] = NoMsg] \/ upload' = upload
        /\ awaiting' = [awaiting EXCEPT ![u] = awaiting[u] \ {m}]
        /\ raced' = raced \/ raced' = raced \cup {{m.from, m.to}}
        /\ UNCHANGED <<open, inputText, lastTime, server, crashes, cut>>
    BY <1>10 DEF PeerWritten
  <2>5. /\ queue' \in [Users -> Seq(Write)]
        /\ applied' \in [Users -> Nat]
        /\ \A v \in Users : applied'[v] <= Len(queue'[v])
        /\ refused' \in SUBSET Write
    BY <1>8, <1>10, <2>2 DEF PeerWritten
  <2> HIDE DEF m
  <2>6. /\ field' \in [Users -> Texts \cup {NoText}]
        /\ upload' \in [Users -> Message \cup {NoMsg}]
    BY <2>4 DEF TypeOK
  <2>7. awaiting' \in [Users -> SUBSET Message]
    BY <2>4 DEF TypeOK
  <2>8. raced' \in SUBSET SUBSET Users
    BY <2>3, <2>4 DEF TypeOK
  <2> QED
    BY <2>4, <2>5, <2>6, <2>7, <2>8 DEF TypeOK, server
<1>11. ASSUME NEW u \in Users, QuietlyWritten(u) PROVE TypeOK'
  <2>1. queue[u] \in Seq(Write) /\ queue[u] # << >>
    BY <1>11 DEF QuietlyWritten, Answered, TypeOK
  <2>2. Tail(queue[u]) = Tail(queue[u]) \o << >> /\ << >> \in Seq(Write)
    BY <2>1, FrontOfQueue
  <2> QED
    BY <1>8, <1>11, <2>2 DEF QuietlyWritten, TypeOK, screen, server
<1>12. ASSUME NEW u \in Users, Crash(u) PROVE TypeOK'
    BY <1>12 DEF TypeOK, Crash, QueueOnDisk, server
<1>13. CASE UNCHANGED vars
    BY <1>13 DEF TypeOK, vars, screen, client, server, history
<1> QED
    BY <1>1, <1>2, <1>3, <1>4, <1>5, <1>6, <1>7, <1>9, <1>10, <1>11, <1>12,
       <1>13 DEF Next

(* The types hold in every state, whatever the bounds.                     *)
THEOREM TypeCorrect == Spec => []TypeOK
BY TypeInit, TypeNext, PTL DEF Spec

-----------------------------------------------------------------------------
(* The copies of a message.  CopiesBacked is not inductive alone: a step   *)
(* that commits a write is covered by what QueueBacked says of the queue.  *)
CopiesInv == TypeOK /\ QueueBacked /\ CopiesBacked

(* A log write is determined by its owner and its message.                 *)
LEMMA LogWriteIs ==
    ASSUME NEW w \in Write, w.doc = "log"
    PROVE  w = LogWrite(w.owner, w.msg)
BY DEF Write, LogWrite

(* What is stored stays stored.                                            *)
LEMMA StoredForGood ==
    ASSUME NEW u, NEW m, log[u] \subseteq log'[u], refused \subseteq refused',
           Stored(u, m)
    PROVE  Stored(u, m)'
BY DEF Stored

(* The write a device learns the fate of is stored, or refused.            *)
LEMMA AnsweredIsStored ==
    ASSUME TypeOK, QueueBacked, NEW u \in Users, Answered(u), UNCHANGED log,
           NEW w, w = Head(queue[u]), w.doc = "log"
    PROVE  Stored(w.owner, w.msg)'
<1>1. /\ w \in Write /\ w = queue[u][1] /\ Len(queue[u]) \in Nat \ {0}
  BY FrontOfQueue DEF Answered, TypeOK
<1>2. CASE applied[u] > 0
  <2>1. applied[u] \in Nat /\ 1 \in 1 .. Len(queue[u]) /\ 1 <= applied[u]
    BY <1>1, <1>2 DEF TypeOK
  <2>2. w.msg \in log[w.owner]
    BY <1>1, <2>1 DEF QueueBacked
  <2> QED
    BY <2>2 DEF Stored
<1>3. CASE ~(applied[u] > 0)
  <2>1. w \in refused'
    BY <1>3 DEF Answered
  <2> QED
    BY <1>1, <2>1, LogWriteIs DEF Stored
<1> QED
  BY <1>2, <1>3

(* A device pops an answered write and appends the writes q that follow    *)
(* it, each of them backed by now: the invariant survives.                 *)
LEMMA AnswerKeepsCopies ==
    ASSUME CopiesInv, TypeOK', NEW u \in Users, Answered(u),
           UNCHANGED server,
           NEW q \in Seq(Write),
           queue' = [queue EXCEPT ![u] = Tail(queue[u]) \o q],
           \A i \in 1 .. Len(q) : WriteBacked(u, q[i])'
    PROVE  QueueBacked' /\ CopiesBacked'
<1>1. refused \subseteq refused' /\ log' = log /\ recent' = recent
  BY DEF Answered, server
<1>2. /\ queue[u] \in Seq(Write) /\ queue[u] # << >>
      /\ Tail(queue[u]) \in Seq(Write)
      /\ Len(Tail(queue[u])) = Len(queue[u]) - 1
      /\ \A i \in 1 .. Len(Tail(queue[u])) : Tail(queue[u])[i] = queue[u][i + 1]
  BY FrontOfQueue DEF CopiesInv, TypeOK, Answered
<1>3. CopiesBacked'
  BY <1>1, StoredForGood DEF CopiesInv, CopiesBacked, Stored
<1>4. ASSUME NEW v \in Users, NEW w, WriteBacked(v, w) PROVE WriteBacked(v, w)'
  BY <1>1, <1>4 DEF WriteBacked, Stored
<1>5. /\ applied[u] \in Nat /\ applied[u] <= Len(queue[u])
      /\ applied'[u] <= Len(queue[u]) - 1
      /\ \A i \in Nat \ {0} : i <= applied'[u] => i + 1 <= applied[u]
      /\ \A v \in Users \ {u} : applied'[v] = applied[v]
  <2>1. applied \in [Users -> Nat] /\ applied[u] <= Len(queue[u])
    BY DEF CopiesInv, TypeOK
  <2>2. Len(queue[u]) \in Nat \ {0}
    BY <1>2
  <2>3. CASE applied[u] > 0 /\ applied' = [applied EXCEPT ![u] = applied[u] - 1]
    <3>1. applied'[u] = applied[u] - 1
      BY <2>1, <2>3
    <3>2. \A v \in Users \ {u} : applied'[v] = applied[v]
      BY <2>1, <2>3
    <3> QED
      BY <2>1, <2>2, <3>1, <3>2
  <2>4. CASE applied[u] = 0 /\ applied' = applied
    BY <2>1, <2>2, <2>4
  <2> QED
    BY <2>3, <2>4 DEF Answered
<1>6. QueueBacked'
  <2> SUFFICES ASSUME NEW v \in Users, NEW i \in 1 .. Len(queue'[v]),
                      NEW w, w = queue'[v][i]
               PROVE  /\ WriteBacked(v, w)'
                      /\ i <= applied'[v] /\ w.doc = "log"
                         => w.msg \in log'[w.owner]
    BY DEF QueueBacked, WriteBacked
  <2>1. CASE v # u
    <3>1. w = queue[v][i] /\ i \in 1 .. Len(queue[v]) /\ applied'[v] = applied[v]
      BY <1>5, <2>1 DEF CopiesInv, TypeOK
    <3> QED
      BY <1>1, <1>4, <3>1 DEF CopiesInv, QueueBacked
  <2>2. CASE v = u
    <3> DEFINE t == Tail(queue[u])
    <3>1. queue'[u] = t \o q
      BY DEF CopiesInv, TypeOK
    <3>2. CASE i <= Len(t)
      <4>1. w = queue[u][i + 1] /\ i + 1 \in 1 .. Len(queue[u])
        BY <1>2, <2>2, <3>1, <3>2
      <4>2. WriteBacked(u, w) /\ (i + 1 <= applied[u] /\ w.doc = "log"
                                  => w.msg \in log[w.owner])
        BY <4>1 DEF CopiesInv, QueueBacked
      <4>3. i <= applied'[u] => i + 1 <= applied[u]
        BY <1>5
      <4>4. WriteBacked(u, w)'
        BY <1>4, <4>2
      <4> QED
        BY <1>1, <2>2, <4>2, <4>3, <4>4
    <3>3. CASE i > Len(t)
      <4>1. w = q[i - Len(t)] /\ i - Len(t) \in 1 .. Len(q)
        <5>1. t \in Seq(Write) /\ i \in 1 .. Len(t \o q) /\ w = (t \o q)[i]
          BY <1>2, <2>2, <3>1
        <5> HIDE DEF t
        <5> QED
          BY <3>3, <5>1
      <4>2. WriteBacked(u, w)'
        BY <4>1
      <4>3. ~(i <= applied'[u])
        <5>1. applied'[u] \in Nat /\ Len(t) = Len(queue[u]) - 1
              /\ Len(queue[u]) \in Nat
          BY <1>2 DEF TypeOK
        <5> QED
          BY <1>5, <3>3, <5>1
      <4> QED
        BY <2>2, <4>2, <4>3
    <3> QED
      BY <1>2, <2>2, <3>1, <3>2, <3>3
  <2> QED
    BY <2>1, <2>2
<1> QED
  BY <1>3, <1>6

(* The write a device learns the fate of is backed.                        *)
LEMMA FrontWriteBacked ==
    ASSUME CopiesInv, NEW u \in Users, Answered(u)
    PROVE  Head(queue[u]) \in Write /\ WriteBacked(u, Head(queue[u]))
<1>1. /\ Head(queue[u]) \in Write /\ Head(queue[u]) = queue[u][1]
      /\ 1 \in 1 .. Len(queue[u])
  BY FrontOfQueue DEF CopiesInv, Answered, TypeOK
<1> QED
  BY <1>1 DEF CopiesInv, QueueBacked

LEMMA CopiesInit == Init => CopiesInv
<1> SUFFICES ASSUME Init PROVE CopiesInv
  OBVIOUS
<1>1. QueueBacked
  BY DEF Init, QueueBacked
<1>2. CopiesBacked
  BY DEF Init, CopiesBacked
<1> QED
  BY <1>1, <1>2, TypeInit DEF CopiesInv

(* Steps that leave the queues and the server alone, or only shorten what  *)
(* is known to be applied.                                                 *)
LEMMA QuietStepsKeepCopies ==
    ASSUME CopiesInv, UNCHANGED <<queue, server, refused>>,
           \A v \in Users : \A i \in Nat \ {0} :
               i <= applied'[v] => i <= applied[v]
    PROVE  QueueBacked' /\ CopiesBacked'
<1>1. CopiesBacked'
  BY DEF CopiesInv, CopiesBacked, Stored, server
<1>2. QueueBacked'
  BY DEF CopiesInv, QueueBacked, WriteBacked, Stored, server
<1> QED
  BY <1>1, <1>2

LEMMA CopiesNext == CopiesInv /\ [Next]_vars => CopiesInv'
<1> SUFFICES ASSUME CopiesInv, [Next]_vars PROVE CopiesInv'
  OBVIOUS
<1> USE DEF CopiesInv
<1>0. TypeOK'
  BY TypeNext
<1>1. ASSUME UNCHANGED <<queue, applied, server, refused>> PROVE CopiesInv'
  BY <1>0, <1>1, QuietStepsKeepCopies
<1>2. ASSUME NEW u \in Users, NEW v \in Users, OpenChat(u, v) PROVE CopiesInv'
  BY <1>1, <1>2 DEF OpenChat, client, history
<1>3. ASSUME NEW u \in Users, LeaveChat(u) PROVE CopiesInv'
  BY <1>1, <1>3 DEF LeaveChat, client, history
<1>4. ASSUME NEW u \in Users, NEW text \in Texts \cup {NoText}, Type(u, text)
      PROVE CopiesInv'
  BY <1>1, <1>4 DEF Type, client, history
<1>5. ASSUME NEW u \in Users, TextArrives(u) PROVE CopiesInv'
  BY <1>1, <1>5 DEF TextArrives, client, history
<1>6. ASSUME NEW u \in Users, NEW ts \in 1 .. MaxTime[u], SendTapped(u, ts)
      PROVE CopiesInv'
  <2> DEFINE m == [from |-> u, to |-> open[u], text |-> inputText[u],
                   ts |-> ts]
  <2>1. /\ queue' = [queue EXCEPT ![u] = queue[u] \o <<LogWrite(u, m)>>]
        /\ UNCHANGED <<applied, log, recent, refused>>
    BY <1>6 DEF SendTapped, FirstWrites, server, history
  <2>2. m.from = u
    OBVIOUS
  <2> HIDE DEF m
  <2>3. CopiesBacked'
    BY <2>1 DEF CopiesBacked, Stored
  <2>4. QueueBacked'
    <3> SUFFICES ASSUME NEW v \in Users, NEW i \in 1 .. Len(queue'[v]),
                        NEW w, w = queue'[v][i]
                 PROVE  /\ WriteBacked(v, w)
                        /\ i <= applied[v] /\ w.doc = "log"
                           => w.msg \in log[w.owner]
      <4>1. \A x, y : WriteBacked(x, y)' <=> WriteBacked(x, y)
        BY <2>1 DEF WriteBacked, Stored
      <4> QED
        BY <2>1, <4>1 DEF QueueBacked
    <3>1. CASE v # u \/ i <= Len(queue[u])
      <4>1. w = queue[v][i] /\ i \in 1 .. Len(queue[v])
        BY <2>1, <3>1 DEF TypeOK
      <4> QED
        BY <4>1 DEF QueueBacked
    <3>2. CASE v = u /\ ~(i <= Len(queue[u]))
      <4>1. queue[u] \in Seq(Write) /\ queue'[u] = queue[u] \o <<LogWrite(u, m)>>
        BY <2>1 DEF TypeOK
      <4>2. i \in 1 .. Len(queue[u]) + 1 /\ i > Len(queue[u])
        BY <3>2, <4>1
      <4>3. w = LogWrite(u, m)
        BY <3>2, <4>1, <4>2
      <4>4. ~(i <= applied[u])
        BY <4>1, <4>2 DEF TypeOK
      <4> QED
        BY <2>2, <3>2, <4>3, <4>4 DEF WriteBacked, LogWrite
    <3> QED
      BY <3>1, <3>2
  <2> QED
    BY <1>0, <2>3, <2>4
<1>7. ASSUME NEW u \in Users, Commit(u) PROVE CopiesInv'
  <2> DEFINE w == queue[u][applied[u] + 1]
  <2>1. /\ applied[u] \in Nat /\ applied[u] + 1 \in 1 .. Len(queue[u])
        /\ w \in Write
    BY <1>7 DEF Commit, TypeOK
  <2>2. WriteBacked(u, w)
    BY <2>1 DEF QueueBacked
  <2>3. /\ w.owner \in Users /\ w.msg \in Message
        /\ w.msg.from \in Users /\ w.msg.to \in Users
    BY <2>1, WriteParts
  <2>4. /\ applied' = [applied EXCEPT ![u] = applied[u] + 1]
        /\ UNCHANGED <<queue, refused>>
    BY <1>7 DEF Commit, history
  <2>5. \/ /\ w.doc = "log" /\ recent' = recent
           /\ log' = [log EXCEPT ![w.owner] = log[w.owner] \cup {w.msg}]
        \/ /\ w.doc = "recent" /\ log' = log
           /\ recent' = [recent EXCEPT
                             ![w.owner][Partner(w.owner, w.msg)] = w.msg]
    BY <1>7 DEF Commit
  <2>6. log \in [Users -> SUBSET Message]
        /\ recent \in [Users -> [Users -> Message \cup {NoMsg}]]
    BY DEF TypeOK
  <2> HIDE DEF w
  <2>7. \A v \in Users : log[v] \subseteq log'[v]
    BY <2>3, <2>5, <2>6
  <2>8. ASSUME NEW v \in Users, NEW m, Stored(v, m) PROVE Stored(v, m)'
    BY <2>4, <2>7, <2>8 DEF Stored
  <2>9. QueueBacked'
    <3> SUFFICES ASSUME NEW v \in Users, NEW i \in 1 .. Len(queue[v]),
                        NEW x, x = queue[v][i]
                 PROVE  /\ WriteBacked(v, x)'
                        /\ i <= applied'[v] /\ x.doc = "log"
                           => x.msg \in log'[x.owner]
      BY <2>4 DEF QueueBacked, WriteBacked, Stored
    <3>1. x \in Write
      BY DEF TypeOK
    <3>2. WriteBacked(v, x)
      BY DEF QueueBacked
    <3>3. WriteBacked(v, x)'
      BY <2>8, <3>1, <3>2, WriteParts DEF WriteBacked
    <3>4. ASSUME i <= applied'[v], x.doc = "log" PROVE x.msg \in log'[x.owner]
      <4>1. x.owner \in Users
        BY <3>1, WriteParts
      <4>2. CASE i <= applied[v]
        BY <2>7, <3>4, <4>1, <4>2 DEF QueueBacked
      <4>3. CASE ~(i <= applied[v])
        <5>1. v = u /\ i = applied[u] + 1
          BY <2>1, <2>4, <3>4, <4>3 DEF TypeOK
        <5>2. x = w
          BY <5>1 DEF w
        <5> QED
          BY <2>3, <2>5, <2>6, <3>4, <5>2
      <4> QED
        BY <4>2, <4>3
    <3> QED
      BY <3>3, <3>4
  <2>10. ASSUME NEW v \in Users, NEW m \in log'[v]
         PROVE  v \in {m.from, m.to} /\ Stored(m.from, m)'
    <3>1. CASE m \in log[v]
      <4>1. m \in Message
        BY <2>6, <3>1
      <4>2. v \in {m.from, m.to} /\ Stored(m.from, m)
        BY <3>1 DEF CopiesBacked
      <4> QED
        BY <2>8, <4>1, <4>2 DEF Message
    <3>2. CASE m \notin log[v]
      <4>1. w.doc = "log" /\ v = w.owner /\ m = w.msg
        BY <2>3, <2>5, <2>6, <2>10, <3>2
      <4>2. v \in {m.from, m.to} /\ m.from = u
        BY <2>2, <4>1 DEF WriteBacked
      <4>3. CASE v = u
        BY <2>10, <4>2, <4>3 DEF Stored
      <4>4. CASE v # u
        <5>1. Stored(u, m)
          BY <2>2, <4>1, <4>4 DEF WriteBacked
        <5> QED
          BY <2>8, <4>2, <5>1
      <4> QED
        BY <4>2, <4>3, <4>4
    <3> QED
      BY <3>1, <3>2
  <2>11. ASSUME NEW a \in Users, NEW b \in Users, recent'[a][b] # NoMsg
         PROVE  /\ {recent'[a][b].from, recent'[a][b].to} = {a, b}
                /\ Stored(a, recent[a][b])'
                /\ Stored(b, recent[a][b])'
    <3>1. CASE recent'[a][b] = recent[a][b]
      <4>1. {recent[a][b].from, recent[a][b].to} = {a, b}
            /\ Stored(a, recent[a][b]) /\ Stored(b, recent[a][b])
        BY <2>11, <3>1 DEF CopiesBacked
      <4> QED
        BY <2>8, <3>1, <4>1 DEF Stored
    <3>2. CASE recent'[a][b] # recent[a][b]
      <4>1. /\ w.doc = "recent" /\ a = w.owner /\ recent'[a][b] = w.msg
            /\ b = Partner(w.owner, w.msg)
        BY <2>3, <2>5, <2>6, <3>2
      <4>2. a \in {w.msg.from, w.msg.to} /\ Stored(w.msg.from, w.msg)
            /\ Stored(w.msg.to, w.msg)
        BY <2>2, <4>1 DEF WriteBacked
      <4>3. {w.msg.from, w.msg.to} = {a, b}
        BY <4>1, <4>2 DEF Partner
      <4>4. Stored(a, w.msg) /\ Stored(b, w.msg)
        BY <4>2, <4>3
      <4>5. \A m : m = w.msg => Stored(a, m)' /\ Stored(b, m)'
        BY <2>8, <4>4
      <4> QED
        BY <4>1, <4>3, <4>5 DEF Stored
    <3> QED
      BY <3>1, <3>2
  <2>12. CopiesBacked'
    BY <2>10, <2>11 DEF CopiesBacked, Stored
  <2> QED
    BY <1>0, <2>9, <2>12
<1>8. ASSUME NEW u \in Users, StreamReset(u) PROVE CopiesInv'
  <2>1. \A v \in Users : \A i \in Nat \ {0} : i <= applied'[v] => i <= applied[v]
    BY <1>8 DEF StreamReset, TypeOK
  <2> QED
    BY <1>0, <1>8, <2>1, QuietStepsKeepCopies DEF StreamReset, history
<1>9. ASSUME NEW u \in Users, OwnWritten(u) PROVE CopiesInv'
  <2> DEFINE w == Head(queue[u])
             m == w.msg
  <2>1. /\ Answered(u) /\ UNCHANGED server
        /\ w.doc = "log" /\ w.owner = u
        /\ queue' = [queue EXCEPT ![u] = Tail(queue[u]) \o SecondWrites(m)]
    BY <1>9 DEF OwnWritten
  <2>2. w \in Write /\ WriteBacked(u, w)
    BY <2>1, FrontWriteBacked
  <2>3. m \in Message /\ m.from = u
    BY <2>2, WriteParts DEF WriteBacked
  <2>4. \A x : x = m => Stored(u, x)'
    BY <2>1, AnsweredIsStored DEF server
  <2> HIDE DEF w, m
  <2>5. SecondWrites(m) \in Seq(Write)
    BY <2>3, WriteTypes
  <2>6. \A x : x = m => WriteBacked(u, LogWrite(x.to, x))'
    BY <2>3, <2>4 DEF WriteBacked, LogWrite
  <2>7. ASSUME NEW q, q = SecondWrites(m), NEW i \in 1 .. Len(q)
        PROVE  WriteBacked(u, q[i])'
    BY <2>6, <2>7 DEF SecondWrites
  <2> QED
    BY <1>0, <2>1, <2>5, <2>7, AnswerKeepsCopies
<1>10. ASSUME NEW u \in Users, PeerWritten(u) PROVE CopiesInv'
  <2> DEFINE w == Head(queue[u])
             m == w.msg
  <2>1. /\ Answered(u) /\ UNCHANGED server
        /\ w.doc = "log" /\ w.owner # u
        /\ queue' = [queue EXCEPT ![u] = Tail(queue[u]) \o LastWrites(m)]
    BY <1>10 DEF PeerWritten
  <2>2. w \in Write /\ WriteBacked(u, w)
    BY <2>1, FrontWriteBacked
  <2>3. /\ m \in Message /\ m.from = u /\ m.to = w.owner
        /\ Stored(u, m)
    BY <2>1, <2>2, WriteParts DEF WriteBacked
  <2>4. \A x : x = m => Stored(x.from, x)' /\ Stored(x.to, x)'
    <3>1. \A x : x = w => Stored(x.owner, x.msg)'
      BY <2>1, AnsweredIsStored DEF server
    <3>2. refused \subseteq refused' /\ log' = log
      BY <2>1 DEF Answered, server
    <3> QED
      BY <2>3, <3>1, <3>2 DEF Stored
  <2> HIDE DEF w, m
  <2>5. LastWrites(m) \in Seq(Write)
    BY <2>3, WriteTypes
  <2>6. \A x : x = m => /\ WriteBacked(u, RecentWrite(x.from, x))'
                        /\ WriteBacked(u, RecentWrite(x.to, x))'
    BY <2>3, <2>4 DEF WriteBacked, RecentWrite
  <2>7. ASSUME NEW q, q = LastWrites(m), NEW i \in 1 .. Len(q)
        PROVE  WriteBacked(u, q[i])'
    <3>1. q = <<RecentWrite(m.from, m), RecentWrite(m.to, m)>>
      BY <2>7 DEF LastWrites
    <3>2. i \in 1 .. 2
      BY <3>1
    <3>3. \/ q[i] = RecentWrite(m.from, m)
          \/ q[i] = RecentWrite(m.to, m)
      BY <3>1, <3>2
    <3> QED
      BY <2>6, <3>3
  <2> QED
    BY <1>0, <2>1, <2>5, <2>7, AnswerKeepsCopies
<1>11. ASSUME NEW u \in Users, QuietlyWritten(u) PROVE CopiesInv'
  <2>1. queue[u] \in Seq(Write) /\ queue[u] # << >>
    BY <1>11 DEF QuietlyWritten, Answered, TypeOK
  <2>2. Tail(queue[u]) = Tail(queue[u]) \o << >> /\ << >> \in Seq(Write)
    BY <2>1, FrontOfQueue
  <2>3. /\ Answered(u) /\ UNCHANGED server
        /\ queue' = [queue EXCEPT ![u] = Tail(queue[u]) \o << >>]
    BY <1>11, <2>2 DEF QuietlyWritten
  <2>4. ASSUME NEW q, q = << >>, NEW i \in 1 .. Len(q)
        PROVE  WriteBacked(u, q[i])'
    BY <2>4
  <2>5. QueueBacked' /\ CopiesBacked'
    BY <1>0, <2>2, <2>3, <2>4, AnswerKeepsCopies
  <2> QED
    BY <1>0, <2>5
<1>12. ASSUME NEW u \in Users, Crash(u) PROVE CopiesInv'
  <2>1. queue' = queue /\ UNCHANGED <<server, refused>>
    BY <1>12 DEF Crash, QueueOnDisk, TypeOK
  <2>2. \A v \in Users : \A i \in Nat \ {0} : i <= applied'[v] => i <= applied[v]
    BY <1>12 DEF Crash, TypeOK
  <2> QED
    BY <1>0, <2>1, <2>2, QuietStepsKeepCopies
<1>13. CASE UNCHANGED vars
  BY <1>1, <1>13 DEF vars, client, history
<1> QED
  BY <1>2, <1>3, <1>4, <1>5, <1>6, <1>7, <1>8, <1>9, <1>10, <1>11, <1>12,
     <1>13 DEF Next

(* Every copy rests on the earlier ones, in every state of every instance. *)
THEOREM CopiesAlwaysBacked == Spec => []CopiesBacked
<1>1. CopiesInv => CopiesBacked
  BY DEF CopiesInv
<1> QED
  BY CopiesInit, CopiesNext, <1>1, PTL DEF Spec

-----------------------------------------------------------------------------
(* When the program empties the input field.                               *)
ClearInv == CopiesInv /\ ListensToNewest

LEMMA ListensInit == Init => ListensToNewest
BY DEF Init, ListensToNewest

LEMMA ListensNext == TypeOK /\ ListensToNewest /\ [Next]_vars => ListensToNewest'
<1> SUFFICES ASSUME TypeOK, ListensToNewest, [Next]_vars,
                    NEW v \in Users, upload'[v] # NoMsg
             PROVE  /\ upload'[v].from = v /\ upload'[v].to = open'[v]
                    /\ upload'[v].ts = lastTime'[v]
  BY DEF ListensToNewest
<1>1. ASSUME upload'[v] = upload[v], open'[v] = open[v],
             lastTime'[v] = lastTime[v]
      PROVE  /\ upload'[v].from = v /\ upload'[v].to = open'[v]
             /\ upload'[v].ts = lastTime'[v]
  BY <1>1 DEF ListensToNewest
<1>2. /\ open \in [Users -> Users \cup {NoUser}]
      /\ upload \in [Users -> Message \cup {NoMsg}]
      /\ lastTime \in [Users -> Nat]
  BY DEF TypeOK
<1>3. ASSUME NEW u \in Users, NEW x \in Users, OpenChat(u, x)
      PROVE  /\ upload'[v] = upload[v] /\ open'[v] = open[v]
             /\ lastTime'[v] = lastTime[v]
  <2>1. upload' = upload /\ lastTime' = lastTime /\ open[u] = NoUser
        /\ open' = [open EXCEPT ![u] = x]
    BY <1>3 DEF OpenChat, client
  <2>2. upload[v] \in Message /\ upload[v].to = open[v]
    BY <1>2, <2>1 DEF ListensToNewest
  <2>3. v # u
    BY <2>1, <2>2, UploadAssumption DEF Message
  <2> QED
    BY <1>2, <2>1, <2>3
<1>4. ASSUME NEW u \in Users, LeaveChat(u) \/ Crash(u)
      PROVE  /\ upload'[v] = upload[v] /\ open'[v] = open[v]
             /\ lastTime'[v] = lastTime[v]
  BY <1>2, <1>4 DEF LeaveChat, Crash, client
<1>5. ASSUME NEW u \in Users, NEW ts \in 1 .. MaxTime[u], SendTapped(u, ts)
      PROVE  /\ upload'[v].from = v /\ upload'[v].to = open'[v]
             /\ upload'[v].ts = lastTime'[v]
  <2> DEFINE m == [from |-> u, to |-> open[u], text |-> inputText[u],
                   ts |-> ts]
  <2>1. /\ upload' = [upload EXCEPT ![u] = m] /\ open' = open
        /\ lastTime' = [lastTime EXCEPT ![u] = ts]
    BY <1>5 DEF SendTapped, Latest
  <2>2. CASE v = u
    BY <1>2, <2>1, <2>2
  <2>3. CASE v # u
    BY <1>1, <1>2, <2>1, <2>3
  <2> QED
    BY <2>2, <2>3
<1>6. ASSUME NEW u \in Users, PeerWritten(u)
      PROVE  /\ upload'[v] = upload[v] /\ open'[v] = open[v]
             /\ lastTime'[v] = lastTime[v]
  <2>1. /\ open' = open /\ lastTime' = lastTime
        /\ upload' = upload \/ upload' = [upload EXCEPT ![u] = NoMsg]
    BY <1>6 DEF PeerWritten
  <2> QED
    BY <1>2, <2>1
<1>7. ASSUME UNCHANGED <<open, upload, lastTime>>
      PROVE  /\ upload'[v].from = v /\ upload'[v].to = open'[v]
             /\ upload'[v].ts = lastTime'[v]
  BY <1>1, <1>7
<1>8. ASSUME NEW u \in Users,
             \/ \E text \in Texts \cup {NoText} : Type(u, text)
             \/ TextArrives(u)
             \/ Commit(u)
             \/ StreamReset(u)
             \/ OwnWritten(u)
             \/ QuietlyWritten(u)
      PROVE  UNCHANGED <<open, upload, lastTime>>
  BY <1>8 DEF Type, TextArrives, Commit, StreamReset, OwnWritten,
              QuietlyWritten, screen, client
<1>9. CASE UNCHANGED vars
  BY <1>7, <1>9 DEF vars, screen, client
<1> QED
  BY <1>1, <1>3, <1>4, <1>5, <1>6, <1>7, <1>8, <1>9 DEF Next

LEMMA ClearStep == ClearInv /\ [Next]_vars => [ClearIsDeserved]_vars
<1> SUFFICES ASSUME ClearInv, Next,
                    NEW u \in Users, field[u] # NoText, field'[u] = NoText,
                    open[u] = open'[u], queue[u] # queue'[u],
                    NEW m, m = upload[u]
             PROVE  /\ m # NoMsg
                    /\ m.from = u /\ m.to = open[u] /\ m.ts = lastTime[u]
                    /\ Stored(u, m)'
                    /\ Stored(m.to, m)'
  BY DEF ClearIsDeserved
<1> USE DEF ClearInv, CopiesInv
<1>1. /\ field \in [Users -> Texts \cup {NoText}]
      /\ queue \in [Users -> Seq(Write)]
      /\ upload \in [Users -> Message \cup {NoMsg}]
  BY DEF TypeOK
<1>2. PICK x \in Users : PeerWritten(x)
  <2>1. ASSUME NEW x \in Users,
               \/ \E v \in Users : OpenChat(x, v)
               \/ LeaveChat(x)
               \/ \E text \in Texts \cup {NoText} : Type(x, text)
               \/ TextArrives(x)
               \/ Commit(x)
               \/ StreamReset(x)
        PROVE  queue' = queue
    BY <2>1 DEF OpenChat, LeaveChat, Type, TextArrives, Commit, StreamReset,
                client
  <2>2. ASSUME NEW x \in Users, Crash(x) PROVE queue' = queue
    BY <1>1, <2>2 DEF Crash, QueueOnDisk
  <2>3. ASSUME NEW x \in Users,
               \/ \E ts \in 1 .. MaxTime[x] : SendTapped(x, ts)
               \/ OwnWritten(x)
               \/ QuietlyWritten(x)
        PROVE  field' = field
    BY <2>3 DEF SendTapped, OwnWritten, QuietlyWritten, screen
  <2> QED
    BY <2>1, <2>2, <2>3 DEF Next
<1>3. /\ Answered(x) /\ UNCHANGED server
      /\ Head(queue[x]).doc = "log" /\ Head(queue[x]).owner # x
      /\ x = u /\ upload[x] = Head(queue[x]).msg
  <2>1. /\ Answered(x) /\ UNCHANGED server
        /\ Head(queue[x]).doc = "log" /\ Head(queue[x]).owner # x
        /\ \/ /\ upload[x] = Head(queue[x]).msg
              /\ field' = [field EXCEPT ![x] = NoText]
           \/ field' = field
    BY <1>2 DEF PeerWritten, ListensTo
  <2> QED
    BY <1>1, <2>1
<1>4. Head(queue[u]) \in Write /\ WriteBacked(u, Head(queue[u]))
  BY <1>3, FrontWriteBacked
<1>5. m \in Message /\ m = Head(queue[u]).msg
  BY <1>3, <1>4, WriteParts
<1>6. m # NoMsg /\ m.from = u /\ m.to = open[u] /\ m.ts = lastTime[u]
  BY <1>5, UploadAssumption DEF ListensToNewest
<1>7. Stored(u, m) /\ m.to = Head(queue[u]).owner
  BY <1>3, <1>4, <1>5 DEF WriteBacked
<1>8. Stored(u, m)'
  <2>1. refused \subseteq refused' /\ log' = log
    BY <1>3 DEF Answered, server
  <2> QED
    BY <1>7, <2>1 DEF Stored
<1>9. Stored(m.to, m)'
  <2>1. \A w : w = Head(queue[u]) => Stored(w.owner, w.msg)'
    BY <1>3, AnsweredIsStored DEF server
  <2> QED
    BY <1>5, <1>7, <2>1
<1> QED
  BY <1>6, <1>8, <1>9

(* The field is emptied only for the newest tap, once both copies exist.   *)
THEOREM ClearsOnlyWhatIsStored == Spec => ClearsOnlyStored
<1>1. Init => ClearInv
  BY CopiesInit, ListensInit DEF ClearInv
<1>2. ClearInv /\ [Next]_vars => ClearInv'
  BY CopiesNext, ListensNext DEF ClearInv, CopiesInv
<1> QED
  BY <1>1, <1>2, ClearStep, PTL DEF Spec, ClearsOnlyStored

-----------------------------------------------------------------------------
(* Why overlapping uploads leave no gaps: a proof of ReceiverSeesPrefix    *)
(* for every number of users, messages, crashes and refused writes.        *)
(*                                                                         *)
(* Nothing orders the chains of two messages but the queue they share.     *)
(* The invariant follows each message of a chat from its first write,      *)
(* which tap by tap enters the queue in order, to its second, which enters *)
(* when the first is answered, and so in order again.                      *)

(* The two log writes of a message, and where a write waits in u's queue.  *)
FirstOf(m) == LogWrite(m.from, m)
SecondOf(m) == LogWrite(m.to, m)
Places(u, w) == {i \in 1 .. Len(queue[u]) : queue[u][i] = w}

(* m has been tapped and its own copy is written or waits to be.           *)
Sent(m) == m \in log[m.from] \/ Places(m.from, FirstOf(m)) # {}

(* The second copy is done with: stored, refused or cut off by a crash.    *)
Settled(m) == Stored(m.to, m) \/ m \in cut

(* m is an earlier message of the same chat and sender than n.             *)
Earlier(m, n) == m.from = n.from /\ m.to = n.to /\ m.ts < n.ts

(* The first write of a message has its callback, or is followed by none.  *)
FirstsAwaited ==
    \A m \in Message : Places(m.from, FirstOf(m)) # {} =>
        m \in awaiting[m.from] \/ Settled(m)

(* A message in its sender's log is still being copied, or settled.        *)
LoggedMoveOn ==
    \A m \in Message : m \in log[m.from] =>
        \/ Settled(m)
        \/ Places(m.from, FirstOf(m)) # {}
        \/ Places(m.from, SecondOf(m)) # {}

(* Before a first write wait the first writes of all earlier messages that *)
(* have not got further.                                                   *)
FirstsInOrder ==
    \A m, n \in Message : Earlier(m, n) /\ Sent(m) =>
        \/ Settled(m)
        \/ Places(m.from, SecondOf(m)) # {}
        \/ \A i \in Places(m.from, FirstOf(n)) :
               \E j \in Places(m.from, FirstOf(m)) : j < i

(* Before a second write wait the second writes of all earlier messages.   *)
SecondsInOrder ==
    \A m, n \in Message : Earlier(m, n) /\ Sent(m) =>
        \/ Settled(m)
        \/ \A i \in Places(m.from, SecondOf(n)) :
               \E j \in Places(m.from, SecondOf(m)) : j < i

(* A receiver has nothing of which an earlier message is missing.          *)
CopiesInOrder ==
    \A m, n \in Message : Earlier(m, n) /\ Sent(m) /\ n \in log[n.to] => Settled(m)

(* No message is newer than its sender's last tap.                         *)
TapsInOrder ==
    \A m \in Message :
        \/ Sent(m)
        \/ Places(m.from, SecondOf(m)) # {}
        \/ m \in log[m.to]
        => m.ts <= lastTime[m.from]

OrderInv ==
    /\ FirstsAwaited
    /\ LoggedMoveOn
    /\ FirstsInOrder
    /\ SecondsInOrder
    /\ CopiesInOrder
    /\ TapsInOrder

-----------------------------------------------------------------------------
(* The two writes of a message differ from each other and from those of    *)
(* any other message.                                                      *)
LEMMA MessageParts ==
    ASSUME NEW m \in Message
    PROVE  m.from \in Users /\ m.to \in Users /\ m.from # m.to /\ m.ts \in Nat
BY DEF Message

LEMMA CopiesDiffer ==
    ASSUME NEW m \in Message, NEW n \in Message
    PROVE  /\ FirstOf(m) = FirstOf(n) => m = n
           /\ SecondOf(m) = SecondOf(n) => m = n
           /\ FirstOf(m) = SecondOf(n) => m = n /\ FALSE
           /\ FirstOf(m).doc = "log" /\ FirstOf(m).msg = m /\ FirstOf(m).owner = m.from
           /\ SecondOf(m).doc = "log" /\ SecondOf(m).msg = m /\ SecondOf(m).owner = m.to
BY MessageParts DEF FirstOf, SecondOf, LogWrite

(* A queue that grows at its end keeps its places.                         *)
LEMMA PlacesPushed ==
    ASSUME TypeOK, NEW u \in Users, NEW x \in Write, NEW w,
           queue' = [queue EXCEPT ![u] = queue[u] \o <<x>>]
    PROVE  /\ \A v \in Users : v # u => Places(v, w)' = Places(v, w)
           /\ x # w => Places(u, w)' = Places(u, w)
           /\ x = w => Places(u, w)' = Places(u, w) \cup {Len(queue[u]) + 1}
           /\ \A i \in Places(u, w) : i < Len(queue[u]) + 1
<1>1. /\ queue[u] \in Seq(Write) /\ queue'[u] = queue[u] \o <<x>>
      /\ \A v \in Users : v # u => queue'[v] = queue[v]
  BY DEF TypeOK
<1> DEFINE q == queue[u]
<1>2. /\ Len(q) \in Nat /\ Len(q \o <<x>>) = Len(q) + 1
      /\ \A i \in 1 .. Len(q) : (q \o <<x>>)[i] = q[i]
      /\ (q \o <<x>>)[Len(q) + 1] = x
  BY <1>1
<1>3. \A i \in 1 .. (Len(q) + 1) : i \in 1 .. Len(q) \/ i = Len(q) + 1
  BY <1>2
<1> QED
  BY <1>1, <1>2, <1>3 DEF Places

LEMMA ConcatParts ==
    ASSUME NEW t \in Seq(Write), NEW q \in Seq(Write)
    PROVE  /\ Len(t \o q) = Len(t) + Len(q) /\ Len(q) \in Nat /\ Len(t) \in Nat
           /\ \A i \in 1 .. Len(t) : (t \o q)[i] = t[i]
           /\ \A k \in 1 .. Len(q) : (t \o q)[Len(t) + k] = q[k]
OBVIOUS

LEMMA PlaceInSecond ==
    ASSUME NEW a \in Nat, NEW b \in Nat, NEW i \in Nat, i <= a + b, ~(i <= a)
    PROVE  i - a \in 1 .. b /\ a + (i - a) = i
OBVIOUS

(* An answered write leaves the front, and q follows at the end.           *)
LEMMA PlacesPopped ==
    ASSUME TypeOK, NEW u \in Users, queue[u] # << >>, NEW q \in Seq(Write), NEW w,
           queue' = [queue EXCEPT ![u] = Tail(queue[u]) \o q]
    PROVE  /\ \A v \in Users : v # u => Places(v, w)' = Places(v, w)
           /\ \A i \in Places(u, w) : i \in Nat /\ (i = 1 \/ i - 1 \in Places(u, w)')
           /\ \A i \in Places(u, w)' :
                  /\ i \in Nat
                  /\ \/ i + 1 \in Places(u, w)
                     \/ \E k \in 1 .. Len(q) : q[k] = w /\ i = Len(queue[u]) - 1 + k
           /\ \A k \in 1 .. Len(q) : q[k] = w => Len(queue[u]) - 1 + k \in Places(u, w)'
           /\ \A i \in Places(u, w) : i <= Len(queue[u])
           /\ 1 \in Places(u, w) <=> Head(queue[u]) = w
<1> DEFINE s == queue[u]
           t == Tail(s)
<1>1. /\ s \in Seq(Write) /\ queue'[u] = t \o q
      /\ \A v \in Users : v # u => queue'[v] = queue[v]
  BY DEF TypeOK
<1>2. /\ Len(s) \in Nat \ {0} /\ Len(t) = Len(s) - 1 /\ t \in Seq(Write)
      /\ Len(t) \in Nat
      /\ \A i \in 1 .. Len(t) : t[i] = s[i + 1]
      /\ Head(s) = s[1]
  BY <1>1, FrontOfQueue
<1> HIDE DEF t
<1>3. /\ Len(t \o q) = Len(t) + Len(q) /\ Len(q) \in Nat
      /\ \A i \in 1 .. Len(t) : (t \o q)[i] = t[i]
      /\ \A k \in 1 .. Len(q) : (t \o q)[Len(t) + k] = q[k]
  BY <1>2, ConcatParts
<1>4. \A v \in Users : v # u => Places(v, w)' = Places(v, w)
  BY <1>1 DEF Places
<1>5. ASSUME NEW i \in Places(u, w)
      PROVE  i \in Nat /\ i <= Len(s) /\ (i = 1 \/ i - 1 \in Places(u, w)')
  <2>1. i \in Nat /\ i <= Len(s) /\ i \in 1 .. Len(s) /\ s[i] = w
    BY <1>2, <1>5 DEF Places
  <2>2. CASE i # 1
    <3>1. i - 1 \in 1 .. Len(t) /\ (i - 1) + 1 = i
      BY <1>2, <2>1, <2>2
    <3>2. (t \o q)[i - 1] = w /\ i - 1 \in 1 .. Len(t \o q)
      BY <1>2, <1>3, <2>1, <3>1
    <3>3. i - 1 \in Places(u, w)'
      BY <1>1, <3>2 DEF Places
    <3> QED
      BY <2>1, <3>3
  <2> QED
    BY <2>1, <2>2
<1>6. ASSUME NEW i \in Places(u, w)'
      PROVE  /\ i \in Nat
             /\ \/ i + 1 \in Places(u, w)
                \/ \E k \in 1 .. Len(q) : q[k] = w /\ i = Len(s) - 1 + k
  <2>1. i \in 1 .. Len(t \o q) /\ (t \o q)[i] = w
    BY <1>1, <1>6 DEF Places
  <2>2. i \in Nat /\ i <= Len(t) + Len(q) /\ i >= 1
    BY <1>2, <1>3, <2>1
  <2>3. CASE i <= Len(t)
    <3>1. i \in 1 .. Len(t) /\ i + 1 \in 1 .. Len(s)
      BY <1>2, <2>2, <2>3
    <3>2. s[i + 1] = w
      BY <1>2, <1>3, <2>1, <3>1
    <3>3. i + 1 \in Places(u, w)
      BY <3>1, <3>2 DEF Places
    <3> QED
      BY <2>2, <3>3
  <2>4. CASE ~(i <= Len(t))
    <3> DEFINE k == i - Len(t)
    <3>1. k \in 1 .. Len(q) /\ Len(t) + k = i
      BY <1>2, <1>3, <2>2, <2>4, PlaceInSecond
    <3> HIDE DEF k
    <3>3. i = Len(s) - 1 + k
      BY <1>2, <3>1
    <3>2. q[k] = w
      BY <1>3, <2>1, <3>1
    <3> QED
      BY <2>2, <3>1, <3>2, <3>3
  <2> QED
    BY <2>3, <2>4
<1>7. ASSUME NEW k \in 1 .. Len(q), q[k] = w PROVE Len(s) - 1 + k \in Places(u, w)'
  <2>1. Len(t) + k \in 1 .. Len(t \o q) /\ (t \o q)[Len(t) + k] = w
    BY <1>2, <1>3, <1>7
  <2> QED
    BY <1>1, <1>2, <2>1 DEF Places
<1>8. 1 \in Places(u, w) <=> Head(s) = w
  BY <1>2 DEF Places
<1> QED
  BY <1>4, <1>5, <1>6, <1>7, <1>8

-----------------------------------------------------------------------------
(* What is settled stays settled.                                          *)
LEMMA SettledForGood ==
    ASSUME NEW m, log[m.to] \subseteq log'[m.to], refused \subseteq refused',
           cut \subseteq cut', Settled(m)
    PROVE  Settled(m)'
BY DEF Settled, Stored

(* A write leaves the front of u's queue, with the writes q of its         *)
(* callback behind it: a first write is followed by the second or settled, *)
(* a second write is settled, and nothing else is a log write of u's.      *)
LEMMA PopKeepsOrder ==
    ASSUME TypeOK, OrderInv, NEW u \in Users, queue[u] # << >>,
           NEW q \in Seq(Write),
           queue' = [queue EXCEPT ![u] = Tail(queue[u]) \o q],
           log' = log, cut' = cut, lastTime' = lastTime, refused \subseteq refused',
           \A m \in Message : m.from = u =>
               /\ Head(queue[u]) = FirstOf(m) =>
                      Settled(m)' \/ \E k \in 1 .. Len(q) : q[k] = SecondOf(m)
               /\ Head(queue[u]) = SecondOf(m) => Settled(m)'
               /\ \A k \in 1 .. Len(q) :
                      /\ q[k] # FirstOf(m)
                      /\ q[k] = SecondOf(m) => Head(queue[u]) = FirstOf(m),
           \A m \in Message : m \in awaiting[m.from] =>
               m \in awaiting'[m.from] \/ Settled(m)'
    PROVE  OrderInv'
<1>0. \A w :
        /\ \A v \in Users : v # u => Places(v, w)' = Places(v, w)
        /\ \A i \in Places(u, w) :
               /\ i \in Nat /\ i <= Len(queue[u])
               /\ i = 1 \/ i - 1 \in Places(u, w)'
        /\ \A i \in Places(u, w)' :
               /\ i \in Nat
               /\ \/ i + 1 \in Places(u, w)
                  \/ \E k \in 1 .. Len(q) : q[k] = w /\ i = Len(queue[u]) - 1 + k
        /\ \A k \in 1 .. Len(q) : q[k] = w => Len(queue[u]) - 1 + k \in Places(u, w)'
        /\ 1 \in Places(u, w) <=> Head(queue[u]) = w
  <2> TAKE w
  <2>1. \A v \in Users : v # u => Places(v, w)' = Places(v, w)
    BY DEF TypeOK, Places
  <2>2. \A i \in Places(u, w) :
            /\ i \in Nat /\ i <= Len(queue[u])
            /\ i = 1 \/ i - 1 \in Places(u, w)'
    BY PlacesPopped
  <2>3. \A i \in Places(u, w)' :
            /\ i \in Nat
            /\ \/ i + 1 \in Places(u, w)
               \/ \E k \in 1 .. Len(q) : q[k] = w /\ i = Len(queue[u]) - 1 + k
    BY PlacesPopped
  <2>4. \A k \in 1 .. Len(q) : q[k] = w => Len(queue[u]) - 1 + k \in Places(u, w)'
    BY PlacesPopped
  <2>5. 1 \in Places(u, w) <=> Head(queue[u]) = w
    BY PlacesPopped
  <2> QED
    BY <2>1, <2>2, <2>3, <2>4, <2>5
<1>1. \A m \in Message : Settled(m) => Settled(m)'
  BY SettledForGood
<1>2. ASSUME NEW m \in Message, m.from # u
      PROVE  /\ Places(m.from, FirstOf(m))' = Places(m.from, FirstOf(m))
             /\ Places(m.from, SecondOf(m))' = Places(m.from, SecondOf(m))
  BY <1>0, <1>2, MessageParts
<1>3. ASSUME NEW m \in Message, m.from = u
      PROVE  /\ \A i \in Places(u, FirstOf(m))' :
                    i \in Nat /\ i + 1 \in Places(u, FirstOf(m))
             /\ \A i \in Places(u, SecondOf(m))' :
                    /\ i \in Nat
                    /\ \/ i + 1 \in Places(u, SecondOf(m))
                       \/ /\ i >= Len(queue[u])
                          /\ 1 \in Places(u, FirstOf(m))
  <2>1. \A i \in Places(u, FirstOf(m))' :
            i \in Nat /\ i + 1 \in Places(u, FirstOf(m))
    BY <1>0, <1>3
  <2>2. 1 \in Places(u, FirstOf(m)) <=> Head(queue[u]) = FirstOf(m)
    BY <1>0
  <2>3. Len(queue[u]) \in Nat
    BY DEF TypeOK
  <2>4. ASSUME NEW i \in Places(u, SecondOf(m))'
        PROVE  /\ i \in Nat
               /\ \/ i + 1 \in Places(u, SecondOf(m))
                  \/ /\ i >= Len(queue[u])
                     /\ 1 \in Places(u, FirstOf(m))
    <3>1. /\ i \in Nat
          /\ \/ i + 1 \in Places(u, SecondOf(m))
             \/ \E k \in 1 .. Len(q) : q[k] = SecondOf(m) /\ i = Len(queue[u]) - 1 + k
      BY <1>0
    <3>2. ASSUME NEW k \in 1 .. Len(q), q[k] = SecondOf(m), i = Len(queue[u]) - 1 + k
          PROVE  i >= Len(queue[u]) /\ 1 \in Places(u, FirstOf(m))
      <4>1. k \in Nat /\ k >= 1
        OBVIOUS
      <4> QED
        BY <1>3, <2>2, <2>3, <3>2, <4>1
    <3> QED
      BY <3>1, <3>2
  <2> QED
    BY <2>1, <2>4
<1>4. ASSUME NEW m \in Message, m.from = u, NEW i \in Places(u, FirstOf(m))
      PROVE  /\ i \in Nat
             /\ \/ i - 1 \in Places(u, FirstOf(m))'
                \/ Settled(m)'
                \/ Places(u, SecondOf(m))' # {}
  <2>1. i \in Nat /\ (i = 1 \/ i - 1 \in Places(u, FirstOf(m))')
    BY <1>0
  <2>2. CASE i = 1
    <3>1. Head(queue[u]) = FirstOf(m)
      BY <1>0, <2>2
    <3>2. \A k \in 1 .. Len(q) : q[k] = SecondOf(m) => Places(u, SecondOf(m))' # {}
      BY <1>0
    <3> QED
      BY <1>4, <2>1, <3>1, <3>2
  <2> QED
    BY <2>1, <2>2
<1>5. ASSUME NEW m \in Message, m.from = u, NEW i \in Places(u, SecondOf(m))
      PROVE  /\ i \in Nat /\ i <= Len(queue[u])
             /\ i - 1 \in Places(u, SecondOf(m))' \/ Settled(m)'
  <2>1. /\ i \in Nat /\ i <= Len(queue[u])
        /\ i = 1 \/ i - 1 \in Places(u, SecondOf(m))'
    BY <1>0
  <2>2. CASE i = 1
    <3>1. Head(queue[u]) = SecondOf(m)
      BY <1>0, <2>2
    <3> QED
      BY <1>5, <2>1, <3>1
  <2> QED
    BY <2>1, <2>2
<1>6. ASSUME NEW m \in Message, Sent(m)' PROVE Sent(m)
  BY <1>2, <1>3, <1>6, MessageParts DEF Sent
<1>7. FirstsAwaited'
  <2> SUFFICES ASSUME NEW m \in Message, Places(m.from, FirstOf(m))' # {}
               PROVE  m \in awaiting'[m.from] \/ Settled(m)'
    BY DEF FirstsAwaited
  <2>1. Places(m.from, FirstOf(m)) # {}
    BY <1>2, <1>3
  <2> QED
    BY <1>1, <2>1 DEF OrderInv, FirstsAwaited
<1>8. LoggedMoveOn'
  <2> SUFFICES ASSUME NEW m \in Message, m \in log[m.from]
               PROVE  \/ Settled(m)'
                      \/ Places(m.from, FirstOf(m))' # {}
                      \/ Places(m.from, SecondOf(m))' # {}
    BY DEF LoggedMoveOn
  <2>1. \/ Settled(m)
        \/ Places(m.from, FirstOf(m)) # {}
        \/ Places(m.from, SecondOf(m)) # {}
    BY DEF OrderInv, LoggedMoveOn
  <2> QED
    BY <1>1, <1>2, <1>4, <1>5, <2>1
<1>9. FirstsInOrder'
  <2> SUFFICES ASSUME NEW m \in Message, NEW n \in Message, Earlier(m, n), Sent(m)',
                      ~Settled(m)', Places(m.from, SecondOf(m))' = {},
                      NEW i \in Places(m.from, FirstOf(n))'
               PROVE  \E j \in Places(m.from, FirstOf(m))' : j < i
    BY DEF FirstsInOrder, Earlier
  <2>1. ~Settled(m) /\ Places(m.from, SecondOf(m)) = {} /\ m.from = n.from
    BY <1>1, <1>2, <1>5 DEF Earlier
  <2>2. \A k \in Places(m.from, FirstOf(n)) :
            \E j \in Places(m.from, FirstOf(m)) : j < k
    BY <1>6, <2>1 DEF OrderInv, FirstsInOrder
  <2>3. CASE m.from # u
    BY <1>2, <2>1, <2>2, <2>3
  <2>4. CASE m.from = u
    <3>1. i \in Nat /\ i + 1 \in Places(u, FirstOf(n))
      BY <1>3, <2>1, <2>4
    <3>2. PICK j \in Places(u, FirstOf(m)) : j < i + 1
      BY <2>2, <2>4, <3>1
    <3>3. j \in Nat /\ j - 1 \in Places(u, FirstOf(m))'
      BY <1>4, <2>4, <3>2
    <3>4. j - 1 < i
      BY <3>1, <3>2, <3>3
    <3> QED
      BY <2>4, <3>3, <3>4
  <2> QED
    BY <2>3, <2>4
<1>10. SecondsInOrder'
  <2> SUFFICES ASSUME NEW m \in Message, NEW n \in Message, Earlier(m, n), Sent(m)',
                      ~Settled(m)', NEW i \in Places(m.from, SecondOf(n))'
               PROVE  \E j \in Places(m.from, SecondOf(m))' : j < i
    BY DEF SecondsInOrder, Earlier
  <2>1. ~Settled(m) /\ m.from = n.from /\ Sent(m)
    BY <1>1, <1>6 DEF Earlier
  <2>2. \A k \in Places(m.from, SecondOf(n)) :
            \E j \in Places(m.from, SecondOf(m)) : j < k
    BY <2>1 DEF OrderInv, SecondsInOrder
  <2>3. CASE m.from # u
    BY <1>2, <2>1, <2>2, <2>3
  <2>4. CASE m.from = u /\ i + 1 \in Places(u, SecondOf(n))
    <3>1. i \in Nat
      BY <1>3, <2>1, <2>4
    <3>2. PICK j \in Places(u, SecondOf(m)) : j < i + 1
      BY <2>2, <2>4
    <3>3. j \in Nat /\ j - 1 \in Places(u, SecondOf(m))'
      BY <1>5, <2>4, <3>2
    <3>4. j - 1 < i
      BY <3>1, <3>2, <3>3
    <3> QED
      BY <2>4, <3>3, <3>4
  <2>5. CASE m.from = u /\ i + 1 \notin Places(u, SecondOf(n))
    <3>1. i \in Nat /\ i >= Len(queue[u]) /\ 1 \in Places(u, FirstOf(n))
      BY <1>3, <2>1, <2>5
    <3>2. \A j \in Places(u, FirstOf(m)) : j \in Nat /\ j # 0
      <4>1. \A j \in Places(u, FirstOf(m)) : j \in 1 .. Len(queue[u])
        BY DEF Places
      <4> QED
        BY <4>1
    <3>3. ~ \E j \in Places(u, FirstOf(m)) : j < 1
      BY <3>2
    <3>4. Places(u, SecondOf(m)) # {}
      BY <2>1, <2>5, <3>1, <3>3 DEF OrderInv, FirstsInOrder
    <3>5. PICK j \in Places(u, SecondOf(m)) : TRUE
      BY <3>4
    <3>6. j \in Nat /\ j <= Len(queue[u]) /\ j - 1 \in Places(u, SecondOf(m))'
      BY <1>5, <2>5, <3>5
    <3>7. j - 1 < i
      <4>1. Len(queue[u]) \in Nat
        BY DEF TypeOK
      <4> QED
        BY <3>1, <3>6, <4>1
    <3> QED
      BY <2>5, <3>6, <3>7
  <2> QED
    BY <2>3, <2>4, <2>5
<1>11. CopiesInOrder'
  BY <1>1, <1>6 DEF OrderInv, CopiesInOrder
<1>12. TapsInOrder'
  <2> SUFFICES ASSUME NEW m \in Message,
                      \/ Sent(m)'
                      \/ Places(m.from, SecondOf(m))' # {}
                      \/ m \in log[m.to]
               PROVE  m.ts <= lastTime[m.from]
    BY DEF TapsInOrder
  <2>1. Sent(m) \/ Places(m.from, SecondOf(m)) # {} \/ m \in log[m.to]
    BY <1>2, <1>3, <1>6 DEF Sent
  <2> QED
    BY <2>1 DEF OrderInv, TapsInOrder
<1> QED
  BY <1>7, <1>8, <1>9, <1>10, <1>11, <1>12 DEF OrderInv

-----------------------------------------------------------------------------
(* Steps that write nothing, a crash included, which settles the messages  *)
(* whose callbacks it takes.                                               *)
LEMMA QuietStepsKeepOrder ==
    ASSUME TypeOK, OrderInv, UNCHANGED <<queue, log, refused, lastTime>>,
           cut \subseteq cut',
           \A m \in Message : m \in awaiting[m.from] =>
               m \in awaiting'[m.from] \/ m \in cut'
    PROVE  OrderInv'
<1>1. \A m : Settled(m) => Settled(m)'
  BY DEF Settled, Stored
<1>2. \A v, w : Places(v, w)' = Places(v, w)
  BY DEF Places
<1>3. \A m : Sent(m)' = Sent(m)
  BY <1>2 DEF Sent
<1>4. FirstsAwaited'
  BY <1>1, <1>2 DEF OrderInv, FirstsAwaited, Settled
<1>5. LoggedMoveOn' /\ CopiesInOrder' /\ TapsInOrder'
  BY <1>1, <1>2, <1>3 DEF OrderInv, LoggedMoveOn, CopiesInOrder, TapsInOrder
<1>6. FirstsInOrder'
  BY <1>1, <1>2, <1>3 DEF OrderInv, FirstsInOrder, Earlier
<1>7. SecondsInOrder'
  BY <1>1, <1>2, <1>3 DEF OrderInv, SecondsInOrder, Earlier
<1> QED
  BY <1>4, <1>5, <1>6, <1>7 DEF OrderInv

(* A commit puts a first copy where it was sent already, or a second copy  *)
(* whose predecessors, in front of it in the queue, are committed.         *)
LEMMA CommitKeepsOrder ==
    ASSUME CopiesInv, OrderInv, NEW u \in Users, Commit(u)
    PROVE  OrderInv'
<1> DEFINE p == applied[u] + 1
           w == queue[u][p]
<1>1. /\ p \in 1 .. Len(queue[u]) /\ applied[u] \in Nat /\ w \in Write
      /\ UNCHANGED <<queue, refused, lastTime, awaiting, cut>>
  <2>1. /\ applied[u] \in Nat /\ queue[u] \in Seq(Write)
        /\ applied[u] < Len(queue[u])
    BY DEF CopiesInv, TypeOK, Commit
  <2> QED
    BY <2>1 DEF Commit, history
<1>2. WriteBacked(u, w)
  BY <1>1 DEF CopiesInv, QueueBacked
<1> HIDE DEF p, w
<1>3. CASE log' = log
  BY <1>1, <1>3, QuietStepsKeepOrder DEF CopiesInv
<1>4. CASE /\ w.doc = "log"
           /\ log' = [log EXCEPT ![w.owner] = log[w.owner] \cup {w.msg}]
  <2> DEFINE x == w.msg
  <2>1. /\ x \in Message /\ w = LogWrite(w.owner, x) /\ w.owner \in Users
        /\ x.from = u /\ w.owner \in {x.from, x.to} /\ x.from # x.to
    BY <1>1, <1>2, <1>4, WriteParts, LogWriteIs DEF WriteBacked
  <2>2. /\ \A v \in Users : log[v] \subseteq log'[v]
        /\ \A v \in Users : \A m \in log'[v] : m \in log[v] \/ (v = w.owner /\ m = x)
    BY <1>4 DEF CopiesInv, TypeOK
  <2> HIDE DEF x
  <2>3. \A m \in Message : Settled(m) => Settled(m)'
    BY <1>1, <2>2, SettledForGood, MessageParts
  <2>4. \A v, y : Places(v, y)' = Places(v, y)
    BY <1>1 DEF Places
  <2>5. p \in Places(u, w)
    BY <1>1 DEF Places, w
  <2>6. ASSUME NEW m \in Message, m \in log'[m.from]
        PROVE  m \in log[m.from] \/ Places(m.from, FirstOf(m)) # {}
    <3>1. CASE m = x /\ m.from = w.owner
      BY <2>1, <2>5, <3>1 DEF FirstOf
    <3> QED
      BY <2>2, <2>6, <3>1, MessageParts
  <2>7. \A m \in Message : Sent(m)' => Sent(m)
    BY <2>4, <2>6 DEF Sent
  <2>8. FirstsAwaited' /\ LoggedMoveOn'
    BY <1>1, <2>3, <2>4, <2>6 DEF OrderInv, FirstsAwaited, LoggedMoveOn
  <2>9. FirstsInOrder'
    BY <2>3, <2>4, <2>7 DEF OrderInv, FirstsInOrder, Earlier
  <2>10. SecondsInOrder'
    BY <2>3, <2>4, <2>7 DEF OrderInv, SecondsInOrder, Earlier
  <2>11. CopiesInOrder'
    <3> SUFFICES ASSUME NEW m \in Message, NEW n \in Message, Earlier(m, n),
                        Sent(m), n \in log'[n.to]
                 PROVE  Settled(m)'
      BY <2>7 DEF CopiesInOrder, Earlier
    <3>1. CASE n \in log[n.to]
      BY <2>3, <3>1 DEF OrderInv, CopiesInOrder
    <3>2. CASE n \notin log[n.to]
      <4>1. n = x /\ w = SecondOf(n) /\ n.from = u /\ m.from = u
        BY <2>1, <2>2, <3>2, MessageParts DEF SecondOf, Earlier
      <4>2. Settled(m) \/ \E j \in Places(u, SecondOf(m)) : j < p
        BY <2>5, <4>1 DEF OrderInv, SecondsInOrder
      <4>3. ASSUME NEW j \in Places(u, SecondOf(m)), j < p
            PROVE  Settled(m)
        <5>1. /\ j \in 1 .. Len(queue[u]) /\ queue[u][j] = SecondOf(m)
              /\ j <= applied[u]
          BY <1>1, <4>3 DEF Places, p
        <5>2. m \in log[m.to]
          BY <5>1, CopiesDiffer DEF CopiesInv, QueueBacked
        <5> QED
          BY <5>2 DEF Settled, Stored
      <4> QED
        BY <2>3, <4>2, <4>3
    <3> QED
      BY <3>1, <3>2
  <2>12. TapsInOrder'
    <3> SUFFICES ASSUME NEW m \in Message,
                        \/ Sent(m)
                        \/ Places(m.from, SecondOf(m)) # {}
                        \/ m \in log'[m.to]
                 PROVE  m.ts <= lastTime[m.from]
      BY <1>1, <2>4, <2>7 DEF TapsInOrder
    <3>1. ASSUME m \in log'[m.to], m \notin log[m.to]
          PROVE  Places(m.from, SecondOf(m)) # {}
      <4>1. m = x /\ w = SecondOf(m) /\ m.from = u
        BY <2>1, <2>2, <3>1, MessageParts DEF SecondOf
      <4> QED
        BY <2>5, <4>1
    <3> QED
      BY <3>1 DEF OrderInv, TapsInOrder
  <2> QED
    BY <2>8, <2>9, <2>10, <2>11, <2>12 DEF OrderInv
<1>5. \/ log' = log
      \/ /\ w.doc = "log"
         /\ log' = [log EXCEPT ![w.owner] = log[w.owner] \cup {w.msg}]
  BY DEF Commit, w, p
<1> QED
  BY <1>3, <1>4, <1>5

(* A tap puts the first write of a message newer than all before it behind *)
(* everything that waits.                                                  *)
LEMMA TapKeepsOrder ==
    ASSUME TypeOK, OrderInv, NEW u \in Users, NEW ts \in Nat, SendTapped(u, ts)
    PROVE  OrderInv'
<1> DEFINE k == Len(queue[u]) + 1
<1>0. PICK x : x = [from |-> u, to |-> open[u], text |-> inputText[u], ts |-> ts]
  OBVIOUS
<1>1. /\ x \in Message /\ x.from = u /\ x.ts = ts
      /\ queue' = [queue EXCEPT ![u] = queue[u] \o <<FirstOf(x)>>]
      /\ lastTime' = [lastTime EXCEPT ![u] = ts] /\ lastTime[u] < ts
      /\ awaiting' = [awaiting EXCEPT ![u] = awaiting[u] \cup {x}]
      /\ UNCHANGED <<log, refused, cut>>
  BY <1>0, TappedMessage
  DEF SendTapped, FirstWrites, ChainsWith, FirstOf, server, history
<1>2. \A m : Settled(m)' <=> Settled(m)
  BY <1>1 DEF Settled, Stored
<1>3. ASSUME NEW m \in Message, m.from = u,
             \/ Sent(m)
             \/ Places(m.from, SecondOf(m)) # {}
             \/ m \in log[m.to]
      PROVE  m.ts < ts /\ m # x
  <2>1. m.ts <= lastTime[u] /\ m.ts \in Nat /\ lastTime[u] \in Nat
    BY <1>3, MessageParts DEF OrderInv, TapsInOrder, TypeOK
  <2> QED
    BY <1>1, <2>1
<1>4. FirstOf(x) \in Write
  BY <1>1, WriteTypes DEF FirstOf
<1>5. \A w : /\ \A v \in Users : v # u => Places(v, w)' = Places(v, w)
             /\ w # FirstOf(x) => Places(u, w)' = Places(u, w)
             /\ w = FirstOf(x) => Places(u, w)' = Places(u, w) \cup {k}
             /\ \A i \in Places(u, w) : i < k
  <2> TAKE w
  <2>1. /\ \A v \in Users : v # u => Places(v, w)' = Places(v, w)
        /\ FirstOf(x) # w => Places(u, w)' = Places(u, w)
        /\ FirstOf(x) = w => Places(u, w)' = Places(u, w) \cup {k}
        /\ \A i \in Places(u, w) : i < k
    BY <1>1, <1>4, PlacesPushed
  <2> QED
    BY <2>1
<1> HIDE DEF k
<1>6. ~Sent(x) /\ Places(u, FirstOf(x)) = {}
  BY <1>1, <1>3 DEF Sent
<1>7. /\ \A m \in Message : Places(m.from, SecondOf(m))' = Places(m.from, SecondOf(m))
      /\ \A m \in Message : m # x =>
             Places(m.from, FirstOf(m))' = Places(m.from, FirstOf(m))
      /\ Places(u, FirstOf(x))' = {k}
  <2>1. ASSUME NEW m \in Message
        PROVE  Places(m.from, SecondOf(m))' = Places(m.from, SecondOf(m))
    BY <1>1, <1>5, CopiesDiffer, MessageParts
  <2>2. ASSUME NEW m \in Message, m # x
        PROVE  Places(m.from, FirstOf(m))' = Places(m.from, FirstOf(m))
    BY <1>1, <1>5, <2>2, CopiesDiffer, MessageParts
  <2>3. Places(u, FirstOf(x))' = {k}
    <3>1. Places(u, FirstOf(x))' = Places(u, FirstOf(x)) \cup {k}
      BY <1>5
    <3> QED
      BY <1>6, <3>1
  <2> QED
    BY <2>1, <2>2, <2>3
<1>8. ASSUME NEW m \in Message PROVE Sent(m)' <=> (Sent(m) \/ m = x)
  <2>1. CASE m = x
    <3>1. k \in Places(m.from, FirstOf(m))'
      BY <1>1, <1>7, <2>1
    <3> QED
      BY <2>1, <3>1 DEF Sent
  <2>2. CASE m # x
    <3>1. Places(m.from, FirstOf(m))' = Places(m.from, FirstOf(m))
      BY <1>7, <2>2
    <3> QED
      BY <1>1, <2>2, <3>1 DEF Sent
  <2> QED
    BY <2>1, <2>2
<1>9. FirstsAwaited'
  <2> SUFFICES ASSUME NEW m \in Message, Places(m.from, FirstOf(m))' # {}
               PROVE  m \in awaiting'[m.from] \/ Settled(m)'
    BY DEF FirstsAwaited
  <2>1. \A v \in Users : awaiting[v] \subseteq awaiting'[v]
    BY <1>1 DEF TypeOK
  <2>2. x \in awaiting'[x.from]
    BY <1>1 DEF TypeOK
  <2> QED
    BY <1>2, <1>7, <2>1, <2>2, MessageParts DEF OrderInv, FirstsAwaited
<1>10. LoggedMoveOn'
  <2> SUFFICES ASSUME NEW m \in Message, m \in log[m.from]
               PROVE  \/ Settled(m)'
                      \/ Places(m.from, FirstOf(m))' # {}
                      \/ Places(m.from, SecondOf(m))' # {}
    BY <1>1 DEF LoggedMoveOn
  <2>1. m # x
    BY <1>6 DEF Sent
  <2> QED
    BY <1>2, <1>7, <2>1 DEF OrderInv, LoggedMoveOn
<1>11. ASSUME NEW n \in Message, Earlier(x, n)
       PROVE  /\ n # x /\ ~Sent(n) /\ Places(u, FirstOf(n)) = {}
              /\ Places(u, SecondOf(n)) = {} /\ n \notin log[n.to]
  <2>1. n.from = u /\ ts < n.ts /\ n.ts \in Nat
    BY <1>1, <1>11, MessageParts DEF Earlier
  <2>2. n # x /\ ~(n.ts < ts)
    BY <1>1, <2>1
  <2> QED
    BY <1>3, <2>1, <2>2 DEF Sent
<1>12. FirstsInOrder'
  <2> SUFFICES ASSUME NEW m \in Message, NEW n \in Message, Earlier(m, n), Sent(m)',
                      ~Settled(m), Places(m.from, SecondOf(m)) = {},
                      NEW i \in Places(m.from, FirstOf(n))'
               PROVE  \E j \in Places(m.from, FirstOf(m))' : j < i
    BY <1>2, <1>7 DEF FirstsInOrder, Earlier
  <2>0. m.from = n.from
    BY DEF Earlier
  <2>1. CASE m = x
    BY <1>1, <1>7, <1>11, <2>0, <2>1
  <2>2. CASE m # x /\ n # x
    BY <1>7, <1>8, <2>0, <2>2 DEF OrderInv, FirstsInOrder
  <2>3. CASE m # x /\ n = x
    <3>0. n.from = u /\ m.from = u
      BY <1>1, <2>0, <2>3
    <3>1. m.from = u /\ i = k /\ Sent(m)
      <4>1. i \in Places(u, FirstOf(x))'
        BY <2>3, <3>0
      <4>2. i = k
        BY <1>7, <4>1
      <4> QED
        BY <1>8, <2>3, <3>0, <4>2
    <3>2. Places(u, FirstOf(m)) # {}
      BY <3>1 DEF Sent, OrderInv, LoggedMoveOn
    <3> QED
      BY <1>5, <1>7, <2>3, <3>1, <3>2
  <2> QED
    BY <2>1, <2>2, <2>3
<1>13. SecondsInOrder'
  <2> SUFFICES ASSUME NEW m \in Message, NEW n \in Message, Earlier(m, n), Sent(m)',
                      ~Settled(m), NEW i \in Places(m.from, SecondOf(n))'
               PROVE  \E j \in Places(m.from, SecondOf(m))' : j < i
    BY <1>2 DEF SecondsInOrder, Earlier
  <2>0. m.from = n.from
    BY DEF Earlier
  <2>1. CASE m = x
    BY <1>1, <1>7, <1>11, <2>0, <2>1
  <2>2. CASE m # x
    BY <1>7, <1>8, <2>0, <2>2 DEF OrderInv, SecondsInOrder
  <2> QED
    BY <2>1, <2>2
<1>14. CopiesInOrder'
  <2> SUFFICES ASSUME NEW m \in Message, NEW n \in Message, Earlier(m, n), Sent(m)',
                      n \in log[n.to]
               PROVE  Settled(m)
    BY <1>1, <1>2 DEF CopiesInOrder, Earlier
  <2> QED
    BY <1>8, <1>11 DEF OrderInv, CopiesInOrder
<1>15. TapsInOrder'
  <2> SUFFICES ASSUME NEW m \in Message,
                      \/ Sent(m)'
                      \/ Places(m.from, SecondOf(m)) # {}
                      \/ m \in log[m.to]
               PROVE  m.ts <= lastTime'[m.from]
    BY <1>1, <1>7 DEF TapsInOrder
  <2>1. CASE m = x
    BY <1>1, <2>1 DEF TypeOK
  <2>2. CASE m # x /\ m.from = u
    <3>1. m.ts < ts /\ m.ts \in Nat /\ lastTime'[u] = ts
      BY <1>1, <1>3, <1>8, <2>2, MessageParts DEF TypeOK
    <3> QED
      BY <2>2, <3>1
  <2>3. CASE m # x /\ m.from # u
    <3>1. lastTime'[m.from] = lastTime[m.from]
      BY <1>1, <2>3, MessageParts DEF TypeOK
    <3> QED
      BY <1>8, <2>3, <3>1 DEF OrderInv, TapsInOrder
  <2> QED
    BY <2>1, <2>2, <2>3
<1> QED
  BY <1>9, <1>10, <1>12, <1>13, <1>14, <1>15 DEF OrderInv

-----------------------------------------------------------------------------
LEMMA OrderInit == Init => OrderInv
<1> SUFFICES ASSUME Init PROVE OrderInv
  OBVIOUS
<1>1. ASSUME NEW v \in Users, NEW w PROVE Places(v, w) = {}
  <2>1. queue[v] = << >>
    BY DEF Init
  <2>2. Len(queue[v]) = 0
    BY <2>1
  <2> QED
    BY <2>2 DEF Places
<1>2. \A v \in Users : log[v] = {}
  BY DEF Init
<1>3. \A m \in Message :
          /\ Places(m.from, FirstOf(m)) = {} /\ Places(m.from, SecondOf(m)) = {}
          /\ log[m.from] = {} /\ log[m.to] = {}
  BY <1>1, <1>2, MessageParts
<1>4. FirstsAwaited /\ LoggedMoveOn /\ TapsInOrder
  BY <1>3 DEF FirstsAwaited, LoggedMoveOn, TapsInOrder, Sent
<1>5. FirstsInOrder /\ SecondsInOrder /\ CopiesInOrder
  BY <1>3 DEF FirstsInOrder, SecondsInOrder, CopiesInOrder, Sent
<1> QED
  BY <1>4, <1>5 DEF OrderInv

(* The callback of a first write enters the second.                        *)
LEMMA OwnWrittenKeepsOrder ==
    ASSUME CopiesInv, OrderInv, NEW u \in Users, OwnWritten(u)
    PROVE  OrderInv'
<1>0. PICK w, x, q : w = Head(queue[u]) /\ x = w.msg /\ q = SecondWrites(x)
  OBVIOUS
<1>1. /\ Answered(u) /\ w.doc = "log" /\ w.owner = u
      /\ queue' = [queue EXCEPT ![u] = Tail(queue[u]) \o q]
      /\ UNCHANGED <<log, cut, lastTime, awaiting>>
      /\ queue[u] # << >>
  BY <1>0 DEF OwnWritten, Answered, server
<1>2. refused \subseteq refused'
  BY <1>1 DEF Answered
<1>3. w \in Write /\ WriteBacked(u, w)
  BY <1>0, <1>1, FrontWriteBacked
<1>4. x \in Message /\ w = FirstOf(x) /\ x.from = u
  BY <1>0, <1>1, <1>3, WriteParts, LogWriteIs DEF WriteBacked, FirstOf
<1>5. q \in Seq(Write) /\ Len(q) = 1 /\ q[1] = SecondOf(x)
  <2>1. q = <<SecondOf(x)>> /\ SecondOf(x) \in Write
    BY <1>0, <1>4, WriteTypes, MessageParts DEF SecondWrites, SecondOf
  <2> QED
    BY <2>1
<1>6. \A k \in 1 .. Len(q) : k = 1
  BY <1>5
<1>7. ASSUME NEW m \in Message, m.from = u
      PROVE  /\ w = FirstOf(m) =>
                    Settled(m)' \/ \E k \in 1 .. Len(q) : q[k] = SecondOf(m)
             /\ w = SecondOf(m) => Settled(m)'
             /\ \A k \in 1 .. Len(q) :
                    /\ q[k] # FirstOf(m)
                    /\ q[k] = SecondOf(m) => w = FirstOf(m)
  <2>1. w = FirstOf(m) => \E k \in 1 .. Len(q) : q[k] = SecondOf(m)
    <3>1. 1 \in 1 .. Len(q)
      BY <1>5
    <3>2. w = FirstOf(m) => m = x
      BY <1>4, CopiesDiffer
    <3> QED
      BY <1>5, <3>1, <3>2
  <2>2. w # SecondOf(m)
    BY <1>4, CopiesDiffer
  <2>3. SecondOf(x) # FirstOf(m) /\ (SecondOf(x) = SecondOf(m) => m = x)
    BY <1>4, CopiesDiffer
  <2> QED
    BY <1>4, <1>5, <1>6, <2>1, <2>2, <2>3
<1>8. TypeOK
  BY DEF CopiesInv
<1>9. Head(queue[u]) = w
  BY <1>0
<1>10. \A m \in Message : m \in awaiting[m.from] =>
           m \in awaiting'[m.from] \/ Settled(m)'
  BY <1>1
<1>11. /\ queue[u] # << >> /\ log' = log /\ cut' = cut /\ lastTime' = lastTime
       /\ queue' = [queue EXCEPT ![u] = Tail(queue[u]) \o q]
  BY <1>1
<1> QED
  BY <1>2, <1>5, <1>7, <1>8, <1>9, <1>10, <1>11, PopKeepsOrder

(* The callback of a second write enters no log write, and gives up only   *)
(* the message whose second copy was answered.                             *)
LEMMA PeerWrittenKeepsOrder ==
    ASSUME CopiesInv, OrderInv, NEW u \in Users, PeerWritten(u)
    PROVE  OrderInv'
<1>0. PICK w, x, q : w = Head(queue[u]) /\ x = w.msg /\ q = LastWrites(x)
  OBVIOUS
<1>1. /\ Answered(u) /\ w.doc = "log" /\ w.owner # u
      /\ queue' = [queue EXCEPT ![u] = Tail(queue[u]) \o q]
      /\ awaiting' = [awaiting EXCEPT ![u] = awaiting[u] \ {x}]
      /\ UNCHANGED <<log, cut, lastTime>>
      /\ queue[u] # << >>
  BY <1>0 DEF PeerWritten, Answered, server
<1>2. refused \subseteq refused'
  BY <1>1 DEF Answered
<1>3. w \in Write /\ WriteBacked(u, w)
  BY <1>0, <1>1, FrontWriteBacked
<1>4. x \in Message /\ w = SecondOf(x) /\ x.from = u /\ w.owner = x.to
  BY <1>0, <1>1, <1>3, WriteParts, LogWriteIs DEF WriteBacked, SecondOf
<1>5. q \in Seq(Write) /\ \A k \in 1 .. Len(q) : q[k].doc = "recent"
  <2>1. q \in Seq(Write)
    BY <1>0, <1>4, WriteTypes, MessageParts
  <2>2. q = <<RecentWrite(x.from, x), RecentWrite(x.to, x)>>
    BY <1>0 DEF LastWrites
  <2>3. \A v : RecentWrite(v, x).doc = "recent"
    BY DEF RecentWrite
  <2>4. \A k \in 1 .. Len(q) : k = 1 \/ k = 2
    BY <2>2
  <2>5. q[1] = RecentWrite(x.from, x) /\ q[2] = RecentWrite(x.to, x)
    BY <2>2
  <2> QED
    BY <2>1, <2>3, <2>4, <2>5
<1>6. Settled(x)'
  <2>1. Stored(w.owner, x)'
    BY <1>0, <1>1, AnsweredIsStored DEF CopiesInv
  <2> QED
    BY <1>4, <2>1 DEF Settled, Stored
<1>9. Head(queue[u]) = w
  BY <1>0
<1>8. TypeOK
  BY DEF CopiesInv
<1>7. ASSUME NEW m \in Message, m.from = u
      PROVE  /\ w = FirstOf(m) =>
                    Settled(m)' \/ \E k \in 1 .. Len(q) : q[k] = SecondOf(m)
             /\ w = SecondOf(m) => Settled(m)'
             /\ \A k \in 1 .. Len(q) :
                    /\ q[k] # FirstOf(m)
                    /\ q[k] = SecondOf(m) => w = FirstOf(m)
  <2>1. w # FirstOf(m) /\ (w = SecondOf(m) => m = x)
    BY <1>4, CopiesDiffer
  <2>2. FirstOf(m).doc = "log" /\ SecondOf(m).doc = "log"
    BY CopiesDiffer
  <2> QED
    BY <1>5, <1>6, <2>1, <2>2
<1>10. ASSUME NEW m \in Message, m \in awaiting[m.from]
       PROVE  m \in awaiting'[m.from] \/ Settled(m)'
  <2>1. m.from \in Users /\ (m # x => m \in awaiting'[m.from])
    BY <1>1, <1>8, <1>10, MessageParts DEF TypeOK
  <2> QED
    BY <1>6, <2>1
<1> QED
  BY <1>1, <1>2, <1>5, <1>7, <1>8, <1>9, <1>10, PopKeepsOrder

(* A write nobody waits for: a first write of a message that is settled,   *)
(* or a second write, which now is.                                        *)
LEMMA QuietlyWrittenKeepsOrder ==
    ASSUME CopiesInv, OrderInv, NEW u \in Users, QuietlyWritten(u)
    PROVE  OrderInv'
<1>0. PICK w, q : w = Head(queue[u]) /\ q = << >>
  OBVIOUS
<1>1. /\ Answered(u) /\ (w.doc = "recent" \/ w.msg \notin awaiting[u])
      /\ queue' = [queue EXCEPT ![u] = Tail(queue[u])]
      /\ UNCHANGED <<log, cut, lastTime, awaiting>>
      /\ queue[u] # << >>
  BY <1>0 DEF QuietlyWritten, Answered, server
<1>2. refused \subseteq refused'
  BY <1>1 DEF Answered
<1>3. w \in Write /\ w = queue[u][1] /\ 1 \in 1 .. Len(queue[u])
      /\ Tail(queue[u]) \in Seq(Write)
  BY <1>0, <1>1, FrontOfQueue DEF CopiesInv, TypeOK
<1>4. queue' = [queue EXCEPT ![u] = Tail(queue[u]) \o q]
  <2>1. Tail(queue[u]) \o q = Tail(queue[u])
    BY <1>0, <1>3
  <2> QED
    BY <1>1, <2>1
<1>5. q \in Seq(Write) /\ Len(q) = 0
  BY <1>0
<1>6. TypeOK
  BY DEF CopiesInv
<1>9. Head(queue[u]) = w
  BY <1>0
<1>10. w.doc = "log" => Stored(w.owner, w.msg)'
  BY <1>0, <1>1, AnsweredIsStored DEF CopiesInv
<1>7. ASSUME NEW m \in Message, m.from = u
      PROVE  /\ w = FirstOf(m) =>
                    Settled(m)' \/ \E k \in 1 .. Len(q) : q[k] = SecondOf(m)
             /\ w = SecondOf(m) => Settled(m)'
             /\ \A k \in 1 .. Len(q) :
                    /\ q[k] # FirstOf(m)
                    /\ q[k] = SecondOf(m) => w = FirstOf(m)
  <2>1. ASSUME w = FirstOf(m) PROVE Settled(m)'
    <3>1. m \notin awaiting[u]
      BY <1>1, <2>1, CopiesDiffer
    <3>2. 1 \in Places(u, FirstOf(m))
      BY <1>3, <2>1 DEF Places
    <3>3. Settled(m)
      BY <1>7, <3>1, <3>2 DEF OrderInv, FirstsAwaited
    <3> QED
      BY <1>1, <1>2, <3>3, SettledForGood
  <2>2. ASSUME w = SecondOf(m) PROVE Settled(m)'
    <3>1. w.doc = "log" /\ w.owner = m.to /\ w.msg = m
      BY <2>2, CopiesDiffer
    <3> QED
      BY <1>10, <3>1 DEF Settled, Stored
  <2>3. \A k \in 1 .. Len(q) : FALSE
    BY <1>5
  <2> QED
    BY <2>1, <2>2, <2>3
<1>11. \A m \in Message : m \in awaiting[m.from] =>
           m \in awaiting'[m.from] \/ Settled(m)'
  BY <1>1
<1>12. /\ queue[u] # << >> /\ log' = log /\ cut' = cut /\ lastTime' = lastTime
  BY <1>1
<1> QED
  BY <1>2, <1>4, <1>5, <1>6, <1>7, <1>9, <1>11, <1>12, PopKeepsOrder

LEMMA OrderNext == CopiesInv /\ OrderInv /\ [Next]_vars => OrderInv'
<1> SUFFICES ASSUME CopiesInv, OrderInv, [Next]_vars PROVE OrderInv'
  OBVIOUS
<1>0. TypeOK
  BY DEF CopiesInv
<1>1. ASSUME UNCHANGED <<queue, log, refused, lastTime, awaiting, cut>>
      PROVE  OrderInv'
  BY <1>0, <1>1, QuietStepsKeepOrder
<1>2. ASSUME NEW u \in Users, NEW v \in Users, OpenChat(u, v) PROVE OrderInv'
  BY <1>1, <1>2 DEF OpenChat, client, server, history
<1>3. ASSUME NEW u \in Users, LeaveChat(u) PROVE OrderInv'
  BY <1>1, <1>3 DEF LeaveChat, client, server, history
<1>4. ASSUME NEW u \in Users, NEW text \in Texts \cup {NoText}, Type(u, text)
      PROVE  OrderInv'
  BY <1>1, <1>4 DEF Type, client, server, history
<1>5. ASSUME NEW u \in Users, TextArrives(u) PROVE OrderInv'
  BY <1>1, <1>5 DEF TextArrives, client, server, history
<1>6. ASSUME NEW u \in Users, NEW ts \in 1 .. MaxTime[u], SendTapped(u, ts)
      PROVE  OrderInv'
  <2>1. MaxTime[u] \in Nat
    BY UploadAssumption
  <2>2. ts \in Nat
    BY <1>6, <2>1
  <2> QED
    BY <1>0, <1>6, <2>2, TapKeepsOrder
<1>7. ASSUME NEW u \in Users, StreamReset(u) PROVE OrderInv'
  BY <1>1, <1>7 DEF StreamReset, server, history
<1>8. ASSUME NEW u \in Users, Crash(u) PROVE OrderInv'
  <2>1. queue' = queue
    BY <1>0, <1>8 DEF Crash, QueueOnDisk, TypeOK
  <2>2. /\ UNCHANGED <<log, refused, lastTime>>
        /\ cut' = cut \cup awaiting[u]
        /\ awaiting' = [awaiting EXCEPT ![u] = {}]
    BY <1>8 DEF Crash, server
  <2>3. ASSUME NEW m \in Message, m \in awaiting[m.from]
        PROVE  m \in awaiting'[m.from] \/ m \in cut'
    BY <1>0, <2>2, <2>3, MessageParts DEF TypeOK
  <2> QED
    BY <1>0, <2>1, <2>2, <2>3, QuietStepsKeepOrder
<1>9. CASE UNCHANGED vars
  BY <1>1, <1>9 DEF vars, client, server, history
<1> QED
  BY <1>2, <1>3, <1>4, <1>5, <1>6, <1>7, <1>8, <1>9, CommitKeepsOrder,
     OwnWrittenKeepsOrder, PeerWrittenKeepsOrder, QuietlyWrittenKeepsOrder
  DEF Next

(* A receiver gets the messages of one sender without gaps, however taps,  *)
(* answers, broken streams, refusals and crashes interleave: an earlier    *)
(* message of the same chat is missing from the receiver's log only if its *)
(* write was refused or a crash took its callback (lines 137 to 145 of     *)
(* APIManager, and the client's queue).                                    *)
THEOREM NoGaps == Spec => []ReceiverSeesPrefix
<1>1. ASSUME CopiesInv, OrderInv PROVE ReceiverSeesPrefix
  <2> SUFFICES ASSUME NEW u \in Users, NEW v \in Users,
                      NEW m1 \in log[u], NEW m2 \in log[v],
                      m1.from = u, m1.to = v, m2.from = u, m2.to = v,
                      m1.ts < m2.ts
               PROVE  Stored(v, m1) \/ m1 \in cut
    BY DEF ReceiverSeesPrefix
  <2>1. m1 \in Message /\ m2 \in Message
    BY <1>1 DEF CopiesInv, TypeOK
  <2>2. Earlier(m1, m2) /\ Sent(m1) /\ m2 \in log[m2.to]
    BY DEF Earlier, Sent
  <2>3. Settled(m1)
    BY <1>1, <2>1, <2>2 DEF OrderInv, CopiesInOrder
  <2> QED
    BY <2>3 DEF Settled
<1> QED
  BY CopiesInit, CopiesNext, OrderInit, OrderNext, <1>1, PTL DEF Spec

-----------------------------------------------------------------------------
(***************************************************************************)
(* MessageUpload implements Delivery, for every number of users, messages, *)
(* crashes and refused writes.                                             *)
(*                                                                         *)
(* That logs grow in the order of the taps rests on the order inside each  *)
(* queue: first writes stand in the order of the taps, second writes too,  *)
(* and every second write belongs to an older message than any first.      *)
(* What is in a log is older than what a queue still has to bring there.   *)
(***************************************************************************)

(* The copy for the sender's log, and that for the receiver's, in u's      *)
(* queue.                                                                  *)
IsFirst(u, w) == w.doc = "log" /\ w.owner = u
IsSecond(u, w) == w.doc = "log" /\ w.owner # u

FirstsSorted ==
    \A u \in Users : \A i, j \in 1 .. Len(queue[u]) :
        i < j /\ IsFirst(u, queue[u][i]) /\ IsFirst(u, queue[u][j]) =>
            queue[u][i].msg.ts < queue[u][j].msg.ts

SecondsSorted ==
    \A u \in Users : \A i, j \in 1 .. Len(queue[u]) :
        i < j /\ IsSecond(u, queue[u][i]) /\ IsSecond(u, queue[u][j]) =>
            queue[u][i].msg.ts < queue[u][j].msg.ts

SecondsOlder ==
    \A u \in Users : \A i, j \in 1 .. Len(queue[u]) :
        IsSecond(u, queue[u][i]) /\ IsFirst(u, queue[u][j]) =>
            queue[u][i].msg.ts < queue[u][j].msg.ts

OwnLogOlder ==
    \A u \in Users : \A i \in 1 .. Len(queue[u]) : \A n \in log[u] :
        /\ n.from = u
        /\ IsFirst(u, queue[u][i])
        /\ queue[u][i].msg \notin log[u]
        => n.ts < queue[u][i].msg.ts

OtherLogsOlder ==
    \A u, v \in Users : \A i \in 1 .. Len(queue[u]) : \A n \in log[v] :
        /\ n.from = u /\ v # u
        /\ \/ IsFirst(u, queue[u][i])
           \/ IsSecond(u, queue[u][i]) /\ queue[u][i].msg \notin log[queue[u][i].owner]
        => n.ts < queue[u][i].msg.ts

(* The server can refuse a later copy of a message only when the fate of   *)
(* the first is known.                                                     *)
RefusedBacked == \A w \in refused : Stored(w.msg.from, w.msg)

SentInTime ==
    \A m \in SentMessages : m \in Message /\ m.ts <= lastTime[m.from]

AwaitedAreSent ==
    \A u \in Users : awaiting[u] \subseteq SentMessages

SortedInv ==
    /\ FirstsSorted
    /\ SecondsSorted
    /\ SecondsOlder
    /\ OwnLogOlder
    /\ OtherLogsOlder

SentInv == RefusedBacked /\ SentInTime /\ AwaitedAreSent

-----------------------------------------------------------------------------
(* Where the writes of a queue were before a step.                         *)
LEMMA QueuePushed ==
    ASSUME TypeOK, NEW u \in Users, NEW x \in Write,
           queue' = [queue EXCEPT ![u] = queue[u] \o <<x>>]
    PROVE  /\ \A v \in Users : v # u => queue'[v] = queue[v]
           /\ Len(queue[u]) \in Nat
           /\ \A i \in 1 .. Len(queue'[u]) :
                  /\ i \in Nat
                  /\ \/ i \in 1 .. Len(queue[u]) /\ queue'[u][i] = queue[u][i]
                     \/ i = Len(queue[u]) + 1 /\ queue'[u][i] = x
<1>1. /\ queue[u] \in Seq(Write) /\ queue'[u] = queue[u] \o <<x>>
      /\ \A v \in Users : v # u => queue'[v] = queue[v]
  BY DEF TypeOK
<1> DEFINE s == queue[u]
<1>2. /\ Len(s) \in Nat /\ Len(s \o <<x>>) = Len(s) + 1
      /\ \A i \in 1 .. Len(s) : (s \o <<x>>)[i] = s[i]
      /\ (s \o <<x>>)[Len(s) + 1] = x
  BY <1>1
<1>3. \A i \in 1 .. (Len(s) + 1) : i \in Nat /\ (i \in 1 .. Len(s) \/ i = Len(s) + 1)
  BY <1>2
<1> QED
  BY <1>1, <1>2, <1>3

LEMMA QueuePopped ==
    ASSUME TypeOK, NEW u \in Users, queue[u] # << >>, NEW q \in Seq(Write),
           queue' = [queue EXCEPT ![u] = Tail(queue[u]) \o q]
    PROVE  /\ \A v \in Users : v # u => queue'[v] = queue[v]
           /\ Len(queue[u]) \in Nat \ {0}
           /\ 1 \in 1 .. Len(queue[u]) /\ Head(queue[u]) = queue[u][1]
           /\ \A i \in 1 .. Len(queue'[u]) :
                  /\ i \in Nat \ {0}
                  /\ \/ i + 1 \in 1 .. Len(queue[u]) /\ queue'[u][i] = queue[u][i + 1]
                     \/ /\ i >= Len(queue[u])
                        /\ \E k \in 1 .. Len(q) :
                               queue'[u][i] = q[k] /\ i = Len(queue[u]) - 1 + k
           /\ \A i \in 2 .. Len(queue[u]) :
                  i - 1 \in 1 .. Len(queue'[u]) /\ queue'[u][i - 1] = queue[u][i]
           /\ \A k \in 1 .. Len(q) :
                  /\ Len(queue[u]) - 1 + k \in 1 .. Len(queue'[u])
                  /\ queue'[u][Len(queue[u]) - 1 + k] = q[k]
<1> DEFINE s == queue[u]
           t == Tail(s)
<1>1. /\ s \in Seq(Write) /\ queue'[u] = t \o q
      /\ \A v \in Users : v # u => queue'[v] = queue[v]
  BY DEF TypeOK
<1>2. /\ Len(s) \in Nat \ {0} /\ Len(t) = Len(s) - 1 /\ t \in Seq(Write)
      /\ Len(t) \in Nat
      /\ \A i \in 1 .. Len(t) : t[i] = s[i + 1]
      /\ Head(s) = s[1]
  BY <1>1, FrontOfQueue
<1> HIDE DEF t
<1>3. /\ Len(t \o q) = Len(t) + Len(q) /\ Len(q) \in Nat
      /\ \A i \in 1 .. Len(t) : (t \o q)[i] = t[i]
      /\ \A k \in 1 .. Len(q) : (t \o q)[Len(t) + k] = q[k]
  BY <1>2, ConcatParts
<1>4. ASSUME NEW i \in 1 .. Len(queue'[u])
      PROVE  /\ i \in Nat \ {0}
             /\ \/ i + 1 \in 1 .. Len(s) /\ queue'[u][i] = s[i + 1]
                \/ /\ i >= Len(s)
                   /\ \E k \in 1 .. Len(q) :
                          queue'[u][i] = q[k] /\ i = Len(s) - 1 + k
  <2>0. Len(queue'[u]) = Len(t) + Len(q)
    BY <1>1, <1>3
  <2>1. i \in Nat \ {0} /\ i <= Len(t) + Len(q)
    BY <1>2, <1>3, <2>0
  <2>2. CASE i <= Len(t)
    <3>1. i \in 1 .. Len(t) /\ i + 1 \in 1 .. Len(s)
      BY <1>2, <2>1, <2>2
    <3> QED
      BY <1>1, <1>2, <1>3, <2>1, <3>1
  <2>3. CASE ~(i <= Len(t))
    <3>1. PICK k : k = i - Len(t)
      OBVIOUS
    <3>2. k \in 1 .. Len(q) /\ Len(t) + k = i
      BY <1>2, <1>3, <2>1, <2>3, <3>1, PlaceInSecond
    <3>3. i = Len(s) - 1 + k /\ i >= Len(s)
      BY <1>2, <2>1, <2>3, <3>2
    <3>4. queue'[u][i] = q[k]
      BY <1>1, <1>3, <3>2
    <3> QED
      BY <2>1, <3>2, <3>3, <3>4
  <2> QED
    BY <2>2, <2>3
<1>5. ASSUME NEW i \in 2 .. Len(s)
      PROVE  i - 1 \in 1 .. Len(queue'[u]) /\ queue'[u][i - 1] = s[i]
  <2>1. i - 1 \in 1 .. Len(t) /\ (i - 1) + 1 = i
    BY <1>2
  <2>2. i - 1 \in 1 .. Len(t \o q)
    BY <1>2, <1>3, <2>1
  <2> QED
    BY <1>1, <1>2, <1>3, <2>1, <2>2
<1>6. ASSUME NEW k \in 1 .. Len(q)
      PROVE  /\ Len(s) - 1 + k \in 1 .. Len(queue'[u])
             /\ queue'[u][Len(s) - 1 + k] = q[k]
  <2>1. Len(t) + k \in 1 .. Len(t \o q) /\ Len(t) + k = Len(s) - 1 + k
    BY <1>2, <1>3
  <2> QED
    BY <1>1, <1>3, <2>1
<1>7. 1 \in 1 .. Len(s)
  BY <1>2
<1> QED
  BY <1>1, <1>2, <1>4, <1>5, <1>6, <1>7

(* What the sent messages are.                                             *)
LEMMA SentIs ==
    /\ \A m : m \in SentMessages <=>
           \/ \E u \in Users : m \in log[u]
           \/ \E u \in Users : \E i \in 1 .. Len(queue[u]) : queue[u][i].msg = m
           \/ \E w \in refused : w.msg = m
    /\ \A m : m \in SentMessages' <=>
           \/ \E u \in Users : m \in log'[u]
           \/ \E u \in Users : \E i \in 1 .. Len(queue'[u]) : queue'[u][i].msg = m
           \/ \E w \in refused' : w.msg = m
<1>1. \A m : m \in SentMessages <=>
           \/ \E u \in Users : m \in log[u]
           \/ \E u \in Users : \E i \in 1 .. Len(queue[u]) : queue[u][i].msg = m
           \/ \E w \in refused : w.msg = m
  <2>1. \A m, u : m \in SentBy(u) <=>
            m \in log[u] \/ \E i \in 1 .. Len(queue[u]) : queue[u][i].msg = m
    BY DEF SentBy
  <2>2. \A m : m \in SentMessages <=>
            (\E u \in Users : m \in SentBy(u)) \/ \E w \in refused : w.msg = m
    <3>1. \A m : m \in UNION {SentBy(u) : u \in Users} <=>
              \E u \in Users : m \in SentBy(u)
      OBVIOUS
    <3>2. \A m : m \in {w.msg : w \in refused} <=> \E w \in refused : w.msg = m
      OBVIOUS
    <3>3. SentMessages = (UNION {SentBy(u) : u \in Users}) \cup {w.msg : w \in refused}
      BY DEF SentMessages
    <3> QED
      BY <3>1, <3>2, <3>3
  <2> QED
    BY <2>1, <2>2
<1>2. \A m : m \in SentMessages' <=>
           \/ \E u \in Users : m \in log'[u]
           \/ \E u \in Users : \E i \in 1 .. Len(queue'[u]) : queue'[u][i].msg = m
           \/ \E w \in refused' : w.msg = m
  <2>1. \A m, u : m \in SentBy(u)' <=>
            m \in log'[u] \/ \E i \in 1 .. Len(queue'[u]) : queue'[u][i].msg = m
    BY DEF SentBy
  <2>2. \A m : m \in SentMessages' <=>
            (\E u \in Users : m \in SentBy(u)') \/ \E w \in refused' : w.msg = m
    <3>1. \A m : m \in UNION {SentBy(u)' : u \in Users} <=>
              \E u \in Users : m \in SentBy(u)'
      OBVIOUS
    <3>2. \A m : m \in {w.msg : w \in refused'} <=> \E w \in refused' : w.msg = m
      OBVIOUS
    <3>3. SentMessages' = (UNION {SentBy(u)' : u \in Users}) \cup {w.msg : w \in refused'}
      BY DEF SentMessages
    <3> QED
      BY <3>1, <3>2, <3>3
  <2> QED
    BY <2>1, <2>2
<1> QED
  BY <1>1, <1>2

-----------------------------------------------------------------------------
(* A write leaves the front of u's queue; of the writes q of its callback  *)
(* at most one is a log write, the second of a message whose first left.   *)
LEMMA PopKeepsSorted ==
    ASSUME TypeOK, SortedInv, NEW u \in Users, queue[u] # << >>,
           NEW q \in Seq(Write),
           queue' = [queue EXCEPT ![u] = Tail(queue[u]) \o q],
           log' = log,
           \A k \in 1 .. Len(q) :
               /\ ~IsFirst(u, q[k])
               /\ IsSecond(u, q[k]) =>
                      /\ k = 1
                      /\ IsFirst(u, Head(queue[u]))
                      /\ q[k].msg = Head(queue[u]).msg
    PROVE  SortedInv'
<1>1. /\ \A v \in Users : v # u => queue'[v] = queue[v]
      /\ Len(queue[u]) \in Nat \ {0}
      /\ 1 \in 1 .. Len(queue[u]) /\ Head(queue[u]) = queue[u][1]
      /\ \A i \in 1 .. Len(queue'[u]) :
             /\ i \in Nat \ {0}
             /\ \/ i + 1 \in 1 .. Len(queue[u]) /\ queue'[u][i] = queue[u][i + 1]
                \/ /\ i >= Len(queue[u])
                   /\ \E k \in 1 .. Len(q) :
                          queue'[u][i] = q[k] /\ i = Len(queue[u]) - 1 + k
  BY QueuePopped
<1>2. \A i \in 1 .. Len(queue[u]) : queue[u][i].msg.ts \in Nat
  BY WriteParts, MessageParts DEF TypeOK
<1>3. ASSUME NEW i \in 1 .. Len(queue'[u]), IsFirst(u, queue'[u][i])
      PROVE  /\ i \in Nat \ {0}
             /\ i + 1 \in 1 .. Len(queue[u]) /\ queue'[u][i] = queue[u][i + 1]
  BY <1>1, <1>3
<1>4. ASSUME NEW i \in 1 .. Len(queue'[u]), IsSecond(u, queue'[u][i])
      PROVE  /\ i \in Nat \ {0}
             /\ \/ i + 1 \in 1 .. Len(queue[u]) /\ queue'[u][i] = queue[u][i + 1]
                \/ /\ i = Len(queue[u])
                   /\ IsFirst(u, queue[u][1])
                   /\ queue'[u][i].msg = queue[u][1].msg
  BY <1>1, <1>4
<1>5. FirstsSorted'
  <2> SUFFICES ASSUME NEW v \in Users,
                      NEW i \in 1 .. Len(queue'[v]), NEW j \in 1 .. Len(queue'[v]),
                      i < j, IsFirst(v, queue'[v][i]), IsFirst(v, queue'[v][j])
               PROVE  queue'[v][i].msg.ts < queue'[v][j].msg.ts
    BY DEF FirstsSorted
  <2>1. CASE v # u
    BY <1>1, <2>1 DEF SortedInv, FirstsSorted
  <2>2. CASE v = u
    <3>1. /\ i + 1 \in 1 .. Len(queue[u]) /\ queue'[u][i] = queue[u][i + 1]
          /\ j + 1 \in 1 .. Len(queue[u]) /\ queue'[u][j] = queue[u][j + 1]
          /\ i \in Nat /\ j \in Nat
      BY <1>3, <2>2
    <3>2. i + 1 < j + 1
      BY <3>1
    <3> QED
      BY <2>2, <3>1, <3>2 DEF SortedInv, FirstsSorted
  <2> QED
    BY <2>1, <2>2
<1>6. SecondsSorted'
  <2> SUFFICES ASSUME NEW v \in Users,
                      NEW i \in 1 .. Len(queue'[v]), NEW j \in 1 .. Len(queue'[v]),
                      i < j, IsSecond(v, queue'[v][i]), IsSecond(v, queue'[v][j])
               PROVE  queue'[v][i].msg.ts < queue'[v][j].msg.ts
    BY DEF SecondsSorted
  <2>1. CASE v # u
    BY <1>1, <2>1 DEF SortedInv, SecondsSorted
  <2>2. CASE v = u
    <3>1. i \in Nat /\ j \in Nat /\ IsSecond(u, queue'[u][i]) /\ IsSecond(u, queue'[u][j])
      BY <1>4, <2>2
    <3>2. i + 1 \in 1 .. Len(queue[u]) /\ queue'[u][i] = queue[u][i + 1]
      <4>1. CASE i = Len(queue[u])
        <5>1. j > Len(queue[u]) /\ ~(j + 1 \in 1 .. Len(queue[u]))
          BY <1>1, <3>1, <4>1
        <5> QED
          BY <1>1, <1>4, <2>2, <3>1, <5>1
      <4> QED
        BY <1>4, <2>2, <3>1, <4>1
    <3>3. CASE j + 1 \in 1 .. Len(queue[u]) /\ queue'[u][j] = queue[u][j + 1]
      <4>1. i + 1 < j + 1
        BY <3>1
      <4> QED
        BY <2>2, <3>1, <3>2, <3>3, <4>1 DEF SortedInv, SecondsSorted
    <3>4. CASE /\ IsFirst(u, queue[u][1])
               /\ queue'[u][j].msg = queue[u][1].msg
      <4>1. IsSecond(u, queue[u][i + 1])
        BY <3>1, <3>2
      <4>2. queue[u][i + 1].msg.ts < queue[u][1].msg.ts
        BY <1>1, <3>2, <3>4, <4>1 DEF SortedInv, SecondsOlder
      <4> QED
        BY <2>2, <3>2, <3>4, <4>2
    <3> QED
      BY <1>4, <2>2, <3>1, <3>3, <3>4
  <2> QED
    BY <2>1, <2>2
<1>7. SecondsOlder'
  <2> SUFFICES ASSUME NEW v \in Users,
                      NEW i \in 1 .. Len(queue'[v]), NEW j \in 1 .. Len(queue'[v]),
                      IsSecond(v, queue'[v][i]), IsFirst(v, queue'[v][j])
               PROVE  queue'[v][i].msg.ts < queue'[v][j].msg.ts
    BY DEF SecondsOlder
  <2>1. CASE v # u
    BY <1>1, <2>1 DEF SortedInv, SecondsOlder
  <2>2. CASE v = u
    <3>1. /\ j \in Nat \ {0} /\ IsFirst(u, queue'[u][j]) /\ IsSecond(u, queue'[u][i])
          /\ j + 1 \in 1 .. Len(queue[u]) /\ queue'[u][j] = queue[u][j + 1]
      BY <1>3, <2>2
    <3>2. CASE i + 1 \in 1 .. Len(queue[u]) /\ queue'[u][i] = queue[u][i + 1]
      BY <2>2, <3>1, <3>2 DEF SortedInv, SecondsOlder
    <3>3. CASE /\ IsFirst(u, queue[u][1])
               /\ queue'[u][i].msg = queue[u][1].msg
      <4>1. 1 < j + 1
        BY <3>1
      <4> QED
        <5>1. IsFirst(u, queue[u][j + 1])
          BY <3>1
        <5>2. queue[u][1].msg.ts < queue[u][j + 1].msg.ts
          BY <1>1, <3>1, <3>3, <4>1, <5>1 DEF SortedInv, FirstsSorted
        <5> QED
          BY <2>2, <3>1, <3>3, <5>2
    <3> QED
      BY <1>4, <2>2, <3>1, <3>2, <3>3
  <2> QED
    BY <2>1, <2>2
<1>8. OwnLogOlder'
  <2> SUFFICES ASSUME NEW v \in Users, NEW i \in 1 .. Len(queue'[v]),
                      NEW n \in log[v], n.from = v, IsFirst(v, queue'[v][i]),
                      queue'[v][i].msg \notin log[v]
               PROVE  n.ts < queue'[v][i].msg.ts
    BY DEF OwnLogOlder
  <2>1. CASE v # u
    BY <1>1, <2>1 DEF SortedInv, OwnLogOlder
  <2>2. CASE v = u
    <3>1. /\ i + 1 \in 1 .. Len(queue[u]) /\ queue'[u][i] = queue[u][i + 1]
          /\ IsFirst(u, queue[u][i + 1])
      BY <1>3, <2>2
    <3> QED
      BY <2>2, <3>1 DEF SortedInv, OwnLogOlder
  <2> QED
    BY <2>1, <2>2
<1>9. OtherLogsOlder'
  <2> SUFFICES ASSUME NEW v \in Users, NEW y \in Users,
                      NEW i \in 1 .. Len(queue'[v]), NEW n \in log[y],
                      n.from = v, y # v,
                      \/ IsFirst(v, queue'[v][i])
                      \/ /\ IsSecond(v, queue'[v][i])
                         /\ queue'[v][i].msg \notin log[queue'[v][i].owner]
               PROVE  n.ts < queue'[v][i].msg.ts
    BY DEF OtherLogsOlder
  <2>1. CASE v # u
    BY <1>1, <2>1 DEF SortedInv, OtherLogsOlder
  <2>2. CASE v = u /\ i + 1 \in 1 .. Len(queue[u]) /\ queue'[u][i] = queue[u][i + 1]
    BY <2>2 DEF SortedInv, OtherLogsOlder
  <2>3. CASE v = u /\ IsFirst(u, queue[u][1]) /\ queue'[u][i].msg = queue[u][1].msg
    BY <1>1, <2>3 DEF SortedInv, OtherLogsOlder
  <2> QED
    BY <1>3, <1>4, <2>1, <2>2, <2>3
<1> QED
  BY <1>5, <1>6, <1>7, <1>8, <1>9 DEF SortedInv

(* Steps that leave queues and logs alone.                                 *)
LEMMA QuietStepsKeepSorted ==
    ASSUME SortedInv, UNCHANGED <<queue, log>>
    PROVE  SortedInv'
BY DEF SortedInv, FirstsSorted, SecondsSorted, SecondsOlder, OwnLogOlder,
       OtherLogsOlder

(* What a commit does, and to which writes behind it.                      *)
LEMMA CommitParts ==
    ASSUME CopiesInv, NEW u \in Users, Commit(u),
           NEW p, p = applied[u] + 1, NEW w, w = queue[u][p]
    PROVE  /\ p \in 1 .. Len(queue[u]) /\ w \in Write /\ w.msg \in Message
           /\ w.owner \in Users /\ w.msg.from = u /\ WriteBacked(u, w)
           /\ UNCHANGED <<queue, refused, lastTime, awaiting, cut>>
           /\ \/ /\ w.doc = "log" /\ recent' = recent
                 /\ log' = [log EXCEPT ![w.owner] = log[w.owner] \cup {w.msg}]
              \/ w.doc = "recent" /\ log' = log
           /\ \A i \in 1 .. Len(queue[u]) :
                  /\ queue[u][i].doc = "log"
                  /\ queue[u][i].msg \notin log[queue[u][i].owner]
                  => i >= p
<1>1. /\ applied[u] \in Nat /\ queue[u] \in Seq(Write)
      /\ applied[u] < Len(queue[u])
  BY DEF CopiesInv, TypeOK, Commit
<1>2. /\ p \in 1 .. Len(queue[u]) /\ w \in Write
      /\ UNCHANGED <<queue, refused, lastTime, awaiting, cut>>
  BY <1>1 DEF Commit, history
<1>3. WriteBacked(u, w)
  BY <1>2 DEF CopiesInv, QueueBacked
<1>4. \/ /\ w.doc = "log" /\ recent' = recent
         /\ log' = [log EXCEPT ![w.owner] = log[w.owner] \cup {w.msg}]
      \/ w.doc = "recent" /\ log' = log
  BY DEF Commit
<1>5. ASSUME NEW i \in 1 .. Len(queue[u]), queue[u][i].doc = "log",
             queue[u][i].msg \notin log[queue[u][i].owner]
      PROVE  i >= p
  <2>1. ~(i <= applied[u])
    BY <1>5 DEF CopiesInv, QueueBacked
  <2> QED
    BY <1>1, <2>1
<1>6. w.msg \in Message /\ w.owner \in Users /\ w.msg.from = u
  BY <1>2, <1>3, WriteParts DEF WriteBacked
<1> QED
  BY <1>2, <1>3, <1>4, <1>5, <1>6

(* What a commit brings to a log is older than the writes behind it.       *)
LEMMA CommitKeepsSorted ==
    ASSUME CopiesInv, SortedInv, NEW u \in Users, Commit(u)
    PROVE  SortedInv'
<1>1. PICK p, w, x : p = applied[u] + 1 /\ w = queue[u][p] /\ x = w.msg
  OBVIOUS
<1>2. /\ p \in 1 .. Len(queue[u]) /\ w \in Write /\ x \in Message
      /\ w.owner \in Users /\ x.from = u /\ queue' = queue
  BY <1>1, CommitParts
<1>3. \A i \in 1 .. Len(queue[u]) :
          /\ queue[u][i].doc = "log"
          /\ queue[u][i].msg \notin log[queue[u][i].owner]
          => i >= p
  BY <1>1, CommitParts
<1>4. \/ log' = log
      \/ w.doc = "log" /\ log' = [log EXCEPT ![w.owner] = log[w.owner] \cup {w.msg}]
  BY <1>1 DEF Commit
<1>5. CASE log' = log
  BY <1>2, <1>5, QuietStepsKeepSorted
<1>6. CASE w.doc = "log" /\ log' = [log EXCEPT ![w.owner] = log[w.owner] \cup {w.msg}]
  <2>1. /\ \A v \in Users : log[v] \subseteq log'[v]
        /\ \A v \in Users : \A n \in log'[v] : n \in log[v] \/ (v = w.owner /\ n = x)
        /\ x \in log'[w.owner]
    BY <1>1, <1>2, <1>6 DEF CopiesInv, TypeOK
  <2>2. FirstsSorted' /\ SecondsSorted' /\ SecondsOlder'
    BY <1>2 DEF SortedInv, FirstsSorted, SecondsSorted, SecondsOlder
  <2>3. ASSUME NEW i \in 1 .. Len(queue[u]), queue[u][i].doc = "log",
               queue[u][i].owner \in Users,
               queue[u][i].msg \notin log'[queue[u][i].owner]
        PROVE  i > p
    <3>1. i >= p
      BY <1>3, <2>1, <2>3
    <3>2. i # p
      BY <1>1, <2>1, <2>3
    <3> QED
      BY <1>2, <3>1, <3>2
  <2>4. OwnLogOlder'
    <3> SUFFICES ASSUME NEW v \in Users, NEW i \in 1 .. Len(queue[v]),
                        NEW n \in log'[v], n.from = v, IsFirst(v, queue[v][i]),
                        queue[v][i].msg \notin log'[v]
                 PROVE  n.ts < queue[v][i].msg.ts
      BY <1>2 DEF OwnLogOlder
    <3>1. CASE n \in log[v]
      BY <2>1, <3>1 DEF SortedInv, OwnLogOlder
    <3>2. CASE v = w.owner /\ n = x
      <4>1. v = u /\ IsFirst(u, queue[u][p]) /\ queue[u][p].msg = x
        BY <1>1, <1>2, <1>6, <3>2 DEF IsFirst
      <4>2. i > p
        BY <2>3, <4>1 DEF IsFirst
      <4> QED
        BY <1>2, <3>2, <4>1, <4>2 DEF SortedInv, FirstsSorted
    <3> QED
      BY <2>1, <3>1, <3>2
  <2>5. OtherLogsOlder'
    <3> SUFFICES ASSUME NEW v \in Users, NEW y \in Users,
                        NEW i \in 1 .. Len(queue[v]), NEW n \in log'[y],
                        n.from = v, y # v,
                        \/ IsFirst(v, queue[v][i])
                        \/ /\ IsSecond(v, queue[v][i])
                           /\ queue[v][i].msg \notin log'[queue[v][i].owner]
                 PROVE  n.ts < queue[v][i].msg.ts
      BY <1>2 DEF OtherLogsOlder
    <3>0. queue[v][i].owner \in Users
      BY WriteParts DEF CopiesInv, TypeOK
    <3>1. CASE n \in log[y]
      BY <2>1, <3>0, <3>1 DEF SortedInv, OtherLogsOlder
    <3>2. CASE y = w.owner /\ n = x
      <4>1. v = u /\ IsSecond(u, queue[u][p]) /\ queue[u][p].msg = x
        BY <1>1, <1>2, <1>6, <3>2 DEF IsSecond
      <4>2. CASE IsFirst(v, queue[v][i])
        BY <1>2, <3>2, <4>1, <4>2 DEF SortedInv, SecondsOlder
      <4>3. CASE /\ IsSecond(v, queue[v][i])
                 /\ queue[v][i].msg \notin log'[queue[v][i].owner]
        <5>1. i > p
          BY <2>3, <3>0, <4>1, <4>3 DEF IsSecond
        <5> QED
          BY <1>2, <3>2, <4>1, <4>3, <5>1 DEF SortedInv, SecondsSorted
      <4> QED
        BY <4>2, <4>3
    <3> QED
      BY <2>1, <3>1, <3>2
  <2> QED
    BY <2>2, <2>4, <2>5 DEF SortedInv
<1> QED
  BY <1>4, <1>5, <1>6

-----------------------------------------------------------------------------
(* The front write that is answered: stored in every copy that comes       *)
(* before its own, and now in its own.                                     *)
LEMMA AnsweredParts ==
    ASSUME CopiesInv, NEW u \in Users, Answered(u), UNCHANGED log,
           NEW w, w = Head(queue[u])
    PROVE  /\ queue[u] # << >> /\ w \in Write /\ w.msg \in Message
           /\ w.msg.from = u
           /\ refused' = refused \/ refused' = refused \cup {w}
           /\ Stored(u, w.msg)'
           /\ w.doc = "log" => Stored(w.owner, w.msg)'
<1>1. queue[u] # << >> /\ w \in Write /\ WriteBacked(u, w)
  BY FrontWriteBacked DEF Answered
<1>2. w.msg \in Message /\ w.msg.from = u
  BY <1>1, WriteParts DEF WriteBacked
<1>3. refused' = refused \/ refused' = refused \cup {w}
  BY DEF Answered
<1>4. w.doc = "log" => Stored(w.owner, w.msg)'
  BY AnsweredIsStored DEF CopiesInv
<1>5. Stored(u, w.msg) => Stored(u, w.msg)'
  BY <1>3 DEF Stored
<1>6. Stored(u, w.msg)'
  <2>1. CASE w.doc = "log" /\ w.owner = u
    BY <1>4, <2>1
  <2>2. CASE ~(w.doc = "log" /\ w.owner = u)
    BY <1>1, <1>2, <1>5, <2>2, WriteParts DEF WriteBacked
  <2> QED
    BY <2>1, <2>2
<1> QED
  BY <1>1, <1>2, <1>3, <1>4, <1>6

(* An answer and its callback add no message and forget none.              *)
LEMMA PopKeepsSent ==
    ASSUME CopiesInv, NEW u \in Users, Answered(u), UNCHANGED log,
           NEW w, w = Head(queue[u]), NEW q \in Seq(Write),
           queue' = [queue EXCEPT ![u] = Tail(queue[u]) \o q],
           \A k \in 1 .. Len(q) : q[k].msg = w.msg
    PROVE  SentMessages' = SentMessages
<1>1. /\ queue[u] # << >>
      /\ refused' = refused \/ refused' = refused \cup {w}
      /\ Stored(u, w.msg)'
  BY AnsweredParts
<1>2. /\ \A v \in Users : v # u => queue'[v] = queue[v]
      /\ 1 \in 1 .. Len(queue[u]) /\ queue[u][1] = w
      /\ \A i \in 1 .. Len(queue'[u]) :
             \/ i + 1 \in 1 .. Len(queue[u]) /\ queue'[u][i] = queue[u][i + 1]
             \/ \E k \in 1 .. Len(q) : queue'[u][i] = q[k]
      /\ \A i \in 2 .. Len(queue[u]) :
             i - 1 \in 1 .. Len(queue'[u]) /\ queue'[u][i - 1] = queue[u][i]
  <2>1. TypeOK
    BY DEF CopiesInv
  <2>2. /\ \A v \in Users : v # u => queue'[v] = queue[v]
        /\ 1 \in 1 .. Len(queue[u]) /\ queue[u][1] = w
    BY <1>1, <2>1, QueuePopped
  <2>3. \A i \in 1 .. Len(queue'[u]) :
            \/ i + 1 \in 1 .. Len(queue[u]) /\ queue'[u][i] = queue[u][i + 1]
            \/ \E k \in 1 .. Len(q) : queue'[u][i] = q[k]
    <3>1. \A i \in 1 .. Len(queue'[u]) :
              /\ i \in Nat \ {0}
              /\ \/ i + 1 \in 1 .. Len(queue[u]) /\ queue'[u][i] = queue[u][i + 1]
                 \/ /\ i >= Len(queue[u])
                    /\ \E k \in 1 .. Len(q) :
                           queue'[u][i] = q[k] /\ i = Len(queue[u]) - 1 + k
      BY <1>1, <2>1, QueuePopped
    <3> QED
      BY <3>1
  <2>4. \A i \in 2 .. Len(queue[u]) :
            i - 1 \in 1 .. Len(queue'[u]) /\ queue'[u][i - 1] = queue[u][i]
    BY <1>1, <2>1, QueuePopped
  <2> QED
    BY <2>2, <2>3, <2>4
<1>3. ASSUME NEW m \in SentMessages PROVE m \in SentMessages'
  <2>1. CASE \E v \in Users : m \in log[v]
    BY <2>1, SentIs
  <2>2. CASE \E x \in refused : x.msg = m
    BY <1>1, <2>2, SentIs
  <2>3. ASSUME NEW v \in Users, NEW i \in 1 .. Len(queue[v]), queue[v][i].msg = m
        PROVE  m \in SentMessages'
    <3>1. CASE v # u
      BY <1>2, <2>3, <3>1, SentIs
    <3>2. CASE v = u /\ i = 1
      <4>1. Stored(u, m)'
        BY <1>1, <1>2, <2>3, <3>2
      <4>2. m \in log'[u] \/ LogWrite(u, m) \in refused'
        BY <4>1 DEF Stored
      <4>3. LogWrite(u, m).msg = m
        BY DEF LogWrite
      <4> QED
        BY <4>2, <4>3, SentIs
    <3>3. CASE v = u /\ i # 1
      <4>1. i \in 2 .. Len(queue[u])
        BY <3>3
      <4>2. i - 1 \in 1 .. Len(queue'[u]) /\ queue'[u][i - 1].msg = m
        BY <1>2, <2>3, <3>3, <4>1
      <4> QED
        BY <4>2, SentIs
    <3> QED
      BY <3>1, <3>2, <3>3
  <2> QED
    BY <2>1, <2>2, <2>3, SentIs
<1>4. ASSUME NEW m \in SentMessages' PROVE m \in SentMessages
  <2>0. w.msg \in SentMessages
    BY <1>2, SentIs
  <2>1. CASE \E v \in Users : m \in log'[v]
    BY <2>1, SentIs
  <2>2. CASE \E x \in refused' : x.msg = m
    BY <1>1, <2>0, <2>2, SentIs
  <2>3. ASSUME NEW v \in Users, NEW i \in 1 .. Len(queue'[v]), queue'[v][i].msg = m
        PROVE  m \in SentMessages
    <3>1. CASE v # u
      BY <1>2, <2>3, <3>1, SentIs
    <3>2. CASE v = u /\ i + 1 \in 1 .. Len(queue[u]) /\ queue'[u][i] = queue[u][i + 1]
      BY <2>3, <3>2, SentIs
    <3>3. CASE v = u /\ \E k \in 1 .. Len(q) : queue'[u][i] = q[k]
      BY <2>0, <2>3, <3>3
    <3> QED
      BY <1>2, <3>1, <3>2, <3>3
  <2> QED
    BY <2>1, <2>2, <2>3, SentIs
<1> QED
  BY <1>3, <1>4

(* A tap sends one message, a commit none.                                 *)
LEMMA TapSends ==
    ASSUME TypeOK, NEW u \in Users, NEW x \in Message,
           queue' = [queue EXCEPT ![u] = queue[u] \o <<FirstOf(x)>>],
           x.from = u, UNCHANGED <<log, refused>>
    PROVE  SentMessages' = SentMessages \cup {x}
<1>1. FirstOf(x) \in Write /\ FirstOf(x).msg = x
  BY WriteTypes, CopiesDiffer DEF FirstOf
<1>2. /\ \A v \in Users : v # u => queue'[v] = queue[v]
      /\ \A i \in 1 .. Len(queue'[u]) :
             \/ i \in 1 .. Len(queue[u]) /\ queue'[u][i] = queue[u][i]
             \/ queue'[u][i] = FirstOf(x)
  BY <1>1, QueuePushed
<1>3. /\ \A i \in 1 .. Len(queue[u]) :
             i \in 1 .. Len(queue'[u]) /\ queue'[u][i] = queue[u][i]
      /\ Len(queue[u]) + 1 \in 1 .. Len(queue'[u])
      /\ queue'[u][Len(queue[u]) + 1] = FirstOf(x)
  <2>1. queue[u] \in Seq(Write) /\ queue'[u] = queue[u] \o <<FirstOf(x)>>
    BY DEF TypeOK
  <2> QED
    BY <2>1
<1>4. x \in SentMessages'
  BY <1>1, <1>3, SentIs
<1>5. ASSUME NEW m \in SentMessages PROVE m \in SentMessages'
  <2>1. ASSUME NEW v \in Users, NEW i \in 1 .. Len(queue[v]), queue[v][i].msg = m
        PROVE  m \in SentMessages'
    <3>1. i \in 1 .. Len(queue'[v]) /\ queue'[v][i].msg = m
      BY <1>2, <1>3, <2>1
    <3> QED
      BY <3>1, SentIs
  <2> QED
    BY <2>1, SentIs
<1>6. ASSUME NEW m \in SentMessages' PROVE m \in SentMessages \/ m = x
  <2>1. ASSUME NEW v \in Users, NEW i \in 1 .. Len(queue'[v]), queue'[v][i].msg = m
        PROVE  m \in SentMessages \/ m = x
    <3>1. CASE i \in 1 .. Len(queue[v]) /\ queue'[v][i] = queue[v][i]
      BY <2>1, <3>1, SentIs
    <3> QED
      BY <1>1, <1>2, <2>1, <3>1
  <2> QED
    BY <2>1, SentIs
<1> QED
  BY <1>4, <1>5, <1>6

LEMMA CommitSendsNone ==
    ASSUME CopiesInv, NEW u \in Users, Commit(u)
    PROVE  SentMessages' = SentMessages
<1>1. PICK p, w : p = applied[u] + 1 /\ w = queue[u][p]
  OBVIOUS
<1>2. /\ p \in 1 .. Len(queue[u]) /\ w.owner \in Users
      /\ UNCHANGED <<queue, refused>>
      /\ \/ log' = [log EXCEPT ![w.owner] = log[w.owner] \cup {w.msg}]
         \/ log' = log
  BY <1>1, CommitParts
<1>3. w.msg \in SentMessages
  BY <1>1, <1>2, SentIs
<1>4. /\ \A v \in Users : log[v] \subseteq log'[v]
      /\ \A v \in Users : \A n \in log'[v] : n \in log[v] \/ n = w.msg
  <2>1. log \in [Users -> SUBSET Message]
    BY DEF CopiesInv, TypeOK
  <2>2. CASE log' = [log EXCEPT ![w.owner] = log[w.owner] \cup {w.msg}]
    BY <1>2, <2>1, <2>2
  <2> QED
    BY <1>2, <2>2
<1>5. SentMessages \subseteq SentMessages'
  BY <1>2, <1>4, SentIs
<1>6. SentMessages' \subseteq SentMessages
  BY <1>2, <1>3, <1>4, SentIs
<1> QED
  BY <1>5, <1>6

-----------------------------------------------------------------------------
(* What is tapped is newer than all that is queued or logged.              *)
LEMMA TapKeepsSorted ==
    ASSUME CopiesInv, SortedInv, SentInTime, NEW u \in Users, NEW x \in Message,
           x.from = u, lastTime[u] < x.ts,
           queue' = [queue EXCEPT ![u] = queue[u] \o <<FirstOf(x)>>],
           log' = log
    PROVE  SortedInv'
<1>1. /\ FirstOf(x) \in Write /\ FirstOf(x).msg = x
      /\ FirstOf(x).owner = u
  BY WriteTypes, CopiesDiffer DEF FirstOf
<1>2. /\ \A v \in Users : v # u => queue'[v] = queue[v]
      /\ Len(queue[u]) \in Nat
      /\ \A i \in 1 .. Len(queue'[u]) :
             /\ i \in Nat
             /\ \/ i \in 1 .. Len(queue[u]) /\ queue'[u][i] = queue[u][i]
                \/ i = Len(queue[u]) + 1 /\ queue'[u][i] = FirstOf(x)
  BY <1>1, QueuePushed DEF CopiesInv
<1>3. ASSUME NEW n \in SentMessages, n.from = u PROVE n.ts < x.ts
  <2>1. n \in Message /\ n.ts <= lastTime[u]
    BY <1>3 DEF SentInTime
  <2>2. n.ts \in Nat /\ x.ts \in Nat /\ lastTime[u] \in Nat
    BY <2>1, MessageParts DEF CopiesInv, TypeOK
  <2> QED
    BY <2>1, <2>2
<1>4. \A i \in 1 .. Len(queue[u]) : queue[u][i].msg.ts < x.ts
  <2>1. \A i \in 1 .. Len(queue[u]) : queue[u][i].msg.from = u
    BY DEF CopiesInv, QueueBacked, WriteBacked
  <2> QED
    BY <1>3, <2>1, SentIs
<1>5. \A v \in Users : \A n \in log[v] : n.from = u => n.ts < x.ts
  BY <1>3, SentIs
<1>6. \A w : IsSecond(u, w) => w # FirstOf(x)
  BY <1>1 DEF IsSecond
<1>7. FirstsSorted'
  <2> SUFFICES ASSUME NEW v \in Users,
                      NEW i \in 1 .. Len(queue'[v]), NEW j \in 1 .. Len(queue'[v]),
                      i < j, IsFirst(v, queue'[v][i]), IsFirst(v, queue'[v][j])
               PROVE  queue'[v][i].msg.ts < queue'[v][j].msg.ts
    BY DEF FirstsSorted
  <2>1. CASE v # u
    BY <1>2, <2>1 DEF SortedInv, FirstsSorted
  <2>2. CASE v = u
    <3>1. i \in 1 .. Len(queue[u]) /\ queue'[u][i] = queue[u][i]
      BY <1>2, <2>2
    <3>2. CASE j \in 1 .. Len(queue[u]) /\ queue'[u][j] = queue[u][j]
      BY <2>2, <3>1, <3>2 DEF SortedInv, FirstsSorted
    <3>3. CASE queue'[u][j] = FirstOf(x)
      BY <1>1, <1>4, <2>2, <3>1, <3>3
    <3> QED
      BY <1>2, <2>2, <3>2, <3>3
  <2> QED
    BY <2>1, <2>2
<1>8. ASSUME NEW i \in 1 .. Len(queue'[u]), IsSecond(u, queue'[u][i])
      PROVE  i \in 1 .. Len(queue[u]) /\ queue'[u][i] = queue[u][i]
  BY <1>2, <1>6, <1>8
<1>9. SecondsSorted'
  <2> SUFFICES ASSUME NEW v \in Users,
                      NEW i \in 1 .. Len(queue'[v]), NEW j \in 1 .. Len(queue'[v]),
                      i < j, IsSecond(v, queue'[v][i]), IsSecond(v, queue'[v][j])
               PROVE  queue'[v][i].msg.ts < queue'[v][j].msg.ts
    BY DEF SecondsSorted
  <2>1. CASE v # u
    BY <1>2, <2>1 DEF SortedInv, SecondsSorted
  <2>2. CASE v = u
    BY <1>8, <2>2 DEF SortedInv, SecondsSorted
  <2> QED
    BY <2>1, <2>2
<1>10. SecondsOlder'
  <2> SUFFICES ASSUME NEW v \in Users,
                      NEW i \in 1 .. Len(queue'[v]), NEW j \in 1 .. Len(queue'[v]),
                      IsSecond(v, queue'[v][i]), IsFirst(v, queue'[v][j])
               PROVE  queue'[v][i].msg.ts < queue'[v][j].msg.ts
    BY DEF SecondsOlder
  <2>1. CASE v # u
    BY <1>2, <2>1 DEF SortedInv, SecondsOlder
  <2>2. CASE v = u
    <3>1. i \in 1 .. Len(queue[u]) /\ queue'[u][i] = queue[u][i]
      BY <1>8, <2>2
    <3>2. CASE j \in 1 .. Len(queue[u]) /\ queue'[u][j] = queue[u][j]
      BY <2>2, <3>1, <3>2 DEF SortedInv, SecondsOlder
    <3>3. CASE queue'[u][j] = FirstOf(x)
      BY <1>1, <1>4, <2>2, <3>1, <3>3
    <3> QED
      BY <1>2, <2>2, <3>2, <3>3
  <2> QED
    BY <2>1, <2>2
<1>11. OwnLogOlder'
  <2> SUFFICES ASSUME NEW v \in Users, NEW i \in 1 .. Len(queue'[v]),
                      NEW n \in log[v], n.from = v, IsFirst(v, queue'[v][i]),
                      queue'[v][i].msg \notin log[v]
               PROVE  n.ts < queue'[v][i].msg.ts
    BY DEF OwnLogOlder
  <2>1. CASE v # u
    BY <1>2, <2>1 DEF SortedInv, OwnLogOlder
  <2>2. CASE v = u /\ i \in 1 .. Len(queue[u]) /\ queue'[u][i] = queue[u][i]
    BY <2>2 DEF SortedInv, OwnLogOlder
  <2>3. CASE v = u /\ queue'[u][i] = FirstOf(x)
    BY <1>1, <1>5, <2>3
  <2> QED
    BY <1>2, <2>1, <2>2, <2>3
<1>12. OtherLogsOlder'
  <2> SUFFICES ASSUME NEW v \in Users, NEW y \in Users,
                      NEW i \in 1 .. Len(queue'[v]), NEW n \in log[y],
                      n.from = v, y # v,
                      \/ IsFirst(v, queue'[v][i])
                      \/ /\ IsSecond(v, queue'[v][i])
                         /\ queue'[v][i].msg \notin log[queue'[v][i].owner]
               PROVE  n.ts < queue'[v][i].msg.ts
    BY DEF OtherLogsOlder
  <2>1. CASE v # u
    BY <1>2, <2>1 DEF SortedInv, OtherLogsOlder
  <2>2. CASE v = u /\ i \in 1 .. Len(queue[u]) /\ queue'[u][i] = queue[u][i]
    BY <2>2 DEF SortedInv, OtherLogsOlder
  <2>3. CASE v = u /\ queue'[u][i] = FirstOf(x)
    BY <1>1, <1>5, <2>3
  <2> QED
    BY <1>2, <2>1, <2>2, <2>3
<1> QED
  BY <1>7, <1>9, <1>10, <1>11, <1>12 DEF SortedInv

(* Steps that send nothing.                                                *)
LEMMA NothingSentKeepsSent ==
    ASSUME TypeOK, SentInv, SentMessages' = SentMessages, lastTime' = lastTime,
           \A v \in Users : awaiting'[v] \subseteq awaiting[v],
           \A v \in Users : log[v] \subseteq log'[v],
           refused \subseteq refused',
           \A w \in refused' : w \in refused \/ Stored(w.msg.from, w.msg)'
    PROVE  SentInv'
<1>1. ASSUME NEW w \in refused' PROVE Stored(w.msg.from, w.msg)'
  <2>1. CASE w \in refused
    <3>1. w.msg.from \in Users
      BY <2>1, WriteParts DEF TypeOK
    <3>2. Stored(w.msg.from, w.msg)
      BY <2>1 DEF SentInv, RefusedBacked
    <3> QED
      BY <3>1, <3>2 DEF Stored
  <2> QED
    BY <2>1
<1>2. RefusedBacked'
  BY <1>1 DEF RefusedBacked
<1>3. SentInTime' /\ AwaitedAreSent'
  BY DEF SentInv, SentInTime, AwaitedAreSent
<1> QED
  BY <1>2, <1>3 DEF SentInv

(* The parts of the three answers that the order and the sent messages     *)
(* depend on.                                                              *)
LEMMA AnswerKeepsDelivery ==
    ASSUME CopiesInv, SortedInv, SentInv, NEW u \in Users, Answered(u),
           UNCHANGED <<log, lastTime>>,
           NEW w, w = Head(queue[u]), NEW q \in Seq(Write),
           queue' = [queue EXCEPT ![u] = Tail(queue[u]) \o q],
           \A v \in Users : awaiting'[v] \subseteq awaiting[v],
           \A k \in 1 .. Len(q) :
               /\ q[k].msg = w.msg
               /\ ~IsFirst(u, q[k])
               /\ IsSecond(u, q[k]) => k = 1 /\ IsFirst(u, w)
    PROVE  SortedInv' /\ SentInv' /\ SentMessages' = SentMessages
<1>1. /\ queue[u] # << >> /\ w \in Write /\ w.msg.from = u
      /\ refused' = refused \/ refused' = refused \cup {w}
      /\ Stored(u, w.msg)'
  BY AnsweredParts
<1>2. SentMessages' = SentMessages
  BY PopKeepsSent
<1>3. TypeOK
  BY DEF CopiesInv
<1>4. SortedInv'
  BY <1>1, <1>3, PopKeepsSorted
<1>5. SentInv'
  BY <1>1, <1>2, <1>3, NothingSentKeepsSent
<1> QED
  BY <1>2, <1>4, <1>5

-----------------------------------------------------------------------------
(* Every answer takes the front of the queue, and its callback, if one is  *)
(* left, puts writes of the same message behind.                           *)
LEMMA WrittenParts ==
    ASSUME CopiesInv, NEW u \in Users, Written(u), NEW w, w = Head(queue[u])
    PROVE  /\ Answered(u) /\ UNCHANGED <<log, recent, lastTime, cut>>
           /\ \A v \in Users : awaiting'[v] \subseteq awaiting[v]
           /\ \E q \in Seq(Write) :
                  /\ queue' = [queue EXCEPT ![u] = Tail(queue[u]) \o q]
                  /\ \A k \in 1 .. Len(q) :
                         /\ q[k].msg = w.msg
                         /\ ~IsFirst(u, q[k])
                         /\ IsSecond(u, q[k]) => k = 1 /\ IsFirst(u, w)
<1>1. Answered(u) /\ UNCHANGED <<log, recent, lastTime, cut>>
  BY DEF Written, OwnWritten, PeerWritten, QuietlyWritten, server
<1>2. /\ queue[u] # << >> /\ w \in Write /\ w.msg \in Message
      /\ w.msg.from = u
  BY <1>1, AnsweredParts
<1>3. w.msg.to \in Users /\ w.msg.to # u
  BY <1>2, MessageParts
<1>4. ASSUME OwnWritten(u)
      PROVE  \E q \in Seq(Write) :
                 /\ queue' = [queue EXCEPT ![u] = Tail(queue[u]) \o q]
                 /\ \A k \in 1 .. Len(q) :
                        /\ q[k].msg = w.msg
                        /\ ~IsFirst(u, q[k])
                        /\ IsSecond(u, q[k]) => k = 1 /\ IsFirst(u, w)
  <2>1. PICK q : q = SecondWrites(w.msg)
    OBVIOUS
  <2>2. q \in Seq(Write)
    BY <1>2, <2>1, WriteTypes
  <2>3. \A k \in 1 .. Len(q) : k = 1 /\ q[k] = LogWrite(w.msg.to, w.msg)
    BY <2>1 DEF SecondWrites
  <2>4. queue' = [queue EXCEPT ![u] = Tail(queue[u]) \o q] /\ IsFirst(u, w)
    BY <1>4, <2>1 DEF OwnWritten, IsFirst
  <2>5. \A k \in 1 .. Len(q) : q[k].msg = w.msg /\ ~IsFirst(u, q[k])
    BY <1>3, <2>3 DEF LogWrite, IsFirst
  <2> QED
    BY <2>2, <2>3, <2>4, <2>5
<1>5. ASSUME PeerWritten(u)
      PROVE  \E q \in Seq(Write) :
                 /\ queue' = [queue EXCEPT ![u] = Tail(queue[u]) \o q]
                 /\ \A k \in 1 .. Len(q) :
                        /\ q[k].msg = w.msg
                        /\ ~IsFirst(u, q[k])
                        /\ IsSecond(u, q[k]) => k = 1 /\ IsFirst(u, w)
  <2>1. PICK q : q = LastWrites(w.msg)
    OBVIOUS
  <2>2. q \in Seq(Write)
    BY <1>2, <1>3, <2>1, WriteTypes
  <2>3. \A k \in 1 .. Len(q) :
            q[k] = RecentWrite(w.msg.from, w.msg) \/ q[k] = RecentWrite(w.msg.to, w.msg)
    BY <2>1 DEF LastWrites
  <2>4. queue' = [queue EXCEPT ![u] = Tail(queue[u]) \o q]
    BY <1>5, <2>1 DEF PeerWritten
  <2>5. \A k \in 1 .. Len(q) : q[k].msg = w.msg /\ q[k].doc = "recent"
    BY <2>3 DEF RecentWrite
  <2> QED
    BY <2>2, <2>4, <2>5 DEF IsFirst, IsSecond
<1>6. ASSUME QuietlyWritten(u)
      PROVE  \E q \in Seq(Write) :
                 /\ queue' = [queue EXCEPT ![u] = Tail(queue[u]) \o q]
                 /\ \A k \in 1 .. Len(q) :
                        /\ q[k].msg = w.msg
                        /\ ~IsFirst(u, q[k])
                        /\ IsSecond(u, q[k]) => k = 1 /\ IsFirst(u, w)
  <2>1. PICK q : q = << >>
    OBVIOUS
  <2>2. q \in Seq(Write) /\ \A k \in 1 .. Len(q) : FALSE
    BY <2>1
  <2>3. Tail(queue[u]) \in Seq(Write)
    BY <1>2, FrontOfQueue DEF CopiesInv, TypeOK
  <2>4. Tail(queue[u]) \o q = Tail(queue[u])
    BY <2>1, <2>3
  <2>5. queue' = [queue EXCEPT ![u] = Tail(queue[u]) \o q]
    BY <1>6, <2>4 DEF QuietlyWritten
  <2> QED
    BY <2>2, <2>5
<1>7. \A v \in Users : awaiting'[v] \subseteq awaiting[v]
  <2>1. awaiting \in [Users -> SUBSET Message]
    BY DEF CopiesInv, TypeOK
  <2>2. \/ awaiting' = awaiting
        \/ awaiting' = [awaiting EXCEPT ![u] = awaiting[u] \ {w.msg}]
    BY DEF Written, OwnWritten, PeerWritten, QuietlyWritten
  <2> QED
    BY <2>1, <2>2
<1> QED
  BY <1>1, <1>4, <1>5, <1>6, <1>7 DEF Written

DeliveryInv == CopiesInv /\ OrderInv /\ SortedInv /\ SentInv

LEMMA DeliveryInit == Init => DeliveryInv
<1> SUFFICES ASSUME Init PROVE DeliveryInv
  OBVIOUS
<1>1. \A u \in Users : \A i \in 1 .. Len(queue[u]) : FALSE
  <2>1. \A u \in Users : queue[u] = << >>
    BY DEF Init
  <2>2. \A u \in Users : Len(queue[u]) = 0
    BY <2>1
  <2> QED
    BY <2>2
<1>2. SortedInv
  BY <1>1 DEF SortedInv, FirstsSorted, SecondsSorted, SecondsOlder,
              OwnLogOlder, OtherLogsOlder
<1>3. \A m : m \notin SentMessages
  BY <1>1, SentIs DEF Init
<1>4. SentInv
  BY <1>3 DEF Init, SentInv, RefusedBacked, SentInTime, AwaitedAreSent
<1> QED
  BY <1>2, <1>4, CopiesInit, OrderInit DEF DeliveryInv

LEMMA WrittenKeepsDelivery ==
    ASSUME DeliveryInv, NEW u \in Users, Written(u)
    PROVE  SortedInv' /\ SentInv' /\ SentMessages' = SentMessages
<1>1. PICK w : w = Head(queue[u])
  OBVIOUS
<1>2. CopiesInv /\ SortedInv /\ SentInv
  BY DEF DeliveryInv
<1>3. /\ Answered(u) /\ UNCHANGED <<log, lastTime>>
      /\ \A v \in Users : awaiting'[v] \subseteq awaiting[v]
  BY <1>1, <1>2, WrittenParts
<1>4. PICK q \in Seq(Write) :
          /\ queue' = [queue EXCEPT ![u] = Tail(queue[u]) \o q]
          /\ \A k \in 1 .. Len(q) :
                 /\ q[k].msg = w.msg
                 /\ ~IsFirst(u, q[k])
                 /\ IsSecond(u, q[k]) => k = 1 /\ IsFirst(u, w)
  BY <1>1, <1>2, WrittenParts
<1> QED
  BY <1>1, <1>2, <1>3, <1>4, AnswerKeepsDelivery

LEMMA QuietStepsSendNone ==
    ASSUME UNCHANGED <<queue, log, refused>>
    PROVE  SentMessages' = SentMessages
BY DEF SentMessages, SentBy

(* A tap with its message.                                                 *)
LEMMA TapParts ==
    ASSUME TypeOK, NEW u \in Users, NEW ts \in 1 .. MaxTime[u], SendTapped(u, ts)
    PROVE  \E x \in Message :
               /\ x \in Sendable /\ x.from = u
               /\ lastTime[u] < x.ts
               /\ lastTime' = [lastTime EXCEPT ![u] = x.ts]
               /\ awaiting' = [awaiting EXCEPT ![u] = awaiting[u] \cup {x}]
               /\ queue' = [queue EXCEPT ![u] = queue[u] \o <<FirstOf(x)>>]
               /\ UNCHANGED <<log, recent, refused, cut>>
<1>1. PICK x : x = [from |-> u, to |-> open[u], text |-> inputText[u], ts |-> ts]
  OBVIOUS
<1>2. MaxTime[u] \in Nat /\ ts \in Nat
  BY UploadAssumption
<1>3. x \in Message
  BY <1>1, <1>2, TappedMessage DEF SendTapped
<1>4. x \in [from: {u}, to: Users, text: Texts, ts: 1 .. MaxTime[u]]
  BY <1>1 DEF SendTapped, TypeOK
<1>5. x \in Sendable
  BY <1>4 DEF Sendable
<1>6. /\ x.from = u /\ x.ts = ts
      /\ queue' = [queue EXCEPT ![u] = queue[u] \o <<FirstOf(x)>>]
      /\ lastTime' = [lastTime EXCEPT ![u] = ts] /\ lastTime[u] < ts
      /\ awaiting' = [awaiting EXCEPT ![u] = awaiting[u] \cup {x}]
      /\ UNCHANGED <<log, recent, refused, cut>>
  BY <1>1
  DEF SendTapped, FirstWrites, ChainsWith, FirstOf, server, history
<1> QED
  BY <1>3, <1>5, <1>6

LEMMA TapKeepsSent ==
    ASSUME DeliveryInv, NEW u \in Users, NEW ts \in 1 .. MaxTime[u],
           SendTapped(u, ts)
    PROVE  SortedInv' /\ SentInv'
<1>0. CopiesInv /\ TypeOK /\ SortedInv /\ SentInv /\ SentInTime
  BY DEF DeliveryInv, CopiesInv, SentInv
<1>1. PICK x \in Message :
          /\ x.from = u
          /\ lastTime[u] < x.ts
          /\ lastTime' = [lastTime EXCEPT ![u] = x.ts]
          /\ awaiting' = [awaiting EXCEPT ![u] = awaiting[u] \cup {x}]
          /\ queue' = [queue EXCEPT ![u] = queue[u] \o <<FirstOf(x)>>]
          /\ UNCHANGED <<log, refused>>
  BY <1>0, TapParts
<1>2. SentMessages' = SentMessages \cup {x}
  BY <1>0, <1>1, TapSends
<1>3. SortedInv'
  BY <1>0, <1>1, TapKeepsSorted
<1>4. RefusedBacked'
  BY <1>0, <1>1 DEF SentInv, RefusedBacked, Stored
<1>5. SentInTime'
  <2> SUFFICES ASSUME NEW m \in SentMessages \cup {x}
               PROVE  m \in Message /\ m.ts <= lastTime'[m.from]
    BY <1>2 DEF SentInTime
  <2>1. CASE m = x
    BY <1>0, <1>1, <2>1, MessageParts DEF TypeOK
  <2>2. CASE m \in SentMessages
    <3>1. m \in Message /\ m.ts <= lastTime[m.from]
      BY <1>0, <2>2 DEF SentInTime
    <3>2. /\ m.from \in Users /\ m.ts \in Nat /\ x.ts \in Nat
          /\ lastTime[m.from] \in Nat
      BY <1>0, <3>1, MessageParts DEF TypeOK
    <3>3. lastTime'[m.from] = lastTime[m.from] \/ (m.from = u /\ lastTime'[m.from] = x.ts)
      BY <1>0, <1>1, <3>2 DEF TypeOK
    <3> QED
      BY <1>1, <3>1, <3>2, <3>3
  <2> QED
    BY <2>1, <2>2
<1>6. AwaitedAreSent'
  <2>1. \A v \in Users : awaiting'[v] \subseteq awaiting[v] \cup {x}
    BY <1>0, <1>1 DEF TypeOK
  <2> QED
    BY <1>0, <1>2, <2>1 DEF SentInv, AwaitedAreSent
<1> QED
  BY <1>3, <1>4, <1>5, <1>6 DEF SentInv

LEMMA DeliveryNext == DeliveryInv /\ [Next]_vars => DeliveryInv'
<1> SUFFICES ASSUME DeliveryInv, [Next]_vars PROVE DeliveryInv'
  OBVIOUS
<1>0. CopiesInv /\ TypeOK /\ OrderInv /\ SortedInv /\ SentInv
  BY DEF DeliveryInv, CopiesInv
<1>1. CopiesInv' /\ OrderInv'
  BY <1>0, CopiesNext, OrderNext
<1>2. ASSUME UNCHANGED <<queue, log, refused, lastTime>>,
             \A v \in Users : awaiting'[v] \subseteq awaiting[v]
      PROVE  SortedInv' /\ SentInv'
  BY <1>0, <1>2, QuietStepsKeepSorted, QuietStepsSendNone, NothingSentKeepsSent
<1>3. ASSUME UNCHANGED <<queue, log, refused, lastTime, awaiting>>
      PROVE  SortedInv' /\ SentInv'
  BY <1>2, <1>3
<1>4. ASSUME NEW u \in Users, NEW v \in Users, OpenChat(u, v)
      PROVE  SortedInv' /\ SentInv'
  BY <1>3, <1>4 DEF OpenChat, client, server, history
<1>5. ASSUME NEW u \in Users, LeaveChat(u) PROVE SortedInv' /\ SentInv'
  BY <1>3, <1>5 DEF LeaveChat, client, server, history
<1>6. ASSUME NEW u \in Users, NEW text \in Texts \cup {NoText}, Type(u, text)
      PROVE  SortedInv' /\ SentInv'
  BY <1>3, <1>6 DEF Type, client, server, history
<1>7. ASSUME NEW u \in Users, TextArrives(u) PROVE SortedInv' /\ SentInv'
  BY <1>3, <1>7 DEF TextArrives, client, server, history
<1>8. ASSUME NEW u \in Users, NEW ts \in 1 .. MaxTime[u], SendTapped(u, ts)
      PROVE  SortedInv' /\ SentInv'
  BY <1>8, TapKeepsSent
<1>9. ASSUME NEW u \in Users, Commit(u) PROVE SortedInv' /\ SentInv'
  <2>1. SortedInv'
    BY <1>0, <1>9, CommitKeepsSorted
  <2>2. SentMessages' = SentMessages
    BY <1>0, <1>9, CommitSendsNone
  <2>3. PICK p, w : p = applied[u] + 1 /\ w = queue[u][p]
    OBVIOUS
  <2>4. /\ w.owner \in Users /\ UNCHANGED <<refused, lastTime, awaiting>>
        /\ \/ log' = [log EXCEPT ![w.owner] = log[w.owner] \cup {w.msg}]
           \/ log' = log
    BY <1>0, <1>9, <2>3, CommitParts
  <2>5. \A v \in Users : log[v] \subseteq log'[v]
    <3>1. log \in [Users -> SUBSET Message]
      BY <1>0 DEF TypeOK
    <3>2. CASE log' = [log EXCEPT ![w.owner] = log[w.owner] \cup {w.msg}]
      BY <2>4, <3>1, <3>2
    <3> QED
      BY <2>4, <3>2
  <2> QED
    BY <1>0, <2>1, <2>2, <2>4, <2>5, NothingSentKeepsSent
<1>10. ASSUME NEW u \in Users, StreamReset(u) PROVE SortedInv' /\ SentInv'
  BY <1>3, <1>10 DEF StreamReset, server, history
<1>11. ASSUME NEW u \in Users, Written(u) PROVE SortedInv' /\ SentInv'
  BY <1>11, WrittenKeepsDelivery
<1>12. ASSUME NEW u \in Users, Crash(u) PROVE SortedInv' /\ SentInv'
  <2>1. queue' = queue
    BY <1>0, <1>12 DEF Crash, QueueOnDisk, TypeOK
  <2>2. /\ UNCHANGED <<log, refused, lastTime>>
        /\ awaiting' = [awaiting EXCEPT ![u] = {}]
    BY <1>12 DEF Crash, server
  <2>3. \A v \in Users : awaiting'[v] \subseteq awaiting[v]
    BY <1>0, <2>2 DEF TypeOK
  <2> QED
    BY <1>2, <2>1, <2>2, <2>3
<1>13. ASSUME UNCHANGED vars PROVE SortedInv' /\ SentInv'
  BY <1>3, <1>13 DEF vars, client, server, history
<1>14. SortedInv' /\ SentInv'
  BY <1>4, <1>5, <1>6, <1>7, <1>8, <1>9, <1>10, <1>11, <1>12, <1>13
  DEF Next, Written
<1> QED
  BY <1>1, <1>14 DEF DeliveryInv

-----------------------------------------------------------------------------
(* Every step of the upload is a step of Delivery, or changes nothing of   *)
(* it.                                                                     *)
LEMMA RiskIs ==
    /\ \A m : m \in MessagesAtRisk <=>
           m \in cut \/ \E w \in refused : w.doc = "log" /\ w.msg = m
    /\ \A m : m \in MessagesAtRisk' <=>
           m \in cut' \/ \E w \in refused' : w.doc = "log" /\ w.msg = m
<1>1. \A m : m \in MessagesAtRisk <=>
           m \in cut \/ \E w \in refused : w.doc = "log" /\ w.msg = m
  BY DEF MessagesAtRisk
<1>2. \A m : m \in MessagesAtRisk' <=>
           m \in cut' \/ \E w \in refused' : w.doc = "log" /\ w.msg = m
  BY DEF MessagesAtRisk
<1> QED
  BY <1>1, <1>2

(* A stored copy is in the log, or its message is at risk.                 *)
LEMMA StoredOrAtRisk ==
    ASSUME NEW u, NEW m, Stored(u, m)
    PROVE  m \in log[u] \cup MessagesAtRisk
<1>1. LogWrite(u, m).doc = "log" /\ LogWrite(u, m).msg = m
  BY DEF LogWrite
<1> QED
  BY <1>1, RiskIs DEF Stored

(* Where the first copy of a sent message is.                              *)
LEMMA SentPlaces ==
    ASSUME DeliveryInv, NEW m \in SentMessages
    PROVE  Stored(m.from, m) \/ Places(m.from, FirstOf(m)) # {}
<1>0. CopiesInv /\ TypeOK /\ SentInv
  BY DEF DeliveryInv, CopiesInv
<1>1. CASE \E u \in Users : m \in log[u]
  BY <1>0, <1>1 DEF CopiesInv, CopiesBacked
<1>2. CASE \E w \in refused : w.msg = m
  BY <1>0, <1>2 DEF SentInv, RefusedBacked
<1>3. ASSUME NEW u \in Users, NEW i \in 1 .. Len(queue[u]), queue[u][i].msg = m
      PROVE  Stored(m.from, m) \/ Places(m.from, FirstOf(m)) # {}
  <2>1. PICK w : w = queue[u][i]
    OBVIOUS
  <2>2. w \in Write /\ WriteBacked(u, w) /\ w.msg = m
    BY <1>0, <1>3, <2>1 DEF CopiesInv, QueueBacked, TypeOK
  <2>3. CASE w.doc = "log" /\ w.owner = u
    <3>1. m.from = u /\ w = FirstOf(m)
      BY <2>2, <2>3, LogWriteIs DEF WriteBacked, FirstOf
    <3>2. i \in Places(u, FirstOf(m))
      BY <2>1, <3>1 DEF Places
    <3> QED
      BY <3>1, <3>2
  <2>4. CASE ~(w.doc = "log" /\ w.owner = u)
    BY <2>2, <2>4, WriteParts DEF WriteBacked
  <2> QED
    BY <2>3, <2>4
<1> QED
  BY <1>1, <1>2, <1>3, SentIs

LEMMA CommitOfFirst ==
    ASSUME DeliveryInv, NEW u \in Users, Commit(u),
           NEW p, p = applied[u] + 1, NEW w, w = queue[u][p],
           IsFirst(u, w), w.msg \notin log[u]
    PROVE  Promised!Keep(w.msg)
<1>0. CopiesInv /\ TypeOK /\ SortedInv
  BY DEF DeliveryInv, CopiesInv
<1>1. PICK x : x = w.msg
  OBVIOUS
<1>2. /\ p \in 1 .. Len(queue[u]) /\ x \in Message /\ x.from = u
      /\ UNCHANGED <<refused, cut>>
      /\ log' = [log EXCEPT ![u] = log[u] \cup {x}] /\ recent' = recent
  BY <1>0, <1>1, CommitParts DEF IsFirst
<1>3. SentMessages' = SentMessages /\ MessagesAtRisk' = MessagesAtRisk
  BY <1>0, <1>2, CommitSendsNone DEF MessagesAtRisk
<1>4. ASSUME NEW n \in log[u], n.from = u PROVE n.ts < x.ts
  BY <1>0, <1>1, <1>2, <1>4 DEF SortedInv, OwnLogOlder
<1>5. ASSUME NEW n \in SentMessages, n.from = u, n.ts < x.ts
      PROVE  n \in log[u] \cup MessagesAtRisk
  <2>1. CASE Stored(u, n)
    BY <2>1, StoredOrAtRisk
  <2>2. ASSUME NEW i \in Places(u, FirstOf(n)), n \notin log[u] PROVE FALSE
    <3>1. n \in Message /\ n.ts \in Nat /\ x.ts \in Nat
      BY <1>2, MessageParts DEF DeliveryInv, SentInv, SentInTime
    <3>2. i \in 1 .. Len(queue[u]) /\ queue[u][i] = FirstOf(n)
      BY <2>2 DEF Places
    <3>3. /\ queue[u][i].doc = "log" /\ queue[u][i].owner = u
          /\ queue[u][i].msg = n
      BY <1>5, <3>1, <3>2, CopiesDiffer
    <3>4. i >= p
      BY <1>0, <2>2, <3>2, <3>3, CommitParts
    <3>5. i # p
      BY <1>1, <1>5, <3>1, <3>3
    <3>6. p < i
      BY <1>2, <3>2, <3>4, <3>5
    <3>7. x.ts < n.ts
      BY <1>0, <1>1, <1>2, <3>2, <3>3, <3>6 DEF SortedInv, FirstsSorted, IsFirst
    <3> QED
      BY <1>5, <3>1, <3>7
  <2> QED
    BY <1>5, <2>1, <2>2, SentPlaces
<1> QED
  BY <1>1, <1>2, <1>3, <1>4, <1>5 DEF Promised!Keep, Promised!Before

LEMMA CommitOfSecond ==
    ASSUME DeliveryInv, NEW u \in Users, Commit(u),
           NEW p, p = applied[u] + 1, NEW w, w = queue[u][p],
           IsSecond(u, w), w.msg \notin log[w.owner]
    PROVE  Promised!Deliver(w.msg)
<1>0. CopiesInv /\ TypeOK /\ OrderInv /\ SortedInv
  BY DEF DeliveryInv, CopiesInv
<1>1. PICK x : x = w.msg
  OBVIOUS
<1>2. /\ p \in 1 .. Len(queue[u]) /\ x \in Message /\ x.from = u
      /\ w \in Write /\ WriteBacked(u, w) /\ w.owner \in Users
      /\ UNCHANGED <<refused, cut>> /\ recent' = recent
  BY <1>0, <1>1, CommitParts DEF IsSecond
<1>3. w.owner = x.to /\ w = SecondOf(x) /\ x.to # u /\ Stored(u, x)
  BY <1>1, <1>2, LogWriteIs DEF IsSecond, WriteBacked, SecondOf
<1>4. log' = [log EXCEPT ![x.to] = log[x.to] \cup {x}]
  <2>1. \/ /\ w.doc = "log" /\ recent' = recent
           /\ log' = [log EXCEPT ![w.owner] = log[w.owner] \cup {w.msg}]
        \/ w.doc = "recent" /\ log' = log
    <3>1. CopiesInv
      BY <1>0
    <3> QED
      BY <3>1, CommitParts
  <2>2. w.doc = "log"
    BY DEF IsSecond
  <2>3. log' = [log EXCEPT ![w.owner] = log[w.owner] \cup {w.msg}]
    BY <2>1, <2>2
  <2> QED
    BY <1>1, <1>3, <2>3
<1>5. SentMessages' = SentMessages /\ MessagesAtRisk' = MessagesAtRisk
  BY <1>0, <1>2, CommitSendsNone DEF MessagesAtRisk
<1>6. x \in log[u] \cup MessagesAtRisk
  BY <1>3, StoredOrAtRisk
<1>7. ASSUME NEW n \in log[x.to], n.from = u PROVE n.ts < x.ts /\ n.to = x.to
  <2>1. n.ts < x.ts
    BY <1>0, <1>1, <1>2, <1>3, <1>7 DEF SortedInv, OtherLogsOlder
  <2>2. x.to \in {n.from, n.to}
    BY <1>0, <1>2, <1>3, <1>7 DEF CopiesInv, CopiesBacked
  <2> QED
    BY <1>3, <1>7, <2>1, <2>2
<1>8. ASSUME NEW n \in SentMessages, n.from = u, n.to = x.to, n.ts < x.ts
      PROVE  n \in log[x.to] \cup MessagesAtRisk
  <2>1. n \in Message /\ Earlier(n, x)
    BY <1>2, <1>8 DEF DeliveryInv, SentInv, SentInTime, Earlier
  <2>2. CASE Settled(n)
    <3>1. Stored(x.to, n) \/ n \in cut
      BY <1>8, <2>2 DEF Settled
    <3> QED
      BY <3>1, StoredOrAtRisk, RiskIs
  <2>3. CASE ~Settled(n) /\ Sent(n)
    <3>1. p \in Places(u, SecondOf(x))
      BY <1>2, <1>3 DEF Places
    <3>2. PICK j \in Places(u, SecondOf(n)) : j < p
      BY <1>0, <1>2, <1>8, <2>1, <2>3, <3>1 DEF OrderInv, SecondsInOrder
    <3>3. /\ j \in 1 .. Len(queue[u])
          /\ queue[u][j].doc = "log" /\ queue[u][j].msg = n
          /\ queue[u][j].owner = x.to
      BY <1>8, <2>1, CopiesDiffer DEF Places
    <3>4. n \in log[x.to] \/ j >= p
      BY <1>0, <3>3, CommitParts
    <3>5. ~(j >= p)
      BY <1>2, <3>2, <3>3
    <3> QED
      BY <3>4, <3>5
  <2>4. CASE ~Sent(n)
    <3>1. n \notin log[u] /\ Places(n.from, FirstOf(n)) = {}
      BY <1>8, <2>4 DEF Sent
    <3>2. Stored(u, n)
      BY <1>8, <3>1, SentPlaces
    <3> QED
      BY <3>1, <3>2, StoredOrAtRisk
  <2> QED
    BY <2>2, <2>3, <2>4
<1> QED
  BY <1>1, <1>2, <1>4, <1>5, <1>6, <1>7, <1>8
  DEF Promised!Deliver, Promised!BeforeInChat, Promised!Before

LEMMA CommitOfRecent ==
    ASSUME DeliveryInv, NEW u \in Users, Commit(u),
           NEW w, w = queue[u][applied[u] + 1], w.doc = "recent"
    PROVE  Promised!List(w.owner, Partner(w.owner, w.msg), w.msg)
<1>0. CopiesInv /\ TypeOK
  BY DEF DeliveryInv, CopiesInv
<1>1. PICK x, v, y : x = w.msg /\ v = w.owner /\ y = Partner(v, x)
  OBVIOUS
<1>2. /\ x \in Message /\ w \in Write /\ WriteBacked(u, w) /\ x.from = u
      /\ UNCHANGED <<refused, cut>> /\ log' = log
  BY <1>0, <1>1, CommitParts
<1>3. recent' = [recent EXCEPT ![v][y] = x]
  BY <1>1 DEF Commit
<1>4. SentMessages' = SentMessages /\ MessagesAtRisk' = MessagesAtRisk
  BY <1>0, <1>2, CommitSendsNone DEF MessagesAtRisk
<1>5. v \in {x.from, x.to} /\ x.from # x.to /\ {v, y} = {x.from, x.to}
  BY <1>1, <1>2, MessageParts DEF WriteBacked, Partner
<1>6. Stored(x.from, x) /\ Stored(x.to, x)
  BY <1>1, <1>2 DEF WriteBacked
<1>7. x \in (log[v] \cap log[y]) \cup MessagesAtRisk
  <2>1. Stored(v, x) /\ Stored(y, x)
    BY <1>5, <1>6
  <2> QED
    BY <2>1, StoredOrAtRisk
<1> QED
  BY <1>1, <1>2, <1>3, <1>4, <1>5, <1>7 DEF Promised!List

LEMMA CommitKeepsPromise ==
    ASSUME DeliveryInv, NEW u \in Users, Commit(u)
    PROVE  Promised!Next \/ UNCHANGED Promised!vars
<1>0. CopiesInv /\ TypeOK
  BY DEF DeliveryInv, CopiesInv
<1>1. PICK p, w : p = applied[u] + 1 /\ w = queue[u][p]
  OBVIOUS
<1>2. /\ p \in 1 .. Len(queue[u]) /\ w \in Write /\ w.owner \in Users
      /\ w.msg \in Message
      /\ UNCHANGED <<refused, cut>>
      /\ \/ /\ w.doc = "log" /\ recent' = recent
            /\ log' = [log EXCEPT ![w.owner] = log[w.owner] \cup {w.msg}]
         \/ w.doc = "recent" /\ log' = log
  BY <1>0, <1>1, CommitParts
<1>3. w.msg \in SentMessages
  BY <1>1, <1>2, SentIs
<1>4. CASE w.doc = "log" /\ w.msg \in log[w.owner]
  <2>1. log' = log /\ recent' = recent
    <3>1. log \in [Users -> SUBSET Message]
      BY <1>0 DEF TypeOK
    <3>2. log[w.owner] \cup {w.msg} = log[w.owner]
      BY <1>4
    <3>3. [log EXCEPT ![w.owner] = log[w.owner]] = log
      BY <1>2, <3>1
    <3> QED
      BY <1>2, <1>4, <3>2, <3>3
  <2>2. SentMessages' = SentMessages /\ MessagesAtRisk' = MessagesAtRisk
    BY <1>0, <1>2, CommitSendsNone DEF MessagesAtRisk
  <2> QED
    BY <2>1, <2>2 DEF Promised!vars
<1>5. CASE w.doc = "log" /\ w.msg \notin log[w.owner]
  <2>1. Promised!Keep(w.msg) \/ Promised!Deliver(w.msg)
    BY <1>1, <1>5, CommitOfFirst, CommitOfSecond DEF IsFirst, IsSecond
  <2> QED
    BY <1>3, <2>1 DEF Promised!Next
<1>6. CASE w.doc = "recent"
  <2>1. Promised!List(w.owner, Partner(w.owner, w.msg), w.msg)
    BY <1>1, <1>6, CommitOfRecent
  <2>2. Partner(w.owner, w.msg) \in Users
    BY <1>2, MessageParts DEF Partner
  <2> QED
    BY <1>2, <1>3, <2>1, <2>2 DEF Promised!Next
<1> QED
  BY <1>2, <1>4, <1>5, <1>6

LEMMA TapKeepsPromise ==
    ASSUME DeliveryInv, NEW u \in Users, NEW ts \in 1 .. MaxTime[u],
           SendTapped(u, ts)
    PROVE  Promised!Next
<1>0. TypeOK /\ SentInTime
  BY DEF DeliveryInv, CopiesInv, SentInv
<1>1. PICK x \in Message :
          /\ x \in Sendable /\ x.from = u
          /\ lastTime[u] < x.ts
          /\ queue' = [queue EXCEPT ![u] = queue[u] \o <<FirstOf(x)>>]
          /\ UNCHANGED <<log, recent, refused, cut>>
  BY <1>0, TapParts
<1>2. SentMessages' = SentMessages \cup {x} /\ MessagesAtRisk' = MessagesAtRisk
  BY <1>0, <1>1, TapSends DEF MessagesAtRisk
<1>3. ASSUME NEW n \in SentMessages, n.from = u PROVE n.ts < x.ts
  <2>1. n \in Message /\ n.ts <= lastTime[u]
    BY <1>0, <1>3 DEF SentInTime
  <2>2. n.ts \in Nat /\ x.ts \in Nat /\ lastTime[u] \in Nat
    BY <1>0, <2>1, MessageParts DEF TypeOK
  <2> QED
    BY <1>1, <2>1, <2>2
<1>4. Promised!Send(x)
  BY <1>1, <1>2, <1>3 DEF Promised!Send, Promised!Before
<1> QED
  BY <1>1, <1>4 DEF Promised!Next

(* An answer may put the message of a refused write at risk.               *)
LEMMA WrittenKeepsPromise ==
    ASSUME DeliveryInv, NEW u \in Users, Written(u)
    PROVE  Promised!Next
<1>0. CopiesInv
  BY DEF DeliveryInv
<1>1. PICK w : w = Head(queue[u])
  OBVIOUS
<1>2. Answered(u) /\ UNCHANGED <<log, recent, cut>>
  BY <1>0, <1>1, WrittenParts
<1>3. /\ refused' = refused \/ refused' = refused \cup {w}
      /\ queue[u] # << >>
  BY <1>0, <1>1, <1>2, AnsweredParts
<1>4. SentMessages' = SentMessages
  BY WrittenKeepsDelivery
<1>5. w.msg \in SentMessages
  <2>1. 1 \in 1 .. Len(queue[u]) /\ queue[u][1] = w
    BY <1>0, <1>1, <1>3, FrontOfQueue DEF CopiesInv, TypeOK
  <2> QED
    BY <2>1, SentIs
<1>6. \E S \in SUBSET SentMessages : MessagesAtRisk' = MessagesAtRisk \cup S
  <2>1. CASE refused' = refused \/ w.doc # "log"
    <3>1. \A m : m \in MessagesAtRisk' <=> m \in MessagesAtRisk
      BY <1>2, <1>3, <2>1, RiskIs
    <3>2. MessagesAtRisk' = MessagesAtRisk \cup {}
      BY <3>1
    <3> QED
      BY <3>2
  <2>2. CASE refused' = refused \cup {w} /\ w.doc = "log"
    <3>1. \A m : m \in MessagesAtRisk' <=> m \in MessagesAtRisk \/ m = w.msg
      BY <1>2, <2>2, RiskIs
    <3>2. MessagesAtRisk' = MessagesAtRisk \cup {w.msg}
      BY <3>1
    <3> QED
      BY <1>5, <3>2
  <2> QED
    BY <1>3, <2>1, <2>2
<1> QED
  BY <1>2, <1>4, <1>6 DEF Promised!Next, Promised!Endanger

(* A crash puts at risk what was awaited.                                  *)
LEMMA CrashKeepsPromise ==
    ASSUME DeliveryInv, NEW u \in Users, Crash(u)
    PROVE  Promised!Next
<1>1. queue' = queue
  BY DEF DeliveryInv, CopiesInv, Crash, QueueOnDisk, TypeOK
<1>2. cut' = cut \cup awaiting[u] /\ UNCHANGED <<log, recent, refused>>
  BY DEF Crash, server
<1>3. SentMessages' = SentMessages
  BY <1>1, <1>2, QuietStepsSendNone
<1>4. awaiting[u] \subseteq SentMessages
  BY DEF DeliveryInv, SentInv, AwaitedAreSent
<1>5. MessagesAtRisk' = MessagesAtRisk \cup awaiting[u]
  BY <1>2, RiskIs
<1>6. Promised!Endanger(awaiting[u])
  BY <1>2, <1>3, <1>5 DEF Promised!Endanger
<1> QED
  BY <1>4, <1>6 DEF Promised!Next

LEMMA StepKeepsPromise ==
    DeliveryInv /\ [Next]_vars => [Promised!Next]_(Promised!vars)
<1> SUFFICES ASSUME DeliveryInv, [Next]_vars
             PROVE  Promised!Next \/ UNCHANGED Promised!vars
  OBVIOUS
<1>1. ASSUME UNCHANGED <<queue, log, recent, refused, cut>>
      PROVE  UNCHANGED Promised!vars
  <2>1. SentMessages' = SentMessages /\ MessagesAtRisk' = MessagesAtRisk
    BY <1>1, QuietStepsSendNone DEF MessagesAtRisk
  <2> QED
    BY <1>1, <2>1 DEF Promised!vars
<1>2. ASSUME NEW u \in Users, NEW v \in Users, OpenChat(u, v)
      PROVE  UNCHANGED Promised!vars
  BY <1>1, <1>2 DEF OpenChat, client, server, history
<1>3. ASSUME NEW u \in Users, LeaveChat(u) PROVE UNCHANGED Promised!vars
  BY <1>1, <1>3 DEF LeaveChat, client, server, history
<1>4. ASSUME NEW u \in Users, NEW text \in Texts \cup {NoText}, Type(u, text)
      PROVE  UNCHANGED Promised!vars
  BY <1>1, <1>4 DEF Type, client, server, history
<1>5. ASSUME NEW u \in Users, TextArrives(u) PROVE UNCHANGED Promised!vars
  BY <1>1, <1>5 DEF TextArrives, client, server, history
<1>6. ASSUME NEW u \in Users, StreamReset(u) PROVE UNCHANGED Promised!vars
  BY <1>1, <1>6 DEF StreamReset, server, history
<1>7. ASSUME UNCHANGED vars PROVE UNCHANGED Promised!vars
  BY <1>1, <1>7 DEF vars, client, server, history
<1> QED
  BY <1>2, <1>3, <1>4, <1>5, <1>6, <1>7, TapKeepsPromise, CommitKeepsPromise,
     WrittenKeepsPromise, CrashKeepsPromise
  DEF Next, Written

LEMMA InitKeepsPromise == Init => Promised!Init
<1> SUFFICES ASSUME Init PROVE Promised!Init
  OBVIOUS
<1>1. \A u \in Users : \A i \in 1 .. Len(queue[u]) : FALSE
  <2>1. \A u \in Users : queue[u] = << >>
    BY DEF Init
  <2>2. \A u \in Users : Len(queue[u]) = 0
    BY <2>1
  <2> QED
    BY <2>2
<1>2. SentMessages = {}
  <2>1. \A m : m \notin SentMessages
    BY <1>1, SentIs DEF Init
  <2> QED
    BY <2>1
<1>3. MessagesAtRisk = {}
  BY DEF Init, MessagesAtRisk
<1> QED
  BY <1>2, <1>3 DEF Init, Promised!Init

(* The upload keeps the promise of Delivery: in the order of the taps and  *)
(* without gaps, both logs get what is not at risk, and a conversation     *)
(* lists only what both have; for any users, texts, messages, pipeline,    *)
(* broken streams, crashes and refused writes.                             *)
THEOREM PromiseKept == Spec => KeepsPromise
<1>1. Spec => []DeliveryInv
  BY DeliveryInit, DeliveryNext, PTL DEF Spec
<1> QED
  BY <1>1, InitKeepsPromise, StepKeepsPromise, PTL DEF Spec, KeepsPromise, Promised!Spec

-----------------------------------------------------------------------------
(***************************************************************************)
(* What a conversation lists when all is written, for every number of      *)
(* users, messages, crashes and refused writes.                            *)
(*                                                                         *)
(* The recent documents of one sender stand in the queue in the order of   *)
(* the taps, and behind no log write of an older message.  So what is      *)
(* written again after a broken stream ends with the newest, and a message *)
(* whose document has left the queue is never followed by an older one.    *)
(* And while only one side of a chat writes recent documents, they come in *)
(* pairs that end with the receiver's: the last to leave its queue shows   *)
(* what the sender's own document shows.                                   *)
(***************************************************************************)

(* The messages of the recent documents queued on a device are in the      *)
(* order of the taps, and older than those of the log writes.              *)
RecentsSorted ==
    \A u \in Users : \A i, j \in 1 .. Len(queue[u]) :
        i < j /\ queue[u][i].doc = "recent" /\ queue[u][j].doc = "recent" =>
            queue[u][i].msg.ts <= queue[u][j].msg.ts

RecentsOlder ==
    \A u \in Users : \A i, j \in 1 .. Len(queue[u]) :
        queue[u][i].doc = "recent" /\ queue[u][j].doc = "log" =>
            queue[u][i].msg.ts < queue[u][j].msg.ts

(* The log writes on their way are those that somebody waits for, or did   *)
(* before a crash.                                                         *)
LogsAwaited ==
    \A u \in Users : \A i \in 1 .. Len(queue[u]) :
        queue[u][i].doc = "log" => queue[u][i].msg \in awaiting[u] \cup cut

AwaitedQueued ==
    \A u \in Users : \A m \in awaiting[u] :
        \E i \in 1 .. Len(queue[u]) : queue[u][i].doc = "log" /\ queue[u][i].msg = m

(* o's conversation lists a message, and none of m's sender older than m.  *)
Covers(o, m) ==
    /\ recent[o][Partner(o, m)] # NoMsg
    /\ recent[o][Partner(o, m)].from = m.from => m.ts <= recent[o][Partner(o, m)].ts

CommittedCovered ==
    \A u \in Users : \A i \in 1 .. Len(queue[u]) :
        i <= applied[u] /\ queue[u][i].doc = "recent" =>
            Covers(queue[u][i].owner, queue[u][i].msg)

(* The recent document of m that o keeps has been written for good.        *)
Listed(o, m) ==
    /\ m \in log[m.from]
    /\ m \notin awaiting[m.from] /\ m \notin cut
    /\ RecentWrite(o, m) \notin refused
    /\ \A i \in 1 .. Len(queue[m.from]) : queue[m.from][i] # RecentWrite(o, m)

ListedOlder ==
    \A m \in Message : \A o \in {m.from, m.to} : Listed(o, m) =>
        \A i \in 1 .. Len(queue[m.from]) : m.ts <= queue[m.from][i].msg.ts

ListedCovered ==
    \A m \in Message : \A o \in {m.from, m.to} : Listed(o, m) => Covers(o, m)

RecentInv ==
    /\ RecentsSorted /\ RecentsOlder
    /\ LogsAwaited /\ AwaitedQueued
    /\ CommittedCovered
    /\ ListedOlder /\ ListedCovered

-----------------------------------------------------------------------------
(* Which writes q follow the answer to w, who still waits, and whether two *)
(* sides write the recent documents of one chat.                           *)
Follows(u, w, q) ==
    \/ /\ IsFirst(u, w) /\ w.msg \in awaiting[u]
       /\ q = <<LogWrite(w.msg.to, w.msg)>>
       /\ awaiting' = awaiting /\ raced' = raced
    \/ /\ IsSecond(u, w)
       /\ q = <<RecentWrite(w.msg.from, w.msg), RecentWrite(w.msg.to, w.msg)>>
       /\ awaiting' = [awaiting EXCEPT ![u] = awaiting[u] \ {w.msg}]
       /\ raced' = IF WritingRecents(w.msg.to, w.msg.from)
                   THEN raced \cup {{w.msg.from, w.msg.to}}
                   ELSE raced
    \/ /\ w.doc = "recent" \/ w.msg \notin awaiting[u]
       /\ q = << >>
       /\ awaiting' = awaiting /\ raced' = raced

LEMMA AnswerFollowed ==
    ASSUME CopiesInv, NEW u \in Users, Written(u), NEW w, w = Head(queue[u])
    PROVE  /\ Answered(u) /\ UNCHANGED <<log, recent, lastTime, cut>>
           /\ queue[u] # << >> /\ w \in Write /\ w.msg \in Message /\ w.msg.from = u
           /\ \E q \in Seq(Write) :
                  /\ queue' = [queue EXCEPT ![u] = Tail(queue[u]) \o q]
                  /\ Follows(u, w, q)
<1>1. Answered(u) /\ UNCHANGED <<log, recent, lastTime, cut>>
  BY DEF Written, OwnWritten, PeerWritten, QuietlyWritten, server
<1>2. /\ queue[u] # << >> /\ w \in Write /\ w.msg \in Message
      /\ w.msg.from = u
  BY <1>1, AnsweredParts
<1>3. w.msg.to \in Users
  BY <1>2, MessageParts
<1>4. ASSUME OwnWritten(u)
      PROVE  \E q \in Seq(Write) :
                 /\ queue' = [queue EXCEPT ![u] = Tail(queue[u]) \o q]
                 /\ Follows(u, w, q)
  <2>1. PICK q : q = SecondWrites(w.msg)
    OBVIOUS
  <2>2. q \in Seq(Write)
    BY <1>2, <2>1, WriteTypes
  <2>3. queue' = [queue EXCEPT ![u] = Tail(queue[u]) \o q]
    BY <1>4, <2>1 DEF OwnWritten
  <2>4. Follows(u, w, q)
    BY <1>4, <2>1 DEF OwnWritten, Follows, IsFirst, SecondWrites
  <2> QED
    BY <2>2, <2>3, <2>4
<1>5. ASSUME PeerWritten(u)
      PROVE  \E q \in Seq(Write) :
                 /\ queue' = [queue EXCEPT ![u] = Tail(queue[u]) \o q]
                 /\ Follows(u, w, q)
  <2>1. PICK q : q = LastWrites(w.msg)
    OBVIOUS
  <2>2. q \in Seq(Write)
    BY <1>2, <1>3, <2>1, WriteTypes
  <2>3. queue' = [queue EXCEPT ![u] = Tail(queue[u]) \o q]
    BY <1>5, <2>1 DEF PeerWritten
  <2>4. Follows(u, w, q)
    BY <1>5, <2>1 DEF PeerWritten, Follows, IsSecond, LastWrites
  <2> QED
    BY <2>2, <2>3, <2>4
<1>6. ASSUME QuietlyWritten(u)
      PROVE  \E q \in Seq(Write) :
                 /\ queue' = [queue EXCEPT ![u] = Tail(queue[u]) \o q]
                 /\ Follows(u, w, q)
  <2>1. PICK q : q = << >>
    OBVIOUS
  <2>2. q \in Seq(Write)
    BY <2>1
  <2>3. Tail(queue[u]) \in Seq(Write)
    BY <1>2, FrontOfQueue DEF CopiesInv, TypeOK
  <2>4. Tail(queue[u]) \o q = Tail(queue[u])
    BY <2>1, <2>3
  <2>5. queue' = [queue EXCEPT ![u] = Tail(queue[u]) \o q]
    BY <1>6, <2>4 DEF QuietlyWritten
  <2>6. Follows(u, w, q)
    BY <1>6, <2>1 DEF QuietlyWritten, Follows
  <2> QED
    BY <2>2, <2>5, <2>6
<1> QED
  BY <1>1, <1>2, <1>4, <1>5, <1>6 DEF Written

(* All of them are of the same message: the second log write behind the    *)
(* first, the recent documents behind the second.                          *)
LEMMA FollowersAre ==
    ASSUME NEW u \in Users, NEW w \in Write, NEW q, Follows(u, w, q)
    PROVE  \A k \in 1 .. Len(q) :
               /\ q[k].msg = w.msg
               /\ w.doc = "log"
               /\ \/ q[k].doc = "recent" /\ IsSecond(u, w)
                  \/ /\ q[k].doc = "log" /\ IsFirst(u, w)
                     /\ w.msg \in awaiting[u] /\ awaiting' = awaiting
<1>1. CASE q = <<LogWrite(w.msg.to, w.msg)>>
  <2>1. \A k \in 1 .. Len(q) : q[k] = LogWrite(w.msg.to, w.msg)
    BY <1>1
  <2>2. LogWrite(w.msg.to, w.msg).doc = "log" /\ LogWrite(w.msg.to, w.msg).msg = w.msg
    BY DEF LogWrite
  <2>3. q # << >> /\ q # <<RecentWrite(w.msg.from, w.msg), RecentWrite(w.msg.to, w.msg)>>
    BY <1>1
  <2>4. IsFirst(u, w) /\ w.msg \in awaiting[u] /\ awaiting' = awaiting
    BY <2>3 DEF Follows
  <2> QED
    BY <2>1, <2>2, <2>4 DEF IsFirst
<1>2. CASE /\ IsSecond(u, w)
           /\ q = <<RecentWrite(w.msg.from, w.msg), RecentWrite(w.msg.to, w.msg)>>
  <2>1. \A k \in 1 .. Len(q) :
            q[k] = RecentWrite(w.msg.from, w.msg) \/ q[k] = RecentWrite(w.msg.to, w.msg)
    BY <1>2
  <2>2. \A v : RecentWrite(v, w.msg).doc = "recent" /\ RecentWrite(v, w.msg).msg = w.msg
    BY DEF RecentWrite
  <2> QED
    BY <1>2, <2>1, <2>2 DEF IsSecond
<1>3. CASE q = << >>
  BY <1>3
<1> QED
  BY <1>1, <1>2, <1>3 DEF Follows

-----------------------------------------------------------------------------
LEMMA PopKeepsRecentsSorted ==
    ASSUME TypeOK, SortedInv, RecentsSorted, RecentsOlder,
           NEW u \in Users, queue[u] # << >>, NEW q \in Seq(Write),
           queue' = [queue EXCEPT ![u] = Tail(queue[u]) \o q],
           Follows(u, Head(queue[u]), q)
    PROVE  RecentsSorted' /\ RecentsOlder'
<1>1. /\ \A v \in Users : v # u => queue'[v] = queue[v]
      /\ Len(queue[u]) \in Nat \ {0}
      /\ 1 \in 1 .. Len(queue[u]) /\ Head(queue[u]) = queue[u][1]
      /\ \A i \in 1 .. Len(queue'[u]) :
             /\ i \in Nat \ {0}
             /\ \/ i + 1 \in 1 .. Len(queue[u]) /\ queue'[u][i] = queue[u][i + 1]
                \/ /\ i >= Len(queue[u])
                   /\ \E k \in 1 .. Len(q) :
                          queue'[u][i] = q[k] /\ i = Len(queue[u]) - 1 + k
  BY QueuePopped
<1>2. PICK w : w = queue[u][1]
  OBVIOUS
<1>3. /\ w \in Write /\ w.msg.ts \in Nat
      /\ \A i \in 1 .. Len(queue[u]) : queue[u][i].msg.ts \in Nat
  BY <1>1, <1>2, WriteParts, MessageParts DEF TypeOK
<1>4. \A k \in 1 .. Len(q) :
          /\ q[k].msg = w.msg /\ w.doc = "log"
          /\ \/ q[k].doc = "recent" /\ IsSecond(u, w)
             \/ q[k].doc = "log" /\ IsFirst(u, w)
  BY <1>1, <1>2, <1>3, FollowersAre
<1>5. ASSUME NEW i \in 1 .. Len(queue'[u])
      PROVE  /\ i \in Nat \ {0}
             /\ \/ i + 1 \in 1 .. Len(queue[u]) /\ queue'[u][i] = queue[u][i + 1]
                \/ /\ i >= Len(queue[u]) /\ w.doc = "log"
                   /\ queue'[u][i].msg = w.msg
                   /\ \/ queue'[u][i].doc = "recent" /\ IsSecond(u, w)
                      \/ queue'[u][i].doc = "log" /\ IsFirst(u, w)
  <2>1. CASE i + 1 \in 1 .. Len(queue[u]) /\ queue'[u][i] = queue[u][i + 1]
    BY <1>1, <1>5, <2>1
  <2>2. ASSUME NEW k \in 1 .. Len(q), queue'[u][i] = q[k], i >= Len(queue[u])
        PROVE  /\ i >= Len(queue[u]) /\ w.doc = "log"
               /\ queue'[u][i].msg = w.msg
               /\ \/ queue'[u][i].doc = "recent" /\ IsSecond(u, w)
                  \/ queue'[u][i].doc = "log" /\ IsFirst(u, w)
    BY <1>4, <2>2
  <2> QED
    BY <1>1, <1>5, <2>1, <2>2
<1>6. ASSUME NEW i \in 1 .. Len(queue[u]), queue[u][i].doc = "recent", w.doc = "log"
      PROVE  queue[u][i].msg.ts < w.msg.ts
  BY <1>1, <1>2, <1>6 DEF RecentsOlder
<1>7. RecentsSorted'
  <2> SUFFICES ASSUME NEW v \in Users,
                      NEW i \in 1 .. Len(queue'[v]), NEW j \in 1 .. Len(queue'[v]),
                      i < j, queue'[v][i].doc = "recent", queue'[v][j].doc = "recent"
               PROVE  queue'[v][i].msg.ts <= queue'[v][j].msg.ts
    BY DEF RecentsSorted
  <2>1. CASE v # u
    BY <1>1, <2>1 DEF RecentsSorted
  <2>2. CASE v = u
    <3>1. /\ i \in Nat \ {0} /\ j \in Nat \ {0} /\ i + 1 < j + 1
          /\ i \in 1 .. Len(queue'[u]) /\ j \in 1 .. Len(queue'[u])
      BY <1>5, <2>2
    <3>2. CASE j + 1 \in 1 .. Len(queue[u]) /\ queue'[u][j] = queue[u][j + 1]
      <4>1. ~(i >= Len(queue[u]))
        BY <1>1, <3>1, <3>2
      <4>2. i + 1 \in 1 .. Len(queue[u]) /\ queue'[u][i] = queue[u][i + 1]
        BY <1>5, <3>1, <4>1
      <4> QED
        BY <2>2, <3>1, <3>2, <4>2 DEF RecentsSorted
    <3>3. CASE w.doc = "log" /\ queue'[u][j].msg = w.msg
      <4>1. CASE i + 1 \in 1 .. Len(queue[u]) /\ queue'[u][i] = queue[u][i + 1]
        <5>1. queue[u][i + 1].msg.ts < w.msg.ts
          BY <1>6, <2>2, <3>3, <4>1
        <5>2. queue[u][i + 1].msg.ts <= w.msg.ts
          BY <1>3, <4>1, <5>1
        <5> QED
          BY <2>2, <3>3, <4>1, <5>2
      <4>2. CASE queue'[u][i].msg = w.msg
        <5>1. w.msg.ts <= w.msg.ts
          BY <1>3
        <5> QED
          BY <2>2, <3>3, <4>2, <5>1
      <4> QED
        BY <1>5, <3>1, <4>1, <4>2
    <3> QED
      BY <1>5, <3>1, <3>2, <3>3
  <2> QED
    BY <2>1, <2>2
<1>8. RecentsOlder'
  <2> SUFFICES ASSUME NEW v \in Users,
                      NEW i \in 1 .. Len(queue'[v]), NEW j \in 1 .. Len(queue'[v]),
                      queue'[v][i].doc = "recent", queue'[v][j].doc = "log"
               PROVE  queue'[v][i].msg.ts < queue'[v][j].msg.ts
    BY DEF RecentsOlder
  <2>1. CASE v # u
    BY <1>1, <2>1 DEF RecentsOlder
  <2>2. CASE v = u
    <3>1. /\ i \in Nat \ {0} /\ j \in Nat \ {0}
          /\ i \in 1 .. Len(queue'[u]) /\ j \in 1 .. Len(queue'[u])
      BY <1>5, <2>2
    <3>2. CASE i + 1 \in 1 .. Len(queue[u]) /\ queue'[u][i] = queue[u][i + 1]
      <4>1. CASE j + 1 \in 1 .. Len(queue[u]) /\ queue'[u][j] = queue[u][j + 1]
        BY <2>2, <3>2, <4>1 DEF RecentsOlder
      <4>2. CASE w.doc = "log" /\ queue'[u][j].msg = w.msg
        BY <1>6, <2>2, <3>2, <4>2
      <4> QED
        BY <1>5, <3>1, <4>1, <4>2
    <3>3. CASE IsSecond(u, w) /\ queue'[u][i].msg = w.msg
      <4>1. j + 1 \in 1 .. Len(queue[u]) /\ queue'[u][j] = queue[u][j + 1]
        BY <1>5, <2>2, <3>1, <3>3 DEF IsFirst, IsSecond
      <4>2. 1 < j + 1
        BY <3>1
      <4>3. CASE IsFirst(u, queue[u][j + 1])
        <5>1. queue[u][1].msg.ts < queue[u][j + 1].msg.ts
          BY <1>1, <1>2, <3>3, <4>1, <4>3 DEF SortedInv, SecondsOlder
        <5> QED
          BY <1>2, <2>2, <3>3, <4>1, <5>1
      <4>4. CASE IsSecond(u, queue[u][j + 1])
        <5>1. queue[u][1].msg.ts < queue[u][j + 1].msg.ts
          BY <1>1, <1>2, <3>3, <4>1, <4>2, <4>4 DEF SortedInv, SecondsSorted
        <5> QED
          BY <1>2, <2>2, <3>3, <4>1, <5>1
      <4> QED
        BY <2>2, <4>1, <4>3, <4>4 DEF IsFirst, IsSecond
    <3> QED
      BY <1>5, <2>2, <3>1, <3>2, <3>3
  <2> QED
    BY <2>1, <2>2
<1> QED
  BY <1>7, <1>8

(* The messages on their way to the logs are those waited for.             *)
LEMMA PopKeepsAwaited ==
    ASSUME TypeOK, SortedInv, LogsAwaited, AwaitedQueued,
           NEW u \in Users, queue[u] # << >>, NEW q \in Seq(Write),
           queue' = [queue EXCEPT ![u] = Tail(queue[u]) \o q], cut' = cut,
           Follows(u, Head(queue[u]), q)
    PROVE  LogsAwaited' /\ AwaitedQueued'
<1>1. /\ \A v \in Users : v # u => queue'[v] = queue[v]
      /\ Len(queue[u]) \in Nat \ {0}
      /\ 1 \in 1 .. Len(queue[u]) /\ Head(queue[u]) = queue[u][1]
      /\ \A i \in 1 .. Len(queue'[u]) :
             /\ i \in Nat \ {0}
             /\ \/ i + 1 \in 1 .. Len(queue[u]) /\ queue'[u][i] = queue[u][i + 1]
                \/ /\ i >= Len(queue[u])
                   /\ \E k \in 1 .. Len(q) :
                          queue'[u][i] = q[k] /\ i = Len(queue[u]) - 1 + k
      /\ \A i \in 2 .. Len(queue[u]) :
             i - 1 \in 1 .. Len(queue'[u]) /\ queue'[u][i - 1] = queue[u][i]
      /\ \A k \in 1 .. Len(q) :
             /\ Len(queue[u]) - 1 + k \in 1 .. Len(queue'[u])
             /\ queue'[u][Len(queue[u]) - 1 + k] = q[k]
  BY QueuePopped
<1>2. PICK w : w = queue[u][1]
  OBVIOUS
<1>3. /\ w \in Write /\ Follows(u, w, q) /\ w.msg.ts \in Nat
      /\ awaiting \in [Users -> SUBSET Message]
  BY <1>1, <1>2, WriteParts, MessageParts DEF TypeOK
<1>4. \A k \in 1 .. Len(q) :
          /\ q[k].msg = w.msg
          /\ q[k].doc = "log" => w.msg \in awaiting[u] /\ awaiting' = awaiting
  BY <1>3, FollowersAre
<1>5. \/ awaiting' = awaiting
      \/ /\ IsSecond(u, w)
         /\ awaiting' = [awaiting EXCEPT ![u] = awaiting[u] \ {w.msg}]
  BY <1>3 DEF Follows
<1>6. LogsAwaited'
  <2> SUFFICES ASSUME NEW v \in Users, NEW i \in 1 .. Len(queue'[v]),
                      queue'[v][i].doc = "log"
               PROVE  queue'[v][i].msg \in awaiting'[v] \cup cut
    BY DEF LogsAwaited
  <2>1. CASE v # u
    <3>1. awaiting'[v] = awaiting[v]
      BY <1>3, <1>5, <2>1
    <3> QED
      BY <1>1, <2>1, <3>1 DEF LogsAwaited
  <2>2. CASE /\ v = u /\ i + 1 \in 1 .. Len(queue[u])
             /\ queue'[u][i] = queue[u][i + 1]
    <3>1. queue[u][i + 1].msg \in awaiting[u] \cup cut
      BY <2>2 DEF LogsAwaited
    <3>2. CASE awaiting' = awaiting
      BY <2>2, <3>1, <3>2
    <3>3. CASE /\ IsSecond(u, w)
               /\ awaiting' = [awaiting EXCEPT ![u] = awaiting[u] \ {w.msg}]
      <4>1. 1 < i + 1
        BY <1>1, <2>2
      <4>2. w.msg.ts < queue[u][i + 1].msg.ts
        <5>1. CASE IsFirst(u, queue[u][i + 1])
          BY <1>1, <1>2, <2>2, <3>3, <5>1 DEF SortedInv, SecondsOlder
        <5>2. CASE IsSecond(u, queue[u][i + 1])
          BY <1>1, <1>2, <2>2, <3>3, <4>1, <5>2 DEF SortedInv, SecondsSorted
        <5> QED
          BY <2>2, <5>1, <5>2 DEF IsFirst, IsSecond
      <4>3. queue[u][i + 1].msg # w.msg
        BY <1>3, <4>2
      <4> QED
        BY <1>3, <2>2, <3>1, <3>3, <4>3
    <3> QED
      BY <1>5, <3>2, <3>3
  <2>3. ASSUME v = u, NEW k \in 1 .. Len(q), queue'[u][i] = q[k]
        PROVE  queue'[v][i].msg \in awaiting'[v] \cup cut
    BY <1>4, <2>3
  <2> QED
    BY <1>1, <2>1, <2>2, <2>3
<1>7. AwaitedQueued'
  <2> SUFFICES ASSUME NEW v \in Users, NEW m \in awaiting'[v]
               PROVE  \E i \in 1 .. Len(queue'[v]) :
                          queue'[v][i].doc = "log" /\ queue'[v][i].msg = m
    BY DEF AwaitedQueued
  <2>1. m \in awaiting[v]
    BY <1>3, <1>5
  <2>2. PICK i \in 1 .. Len(queue[v]) :
            queue[v][i].doc = "log" /\ queue[v][i].msg = m
    BY <2>1 DEF AwaitedQueued
  <2>3. CASE v # u
    BY <1>1, <2>2, <2>3
  <2>4. CASE v = u /\ i # 1
    <3>1. i \in 2 .. Len(queue[u])
      BY <1>1, <2>2, <2>4
    <3>2. i - 1 \in 1 .. Len(queue'[u]) /\ queue'[u][i - 1] = queue[u][i]
      BY <1>1, <3>1
    <3> QED
      BY <2>2, <2>4, <3>2
  <2>5. CASE v = u /\ i = 1
    <3>1. w.doc = "log" /\ w.msg = m
      BY <1>2, <2>2, <2>5
    <3>2. q = <<LogWrite(m.to, m)>>
      BY <1>3, <2>1, <2>5, <3>1 DEF Follows
    <3>3. 1 \in 1 .. Len(q) /\ q[1] = LogWrite(m.to, m)
      BY <3>2
    <3>4. PICK j : j = Len(queue[u]) - 1 + 1
      OBVIOUS
    <3>5. j \in 1 .. Len(queue'[u]) /\ queue'[u][j] = LogWrite(m.to, m)
      BY <1>1, <3>3, <3>4
    <3>6. queue'[u][j].doc = "log" /\ queue'[u][j].msg = m
      BY <3>5 DEF LogWrite
    <3> QED
      BY <2>5, <3>5, <3>6
  <2> QED
    BY <2>3, <2>4, <2>5
<1> QED
  BY <1>6, <1>7

-----------------------------------------------------------------------------
(* What is acknowledged was committed; what is put behind is not.          *)
LEMMA PopKeepsCommitted ==
    ASSUME TypeOK, CommittedCovered, NEW u \in Users, Answered(u),
           NEW q \in Seq(Write),
           queue' = [queue EXCEPT ![u] = Tail(queue[u]) \o q], recent' = recent
    PROVE  CommittedCovered'
<1>1. queue[u] # << >>
  BY DEF Answered
<1>2. /\ \A v \in Users : v # u => queue'[v] = queue[v]
      /\ Len(queue[u]) \in Nat \ {0}
      /\ \A i \in 1 .. Len(queue'[u]) :
             /\ i \in Nat \ {0}
             /\ \/ i + 1 \in 1 .. Len(queue[u]) /\ queue'[u][i] = queue[u][i + 1]
                \/ i >= Len(queue[u])
  BY <1>1, QueuePopped
<1>3. /\ applied \in [Users -> Nat] /\ applied[u] <= Len(queue[u])
      /\ applied[u] \in Nat
  BY DEF TypeOK
<1>4. \/ applied[u] = 0 /\ applied' = applied
      \/ applied[u] > 0 /\ applied' = [applied EXCEPT ![u] = applied[u] - 1]
  BY DEF Answered
<1>5. /\ \A v \in Users : v # u => applied'[v] = applied[v]
      /\ \A i \in Nat \ {0} : i <= applied'[u] => i + 1 <= applied[u]
  <2>1. CASE applied[u] = 0 /\ applied' = applied
    BY <2>1
  <2>2. CASE applied[u] > 0 /\ applied' = [applied EXCEPT ![u] = applied[u] - 1]
    BY <1>3, <2>2
  <2> QED
    BY <1>4, <2>1, <2>2
<1>6. \A o, m : Covers(o, m)' <=> Covers(o, m)
  BY DEF Covers
<1> SUFFICES ASSUME NEW v \in Users, NEW i \in 1 .. Len(queue'[v]),
                    i <= applied'[v], queue'[v][i].doc = "recent"
             PROVE  Covers(queue'[v][i].owner, queue'[v][i].msg)
  BY <1>6 DEF CommittedCovered
<1>7. CASE v # u
  BY <1>2, <1>5, <1>7 DEF CommittedCovered
<1>8. CASE v = u
  <2>1. i \in Nat \ {0} /\ i + 1 <= applied[u]
    BY <1>2, <1>5, <1>8
  <2>2. ~(i >= Len(queue[u]))
    BY <1>2, <1>3, <2>1
  <2>3. i + 1 \in 1 .. Len(queue[u]) /\ queue'[u][i] = queue[u][i + 1]
    BY <1>2, <1>8, <2>2
  <2> QED
    BY <1>8, <2>1, <2>3 DEF CommittedCovered
<1> QED
  BY <1>7, <1>8

LEMMA RecentWriteIs ==
    ASSUME NEW o, NEW m
    PROVE  /\ RecentWrite(o, m).doc = "recent"
           /\ RecentWrite(o, m).owner = o
           /\ RecentWrite(o, m).msg = m
BY DEF RecentWrite

(* A document of m is written for good by the acknowledgement of its write *)
(* and by nothing else.                                                    *)
LEMMA ListedByAnswer ==
    ASSUME CopiesInv, NEW u \in Users, Answered(u),
           NEW w, w = Head(queue[u]), NEW q \in Seq(Write),
           queue' = [queue EXCEPT ![u] = Tail(queue[u]) \o q],
           Follows(u, w, q), log' = log, cut' = cut,
           NEW m \in Message, NEW o \in {m.from, m.to}, Listed(o, m)'
    PROVE  \/ Listed(o, m)
           \/ w = RecentWrite(o, m) /\ applied[u] > 0 /\ m.from = u
<1>1. TypeOK /\ queue[u] # << >> /\ m.from \in Users
  BY MessageParts DEF Answered, CopiesInv
<1>2. /\ \A v \in Users : v # u => queue'[v] = queue[v]
      /\ Len(queue[u]) \in Nat \ {0}
      /\ 1 \in 1 .. Len(queue[u]) /\ w = queue[u][1]
      /\ \A i \in 2 .. Len(queue[u]) :
             i - 1 \in 1 .. Len(queue'[u]) /\ queue'[u][i - 1] = queue[u][i]
      /\ \A k \in 1 .. Len(q) :
             /\ Len(queue[u]) - 1 + k \in 1 .. Len(queue'[u])
             /\ queue'[u][Len(queue[u]) - 1 + k] = q[k]
  BY <1>1, QueuePopped
<1>3. /\ m \in log[m.from] /\ m \notin cut
      /\ m \notin awaiting'[m.from] /\ RecentWrite(o, m) \notin refused'
      /\ \A i \in 1 .. Len(queue'[m.from]) : queue'[m.from][i] # RecentWrite(o, m)
  BY DEF Listed
<1>4. \/ applied[u] > 0 /\ refused' = refused
      \/ refused' = refused \cup {w}
  BY DEF Answered
<1>5. RecentWrite(o, m) \notin refused
  BY <1>3, <1>4
<1>6. m \notin awaiting[m.from]
  <2> SUFFICES ASSUME m \in awaiting[m.from] PROVE FALSE
    OBVIOUS
  <2>1. awaiting \in [Users -> SUBSET Message]
    BY <1>1 DEF TypeOK
  <2>2. /\ q = <<RecentWrite(w.msg.from, w.msg), RecentWrite(w.msg.to, w.msg)>>
        /\ awaiting' = [awaiting EXCEPT ![u] = awaiting[u] \ {w.msg}]
    BY <1>3 DEF Follows
  <2>3. m.from = u /\ m = w.msg
    BY <1>1, <1>3, <2>1, <2>2
  <2>4. PICK k \in 1 .. Len(q) : q[k] = RecentWrite(o, m)
    <3>1. /\ 1 \in 1 .. Len(q) /\ q[1] = RecentWrite(m.from, m)
          /\ 2 \in 1 .. Len(q) /\ q[2] = RecentWrite(m.to, m)
      BY <2>2, <2>3
    <3> QED
      BY <3>1
  <2>5. PICK j : j = Len(queue[u]) - 1 + k
    OBVIOUS
  <2>6. j \in 1 .. Len(queue'[u]) /\ queue'[u][j] = q[k]
    BY <1>2, <2>5
  <2>7. queue'[u][j] # RecentWrite(o, m)
    BY <1>3, <2>3, <2>6
  <2> QED
    BY <2>4, <2>6, <2>7
<1>7. CASE \A i \in 1 .. Len(queue[m.from]) : queue[m.from][i] # RecentWrite(o, m)
  BY <1>3, <1>5, <1>6, <1>7 DEF Listed
<1>8. ASSUME NEW i \in 1 .. Len(queue[m.from]), queue[m.from][i] = RecentWrite(o, m)
      PROVE  w = RecentWrite(o, m) /\ applied[u] > 0 /\ m.from = u
  <2>1. m.from = u
    BY <1>1, <1>2, <1>3, <1>8
  <2>2. i = 1
    <3> SUFFICES ASSUME i # 1 PROVE FALSE
      OBVIOUS
    <3>1. i \in 2 .. Len(queue[u])
      BY <1>2, <1>8, <2>1
    <3>2. PICK j : j = i - 1
      OBVIOUS
    <3>3. j \in 1 .. Len(queue'[u]) /\ queue'[u][j] = queue[u][i]
      BY <1>2, <3>1, <3>2
    <3>4. queue'[u][j] # RecentWrite(o, m)
      BY <1>3, <2>1, <3>3
    <3> QED
      BY <1>8, <2>1, <3>3, <3>4
  <2>3. w = RecentWrite(o, m)
    BY <1>2, <1>8, <2>1, <2>2
  <2> QED
    BY <1>3, <1>4, <2>1, <2>3
<1> QED
  BY <1>7, <1>8

LEMMA PopKeepsListed ==
    ASSUME CopiesInv, RecentInv, NEW u \in Users, Answered(u),
           NEW q \in Seq(Write),
           queue' = [queue EXCEPT ![u] = Tail(queue[u]) \o q],
           Follows(u, Head(queue[u]), q), UNCHANGED <<log, recent, cut>>
    PROVE  ListedOlder' /\ ListedCovered'
<1>1. TypeOK /\ queue[u] # << >>
  BY DEF Answered, CopiesInv
<1>2. PICK w : w = Head(queue[u])
  OBVIOUS
<1>3. /\ \A v \in Users : v # u => queue'[v] = queue[v]
      /\ Len(queue[u]) \in Nat \ {0}
      /\ 1 \in 1 .. Len(queue[u]) /\ w = queue[u][1]
      /\ \A i \in 1 .. Len(queue'[u]) :
             /\ i \in Nat \ {0}
             /\ \/ i + 1 \in 1 .. Len(queue[u]) /\ queue'[u][i] = queue[u][i + 1]
                \/ \E k \in 1 .. Len(q) : queue'[u][i] = q[k]
  <2>1. /\ \A v \in Users : v # u => queue'[v] = queue[v]
        /\ Len(queue[u]) \in Nat \ {0}
        /\ 1 \in 1 .. Len(queue[u]) /\ w = queue[u][1]
    BY <1>1, <1>2, QueuePopped
  <2>2. \A i \in 1 .. Len(queue'[u]) :
             /\ i \in Nat \ {0}
             /\ \/ i + 1 \in 1 .. Len(queue[u]) /\ queue'[u][i] = queue[u][i + 1]
                \/ /\ i >= Len(queue[u])
                   /\ \E k \in 1 .. Len(q) :
                          queue'[u][i] = q[k] /\ i = Len(queue[u]) - 1 + k
    BY <1>1, QueuePopped
  <2> QED
    BY <2>1, <2>2
<1>4. w \in Write /\ Follows(u, w, q)
  BY <1>2, <1>3 DEF CopiesInv, TypeOK
<1>5. \A k \in 1 .. Len(q) : q[k].msg = w.msg /\ w.doc = "log"
  BY <1>4, FollowersAre
<1>6. \A o, m : Covers(o, m)' <=> Covers(o, m)
  BY DEF Covers
<1>7. ASSUME NEW m \in Message, NEW o \in {m.from, m.to}, Listed(o, m)'
      PROVE  \/ Listed(o, m)
             \/ w = RecentWrite(o, m) /\ applied[u] > 0 /\ m.from = u
  BY <1>2, <1>4, <1>7, ListedByAnswer
<1>8. ListedOlder'
  <2> SUFFICES ASSUME NEW m \in Message, NEW o \in {m.from, m.to}, Listed(o, m)',
                      NEW i \in 1 .. Len(queue'[m.from])
               PROVE  m.ts <= queue'[m.from][i].msg.ts
    BY DEF ListedOlder
  <2>0. m.from \in Users
    BY MessageParts
  <2>1. CASE Listed(o, m) /\ m.from # u
    BY <1>3, <2>0, <2>1 DEF RecentInv, ListedOlder
  <2>2. CASE Listed(o, m) /\ m.from = u
    <3>1. CASE i + 1 \in 1 .. Len(queue[u]) /\ queue'[u][i] = queue[u][i + 1]
      BY <2>2, <3>1 DEF RecentInv, ListedOlder
    <3>2. ASSUME NEW k \in 1 .. Len(q), queue'[u][i] = q[k]
          PROVE  m.ts <= queue'[m.from][i].msg.ts
      <4>1. queue'[u][i].msg = queue[u][1].msg
        BY <1>3, <1>5, <3>2
      <4>2. m.ts <= queue[u][1].msg.ts
        BY <1>3, <2>2 DEF RecentInv, ListedOlder
      <4> QED
        BY <2>2, <4>1, <4>2
    <3> QED
      BY <1>3, <2>2, <3>1, <3>2
  <2>3. CASE w = RecentWrite(o, m) /\ m.from = u
    <3>1. w.doc = "recent" /\ w.msg = m
      BY <2>3, RecentWriteIs
    <3>2. /\ i \in Nat \ {0} /\ i + 1 \in 1 .. Len(queue[u])
          /\ queue'[u][i] = queue[u][i + 1]
      BY <1>3, <1>5, <2>3, <3>1
    <3>3. queue[u][i + 1] \in Write /\ m.ts \in Nat
      BY <3>2, MessageParts DEF CopiesInv, TypeOK
    <3>4. queue[u][i + 1].msg.ts \in Nat
      BY <3>3, WriteParts, MessageParts
    <3>5. CASE queue[u][i + 1].doc = "recent"
      <4>1. 1 < i + 1
        BY <3>2
      <4>2. queue[u][1].msg.ts <= queue[u][i + 1].msg.ts
        BY <1>3, <3>1, <3>2, <3>5, <4>1 DEF RecentInv, RecentsSorted
      <4> QED
        BY <1>3, <2>3, <3>1, <3>2, <4>2
    <3>6. CASE queue[u][i + 1].doc = "log"
      <4>1. queue[u][1].msg.ts < queue[u][i + 1].msg.ts
        BY <1>3, <3>1, <3>2, <3>6 DEF RecentInv, RecentsOlder
      <4>2. m.ts < queue[u][i + 1].msg.ts
        BY <1>3, <3>1, <4>1
      <4>3. m.ts <= queue[u][i + 1].msg.ts
        BY <3>3, <3>4, <4>2
      <4> QED
        BY <2>3, <3>2, <4>3
    <3> QED
      BY <3>3, <3>5, <3>6, WriteParts
  <2> QED
    BY <1>7, <2>1, <2>2, <2>3
<1>9. ListedCovered'
  <2> SUFFICES ASSUME NEW m \in Message, NEW o \in {m.from, m.to}, Listed(o, m)'
               PROVE  Covers(o, m)
    BY <1>6 DEF ListedCovered
  <2>1. CASE Listed(o, m)
    BY <2>1 DEF RecentInv, ListedCovered
  <2>2. CASE w = RecentWrite(o, m) /\ applied[u] > 0
    <3>1. w.doc = "recent" /\ w.owner = o /\ w.msg = m
      BY <2>2, RecentWriteIs
    <3>2. 1 <= applied[u]
      BY <1>1, <2>2 DEF TypeOK
    <3> QED
      BY <1>3, <3>1, <3>2 DEF RecentInv, CommittedCovered
  <2> QED
    BY <1>7, <2>1, <2>2
<1> QED
  BY <1>8, <1>9

LEMMA WrittenKeepsRecent ==
    ASSUME DeliveryInv, RecentInv, NEW u \in Users, Written(u)
    PROVE  RecentInv'
<1>1. CopiesInv /\ TypeOK /\ SortedInv
  BY DEF DeliveryInv, CopiesInv
<1>2. /\ Answered(u) /\ UNCHANGED <<log, recent, lastTime, cut>>
      /\ queue[u] # << >>
      /\ \E q \in Seq(Write) :
             /\ queue' = [queue EXCEPT ![u] = Tail(queue[u]) \o q]
             /\ Follows(u, Head(queue[u]), q)
  BY <1>1, AnswerFollowed
<1>3. PICK q \in Seq(Write) :
          /\ queue' = [queue EXCEPT ![u] = Tail(queue[u]) \o q]
          /\ Follows(u, Head(queue[u]), q)
  BY <1>2
<1>4. /\ RecentsSorted /\ RecentsOlder /\ LogsAwaited /\ AwaitedQueued
      /\ CommittedCovered
  BY DEF RecentInv
<1>5. RecentsSorted' /\ RecentsOlder'
  BY <1>1, <1>2, <1>3, <1>4, PopKeepsRecentsSorted
<1>6. LogsAwaited' /\ AwaitedQueued'
  BY <1>1, <1>2, <1>3, <1>4, PopKeepsAwaited
<1>7. CommittedCovered'
  BY <1>1, <1>2, <1>3, <1>4, PopKeepsCommitted
<1>8. ListedOlder' /\ ListedCovered'
  BY <1>1, <1>2, <1>3, PopKeepsListed
<1> QED
  BY <1>5, <1>6, <1>7, <1>8 DEF RecentInv

-----------------------------------------------------------------------------
(* A commit of w leaves covered what is not newer than w.                  *)
LEMMA CommitKeepsCovered ==
    ASSUME CopiesInv, NEW u \in Users, Commit(u),
           NEW w, w = queue[u][applied[u] + 1],
           NEW m \in Message, NEW o \in {m.from, m.to},
           Covers(o, m), m.from = u => m.ts <= w.msg.ts
    PROVE  Covers(o, m)'
<1>1. w \in Write /\ w.msg \in Message /\ w.msg.from = u /\ w.owner \in Users
  BY CommitParts
<1>2. /\ o \in Users /\ Partner(o, m) \in Users
      /\ recent \in [Users -> [Users -> Message \cup {NoMsg}]]
  BY MessageParts DEF Partner, CopiesInv, TypeOK
<1>3. PICK p : p = Partner(w.owner, w.msg)
  OBVIOUS
<1>4. p \in Users
  BY <1>1, <1>3, MessageParts DEF Partner
<1>5. \/ recent' = recent
      \/ recent' = [recent EXCEPT ![w.owner][p] = w.msg]
  BY <1>3 DEF Commit
<1>6. \/ recent'[o][Partner(o, m)] = recent[o][Partner(o, m)]
      \/ recent'[o][Partner(o, m)] = w.msg
  <2>1. CASE recent' = recent
    BY <2>1
  <2>2. CASE recent' = [recent EXCEPT ![w.owner][p] = w.msg]
    BY <1>1, <1>2, <1>4, <2>2
  <2> QED
    BY <1>5, <2>1, <2>2
<1>7. CASE recent'[o][Partner(o, m)] = recent[o][Partner(o, m)]
  BY <1>7 DEF Covers
<1>8. CASE recent'[o][Partner(o, m)] = w.msg
  BY <1>1, <1>8, UploadAssumption DEF Covers
<1> QED
  BY <1>6, <1>7, <1>8

LEMMA CommitCoversItself ==
    ASSUME CopiesInv, NEW u \in Users, Commit(u),
           NEW w, w = queue[u][applied[u] + 1], w.doc = "recent"
    PROVE  Covers(w.owner, w.msg)'
<1>1. /\ w \in Write /\ w.msg \in Message /\ w.owner \in Users
  BY CommitParts
<1>2. PICK p : p = Partner(w.owner, w.msg)
  OBVIOUS
<1>3. p \in Users /\ w.msg.ts \in Nat
  BY <1>1, <1>2, MessageParts DEF Partner
<1>4. recent' = [recent EXCEPT ![w.owner][p] = w.msg]
  BY <1>2 DEF Commit
<1>5. recent'[w.owner][p] = w.msg
  BY <1>1, <1>3, <1>4 DEF CopiesInv, TypeOK
<1>6. w.msg # NoMsg /\ w.msg.ts <= w.msg.ts
  BY <1>1, <1>3, UploadAssumption
<1> QED
  BY <1>2, <1>5, <1>6 DEF Covers

LEMMA CommitKeepsRecent ==
    ASSUME DeliveryInv, RecentInv, NEW u \in Users, Commit(u)
    PROVE  RecentInv'
<1>0. CopiesInv /\ TypeOK /\ QueueBacked
  BY DEF DeliveryInv, CopiesInv
<1>1. PICK p, w : p = applied[u] + 1 /\ w = queue[u][p]
  OBVIOUS
<1>2. /\ p \in 1 .. Len(queue[u]) /\ w \in Write /\ w.msg \in Message
      /\ w.owner \in Users /\ w.msg.from = u
      /\ UNCHANGED <<queue, refused, lastTime, awaiting, cut>>
  BY <1>0, <1>1, CommitParts
<1>3. RecentsSorted' /\ RecentsOlder' /\ LogsAwaited' /\ AwaitedQueued'
  BY <1>2 DEF RecentInv, RecentsSorted, RecentsOlder, LogsAwaited, AwaitedQueued
<1>4. /\ applied' = [applied EXCEPT ![u] = applied[u] + 1]
      /\ applied \in [Users -> Nat]
  BY <1>0 DEF Commit, TypeOK
<1>5. ASSUME NEW m \in Message, NEW o \in {m.from, m.to}, Listed(o, m)'
      PROVE  Listed(o, m)
  <2> SUFFICES m \in log[m.from]
    BY <1>2, <1>5 DEF Listed
  <2>1. m.from \in Users /\ m \in log'[m.from]
    BY <1>5, MessageParts DEF Listed
  <2>2. \/ log' = log
        \/ w.doc = "log" /\ log' = [log EXCEPT ![w.owner] = log[w.owner] \cup {w.msg}]
    BY <1>1 DEF Commit
  <2>3. m \in log[m.from] \/ (w.doc = "log" /\ m = w.msg)
    <3>1. log \in [Users -> SUBSET Message]
      BY <1>0 DEF TypeOK
    <3>2. CASE log' = log
      BY <2>1, <3>2
    <3>3. CASE /\ w.doc = "log"
               /\ log' = [log EXCEPT ![w.owner] = log[w.owner] \cup {w.msg}]
      BY <2>1, <3>1, <3>3
    <3> QED
      BY <2>2, <3>2, <3>3
  <2>4. CASE w.doc = "log" /\ m = w.msg
    <3>1. m \in awaiting[u] \cup cut
      BY <1>1, <1>2, <2>4 DEF RecentInv, LogsAwaited
    <3>2. m \notin awaiting[m.from] /\ m \notin cut
      BY <1>2, <1>5 DEF Listed
    <3> QED
      BY <1>2, <2>4, <3>1, <3>2
  <2> QED
    BY <2>3, <2>4
<1>6. ListedOlder'
  BY <1>2, <1>5 DEF RecentInv, ListedOlder
<1>7. ListedCovered'
  <2> SUFFICES ASSUME NEW m \in Message, NEW o \in {m.from, m.to}, Listed(o, m)'
               PROVE  Covers(o, m)'
    BY DEF ListedCovered
  <2>1. Listed(o, m)
    BY <1>5
  <2>2. Covers(o, m)
    BY <2>1 DEF RecentInv, ListedCovered
  <2>3. m.from = u => m.ts <= w.msg.ts
    BY <1>1, <1>2, <2>1 DEF RecentInv, ListedOlder
  <2> QED
    BY <1>0, <1>1, <2>2, <2>3, CommitKeepsCovered
<1>8. CommittedCovered'
  <2> SUFFICES ASSUME NEW v \in Users, NEW i \in 1 .. Len(queue[v]),
                      NEW x, x = queue[v][i],
                      i <= applied'[v], x.doc = "recent"
               PROVE  Covers(x.owner, x.msg)'
    BY <1>2 DEF CommittedCovered, Covers
  <2>1. x = queue[v][i] /\ w = queue[u][applied[u] + 1]
    BY <1>1
  <2>2. x \in Write /\ WriteBacked(v, x)
    BY <1>0, <2>1 DEF TypeOK, QueueBacked
  <2>3. x.msg \in Message /\ x.msg.from = v /\ x.owner \in {x.msg.from, x.msg.to}
    BY <2>2, WriteParts DEF WriteBacked
  <2>4. CASE v = u /\ i = p
    <3>1. x = w /\ w.doc = "recent"
      BY <1>1, <2>1, <2>4
    <3>2. Covers(w.owner, w.msg)'
      BY <1>0, <2>1, <3>1, CommitCoversItself
    <3> QED
      BY <3>1, <3>2
  <2>5. CASE ~(v = u /\ i = p)
    <3>1. i <= applied[v] /\ i \in Nat /\ applied[u] \in Nat
      BY <1>1, <1>4, <2>5
    <3>2. Covers(x.owner, x.msg)
      BY <2>1, <3>1 DEF RecentInv, CommittedCovered
    <3>3. x.msg.from = u => x.msg.ts <= w.msg.ts
      <4> SUFFICES ASSUME v = u PROVE x.msg.ts <= w.msg.ts
        BY <2>3
      <4>1. i < p
        BY <1>1, <3>1
      <4>2. x.msg.ts \in Nat /\ w.msg.ts \in Nat
        BY <1>2, <2>3, MessageParts
      <4>3. CASE w.doc = "recent"
        BY <1>1, <1>2, <2>1, <4>1, <4>3 DEF RecentInv, RecentsSorted
      <4>4. CASE w.doc = "log"
        <5>1. x.msg.ts < w.msg.ts
          BY <1>1, <1>2, <2>1, <4>4 DEF RecentInv, RecentsOlder
        <5> QED
          BY <4>2, <5>1
      <4> QED
        BY <1>2, <4>3, <4>4, WriteParts
    <3> QED
      BY <1>0, <2>1, <2>3, <3>2, <3>3, CommitKeepsCovered
  <2> QED
    BY <2>4, <2>5
<1> QED
  BY <1>3, <1>6, <1>7, <1>8 DEF RecentInv

-----------------------------------------------------------------------------
(* A tap puts a newer message behind all that is queued.                   *)
LEMMA TapKeepsRecent ==
    ASSUME DeliveryInv, RecentInv, NEW u \in Users, NEW ts \in 1 .. MaxTime[u],
           SendTapped(u, ts)
    PROVE  RecentInv'
<1>0. CopiesInv /\ TypeOK /\ QueueBacked /\ SentInTime
  BY DEF DeliveryInv, CopiesInv, SentInv
<1>1. PICK x \in Message :
          /\ x.from = u
          /\ lastTime[u] < x.ts
          /\ awaiting' = [awaiting EXCEPT ![u] = awaiting[u] \cup {x}]
          /\ queue' = [queue EXCEPT ![u] = queue[u] \o <<FirstOf(x)>>]
          /\ UNCHANGED <<log, recent, refused, cut>>
  BY <1>0, TapParts
<1>2. FirstOf(x) \in Write /\ FirstOf(x).doc = "log" /\ FirstOf(x).msg = x
  BY <1>1, WriteTypes DEF FirstOf, LogWrite
<1>3. /\ \A v \in Users : v # u => queue'[v] = queue[v]
      /\ Len(queue[u]) \in Nat
      /\ \A i \in 1 .. Len(queue'[u]) :
             /\ i \in Nat
             /\ \/ i \in 1 .. Len(queue[u]) /\ queue'[u][i] = queue[u][i]
                \/ i = Len(queue[u]) + 1 /\ queue'[u][i] = FirstOf(x)
  BY <1>0, <1>1, <1>2, QueuePushed
<1>4. \A i \in 1 .. Len(queue[u]) :
          i \in 1 .. Len(queue'[u]) /\ queue'[u][i] = queue[u][i]
  <2>1. queue[u] \in Seq(Write) /\ queue'[u] = queue[u] \o <<FirstOf(x)>>
    BY <1>0, <1>1 DEF TypeOK
  <2> QED
    BY <1>3, <2>1
<1>5. /\ awaiting \in [Users -> SUBSET Message]
      /\ awaiting'[u] = awaiting[u] \cup {x}
      /\ \A v \in Users : v # u => awaiting'[v] = awaiting[v]
  BY <1>0, <1>1 DEF TypeOK
<1>6. applied' = applied /\ applied[u] \in Nat /\ applied[u] <= Len(queue[u])
  BY <1>0 DEF SendTapped, TypeOK
<1>7. \A n \in SentMessages : n.from = u => n.ts < x.ts
  <2> SUFFICES ASSUME NEW n \in SentMessages, n.from = u PROVE n.ts < x.ts
    OBVIOUS
  <2>1. n \in Message /\ n.ts <= lastTime[u]
    BY <1>0 DEF SentInTime
  <2>2. n.ts \in Nat /\ x.ts \in Nat /\ lastTime[u] \in Nat
    BY <1>0, <2>1, MessageParts DEF TypeOK
  <2> QED
    BY <1>1, <2>1, <2>2
<1>8. \A i \in 1 .. Len(queue[u]) : queue[u][i].msg.ts < x.ts
  <2> SUFFICES ASSUME NEW i \in 1 .. Len(queue[u]) PROVE queue[u][i].msg.ts < x.ts
    OBVIOUS
  <2>1. queue[u][i].msg \in SentMessages
    BY SentIs
  <2>2. queue[u][i].msg.from = u
    BY <1>0 DEF QueueBacked, WriteBacked
  <2> QED
    BY <1>7, <2>1, <2>2
<1>9. RecentsSorted'
  <2> SUFFICES ASSUME NEW v \in Users,
                      NEW i \in 1 .. Len(queue'[v]), NEW j \in 1 .. Len(queue'[v]),
                      i < j, queue'[v][i].doc = "recent", queue'[v][j].doc = "recent"
               PROVE  queue'[v][i].msg.ts <= queue'[v][j].msg.ts
    BY DEF RecentsSorted
  <2>1. CASE v # u
    BY <1>3, <2>1 DEF RecentInv, RecentsSorted
  <2>2. CASE v = u
    <3>1. /\ i \in 1 .. Len(queue[u]) /\ queue'[u][i] = queue[u][i]
          /\ j \in 1 .. Len(queue[u]) /\ queue'[u][j] = queue[u][j]
      BY <1>2, <1>3, <2>2
    <3> QED
      BY <2>2, <3>1 DEF RecentInv, RecentsSorted
  <2> QED
    BY <2>1, <2>2
<1>10. RecentsOlder'
  <2> SUFFICES ASSUME NEW v \in Users,
                      NEW i \in 1 .. Len(queue'[v]), NEW j \in 1 .. Len(queue'[v]),
                      queue'[v][i].doc = "recent", queue'[v][j].doc = "log"
               PROVE  queue'[v][i].msg.ts < queue'[v][j].msg.ts
    BY DEF RecentsOlder
  <2>1. CASE v # u
    BY <1>3, <2>1 DEF RecentInv, RecentsOlder
  <2>2. CASE v = u
    <3>1. i \in 1 .. Len(queue[u]) /\ queue'[u][i] = queue[u][i]
      BY <1>2, <1>3, <2>2
    <3>2. CASE j \in 1 .. Len(queue[u]) /\ queue'[u][j] = queue[u][j]
      BY <2>2, <3>1, <3>2 DEF RecentInv, RecentsOlder
    <3>3. CASE queue'[u][j] = FirstOf(x)
      BY <1>2, <1>8, <2>2, <3>1, <3>3
    <3> QED
      BY <1>3, <2>2, <3>2, <3>3
  <2> QED
    BY <2>1, <2>2
<1>11. LogsAwaited'
  <2> SUFFICES ASSUME NEW v \in Users, NEW i \in 1 .. Len(queue'[v]),
                      queue'[v][i].doc = "log"
               PROVE  queue'[v][i].msg \in awaiting'[v] \cup cut
    BY <1>1 DEF LogsAwaited
  <2>1. CASE v # u
    BY <1>3, <1>5, <2>1 DEF RecentInv, LogsAwaited
  <2>2. CASE v = u /\ i \in 1 .. Len(queue[u]) /\ queue'[u][i] = queue[u][i]
    BY <1>5, <2>2 DEF RecentInv, LogsAwaited
  <2>3. CASE v = u /\ queue'[u][i] = FirstOf(x)
    BY <1>2, <1>5, <2>3
  <2> QED
    BY <1>3, <2>1, <2>2, <2>3
<1>12. AwaitedQueued'
  <2> SUFFICES ASSUME NEW v \in Users, NEW m \in awaiting'[v]
               PROVE  \E i \in 1 .. Len(queue'[v]) :
                          queue'[v][i].doc = "log" /\ queue'[v][i].msg = m
    BY DEF AwaitedQueued
  <2>1. CASE v # u
    BY <1>3, <1>5, <2>1 DEF RecentInv, AwaitedQueued
  <2>2. CASE v = u /\ m \in awaiting[u]
    <3>1. PICK i \in 1 .. Len(queue[u]) :
              queue[u][i].doc = "log" /\ queue[u][i].msg = m
      BY <2>2 DEF RecentInv, AwaitedQueued
    <3> QED
      BY <1>4, <2>2, <3>1
  <2>3. CASE v = u /\ m = x
    <3>1. queue[u] \in Seq(Write) /\ queue'[u] = queue[u] \o <<FirstOf(x)>>
      BY <1>0, <1>1 DEF TypeOK
    <3>2. PICK i : i = Len(queue[u]) + 1
      OBVIOUS
    <3>3. i \in 1 .. Len(queue'[u]) /\ queue'[u][i] = FirstOf(x)
      BY <3>1, <3>2
    <3> QED
      BY <1>2, <2>3, <3>3
  <2> QED
    BY <1>5, <2>1, <2>2, <2>3
<1>13. \A o, m : Covers(o, m)' <=> Covers(o, m)
  BY <1>1 DEF Covers
<1>14. CommittedCovered'
  <2> SUFFICES ASSUME NEW v \in Users, NEW i \in 1 .. Len(queue'[v]),
                      i <= applied[v], queue'[v][i].doc = "recent"
               PROVE  Covers(queue'[v][i].owner, queue'[v][i].msg)
    BY <1>6, <1>13 DEF CommittedCovered
  <2>1. i \in 1 .. Len(queue[v]) /\ queue'[v][i] = queue[v][i]
    BY <1>3, <1>6
  <2> QED
    BY <2>1 DEF RecentInv, CommittedCovered
<1>15. ASSUME NEW m \in Message, NEW o \in {m.from, m.to}, Listed(o, m)'
       PROVE  Listed(o, m) /\ m \in log[m.from] /\ m.from \in Users
  <2>1. m.from \in Users
    BY MessageParts
  <2>2. m \notin awaiting[m.from]
    BY <1>5, <1>15, <2>1 DEF Listed
  <2>3. \A i \in 1 .. Len(queue[m.from]) : queue[m.from][i] # RecentWrite(o, m)
    BY <1>3, <1>4, <1>15, <2>1 DEF Listed
  <2> QED
    BY <1>1, <1>15, <2>1, <2>2, <2>3 DEF Listed
<1>16. ListedCovered'
  BY <1>13, <1>15 DEF RecentInv, ListedCovered
<1>17. ListedOlder'
  <2> SUFFICES ASSUME NEW m \in Message, NEW o \in {m.from, m.to}, Listed(o, m)',
                      NEW i \in 1 .. Len(queue'[m.from])
               PROVE  m.ts <= queue'[m.from][i].msg.ts
    BY DEF ListedOlder
  <2>1. Listed(o, m) /\ m \in log[m.from] /\ m.from \in Users
    BY <1>15
  <2>2. CASE i \in 1 .. Len(queue[m.from]) /\ queue'[m.from][i] = queue[m.from][i]
    BY <2>1, <2>2 DEF RecentInv, ListedOlder
  <2>3. CASE m.from = u /\ queue'[u][i] = FirstOf(x)
    <3>1. m \in SentMessages
      BY <2>1, SentIs
    <3>2. m.ts < x.ts /\ m.ts \in Nat /\ x.ts \in Nat
      BY <1>7, <2>3, <3>1, MessageParts
    <3> QED
      BY <1>2, <2>3, <3>2
  <2> QED
    BY <1>3, <2>1, <2>2, <2>3
<1> QED
  BY <1>9, <1>10, <1>11, <1>12, <1>14, <1>16, <1>17 DEF RecentInv

-----------------------------------------------------------------------------
(* Broken streams and crashes: nothing is committed ahead any more, and    *)
(* what is no longer waited for is cut off.                                *)
LEMMA RestartKeepsRecent ==
    ASSUME TypeOK, RecentInv, NEW u \in Users,
           UNCHANGED <<queue, log, recent, refused>>,
           applied' \in {applied, [applied EXCEPT ![u] = 0]},
           \/ UNCHANGED <<awaiting, cut>>
           \/ /\ awaiting' = [awaiting EXCEPT ![u] = {}]
              /\ cut' = cut \cup awaiting[u]
    PROVE  RecentInv'
<1>1. awaiting \in [Users -> SUBSET Message] /\ applied \in [Users -> Nat]
  BY DEF TypeOK
<1>2. RecentsSorted' /\ RecentsOlder'
  BY DEF RecentInv, RecentsSorted, RecentsOlder
<1>3. /\ \A v \in Users : awaiting'[v] \subseteq awaiting[v]
      /\ \A v \in Users : awaiting[v] \cup cut \subseteq awaiting'[v] \cup cut'
      /\ cut \subseteq cut'
  <2>1. CASE UNCHANGED <<awaiting, cut>>
    BY <2>1
  <2>2. CASE /\ awaiting' = [awaiting EXCEPT ![u] = {}]
             /\ cut' = cut \cup awaiting[u]
    BY <1>1, <2>2
  <2> QED
    BY <2>1, <2>2
<1>4. LogsAwaited' /\ AwaitedQueued'
  BY <1>3 DEF RecentInv, LogsAwaited, AwaitedQueued
<1>5. \A o, m : Covers(o, m)' <=> Covers(o, m)
  BY DEF Covers
<1>6. \A v \in Users : \A i \in Nat \ {0} : i <= applied'[v] => i <= applied[v]
  BY <1>1
<1>7. CommittedCovered'
  <2> SUFFICES ASSUME NEW v \in Users, NEW i \in 1 .. Len(queue[v]),
                      i <= applied'[v], queue[v][i].doc = "recent"
               PROVE  Covers(queue[v][i].owner, queue[v][i].msg)
    BY <1>5 DEF CommittedCovered
  <2>1. i \in Nat \ {0}
    OBVIOUS
  <2> QED
    BY <1>6, <2>1 DEF RecentInv, CommittedCovered
<1>8. ASSUME NEW m \in Message, NEW o \in {m.from, m.to}, Listed(o, m)'
      PROVE  Listed(o, m)
  <2>1. m.from \in Users /\ m \notin awaiting'[m.from] \cup cut'
    BY <1>8, MessageParts DEF Listed
  <2>2. m \notin awaiting[m.from] \cup cut
    BY <1>3, <2>1
  <2> QED
    BY <1>8, <2>2 DEF Listed
<1>9. ListedOlder' /\ ListedCovered'
  BY <1>5, <1>8 DEF RecentInv, ListedOlder, ListedCovered
<1> QED
  BY <1>2, <1>4, <1>7, <1>9 DEF RecentInv

LEMMA RecentInit == Init => RecentInv
<1> SUFFICES ASSUME Init PROVE RecentInv
  OBVIOUS
<1>1. \A u \in Users : \A i \in 1 .. Len(queue[u]) : FALSE
  <2>1. \A u \in Users : queue[u] = << >>
    BY DEF Init
  <2>2. \A u \in Users : Len(queue[u]) = 0
    BY <2>1
  <2> QED
    BY <2>2
<1>2. \A m \in Message : \A o : ~Listed(o, m)
  BY MessageParts DEF Init, Listed
<1> QED
  BY <1>1, <1>2 DEF Init, RecentInv, RecentsSorted, RecentsOlder, LogsAwaited,
     AwaitedQueued, CommittedCovered, ListedOlder, ListedCovered

LEMMA RecentNext == DeliveryInv /\ RecentInv /\ [Next]_vars => RecentInv'
<1> SUFFICES ASSUME DeliveryInv, RecentInv, [Next]_vars PROVE RecentInv'
  OBVIOUS
<1>0. TypeOK
  BY DEF DeliveryInv, CopiesInv
<1>1. ASSUME NEW u \in Users,
             UNCHANGED <<queue, applied, log, recent, refused, awaiting, cut>>
      PROVE  RecentInv'
  BY <1>0, <1>1, RestartKeepsRecent
<1>2. ASSUME NEW u \in Users, NEW v \in Users, OpenChat(u, v) PROVE RecentInv'
  BY <1>1, <1>2 DEF OpenChat, client, server, history
<1>3. ASSUME NEW u \in Users, LeaveChat(u) PROVE RecentInv'
  BY <1>1, <1>3 DEF LeaveChat, client, server, history
<1>4. ASSUME NEW u \in Users, NEW text \in Texts \cup {NoText}, Type(u, text)
      PROVE  RecentInv'
  BY <1>1, <1>4 DEF Type, client, server, history
<1>5. ASSUME NEW u \in Users, TextArrives(u) PROVE RecentInv'
  BY <1>1, <1>5 DEF TextArrives, client, server, history
<1>6. ASSUME NEW u \in Users, NEW ts \in 1 .. MaxTime[u], SendTapped(u, ts)
      PROVE  RecentInv'
  BY <1>6, TapKeepsRecent
<1>7. ASSUME NEW u \in Users, Commit(u) PROVE RecentInv'
  BY <1>7, CommitKeepsRecent
<1>8. ASSUME NEW u \in Users, StreamReset(u) PROVE RecentInv'
  <2>1. /\ UNCHANGED <<queue, log, recent, refused, awaiting, cut>>
        /\ applied' = [applied EXCEPT ![u] = 0]
    BY <1>8 DEF StreamReset, server, history
  <2> QED
    BY <1>0, <2>1, RestartKeepsRecent
<1>9. ASSUME NEW u \in Users, Written(u) PROVE RecentInv'
  BY <1>9, WrittenKeepsRecent
<1>10. ASSUME NEW u \in Users, Crash(u) PROVE RecentInv'
  <2>1. queue' = queue
    BY <1>0, <1>10 DEF Crash, QueueOnDisk, TypeOK
  <2>2. /\ UNCHANGED <<log, recent, refused>>
        /\ applied' = [applied EXCEPT ![u] = 0]
        /\ awaiting' = [awaiting EXCEPT ![u] = {}]
        /\ cut' = cut \cup awaiting[u]
    BY <1>10 DEF Crash, server
  <2> QED
    BY <1>0, <2>1, <2>2, RestartKeepsRecent
<1>11. ASSUME UNCHANGED vars PROVE RecentInv'
  <2>1. UNCHANGED <<queue, applied, log, recent, refused, awaiting, cut>>
    BY <1>11 DEF vars, client, server, history
  <2> QED
    BY <2>1 DEF RecentInv, RecentsSorted, RecentsOlder, LogsAwaited,
       AwaitedQueued, CommittedCovered, ListedOlder, ListedCovered, Covers, Listed
<1> QED
  BY <1>2, <1>3, <1>4, <1>5, <1>6, <1>7, <1>8, <1>9, <1>10, <1>11
  DEF Next, Written

(* When all is written each conversation lists a message, and none that is *)
(* older than another of its sender that came to both logs.                *)
THEOREM ListsTheLatest == Spec => []RecentIsLatest
<1>1. ASSUME DeliveryInv, RecentInv PROVE RecentIsLatest
  <2> SUFFICES ASSUME NEW u \in Users, NEW v \in Users,
                      NEW m \in log[u] \cap log[v],
                      Drained(u, v), {m.from, m.to} = {u, v},
                      m \notin cut, RecentWrite(u, m) \notin refused
               PROVE  /\ recent[u][v] # NoMsg
                      /\ recent[u][v].from = m.from => m.ts <= recent[u][v].ts
    BY DEF RecentIsLatest
  <2>1. /\ m \in Message /\ m.from \in Users /\ m.from # m.to
        /\ m.from \in {u, v} /\ u \in {m.from, m.to}
    BY <1>1, MessageParts DEF DeliveryInv, CopiesInv, TypeOK
  <2>2. m \in log[m.from] /\ Partner(u, m) = v
    BY <2>1 DEF Partner
  <2>3. queue[m.from] = << >>
    BY <2>1 DEF Drained
  <2>4. \A i \in 1 .. Len(queue[m.from]) : FALSE
    BY <2>3
  <2>5. m \notin awaiting[m.from]
    BY <1>1, <2>1, <2>4 DEF RecentInv, AwaitedQueued
  <2>6. Listed(u, m)
    BY <2>2, <2>4, <2>5 DEF Listed
  <2>7. Covers(u, m)
    BY <1>1, <2>1, <2>6 DEF RecentInv, ListedCovered
  <2> QED
    BY <2>2, <2>7 DEF Covers
<1> QED
  BY DeliveryInit, DeliveryNext, RecentInit, RecentNext, <1>1, PTL DEF Spec

-----------------------------------------------------------------------------
(* Why both sides of a chat list the same in the end.                      *)
(* The chat of u and v is calm: never were its recent documents under way  *)
(* from both sides at once, and none was refused.                          *)
Calm(u, v) ==
    /\ u # v /\ {u, v} \notin raced
    /\ \A w \in refused : w.doc = "recent" => {w.msg.from, w.msg.to} # {u, v}

InChat(u, v, w) == w.doc = "recent" /\ {w.msg.from, w.msg.to} = {u, v}

RecentPair(u, v, m) == <<RecentWrite(u, m), RecentWrite(v, m)>>

HasChat(u, v, q) == \E i \in 1 .. Len(q) : InChat(u, v, q[i])

(* Of the first n writes of q, the last into a's document is the one that  *)
(* the document x shows.                                                   *)
Stays(u, v, a, q, n, x) ==
    \A i \in 1 .. Len(q) :
        /\ i <= n /\ InChat(u, v, q[i]) /\ q[i].owner = a
        /\ \A j \in 1 .. Len(q) :
               i < j /\ j <= n /\ InChat(u, v, q[j]) => q[j].owner # a
        => x = q[i].msg

(* The recent documents in u's queue q end with v's; u's own is right      *)
(* before it, or written for good and the one that x shows.                *)
PairEnds(u, v, q, x) ==
    \A i \in 1 .. Len(q) :
        /\ InChat(u, v, q[i])
        /\ \A j \in 1 .. Len(q) : i < j => ~InChat(u, v, q[j])
        => /\ q[i].owner = v
           /\ \/ /\ i > 1 /\ InChat(u, v, q[i - 1])
                 /\ q[i - 1].owner = u /\ q[i - 1].msg = q[i].msg
              \/ i = 1 /\ x = q[1].msg

OneSided ==
    \A u, v \in Users :
        Calm(u, v) /\ HasChat(u, v, queue[u]) => ~HasChat(v, u, queue[v])

CommittedStays ==
    \A u, v \in Users : Calm(u, v) =>
        /\ Stays(u, v, u, queue[u], applied[u], recent[u][v])
        /\ Stays(u, v, v, queue[u], applied[u], recent[v][u])

PairsEnd ==
    \A u, v \in Users : Calm(u, v) => PairEnds(u, v, queue[u], recent[u][v])

WrittenAgree ==
    \A u, v \in Users :
        Calm(u, v) /\ ~HasChat(u, v, queue[u]) /\ ~HasChat(v, u, queue[v]) =>
            recent[u][v] = recent[v][u]

AgreeInv == OneSided /\ CommittedStays /\ PairsEnd /\ WrittenAgree

LEMMA ChatParts ==
    ASSUME NEW u \in Users, NEW v \in Users,
           NEW w \in Write, WriteBacked(u, w), InChat(u, v, w)
    PROVE  /\ w.msg \in Message /\ w.doc = "recent"
           /\ w.msg.from = u /\ w.msg.to = v /\ u # v
           /\ w.owner \in {u, v}
           /\ w.owner = u => Partner(w.owner, w.msg) = v
           /\ w.owner = v => Partner(w.owner, w.msg) = u
<1>1. w.msg \in Message
  BY WriteParts
<1>2. w.msg.from = u /\ w.msg.from # w.msg.to /\ w.owner \in {w.msg.from, w.msg.to}
  BY <1>1, MessageParts DEF WriteBacked
<1>3. w.msg.to = v
  BY <1>2 DEF InChat
<1> QED
  BY <1>1, <1>2, <1>3 DEF InChat, Partner

LEMMA WritingIs ==
    \A u, v : WritingRecents(u, v) <=> HasChat(u, v, queue[u])
BY DEF WritingRecents, HasChat, InChat

(* The chat of u and v is the chat of v and u.                             *)
LEMMA SameChat ==
    ASSUME NEW u, NEW v
    PROVE  /\ \A w : InChat(u, v, w) <=> InChat(v, u, w)
           /\ \A q : HasChat(u, v, q) <=> HasChat(v, u, q)
           /\ Calm(u, v) <=> Calm(v, u)
           /\ Calm(u, v)' <=> Calm(v, u)'
<1>1. {u, v} = {v, u}
  OBVIOUS
<1>2. \A w : InChat(u, v, w) <=> InChat(v, u, w)
  BY <1>1 DEF InChat
<1> QED
  BY <1>1, <1>2 DEF HasChat, Calm

LEMMA CalmBefore ==
    ASSUME raced \subseteq raced', refused \subseteq refused',
           NEW u, NEW v, Calm(u, v)'
    PROVE  Calm(u, v)
BY DEF Calm

(* Whose recent documents follow an answer.                                *)
LEMMA FollowersInChat ==
    ASSUME NEW u \in Users, NEW w \in Write, w.msg.from = u,
           NEW q, Follows(u, w, q), NEW v \in Users
    PROVE  /\ raced \subseteq raced'
           /\ \/ ~HasChat(u, v, q)
              \/ /\ u # v /\ {w.msg.from, w.msg.to} = {u, v}
                 /\ q = RecentPair(u, v, w.msg)
                 /\ {u, v} \notin raced' => ~HasChat(v, u, queue[v])
<1>1. w.msg \in Message /\ w.msg.to # u
  BY WriteParts
<1>2. CASE q = <<LogWrite(w.msg.to, w.msg)>> /\ raced' = raced
  <2>1. \A k \in 1 .. Len(q) : q[k].doc = "log"
    BY <1>2 DEF LogWrite
  <2> QED
    BY <1>2, <2>1 DEF InChat, HasChat
<1>3. CASE /\ IsSecond(u, w)
           /\ q = <<RecentWrite(w.msg.from, w.msg), RecentWrite(w.msg.to, w.msg)>>
           /\ raced' = IF WritingRecents(w.msg.to, w.msg.from)
                       THEN raced \cup {{w.msg.from, w.msg.to}}
                       ELSE raced
  <2>1. CASE w.msg.to = v
    BY <1>1, <1>3, <2>1, WritingIs DEF RecentPair
  <2>2. CASE w.msg.to # v
    <3>1. \A k \in 1 .. Len(q) : q[k].msg = w.msg
      BY <1>3 DEF RecentWrite
    <3>2. {w.msg.from, w.msg.to} # {u, v}
      BY <1>1, <2>2
    <3> QED
      BY <1>3, <3>1, <3>2 DEF InChat, HasChat
  <2> QED
    BY <2>1, <2>2
<1>4. CASE q = << >> /\ raced' = raced
  BY <1>4 DEF HasChat
<1> QED
  BY <1>2, <1>3, <1>4 DEF Follows

-----------------------------------------------------------------------------
(* What an answer makes of a queue: t loses its front and q is put behind. *)
LEMMA PoppedList ==
    ASSUME NEW t \in Seq(Write), t # << >>, NEW q \in Seq(Write),
           NEW r, r = Tail(t) \o q
    PROVE  /\ r \in Seq(Write) /\ Len(t) \in Nat \ {0} /\ Len(q) \in Nat
           /\ Len(r) = Len(t) - 1 + Len(q)
           /\ \A i \in 1 .. Len(r) :
                  \/ i + 1 \in 1 .. Len(t) /\ r[i] = t[i + 1]
                  \/ i - (Len(t) - 1) \in 1 .. Len(q) /\ r[i] = q[i - (Len(t) - 1)]
           /\ \A j \in 2 .. Len(t) : j - 1 \in 1 .. Len(r) /\ r[j - 1] = t[j]
<1>1. PICK p : p = Tail(t)
  OBVIOUS
<1>2. /\ Len(t) \in Nat \ {0} /\ p \in Seq(Write) /\ Len(p) = Len(t) - 1
      /\ \A i \in 1 .. Len(p) : p[i] = t[i + 1]
  BY <1>1, FrontOfQueue
<1>3. /\ Len(q) \in Nat /\ r \in Seq(Write) /\ Len(r) = Len(p) + Len(q)
      /\ \A i \in 1 .. Len(p) : r[i] = p[i]
      /\ \A i \in Len(p) + 1 .. Len(p) + Len(q) : r[i] = q[i - Len(p)]
  BY <1>1, <1>2
<1>4. ASSUME NEW i \in 1 .. Len(r)
      PROVE  \/ i + 1 \in 1 .. Len(t) /\ r[i] = t[i + 1]
             \/ i - (Len(t) - 1) \in 1 .. Len(q) /\ r[i] = q[i - (Len(t) - 1)]
  <2>1. CASE i <= Len(p)
    BY <1>2, <1>3, <2>1
  <2>2. CASE ~(i <= Len(p))
    <3>1. i \in Len(p) + 1 .. Len(p) + Len(q) /\ i - Len(p) \in 1 .. Len(q)
      BY <1>2, <1>3, <2>2
    <3> QED
      BY <1>2, <1>3, <3>1
  <2> QED
    BY <2>1, <2>2
<1>5. ASSUME NEW j \in 2 .. Len(t)
      PROVE  j - 1 \in 1 .. Len(r) /\ r[j - 1] = t[j]
  <2>1. j - 1 \in 1 .. Len(p) /\ j - 1 + 1 = j
    BY <1>2
  <2>2. p[j - 1] = t[j - 1 + 1]
    BY <1>2, <2>1
  <2> QED
    BY <1>2, <1>3, <2>1, <2>2
<1> QED
  BY <1>2, <1>3, <1>4, <1>5

(* What was committed of it stays.                                         *)
LEMMA PopKeepsStays ==
    ASSUME NEW t \in Seq(Write), t # << >>, NEW q \in Seq(Write),
           NEW r, r = Tail(t) \o q,
           NEW n \in Nat, n <= Len(t), NEW k,
           \/ n > 0 /\ k = n - 1
           \/ n = 0 /\ k = 0,
           NEW u, NEW v, NEW a, NEW x, Stays(u, v, a, t, n, x)
    PROVE  Stays(u, v, a, r, k, x)
<1> SUFFICES ASSUME NEW i \in 1 .. Len(r),
                    i <= k, InChat(u, v, r[i]), r[i].owner = a,
                    \A j \in 1 .. Len(r) :
                        i < j /\ j <= k /\ InChat(u, v, r[j]) => r[j].owner # a
             PROVE  x = r[i].msg
  BY DEF Stays
<1>1. /\ Len(t) \in Nat \ {0}
      /\ \/ i + 1 \in 1 .. Len(t) /\ r[i] = t[i + 1]
         \/ i - (Len(t) - 1) \in 1 .. Len(q)
      /\ \A j \in 2 .. Len(t) : j - 1 \in 1 .. Len(r) /\ r[j - 1] = t[j]
  BY PoppedList
<1>2. i \in Nat /\ i >= 1 /\ n > 0 /\ k = n - 1 /\ i + 1 <= n
  OBVIOUS
<1>3. i + 1 \in 1 .. Len(t) /\ r[i] = t[i + 1]
  BY <1>1, <1>2
<1>4. PICK p : p = i + 1
  OBVIOUS
<1>5. ASSUME NEW j \in 1 .. Len(t), p < j, j <= n, InChat(u, v, t[j])
      PROVE  t[j].owner # a
  <2>1. j \in 2 .. Len(t) /\ i < j - 1 /\ j - 1 <= k
    BY <1>2, <1>3, <1>4, <1>5
  <2>2. j - 1 \in 1 .. Len(r) /\ r[j - 1] = t[j]
    BY <1>1, <2>1
  <2> QED
    BY <1>5, <2>1, <2>2
<1>6. p \in 1 .. Len(t) /\ p <= n /\ InChat(u, v, t[p]) /\ t[p].owner = a
  BY <1>2, <1>3, <1>4
<1>7. x = t[p].msg
  BY <1>5, <1>6 DEF Stays
<1> QED
  BY <1>3, <1>4, <1>7

(* The documents of a chat still end in a pair: the front one was          *)
(* committed, and a new pair is put behind all others.                     *)
LEMMA PopKeepsPairs ==
    ASSUME NEW t \in Seq(Write), t # << >>, NEW q \in Seq(Write),
           NEW r, r = Tail(t) \o q, NEW n \in Nat,
           NEW u, NEW v, u # v, NEW x,
           InChat(u, v, t[1]) => n > 0,
           Stays(u, v, u, t, n, x), PairEnds(u, v, t, x), ~HasChat(u, v, q)
    PROVE  PairEnds(u, v, r, x)
<1> SUFFICES ASSUME NEW i \in 1 .. Len(r), InChat(u, v, r[i]),
                    \A j \in 1 .. Len(r) : i < j => ~InChat(u, v, r[j])
             PROVE  /\ r[i].owner = v
                    /\ \/ /\ i > 1 /\ InChat(u, v, r[i - 1])
                          /\ r[i - 1].owner = u /\ r[i - 1].msg = r[i].msg
                       \/ i = 1 /\ x = r[1].msg
  BY DEF PairEnds
<1>1. /\ Len(t) \in Nat \ {0}
      /\ \/ i + 1 \in 1 .. Len(t) /\ r[i] = t[i + 1]
         \/ i - (Len(t) - 1) \in 1 .. Len(q) /\ r[i] = q[i - (Len(t) - 1)]
      /\ \A j \in 2 .. Len(t) : j - 1 \in 1 .. Len(r) /\ r[j - 1] = t[j]
  BY PoppedList
<1>2. i + 1 \in 1 .. Len(t) /\ r[i] = t[i + 1]
  BY <1>1 DEF HasChat
<1>3. PICK p : p = i + 1
  OBVIOUS
<1>4. p \in 1 .. Len(t) /\ p > 1 /\ p - 1 = i /\ r[i] = t[p]
  BY <1>2, <1>3
<1>5. ASSUME NEW j \in 1 .. Len(t), p < j PROVE ~InChat(u, v, t[j])
  <2>1. j \in 2 .. Len(t) /\ i < j - 1
    BY <1>1, <1>4, <1>5
  <2>2. j - 1 \in 1 .. Len(r) /\ r[j - 1] = t[j]
    BY <1>1, <2>1
  <2> QED
    BY <2>1, <2>2
<1>6. /\ t[p].owner = v
      /\ \/ /\ p > 1 /\ InChat(u, v, t[p - 1])
            /\ t[p - 1].owner = u /\ t[p - 1].msg = t[p].msg
         \/ p = 1 /\ x = t[1].msg
  BY <1>4, <1>5 DEF PairEnds
<1>7. /\ t[p].owner = v /\ InChat(u, v, t[i])
      /\ t[i].owner = u /\ t[i].msg = t[p].msg
  BY <1>4, <1>6
<1>8. CASE i # 1
  <2>1. i \in 2 .. Len(t) /\ i > 1
    BY <1>1, <1>4, <1>8
  <2>2. r[i - 1] = t[i]
    BY <1>1, <2>1
  <2> QED
    BY <1>4, <1>7, <2>1, <2>2
<1>9. CASE i = 1
  <2>1. 1 \in 1 .. Len(t) /\ 1 <= n /\ p = 2
    BY <1>1, <1>3, <1>7, <1>9
  <2>2. ASSUME NEW j \in 1 .. Len(t), 1 < j, j <= n, InChat(u, v, t[j])
        PROVE  t[j].owner # u
    <3>1. ~(p < j)
      BY <1>5, <2>2
    <3>2. j = p
      BY <2>1, <2>2, <3>1
    <3> QED
      BY <1>7, <3>2
  <2>3. x = t[1].msg
    BY <1>7, <1>9, <2>1, <2>2 DEF Stays
  <2> QED
    BY <1>4, <1>7, <1>9, <2>3
<1> QED
  BY <1>8, <1>9

LEMMA PairEndsAtEnd ==
    ASSUME NEW t \in Seq(Write), t # << >>,
           NEW u, NEW v, NEW m, {m.from, m.to} = {u, v},
           NEW q, q = RecentPair(u, v, m),
           q \in Seq(Write), NEW r, r = Tail(t) \o q, NEW x
    PROVE  PairEnds(u, v, r, x)
<1>1. PICK n : n = Len(t)
  OBVIOUS
<1>2. /\ Len(q) = 2 /\ q[1] = RecentWrite(u, m) /\ q[2] = RecentWrite(v, m)
  BY DEF RecentPair
<1>3. PICK y, z : y = RecentWrite(u, m) /\ z = RecentWrite(v, m)
  OBVIOUS
<1>4. /\ InChat(u, v, y) /\ y.owner = u /\ y.msg = m
      /\ InChat(u, v, z) /\ z.owner = v /\ z.msg = m
  BY <1>3 DEF InChat, RecentWrite
<1>5. /\ n \in Nat \ {0} /\ Len(r) = n + 1
      /\ r[n] = y /\ r[n + 1] = z
  <2>1. /\ Len(t) \in Nat \ {0} /\ Len(r) = Len(t) - 1 + Len(q)
        /\ \A i \in 1 .. Len(r) :
               \/ i + 1 \in 1 .. Len(t) /\ r[i] = t[i + 1]
               \/ i - (Len(t) - 1) \in 1 .. Len(q) /\ r[i] = q[i - (Len(t) - 1)]
    BY PoppedList
  <2>2. n \in Nat \ {0} /\ Len(r) = n + 1
    BY <1>1, <1>2, <2>1
  <2>3. ASSUME NEW i \in 1 .. Len(r), NEW k, k = i - (Len(t) - 1), ~(i < Len(t))
        PROVE  r[i] = q[k]
    <3>1. i + 1 \notin 1 .. Len(t)
      BY <2>1, <2>3
    <3> QED
      BY <2>1, <2>3, <3>1
  <2>4. n \in 1 .. Len(r) /\ 1 = n - (Len(t) - 1) /\ ~(n < Len(t))
    BY <1>1, <2>2
  <2>5. r[n] = q[1]
    BY <2>3, <2>4
  <2>6. PICK b : b = n + 1
    OBVIOUS
  <2>7. b \in 1 .. Len(r) /\ 2 = b - (Len(t) - 1) /\ ~(b < Len(t))
    BY <1>1, <2>2, <2>6
  <2>8. r[b] = q[2]
    BY <2>3, <2>7
  <2> QED
    BY <1>2, <1>3, <2>2, <2>5, <2>6, <2>8
<1> SUFFICES ASSUME NEW i \in 1 .. Len(r), InChat(u, v, r[i]),
                    \A j \in 1 .. Len(r) : i < j => ~InChat(u, v, r[j])
             PROVE  /\ r[i].owner = v
                    /\ i > 1 /\ InChat(u, v, r[i - 1])
                    /\ r[i - 1].owner = u /\ r[i - 1].msg = r[i].msg
  BY DEF PairEnds
<1>6. n + 1 \in 1 .. Len(r) /\ InChat(u, v, r[n + 1])
  <2>1. n + 1 \in 1 .. Len(r)
    BY <1>5
  <2> QED
    BY <1>4, <1>5, <2>1
<1>7. ~(i < n + 1)
  BY <1>6
<1>8. i = n + 1 /\ i > 1 /\ i - 1 = n
  BY <1>5, <1>7
<1> QED
  BY <1>4, <1>5, <1>8

(* The last document to leave the queue is v's, and it was committed: both *)
(* documents show its message.                                             *)
LEMMA LastPopped ==
    ASSUME NEW t \in Seq(Write), t # << >>, NEW q \in Seq(Write),
           NEW r, r = Tail(t) \o q, NEW n \in Nat,
           NEW u, NEW v, NEW x, NEW y,
           InChat(u, v, t[1]) => n > 0,
           Stays(u, v, v, t, n, y), PairEnds(u, v, t, x),
           HasChat(u, v, t), ~HasChat(u, v, r)
    PROVE  x = y
<1>1. /\ Len(t) \in Nat \ {0}
      /\ \A j \in 2 .. Len(t) : j - 1 \in 1 .. Len(r) /\ r[j - 1] = t[j]
  BY PoppedList
<1>2. \A j \in 2 .. Len(t) : ~InChat(u, v, t[j])
  BY <1>1 DEF HasChat
<1>3. PICK i \in 1 .. Len(t) : InChat(u, v, t[i])
  BY DEF HasChat
<1>4. i = 1 /\ \A j \in 1 .. Len(t) : 1 < j => ~InChat(u, v, t[j])
  BY <1>1, <1>2, <1>3
<1>5. t[1].owner = v /\ x = t[1].msg
  BY <1>3, <1>4 DEF PairEnds
<1>6. 1 <= n
  BY <1>3, <1>4
<1>7. y = t[1].msg
  BY <1>3, <1>4, <1>5, <1>6 DEF Stays
<1> QED
  BY <1>5, <1>7

-----------------------------------------------------------------------------
(* An answer on s's device: what leaves the queue of a calm chat was       *)
(* committed, and the recent documents that follow it are a pair.          *)
LEMMA WrittenKeepsAgreement ==
    ASSUME CopiesInv, AgreeInv, NEW s \in Users, Written(s)
    PROVE  AgreeInv'
<1>1. PICK w : w = Head(queue[s])
  OBVIOUS
<1>2. /\ Answered(s) /\ recent' = recent
      /\ queue[s] # << >> /\ w \in Write /\ w.msg \in Message /\ w.msg.from = s
      /\ \E q \in Seq(Write) :
             /\ queue' = [queue EXCEPT ![s] = Tail(queue[s]) \o q]
             /\ Follows(s, w, q)
  BY <1>1, AnswerFollowed
<1>3. PICK q \in Seq(Write) :
          /\ queue' = [queue EXCEPT ![s] = Tail(queue[s]) \o q]
          /\ Follows(s, w, q)
  BY <1>2
<1>4. PICK t, r, n, k : /\ t = queue[s] /\ r = queue'[s]
                        /\ n = applied[s] /\ k = applied'[s]
  OBVIOUS
<1>5. /\ t \in Seq(Write) /\ t # << >> /\ r = Tail(t) \o q
      /\ n \in Nat /\ n <= Len(t) /\ w = t[1]
      /\ \A v \in Users : v # s => queue'[v] = queue[v]
  BY <1>1, <1>2, <1>3, <1>4, FrontOfQueue DEF CopiesInv, TypeOK
<1>6. /\ refused \subseteq refused' /\ raced \subseteq raced'
      /\ \A v \in Users : v # s => applied'[v] = applied[v]
      /\ \/ n > 0 /\ k = n - 1
         \/ n = 0 /\ k = 0 /\ w \in refused'
  <2>1. applied \in [Users -> Nat]
    BY DEF CopiesInv, TypeOK
  <2>2. raced \subseteq raced'
    BY <1>2, <1>3, FollowersInChat
  <2>3. \/ /\ n > 0 /\ applied' = [applied EXCEPT ![s] = n - 1] /\ refused' = refused
        \/ /\ n = 0 /\ applied' = applied /\ refused' = refused \cup {w}
    BY <1>1, <1>2, <1>4, <1>5 DEF Answered
  <2> QED
    BY <1>4, <2>1, <2>2, <2>3
<1>7. ASSUME NEW v \in Users
       PROVE  /\ raced \subseteq raced'
              /\ \/ ~HasChat(s, v, q)
                 \/ /\ s # v /\ {w.msg.from, w.msg.to} = {s, v}
                    /\ q = RecentPair(s, v, w.msg)
                    /\ {s, v} \notin raced' => ~HasChat(v, s, queue[v])
  <2>1. w \in Write /\ w.msg.from = s /\ Follows(s, w, q)
    BY <1>2, <1>3
  <2> QED
    BY <2>1, FollowersInChat
<1>8. ASSUME NEW u \in Users, NEW v \in Users, Calm(u, v)'
      PROVE  Calm(u, v)
  BY <1>6, <1>8, CalmBefore
<1>9. ASSUME NEW v \in Users, Calm(s, v)', InChat(s, v, t[1])
      PROVE  n > 0
  BY <1>5, <1>6, <1>9 DEF Calm, InChat
<1>10. CommittedStays'
  <2> SUFFICES ASSUME NEW u \in Users, NEW v \in Users, Calm(u, v)'
               PROVE  /\ Stays(u, v, u, queue'[u], applied'[u], recent[u][v])
                      /\ Stays(u, v, v, queue'[u], applied'[u], recent[v][u])
    BY <1>2 DEF CommittedStays
  <2>1. /\ Stays(u, v, u, queue[u], applied[u], recent[u][v])
        /\ Stays(u, v, v, queue[u], applied[u], recent[v][u])
    BY <1>8 DEF AgreeInv, CommittedStays
  <2>2. CASE u # s
    BY <1>5, <1>6, <2>1, <2>2
  <2>3. CASE u = s
    <3>1. /\ Stays(s, v, s, t, n, recent[s][v])
          /\ Stays(s, v, v, t, n, recent[v][s])
      BY <1>4, <2>1, <2>3
    <3>2. /\ Stays(s, v, s, r, k, recent[s][v])
          /\ Stays(s, v, v, r, k, recent[v][s])
      BY <1>5, <1>6, <3>1, PopKeepsStays
    <3> QED
      BY <1>4, <2>3, <3>2
  <2> QED
    BY <2>2, <2>3
<1>11. PairsEnd'
  <2> SUFFICES ASSUME NEW u \in Users, NEW v \in Users, Calm(u, v)'
               PROVE  PairEnds(u, v, queue'[u], recent[u][v])
    BY <1>2 DEF PairsEnd
  <2>1. /\ Calm(u, v)
        /\ PairEnds(u, v, queue[u], recent[u][v])
        /\ Stays(u, v, u, queue[u], applied[u], recent[u][v])
    BY <1>8 DEF AgreeInv, CommittedStays, PairsEnd
  <2>2. CASE u # s
    BY <1>5, <2>1, <2>2
  <2>3. CASE u = s
    <3>1. \/ ~HasChat(s, v, q)
          \/ /\ {w.msg.from, w.msg.to} = {s, v}
             /\ q = RecentPair(s, v, w.msg)
      BY <1>7
    <3>2. CASE ~HasChat(s, v, q)
      <4>1. /\ PairEnds(s, v, t, recent[s][v]) /\ s # v
            /\ Stays(s, v, s, t, n, recent[s][v])
            /\ InChat(s, v, t[1]) => n > 0
        BY <1>4, <1>9, <2>1, <2>3 DEF Calm
      <4>2. PairEnds(s, v, r, recent[s][v])
        BY <1>5, <3>2, <4>1, PopKeepsPairs
      <4> QED
        BY <1>4, <2>3, <4>2
    <3>3. CASE /\ {w.msg.from, w.msg.to} = {s, v}
               /\ q = RecentPair(s, v, w.msg)
      <4>1. PairEnds(s, v, r, recent[s][v])
        BY <1>5, <3>3, PairEndsAtEnd
      <4> QED
        BY <1>4, <2>3, <4>1
    <3> QED
      BY <3>1, <3>2, <3>3
  <2> QED
    BY <2>2, <2>3
<1>12. ASSUME NEW v \in Users, Calm(s, v)', HasChat(s, v, r)
       PROVE  ~HasChat(v, s, queue[v])
  <2>1. CASE HasChat(s, v, t)
    BY <1>4, <1>8, <1>12, <2>1 DEF AgreeInv, OneSided
  <2>2. CASE HasChat(s, v, q)
    <3>1. {s, v} \notin raced'
      BY <1>12 DEF Calm
    <3> QED
      BY <1>2, <1>3, <2>2, <3>1, FollowersInChat
  <2>3. HasChat(s, v, t) \/ HasChat(s, v, q)
    <3>1. PICK i \in 1 .. Len(r) : InChat(s, v, r[i])
      BY <1>12 DEF HasChat
    <3>2. \/ i + 1 \in 1 .. Len(t) /\ r[i] = t[i + 1]
          \/ i - (Len(t) - 1) \in 1 .. Len(q) /\ r[i] = q[i - (Len(t) - 1)]
      BY <1>5, <3>1, PoppedList
    <3>3. CASE i + 1 \in 1 .. Len(t) /\ r[i] = t[i + 1]
      BY <3>1, <3>3 DEF HasChat
    <3>4. CASE i - (Len(t) - 1) \in 1 .. Len(q) /\ r[i] = q[i - (Len(t) - 1)]
      BY <3>1, <3>4 DEF HasChat
    <3> QED
      BY <3>2, <3>3, <3>4
  <2> QED
    BY <2>1, <2>2, <2>3
<1>13. OneSided'
  <2> SUFFICES ASSUME NEW u \in Users, NEW v \in Users, Calm(u, v)',
                      HasChat(u, v, queue'[u])
               PROVE  ~HasChat(v, u, queue'[v])
    BY DEF OneSided
  <2>1. Calm(u, v) /\ u # v
    BY <1>8 DEF Calm
  <2>2. CASE u = s
    BY <1>4, <1>5, <1>12, <2>1, <2>2
  <2>3. CASE v = s
    <3>1. Calm(s, u)' /\ HasChat(u, s, queue[u])
      BY <1>5, <2>1, <2>3, SameChat
    <3> QED
      BY <1>4, <1>12, <2>3, <3>1
  <2>4. CASE u # s /\ v # s
    BY <1>5, <2>1, <2>4 DEF AgreeInv, OneSided
  <2> QED
    BY <2>2, <2>3, <2>4
<1>14. ASSUME NEW v \in Users, Calm(s, v)', HasChat(s, v, t), ~HasChat(s, v, r)
       PROVE  recent[s][v] = recent[v][s]
  <2>1. /\ PairEnds(s, v, t, recent[s][v])
        /\ Stays(s, v, v, t, n, recent[v][s])
    BY <1>4, <1>8, <1>14 DEF AgreeInv, CommittedStays, PairsEnd
  <2>2. InChat(s, v, t[1]) => n > 0
    BY <1>9, <1>14
  <2> QED
    BY <1>5, <1>14, <2>1, <2>2, LastPopped
<1>15. WrittenAgree'
  <2> SUFFICES ASSUME NEW u \in Users, NEW v \in Users, Calm(u, v)',
                      ~HasChat(u, v, queue'[u]), ~HasChat(v, u, queue'[v])
               PROVE  recent[u][v] = recent[v][u]
    BY <1>2 DEF WrittenAgree
  <2>1. Calm(u, v) /\ Calm(v, u)'
    BY <1>8, SameChat
  <2>2. CASE ~HasChat(u, v, queue[u]) /\ ~HasChat(v, u, queue[v])
    BY <2>1, <2>2 DEF AgreeInv, WrittenAgree
  <2>3. CASE HasChat(u, v, queue[u])
    <3>1. u = s
      BY <1>5, <2>3
    <3> QED
      BY <1>4, <1>14, <2>3, <3>1
  <2>4. CASE HasChat(v, u, queue[v])
    <3>1. v = s
      BY <1>5, <2>4
    <3> QED
      BY <1>4, <1>14, <2>1, <2>4, <3>1
  <2> QED
    BY <2>2, <2>3, <2>4
<1> QED
  BY <1>10, <1>11, <1>13, <1>15 DEF AgreeInv

-----------------------------------------------------------------------------
(* A commit of the write w, the next one of the queue t.                   *)
LEMMA CommitKeepsStays ==
    ASSUME NEW t \in Seq(Write), NEW n \in Nat, n < Len(t),
           NEW w, w = t[n + 1], NEW u, NEW v, NEW a, NEW x, NEW y,
           Stays(u, v, a, t, n, x),
           IF InChat(u, v, w) /\ w.owner = a THEN y = w.msg ELSE y = x
    PROVE  Stays(u, v, a, t, n + 1, y)
<1> SUFFICES ASSUME NEW i \in 1 .. Len(t),
                    i <= n + 1, InChat(u, v, t[i]), t[i].owner = a,
                    \A j \in 1 .. Len(t) :
                        i < j /\ j <= n + 1 /\ InChat(u, v, t[j]) => t[j].owner # a
             PROVE  y = t[i].msg
  BY DEF Stays
<1>1. n + 1 \in 1 .. Len(t)
  OBVIOUS
<1>2. CASE i = n + 1
  BY <1>2
<1>3. CASE i # n + 1
  <2>1. i <= n /\ i < n + 1
    BY <1>3
  <2>2. ~(InChat(u, v, w) /\ w.owner = a)
    BY <1>1, <2>1
  <2>3. \A j \in 1 .. Len(t) :
            i < j /\ j <= n /\ InChat(u, v, t[j]) => t[j].owner # a
    OBVIOUS
  <2>4. x = t[i].msg
    BY <2>1, <2>3 DEF Stays
  <2> QED
    BY <2>2, <2>4
<1> QED
  BY <1>2, <1>3

LEMMA CommitKeepsPairs ==
    ASSUME NEW t \in Seq(Write), NEW n \in Nat, n < Len(t),
           NEW w, w = t[n + 1], NEW u, NEW v, u # v, NEW x, NEW y,
           PairEnds(u, v, t, x),
           (InChat(u, v, w) /\ w.owner = u) \/ y = x
    PROVE  PairEnds(u, v, t, y)
<1> SUFFICES ASSUME NEW i \in 1 .. Len(t), InChat(u, v, t[i]),
                    \A j \in 1 .. Len(t) : i < j => ~InChat(u, v, t[j])
             PROVE  /\ t[i].owner = v
                    /\ \/ /\ i > 1 /\ InChat(u, v, t[i - 1])
                          /\ t[i - 1].owner = u /\ t[i - 1].msg = t[i].msg
                       \/ i = 1 /\ y = t[1].msg
  BY DEF PairEnds
<1>1. /\ t[i].owner = v
      /\ \/ /\ i > 1 /\ InChat(u, v, t[i - 1])
            /\ t[i - 1].owner = u /\ t[i - 1].msg = t[i].msg
         \/ i = 1 /\ x = t[1].msg
  BY DEF PairEnds
<1>2. CASE i = 1 /\ InChat(u, v, w)
  <2>1. n + 1 \in 1 .. Len(t) /\ ~(i < n + 1)
    BY <1>2
  <2>2. n + 1 = 1
    BY <1>2, <2>1
  <2>3. w.owner = v
    BY <1>1, <1>2, <2>2
  <2> QED
    BY <1>1, <1>2, <2>3
<1>3. CASE ~(i = 1 /\ InChat(u, v, w))
  BY <1>1, <1>3
<1> QED
  BY <1>2, <1>3

(* Which documents a commit on s's device changes: of a chat with s, the   *)
(* one it writes.                                                          *)
LEMMA CommitTouches ==
    ASSUME CopiesInv, NEW s \in Users, Commit(s),
           NEW w, w = queue[s][applied[s] + 1]
    PROVE  /\ w \in Write /\ WriteBacked(s, w)
           /\ queue' = queue /\ refused' = refused /\ raced' = raced
           /\ applied[s] \in Nat /\ applied[s] < Len(queue[s])
           /\ applied'[s] = applied[s] + 1
           /\ \A u \in Users : u # s => applied'[u] = applied[u]
           /\ \A u, v \in Users :
                  IF InChat(u, v, w) /\ w.owner = u
                  THEN recent'[u][v] = w.msg
                  ELSE recent'[u][v] = recent[u][v]
<1>1. /\ applied \in [Users -> Nat] /\ queue[s] \in Seq(Write)
      /\ recent \in [Users -> [Users -> Message \cup {NoMsg}]]
  BY DEF CopiesInv, TypeOK
<1>2. PICK p : p = applied[s] + 1
  OBVIOUS
<1>3. /\ w \in Write /\ w.msg \in Message /\ WriteBacked(s, w)
      /\ queue' = queue /\ refused' = refused
  BY <1>2, CommitParts
<1>4. /\ applied[s] < Len(queue[s]) /\ raced' = raced
      /\ applied' = [applied EXCEPT ![s] = applied[s] + 1]
      /\ \/ w.doc = "log" /\ recent' = recent
         \/ /\ w.doc = "recent"
            /\ recent' = [recent EXCEPT ![w.owner][Partner(w.owner, w.msg)] = w.msg]
  BY DEF Commit, history
<1>5. /\ w.owner \in {w.msg.from, w.msg.to} /\ w.msg.from # w.msg.to
      /\ w.msg.from \in Users /\ w.msg.to \in Users
  BY <1>3, MessageParts DEF WriteBacked
<1>6. PICK o, d : o = w.owner /\ d = Partner(w.owner, w.msg)
  OBVIOUS
<1>7. o \in Users /\ d \in Users /\ o # d /\ {w.msg.from, w.msg.to} = {o, d}
  BY <1>5, <1>6 DEF Partner
<1>8. ASSUME NEW u \in Users, NEW v \in Users
      PROVE  IF InChat(u, v, w) /\ w.owner = u
             THEN recent'[u][v] = w.msg
             ELSE recent'[u][v] = recent[u][v]
  <2>1. CASE w.doc = "log"
    BY <1>4, <2>1 DEF InChat
  <2>2. CASE w.doc = "recent"
    <3>1. recent' = [recent EXCEPT ![o][d] = w.msg]
      BY <1>4, <1>6, <2>2
    <3>2. recent'[u][v] = IF u = o /\ v = d THEN w.msg ELSE recent[u][v]
      BY <1>1, <1>7, <3>1
    <3>3. (InChat(u, v, w) /\ w.owner = u) <=> (u = o /\ v = d)
      BY <1>6, <1>7, <2>2 DEF InChat
    <3> QED
      BY <3>2, <3>3
  <2> QED
    BY <1>3, <2>1, <2>2, WriteParts
<1> QED
  BY <1>1, <1>3, <1>4, <1>8

LEMMA CommitKeepsAgreement ==
    ASSUME CopiesInv, AgreeInv, NEW s \in Users, Commit(s)
    PROVE  AgreeInv'
<1>1. PICK w, n, t : /\ w = queue[s][applied[s] + 1]
                     /\ n = applied[s] /\ t = queue[s]
  OBVIOUS
<1>2. /\ w \in Write /\ WriteBacked(s, w)
      /\ queue' = queue /\ refused' = refused /\ raced' = raced
      /\ applied[s] \in Nat /\ applied[s] < Len(queue[s])
      /\ applied'[s] = applied[s] + 1
      /\ \A u \in Users : u # s => applied'[u] = applied[u]
      /\ \A u, v \in Users :
             IF InChat(u, v, w) /\ w.owner = u
             THEN recent'[u][v] = w.msg
             ELSE recent'[u][v] = recent[u][v]
  BY <1>1, CommitTouches
<1>3. t \in Seq(Write) /\ n \in Nat /\ n < Len(t) /\ w = t[n + 1]
  BY <1>1, <1>2 DEF CopiesInv, TypeOK
<1>4. \A u, v : Calm(u, v)' <=> Calm(u, v)
  BY <1>2 DEF Calm
<1>5. ASSUME NEW u \in Users, NEW v \in Users, InChat(u, v, w)
      PROVE  /\ u = s \/ v = s
             /\ u = s => HasChat(u, v, queue[u])
             /\ v = s => HasChat(v, u, queue[v])
             /\ w.owner \in {u, v}
  <2>1. /\ w.msg.from = s /\ {w.msg.from, w.msg.to} = {u, v}
        /\ w.owner \in {w.msg.from, w.msg.to}
    BY <1>2, <1>5 DEF WriteBacked, InChat
  <2>2. n + 1 \in 1 .. Len(t)
    BY <1>3
  <2>3. HasChat(u, v, t)
    BY <1>3, <1>5, <2>2 DEF HasChat
  <2> QED
    BY <1>1, <2>1, <2>3, SameChat
<1>6. ASSUME NEW u \in Users, NEW v \in Users, InChat(u, v, w), Calm(u, v), u # s
      PROVE  ~HasChat(u, v, queue[u])
  BY <1>5, <1>6, SameChat DEF AgreeInv, OneSided
<1>7. ASSUME NEW u \in Users, NEW v \in Users, Calm(u, v), ~HasChat(u, v, queue[u])
      PROVE  /\ \A a, i, x : Stays(u, v, a, queue[u], i, x)
             /\ \A x : PairEnds(u, v, queue[u], x)
  BY <1>7 DEF HasChat, Stays, PairEnds
<1>8. CommittedStays'
  <2> SUFFICES ASSUME NEW u \in Users, NEW v \in Users, Calm(u, v)
               PROVE  /\ Stays(u, v, u, queue[u], applied'[u], recent'[u][v])
                      /\ Stays(u, v, v, queue[u], applied'[u], recent'[v][u])
    BY <1>2, <1>4 DEF CommittedStays
  <2>1. /\ Stays(u, v, u, queue[u], applied[u], recent[u][v])
        /\ Stays(u, v, v, queue[u], applied[u], recent[v][u])
    BY DEF AgreeInv, CommittedStays
  <2>2. CASE u = s
    <3>1. PICK x, y, b, c : /\ x = recent[u][v] /\ y = recent[v][u]
                            /\ b = recent'[u][v] /\ c = recent'[v][u]
      OBVIOUS
    <3>2. /\ IF InChat(u, v, w) /\ w.owner = u THEN b = w.msg ELSE b = x
          /\ IF InChat(u, v, w) /\ w.owner = v THEN c = w.msg ELSE c = y
      BY <1>2, <3>1, SameChat
    <3>3. Stays(u, v, u, t, n, x) /\ Stays(u, v, v, t, n, y)
      BY <1>1, <2>1, <2>2, <3>1
    <3>4. Stays(u, v, u, t, n + 1, b)
      BY <1>3, <3>2, <3>3, CommitKeepsStays
    <3>5. Stays(u, v, v, t, n + 1, c)
      BY <1>3, <3>2, <3>3, CommitKeepsStays
    <3> QED
      BY <1>1, <1>2, <2>2, <3>1, <3>4, <3>5
  <2>3. CASE u # s /\ InChat(u, v, w)
    BY <1>6, <1>7, <2>3
  <2>4. CASE u # s /\ ~InChat(u, v, w)
    <3>1. recent'[u][v] = recent[u][v] /\ recent'[v][u] = recent[v][u]
      BY <1>2, <2>4, SameChat
    <3> QED
      BY <1>2, <2>1, <2>4, <3>1
  <2> QED
    BY <2>2, <2>3, <2>4
<1>9. PairsEnd'
  <2> SUFFICES ASSUME NEW u \in Users, NEW v \in Users, Calm(u, v)
               PROVE  PairEnds(u, v, queue[u], recent'[u][v])
    BY <1>2, <1>4 DEF PairsEnd
  <2>1. PairEnds(u, v, queue[u], recent[u][v]) /\ u # v
    BY DEF AgreeInv, PairsEnd, Calm
  <2>2. PICK x, y : x = recent[u][v] /\ y = recent'[u][v]
    OBVIOUS
  <2>3. (InChat(u, v, w) /\ w.owner = u) \/ y = x
    BY <1>2, <2>2
  <2>4. CASE u = s
    <3>1. PairEnds(u, v, t, x)
      BY <1>1, <2>1, <2>2, <2>4
    <3>2. PairEnds(u, v, t, y)
      BY <1>3, <2>1, <2>3, <3>1, CommitKeepsPairs
    <3> QED
      BY <1>1, <2>2, <2>4, <3>2
  <2>5. CASE u # s /\ InChat(u, v, w)
    BY <1>6, <1>7, <2>5
  <2>6. CASE y = x
    BY <2>1, <2>2, <2>6
  <2> QED
    BY <2>3, <2>4, <2>5, <2>6
<1>10. OneSided'
  BY <1>2, <1>4 DEF AgreeInv, OneSided
<1>11. WrittenAgree'
  <2> SUFFICES ASSUME NEW u \in Users, NEW v \in Users, Calm(u, v),
                      ~HasChat(u, v, queue[u]), ~HasChat(v, u, queue[v])
               PROVE  recent'[u][v] = recent'[v][u]
    BY <1>2, <1>4 DEF WrittenAgree
  <2>1. recent[u][v] = recent[v][u]
    BY DEF AgreeInv, WrittenAgree
  <2>2. ~InChat(u, v, w) /\ ~InChat(v, u, w)
    BY <1>5, SameChat
  <2> QED
    BY <1>2, <2>1, <2>2
<1> QED
  BY <1>8, <1>9, <1>10, <1>11 DEF AgreeInv

-----------------------------------------------------------------------------
(* A tap puts a log write behind the queue, a broken stream and a crash    *)
(* leave no write committed ahead: no pair of recent documents is touched. *)
LEMMA PushKeepsChat ==
    ASSUME NEW t \in Seq(Write), NEW x \in Write, x.doc = "log",
           NEW r, r = t \o <<x>>, NEW n \in Nat, n <= Len(t), NEW u, NEW v
    PROVE  /\ HasChat(u, v, r) => HasChat(u, v, t)
           /\ HasChat(u, v, t) => HasChat(u, v, r)
           /\ \A a, y : Stays(u, v, a, t, n, y) => Stays(u, v, a, r, n, y)
           /\ \A y : PairEnds(u, v, t, y) => PairEnds(u, v, r, y)
<1>1. /\ Len(t) \in Nat /\ Len(r) = Len(t) + 1
      /\ \A i \in 1 .. Len(t) : r[i] = t[i]
      /\ r[Len(t) + 1] = x
  OBVIOUS
<1>2. /\ \A i \in 1 .. Len(t) : i \in 1 .. Len(r) /\ r[i] = t[i]
      /\ \A i \in 1 .. Len(r) : InChat(u, v, r[i]) => i \in 1 .. Len(t)
  <2>1. ~InChat(u, v, x)
    BY DEF InChat
  <2> QED
    BY <1>1, <2>1
<1>3. HasChat(u, v, r) <=> HasChat(u, v, t)
  BY <1>2 DEF HasChat
<1>4. ASSUME NEW a, NEW y, Stays(u, v, a, t, n, y) PROVE Stays(u, v, a, r, n, y)
  <2> SUFFICES ASSUME NEW i \in 1 .. Len(r),
                      i <= n, InChat(u, v, r[i]), r[i].owner = a,
                      \A j \in 1 .. Len(r) :
                          i < j /\ j <= n /\ InChat(u, v, r[j]) => r[j].owner # a
               PROVE  y = r[i].msg
    BY DEF Stays
  <2>1. i \in 1 .. Len(t) /\ r[i] = t[i]
    BY <1>2
  <2>2. \A j \in 1 .. Len(t) :
            i < j /\ j <= n /\ InChat(u, v, t[j]) => t[j].owner # a
    BY <1>2
  <2> QED
    BY <1>4, <2>1, <2>2 DEF Stays
<1>5. ASSUME NEW y, PairEnds(u, v, t, y) PROVE PairEnds(u, v, r, y)
  <2> SUFFICES ASSUME NEW i \in 1 .. Len(r), InChat(u, v, r[i]),
                      \A j \in 1 .. Len(r) : i < j => ~InChat(u, v, r[j])
               PROVE  /\ r[i].owner = v
                      /\ \/ /\ i > 1 /\ InChat(u, v, r[i - 1])
                            /\ r[i - 1].owner = u /\ r[i - 1].msg = r[i].msg
                         \/ i = 1 /\ y = r[1].msg
    BY DEF PairEnds
  <2>1. i \in 1 .. Len(t) /\ r[i] = t[i]
    BY <1>2
  <2>2. \A j \in 1 .. Len(t) : i < j => ~InChat(u, v, t[j])
    BY <1>2
  <2>3. /\ t[i].owner = v
        /\ \/ /\ i > 1 /\ InChat(u, v, t[i - 1])
              /\ t[i - 1].owner = u /\ t[i - 1].msg = t[i].msg
           \/ i = 1 /\ y = t[1].msg
    BY <1>5, <2>1, <2>2 DEF PairEnds
  <2>4. i > 1 => i - 1 \in 1 .. Len(t)
    BY <1>1, <2>1
  <2>5. i > 1 => r[i - 1] = t[i - 1]
    BY <1>2, <2>4
  <2> QED
    BY <2>1, <2>3, <2>5
<1> QED
  BY <1>3, <1>4, <1>5

LEMMA TapKeepsAgreement ==
    ASSUME CopiesInv, AgreeInv, NEW s \in Users, NEW ts \in 1 .. MaxTime[s],
           SendTapped(s, ts)
    PROVE  AgreeInv'
<1>1. PICK m \in Message :
          /\ m.from = s
          /\ queue' = [queue EXCEPT ![s] = queue[s] \o <<FirstOf(m)>>]
          /\ UNCHANGED <<log, recent, refused, cut>>
  BY TapParts DEF CopiesInv
<1>2. PICK x : x = FirstOf(m)
  OBVIOUS
<1>3. x \in Write /\ x.doc = "log"
  BY <1>1, <1>2, WriteTypes, MessageParts DEF FirstOf, LogWrite
<1>4. applied' = applied /\ raced' = raced /\ recent' = recent /\ refused' = refused
  BY <1>1 DEF SendTapped, history
<1>5. PICK t, r, n : t = queue[s] /\ r = queue'[s] /\ n = applied[s]
  OBVIOUS
<1>6. /\ t \in Seq(Write) /\ r = t \o <<x>> /\ n \in Nat /\ n <= Len(t)
      /\ \A u \in Users : u # s => queue'[u] = queue[u]
  BY <1>1, <1>2, <1>5 DEF CopiesInv, TypeOK
<1>7. \A u, v : Calm(u, v)' <=> Calm(u, v)
  BY <1>4 DEF Calm
<1>8. ASSUME NEW u, NEW v
      PROVE  /\ HasChat(u, v, r) <=> HasChat(u, v, t)
             /\ \A a, y : Stays(u, v, a, t, n, y) => Stays(u, v, a, r, n, y)
             /\ \A y : PairEnds(u, v, t, y) => PairEnds(u, v, r, y)
  <2>1. /\ HasChat(u, v, r) => HasChat(u, v, t)
        /\ HasChat(u, v, t) => HasChat(u, v, r)
        /\ \A a, y : Stays(u, v, a, t, n, y) => Stays(u, v, a, r, n, y)
        /\ \A y : PairEnds(u, v, t, y) => PairEnds(u, v, r, y)
    BY <1>3, <1>6, PushKeepsChat
  <2> QED
    BY <2>1
<1>9. ASSUME NEW o \in Users, NEW u, NEW v
      PROVE  /\ HasChat(u, v, queue'[o]) <=> HasChat(u, v, queue[o])
             /\ \A a, y : Stays(u, v, a, queue[o], applied[o], y) =>
                              Stays(u, v, a, queue'[o], applied[o], y)
             /\ \A y : PairEnds(u, v, queue[o], y) => PairEnds(u, v, queue'[o], y)
  BY <1>5, <1>6, <1>8
<1>10. OneSided' /\ WrittenAgree'
  BY <1>4, <1>7, <1>9 DEF AgreeInv, OneSided, WrittenAgree
<1>11. CommittedStays' /\ PairsEnd'
  BY <1>4, <1>7, <1>9 DEF AgreeInv, CommittedStays, PairsEnd
<1> QED
  BY <1>10, <1>11 DEF AgreeInv

LEMMA RestartKeepsAgreement ==
    ASSUME TypeOK, AgreeInv, NEW s \in Users,
           UNCHANGED <<queue, recent, refused, raced>>,
           applied' \in {applied, [applied EXCEPT ![s] = 0]}
    PROVE  AgreeInv'
<1>1. \A u, v : Calm(u, v)' <=> Calm(u, v)
  BY DEF Calm
<1>2. \A u \in Users : applied'[u] = applied[u] \/ applied'[u] = 0
  BY DEF TypeOK
<1>3. ASSUME NEW u, NEW v, NEW a, NEW q, NEW x PROVE Stays(u, v, a, q, 0, x)
  BY DEF Stays
<1>4. CommittedStays'
  <2> SUFFICES ASSUME NEW u \in Users, NEW v \in Users, Calm(u, v)
               PROVE  /\ Stays(u, v, u, queue[u], applied'[u], recent[u][v])
                      /\ Stays(u, v, v, queue[u], applied'[u], recent[v][u])
    BY <1>1 DEF CommittedStays
  <2> QED
    BY <1>2, <1>3 DEF AgreeInv, CommittedStays
<1> QED
  BY <1>1, <1>4 DEF AgreeInv, OneSided, PairsEnd, WrittenAgree

LEMMA AgreeInit == Init => AgreeInv
<1> SUFFICES ASSUME Init PROVE AgreeInv
  OBVIOUS
<1>1. \A u \in Users : \A i \in 1 .. Len(queue[u]) : FALSE
  <2>1. \A u \in Users : queue[u] = << >>
    BY DEF Init
  <2>2. \A u \in Users : Len(queue[u]) = 0
    BY <2>1
  <2> QED
    BY <2>2
<1>2. \A u, v \in Users : recent[u][v] = NoMsg
  BY DEF Init
<1> QED
  BY <1>1, <1>2 DEF AgreeInv, OneSided, CommittedStays, PairsEnd, WrittenAgree,
     HasChat, Stays, PairEnds

LEMMA AgreeNext == CopiesInv /\ AgreeInv /\ [Next]_vars => AgreeInv'
<1> SUFFICES ASSUME CopiesInv, AgreeInv, [Next]_vars PROVE AgreeInv'
  OBVIOUS
<1>0. TypeOK
  BY DEF CopiesInv
<1>1. ASSUME NEW u \in Users, UNCHANGED <<queue, recent, refused, raced, applied>>
      PROVE  AgreeInv'
  BY <1>0, <1>1, RestartKeepsAgreement
<1>2. ASSUME NEW u \in Users, NEW v \in Users, OpenChat(u, v) PROVE AgreeInv'
  BY <1>1, <1>2 DEF OpenChat, client, server, history
<1>3. ASSUME NEW u \in Users, LeaveChat(u) PROVE AgreeInv'
  BY <1>1, <1>3 DEF LeaveChat, client, server, history
<1>4. ASSUME NEW u \in Users, NEW text \in Texts \cup {NoText}, Type(u, text)
      PROVE  AgreeInv'
  BY <1>1, <1>4 DEF Type, client, server, history
<1>5. ASSUME NEW u \in Users, TextArrives(u) PROVE AgreeInv'
  BY <1>1, <1>5 DEF TextArrives, client, server, history
<1>6. ASSUME NEW u \in Users, NEW ts \in 1 .. MaxTime[u], SendTapped(u, ts)
      PROVE  AgreeInv'
  BY <1>6, TapKeepsAgreement
<1>7. ASSUME NEW u \in Users, Commit(u) PROVE AgreeInv'
  BY <1>7, CommitKeepsAgreement
<1>8. ASSUME NEW u \in Users, StreamReset(u) PROVE AgreeInv'
  <2>1. /\ UNCHANGED <<queue, recent, refused, raced>>
        /\ applied' = [applied EXCEPT ![u] = 0]
    BY <1>8 DEF StreamReset, server, history
  <2> QED
    BY <1>0, <2>1, RestartKeepsAgreement
<1>9. ASSUME NEW u \in Users, Written(u) PROVE AgreeInv'
  BY <1>9, WrittenKeepsAgreement
<1>10. ASSUME NEW u \in Users, Crash(u) PROVE AgreeInv'
  <2>1. queue' = queue
    BY <1>0, <1>10 DEF Crash, QueueOnDisk, TypeOK
  <2>2. /\ UNCHANGED <<recent, refused, raced>>
        /\ applied' = [applied EXCEPT ![u] = 0]
    BY <1>10 DEF Crash, server
  <2> QED
    BY <1>0, <2>1, <2>2, RestartKeepsAgreement
<1>11. ASSUME UNCHANGED vars PROVE AgreeInv'
  <2>1. UNCHANGED <<queue, recent, refused, raced, applied>>
    BY <1>11 DEF vars, client, server, history
  <2> QED
    BY <2>1 DEF AgreeInv, OneSided, CommittedStays, PairsEnd, WrittenAgree, Calm
<1> QED
  BY <1>2, <1>3, <1>4, <1>5, <1>6, <1>7, <1>8, <1>9, <1>10, <1>11
  DEF Next, Written

(* When all is written both sides of a chat list the same message, if they *)
(* never wrote their recent documents at the same time and none of these   *)
(* was refused.                                                            *)
THEOREM BothSidesAgree == Spec => []RecentsAgree
<1>1. ASSUME AgreeInv PROVE RecentsAgree
  <2> SUFFICES ASSUME NEW u \in Users, NEW v \in Users, Drained(u, v),
                      {u, v} \notin raced,
                      \A w \in refused :
                          w.doc = "recent" => {w.msg.from, w.msg.to} # {u, v}
               PROVE  recent[u][v] = recent[v][u]
    BY DEF RecentsAgree
  <2>1. CASE u = v
    BY <2>1
  <2>2. CASE u # v
    <3>1. Calm(u, v)
      BY <2>2 DEF Calm
    <3>2. ~HasChat(u, v, << >>) /\ ~HasChat(v, u, << >>)
      BY DEF HasChat
    <3>3. ~HasChat(u, v, queue[u]) /\ ~HasChat(v, u, queue[v])
      BY <3>2 DEF Drained
    <3> QED
      BY <1>1, <3>1, <3>3 DEF AgreeInv, WrittenAgree
  <2> QED
    BY <2>1, <2>2
<1>2. DeliveryInv => CopiesInv
  BY DEF DeliveryInv
<1> QED
  BY DeliveryInit, DeliveryNext, AgreeInit, AgreeNext, <1>1, <1>2, PTL DEF Spec
=============================================================================
