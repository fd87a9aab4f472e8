-------------------------- MODULE ConversationList --------------------------
(***************************************************************************)
(* The list of conversations of one signed-in user: the snapshot listener  *)
(* of APIManager.fetchConversations on the user's recent-messages          *)
(* documents, the fetchUser request it starts for every change, and the    *)
(* relay of ConversationViewModel the table is bound to.                   *)
(*                                                                         *)
(* A change takes the partner's rows off a private array at once and puts  *)
(* the new row on it when the partner's profile has been fetched; only     *)
(* then is the array published.  Requests for different partners are       *)
(* answered in any order, those for one partner in the order they were     *)
(* made (they listen to the same document).  A request that fails, or      *)
(* finds no profile, ends in silence.                                      *)
(*                                                                         *)
(* What is published is sorted by the times in the messages, the newest    *)
(* first.  These are the clocks of the two senders of a chat, so a message *)
(* may carry an earlier time than the one before it.  Rows are kept per    *)
(* partner: of the sorted table, the rows of each partner in their order.  *)
(* A relaunch is a new behaviour: the documents of the initial state are   *)
(* arbitrary.                                                              *)
(***************************************************************************)
EXTENDS Integers, Sequences, Functions

CONSTANTS
    Partners,       \* the users there is, or will be, a conversation with
    Profiled,       \* those whose users/<uid> document can be read
    Messages,       \* what a recent-messages document may hold
    NoMsg,          \* an absent document
    Clock,          \* the time in a message, of its sender's clock
    MaxChanges,     \* bound: changes of documents after the launch
    MaxFailures     \* bound: fetchUser requests that fail

ASSUME ListAssumption ==
    /\ Profiled \subseteq Partners
    /\ NoMsg \notin Messages
    /\ Clock \in [Messages -> Int]
    /\ MaxChanges \in Nat
    /\ MaxFailures \in Nat

VARIABLES
    doc,            \* recent-messages/<partner> in the client's local view
    listening,      \* the listener has not ended with an error
    seen,           \* what the listener's last callback knew of it
    pending,        \* per partner, the messages of outstanding fetchUsers
    conversations,  \* per partner, its rows in the private array
    rows,           \* per partner, its rows in the published array
    changes,        \* changes of documents so far
    failures,       \* failed requests so far
    latest,         \* history: the message of the last change reported
    overlapped,     \* history: partners changed again before their answer
    silenced        \* history: partners whose last answer never came

listVars == <<pending, conversations, rows>>
vars == <<doc, listening, seen, listVars, changes, failures, latest,
          overlapped, silenced>>

-----------------------------------------------------------------------------
(* The lists s may become when it is sorted by time, the latest first:     *)
(* Swift does not promise an order for equal times.                        *)
LatestFirst(s, time) ==
    {[i \in DOMAIN s |-> s[f[i]]] :
        f \in {g \in Bijection(DOMAIN s, DOMAIN s) :
                 \A i, j \in DOMAIN s : i < j => time[s[g[i]]] >= time[s[g[j]]]}}

(* Slips: what the operators below would be under a plausible mistake.     *)
KeepsOldRow(p) == conversations[p]
AsksOnce(p, m) == IF pending[p] = << >> THEN <<m>> ELSE pending[p]
EarliestFirst(s) == LatestFirst(s, [m \in Messages |-> -Clock[m]])
PublishedTooEarly(p, list) == conversations
PublishedAlone(p, list) ==
    [q \in Partners |-> IF q = p THEN list[p] ELSE << >>]

(* conversations.sorted                                                    *)
ByTime(s) == LatestFirst(s, Clock)

(* The message a change carries: for a document that is gone, the one it   *)
(* held.                                                                   *)
Carried(p) == IF doc[p] = NoMsg THEN seen[p] ELSE doc[p]

(* The partners a snapshot reports.                                        *)
Changed == {p \in Partners : doc[p] # seen[p]}

(* Rows of a changed partner that stay: removeAll leaves none.             *)
RowsKept(p) == << >>

(* fetchUser for every change: one more request under way.                 *)
Asked(p, m) == Append(pending[p], m)

(* conversations.insert(_, at: 0)                                          *)
Inserted(m, list) == <<m>> \o list

(* What is sorted and given to onNext: the whole array.                    *)
Published(p, list) == list

-----------------------------------------------------------------------------
Init ==
    /\ doc \in [Partners -> Messages \cup {NoMsg}]
    /\ listening = TRUE
    /\ seen = [p \in Partners |-> NoMsg]
    /\ pending = [p \in Partners |-> << >>]
    /\ conversations = [p \in Partners |-> << >>]
    /\ rows = [p \in Partners |-> << >>]
    /\ changes = 0
    /\ failures = 0
    /\ latest = [p \in Partners |-> NoMsg]
    /\ overlapped = {}
    /\ silenced = {}

(* Either side of the chat sets the document, or a first write of it is    *)
(* refused and the local view loses it again.                              *)
Change(p, m) ==
    /\ changes < MaxChanges
    /\ m # doc[p]
    /\ doc' = [doc EXCEPT ![p] = m]
    /\ changes' = changes + 1
    /\ UNCHANGED <<listening, seen, listVars, failures, latest, overlapped,
                   silenced>>

(* The listener's callback: whatever the type of a change, the rows of the *)
(* partner go and a request for the profile starts.  Nothing is published. *)
Snapshot ==
    /\ listening
    /\ Changed # {}
    /\ seen' = doc
    /\ conversations' = [p \in Partners |->
            IF p \in Changed THEN RowsKept(p) ELSE conversations[p]]
    /\ pending' = [p \in Partners |->
            IF p \in Changed THEN Asked(p, Carried(p)) ELSE pending[p]]
    /\ latest' = [p \in Partners |->
            IF p \in Changed THEN Carried(p) ELSE latest[p]]
    /\ overlapped' = (overlapped \ Changed)
                        \cup {p \in Changed : pending[p] # << >>}
    /\ silenced' = silenced \ Changed
    /\ UNCHANGED <<doc, listening, rows, changes, failures>>

(* The listener is called with an error and no snapshot, which the program *)
(* does not look at; Firestore does not call it again.                     *)
ListenerFails ==
    /\ listening
    /\ listening' = FALSE
    /\ UNCHANGED <<doc, seen, listVars, changes, failures, latest, overlapped,
                   silenced>>

(* A profile arrives: the row is inserted and the whole array published,   *)
(* sorted by time.                                                         *)
ProfileArrives(p) ==
    /\ pending[p] # << >>
    /\ p \in Profiled
    /\ pending' = [pending EXCEPT ![p] = Tail(@)]
    /\ conversations' = [conversations EXCEPT
                            ![p] = Inserted(Head(pending[p]), @)]
    /\ LET list == Published(p, conversations')
           sorted == [q \in Partners |-> ByTime(list[q])]
       IN  /\ rows' \in [Partners -> UNION {sorted[q] : q \in Partners}]
           /\ \A q \in Partners : rows'[q] \in sorted[q]
    /\ UNCHANGED <<doc, listening, seen, changes, failures, latest, overlapped,
                   silenced>>

(* An error, a missing document or one without all five fields: return.    *)
ProfileMissing(p) ==
    /\ pending[p] # << >>
    /\ \/ p \notin Profiled /\ UNCHANGED failures
       \/ p \in Profiled /\ failures < MaxFailures /\ failures' = failures + 1
    /\ pending' = [pending EXCEPT ![p] = Tail(@)]
    /\ silenced' = IF Len(pending[p]) = 1 THEN silenced \cup {p} ELSE silenced
    /\ UNCHANGED <<doc, listening, seen, conversations, rows, changes, latest,
                   overlapped>>

Next ==
    \/ \E p \in Partners : \E m \in Messages \cup {NoMsg} : Change(p, m)
    \/ Snapshot
    \/ ListenerFails
    \/ \E p \in Partners : ProfileArrives(p)
    \/ \E p \in Partners : ProfileMissing(p)

Spec == Init /\ [][Next]_vars

(* The client calls listeners and completions on the main queue, which     *)
(* gets to all of them.  Nobody has to change a document.                  *)
Fairness ==
    /\ WF_vars(Snapshot)
    /\ \A p \in Partners : WF_vars(ProfileArrives(p) \/ ProfileMissing(p))

FairSpec == Spec /\ Fairness

-----------------------------------------------------------------------------
TypeOK ==
    /\ doc \in [Partners -> Messages \cup {NoMsg}]
    /\ listening \in BOOLEAN
    /\ seen \in [Partners -> Messages \cup {NoMsg}]
    /\ pending \in [Partners -> Seq(Messages)]
    /\ conversations \in [Partners -> Seq(Messages)]
    /\ rows \in [Partners -> Seq(Messages)]
    /\ changes \in Nat
    /\ failures \in Nat
    /\ latest \in [Partners -> Messages \cup {NoMsg}]
    /\ overlapped \in SUBSET Partners
    /\ silenced \in SUBSET Partners

(* The last change of every conversation is on its way to the array or in  *)
(* front of the partner's rows there, however snapshots and answers          *)
(* interleave, unless its own request ended in silence (lines 101 to 113   *)
(* of APIManager take the old row off before they know of a new one).      *)
LastChangeKept ==
    \A p \in Partners :
        latest[p] # NoMsg /\ p \notin silenced =>
            \/ /\ pending[p] # << >>
               /\ pending[p][Len(pending[p])] = latest[p]
            \/ /\ pending[p] = << >>
               /\ conversations[p] # << >>
               /\ Head(conversations[p]) = latest[p]

(* A partner has two rows only if a change of its document overtook the    *)
(* request for the change before it, and the next change that overtakes    *)
(* none takes the double row away again.                                   *)
OneRowEach ==
    \A p \in Partners :
        p \notin overlapped => Len(conversations[p]) + Len(pending[p]) <= 1

(* Without a request under way for it, the table shows of a partner what   *)
(* the private array holds, by time, whatever other partners wait for.     *)
(* Only a request that ended in silence lets the two differ: the old row   *)
(* is off the array and still on the screen.                               *)
ShownWhenAnswered ==
    \A p \in Partners \ silenced :
        pending[p] = << >> => rows[p] \in ByTime(conversations[p])

(* A partner's rows leave the table only while its own new row is awaited, *)
(* or was never answered: other conversations cannot take it away.         *)
RowsGoForOwnChange ==
    \A p \in Partners :
        rows[p] # << >> /\ rows'[p] = << >> =>
            pending'[p] # << >> \/ p \in silenced

NoRowTakenByOthers == [][RowsGoForOwnChange]_vars

(* The message is in the table and is its partner's first row, but for one *)
(* case: the partner has two rows, of changes that overtook each other,    *)
(* and the older message carries the later time (line 110).                *)
OnTop(p, m) ==
    /\ m \in Range(rows[p])
    /\ \/ Head(rows[p]) = m
       \/ p \in overlapped /\ Clock[Head(rows[p])] >= Clock[m]

(* The last change that was reported of a conversation and answered is on  *)
(* top of the partner's rows in the table, with the exception of OnTop,    *)
(* and stays there whatever is published for others.                       *)
TopRowIsLatest ==
    \A p \in Partners \ silenced :
        latest[p] # NoMsg /\ pending[p] = << >> => OnTop(p, latest[p])

(* A message that stays the latest of a conversation gets to the top of    *)
(* its partner's rows in the table, with the exception of OnTop, unless    *)
(* the profile is never answered or the listener has ended with an error.  *)
EventuallyShown ==
    \A p \in Partners : \A m \in Messages :
        (doc[p] = m) ~> \/ doc[p] # m
                        \/ p \in silenced
                        \/ ~listening
                        \/ OnTop(p, m)
=============================================================================
