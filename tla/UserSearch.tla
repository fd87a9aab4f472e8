------------------------------ MODULE UserSearch ------------------------------
(***************************************************************************)
(* The list of friends of the new-message screen: the three requests of    *)
(* NewMessageViewModel that write the same relay, the filter, and the      *)
(* refresh control, from the opening of the screen to its end.             *)
(*                                                                         *)
(* The first fetch fills the list and the base the filter works on, and is *)
(* retried by a pull if it fails.  The refetch of pulls and of the Cancel  *)
(* button and the fetch of a cleared search box fill the list alone.  Each *)
(* is a flatMapLatest of APIManager.fetchUsers: a new request drops the    *)
(* outstanding one.  After an error a refetch has completed and answers no *)
(* pull any more; the error of a cleared box is bound to a relay, which    *)
(* ends a debug build and only the pipeline in another.                    *)
(*                                                                         *)
(* A typed text reaches the pipelines through a throttle: a while later,   *)
(* and only the last of several.                                           *)
(***************************************************************************)
CONSTANTS
    People,         \* the users there can be, the one signed in left out
    Keys,           \* texts to search for
    Cleared,        \* the empty text
    NoKey,          \* no text has come through the throttle
    Matches         \* per text, the people whose names contain it

ASSUME SearchAssumption ==
    /\ Cleared \notin Keys
    /\ NoKey \notin Keys \cup {Cleared}
    /\ Matches \in [Keys -> SUBSET People]

VARIABLES
    directory,      \* the users collection on the server
    users,          \* the relay the table is bound to
    base,           \* what baseUsersForFiltering last gave, at first nothing
    initial,        \* the first fetch
    refetch,        \* the refetch of pulls and of the Cancel button
    clearing,       \* the fetch of a cleared search box
    text,           \* what the search box holds
    waiting,        \* a text is in the throttle
    key,            \* the last text that came through
    searching,      \* onSearching
    pulled,         \* refreshPulled has a latest value
    spinner,        \* the refresh control is refreshing
    running,        \* FALSE once the screen has gone, or a binding error
                    \* has ended the app
    overtaken       \* history: the search met a request under way

requestVars == <<initial, refetch, clearing>>
boxVars == <<text, waiting, key>>
flagVars == <<searching, pulled, spinner>>
vars == <<directory, users, base, requestVars, boxVars, flagVars, running,
          overtaken>>

-----------------------------------------------------------------------------
(* Slips: what the operators below would be under a plausible mistake.     *)
PullsThroughSearch == refetch # "over"
ClearsOnce == key = NoKey
RunsOn == TRUE

(* The filter, over a base.                                                *)
Filtered(k, people) == people \cap Matches[k]

(* A pull starts a refetch: no search turns it away.                       *)
PullRefetches == ~ searching /\ refetch # "over"

(* onSearching once the box is cleared.                                    *)
SearchingAfterClear == FALSE

(* combineLatest(refreshPulled, onSearching), when onSearching says false. *)
Refreshes == pulled /\ refetch # "over"

(* The request of a cleared box starts: its pipeline is alive.             *)
ClearsAgain == clearing # "over"

(* isNetworking after an answer.                                           *)
Networking == FALSE

UnderWay == refetch = "asked" \/ clearing = "asked"

-----------------------------------------------------------------------------
(* The screen opens: the first fetch has started, and the search box sends *)
(* the text it holds.                                                      *)
Init ==
    /\ directory \in SUBSET People
    /\ users = {}
    /\ base = {}
    /\ initial = "asked"
    /\ refetch = "idle"
    /\ clearing = "idle"
    /\ text = Cleared
    /\ waiting = TRUE
    /\ key = NoKey
    /\ searching = FALSE
    /\ pulled = FALSE
    /\ spinner = FALSE
    /\ running = TRUE
    /\ overtaken = FALSE

(* Somebody registers.                                                     *)
Registers(u) ==
    /\ u \notin directory
    /\ directory' = directory \cup {u}
    /\ UNCHANGED <<users, base, requestVars, boxVars, flagVars, running,
                   overtaken>>

Type(k) ==
    /\ running
    /\ k # text
    /\ text' = k
    /\ waiting' = TRUE
    /\ UNCHANGED <<directory, users, base, requestVars, key, flagVars, running,
                   overtaken>>

(* A text to search for comes through; nothing happens without a base.     *)
SearchArrives ==
    /\ running /\ waiting /\ text # Cleared
    /\ waiting' = FALSE
    /\ key' = text
    /\ IF initial = "done"
       THEN searching' = TRUE /\ users' = Filtered(text, base)
       ELSE UNCHANGED <<users, searching>>
    /\ overtaken' = UnderWay
    /\ UNCHANGED <<directory, base, requestVars, text, pulled, spinner, running>>

(* The cleared box comes through: the search is over, the list is fetched, *)
(* and once there has been a pull it is fetched a second time.             *)
ClearArrives ==
    /\ running /\ waiting /\ text = Cleared
    /\ waiting' = FALSE
    /\ key' = Cleared
    /\ IF ClearsAgain
       THEN /\ searching' = SearchingAfterClear
            /\ clearing' = "asked"
            /\ refetch' = IF Refreshes THEN "asked" ELSE refetch
            /\ spinner' = (spinner \/ Refreshes)
       ELSE UNCHANGED <<searching, clearing, refetch, spinner>>
    /\ UNCHANGED <<directory, users, base, initial, text, pulled, running,
                   overtaken>>

(* The refresh control is pulled.                                          *)
Pull ==
    /\ running /\ ~ spinner
    /\ spinner' = TRUE
    /\ pulled' = TRUE
    /\ initial' = IF initial = "failed" THEN "asked" ELSE initial
    /\ refetch' = IF PullRefetches THEN "asked" ELSE refetch
    /\ UNCHANGED <<directory, users, base, clearing, boxVars, searching, running,
                   overtaken>>

(* The Cancel button of the search box, which clears the box.              *)
CancelSearch ==
    /\ running
    /\ text' = Cleared
    /\ waiting' = (waiting \/ text # Cleared)
    /\ IF refetch = "over"
       THEN UNCHANGED <<refetch, spinner, overtaken>>
       ELSE refetch' = "asked" /\ spinner' = TRUE /\ overtaken' = TRUE
    /\ UNCHANGED <<directory, users, base, initial, clearing, key, searching,
                   pulled, running>>

(* The first fetch: the list, then the base, then the filter if a search   *)
(* is waiting for it.                                                      *)
InitialAnswered ==
    /\ running /\ initial = "asked"
    /\ initial' = "done"
    /\ base' = directory
    /\ IF key \in Keys
       THEN /\ searching' = TRUE
            /\ users' = Filtered(key, directory)
            /\ overtaken' = UnderWay
       ELSE users' = directory /\ UNCHANGED <<searching, overtaken>>
    /\ UNCHANGED <<directory, refetch, clearing, boxVars, pulled, spinner, running>>

InitialFails ==
    /\ running /\ initial = "asked"
    /\ initial' = "failed"
    /\ UNCHANGED <<directory, users, base, refetch, clearing, boxVars, flagVars,
                   running, overtaken>>

RefetchAnswered ==
    /\ running /\ refetch = "asked"
    /\ refetch' = "idle"
    /\ users' = directory
    /\ spinner' = Networking
    /\ UNCHANGED <<directory, base, initial, clearing, boxVars, searching,
                   pulled, running, overtaken>>

(* catchErrorJustReturn: an empty list, and the pipeline has completed.    *)
RefetchFails ==
    /\ running /\ refetch = "asked"
    /\ refetch' = "over"
    /\ users' = {}
    /\ spinner' = Networking
    /\ UNCHANGED <<directory, base, initial, clearing, boxVars, searching,
                   pulled, running, overtaken>>

ClearAnswered ==
    /\ running /\ clearing = "asked"
    /\ clearing' = "idle"
    /\ users' = directory
    /\ UNCHANGED <<directory, base, initial, refetch, boxVars, flagVars, running,
                   overtaken>>

(* The error is bound to the relay: fatal in a debug build.                *)
ClearFails ==
    /\ running /\ clearing = "asked"
    /\ clearing' = "over"
    /\ running' \in BOOLEAN
    /\ UNCHANGED <<directory, users, base, initial, refetch, boxVars, flagVars,
                   overtaken>>

(* The Cancel button of the bar, or the choice of a person: what the       *)
(* requests still write is not seen any more.                              *)
Leave ==
    /\ running
    /\ running' = FALSE
    /\ UNCHANGED <<directory, users, base, requestVars, boxVars, flagVars,
                   overtaken>>

Next ==
    \/ \E u \in People : Registers(u)
    \/ \E k \in Keys \cup {Cleared} : Type(k)
    \/ SearchArrives
    \/ ClearArrives
    \/ Pull
    \/ CancelSearch
    \/ InitialAnswered
    \/ InitialFails
    \/ RefetchAnswered
    \/ RefetchFails
    \/ ClearAnswered
    \/ ClearFails
    \/ Leave

Spec == Init /\ [][Next]_vars

(* Requests are answered and timers fire; nobody has to type or pull.      *)
Fairness ==
    /\ WF_vars(SearchArrives \/ ClearArrives)
    /\ WF_vars(InitialAnswered \/ InitialFails)
    /\ WF_vars(RefetchAnswered \/ RefetchFails)
    /\ WF_vars(ClearAnswered \/ ClearFails)

FairSpec == Spec /\ Fairness

-----------------------------------------------------------------------------
TypeOK ==
    /\ directory \in SUBSET People
    /\ users \in SUBSET People
    /\ base \in SUBSET People
    /\ initial \in {"asked", "failed", "done"}
    /\ refetch \in {"idle", "asked", "over"}
    /\ clearing \in {"idle", "asked", "over"}
    /\ text \in Keys \cup {Cleared}
    /\ waiting \in BOOLEAN
    /\ key \in Keys \cup {Cleared, NoKey}
    /\ searching \in BOOLEAN
    /\ pulled \in BOOLEAN
    /\ spinner \in BOOLEAN
    /\ running \in BOOLEAN
    /\ overtaken \in BOOLEAN

(* The list under a search text is the filtered base, unless a request was *)
(* under way when the search began, or the Cancel button was tapped: that  *)
(* answer writes everybody over the filtered list.                         *)
FilterStands ==
    key \in Keys /\ initial = "done" /\ ~ overtaken =>
        users = Filtered(key, base)

(* onSearching, which turns pulls away, is true only while a search text   *)
(* stands, unless the fetch of a cleared box failed: then it is stuck.     *)
SearchFlagRight ==
    searching => key \in Keys \/ clearing = "over"

(* A blank list although there is somebody to show and no search text goes *)
(* back to a refetch that failed, or the whole list is on its way, or      *)
(* could not be fetched.                                                   *)
BlankExplained ==
    initial = "done" /\ key \notin Keys /\ base # {} /\ users = {} =>
        refetch = "over" \/ clearing \in {"asked", "over"}

(* The refresh control stops, unless the refetch has failed for good or a  *)
(* search turns the pull away.                                             *)
SpinnerStops ==
    spinner ~> \/ ~ spinner
               \/ refetch = "over"
               \/ searching
               \/ ~ running

(* "ReFetching by refreshing and canceling search" (NewMessageViewModel,   *)
(* line 54): a pull, unless it is turned away by a search, and the Cancel  *)
(* button start a refetch.                                                 *)
Refetching ==
    [][(Pull /\ ~ searching) \/ CancelSearch => refetch' = "asked"]_vars
=============================================================================
