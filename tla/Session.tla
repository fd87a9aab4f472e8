------------------------------- MODULE Session -------------------------------
(***************************************************************************)
(* Who is signed in, and on which screen: AuthManager's sign-up and login, *)
(* the view models that start them, the screens of the login, registration *)
(* and profile controllers, and the check at launch, on one device.        *)
(*                                                                         *)
(* A sign-up is a chain of callbacks: the account is created, the picture  *)
(* stored, its address fetched and users/<uid> written, where uid is the   *)
(* user signed in by then.  While it runs a HUD over the view takes every  *)
(* tap, but the controllers hide the navigation bar only, so an edge swipe *)
(* still pops the registration screen; the chain then goes on unseen.      *)
(*                                                                         *)
(* The account server, the image store and Firestore are modelled by what  *)
(* they answer.  A write to users/<uid> waits in the persistent queue of   *)
(* the user who made it, and is sent only while that user is signed in.    *)
(***************************************************************************)
EXTENDS Sequences, FiniteSets

CONSTANTS
    Accounts,   \* e-mail addresses, each the name of its account too
    Nobody,     \* no user
    SignUps,    \* bound: the sign-ups there can be
    NoSignUp    \* no sign-up

ASSUME SessionAssumption ==
    /\ Nobody \notin Accounts
    /\ NoSignUp \notin SignUps

VARIABLES
    screen,         \* the screen on top, "down" when the app is not running
    currentUser,    \* Auth.auth().currentUser, kept across launches
    listOf,         \* whose conversations the home screen listens to
    loggingIn,      \* the account of the signIn under way, or Nobody
    watched,        \* the sign-up the registration screen waits for
    stage,          \* how far each sign-up is
    subject,        \* the account each sign-up is for
    queue,          \* per user, the sign-ups whose profile is to be written
    accounts,       \* the server's accounts
    profileOf,      \* per account, whose values users/<uid> holds
    left,           \* history: sign-ups that were swiped away
    broken,         \* history: sign-ups that did not write their profile
    strayed,        \* history: a failed login led home in this launch
    crashed         \* history: the last launch ended in an exception

appVars == <<screen, listOf, loggingIn, watched>>
serverVars == <<accounts, profileOf>>
historyVars == <<left, broken, strayed, crashed>>
vars == <<appVars, currentUser, stage, subject, queue, serverVars, historyVars>>

Screens == {"down", "login", "register", "home", "profile"}

(* Stages before the write to users/<uid>, and those of a living chain.    *)
Preparing == {"asked", "made", "signedUp", "uploaded"}
Alive == Preparing \cup {"saving"}
Stages == Alive \cup {"unused", "over"}

-----------------------------------------------------------------------------
(* Slips: what the operators below would be under a plausible mistake.     *)
HudLetsTapsThrough == TRUE
KeptScreen == "home"
ClearsQueue(a, s) == <<s>>
StillWatched(s) == watched
HomeEitherWay(s, registered) == IF watched = s THEN "home" ELSE screen

(* A tap reaches a button: no HUD is shown.                                *)
TapsReach == watched = NoSignUp /\ loggingIn = Nobody

(* loginCheck                                                              *)
LoginCheck == currentUser # Nobody

(* fetchConversations listens for the user signed in when home is built.   *)
ListenedFor == currentUser

(* Where a login that failed leads: its Bool is ignored.                   *)
AfterFailedLogin == "home"

(* Where a successful signOut leads.                                       *)
AfterLogout == "login"

(* setData queues the write for the user signed in.                        *)
Queued(a, s) == Append(queue[a], s)

(* What the document of a sign-up says: the values the form held.          *)
Values(s) == subject[s]

(* The server has the values of the first write of the queue.              *)
Stored(a) == profileOf[a] = Values(Head(queue[a]))

(* onNext, true or false, reaches the screen if it is this sign-up's.      *)
WatchedAfter(s) == IF watched = s THEN NoSignUp ELSE watched

(* Where it leads: home, if it is a true.                                  *)
ScreenAfter(s, registered) ==
    IF watched = s /\ registered THEN "home" ELSE screen

-----------------------------------------------------------------------------
(* The app is not running; whoever is registered has a profile.            *)
Init ==
    /\ screen = "down"
    /\ currentUser = Nobody
    /\ listOf = Nobody
    /\ loggingIn = Nobody
    /\ watched = NoSignUp
    /\ stage = [s \in SignUps |-> "unused"]
    /\ subject = [s \in SignUps |-> Nobody]
    /\ queue = [a \in Accounts |-> << >>]
    /\ accounts \in SUBSET Accounts
    /\ profileOf = [a \in Accounts |-> IF a \in accounts THEN a ELSE Nobody]
    /\ left = {}
    /\ broken = {}
    /\ strayed = FALSE
    /\ crashed = FALSE

Launch ==
    /\ screen = "down"
    /\ screen' = IF LoginCheck THEN "home" ELSE "login"
    /\ listOf' = ListenedFor
    /\ strayed' = FALSE
    /\ crashed' = FALSE
    /\ UNCHANGED <<loggingIn, watched, currentUser, stage, subject, queue,
                   serverVars, left, broken>>

(* The process ends: callbacks are lost, the user and the queue are kept.  *)
Ends ==
    /\ screen' = "down"
    /\ listOf' = Nobody
    /\ loggingIn' = Nobody
    /\ watched' = NoSignUp
    /\ stage' = [s \in SignUps |-> IF stage[s] \in Alive THEN "over"
                                                         ELSE stage[s]]
    /\ broken' = broken \cup {s \in SignUps : stage[s] \in Preparing}
    /\ UNCHANGED <<currentUser, subject, queue, serverVars, left, strayed>>

Kill == screen # "down" /\ Ends /\ UNCHANGED crashed

Raise == Ends /\ crashed' = TRUE

-----------------------------------------------------------------------------
(* Login.                                                                  *)
TapLogin(a) ==
    /\ screen = "login" /\ TapsReach
    /\ loggingIn' = a
    /\ UNCHANGED <<screen, listOf, watched, currentUser, stage, subject, queue,
                   serverVars, historyVars>>

LoginSucceeds ==
    /\ loggingIn \in accounts
    /\ currentUser' = loggingIn
    /\ loggingIn' = Nobody
    /\ listOf' = loggingIn
    /\ screen' = "home"
    /\ UNCHANGED <<watched, stage, subject, queue, serverVars, historyVars>>

(* A wrong password, no such account, no network: the error becomes a      *)
(* false, and the false is ignored.                                        *)
LoginFails ==
    /\ loggingIn # Nobody
    /\ loggingIn' = Nobody
    /\ screen' = AfterFailedLogin
    /\ listOf' = ListenedFor
    /\ strayed' = TRUE
    /\ UNCHANGED <<watched, currentUser, stage, subject, queue, serverVars,
                   left, broken, crashed>>

-----------------------------------------------------------------------------
(* The registration screen.                                                *)
OpenRegistration ==
    /\ screen = "login" /\ TapsReach
    /\ screen' = "register"
    /\ UNCHANGED <<listOf, loggingIn, watched, currentUser, stage, subject, queue,
                   serverVars, historyVars>>

TapBack ==
    /\ screen = "register" /\ TapsReach
    /\ screen' = "login"
    /\ UNCHANGED <<listOf, loggingIn, watched, currentUser, stage, subject, queue,
                   serverVars, historyVars>>

(* The controller and its view model go; the callbacks hold AuthManager.   *)
SwipeBack ==
    /\ screen = "register"
    /\ screen' = "login"
    /\ watched' = NoSignUp
    /\ left' = IF watched = NoSignUp THEN left ELSE left \cup {watched}
    /\ UNCHANGED <<listOf, loggingIn, currentUser, stage, subject, queue, serverVars,
                   broken, strayed, crashed>>

TapSignUp(s, a) ==
    /\ screen = "register" /\ TapsReach
    /\ stage[s] = "unused"
    /\ stage' = [stage EXCEPT ![s] = "asked"]
    /\ subject' = [subject EXCEPT ![s] = a]
    /\ watched' = s
    /\ UNCHANGED <<screen, listOf, loggingIn, currentUser, queue, serverVars,
                   historyVars>>

(* The server makes the account; the app has not heard of it yet.          *)
AccountMade(s) ==
    /\ stage[s] = "asked"
    /\ subject[s] \notin accounts
    /\ accounts' = accounts \cup {subject[s]}
    /\ stage' = [stage EXCEPT ![s] = "made"]
    /\ UNCHANGED <<appVars, currentUser, subject, queue, profileOf,
                   historyVars>>

(* createUser's answer signs the new account in and starts the upload.     *)
Created(s) ==
    /\ stage[s] = "made"
    /\ currentUser' = subject[s]
    /\ stage' = [stage EXCEPT ![s] = "signedUp"]
    /\ UNCHANGED <<appVars, subject, queue, serverVars, historyVars>>

ImageStored(s) ==
    /\ stage[s] = "signedUp"
    /\ stage' = [stage EXCEPT ![s] = "uploaded"]
    /\ UNCHANGED <<appVars, currentUser, subject, queue, serverVars,
                   historyVars>>

(* saveInfoToFirestore: an empty document path raises an exception.        *)
AddressFetched(s) ==
    /\ stage[s] = "uploaded"
    /\ \/ currentUser = Nobody /\ Raise
       \/ /\ currentUser # Nobody
          /\ queue' = [queue EXCEPT ![currentUser] = Queued(currentUser, s)]
          /\ stage' = [stage EXCEPT ![s] = "saving"]
          /\ broken' = IF currentUser = subject[s] THEN broken
                                                   ELSE broken \cup {s}
          /\ UNCHANGED <<appVars, currentUser, subject, serverVars, left,
                         strayed, crashed>>

(* onNext(false), from any step: the HUD goes, the screen stays.           *)
StepFails(s) ==
    /\ stage[s] \in Preparing
    /\ stage' = [stage EXCEPT ![s] = "over"]
    /\ watched' = WatchedAfter(s)
    /\ screen' = ScreenAfter(s, FALSE)
    /\ broken' = broken \cup {s}
    /\ UNCHANGED <<listOf, loggingIn, currentUser, subject, queue, serverVars,
                   left, strayed, crashed>>

(* The server stores the first write in the queue of the user signed in.   *)
Commit(a) ==
    /\ currentUser = a
    /\ queue[a] # << >>
    /\ profileOf' = [profileOf EXCEPT ![a] = Values(Head(queue[a]))]
    /\ UNCHANGED <<appVars, currentUser, stage, subject, queue, accounts,
                   historyVars>>

(* The answer to the first write: whoever waits for it goes home.          *)
Acked(a) ==
    /\ currentUser = a
    /\ queue[a] # << >>
    /\ Stored(a)
    /\ LET s == Head(queue[a]) IN
       /\ queue' = [queue EXCEPT ![a] = Tail(@)]
       /\ stage' = [stage EXCEPT ![s] = "over"]
       /\ watched' = WatchedAfter(s)
       /\ listOf' = IF watched = s THEN ListenedFor ELSE listOf
       /\ screen' = ScreenAfter(s, TRUE)
    /\ UNCHANGED <<loggingIn, currentUser, subject, serverVars, historyVars>>

Refused(a) ==
    /\ currentUser = a
    /\ queue[a] # << >>
    /\ LET s == Head(queue[a]) IN
       /\ queue' = [queue EXCEPT ![a] = Tail(@)]
       /\ stage' = [stage EXCEPT ![s] = "over"]
       /\ watched' = WatchedAfter(s)
       /\ screen' = ScreenAfter(s, FALSE)
       /\ broken' = broken \cup {s}
    /\ UNCHANGED <<listOf, loggingIn, currentUser, subject, serverVars, left,
                   strayed, crashed>>

-----------------------------------------------------------------------------
(* The profile screen; without a user fetchUser("") raises an exception.   *)
OpenProfile ==
    /\ screen = "home"
    /\ \/ currentUser = Nobody /\ Raise
       \/ /\ currentUser # Nobody
          /\ screen' = "profile"
          /\ UNCHANGED <<listOf, loggingIn, watched, currentUser, stage, subject,
                         queue, serverVars, historyVars>>

CloseProfile ==
    /\ screen = "profile"
    /\ screen' = "home"
    /\ UNCHANGED <<listOf, loggingIn, watched, currentUser, stage, subject, queue,
                   serverVars, historyVars>>

(* signOut succeeded; when it throws nothing changes.                      *)
Logout ==
    /\ screen = "profile"
    /\ currentUser' = Nobody
    /\ screen' = AfterLogout
    /\ strayed' = FALSE
    /\ UNCHANGED <<listOf, loggingIn, watched, stage, subject, queue, serverVars,
                   left, broken, crashed>>

Step(s) ==
    \/ AccountMade(s)
    \/ Created(s)
    \/ ImageStored(s)
    \/ AddressFetched(s)
    \/ StepFails(s)

LoginEnds == LoginSucceeds \/ LoginFails

Next ==
    \/ Launch
    \/ Kill
    \/ \E a \in Accounts : TapLogin(a)
    \/ LoginEnds
    \/ OpenRegistration
    \/ TapBack
    \/ SwipeBack
    \/ \E s \in SignUps : \E a \in Accounts : TapSignUp(s, a)
    \/ \E s \in SignUps : Step(s)
    \/ \E a \in Accounts : Commit(a) \/ Acked(a) \/ Refused(a)
    \/ OpenProfile
    \/ CloseProfile
    \/ Logout

Spec == Init /\ [][Next]_vars

(* Every request is answered in the end and the main queue runs the        *)
(* answer.  The user owes nothing: no tap, swipe, launch or kill is fair.  *)
Fairness ==
    /\ WF_vars(LoginEnds)
    /\ \A s \in SignUps : WF_vars(Step(s))
    /\ \A a \in Accounts : WF_vars(Commit(a)) /\ WF_vars(Acked(a) \/ Refused(a))

FairSpec == Spec /\ Fairness

-----------------------------------------------------------------------------
TypeOK ==
    /\ screen \in Screens
    /\ currentUser \in Accounts \cup {Nobody}
    /\ listOf \in Accounts \cup {Nobody}
    /\ loggingIn \in Accounts \cup {Nobody}
    /\ watched \in SignUps \cup {NoSignUp}
    /\ stage \in [SignUps -> Stages]
    /\ subject \in [SignUps -> Accounts \cup {Nobody}]
    /\ queue \in [Accounts -> Seq(SignUps)]
    /\ accounts \in SUBSET Accounts
    /\ profileOf \in [Accounts -> Accounts \cup {Nobody}]
    /\ left \in SUBSET SignUps
    /\ broken \in SUBSET SignUps
    /\ strayed \in BOOLEAN
    /\ crashed \in BOOLEAN

(* The uid of users/<uid> is read only after the upload (AuthManager, line *)
(* 89).  It may be another account's by then, and that account's profile   *)
(* be overwritten, but only through a sign-up of one of the two that was   *)
(* swiped away.                                                            *)
ProfilesMatch ==
    \A a \in Accounts :
        profileOf[a] \notin {Nobody, a} =>
            \E s \in left : subject[s] \in {a, profileOf[a]}

(* The home screen is reached without a user only through a failed login,  *)
(* and the profile screen never is.                                        *)
HomeIsSignedIn ==
    currentUser = Nobody =>
        /\ screen = "home" => strayed
        /\ screen # "profile"

(* The conversations listened to are those of the user messages are sent   *)
(* as, unless a sign-up that was swiped away has signed its account in.    *)
HomeListIsMine ==
    screen \in {"home", "profile"} =>
        \/ listOf = currentUser
        \/ \E s \in left : subject[s] = currentUser

(* The exceptions of the two empty document paths need a failed login that *)
(* led home, or a sign-up that was swiped away and outlived its user.      *)
CrashesAfterMisstep == crashed => strayed \/ left # {}

(* An account without a profile has a sign-up that is still at it, or one  *)
(* whose write waits for the account's user to sign in, or one that broke. *)
NoneForgotten ==
    \A a \in accounts :
        profileOf[a] = Nobody =>
            \E s \in SignUps :
                /\ subject[s] = a
                /\ \/ stage[s] \in Preparing
                   \/ s \in broken
                   \/ \E i \in DOMAIN queue[a] : queue[a][i] = s

(* Whoever comes home from the registration screen is registered, with a   *)
(* profile the server has, and with its own unless a sign-up was swiped    *)
(* away.                                                                   *)
ComesHomeRegistered ==
    screen = "register" /\ screen' = "home" =>
        /\ currentUser' \in accounts'
        /\ profileOf'[currentUser'] # Nobody
        /\ left = {} => profileOf'[currentUser'] = currentUser'

RegisteredAtHome == [][ComesHomeRegistered]_vars

(* The HUD over the registration screen goes away, and a login leaves its  *)
(* screen, unless a sign-up that was swiped away takes the current user    *)
(* from the one whose write is awaited.                                    *)
WaitsEnd ==
    /\ \A s \in SignUps : (watched = s) ~> (watched # s \/ left # {})
    /\ (loggingIn # Nobody) ~> (loggingIn = Nobody)
=============================================================================
