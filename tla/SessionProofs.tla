---------------------------- MODULE SessionProofs ----------------------------
(***************************************************************************)
(* What Session guarantees for every set of accounts and of sign-ups.      *)
(***************************************************************************)
EXTENDS Session, Integers, TLAPS

(* A sign-up that is queued belongs to the queue.                          *)
LEMMA QueueEnds ==
    ASSUME NEW q \in Seq(SignUps), NEW s \in SignUps
    PROVE  /\ Append(q, s) \in Seq(SignUps)
           /\ \A i \in DOMAIN Append(q, s) :
                  \/ Append(q, s)[i] = s
                  \/ i \in 1 .. Len(q) /\ Append(q, s)[i] = q[i]
OBVIOUS

(* The front of a queue and what is left behind it.                        *)
LEMMA QueueFront ==
    ASSUME NEW q \in Seq(SignUps), q # << >>
    PROVE  /\ Head(q) \in SignUps
           /\ 1 \in 1 .. Len(q) /\ Head(q) = q[1]
           /\ Tail(q) \in Seq(SignUps)
           /\ \A i \in DOMAIN Tail(q) :
                  i + 1 \in 1 .. Len(q) /\ Tail(q)[i] = q[i + 1]
OBVIOUS

-----------------------------------------------------------------------------
(* A sign-up that was started is for an account; without that the server's *)
(* accounts need not stay accounts.                                        *)
Named == \A s \in SignUps : stage[s] # "unused" => subject[s] \in Accounts

(* Only sign-ups that were started are queued, awaited or swiped away.     *)
Started ==
    /\ \A a \in Accounts : \A i \in 1 .. Len(queue[a]) :
           stage[queue[a][i]] # "unused"
    /\ \A s \in left : stage[s] # "unused"
    /\ watched # NoSignUp => stage[watched] # "unused"

TypeInv == TypeOK /\ Named /\ Started

LEMMA TypeInit == Init => TypeOK
<1> SUFFICES ASSUME Init PROVE TypeOK
  OBVIOUS
<1>1. /\ stage \in [SignUps -> Stages]
      /\ subject \in [SignUps -> Accounts \cup {Nobody}]
      /\ screen \in Screens
  BY DEF Init, Stages, Screens
<1>2. queue \in [Accounts -> Seq(SignUps)]
  BY DEF Init
<1>3. profileOf \in [Accounts -> Accounts \cup {Nobody}]
  BY DEF Init
<1> QED
  BY <1>1, <1>2, <1>3 DEF Init, TypeOK

LEMMA EndsType == TypeOK /\ Ends /\ crashed' \in BOOLEAN => TypeOK'
BY DEF TypeOK, Ends, Screens, Stages, Alive, Preparing, serverVars

LEMMA TypeNext == TypeOK /\ Named /\ [Next]_vars => TypeOK'
<1> SUFFICES ASSUME TypeOK, Named, [Next]_vars PROVE TypeOK'
  OBVIOUS
<1> USE DEF serverVars, historyVars, appVars, Screens
<1>1. CASE Launch
  BY <1>1 DEF TypeOK, Launch, ListenedFor
<1>2. CASE Kill
  BY <1>2, EndsType DEF TypeOK, Kill
<1>3. ASSUME NEW a \in Accounts, TapLogin(a) PROVE TypeOK'
  BY <1>3 DEF TypeOK, TapLogin
<1>4. CASE LoginSucceeds
  BY <1>4 DEF TypeOK, LoginSucceeds
<1>5. CASE LoginFails
  BY <1>5 DEF TypeOK, LoginFails, AfterFailedLogin, ListenedFor
<1>6. CASE OpenRegistration \/ TapBack
  BY <1>6 DEF TypeOK, OpenRegistration, TapBack
<1>7. CASE SwipeBack
  BY <1>7 DEF TypeOK, SwipeBack
<1>8. ASSUME NEW s \in SignUps, NEW a \in Accounts, TapSignUp(s, a)
      PROVE  TypeOK'
  BY <1>8 DEF TypeOK, TapSignUp, Stages, Alive, Preparing
<1>9. ASSUME NEW s \in SignUps, Step(s) PROVE TypeOK'
  <2>1. CASE AccountMade(s)
    BY <2>1 DEF TypeOK, Named, AccountMade, Stages, Alive, Preparing
  <2>2. CASE Created(s)
    BY <2>2 DEF TypeOK, Created, Stages, Alive, Preparing
  <2>3. CASE ImageStored(s)
    BY <2>3 DEF TypeOK, ImageStored, Stages, Alive, Preparing
  <2>4. CASE AddressFetched(s)
    <3>1. CASE Raise
      BY <3>1, EndsType DEF Raise
    <3>2. CASE /\ currentUser # Nobody
               /\ queue' = [queue EXCEPT ![currentUser] =
                                Append(queue[currentUser], s)]
               /\ stage' = [stage EXCEPT ![s] = "saving"]
      <4>1. currentUser \in Accounts /\ queue \in [Accounts -> Seq(SignUps)]
        BY <3>2 DEF TypeOK
      <4>2. queue' \in [Accounts -> Seq(SignUps)]
        BY <3>2, <4>1, QueueEnds
      <4>3. stage' \in [SignUps -> Stages]
        BY <3>2 DEF TypeOK, Stages, Alive
      <4> QED
        BY <2>4, <3>2, <4>2, <4>3 DEF TypeOK, AddressFetched
    <3> QED
      BY <2>4, <3>1, <3>2 DEF AddressFetched, Queued
  <2>5. CASE StepFails(s)
    BY <2>5 DEF TypeOK, StepFails, ScreenAfter, Stages, WatchedAfter
  <2> QED
    BY <1>9, <2>1, <2>2, <2>3, <2>4, <2>5 DEF Step
<1>10. ASSUME NEW a \in Accounts, Commit(a) PROVE TypeOK'
  <2>1. Head(queue[a]) \in SignUps
    BY <1>10, QueueFront DEF TypeOK, Commit
  <2> QED
    BY <1>10, <2>1 DEF TypeOK, Commit, Values
<1>11. ASSUME NEW a \in Accounts, Acked(a) \/ Refused(a) PROVE TypeOK'
  <2>1. Head(queue[a]) \in SignUps /\ Tail(queue[a]) \in Seq(SignUps)
    BY <1>11, QueueFront DEF TypeOK, Acked, ScreenAfter, Refused
  <2>2. CASE Acked(a)
    BY <2>1, <2>2 DEF TypeOK, Acked, ScreenAfter, Stages, WatchedAfter, ListenedFor
  <2>3. CASE Refused(a)
    BY <2>1, <2>3 DEF TypeOK, Refused, ScreenAfter, Stages, WatchedAfter
  <2> QED
    BY <1>11, <2>2, <2>3
<1>12. CASE OpenProfile
  BY <1>12, EndsType DEF TypeOK, OpenProfile, Raise
<1>13. CASE CloseProfile
  BY <1>13 DEF TypeOK, CloseProfile
<1>14. CASE Logout
  BY <1>14 DEF TypeOK, Logout, AfterLogout
<1>15. CASE UNCHANGED vars
  BY <1>15 DEF TypeOK, vars
<1> QED
  BY <1>1, <1>2, <1>3, <1>4, <1>5, <1>6, <1>7, <1>8, <1>9, <1>10, <1>11,
     <1>12, <1>13, <1>14, <1>15 DEF Next, LoginEnds

(* A sign-up once started stays started, and only TapSignUp starts one.    *)
LEMMA StageNext ==
    ASSUME TypeInv, [Next]_vars, NEW s \in SignUps
    PROVE  \/ \E a \in Accounts : TapSignUp(s, a)
           \/ /\ subject'[s] = subject[s]
              /\ stage'[s] = "unused" <=> stage[s] = "unused"
<1> DEFINE Same == /\ subject'[s] = subject[s]
                   /\ stage'[s] = "unused" <=> stage[s] = "unused"
<1> SUFFICES ASSUME ~ \E a \in Accounts : TapSignUp(s, a) PROVE Same
  OBVIOUS
<1>1. stage \in [SignUps -> Stages] /\ queue \in [Accounts -> Seq(SignUps)]
      /\ subject \in [SignUps -> Accounts \cup {Nobody}]
  BY DEF TypeInv, TypeOK
<1>2. ASSUME NEW x \in SignUps, NEW a \in Accounts, TapSignUp(x, a) PROVE Same
  BY <1>1, <1>2 DEF TapSignUp
<1>3. CASE Ends
  BY <1>1, <1>3 DEF Ends, Alive, Preparing
<1>4. ASSUME NEW x \in SignUps, Step(x) PROVE Same
  <2>1. CASE AccountMade(x)
    BY <1>1, <2>1 DEF AccountMade
  <2>2. CASE Created(x) \/ ImageStored(x)
    BY <1>1, <2>2 DEF Created, ImageStored
  <2>3. CASE AddressFetched(x)
    BY <1>1, <1>3, <2>3 DEF AddressFetched, Raise
  <2>4. CASE StepFails(x)
    BY <1>1, <2>4 DEF StepFails, Preparing
  <2> QED
    BY <1>4, <2>1, <2>2, <2>3, <2>4 DEF Step
<1>5. ASSUME NEW a \in Accounts, Acked(a) \/ Refused(a) PROVE Same
  <2>1. /\ subject' = subject /\ queue[a] # << >>
        /\ stage' = [stage EXCEPT ![Head(queue[a])] = "over"]
    BY <1>5 DEF Acked, Refused
  <2>2. Head(queue[a]) \in SignUps /\ stage[Head(queue[a])] # "unused"
    BY <1>1, <2>1, QueueFront DEF TypeInv, Started
  <2> QED
    BY <1>1, <2>1, <2>2
<1>6. CASE UNCHANGED <<stage, subject>>
  BY <1>6
<1>7. CASE UNCHANGED vars
  BY <1>6, <1>7 DEF vars
<1> HIDE DEF Same
<1> QED
  BY <1>2, <1>3, <1>4, <1>5, <1>6, <1>7 DEF Next, LoginEnds, Launch, Kill,
     TapLogin, LoginSucceeds, LoginFails, OpenRegistration, TapBack, SwipeBack,
     Commit, OpenProfile, Raise, CloseProfile, Logout

(* How the steps change a queue.                                           *)
LEMMA QueueNext ==
    ASSUME TypeOK, [Next]_vars, NEW a \in Accounts
    PROVE  \/ queue'[a] = queue[a]
           \/ queue[a] # << >> /\ queue'[a] = Tail(queue[a])
           \/ \E s \in SignUps :
                 /\ AddressFetched(s) /\ ~ Raise
                 /\ queue'[a] = Append(queue[a], s)
                 /\ currentUser = a
<1> DEFINE Same == queue'[a] = queue[a]
           Popped == queue[a] # << >> /\ queue'[a] = Tail(queue[a])
           Queues(s) == /\ AddressFetched(s) /\ ~ Raise
                        /\ queue'[a] = Append(queue[a], s)
                        /\ currentUser = a
<1> SUFFICES Same \/ Popped \/ \E s \in SignUps : Queues(s)
  OBVIOUS
<1>1. queue \in [Accounts -> Seq(SignUps)]
  BY DEF TypeOK
<1>2. ASSUME NEW s \in SignUps, AddressFetched(s), ~ Raise
      PROVE  Same \/ Queues(s)
  BY <1>1, <1>2 DEF AddressFetched, Queued
<1>3. ASSUME NEW x \in Accounts, Acked(x) \/ Refused(x) PROVE Same \/ Popped
  BY <1>1, <1>3 DEF Acked, Refused
<1>4. CASE UNCHANGED queue
  BY <1>4
<1>5. CASE UNCHANGED vars
  BY <1>4, <1>5 DEF vars
<1>6. CASE Ends
  BY <1>4, <1>6 DEF Ends
<1> HIDE DEF Same, Popped, Queues
<1> QED
  BY <1>2, <1>3, <1>4, <1>5, <1>6 DEF Next, LoginEnds, Launch, Kill, Step,
     TapLogin, LoginSucceeds, LoginFails, OpenRegistration, TapBack, SwipeBack,
     TapSignUp, AccountMade, Created, ImageStored, StepFails, Commit,
     OpenProfile, Raise, CloseProfile, Logout

(* Only a swipe adds to the sign-ups swiped away.                          *)
LEMMA LeftNext == [Next]_vars => left' = left \/ SwipeBack
BY DEF Next, LoginEnds, Launch, Kill, Step, TapLogin, LoginSucceeds,
   LoginFails, OpenRegistration, TapBack, TapSignUp, AccountMade, Created,
   ImageStored, AddressFetched, StepFails, Commit, Acked, Refused, OpenProfile,
   Raise, Ends, CloseProfile, Logout, vars, historyVars

(* Only a tap on Sign Up makes the screen wait for another sign-up.        *)
LEMMA WatchedNext ==
    [Next]_vars => \/ watched' \in {watched, NoSignUp}
                   \/ \E s \in SignUps, a \in Accounts :
                          TapSignUp(s, a) /\ watched' = s
BY DEF Next, LoginEnds, Launch, Kill, Step, TapLogin, LoginSucceeds,
   LoginFails, OpenRegistration, TapBack, SwipeBack, TapSignUp, AccountMade,
   Created, ImageStored, AddressFetched, StepFails, Commit, Acked, Refused,
   OpenProfile, Raise, Ends, CloseProfile, Logout, vars, appVars, WatchedAfter

LEMMA TypeInvNext == TypeInv /\ [Next]_vars => TypeInv'
<1> SUFFICES ASSUME TypeInv, [Next]_vars PROVE TypeInv'
  OBVIOUS
<1>1. /\ stage \in [SignUps -> Stages]
      /\ queue \in [Accounts -> Seq(SignUps)]
      /\ left \subseteq SignUps
      /\ watched \in SignUps \cup {NoSignUp}
  BY DEF TypeInv, TypeOK
<1>2. TypeOK'
  BY TypeNext DEF TypeInv
<1>3. ASSUME NEW s \in SignUps
      PROVE  /\ stage[s] # "unused" => stage'[s] # "unused"
             /\ stage'[s] # "unused" => subject'[s] \in Accounts
  <2>1. ASSUME NEW a \in Accounts, TapSignUp(s, a)
        PROVE  stage'[s] = "asked" /\ subject'[s] = a
    BY <1>1, <2>1 DEF TapSignUp, TypeInv, TypeOK
  <2> QED
    BY <2>1, StageNext DEF TypeInv, Named
<1>4. Named'
  BY <1>3 DEF Named
<1>5. ASSUME NEW a \in Accounts, NEW i \in 1 .. Len(queue'[a])
      PROVE  stage'[queue'[a][i]] # "unused"
  <2>1. CASE queue'[a] = queue[a]
    <3>1. queue[a][i] \in SignUps /\ stage[queue[a][i]] # "unused"
      BY <1>1, <1>5, <2>1 DEF TypeInv, Started
    <3> QED
      BY <1>3, <2>1, <3>1
  <2>2. CASE queue[a] # << >> /\ queue'[a] = Tail(queue[a])
    <3>1. i + 1 \in 1 .. Len(queue[a]) /\ queue'[a][i] = queue[a][i + 1]
      BY <1>1, <1>5, <2>2, QueueFront
    <3>2. queue[a][i + 1] \in SignUps /\ stage[queue[a][i + 1]] # "unused"
      BY <1>1, <3>1 DEF TypeInv, Started
    <3> QED
      BY <1>3, <3>1, <3>2
  <2>3. ASSUME NEW s \in SignUps, AddressFetched(s),
               queue'[a] = Append(queue[a], s)
        PROVE  stage'[queue'[a][i]] # "unused"
    <3>1. stage[s] # "unused"
      BY <2>3 DEF AddressFetched
    <3>2. \/ queue'[a][i] = s
          \/ i \in 1 .. Len(queue[a]) /\ queue'[a][i] = queue[a][i]
      BY <1>1, <1>5, <2>3, QueueEnds
    <3>3. i \in 1 .. Len(queue[a]) =>
              queue[a][i] \in SignUps /\ stage[queue[a][i]] # "unused"
      BY <1>1 DEF TypeInv, Started
    <3> QED
      BY <1>3, <3>1, <3>2, <3>3
  <2> QED
    BY <2>1, <2>2, <2>3, QueueNext DEF TypeInv
<1>6. ASSUME NEW s, s \in left' PROVE stage'[s] # "unused"
  <2>1. left' = left \/ SwipeBack
    BY LeftNext
  <2>2. s \in left \/ (s = watched /\ watched # NoSignUp)
    BY <1>6, <2>1 DEF SwipeBack
  <2> QED
    BY <1>1, <1>3, <2>2 DEF TypeInv, Started
<1>7. ASSUME watched' # NoSignUp PROVE stage'[watched'] # "unused"
  <2>1. CASE watched' = watched
    BY <1>1, <1>3, <1>7, <2>1 DEF TypeInv, Started
  <2>2. ASSUME NEW s \in SignUps, NEW a \in Accounts, TapSignUp(s, a),
               watched' = s
        PROVE  stage'[watched'] # "unused"
    BY <1>1, <2>2 DEF TapSignUp
  <2> QED
    BY <1>7, <2>1, <2>2, WatchedNext
<1> QED
  BY <1>2, <1>4, <1>5, <1>6, <1>7 DEF TypeInv, Started

(* Every variable of the session keeps its type.                           *)
THEOREM TypeCorrect == Spec => []TypeOK
<1>1. Init => TypeInv
  BY TypeInit DEF Init, TypeInv, Named, Started
<1>2. TypeInv => TypeOK
  BY DEF TypeInv
<1> QED
  BY TypeInvNext, <1>1, <1>2, PTL DEF Spec

-----------------------------------------------------------------------------
(* The current user belongs to account a, or was signed in by a sign-up    *)
(* that was swiped away.                                                   *)
SignedInFor(a) ==
    /\ currentUser # Nobody
    /\ currentUser = a \/ \E t \in left : subject[t] = currentUser

(* How the screens, the HUD and the sign-ups keep in step: logins are only *)
(* under way on their screen, a sign-up that goes on unseen was swiped     *)
(* away, and the one the screen waits for still has its user signed in.    *)
Flow ==
    /\ screen # "login" => loggingIn = Nobody
    /\ watched # NoSignUp => screen = "register"
    /\ \A s \in SignUps : stage[s] \in Alive => s = watched \/ s \in left
    /\ watched # NoSignUp /\ stage[watched] \in {"signedUp", "uploaded"} =>
           SignedInFor(subject[watched])

(* The user is missed where the code expects none to be.                   *)
Missteps ==
    /\ HomeIsSignedIn
    /\ CrashesAfterMisstep
    /\ HomeListIsMine
    /\ screen # "down" => crashed = FALSE

FlowInv == TypeInv /\ Flow /\ Missteps

LEMMA EndsFlow ==
    ASSUME FlowInv, Ends, crashed' = crashed \/ strayed \/ left # {}
    PROVE  Flow' /\ Missteps'
BY DEF FlowInv, TypeInv, TypeOK, Flow, Missteps, Ends, Alive, Preparing,
   HomeIsSignedIn, CrashesAfterMisstep, HomeListIsMine, SignedInFor

LEMMA RaiseFlow ==
    ASSUME FlowInv, Raise, strayed \/ left # {}
    PROVE  Flow' /\ Missteps'
BY EndsFlow DEF Raise

LEMMA FlowNext == FlowInv /\ [Next]_vars => Flow' /\ Missteps'
<1> SUFFICES ASSUME FlowInv, [Next]_vars PROVE Flow' /\ Missteps'
  OBVIOUS
<1> USE SessionAssumption DEF FlowInv, Flow, Missteps, HomeIsSignedIn,
        CrashesAfterMisstep, HomeListIsMine, SignedInFor, appVars, historyVars
<1>0. TypeOK /\ Named /\ Started
  BY DEF TypeInv
<1>1. CASE Launch
  BY <1>0, <1>1 DEF TypeOK, Launch, ListenedFor, LoginCheck
<1>2. CASE Kill
  BY <1>2, EndsFlow DEF Kill
<1>3. ASSUME NEW a \in Accounts, TapLogin(a) PROVE Flow' /\ Missteps'
  BY <1>0, <1>3 DEF TypeOK, TapLogin
<1>4. CASE LoginSucceeds
  BY <1>0, <1>4 DEF TypeOK, LoginSucceeds
<1>5. CASE LoginFails
  BY <1>0, <1>5 DEF TypeOK, LoginFails, AfterFailedLogin, ListenedFor
<1>6. CASE OpenRegistration \/ TapBack
  BY <1>0, <1>6 DEF TypeOK, OpenRegistration, TapBack, TapsReach
<1>7. CASE SwipeBack
  BY <1>0, <1>7 DEF TypeOK, SwipeBack
<1>8. ASSUME NEW s \in SignUps, NEW a \in Accounts, TapSignUp(s, a)
      PROVE  Flow' /\ Missteps'
  BY <1>0, <1>8 DEF TypeOK, Started, TapSignUp, TapsReach
<1>9. ASSUME NEW s \in SignUps, Step(s) PROVE Flow' /\ Missteps'
  <2>1. CASE AccountMade(s)
    BY <1>0, <2>1 DEF TypeOK, AccountMade, Alive, Preparing
  <2>2. CASE Created(s)
    BY <1>0, <2>2 DEF TypeOK, Named, Created, Alive, Preparing
  <2>3. CASE ImageStored(s)
    BY <1>0, <2>3 DEF TypeOK, ImageStored, Alive, Preparing
  <2>4. CASE AddressFetched(s)
    <3>1. CASE currentUser = Nobody /\ Raise
      BY <1>0, <2>4, <3>1, RaiseFlow DEF AddressFetched, Alive, Preparing
    <3>2. CASE ~ (currentUser = Nobody /\ Raise)
      BY <1>0, <2>4, <3>2 DEF TypeOK, AddressFetched, Alive, Preparing
    <3> QED
      BY <2>4, <3>1, <3>2 DEF AddressFetched
  <2>5. CASE StepFails(s)
    BY <1>0, <2>5 DEF TypeOK, StepFails, ScreenAfter, WatchedAfter, Alive, Preparing
  <2> QED
    BY <1>9, <2>1, <2>2, <2>3, <2>4, <2>5 DEF Step
<1>10. ASSUME NEW a \in Accounts, Commit(a) PROVE Flow' /\ Missteps'
  BY <1>0, <1>10 DEF TypeOK, Commit
<1>11. ASSUME NEW a \in Accounts, Acked(a) \/ Refused(a)
       PROVE  Flow' /\ Missteps'
  <2>1. Head(queue[a]) \in SignUps
    BY <1>0, <1>11, QueueFront DEF TypeOK, Acked, ScreenAfter, Refused
  <2>2. CASE Acked(a)
    BY <1>0, <2>1, <2>2 DEF TypeOK, Acked, ScreenAfter, WatchedAfter, ListenedFor, Alive,
       Preparing
  <2>3. CASE Refused(a)
    BY <1>0, <2>1, <2>3 DEF TypeOK, Refused, ScreenAfter, WatchedAfter, Alive, Preparing
  <2> QED
    BY <1>11, <2>2, <2>3
<1>12. CASE OpenProfile
  <2>1. CASE currentUser = Nobody /\ Raise
    BY <1>12, <2>1, RaiseFlow DEF OpenProfile
  <2>2. CASE ~ (currentUser = Nobody /\ Raise)
    BY <1>0, <1>12, <2>2 DEF TypeOK, OpenProfile
  <2> QED
    BY <1>12, <2>1, <2>2 DEF OpenProfile
<1>13. CASE CloseProfile
  BY <1>0, <1>13 DEF TypeOK, CloseProfile
<1>14. CASE Logout
  BY <1>0, <1>14 DEF TypeOK, Logout, AfterLogout
<1>15. CASE UNCHANGED vars
  BY <1>15 DEF vars, Alive, Preparing
<1> QED
  BY <1>1, <1>2, <1>3, <1>4, <1>5, <1>6, <1>7, <1>8, <1>9, <1>10, <1>11,
     <1>12, <1>13, <1>14, <1>15 DEF Next, LoginEnds

LEMMA FlowInvInit == Init => FlowInv
BY TypeInit DEF Init, FlowInv, TypeInv, Named, Started, Flow, Missteps, Alive,
   Preparing, HomeIsSignedIn, CrashesAfterMisstep, HomeListIsMine

LEMMA FlowInvNext == FlowInv /\ [Next]_vars => FlowInv'
BY TypeInvNext, FlowNext DEF FlowInv

(* A home screen without a user goes back to a failed login.               *)
THEOREM HomeSignedIn == Spec => []HomeIsSignedIn
<1>1. FlowInv => HomeIsSignedIn
  BY DEF FlowInv, Missteps
<1> QED
  BY FlowInvInit, FlowInvNext, <1>1, PTL DEF Spec

(* An empty document path goes back to a failed login or a swipe.          *)
THEOREM CrashesExplained == Spec => []CrashesAfterMisstep
<1>1. FlowInv => CrashesAfterMisstep
  BY DEF FlowInv, Missteps
<1> QED
  BY FlowInvInit, FlowInvNext, <1>1, PTL DEF Spec

(* The list on the home screen is that of the user signed in, or a sign-up *)
(* swiped away signed another in.                                          *)
THEOREM HomeListMine == Spec => []HomeListIsMine
<1>1. FlowInv => HomeListIsMine
  BY DEF FlowInv, Missteps
<1> QED
  BY FlowInvInit, FlowInvNext, <1>1, PTL DEF Spec

-----------------------------------------------------------------------------
(* Values of account b may be under users/a.                               *)
Excused(a, b) == a = b \/ \E s \in left : subject[s] \in {a, b}

ProfileInv ==
    /\ \A a \in Accounts : profileOf[a] # Nobody => Excused(a, profileOf[a])
    /\ \A a \in Accounts : \A i \in 1 .. Len(queue[a]) :
           Excused(a, subject[queue[a][i]])

(* An excuse stays one: accounts of sign-ups swiped away do not change.    *)
LEMMA ExcusedNext ==
    ASSUME FlowInv, [Next]_vars, NEW a, NEW b, Excused(a, b)
    PROVE  Excused(a, b)'
<1>1. left \subseteq left'
  BY LeftNext DEF SwipeBack
<1>2. ASSUME NEW s \in left PROVE subject'[s] = subject[s]
  <2>1. s \in SignUps /\ stage[s] # "unused"
    BY DEF FlowInv, TypeInv, TypeOK, Started
  <2> QED
    BY <2>1, StageNext DEF TapSignUp, FlowInv
<1> QED
  BY <1>1, <1>2 DEF Excused

LEMMA ProfileNext == FlowInv /\ ProfileInv /\ [Next]_vars => ProfileInv'
<1> SUFFICES ASSUME FlowInv, ProfileInv, [Next]_vars PROVE ProfileInv'
  OBVIOUS
<1>1. /\ queue \in [Accounts -> Seq(SignUps)]
      /\ profileOf \in [Accounts -> Accounts \cup {Nobody}]
      /\ TypeOK /\ Named /\ Started /\ TypeInv
  BY DEF FlowInv, TypeInv, TypeOK
<1>2. \A a, b : Excused(a, b) => Excused(a, b)'
  BY ExcusedNext
<1>3. ASSUME NEW s \in SignUps, stage[s] # "unused"
      PROVE  subject'[s] = subject[s]
  BY <1>1, <1>3, StageNext DEF TapSignUp
<1>4. ASSUME NEW a \in Accounts, NEW i \in 1 .. Len(queue[a]), NEW b,
             b = subject'[queue[a][i]]
      PROVE  b = subject[queue[a][i]] /\ Excused(a, b)'
  <2>1. queue[a][i] \in SignUps /\ stage[queue[a][i]] # "unused"
    BY <1>1, <1>4 DEF Started
  <2>2. b = subject[queue[a][i]]
    BY <1>3, <1>4, <2>1
  <2>3. Excused(a, b)
    BY <1>4, <2>2 DEF ProfileInv
  <2> QED
    BY <1>2, <2>2, <2>3
<1>5. ASSUME NEW a \in Accounts, NEW b, b = profileOf'[a], b # Nobody
      PROVE  Excused(a, b)'
  <2>1. CASE profileOf'[a] = profileOf[a]
    BY <1>2, <1>5, <2>1 DEF ProfileInv
  <2>2. CASE Commit(a)
    <3>1. 1 \in 1 .. Len(queue[a]) /\ Head(queue[a]) = queue[a][1]
      BY <1>1, <2>2, QueueFront DEF Commit
    <3>2. b = subject'[queue[a][1]]
      BY <1>1, <1>5, <2>2, <3>1 DEF Commit, Values
    <3> QED
      BY <1>4, <3>1, <3>2
  <2>3. profileOf'[a] = profileOf[a] \/ Commit(a)
    <3>1. ASSUME NEW x \in Accounts, Commit(x)
          PROVE  profileOf'[a] = profileOf[a] \/ Commit(a)
      BY <1>1, <3>1 DEF Commit
    <3> QED
      BY <3>1 DEF Next, LoginEnds, Launch, Kill, Step, TapLogin, LoginSucceeds,
         LoginFails, OpenRegistration, TapBack, SwipeBack, TapSignUp,
         AccountMade, Created, ImageStored, AddressFetched, StepFails, Acked,
         Refused, OpenProfile, Raise, Ends, CloseProfile, Logout, vars,
         serverVars
  <2> QED
    BY <2>1, <2>2, <2>3
<1>6. ASSUME NEW a \in Accounts, NEW i \in 1 .. Len(queue'[a]), NEW b,
             b = subject'[queue'[a][i]]
      PROVE  Excused(a, b)'
  <2>1. CASE queue'[a] = queue[a]
    BY <1>4, <1>6, <2>1
  <2>2. CASE queue[a] # << >> /\ queue'[a] = Tail(queue[a])
    <3>1. i + 1 \in 1 .. Len(queue[a]) /\ queue'[a][i] = queue[a][i + 1]
      BY <1>1, <1>6, <2>2, QueueFront
    <3> QED
      BY <1>4, <1>6, <3>1
  <2>3. ASSUME NEW s \in SignUps, AddressFetched(s), ~ Raise,
               currentUser = a, queue'[a] = Append(queue[a], s)
        PROVE  Excused(a, b)'
    <3>1. \/ queue'[a][i] = s
          \/ i \in 1 .. Len(queue[a]) /\ queue'[a][i] = queue[a][i]
      BY <1>1, <1>6, <2>3, QueueEnds
    <3>2. CASE i \in 1 .. Len(queue[a]) /\ queue'[a][i] = queue[a][i]
      BY <1>4, <1>6, <3>2
    <3>3. CASE queue'[a][i] = s
      <4>1. stage[s] = "uploaded"
        BY <2>3 DEF AddressFetched
      <4>2. b = subject[s]
        BY <1>3, <1>6, <3>3, <4>1
      <4>3. s = watched \/ s \in left
        BY <4>1 DEF FlowInv, Flow, Alive, Preparing
      <4>4. CASE s \in left
        BY <1>2, <4>2, <4>4 DEF Excused
      <4>5. CASE s = watched
        <5>1. SignedInFor(subject[s])
          BY <4>1, <4>5, SessionAssumption DEF FlowInv, Flow
        <5>2. Excused(a, b)
          BY <2>3, <4>2, <5>1 DEF SignedInFor, Excused
        <5> QED
          BY <1>2, <5>2
      <4> QED
        BY <4>3, <4>4, <4>5
    <3> QED
      BY <3>1, <3>2, <3>3
  <2> QED
    BY <1>1, <2>1, <2>2, <2>3, QueueNext
<1> QED
  BY <1>5, <1>6 DEF ProfileInv

(* A profile holds another account's values only on account of a sign-up   *)
(* of one of the two that was swiped away.                                 *)
THEOREM ProfilesOwn == Spec => []ProfilesMatch
<1>1. Init => ProfileInv
  BY DEF Init, ProfileInv, Excused
<1>2. ProfileInv => ProfilesMatch
  BY DEF ProfileInv, ProfilesMatch, Excused
<1> QED
  BY FlowInvInit, FlowInvNext, ProfileNext, <1>1, <1>2, PTL DEF Spec

-----------------------------------------------------------------------------
(* The current user, and whoever is about to be, has an account.           *)
AccountInv ==
    /\ currentUser \in accounts \cup {Nobody}
    /\ \A s \in SignUps : stage[s] = "made" => subject[s] \in accounts

LEMMA AccountNext == TypeInv /\ AccountInv /\ [Next]_vars => AccountInv'
<1> SUFFICES ASSUME TypeInv, AccountInv, [Next]_vars PROVE AccountInv'
  OBVIOUS
<1> USE DEF AccountInv
<1>1. TypeOK
  BY DEF TypeInv
<1>2. ASSUME NEW s \in SignUps, AccountMade(s) PROVE AccountInv'
  BY <1>1, <1>2 DEF TypeOK, AccountMade
<1>3. ASSUME NEW s \in SignUps, Created(s) PROVE AccountInv'
  BY <1>1, <1>3 DEF TypeOK, Created, serverVars
<1>4. ASSUME NEW s \in SignUps, NEW a \in Accounts, TapSignUp(s, a)
      PROVE  AccountInv'
  BY <1>1, <1>4 DEF TypeOK, TapSignUp, serverVars
<1>5. CASE Ends
  BY <1>1, <1>5 DEF TypeOK, Ends, Alive, Preparing, serverVars
<1>6. ASSUME NEW s \in SignUps,
             ImageStored(s) \/ AddressFetched(s) \/ StepFails(s)
      PROVE  AccountInv'
  BY <1>1, <1>5, <1>6 DEF TypeOK, ImageStored, AddressFetched, StepFails,
     Raise, serverVars
<1>7. ASSUME NEW a \in Accounts, Acked(a) \/ Refused(a) PROVE AccountInv'
  <2>1. /\ stage' = [stage EXCEPT ![Head(queue[a])] = "over"]
        /\ UNCHANGED <<subject, currentUser, accounts>>
    BY <1>7 DEF Acked, Refused, serverVars
  <2> QED
    BY <1>1, <2>1 DEF TypeOK
<1>8. CASE LoginSucceeds \/ Logout
  BY <1>8 DEF LoginSucceeds, Logout, serverVars
<1>9. CASE UNCHANGED <<currentUser, accounts, stage, subject>>
  BY <1>9
<1> QED
  BY <1>2, <1>3, <1>4, <1>5, <1>6, <1>7, <1>8, <1>9 DEF Next, LoginEnds,
     Launch, Kill, Step, TapLogin, LoginFails, OpenRegistration, TapBack,
     SwipeBack, Commit, OpenProfile, Raise, CloseProfile, vars, serverVars

LEMMA HomeStep ==
    FlowInv /\ ProfileInv /\ AccountInv /\ [Next]_vars
        => [ComesHomeRegistered]_vars
<1> SUFFICES ASSUME FlowInv, ProfileInv, AccountInv, Next,
                    screen = "register", screen' = "home"
             PROVE  ComesHomeRegistered
  BY DEF ComesHomeRegistered
<1>1. TypeOK /\ Named /\ Started
  BY DEF FlowInv, TypeInv
<1>2. loggingIn = Nobody /\ loggingIn \notin accounts
  BY <1>1, SessionAssumption DEF FlowInv, Flow, TypeOK
<1>3. PICK a \in Accounts : Acked(a)
  BY <1>2, SessionAssumption DEF Next, LoginEnds, LoginSucceeds, LoginFails,
     Launch, Kill, Ends, Step, TapLogin, OpenRegistration, TapBack, SwipeBack,
     TapSignUp, AccountMade, Created, ImageStored, AddressFetched, StepFails,
     Commit, Refused, OpenProfile, Raise, CloseProfile, Logout, AfterLogout,
     ScreenAfter, appVars
<1>4. /\ currentUser = a /\ currentUser' = a /\ a \in accounts'
      /\ queue[a] # << >> /\ profileOf' = profileOf
      /\ profileOf[a] = subject[Head(queue[a])]
  BY <1>3, SessionAssumption DEF Acked, Stored, Values, AccountInv, serverVars
<1>5. /\ 1 \in 1 .. Len(queue[a]) /\ Head(queue[a]) = queue[a][1]
      /\ Head(queue[a]) \in SignUps
  BY <1>1, <1>4, QueueFront DEF TypeOK
<1>6. profileOf[a] \in Accounts
  BY <1>1, <1>4, <1>5 DEF Named, Started
<1>7. left = {} => profileOf[a] = a
  BY <1>4, <1>5 DEF ProfileInv, Excused
<1> QED
  BY <1>4, <1>6, <1>7, SessionAssumption DEF ComesHomeRegistered

(* The registration screen leads home only once the server has the profile *)
(* of the user signed in.                                                  *)
THEOREM HomeOnceRegistered == Spec => RegisteredAtHome
<1>1. Init => ProfileInv /\ AccountInv
  BY DEF Init, ProfileInv, AccountInv, Excused
<1>2. FlowInv => TypeInv
  BY DEF FlowInv
<1> QED
  BY FlowInvInit, FlowInvNext, ProfileNext, AccountNext, HomeStep, <1>1, <1>2,
     PTL DEF Spec, RegisteredAtHome

-----------------------------------------------------------------------------
(* Sign-up s is still at work for account a, or broke, or its write waits. *)
Pursues(s, a) ==
    /\ subject[s] = a
    /\ \/ stage[s] \in Preparing
       \/ s \in broken
       \/ \E i \in 1 .. Len(queue[a]) : queue[a][i] = s

(* Queued and broken sign-ups have got as far as that.                     *)
PursuitInv ==
    /\ \A s \in broken : stage[s] # "unused"
    /\ \A a \in Accounts : \A i \in 1 .. Len(queue[a]) :
           stage[queue[a][i]] \in {"saving", "over"}
    /\ \A a \in accounts :
           profileOf[a] = Nobody => \E s \in SignUps : Pursues(s, a)

(* Past the write to users/<uid> a sign-up only ends.                      *)
LEMMA StageForward ==
    ASSUME TypeInv, [Next]_vars, NEW s \in SignUps,
           stage[s] \in {"saving", "over"}
    PROVE  stage'[s] \in {"saving", "over"}
<1>1. stage \in [SignUps -> Stages] /\ queue \in [Accounts -> Seq(SignUps)]
  BY DEF TypeInv, TypeOK
<1>2. ASSUME NEW x \in SignUps, NEW a \in Accounts, TapSignUp(x, a)
      PROVE  stage'[s] = stage[s]
  BY <1>1, <1>2 DEF TapSignUp
<1>3. CASE Ends
  BY <1>1, <1>3 DEF Ends
<1>4. ASSUME NEW x \in SignUps, Step(x) PROVE stage'[s] \in {"saving", "over"}
  <2>1. CASE AccountMade(x)
    BY <1>1, <2>1 DEF AccountMade
  <2>2. CASE Created(x) \/ ImageStored(x)
    BY <1>1, <2>2 DEF Created, ImageStored
  <2>3. CASE AddressFetched(x)
    BY <1>1, <1>3, <2>3 DEF AddressFetched, Raise
  <2>4. CASE StepFails(x)
    BY <1>1, <2>4 DEF StepFails
  <2> QED
    BY <1>4, <2>1, <2>2, <2>3, <2>4 DEF Step
<1>5. ASSUME NEW a \in Accounts, Acked(a) \/ Refused(a)
      PROVE  stage'[s] \in {"saving", "over"}
  <2>1. stage' = [stage EXCEPT ![Head(queue[a])] = "over"]
    BY <1>5 DEF Acked, Refused
  <2> QED
    BY <1>1, <2>1
<1>6. CASE UNCHANGED stage
  BY <1>6
<1> QED
  BY <1>2, <1>3, <1>4, <1>5, <1>6 DEF Next, LoginEnds, Launch, Kill,
     TapLogin, LoginSucceeds, LoginFails, OpenRegistration, TapBack, SwipeBack,
     Commit, OpenProfile, Raise, CloseProfile, Logout, vars

(* What breaks was started: it was preparing, or its write was queued.     *)
LEMMA BrokenNext ==
    ASSUME TypeInv, [Next]_vars
    PROVE  /\ broken \subseteq broken'
           /\ \A s \in broken' : s \in broken \/ stage[s] # "unused"
<1>1. ASSUME NEW a \in Accounts, Refused(a)
      PROVE  /\ broken' = broken \cup {Head(queue[a])}
             /\ stage[Head(queue[a])] # "unused"
  <2>1. queue[a] # << >> /\ broken' = broken \cup {Head(queue[a])}
    BY <1>1 DEF Refused
  <2>2. queue[a] \in Seq(SignUps)
    BY DEF TypeInv, TypeOK
  <2> QED
    BY <2>1, <2>2, QueueFront DEF TypeInv, Started
<1>2. CASE Ends
  BY <1>2 DEF Ends, Preparing
<1>3. ASSUME NEW x \in SignUps, Step(x)
      PROVE  \/ broken' \in {broken, broken \cup {x}} /\ stage[x] # "unused"
             \/ Ends
  BY <1>3 DEF Step, AccountMade, Created, ImageStored, AddressFetched,
     StepFails, Raise, Preparing, historyVars
<1>4. CASE UNCHANGED broken
  BY <1>4
<1> QED
  BY <1>1, <1>2, <1>3, <1>4 DEF Next, LoginEnds, Launch, Kill, TapLogin,
     LoginSucceeds, LoginFails, OpenRegistration, TapBack, SwipeBack, TapSignUp,
     Commit, Acked, OpenProfile, Raise, CloseProfile, Logout, vars, historyVars

(* The write a server has answered with success left a profile behind.     *)
LEMMA AckedHasProfile ==
    ASSUME TypeInv, NEW a \in Accounts, Acked(a)
    PROVE  profileOf'[a] # Nobody
<1>1. queue[a] # << >> /\ profileOf' = profileOf
      /\ profileOf[a] = subject[Head(queue[a])]
  BY DEF Acked, Stored, Values, serverVars
<1>2. queue[a] \in Seq(SignUps)
  BY DEF TypeInv, TypeOK
<1>3. Head(queue[a]) \in SignUps /\ stage[Head(queue[a])] # "unused"
  BY <1>1, <1>2, QueueFront DEF TypeInv, Started
<1> QED
  BY <1>1, <1>3, SessionAssumption DEF TypeInv, Named

(* A queue gets shorter by an answer to its first write.                   *)
LEMMA QueueShrinks ==
    ASSUME TypeInv, [Next]_vars, NEW a \in Accounts, queue[a] # << >>,
           queue'[a] = Tail(queue[a])
    PROVE  Acked(a) \/ Refused(a)
<1>1. /\ queue \in [Accounts -> Seq(SignUps)] /\ queue[a] \in Seq(SignUps)
      /\ Len(queue'[a]) = Len(queue[a]) - 1 /\ Len(queue[a]) \in Nat
  BY DEF TypeInv, TypeOK
<1>2. ASSUME NEW x \in Accounts, Acked(x) \/ Refused(x), x # a PROVE FALSE
  <2>1. queue' = [queue EXCEPT ![x] = Tail(queue[x])]
    BY <1>2 DEF Acked, Refused
  <2>2. queue'[a] = queue[a]
    BY <1>1, <1>2, <2>1
  <2>3. Len(queue'[a]) = Len(queue[a])
    BY <2>2
  <2> QED
    BY <1>1, <2>3
<1>3. ASSUME NEW s \in SignUps, AddressFetched(s), ~ Raise PROVE FALSE
  <2>1. queue' = [queue EXCEPT ![currentUser] = Append(queue[currentUser], s)]
        /\ currentUser \in Accounts
    BY <1>3 DEF AddressFetched, Queued, TypeInv, TypeOK
  <2>2. Len(Append(queue[a], s)) = Len(queue[a]) + 1
    BY <1>1
  <2>3. CASE queue'[a] = queue[a]
    <3>1. Len(queue'[a]) = Len(queue[a])
      BY <2>3
    <3> QED
      BY <1>1, <3>1
  <2>4. CASE queue'[a] = Append(queue[a], s)
    <3>1. Len(queue'[a]) = Len(queue[a]) + 1
      BY <2>2, <2>4
    <3> QED
      BY <1>1, <3>1
  <2>5. queue'[a] = queue[a] \/ queue'[a] = Append(queue[a], s)
    BY <1>1, <2>1
  <2> QED
    BY <2>3, <2>4, <2>5
<1>4. CASE UNCHANGED queue
  BY <1>1, <1>4
<1>5. Raise => UNCHANGED queue
  BY DEF Raise, Ends
<1> QED
  BY <1>2, <1>3, <1>4, <1>5 DEF Next, LoginEnds, Launch, Kill, Step,
     TapLogin, LoginSucceeds, LoginFails, OpenRegistration, TapBack, SwipeBack,
     TapSignUp, AccountMade, Created, ImageStored, StepFails, Commit, Ends,
     OpenProfile, CloseProfile, Logout, vars

(* Only the server's answer to createUser makes an account.                *)
LEMMA AccountsNext ==
    [Next]_vars => \/ accounts' = accounts
                   \/ \E s \in SignUps :
                          /\ AccountMade(s)
                          /\ accounts' = accounts \cup {subject[s]}
BY DEF Next, LoginEnds, Launch, Kill, Step, TapLogin, LoginSucceeds,
   LoginFails, OpenRegistration, TapBack, SwipeBack, TapSignUp, AccountMade,
   Created, ImageStored, AddressFetched, StepFails, Commit, Acked, Refused,
   OpenProfile, Raise, Ends, CloseProfile, Logout, vars, serverVars

(* A profile once written is not taken away.                               *)
LEMMA ProfileStays ==
    ASSUME TypeInv, [Next]_vars, NEW a \in Accounts, profileOf'[a] = Nobody
    PROVE  profileOf[a] = Nobody
<1>1. /\ queue \in [Accounts -> Seq(SignUps)]
      /\ profileOf \in [Accounts -> Accounts \cup {Nobody}]
  BY DEF TypeInv, TypeOK
<1>2. ASSUME NEW x \in Accounts, Commit(x) PROVE profileOf[a] = Nobody
  <2>1. /\ queue[x] # << >> /\ queue[x] \in Seq(SignUps)
        /\ profileOf' = [profileOf EXCEPT ![x] = subject[Head(queue[x])]]
    BY <1>1, <1>2 DEF Commit, Values
  <2>2. Head(queue[x]) \in SignUps /\ stage[Head(queue[x])] # "unused"
    BY <2>1, QueueFront DEF TypeInv, Started
  <2>3. subject[Head(queue[x])] # Nobody
    BY <2>2, SessionAssumption DEF TypeInv, Named
  <2> QED
    BY <1>1, <2>1, <2>3
<1>3. CASE UNCHANGED profileOf
  BY <1>3
<1> QED
  BY <1>2, <1>3 DEF Next, LoginEnds, Launch, Kill, Step, TapLogin,
     LoginSucceeds, LoginFails, OpenRegistration, TapBack, SwipeBack, TapSignUp,
     AccountMade, Created, ImageStored, AddressFetched, StepFails, Acked,
     Refused, OpenProfile, Raise, Ends, CloseProfile, Logout, vars, serverVars

(* A sign-up that pursues an account goes on with it, or leaves a profile. *)
LEMMA PursuitGoesOn ==
    ASSUME TypeInv, PursuitInv, [Next]_vars, NEW s \in SignUps,
           NEW a \in Accounts, Pursues(s, a), profileOf'[a] = Nobody
    PROVE  Pursues(s, a)'
<1>1. /\ stage \in [SignUps -> Stages] /\ subject[s] = a
      /\ queue \in [Accounts -> Seq(SignUps)] /\ queue[a] \in Seq(SignUps)
  BY DEF TypeInv, TypeOK, Pursues
<1>2. stage[s] # "unused"
  BY DEF Pursues, PursuitInv, Preparing, TypeInv, Started
<1>3. subject'[s] = a
  BY <1>1, <1>2, StageNext DEF TapSignUp
<1>4. CASE s \in broken
  BY <1>3, <1>4, BrokenNext DEF Pursues
<1>5. CASE stage[s] \in Preparing
  <2> DEFINE Goes == \/ stage'[s] \in Preparing
                     \/ s \in broken'
                     \/ \E i \in 1 .. Len(queue'[a]) : queue'[a][i] = s
  <2>1. Goes
    <3>1. ASSUME NEW x \in SignUps, NEW b \in Accounts, TapSignUp(x, b)
          PROVE  stage'[s] = stage[s]
      BY <1>1, <1>2, <3>1 DEF TapSignUp
    <3>2. CASE Ends
      BY <1>5, <3>2 DEF Ends
    <3>3. ASSUME NEW x \in SignUps, AddressFetched(x), x = s PROVE Goes
      <4>1. CASE Raise
        BY <3>2, <4>1 DEF Raise
      <4>2. CASE /\ queue' = [queue EXCEPT ![currentUser] =
                                  Append(queue[currentUser], s)]
                 /\ currentUser = a
        <5>1. queue'[a] = Append(queue[a], s)
          BY <1>1, <4>2
        <5>2. /\ Len(queue[a]) + 1 \in 1 .. Len(queue'[a])
              /\ queue'[a][Len(queue[a]) + 1] = s
          BY <1>1, <5>1
        <5> QED
          BY <5>2
      <4> QED
        BY <1>1, <3>3, <4>1, <4>2 DEF AddressFetched, Queued
    <3>4. ASSUME NEW x \in SignUps, Step(x) PROVE Goes
      <4>1. CASE AccountMade(x)
        BY <1>1, <1>5, <4>1 DEF AccountMade, Preparing
      <4>2. CASE Created(x) \/ ImageStored(x)
        BY <1>1, <1>5, <4>2 DEF Created, ImageStored, Preparing
      <4>3. CASE AddressFetched(x) /\ x # s
        BY <1>1, <1>5, <3>2, <4>3 DEF AddressFetched, Raise
      <4>4. CASE StepFails(x)
        BY <1>1, <1>5, <4>4 DEF StepFails
      <4> QED
        BY <3>3, <3>4, <4>1, <4>2, <4>3, <4>4 DEF Step
    <3>5. ASSUME NEW x \in Accounts, Acked(x) \/ Refused(x)
          PROVE  stage'[s] = stage[s]
      <4>1. /\ stage' = [stage EXCEPT ![Head(queue[x])] = "over"]
            /\ queue[x] # << >> /\ queue[x] \in Seq(SignUps)
        BY <1>1, <3>5 DEF Acked, Refused
      <4>2. stage[Head(queue[x])] \in {"saving", "over"}
        BY <4>1, QueueFront DEF PursuitInv
      <4> QED
        BY <1>1, <1>5, <4>1, <4>2 DEF Preparing
    <3>6. CASE UNCHANGED stage
      BY <1>5, <3>6
    <3> QED
      BY <1>5, <3>1, <3>2, <3>4, <3>5, <3>6 DEF Next, LoginEnds, Launch, Kill,
         TapLogin, LoginSucceeds, LoginFails, OpenRegistration, TapBack,
         SwipeBack, Commit, OpenProfile, Raise, CloseProfile, Logout, vars
  <2> QED
    BY <1>3, <2>1 DEF Pursues
<1>6. ASSUME NEW i \in 1 .. Len(queue[a]), queue[a][i] = s
      PROVE  s \in broken' \/ \E j \in 1 .. Len(queue'[a]) : queue'[a][j] = s
  <2>1. CASE queue'[a] = queue[a]
    BY <1>6, <2>1
  <2>2. CASE i # 1 /\ queue[a] # << >> /\ queue'[a] = Tail(queue[a])
    <3>1. i - 1 \in 1 .. Len(queue'[a]) /\ queue'[a][i - 1] = queue[a][i]
      BY <1>1, <1>6, <2>2
    <3> QED
      BY <1>6, <3>1
  <2>3. CASE i = 1 /\ queue[a] # << >> /\ queue'[a] = Tail(queue[a])
    <3>1. Head(queue[a]) = s
      BY <1>1, <1>6, <2>3
    <3>2. ~ Acked(a)
      BY AckedHasProfile
    <3>3. Refused(a)
      BY <1>1, <2>3, <3>2, QueueShrinks
    <3> QED
      BY <3>1, <3>3 DEF Refused
  <2>4. ASSUME NEW x \in SignUps, queue'[a] = Append(queue[a], x)
        PROVE  \E j \in 1 .. Len(queue'[a]) : queue'[a][j] = s
    <3>1. i \in 1 .. Len(queue'[a]) /\ queue'[a][i] = queue[a][i]
      BY <1>1, <1>6, <2>4
    <3> QED
      BY <1>6, <3>1
  <2> QED
    BY <2>1, <2>2, <2>3, <2>4, QueueNext DEF TypeInv
<1> QED
  BY <1>3, <1>4, <1>5, <1>6 DEF Pursues

LEMMA PursuitNext == TypeInv /\ PursuitInv /\ [Next]_vars => PursuitInv'
<1> SUFFICES ASSUME TypeInv, PursuitInv, [Next]_vars PROVE PursuitInv'
  OBVIOUS
<1>1. /\ stage \in [SignUps -> Stages] /\ queue \in [Accounts -> Seq(SignUps)]
      /\ accounts \subseteq Accounts /\ broken' \subseteq SignUps
      /\ profileOf \in [Accounts -> Accounts \cup {Nobody}]
  BY TypeInvNext DEF TypeInv, TypeOK
<1>2. ASSUME NEW s \in broken' PROVE stage'[s] # "unused"
  <2>1. stage[s] # "unused" /\ s \in SignUps
    BY <1>1, <1>2, BrokenNext DEF PursuitInv
  <2> QED
    BY <2>1, StageNext DEF TapSignUp
<1>3. ASSUME NEW a \in Accounts, NEW i \in 1 .. Len(queue'[a])
      PROVE  stage'[queue'[a][i]] \in {"saving", "over"}
  <2>1. ASSUME NEW j \in 1 .. Len(queue[a])
        PROVE  stage'[queue[a][j]] \in {"saving", "over"}
    <3>1. queue[a][j] \in SignUps /\ stage[queue[a][j]] \in {"saving", "over"}
      BY <1>1 DEF PursuitInv
    <3> QED
      BY <3>1, StageForward
  <2>2. CASE queue'[a] = queue[a]
    BY <1>3, <2>1, <2>2
  <2>3. CASE queue[a] # << >> /\ queue'[a] = Tail(queue[a])
    <3>1. i + 1 \in 1 .. Len(queue[a]) /\ queue'[a][i] = queue[a][i + 1]
      BY <1>1, <1>3, <2>3, QueueFront
    <3> QED
      BY <2>1, <3>1
  <2>4. ASSUME NEW s \in SignUps, AddressFetched(s), ~ Raise,
               queue'[a] = Append(queue[a], s)
        PROVE  stage'[queue'[a][i]] \in {"saving", "over"}
    <3>1. stage'[s] = "saving"
      BY <1>1, <2>4 DEF AddressFetched
    <3>2. \/ queue'[a][i] = s
          \/ i \in 1 .. Len(queue[a]) /\ queue'[a][i] = queue[a][i]
      BY <1>1, <1>3, <2>4, QueueEnds
    <3> QED
      BY <2>1, <3>1, <3>2
  <2> QED
    BY <2>2, <2>3, <2>4, QueueNext DEF TypeInv
<1>4. ASSUME NEW a \in accounts', profileOf'[a] = Nobody
      PROVE  \E s \in SignUps : Pursues(s, a)'
  <2>1. CASE a \in accounts /\ profileOf[a] = Nobody
    <3>1. PICK s \in SignUps : Pursues(s, a)
      BY <2>1 DEF PursuitInv
    <3> QED
      BY <1>1, <1>4, <2>1, <3>1, PursuitGoesOn
  <2>2. ASSUME NEW s \in SignUps, AccountMade(s), a \notin accounts
        PROVE  Pursues(s, a)'
    <3>1. subject'[s] = a /\ stage'[s] = "made"
      BY <1>1, <1>4, <2>2 DEF AccountMade
    <3> QED
      BY <3>1 DEF Pursues, Preparing
  <2>3. a \in accounts \/ \E s \in SignUps : AccountMade(s)
    BY <1>4, AccountsNext
  <2>4. a \in accounts => profileOf[a] = Nobody
    BY <1>1, <1>4, ProfileStays
  <2> QED
    BY <2>1, <2>2, <2>3, <2>4
<1> QED
  BY <1>2, <1>3, <1>4 DEF PursuitInv

(* Every account without a profile is accounted for.                       *)
THEOREM NobodyForgotten == Spec => []NoneForgotten
<1>1. Init => PursuitInv
  <2>1. Init => \A a \in accounts : profileOf[a] # Nobody
    BY SessionAssumption DEF Init
  <2> QED
    BY <2>1 DEF Init, PursuitInv
<1>2. TypeInv /\ PursuitInv => NoneForgotten
  <2> SUFFICES ASSUME TypeInv, PursuitInv, NEW a \in accounts,
                      profileOf[a] = Nobody
               PROVE  \E s \in SignUps :
                          /\ subject[s] = a
                          /\ \/ stage[s] \in Preparing
                             \/ s \in broken
                             \/ \E i \in DOMAIN queue[a] : queue[a][i] = s
    BY DEF NoneForgotten
  <2>1. queue[a] \in Seq(SignUps)
    BY DEF TypeInv, TypeOK
  <2>2. DOMAIN queue[a] = 1 .. Len(queue[a])
    BY <2>1
  <2> QED
    BY <2>2 DEF PursuitInv, Pursues
<1>3. FlowInv => TypeInv
  BY DEF FlowInv
<1> QED
  BY FlowInvInit, FlowInvNext, PursuitNext, <1>1, <1>2, <1>3, PTL DEF Spec
=============================================================================
