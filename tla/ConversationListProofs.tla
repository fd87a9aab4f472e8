---------------------- MODULE ConversationListProofs ----------------------
(***************************************************************************)
(* What ConversationList guarantees for every set of partners, profiled or *)
(* not, every number of changes and failures, and whatever the clocks say. *)
(***************************************************************************)
EXTENDS ConversationList, TLAPS

(* Popping the first outstanding request of a partner.                     *)
LEMMA PoppedQueue ==
    ASSUME NEW q \in Seq(Messages), q # << >>
    PROVE  /\ Head(q) \in Messages /\ Head(q) = q[1]
           /\ Tail(q) \in Seq(Messages)
           /\ Len(q) \in Nat \ {0} /\ Len(Tail(q)) = Len(q) - 1
           /\ Tail(q) # << >> => Tail(q)[Len(Tail(q))] = q[Len(q)]
           /\ Tail(q) = << >> <=> Len(q) = 1
<1>1. /\ Head(q) \in Messages /\ Head(q) = q[1]
      /\ Tail(q) \in Seq(Messages)
      /\ Len(q) \in Nat \ {0} /\ Len(Tail(q)) = Len(q) - 1
      /\ \A i \in 1 .. Len(Tail(q)) : Tail(q)[i] = q[i + 1]
  OBVIOUS
<1> DEFINE t == Tail(q)
<1>2. t \in Seq(Messages) /\ Len(t) = Len(q) - 1
  BY <1>1
<1> HIDE DEF t
<1>3. t = << >> <=> Len(t) = 0
  BY <1>2
<1>4. t # << >> => Len(t) \in 1 .. Len(t)
  BY <1>2, <1>3
<1>5. t # << >> => t[Len(t)] = q[Len(q)]
  BY <1>1, <1>4 DEF t
<1> QED
  BY <1>1, <1>2, <1>3, <1>5 DEF t

(* Making one more request for a partner.                                  *)
LEMMA PushedQueue ==
    ASSUME NEW q \in Seq(Messages), NEW m \in Messages
    PROVE  /\ Append(q, m) \in Seq(Messages) /\ Append(q, m) # << >>
           /\ Len(Append(q, m)) = Len(q) + 1 /\ Len(q) \in Nat
           /\ Append(q, m)[Len(Append(q, m))] = m
OBVIOUS

(* Inserting a row.                                                        *)
LEMMA InsertedRow ==
    ASSUME NEW list \in Seq(Messages), NEW m \in Messages
    PROVE  /\ Inserted(m, list) \in Seq(Messages)
           /\ Inserted(m, list) # << >> /\ Head(Inserted(m, list)) = m
           /\ Len(Inserted(m, list)) = Len(list) + 1 /\ Len(list) \in Nat
BY DEF Inserted

(* A sorted list has the rows of the list it was made from, and none comes *)
(* before the first one.                                                   *)
LEMMA SortedRows ==
    ASSUME NEW s \in Seq(Messages), NEW t \in ByTime(s)
    PROVE  /\ t \in Seq(Messages) /\ Len(t) = Len(s)
           /\ t = << >> <=> s = << >>
           /\ s # << >> => /\ Head(s) \in Range(t)
                           /\ Head(t) \in Messages
                           /\ Clock[Head(t)] >= Clock[Head(s)]
           /\ Len(s) = 1 => Head(t) = Head(s)
<1> DEFINE n == Len(s)
           D == DOMAIN s
<1>1. n \in Nat /\ D = 1 .. n /\ (s = << >> <=> n = 0)
      /\ \A i \in D : s[i] \in Messages
  OBVIOUS
<1>2. PICK f \in Bijection(D, D) :
           /\ \A i, j \in D : i < j => Clock[s[f[i]]] >= Clock[s[f[j]]]
           /\ t = [i \in D |-> s[f[i]]]
  BY DEF ByTime, LatestFirst
<1>3. f \in [D -> D] /\ \A d \in D : \E i \in D : f[i] = d
  BY <1>2 DEF Bijection, Injection, Surjection
<1>4. t \in [1 .. n -> Messages]
  BY <1>1, <1>2, <1>3
<1>5. t \in Seq(Messages) /\ Len(t) = n
  BY <1>1, <1>4
<1>6. t = << >> <=> s = << >>
  BY <1>1, <1>5
<1>7. ASSUME s # << >>
      PROVE  /\ Head(s) \in Range(t) /\ Head(t) \in Messages
             /\ Clock[Head(t)] >= Clock[Head(s)]
             /\ n = 1 => Head(t) = Head(s)
  <2>1. 1 \in D /\ Head(s) = s[1] /\ Head(t) = t[1] /\ t[1] \in Messages
    BY <1>1, <1>4, <1>5, <1>6, <1>7
  <2>2. PICK j \in D : f[j] = 1
    BY <1>3, <2>1
  <2>3. t[j] = s[1] /\ j \in DOMAIN t /\ j \in 1 .. n
    BY <1>1, <1>2, <2>2
  <2>4. Head(s) \in Range(t)
    BY <2>1, <2>3 DEF Range
  <2>5. Clock[t[1]] >= Clock[t[j]]
    <3>1. CASE j = 1
      <4>1. Clock[t[1]] \in Int
        BY <2>1, ListAssumption
      <4> QED
        BY <3>1, <4>1
    <3>2. CASE j # 1
      <4>1. 1 < j
        BY <2>3, <3>2
      <4>2. Clock[s[f[1]]] >= Clock[s[f[j]]]
        BY <1>2, <2>1, <4>1
      <4>3. t[1] = s[f[1]] /\ t[j] = s[f[j]]
        BY <1>2, <2>1
      <4> QED
        BY <4>2, <4>3
    <3> QED
      BY <3>1, <3>2
  <2>6. n = 1 => j = 1
    BY <2>3
  <2> QED
    BY <2>1, <2>3, <2>4, <2>5, <2>6
<1> QED
  BY <1>5, <1>6, <1>7

(* What an arriving profile makes of the table.                            *)
LEMMA Republished ==
    ASSUME NEW p \in Partners, ProfileArrives(p)
    PROVE  /\ rows' \in [Partners -> UNION {ByTime(conversations'[q]) :
                                               q \in Partners}]
           /\ \A q \in Partners : rows'[q] \in ByTime(conversations'[q])
BY DEF ProfileArrives, Published

(* A change always carries a message: a document that is gone was seen.    *)
LEMMA CarriedMessage ==
    ASSUME TypeOK, NEW p \in Changed
    PROVE  p \in Partners /\ Carried(p) \in Messages
BY DEF TypeOK, Changed, Carried

-----------------------------------------------------------------------------
LEMMA TypeInit == Init => TypeOK
BY ListAssumption DEF Init, TypeOK

LEMMA TypeNext == TypeOK /\ [Next]_vars => TypeOK'
<1> SUFFICES ASSUME TypeOK, [Next]_vars PROVE TypeOK'
  OBVIOUS
<1>1. ASSUME NEW p \in Partners, NEW m \in Messages \cup {NoMsg}, Change(p, m)
      PROVE TypeOK'
  BY <1>1 DEF TypeOK, Change, listVars
<1>2. CASE Snapshot
  <2>1. \A p \in Changed : Asked(p, Carried(p)) \in Seq(Messages)
    BY CarriedMessage, PushedQueue DEF TypeOK, Asked
  <2>2. pending' \in [Partners -> Seq(Messages)]
    BY <1>2, <2>1 DEF Snapshot, TypeOK
  <2>3. conversations' \in [Partners -> Seq(Messages)]
    BY <1>2 DEF Snapshot, TypeOK, RowsKept
  <2>4. latest' \in [Partners -> Messages \cup {NoMsg}]
    BY <1>2, CarriedMessage DEF Snapshot, TypeOK
  <2>5. overlapped' \in SUBSET Partners /\ silenced' \in SUBSET Partners
    BY <1>2 DEF Snapshot, TypeOK, Changed
  <2> QED
    BY <1>2, <2>2, <2>3, <2>4, <2>5 DEF Snapshot, TypeOK
<1>3. ASSUME NEW p \in Partners, ProfileArrives(p) PROVE TypeOK'
  <2>1. Head(pending[p]) \in Messages /\ Tail(pending[p]) \in Seq(Messages)
    BY <1>3, PoppedQueue DEF ProfileArrives, TypeOK
  <2>2. Inserted(Head(pending[p]), conversations[p]) \in Seq(Messages)
    BY <2>1, InsertedRow DEF TypeOK
  <2>3. conversations' \in [Partners -> Seq(Messages)]
    BY <1>3, <2>2 DEF ProfileArrives, TypeOK
  <2>4. \A q \in Partners : rows'[q] \in Seq(Messages)
    BY <1>3, <2>3, Republished, SortedRows
  <2>5. rows' \in [Partners -> Seq(Messages)]
    BY <1>3, <2>4, Republished
  <2> QED
    BY <1>3, <2>1, <2>3, <2>5 DEF ProfileArrives, TypeOK
<1>4. ASSUME NEW p \in Partners, ProfileMissing(p) PROVE TypeOK'
  <2>1. Tail(pending[p]) \in Seq(Messages)
    BY <1>4, PoppedQueue DEF ProfileMissing, TypeOK
  <2> QED
    BY <1>4, <2>1 DEF ProfileMissing, TypeOK
<1>5. CASE ListenerFails
  BY <1>5 DEF TypeOK, ListenerFails, listVars
<1>6. CASE UNCHANGED vars
  BY <1>6 DEF TypeOK, vars, listVars
<1> QED
  BY <1>1, <1>2, <1>3, <1>4, <1>5, <1>6 DEF Next

(* The types hold in every state, whatever the bounds.                     *)
THEOREM TypeCorrect == Spec => []TypeOK
BY TypeInit, TypeNext, PTL DEF Spec

-----------------------------------------------------------------------------
(* Together with the types the three invariants are inductive.             *)
ListInv == TypeOK /\ LastChangeKept /\ OneRowEach /\ ShownWhenAnswered

LEMMA ListInit == Init => ListInv
<1> SUFFICES ASSUME Init PROVE ListInv
  OBVIOUS
<1>1. << >> \in ByTime(<< >>)
  <2> DEFINE e == [i \in {} |-> i]
  <2>1. e \in Bijection({}, {})
    BY DEF Bijection, Injection, Surjection, IsInjective
  <2>2. DOMAIN << >> = {} /\ << >> = [i \in {} |-> << >>[e[i]]]
    OBVIOUS
  <2> HIDE DEF e
  <2> QED
    BY <2>1, <2>2 DEF ByTime, LatestFirst
<1> QED
  BY <1>1, TypeInit
     DEF Init, ListInv, LastChangeKept, OneRowEach, ShownWhenAnswered

(* The three invariants speak of one partner at a time.                    *)
PartnerInv(p) ==
    /\ latest[p] # NoMsg /\ p \notin silenced =>
           \/ pending[p] # << >> /\ pending[p][Len(pending[p])] = latest[p]
           \/ /\ pending[p] = << >> /\ conversations[p] # << >>
              /\ Head(conversations[p]) = latest[p]
    /\ p \notin overlapped => Len(conversations[p]) + Len(pending[p]) <= 1
    /\ p \notin silenced /\ pending[p] = << >>
           => rows[p] \in ByTime(conversations[p])

LEMMA PartnerByPartner ==
    LastChangeKept /\ OneRowEach /\ ShownWhenAnswered
        <=> \A p \in Partners : PartnerInv(p)
BY DEF LastChangeKept, OneRowEach, ShownWhenAnswered, PartnerInv

LEMMA ListNext == ListInv /\ [Next]_vars => ListInv'
<1> SUFFICES ASSUME ListInv, [Next]_vars, NEW p \in Partners
             PROVE  PartnerInv(p)'
  BY TypeNext, PartnerByPartner
     DEF ListInv, LastChangeKept, OneRowEach, ShownWhenAnswered, PartnerInv
<1>1. TypeOK /\ PartnerInv(p)
  BY PartnerByPartner DEF ListInv
<1>2. ASSUME UNCHANGED <<listVars, latest, overlapped, silenced>>
      PROVE  PartnerInv(p)'
  BY <1>1, <1>2 DEF PartnerInv, listVars
<1>3. ASSUME NEW x \in Partners, NEW m \in Messages \cup {NoMsg}, Change(x, m)
      PROVE  PartnerInv(p)'
  BY <1>2, <1>3 DEF Change
<1>4. CASE Snapshot
  <2>1. CASE p \in Changed
    <3> DEFINE m == Carried(p)
    <3>1. /\ conversations'[p] = << >> /\ pending'[p] = Append(pending[p], m)
          /\ latest'[p] = m /\ p \notin silenced'
          /\ p \notin overlapped' => pending[p] = << >>
      BY <1>4, <2>1 DEF Snapshot, RowsKept, Asked
    <3>2. m \in Messages /\ pending[p] \in Seq(Messages)
      BY <1>1, <2>1, CarriedMessage DEF TypeOK
    <3> HIDE DEF m
    <3> QED
      BY <3>1, <3>2, PushedQueue DEF PartnerInv
  <2>2. CASE p \notin Changed
    <3>1. /\ conversations'[p] = conversations[p] /\ pending'[p] = pending[p]
          /\ latest'[p] = latest[p] /\ rows' = rows
          /\ p \in silenced' <=> p \in silenced
          /\ p \in overlapped' <=> p \in overlapped
      BY <1>4, <2>2 DEF Snapshot
    <3> QED
      BY <1>1, <3>1 DEF PartnerInv
  <2> QED
    BY <2>1, <2>2
<1>5. ASSUME NEW x \in Partners, ProfileArrives(x) PROVE PartnerInv(p)'
  <2>1. /\ pending' = [pending EXCEPT ![x] = Tail(pending[x])]
        /\ conversations' = [conversations EXCEPT
               ![x] = Inserted(Head(pending[x]), conversations[x])]
        /\ \A q \in Partners : rows'[q] \in ByTime(conversations'[q])
        /\ pending[x] # << >> /\ UNCHANGED <<latest, overlapped, silenced>>
    BY <1>5, Republished DEF ProfileArrives
  <2>2. CASE x = p
    <3> DEFINE q == pending[p]
               list == conversations[p]
    <3>1. q \in Seq(Messages) /\ q # << >> /\ list \in Seq(Messages)
      BY <1>1, <2>1, <2>2 DEF TypeOK
    <3>2. pending'[p] = Tail(q) /\ conversations'[p] = Inserted(Head(q), list)
      BY <1>1, <2>1, <2>2 DEF TypeOK
    <3>3. /\ latest[p] # NoMsg /\ p \notin silenced => q[Len(q)] = latest[p]
          /\ p \notin overlapped => Len(list) + Len(q) <= 1
      BY <1>1, <3>1 DEF PartnerInv
    <3> HIDE DEF q, list
    <3>4. /\ Head(q) \in Messages /\ Head(q) = q[1]
          /\ Len(q) \in Nat \ {0} /\ Len(Tail(q)) = Len(q) - 1
          /\ Tail(q) # << >> => Tail(q)[Len(Tail(q))] = q[Len(q)]
          /\ Tail(q) = << >> <=> Len(q) = 1
      BY <3>1, PoppedQueue
    <3>5. /\ conversations'[p] # << >> /\ Head(conversations'[p]) = Head(q)
          /\ Len(conversations'[p]) = Len(list) + 1 /\ Len(list) \in Nat
      BY <3>1, <3>2, <3>4, InsertedRow
    <3>6. CASE Tail(q) = << >>
      <4>1. latest[p] # NoMsg /\ p \notin silenced
            => Head(conversations'[p]) = latest[p]
        BY <3>3, <3>4, <3>5, <3>6
      <4>2. p \notin overlapped => Len(conversations'[p]) + Len(pending'[p]) <= 1
        BY <3>2, <3>3, <3>4, <3>5
      <4> QED
        BY <2>1, <3>2, <3>5, <3>6, <4>1, <4>2 DEF PartnerInv
    <3>7. CASE Tail(q) # << >>
      <4>1. latest[p] # NoMsg /\ p \notin silenced
            => pending'[p][Len(pending'[p])] = latest[p]
        BY <3>2, <3>3, <3>4, <3>7
      <4>2. p \notin overlapped => Len(conversations'[p]) + Len(pending'[p]) <= 1
        BY <3>2, <3>3, <3>4, <3>5
      <4> QED
        BY <2>1, <3>2, <3>7, <4>1, <4>2 DEF PartnerInv
    <3> QED
      BY <3>6, <3>7
  <2>3. CASE x # p
    <3>1. pending'[p] = pending[p] /\ conversations'[p] = conversations[p]
          /\ rows'[p] \in ByTime(conversations[p])
      BY <1>1, <2>1, <2>3 DEF TypeOK
    <3> QED
      BY <1>1, <2>1, <3>1 DEF PartnerInv
  <2> QED
    BY <2>2, <2>3
<1>6. ASSUME NEW x \in Partners, ProfileMissing(x) PROVE PartnerInv(p)'
  <2>1. /\ pending' = [pending EXCEPT ![x] = Tail(pending[x])]
        /\ pending[x] # << >>
        /\ silenced' = IF Len(pending[x]) = 1 THEN silenced \cup {x}
                       ELSE silenced
        /\ UNCHANGED <<conversations, rows, latest, overlapped>>
    BY <1>6 DEF ProfileMissing
  <2>2. CASE x = p
    <3> DEFINE q == pending[p]
    <3>1. q \in Seq(Messages) /\ q # << >> /\ pending'[p] = Tail(q)
          /\ conversations[p] \in Seq(Messages)
      BY <1>1, <2>1, <2>2 DEF TypeOK
    <3>2. /\ latest[p] # NoMsg /\ p \notin silenced => q[Len(q)] = latest[p]
          /\ p \notin overlapped => Len(conversations[p]) + Len(q) <= 1
      BY <1>1, <3>1 DEF PartnerInv
    <3>3. p \in silenced' <=> p \in silenced \/ Len(q) = 1
      BY <2>1, <2>2
    <3> HIDE DEF q
    <3>4. /\ Len(q) \in Nat \ {0} /\ Len(Tail(q)) = Len(q) - 1
          /\ Tail(q) # << >> => Tail(q)[Len(Tail(q))] = q[Len(q)]
          /\ Tail(q) = << >> <=> Len(q) = 1
          /\ Len(conversations[p]) \in Nat
      BY <3>1, PoppedQueue
    <3>5. p \notin overlapped
          => Len(conversations'[p]) + Len(pending'[p]) <= 1
      <4>1. conversations'[p] = conversations[p]
        BY <2>1
      <4>2. Len(pending'[p]) = Len(q) - 1
        BY <3>1, <3>4
      <4>3. Len(q) \in Nat /\ Len(conversations[p]) \in Nat
        BY <3>4
      <4>4. p \notin overlapped => Len(conversations[p]) + Len(q) <= 1
        BY <3>2
      <4>5. Len(conversations'[p]) = Len(conversations[p])
        BY <4>1
      <4> QED
        BY <4>2, <4>3, <4>4, <4>5
    <3>6. CASE Tail(q) = << >>
      BY <2>1, <3>1, <3>3, <3>4, <3>5, <3>6 DEF PartnerInv
    <3>7. CASE Tail(q) # << >>
      <4>1. latest[p] # NoMsg /\ p \notin silenced
            => pending'[p][Len(pending'[p])] = latest[p]
        BY <3>1, <3>2, <3>4, <3>7
      <4> QED
        BY <2>1, <3>1, <3>3, <3>5, <3>7, <4>1 DEF PartnerInv
    <3> QED
      BY <3>6, <3>7
  <2>3. CASE x # p
    <3>1. pending'[p] = pending[p] /\ (p \in silenced' <=> p \in silenced)
      BY <1>1, <2>1, <2>3 DEF TypeOK
    <3> QED
      BY <1>1, <2>1, <3>1 DEF PartnerInv
  <2> QED
    BY <2>2, <2>3
<1>7. CASE ListenerFails
  BY <1>2, <1>7 DEF ListenerFails
<1>8. CASE UNCHANGED vars
  BY <1>2, <1>8 DEF vars
<1> QED
  BY <1>3, <1>4, <1>5, <1>6, <1>7, <1>8 DEF Next

(* No change of a conversation is lost on its way to the list.             *)
THEOREM NoChangeLost == Spec => []LastChangeKept
<1>1. ListInv => LastChangeKept
  BY DEF ListInv
<1> QED
  BY ListInit, ListNext, <1>1, PTL DEF Spec

(* Double rows come from overlapping requests alone.                       *)
THEOREM DoubleRowsOnlyFromOverlap == Spec => []OneRowEach
<1>1. ListInv => OneRowEach
  BY DEF ListInv
<1> QED
  BY ListInit, ListNext, <1>1, PTL DEF Spec

(* The table follows the array, partner by partner, and sorts it.          *)
THEOREM TableFollowsArray == Spec => []ShownWhenAnswered
<1>1. ListInv => ShownWhenAnswered
  BY DEF ListInv
<1> QED
  BY ListInit, ListNext, <1>1, PTL DEF Spec

(* The first row of a partner is its latest message, save for double rows  *)
(* whose clocks disagree with the order of their messages.                 *)
LEMMA TopFollows == ListInv => TopRowIsLatest
<1> SUFFICES ASSUME ListInv, NEW p \in Partners \ silenced,
                    latest[p] # NoMsg, pending[p] = << >>
             PROVE  OnTop(p, latest[p])
  BY DEF TopRowIsLatest
<1> DEFINE list == conversations[p]
           shown == rows[p]
<1>1. list \in Seq(Messages) /\ list # << >> /\ Head(list) = latest[p]
  BY DEF ListInv, TypeOK, LastChangeKept
<1>2. shown \in ByTime(list)
  BY DEF ListInv, ShownWhenAnswered
<1>3. p \notin overlapped => Len(list) <= 1
  <2>1. Len(list) \in Nat /\ Len(pending[p]) = 0
    BY <1>1
  <2>2. p \notin overlapped => Len(list) + Len(pending[p]) <= 1
    BY DEF ListInv, OneRowEach
  <2> QED
    BY <2>1, <2>2
<1> HIDE DEF list, shown
<1>4. /\ Head(list) \in Range(shown)
      /\ Clock[Head(shown)] >= Clock[Head(list)]
      /\ Len(list) = 1 => Head(shown) = Head(list)
  BY <1>1, <1>2, SortedRows
<1>5. Len(list) \in Nat /\ Len(list) # 0
  BY <1>1
<1>6. p \notin overlapped => Head(shown) = latest[p]
  <2> DEFINE n == Len(list)
  <2>1. n \in Nat /\ n # 0
    BY <1>5
  <2>2. p \notin overlapped => n <= 1
    BY <1>3
  <2>3. n = 1 => Head(shown) = latest[p]
    BY <1>1, <1>4
  <2> HIDE DEF n
  <2>4. n <= 1 => n = 1
    BY <2>1
  <2> QED
    BY <2>2, <2>3, <2>4
<1>7. latest[p] \in Range(shown) /\ Clock[Head(shown)] >= Clock[latest[p]]
  BY <1>1, <1>4
<1>8. \/ Head(shown) = latest[p]
      \/ p \in overlapped /\ Clock[Head(shown)] >= Clock[latest[p]]
  BY <1>6, <1>7
<1>9. shown = rows[p]
  BY DEF shown
<1> QED
  BY <1>7, <1>8, <1>9 DEF OnTop

THEOREM LatestOnTop == Spec => []TopRowIsLatest
BY ListInit, ListNext, TopFollows, PTL DEF Spec

LEMMA RowsStep == ListInv /\ [Next]_vars => [RowsGoForOwnChange]_vars
<1> SUFFICES ASSUME ListInv, Next, NEW p \in Partners,
                    rows[p] # << >>, rows'[p] = << >>, p \notin silenced
             PROVE  pending'[p] # << >>
  BY DEF RowsGoForOwnChange
<1>1. PICK x \in Partners : ProfileArrives(x)
  BY DEF Next, Change, Snapshot, ListenerFails, ProfileMissing, listVars
<1>2. /\ conversations' = [conversations EXCEPT
             ![x] = Inserted(Head(pending[x]), conversations[x])]
      /\ pending' = [pending EXCEPT ![x] = Tail(pending[x])]
      /\ \A q \in Partners : rows'[q] \in ByTime(conversations'[q])
      /\ pending[x] # << >>
  BY <1>1, Republished DEF ProfileArrives
<1>3. /\ conversations \in [Partners -> Seq(Messages)]
      /\ pending \in [Partners -> Seq(Messages)]
  BY DEF ListInv, TypeOK
<1>4. p # x
  <2>1. Head(pending[x]) \in Messages
    BY <1>2, <1>3, PoppedQueue
  <2>2. conversations'[x] = Inserted(Head(pending[x]), conversations[x])
    BY <1>2, <1>3
  <2>3. conversations'[x] \in Seq(Messages) /\ conversations'[x] # << >>
    BY <1>3, <2>1, <2>2, InsertedRow
  <2> QED
    BY <1>2, <2>3, SortedRows
<1>5. rows'[p] \in ByTime(conversations[p]) /\ pending'[p] = pending[p]
  BY <1>2, <1>3, <1>4
<1>6. conversations[p] = << >>
  BY <1>3, <1>5, SortedRows
<1>7. ASSUME pending[p] = << >> PROVE FALSE
  <2>1. rows[p] \in ByTime(conversations[p])
    BY <1>7 DEF ListInv, ShownWhenAnswered
  <2> QED
    BY <1>3, <1>6, <2>1, SortedRows
<1> QED
  BY <1>5, <1>7

(* No conversation's row leaves the table on account of another's change.  *)
THEOREM RowsLeaveForOwnChange == Spec => NoRowTakenByOthers
BY ListInit, ListNext, RowsStep, PTL DEF Spec, NoRowTakenByOthers
=============================================================================
