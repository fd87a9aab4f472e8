--------------------------- MODULE UserSearchProofs ---------------------------
(***************************************************************************)
(* What UserSearch guarantees for all people, texts and matches.           *)
(***************************************************************************)
EXTENDS UserSearch, TLAPS

(* Nothing writes over a filtered list: while a search that met no request *)
(* stands, no request is under way, and onSearching keeps pulls from       *)
(* starting one.  The directory only grows, so what was fetched once is    *)
(* never blank again.                                                      *)
SearchInv ==
    /\ TypeOK
    /\ key \in Keys /\ initial = "done" => searching
    /\ key \in Keys /\ initial = "done" /\ ~ overtaken => ~ UnderWay
    /\ base \subseteq directory
    /\ FilterStands
    /\ SearchFlagRight
    /\ BlankExplained

LEMMA SearchInit == Init => SearchInv
BY SearchAssumption DEF Init, SearchInv, TypeOK, FilterStands,
   SearchFlagRight, BlankExplained

LEMMA SearchNext == SearchInv /\ [Next]_vars => SearchInv'
<1> SUFFICES ASSUME SearchInv, [Next]_vars PROVE SearchInv'
  OBVIOUS
<1> USE SearchAssumption DEF SearchInv, TypeOK, FilterStands, SearchFlagRight,
        BlankExplained, UnderWay, Filtered, requestVars, boxVars, flagVars
<1>1. ASSUME NEW u \in People, Registers(u) PROVE SearchInv'
  BY <1>1 DEF Registers
<1>2. ASSUME NEW k \in Keys \cup {Cleared}, Type(k) PROVE SearchInv'
  BY <1>2 DEF Type
<1>3. CASE SearchArrives
  BY <1>3 DEF SearchArrives
<1>4. CASE ClearArrives
  BY <1>4 DEF ClearArrives, ClearsAgain, Refreshes, SearchingAfterClear
<1>5. CASE Pull
  BY <1>5 DEF Pull, PullRefetches
<1>6. CASE CancelSearch
  BY <1>6 DEF CancelSearch
<1>7. CASE InitialAnswered
  BY <1>7 DEF InitialAnswered
<1>8. CASE InitialFails
  BY <1>8 DEF InitialFails
<1>9. CASE RefetchAnswered
  BY <1>9 DEF RefetchAnswered, Networking
<1>10. CASE RefetchFails
  BY <1>10 DEF RefetchFails, Networking
<1>11. CASE ClearAnswered
  BY <1>11 DEF ClearAnswered
<1>12. CASE ClearFails
  BY <1>12 DEF ClearFails
<1>13. CASE Leave
  <2>1. running' = FALSE
    BY <1>13 DEF Leave
  <2>2. UNCHANGED <<directory, users, base, initial, refetch, clearing, text,
                    waiting, key, searching, pulled, spinner, overtaken>>
    BY <1>13 DEF Leave
  <2>3. TypeOK'
    BY <2>1, <2>2
  <2> QED
    BY <2>2, <2>3
<1>14. CASE UNCHANGED vars
  BY <1>14 DEF vars
<1> QED
  BY <1>1, <1>2, <1>3, <1>4, <1>5, <1>6, <1>7, <1>8, <1>9, <1>10, <1>11,
     <1>12, <1>13, <1>14 DEF Next

(* Every variable of the screen keeps its type.                            *)
THEOREM TypeCorrect == Spec => []TypeOK
<1>1. SearchInv => TypeOK
  BY DEF SearchInv
<1> QED
  BY SearchInit, SearchNext, <1>1, PTL DEF Spec

(* Only a request the search met under way writes over a filtered list.    *)
THEOREM FilterHolds == Spec => []FilterStands
<1>1. SearchInv => FilterStands
  BY DEF SearchInv
<1> QED
  BY SearchInit, SearchNext, <1>1, PTL DEF Spec

(* Pulls are turned away only by a search that stands, or one left behind  *)
(* by a failed fetch.                                                      *)
THEOREM SearchFlagHolds == Spec => []SearchFlagRight
<1>1. SearchInv => SearchFlagRight
  BY DEF SearchInv
<1> QED
  BY SearchInit, SearchNext, <1>1, PTL DEF Spec

(* A blank list has a failure or a fetch under way behind it.              *)
THEOREM BlankHasReason == Spec => []BlankExplained
<1>1. SearchInv => BlankExplained
  BY DEF SearchInv
<1> QED
  BY SearchInit, SearchNext, <1>1, PTL DEF Spec
=============================================================================
