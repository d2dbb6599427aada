---------------------------- MODULE FreezeProofs ----------------------------
(***************************************************************************)
(* Proofs about Freeze, for any callers, ids, intervals and delays, and    *)
(* about the ids its callers hold (FreezeHandles).                         *)
(***************************************************************************)
EXTENDS FreezeHandles, TLAPS

USE MaxIdAssumption, IntervalsAssumption, TimeoutAssumption, LagAssumption
USE DEF FiledUnder, Erased, After, NewClock, Expired, LoopExit, AfterPass,
        AfterSleep

\* The steps of Next, one by one, for the case splits of the proofs below.
LEMMA NextCases ==
    ASSUME Next
    PROVE  \/ \E c \in Callers, i \in Intervals : Add(c, i)
           \/ \E c \in Callers : AddFails(c)
           \/ \E c \in Callers, id \in Ids : Remove(c, id)
           \/ \E c \in Callers : Clear(c)
           \/ \E c \in Callers : Publish(c)
           \/ \E c \in Callers, id \in Ids : Deactivate(c, id)
           \/ \E c \in Callers : Poll(c)
           \/ \E c \in Callers : Clock(c)
           \/ \E c \in Callers : Join(c)
           \/ \E c \in Callers : Delete(c)
           \/ \E c \in Callers : Return(c)
           \/ \E id \in Ids : Check(id)
           \/ \E id \in Ids : Write(id)
           \/ \E id \in Ids : Wake(id)
           \/ \E id \in Ids : Finish(id)
           \/ Tick
  BY DEF Next, Call, Proceed, Worker

\* Handing out an id, publishing it, removing it and stopping it keep every
\* piece of the state in its type.
LEMMA TypeStep == ASSUME TypeOK, InHand, [Next]_vars PROVE TypeOK'
  <1> USE DEF TypeOK, Ids, NoId, WorkerPcs, CallerPcs, entries, workers, callers
  <1>1. ASSUME NEW c \in Callers, NEW i \in Intervals, Add(c, i) PROVE TypeOK'
    <2>1. nextId \in Ids /\ nextId + 1 \in 0 .. MaxId
      BY <1>1 DEF Add
    <2>2. interval' \in [Ids -> Nat] /\ wtimer' \in [Ids -> Nat]
      BY <1>1, <2>1 DEF Add
    <2>3. cpc' \in [Callers -> CallerPcs] /\ target' \in [Callers -> Ids \cup {NoId}]
      BY <1>1, <2>1 DEF Add
    <2> QED
      BY <1>1, <2>1, <2>2, <2>3 DEF Add
  <1>2. ASSUME NEW c \in Callers, AddFails(c) PROVE TypeOK'
    BY <1>2, SMTT(30) DEF AddFails
  <1>3. ASSUME NEW c \in Callers, NEW id \in Ids, Remove(c, id) PROVE TypeOK'
    <2>1. todo' \in [Callers -> SUBSET Ids]
      BY <1>3 DEF Remove
    <2> QED
      BY <1>3, <2>1 DEF Remove
  <1>4. ASSUME NEW c \in Callers, Clear(c) PROVE TypeOK'
    BY <1>4 DEF Clear
  <1>5. ASSUME NEW c \in Callers, Publish(c) PROVE TypeOK'
    BY <1>5 DEF Publish, InHand
  <1>6. ASSUME NEW c \in Callers, NEW id \in Ids, Deactivate(c, id)
        PROVE  TypeOK'
    BY <1>6, SMTT(30) DEF Deactivate
  <1>7. ASSUME NEW c \in Callers, Poll(c) PROVE TypeOK'
    BY <1>7 DEF Poll
  <1>8. ASSUME NEW c \in Callers, Clock(c) PROVE TypeOK'
    BY <1>8 DEF Clock
  <1>8j. ASSUME NEW c \in Callers, Join(c) PROVE TypeOK'
    BY <1>8j DEF Join
  <1>9. ASSUME NEW c \in Callers, Delete(c) PROVE TypeOK'
    BY <1>9 DEF Delete
  <1>10. ASSUME NEW c \in Callers, Return(c) PROVE TypeOK'
    BY <1>10 DEF Return
  <1>11. ASSUME NEW id \in Ids, Check(id) PROVE TypeOK'
    BY <1>11, ZenonT(30) DEF Check
  <1>12. ASSUME NEW id \in Ids, Write(id) PROVE TypeOK'
    BY <1>12 DEF Write
  <1>13. ASSUME NEW id \in Ids, Wake(id) PROVE TypeOK'
    BY <1>13 DEF Wake
  <1>14. ASSUME NEW id \in Ids, Finish(id) PROVE TypeOK'
    BY <1>14, SMTT(30) DEF Finish, StoreHits, Live
  <1>15. CASE Tick
    BY <1>15 DEF Tick, Alive, Joining
  <1>16. CASE UNCHANGED vars
    BY <1>16 DEF vars
  <1> QED
    BY <1>1, <1>2, <1>3, <1>4, <1>5, <1>6, <1>7, <1>8, <1>8j, <1>9, <1>10,
       <1>11, <1>12, <1>13, <1>14, <1>15, <1>16, NextCases

-----------------------------------------------------------------------------
(* Ownership of the entries, without any assumption on time *)

\* An entry may change hands between s_freezes and one caller, and only that
\* caller may make it appear or disappear.
LEMMA HandOver ==
    ASSUME NEW live, NEW live2, NEW reg, NEW reg2, NEW held, NEW held2,
           NEW c \in Callers,
           OwnedOnce(live, reg, held),
           reg2 \subseteq Ids, held2[c] \subseteq Ids,
           \A d \in Callers : d # c => held2[d] = held[d],
           \A id \in reg2 : id \in reg \/ id \in held[c] \/ id \notin live,
           \A id \in held2[c] : /\ id \notin reg2
                                /\ id \in reg \/ id \in held[c] \/ id \notin live,
           \A id \in Ids : id \in live2 <=>
               \/ id \in reg2 \cup held2[c]
               \/ id \in live /\ id \notin reg /\ id \notin held[c]
    PROVE  OwnedOnce(live2, reg2, held2)
  <1>1. \A id \in Ids : id \in live2 <=>
            id \in reg2 \/ \E d \in Callers : id \in held2[d]
    BY DEF OwnedOnce
  <1>2. \A id \in reg2, d \in Callers : id \notin held2[d]
    BY DEF OwnedOnce
  <1>3. \A b, d \in Callers : b # d => \A id \in held2[b] : id \notin held2[d]
    BY DEF OwnedOnce
  <1> QED
    BY <1>1, <1>2, <1>3 DEF OwnedOnce

\* Whatever the interleaving, every entry keeps exactly one owner, which is the
\* only one that may deactivate it, and its worker loops until then.
LEMMA OwnStep == ASSUME OwnInv, [Next]_vars PROVE OwnInv'
  <1> USE DEF OwnInv, NoId, WorkerPcs, CallerPcs, entries, workers, callers
  <1>t. TypeOK'
    BY TypeStep
  <1>1. ASSUME NEW c \in Callers, NEW i \in Intervals, Add(c, i) PROVE OwnInv'
    <2>a. nextId \in Ids /\ heap[nextId] = "none" /\ nextId \notin Live
      BY <1>1 DEF Add, Fresh, TypeOK, Ids, Live
    <2>b. nextId \notin registry /\ \A d \in Callers : nextId \notin Held[d]
      BY <2>a DEF SingleOwner, OwnedOnce
    <2>c. /\ Held[c] = {} /\ Held'[c] = {nextId}
          /\ \A d \in Callers : d # c => Held'[d] = Held[d]
      BY <1>1, <2>a DEF Add, TypeOK, InHand, Held
    <2>d. Live' = Live \cup {nextId}
      BY <1>1, <2>a DEF Add, TypeOK, Live
    <2>1. Fresh'
      BY <1>1 DEF Add, Fresh, TypeOK, Ids
    <2>2. SingleOwner'
      <3>1. registry' \subseteq Ids /\ Held'[c] \subseteq Ids
        BY <1>1, <2>a, <2>b, <2>c, <2>d DEF Add, TypeOK, InHand, Held
      <3>2. OwnedOnce(Live, registry, Held)
        BY DEF SingleOwner
      <3>3. OwnedOnce(Live', registry', Held')
        BY <1>1, <2>a, <2>b, <2>c, <2>d, <3>1, <3>2, HandOver DEF Add, OwnedOnce
      <3> QED
        BY <3>3 DEF SingleOwner
    <2>3. InHand'
      BY <1>1, <2>a, <2>b, <2>c DEF Add, InHand, Held, SingleOwner, OwnedOnce, TypeOK, Joining
    <2>4. Looping'
      BY <1>1, <2>a, <2>b DEF Add, Looping, TypeOK, Fresh
    <2> QED
      BY <1>t, <2>1, <2>2, <2>3, <2>4
  <1>2. ASSUME NEW c \in Callers, AddFails(c) PROVE OwnInv'
    <2>a. Held' = Held /\ Live' = Live
      BY <1>2 DEF AddFails, Held, Live, TypeOK, Fresh, Ids
    <2>1. Fresh'
      BY <1>2 DEF AddFails, Fresh, TypeOK, Ids
    <2>2. SingleOwner'
      BY <1>2, <2>a DEF AddFails, SingleOwner
    <2>3. InHand'
      BY <1>2 DEF AddFails, InHand, Held, SingleOwner, OwnedOnce, TypeOK, Joining
    <2>4. Looping'
      BY <1>2 DEF AddFails, Looping, TypeOK, Fresh, Ids
    <2> QED
      BY <1>t, <2>1, <2>2, <2>3, <2>4
  <1>3. ASSUME NEW c \in Callers, NEW id \in Ids, Remove(c, id) PROVE OwnInv'
    <2>c. /\ Held[c] = {} /\ Held'[c] = {id}
          /\ \A d \in Callers : d # c => Held'[d] = Held[d]
      BY <1>3 DEF Remove, TypeOK, InHand, Held
    <2>d. Live' = Live
      BY <1>3 DEF Remove, Live
    <2>1. Fresh'
      BY <1>3 DEF Remove, Fresh, TypeOK, Ids
    <2>2. SingleOwner'
      <3>1. registry' \subseteq Ids /\ Held'[c] \subseteq Ids
        BY <1>3, <2>c, <2>d DEF Remove, TypeOK, InHand, Held
      <3>2. OwnedOnce(Live, registry, Held)
        BY DEF SingleOwner
      <3>3. OwnedOnce(Live', registry', Held')
        BY <1>3, <2>c, <2>d, <3>1, <3>2, HandOver DEF Remove, OwnedOnce
      <3> QED
        BY <3>3 DEF SingleOwner
    <2>3. InHand'
      BY <1>3 DEF Remove, InHand, Held, SingleOwner, OwnedOnce, TypeOK, Joining, Looping
    <2>4. Looping'
      BY <1>3 DEF Remove, Looping, TypeOK
    <2> QED
      BY <1>t, <2>1, <2>2, <2>3, <2>4
  <1>4. ASSUME NEW c \in Callers, Clear(c) PROVE OwnInv'
    <2>c. /\ Held[c] = {} /\ Held'[c] = registry
          /\ \A d \in Callers : d # c => Held'[d] = Held[d]
      BY <1>4 DEF Clear, TypeOK, InHand, Held
    <2>d. Live' = Live
      BY <1>4 DEF Clear, Live
    <2>1. Fresh'
      BY <1>4 DEF Clear, Fresh, TypeOK, Ids
    <2>2. SingleOwner'
      <3>1. registry' \subseteq Ids /\ Held'[c] \subseteq Ids
        BY <1>4, <2>c, <2>d DEF Clear, TypeOK, InHand, Held
      <3>2. OwnedOnce(Live, registry, Held)
        BY DEF SingleOwner
      <3>3. OwnedOnce(Live', registry', Held')
        BY <1>4, <2>c, <2>d, <3>1, <3>2, HandOver DEF Clear, OwnedOnce
      <3> QED
        BY <3>3 DEF SingleOwner
    <2>3. InHand'
      BY <1>4 DEF Clear, InHand, Held, SingleOwner, OwnedOnce, TypeOK, Joining, Looping
    <2>4. Looping'
      BY <1>4 DEF Clear, Looping, TypeOK
    <2> QED
      BY <1>t, <2>1, <2>2, <2>3, <2>4
  <1>5. ASSUME NEW c \in Callers, Publish(c) PROVE OwnInv'
    <2>b. target[c] \in Ids /\ target[c] \in active
      BY <1>5 DEF Publish, InHand
    <2>c. /\ Held[c] = {target[c]} /\ Held'[c] = {}
          /\ \A d \in Callers : d # c => Held'[d] = Held[d]
      BY <1>5, <2>b DEF Publish, TypeOK, InHand, Held
    <2>d. Live' = Live
      BY <1>5 DEF Publish, Live
    <2>1. Fresh'
      BY <1>5 DEF Publish, Fresh, TypeOK, Ids
    <2>2. SingleOwner'
      <3>1. registry' \subseteq Ids /\ Held'[c] \subseteq Ids
        BY <1>5, <2>b, <2>c, <2>d DEF Publish, TypeOK, InHand, Held
      <3>2. OwnedOnce(Live, registry, Held)
        BY DEF SingleOwner
      <3>3. OwnedOnce(Live', registry', Held')
        BY <1>5, <2>b, <2>c, <2>d, <3>1, <3>2, HandOver DEF Publish, OwnedOnce
      <3> QED
        BY <3>3 DEF SingleOwner
    <2>3. InHand'
      BY <1>5 DEF Publish, InHand, Held, SingleOwner, OwnedOnce, TypeOK, Joining
    <2>4. Looping'
      BY <1>5, <2>b DEF Publish, Looping, TypeOK
    <2> QED
      BY <1>t, <2>1, <2>2, <2>3, <2>4
  <1>6. ASSUME NEW c \in Callers, NEW id \in Ids, Deactivate(c, id) PROVE OwnInv'
    <2>a. \A d \in Callers : Held'[d] = Held[d]
      BY <1>6 DEF Deactivate, TypeOK, Held
    <2>b. Live' = Live
      BY <1>6 DEF Deactivate, Live
    <2>1. Fresh'
      BY <1>6 DEF Deactivate, Fresh, TypeOK, Ids
    <2>2. SingleOwner'
      BY <1>6, <2>a, <2>b DEF Deactivate, SingleOwner, OwnedOnce
    <2>3. InHand'
      BY <1>6 DEF Deactivate, InHand, Held, SingleOwner, OwnedOnce, TypeOK, Joining, Looping
    <2>4. Looping'
      BY <1>6 DEF Deactivate, Looping, TypeOK, SingleOwner, OwnedOnce, Held
    <2> QED
      BY <1>t, <2>1, <2>2, <2>3, <2>4
  <1>7. ASSUME NEW c \in Callers, Poll(c) PROVE OwnInv'
    <2>1. Fresh'
      BY <1>7 DEF Poll, Fresh, TypeOK, Ids
    <2>a. Live' = Live /\ \A d \in Callers : Held'[d] = Held[d]
      BY <1>7 DEF Poll, Live, Held, TypeOK, InHand
    <2>2. SingleOwner'
      BY <1>7, <2>a DEF Poll, SingleOwner, OwnedOnce
    <2>3. InHand'
      BY <1>7 DEF Poll, InHand, Held, SingleOwner, OwnedOnce, TypeOK, Joining
    <2>4. Looping'
      BY <1>7 DEF Poll, Looping, TypeOK
    <2> QED
      BY <1>t, <2>1, <2>2, <2>3, <2>4
  <1>8. ASSUME NEW c \in Callers, Clock(c) PROVE OwnInv'
    <2>1. Fresh'
      BY <1>8 DEF Clock, Fresh, TypeOK, Ids
    <2>a. Live' = Live /\ \A d \in Callers : Held'[d] = Held[d]
      BY <1>8 DEF Clock, Live, Held, TypeOK, InHand
    <2>2. SingleOwner'
      BY <1>8, <2>a DEF Clock, SingleOwner, OwnedOnce
    <2>3. InHand'
      BY <1>8 DEF Clock, InHand, Held, SingleOwner, OwnedOnce, TypeOK, Joining
    <2>4. Looping'
      BY <1>8 DEF Clock, Looping, TypeOK
    <2> QED
      BY <1>t, <2>1, <2>2, <2>3, <2>4
  <1>8j. ASSUME NEW c \in Callers, Join(c) PROVE OwnInv'
    <2>1. Fresh'
      BY <1>8j DEF Join, Fresh, TypeOK, Ids
    <2>a. Live' = Live /\ \A d \in Callers : Held'[d] = Held[d]
      BY <1>8j DEF Join, Live, Held, TypeOK, InHand
    <2>2. SingleOwner'
      BY <1>8j, <2>a DEF Join, SingleOwner, OwnedOnce
    <2>3. InHand'
      BY <1>8j DEF Join, InHand, Held, SingleOwner, OwnedOnce, TypeOK, Joining
    <2>4. Looping'
      BY <1>8j DEF Join, Looping, TypeOK
    <2> QED
      BY <1>t, <2>1, <2>2, <2>3, <2>4
  <1>9. ASSUME NEW c \in Callers, Delete(c) PROVE OwnInv'
    <2>a. target[c] \in Ids /\ target[c] \in Held[c]
      BY <1>9 DEF Delete, InHand, Held
    <2>b. heap[target[c]] = "live"
      BY <2>a DEF SingleOwner, OwnedOnce, Live
    <2>c. /\ Held'[c] = Held[c] \ {target[c]}
          /\ \A d \in Callers : d # c => Held'[d] = Held[d]
      BY <1>9, <2>a DEF Delete, TypeOK, InHand, Held
    <2>d. Live' = Live \ {target[c]}
      BY <1>9, <2>a DEF Delete, TypeOK, Live
    <2>1. Fresh'
      BY <1>9, <2>a, <2>b DEF Delete, Fresh, TypeOK, Ids
    <2>2. SingleOwner'
      <3>1. registry' \subseteq Ids /\ Held'[c] \subseteq Ids
        BY <1>9, <2>a, <2>b, <2>c, <2>d DEF Delete, TypeOK, InHand, Held
      <3>2. OwnedOnce(Live, registry, Held)
        BY DEF SingleOwner
      <3>3. OwnedOnce(Live', registry', Held')
        BY <1>9, <2>a, <2>b, <2>c, <2>d, <3>1, <3>2, HandOver DEF Delete, OwnedOnce
      <3> QED
        BY <3>3 DEF SingleOwner
    <2>3. InHand'
      BY <1>9 DEF Delete, InHand, Held, SingleOwner, OwnedOnce, TypeOK, Joining
    <2>4. Looping'
      BY <1>9, <2>a, <2>b DEF Delete, Looping, TypeOK, InHand, Joining
    <2> QED
      BY <1>t, <2>1, <2>2, <2>3, <2>4
  <1>10. ASSUME NEW c \in Callers, Return(c) PROVE OwnInv'
    <2>1. Fresh'
      BY <1>10 DEF Return, Fresh, TypeOK, Ids
    <2>a. Live' = Live /\ \A d \in Callers : Held'[d] = Held[d]
      BY <1>10 DEF Return, Live, Held, TypeOK, InHand
    <2>2. SingleOwner'
      BY <1>10, <2>a DEF Return, SingleOwner, OwnedOnce
    <2>3. InHand'
      BY <1>10 DEF Return, InHand, Held, SingleOwner, OwnedOnce, TypeOK, Joining
    <2>4. Looping'
      BY <1>10 DEF Return, Looping, TypeOK
    <2> QED
      BY <1>t, <2>1, <2>2, <2>3, <2>4
  <1>11. ASSUME NEW id \in Ids, Check(id) PROVE OwnInv'
    <2>1. Fresh'
      BY <1>11 DEF Check, ActiveLoads, Fresh, TypeOK, Ids
    <2>a. Live' = Live /\ \A d \in Callers : Held'[d] = Held[d]
      BY <1>11 DEF Check, Live, Held, TypeOK, InHand
    <2>2. SingleOwner'
      BY <1>11, <2>a DEF Check, SingleOwner, OwnedOnce
    <2>3. InHand'
      BY <1>11 DEF Check, InHand, Held, SingleOwner, OwnedOnce, TypeOK, Joining
    <2>4. Looping'
      BY <1>11 DEF Check, Looping, TypeOK, ActiveLoads
    <2> QED
      BY <1>t, <2>1, <2>2, <2>3, <2>4
  <1>12. ASSUME NEW id \in Ids, Write(id) PROVE OwnInv'
    <2>1. Fresh'
      BY <1>12 DEF Write, Fresh, TypeOK, Ids
    <2>a. Live' = Live /\ \A d \in Callers : Held'[d] = Held[d]
      BY <1>12 DEF Write, Live, Held, TypeOK, InHand
    <2>2. SingleOwner'
      BY <1>12, <2>a DEF Write, SingleOwner, OwnedOnce
    <2>3. InHand'
      BY <1>12 DEF Write, InHand, Held, SingleOwner, OwnedOnce, TypeOK, Joining
    <2>4. Looping'
      BY <1>12 DEF Write, Looping, TypeOK
    <2> QED
      BY <1>t, <2>1, <2>2, <2>3, <2>4
  <1>13. ASSUME NEW id \in Ids, Wake(id) PROVE OwnInv'
    <2>1. Fresh'
      BY <1>13 DEF Wake, Fresh, TypeOK, Ids
    <2>a. Live' = Live /\ \A d \in Callers : Held'[d] = Held[d]
      BY <1>13 DEF Wake, Live, Held, TypeOK, InHand
    <2>2. SingleOwner'
      BY <1>13, <2>a DEF Wake, SingleOwner, OwnedOnce
    <2>3. InHand'
      BY <1>13 DEF Wake, InHand, Held, SingleOwner, OwnedOnce, TypeOK, Joining
    <2>4. Looping'
      BY <1>13 DEF Wake, Looping, TypeOK
    <2> QED
      BY <1>t, <2>1, <2>2, <2>3, <2>4
  <1>14. ASSUME NEW id \in Ids, Finish(id) PROVE OwnInv'
    <2>1. Fresh'
      BY <1>14 DEF Finish, StoreHits, Live, Fresh, TypeOK, Ids
    <2>a. Live' = Live /\ \A d \in Callers : Held'[d] = Held[d]
      BY <1>14 DEF Finish, StoreHits, Live, Held, TypeOK, InHand
    <2>2. SingleOwner'
      BY <1>14, <2>a DEF Finish, StoreHits, SingleOwner, OwnedOnce
    <2>3. InHand'
      BY <1>14 DEF Finish, StoreHits, InHand, Held, SingleOwner, OwnedOnce, TypeOK, Joining
    <2>4. Looping'
      BY <1>14 DEF Finish, StoreHits, Looping, TypeOK
    <2> QED
      BY <1>t, <2>1, <2>2, <2>3, <2>4
  <1>15. CASE Tick
    BY <1>t, <1>15 DEF Tick, Fresh, SingleOwner, Live, Held, InHand, Looping, Joining
  <1>16. CASE UNCHANGED vars
    BY <1>t, <1>16 DEF vars, Fresh, SingleOwner, Live, Held, InHand, Looping, Joining
  <1> QED
    BY <1>1, <1>2, <1>3, <1>4, <1>5, <1>6, <1>7, <1>8, <1>8j, <1>9, <1>10,
       <1>11, <1>12, <1>13, <1>14, <1>15, <1>16, NextCases

LEMMA OwnInit == ASSUME Init PROVE OwnInv
  <1> USE DEF Init, Ids, NoId, CallerPcs, WorkerPcs
  <1>1. TypeOK
    BY DEF TypeOK
  <1>2. Fresh /\ InHand /\ Looping
    BY DEF Fresh, InHand, Looping, Joining
  <1>3. SingleOwner
    BY DEF SingleOwner, OwnedOnce, Live, Held
  <1> QED
    BY <1>1, <1>2, <1>3 DEF OwnInv

LEMMA Owned == Spec => []OwnInv
  <1>1. Init => OwnInv
    BY OwnInit
  <1>2. OwnInv /\ [Next]_vars => OwnInv'
    BY OwnStep
  <1> QED
    BY <1>1, <1>2, PTL DEF Spec

\* The state of mem_freeze.cpp keeps its types.
THEOREM TypeCorrect == Spec => []TypeOK
  <1>1. OwnInv => TypeOK
    BY DEF OwnInv
  <1> QED
    BY <1>1, Owned, PTL

\* No interleaving of adds, removes and clears leaks an entry, or lets two
\* calls delete the same one, even when joins time out.
THEOREM OwnedOnceAlways == Spec => []SingleOwner
  <1>1. OwnInv => SingleOwner
    BY DEF OwnInv
  <1> QED
    BY <1>1, Owned, PTL

\* What s_freezes lists is still allocated, active and being applied.
THEOREM ListedRuns == Spec => []ListedIsRunning
  <1>1. OwnInv => ListedIsRunning
    BY DEF OwnInv, ListedIsRunning, Looping, Alive, TypeOK
  <1> QED
    BY <1>1, Owned, PTL

-----------------------------------------------------------------------------
(* Joins that outlast their worker *)

\* A join starts with a budget that covers its worker, and the budget and the
\* needs of the worker shrink together.
LEMMA TimingStep ==
    ASSUME Prompt, OwnInv, Timing, NoUseAfterFree, OwnInv', [Next]_vars
    PROVE  Timing' /\ NoUseAfterFree'
  <1> DEFINE Timers == \A id \in Ids :
                          /\ heap[id] = "live" => interval[id] \in Intervals
                          /\ wtimer[id] <= IF wpc[id] = "sleep"
                                           THEN interval[id] ELSE Lag
             Joins == \A c \in Callers :
                          /\ Joining(c) /\ Alive(target[c]) =>
                                waited[c] + Remaining(target[c])
                                    <= interval[target[c]] + 2 * Lag
                          /\ cpc[c] = "delete" => ~Alive(target[c])
  <1>h. \A c \in Callers : Joining(c) \/ cpc[c] = "delete" =>
           /\ target[c] \in Ids
           /\ heap[target[c]] = "live"
           /\ target[c] \notin active
    BY DEF OwnInv, InHand, SingleOwner, OwnedOnce, Held, Live, Joining
  <1>t. TypeOK
    BY DEF OwnInv
  <1> USE DEF entries, workers, callers, WorkerPcs, CallerPcs
  <1>1. ASSUME NEW c \in Callers, NEW i \in Intervals, Add(c, i)
        PROVE  Timing' /\ NoUseAfterFree'
    <2>1. Timers'
      BY <1>1, <1>h, <1>t DEF Add, Timing, TypeOK, OwnInv, Fresh, Ids
    <2>2. Joins'
      BY <1>1, <1>h, <1>t, SMTT(30) DEF Add, Timing, TypeOK, Joining, Alive, Remaining, NoUseAfterFree, OwnInv, Fresh, Ids
    <2>3. NoUseAfterFree'
      BY <1>1, <1>h, <1>t DEF Add, NoUseAfterFree, Timing, Alive, TypeOK, OwnInv, Fresh, Ids
    <2> QED
      BY <2>1, <2>2, <2>3 DEF Timing
  <1>2. ASSUME NEW c \in Callers, AddFails(c)
        PROVE  Timing' /\ NoUseAfterFree'
    <2>1. Timers'
      BY <1>2, <1>h, <1>t DEF AddFails, Timing, TypeOK, OwnInv, Fresh, Ids
    <2>2. Joins'
      BY <1>2, <1>h, <1>t DEF AddFails, Timing, TypeOK, Joining, Alive, Remaining, NoUseAfterFree, OwnInv, Fresh, Ids
    <2>3. NoUseAfterFree'
      BY <1>2, <1>h, <1>t DEF AddFails, NoUseAfterFree, Timing, Alive, TypeOK, OwnInv, Fresh, Ids
    <2> QED
      BY <2>1, <2>2, <2>3 DEF Timing
  <1>3. ASSUME NEW c \in Callers, NEW id \in Ids, Remove(c, id)
        PROVE  Timing' /\ NoUseAfterFree'
    <2>1. Timers'
      BY <1>3, <1>h, <1>t DEF Remove, Timing, TypeOK
    <2>2. Joins'
      BY <1>3, <1>h, <1>t DEF Remove, Timing, TypeOK, Joining, Alive, Remaining, NoUseAfterFree
    <2>3. NoUseAfterFree'
      BY <1>3, <1>h, <1>t DEF Remove, NoUseAfterFree, Timing, Alive, TypeOK
    <2> QED
      BY <2>1, <2>2, <2>3 DEF Timing
  <1>4. ASSUME NEW c \in Callers, Clear(c)
        PROVE  Timing' /\ NoUseAfterFree'
    <2>1. Timers'
      BY <1>4, <1>h, <1>t DEF Clear, Timing, TypeOK
    <2>2. Joins'
      BY <1>4, <1>h, <1>t DEF Clear, Timing, TypeOK, Joining, Alive, Remaining, NoUseAfterFree
    <2>3. NoUseAfterFree'
      BY <1>4, <1>h, <1>t DEF Clear, NoUseAfterFree, Timing, Alive, TypeOK
    <2> QED
      BY <2>1, <2>2, <2>3 DEF Timing
  <1>5. ASSUME NEW c \in Callers, Publish(c)
        PROVE  Timing' /\ NoUseAfterFree'
    <2>1. Timers'
      BY <1>5, <1>h, <1>t DEF Publish, Timing, TypeOK
    <2>2. Joins'
      BY <1>5, <1>h, <1>t DEF Publish, Timing, TypeOK, Joining, Alive, Remaining, NoUseAfterFree
    <2>3. NoUseAfterFree'
      BY <1>5, <1>h, <1>t DEF Publish, NoUseAfterFree, Timing, Alive, TypeOK
    <2> QED
      BY <2>1, <2>2, <2>3 DEF Timing
  <1>6. ASSUME NEW c \in Callers, NEW id \in Ids, Deactivate(c, id)
        PROVE  Timing' /\ NoUseAfterFree'
    <2>1. Timers'
      BY <1>6, <1>h, <1>t DEF Deactivate, Timing, TypeOK, OwnInv, Looping, InHand
    <2>2. Joins'
      BY <1>6, <1>h, <1>t DEF Deactivate, Timing, TypeOK, Joining, Alive, Remaining, NoUseAfterFree, OwnInv, Looping, InHand
    <2>3. NoUseAfterFree'
      BY <1>6, <1>h, <1>t DEF Deactivate, NoUseAfterFree, Timing, Alive, TypeOK, OwnInv, Looping, InHand
    <2> QED
      BY <2>1, <2>2, <2>3 DEF Timing
  <1>7. ASSUME NEW c \in Callers, Poll(c)
        PROVE  Timing' /\ NoUseAfterFree'
    <2>1. Timers'
      BY <1>7, <1>h, <1>t DEF Poll, Timing, TypeOK, OwnInv, Looping
    <2>2. Joins'
      BY <1>7, <1>h, <1>t DEF Poll, Timing, TypeOK, Joining, Alive, Remaining, NoUseAfterFree, OwnInv, Looping
    <2>3. NoUseAfterFree'
      BY <1>7, <1>h, <1>t DEF Poll, NoUseAfterFree, Timing, Alive, TypeOK, OwnInv, Looping
    <2> QED
      BY <2>1, <2>2, <2>3 DEF Timing
  <1>8. ASSUME NEW c \in Callers, Clock(c)
        PROVE  Timing' /\ NoUseAfterFree'
    <2>1. Timers'
      BY <1>8, <1>h, <1>t DEF Clock, Timing, TypeOK, Prompt
    <2>2. Joins'
      BY <1>8, <1>h, <1>t DEF Clock, Timing, TypeOK, Joining, Alive, Remaining, NoUseAfterFree, Prompt
    <2>3. NoUseAfterFree'
      BY <1>8, <1>h, <1>t DEF Clock, NoUseAfterFree, Timing, Alive, TypeOK, Prompt
    <2> QED
      BY <2>1, <2>2, <2>3 DEF Timing
  <1>8j. ASSUME NEW c \in Callers, Join(c)
        PROVE  Timing' /\ NoUseAfterFree'
    <2>1. Timers'
      BY <1>8j, <1>h, <1>t DEF Join, Timing, TypeOK
    <2>2. Joins'
      BY <1>8j, <1>h, <1>t DEF Join, Timing, TypeOK, Joining, Alive, Remaining, NoUseAfterFree
    <2>3. NoUseAfterFree'
      BY <1>8j, <1>h, <1>t DEF Join, NoUseAfterFree, Timing, Alive, TypeOK
    <2> QED
      BY <2>1, <2>2, <2>3 DEF Timing
  <1>9. ASSUME NEW c \in Callers, Delete(c)
        PROVE  Timing' /\ NoUseAfterFree'
    <2>1. Timers'
      BY <1>9, <1>h, <1>t DEF Delete, Timing, TypeOK
    <2>2. Joins'
      BY <1>9, <1>h, <1>t DEF Delete, Timing, TypeOK, Joining, Alive, Remaining, NoUseAfterFree
    <2>3. NoUseAfterFree'
      BY <1>9, <1>h, <1>t DEF Delete, NoUseAfterFree, Timing, Alive, TypeOK
    <2> QED
      BY <2>1, <2>2, <2>3 DEF Timing
  <1>10. ASSUME NEW c \in Callers, Return(c)
        PROVE  Timing' /\ NoUseAfterFree'
    <2>1. Timers'
      BY <1>10, <1>h, <1>t DEF Return, Timing, TypeOK
    <2>2. Joins'
      BY <1>10, <1>h, <1>t DEF Return, Timing, TypeOK, Joining, Alive, Remaining, NoUseAfterFree
    <2>3. NoUseAfterFree'
      BY <1>10, <1>h, <1>t DEF Return, NoUseAfterFree, Timing, Alive, TypeOK
    <2> QED
      BY <2>1, <2>2, <2>3 DEF Timing
  <1>11. ASSUME NEW id \in Ids, Check(id)
        PROVE  Timing' /\ NoUseAfterFree'
    <2>1. Timers'
      BY <1>11, <1>h, <1>t DEF Check, Timing, TypeOK, ActiveLoads
    <2>2. Joins'
      BY <1>11, <1>h, <1>t DEF Check, Timing, TypeOK, Joining, Alive, Remaining, NoUseAfterFree, ActiveLoads
    <2>3. NoUseAfterFree'
      BY <1>11, <1>h, <1>t DEF Check, NoUseAfterFree, Timing, Alive, TypeOK, ActiveLoads
    <2> QED
      BY <2>1, <2>2, <2>3 DEF Timing
  <1>12. ASSUME NEW id \in Ids, Write(id)
        PROVE  Timing' /\ NoUseAfterFree'
    <2>1. Timers'
      BY <1>12, <1>h, <1>t DEF Write, Timing, TypeOK
    <2>2. Joins'
      BY <1>12, <1>h, <1>t DEF Write, Timing, TypeOK, Joining, Alive, Remaining, NoUseAfterFree
    <2>3. NoUseAfterFree'
      BY <1>12, <1>h, <1>t DEF Write, NoUseAfterFree, Timing, Alive, TypeOK
    <2> QED
      BY <2>1, <2>2, <2>3 DEF Timing
  <1>13. ASSUME NEW id \in Ids, Wake(id)
        PROVE  Timing' /\ NoUseAfterFree'
    <2>1. Timers'
      BY <1>13, <1>h, <1>t DEF Wake, Timing, TypeOK
    <2>2. Joins'
      BY <1>13, <1>h, <1>t DEF Wake, Timing, TypeOK, Joining, Alive, Remaining, NoUseAfterFree
    <2>3. NoUseAfterFree'
      BY <1>13, <1>h, <1>t DEF Wake, NoUseAfterFree, Timing, Alive, TypeOK
    <2> QED
      BY <2>1, <2>2, <2>3 DEF Timing
  <1>14. ASSUME NEW id \in Ids, Finish(id)
        PROVE  Timing' /\ NoUseAfterFree'
    <2>1. Timers'
      BY <1>14, <1>h, <1>t DEF Finish, StoreHits, Timing, TypeOK, OwnInv, Looping
    <2>2. Joins'
      BY <1>14, <1>h, <1>t DEF Finish, StoreHits, Timing, TypeOK, Joining, Alive, Remaining, NoUseAfterFree, OwnInv, Looping
    <2>3. NoUseAfterFree'
      BY <1>14, <1>h, <1>t DEF Finish, StoreHits, NoUseAfterFree, Timing, Alive, TypeOK, OwnInv, Looping
    <2> QED
      BY <2>1, <2>2, <2>3 DEF Timing
  <1>15. CASE Tick
    <2>1. Timers'
      BY <1>15, <1>t DEF Tick, Timing, TypeOK, Alive
    <2>2. Joins'
      BY <1>15, <1>h, <1>t DEF Tick, Timing, TypeOK, Joining, Alive, Remaining
    <2>3. NoUseAfterFree'
      BY <1>15 DEF Tick, NoUseAfterFree, Alive
    <2> QED
      BY <2>1, <2>2, <2>3 DEF Timing
  <1>16. CASE UNCHANGED vars
    BY <1>16 DEF vars, Timing, NoUseAfterFree, Joining, Alive, Remaining
  <1> QED
    BY <1>1, <1>2, <1>3, <1>4, <1>5, <1>6, <1>7, <1>8, <1>8j, <1>9, <1>10,
       <1>11, <1>12, <1>13, <1>14, <1>15, <1>16, NextCases

\* When an interval and two delays of the worker fit in the join timeout, the
\* state stays in IInv: one owner by entry, and a bound on the time each join of
\* freeze_remove and freeze_clear still has to wait.
THEOREM InductiveInvariant == ASSUME Prompt PROVE Spec => []IInv
  <1>1. Init => Timing /\ NoUseAfterFree
    BY DEF Init, Timing, NoUseAfterFree, Joining, Alive, Ids
  <1>2. OwnInv /\ OwnInv' /\ Timing /\ NoUseAfterFree /\ [Next]_vars
            => Timing' /\ NoUseAfterFree'
    BY TimingStep
  <1> QED
    BY <1>1, <1>2, Owned, PTL DEF Spec, IInv

\* When the join timeout covers an interval and two delays of the worker, no
\* worker ever touches an entry that was deleted.
THEOREM WorkersDieFirst == ASSUME Prompt PROVE Spec => []NoUseAfterFree
  <1>1. IInv => NoUseAfterFree
    BY DEF IInv
  <1> QED
    BY <1>1, InductiveInvariant, PTL

\* A join that reaches its limit has found its worker through: no call detaches
\* a thread that still runs.
NoneDetached == \A c \in Callers : cpc[c] = "clock" /\ Alive(target[c]) => ~Expired(c)

\* With the same budget join_with_timeout never gives up on a running worker,
\* in freeze_remove and for each of the joins of freeze_clear.
THEOREM WorkersAreJoined == ASSUME Prompt PROVE Spec => []NoneDetached
  <1>1. ASSUME IInv, NEW c \in Callers, cpc[c] = "clock", Alive(target[c])
        PROVE  waited[c] <= Timeout
    <2>1. /\ target[c] \in Ids /\ heap[target[c]] = "live"
          /\ interval[target[c]] \in Intervals
      BY <1>1 DEF IInv, OwnInv, InHand, SingleOwner, OwnedOnce, Held, Live, Joining, Timing
    <2>2. waited[c] + Remaining(target[c]) <= interval[target[c]] + 2 * Lag
      BY <1>1 DEF IInv, Timing, Joining
    <2>3. waited[c] \in Nat /\ Remaining(target[c]) \in Nat /\ interval[target[c]] \in Nat
      <3>1. /\ waited[c] \in Nat /\ interval[target[c]] \in Nat
            /\ wtimer[target[c]] \in Nat
        BY <1>1, <2>1 DEF IInv, OwnInv, TypeOK
      <3> QED
        BY <3>1 DEF Remaining
    <2>4. interval[target[c]] + 2 * Lag <= Timeout
      BY <2>1 DEF Prompt
    <2> QED
      BY <2>2, <2>3, <2>4
  <1>2. IInv => NoneDetached
    <2>1. IInv => \A c \in Callers : waited[c] \in Nat
      BY DEF IInv, OwnInv, TypeOK
    <2> QED
      BY <1>1, <2>1 DEF NoneDetached
  <1> QED
    BY <1>2, InductiveInvariant, PTL

\* "Arrete un freeze individuel." holds when every interval and two delays fit
\* in the join timeout: what was removed is not written again.
THEOREM RemovedStaysRemoved == ASSUME Prompt PROVE Spec => []RemovedWritesNoMore
  <1>1. NoUseAfterFree => RemovedWritesNoMore
    BY DEF NoUseAfterFree, RemovedWritesNoMore, Alive
  <1> QED
    BY <1>1, WorkersDieFirst, PTL

-----------------------------------------------------------------------------
(* Stopping, whatever the timing *)

\* A freeze that was handed out and told to stop, or never started.
Stopped(id) == heap[id] # "none" /\ id \notin active

\* A stopped freeze is never started again, and its worker begins no pass as
\* long as nobody deleted its entry.
StopIsFinal ==
    [][\A id \in Ids : Stopped(id) =>
          /\ Stopped(id)'
          /\ heap[id] = "live" /\ wpc[id] # "write" => wpc'[id] # "write"]_vars

\* Only a new freeze is switched on, and only its own switch lets a worker on.
THEOREM StoppedForGood == Spec => StopIsFinal
  <1>1. ASSUME OwnInv, Next, NEW id \in Ids, Stopped(id)
        PROVE  /\ Stopped(id)'
               /\ heap[id] = "live" /\ wpc[id] # "write" => wpc'[id] # "write"
    <2>t. TypeOK
      BY <1>1 DEF OwnInv
    <2> USE <1>1, <2>t DEF Stopped, TypeOK, entries, workers, callers
    <2>1. ASSUME NEW c \in Callers, Call(c) \/ Proceed(c)
          PROVE  Stopped(id)' /\ wpc'[id] = wpc[id]
      <3>1. ASSUME NEW i \in Intervals, Add(c, i) PROVE Stopped(id)' /\ wpc'[id] = wpc[id]
        <4>1. nextId # id
          BY <3>1 DEF Add, OwnInv, Fresh, Ids
        <4> QED
          BY <3>1, <4>1 DEF Add
      <3>2. CASE AddFails(c)
        BY <3>2 DEF AddFails
      <3>3. ASSUME NEW e \in Ids, Remove(c, e) \/ Deactivate(c, e) PROVE Stopped(id)' /\ wpc'[id] = wpc[id]
        BY <3>3 DEF Remove, Deactivate
      <3>4. CASE Clear(c) \/ Publish(c) \/ Poll(c) \/ Clock(c) \/ Join(c) \/ Return(c)
        BY <3>4 DEF Clear, Publish, Poll, Clock, Join, Return
      <3>5. CASE Delete(c)
        BY <3>5 DEF Delete
      <3> QED
        BY <2>1, <3>1, <3>2, <3>3, <3>4, <3>5 DEF Call, Proceed
    <2>2. ASSUME NEW e \in Ids, Worker(e)
          PROVE  /\ Stopped(id)'
                 /\ heap[id] = "live" /\ wpc[id] # "write" => wpc'[id] # "write"
      <3>1. CASE Check(e)
        BY <3>1 DEF Check, ActiveLoads
      <3>2. CASE Write(e) \/ Wake(e)
        BY <3>2 DEF Write, Wake
      <3>3. CASE Finish(e)
        BY <3>3 DEF Finish
      <3> QED
        BY <2>2, <3>1, <3>2, <3>3 DEF Worker
    <2>3. CASE Tick
      BY <2>3 DEF Tick
    <2> QED
      BY <2>1, <2>2, <2>3 DEF Next
  <1>2. OwnInv /\ [Next]_vars =>
            [\A id \in Ids : Stopped(id) =>
                /\ Stopped(id)'
                /\ heap[id] = "live" /\ wpc[id] # "write" => wpc'[id] # "write"]_vars
    BY <1>1
  <1> QED
    BY <1>2, Owned, PTL DEF Spec, StopIsFinal

-----------------------------------------------------------------------------
(* The refinement *)

\* Each step of the code is one step of the promise, or none.
LEMMA PromiseStep == ASSUME IInv, [Next]_vars PROVE [Promise!Next]_(Promise!vars)
  <1> DEFINE phase   == [id \in Ids |-> PhaseOf(id)]
             writing == {id \in Ids : wpc[id] = "write"}
  <1>t. TypeOK /\ Fresh /\ InHand /\ Looping /\ NoUseAfterFree
    BY DEF IInv, OwnInv
  <1>d. /\ phase' = [id \in Ids |-> PhaseOf(id)']
        /\ writing' = {id \in Ids : wpc'[id] = "write"}
    OBVIOUS
  <1> USE DEF entries, workers, callers
  <1>1. ASSUME NEW c \in Callers, NEW i \in Intervals, Add(c, i)
        PROVE  [Promise!Next]_(Promise!vars)
    <2>1. phase' = [phase EXCEPT ![nextId] = "running"]
      BY <1>1, <1>t DEF Add, PhaseOf, TypeOK, Fresh, Ids
    <2>2. writing' = writing
      BY <1>1, <1>t DEF Add, TypeOK, Fresh, Ids
    <2>a. nextId \in Ids /\ heap[nextId] = "none"
      BY <1>1, <1>t DEF Add, TypeOK, Fresh, Ids
    <2>b. phase[nextId] = "unborn"
      BY <2>a DEF PhaseOf
    <2>3. Promise!Start(nextId)
      BY <2>a, <2>b, <2>1, <2>2 DEF Promise!Start
    <2> QED
      BY <2>a, <2>3 DEF Promise!Next
  <1>2. ASSUME NEW c \in Callers, AddFails(c)
        PROVE  [Promise!Next]_(Promise!vars)
    <2>1. phase' = [phase EXCEPT ![nextId] = "stopped"]
      BY <1>2, <1>t DEF AddFails, PhaseOf, TypeOK, Fresh, Ids
    <2>2. writing' = writing
      BY <1>2, <1>t DEF AddFails, TypeOK, Fresh, Ids
    <2>a. nextId \in Ids /\ heap[nextId] = "none"
      BY <1>2, <1>t DEF AddFails, TypeOK, Fresh, Ids
    <2>b. phase[nextId] = "unborn"
      BY <2>a DEF PhaseOf
    <2>3. Promise!Burn(nextId)
      BY <2>a, <2>b, <2>1, <2>2 DEF Promise!Burn
    <2> QED
      BY <2>a, <2>3 DEF Promise!Next
  <1>3. ASSUME NEW c \in Callers, NEW id \in Ids, Remove(c, id)
        PROVE  [Promise!Next]_(Promise!vars)
    BY <1>3, <1>t DEF Remove, PhaseOf, Promise!vars
  <1>4. ASSUME NEW c \in Callers, Clear(c)
        PROVE  [Promise!Next]_(Promise!vars)
    BY <1>4, <1>t DEF Clear, PhaseOf, Promise!vars
  <1>5. ASSUME NEW c \in Callers, Publish(c)
        PROVE  [Promise!Next]_(Promise!vars)
    BY <1>5, <1>t DEF Publish, PhaseOf, Promise!vars
  <1>6. ASSUME NEW c \in Callers, NEW id \in Ids, Deactivate(c, id)
        PROVE  [Promise!Next]_(Promise!vars)
    <2>a. id \in active /\ heap[id] = "live"
      BY <1>6, <1>t DEF Deactivate, InHand, Looping
    <2>1. phase' = [phase EXCEPT ![id] = "stopping"]
      BY <1>6, <1>t, <2>a DEF Deactivate, PhaseOf, TypeOK, Looping
    <2>2. writing' = writing
      BY <1>6, <1>t, <2>a DEF Deactivate, TypeOK, Looping
    <2>3. Promise!Stop(id)
      BY <1>6, <1>t, <2>a, <2>1, <2>2 DEF Deactivate, Promise!Stop, PhaseOf, TypeOK, Looping
    <2> QED
      BY <1>6, <1>t, <2>a, <2>3 DEF Deactivate, Promise!Next, TypeOK, Looping
  <1>7. ASSUME NEW c \in Callers, Poll(c)
        PROVE  [Promise!Next]_(Promise!vars)
    BY <1>7, <1>t DEF Poll, PhaseOf, Promise!vars
  <1>8. ASSUME NEW c \in Callers, Clock(c)
        PROVE  [Promise!Next]_(Promise!vars)
    BY <1>8, <1>t DEF Clock, PhaseOf, Promise!vars
  <1>8j. ASSUME NEW c \in Callers, Join(c)
        PROVE  [Promise!Next]_(Promise!vars)
    BY <1>8j, <1>t DEF Join, PhaseOf, Promise!vars
  <1>9. ASSUME NEW c \in Callers, Delete(c)
        PROVE  [Promise!Next]_(Promise!vars)
    <2>a. /\ target[c] \in Ids \ active /\ heap[target[c]] = "live"
          /\ wpc[target[c]] # "write"
      BY <1>9 DEF Delete, IInv, OwnInv, InHand, SingleOwner, OwnedOnce, Live, Held,
                  Timing, Alive
    <2>1. phase' = [phase EXCEPT ![target[c]] = "stopped"]
      BY <1>9, <1>t, <2>a DEF Delete, PhaseOf, TypeOK
    <2>2. writing' = writing
      BY <1>9, <1>t, <2>a DEF Delete, TypeOK
    <2>3. Promise!Reclaim(target[c])
      BY <1>9, <1>t, <2>a, <2>1, <2>2 DEF Delete, Promise!Reclaim, PhaseOf, TypeOK
    <2> QED
      BY <1>9, <1>t, <2>a, <2>3 DEF Delete, Promise!Next, TypeOK
  <1>10. ASSUME NEW c \in Callers, Return(c)
        PROVE  [Promise!Next]_(Promise!vars)
    BY <1>10, <1>t DEF Return, PhaseOf, Promise!vars
  <1>11. ASSUME NEW id \in Ids, Check(id)
        PROVE  [Promise!Next]_(Promise!vars)
    <2>a. heap[id] = "live"
      BY <1>11, <1>t DEF Check, NoUseAfterFree, Alive, TypeOK, Fresh
    <2>1. phase' = phase
      BY <1>11 DEF Check, PhaseOf
    <2>2. CASE wpc' = [wpc EXCEPT ![id] = "write"]
      <3>1. id \in active
        BY <1>11, <1>t, <2>a, <2>2 DEF Check, ActiveLoads, TypeOK
      <3>2. writing' = writing \cup {id}
        BY <1>t, <2>2 DEF TypeOK
      <3>3. Promise!BeginWrite(id)
        BY <1>11, <2>a, <2>1, <3>1, <3>2 DEF Check, Promise!BeginWrite, PhaseOf
      <3> QED
        BY <3>3 DEF Promise!Next
    <2>3. CASE wpc' = [wpc EXCEPT ![id] = "store"]
      <3>1. writing' = writing
        BY <1>11, <1>t, <2>3 DEF Check, TypeOK
      <3> QED
        BY <2>1, <3>1 DEF Promise!vars
    <2> QED
      BY <1>11, <2>2, <2>3 DEF Check
  <1>12. ASSUME NEW id \in Ids, Write(id)
        PROVE  [Promise!Next]_(Promise!vars)
    <2>1. phase' = phase
      BY <1>12, <1>t DEF Write, PhaseOf, TypeOK
    <2>2. writing' = writing \ {id}
      BY <1>12, <1>t DEF Write, TypeOK
    <2>3. Promise!EndWrite(id)
      BY <1>12, <1>t, <2>1, <2>2 DEF Write, Promise!EndWrite, PhaseOf, TypeOK
    <2> QED
      BY <1>12, <1>t, <2>3 DEF Write, Promise!Next, TypeOK
  <1>13. ASSUME NEW id \in Ids, Wake(id)
        PROVE  [Promise!Next]_(Promise!vars)
    <2>1. phase' = phase
      BY <1>13 DEF Wake, PhaseOf
    <2>2. writing' = writing
      BY <1>13, <1>t DEF Wake, TypeOK
    <2> QED
      BY <2>1, <2>2 DEF Promise!vars
  <1>14. ASSUME NEW id \in Ids, Finish(id)
        PROVE  [Promise!Next]_(Promise!vars)
    <2>1. phase' = phase
      BY <1>14 DEF Finish, StoreHits, PhaseOf
    <2>2. writing' = writing
      BY <1>14, <1>t DEF Finish, StoreHits, TypeOK
    <2> QED
      BY <2>1, <2>2 DEF Promise!vars
  <1>15. CASE Tick
    BY <1>15 DEF Tick, PhaseOf, Promise!vars
  <1>16. CASE UNCHANGED vars
    BY <1>16 DEF vars, PhaseOf, Promise!vars
  <1> QED
    BY <1>1, <1>2, <1>3, <1>4, <1>5, <1>6, <1>7, <1>8, <1>8j, <1>9, <1>10,
       <1>11, <1>12, <1>13, <1>14, <1>15, <1>16, NextCases

\* Under the same timing, mem_freeze.cpp implements the promise of its API: a
\* pass of writes begins only before the freeze was told to stop, and the stop
\* is complete only once no pass is under way.
THEOREM FreezeImplementsPromise == ASSUME Prompt PROVE Spec => KeepsPromise
  <1>1. Init => Promise!Init
    BY DEF Init, Promise!Init, PhaseOf
  <1>2. IInv /\ [Next]_vars => [Promise!Next]_(Promise!vars)
    BY PromiseStep
  <1> QED
    BY <1>1, <1>2, InductiveInvariant, PTL DEF Spec, KeepsPromise, Promise!Spec

-----------------------------------------------------------------------------
(* The ids the callers hold *)

\* The callers of freezeAdd.
Adders == Callers \ GroupCallers

\* An id in the hands of a caller of freezeAdd, or about to be returned by any
\* call, was handed out, and to nobody else.
HandleInv ==
    /\ handle \in [Callers -> Int]
    /\ maker \in [Ids -> SUBSET Callers]
    /\ \A c \in Adders : handle[c] # NoId => /\ handle[c] \in Ids
                                             /\ heap[handle[c]] # "none"
                                             /\ maker[handle[c]] = {c}
    /\ \A c \in Callers : cpc[c] = "publish" => /\ target[c] \in Ids
                                                /\ heap[target[c]] # "none"
                                                /\ maker[target[c]] = {c}

\* What the callers do with ids makes no difference to the freezes.
LEMMA HandlesSimulate == TypeOK /\ [HNext]_hvars => [Next]_vars
  <1> SUFFICES ASSUME TypeOK, HNext PROVE [Next]_vars
    BY DEF hvars
  <1>1. ASSUME NEW c \in Callers, NEW i \in Intervals, HAdd(c, i) PROVE Next
    BY <1>1 DEF HAdd, Next, Call
  <1>2. ASSUME NEW c \in Callers, HAddFails(c) \/ HPublish(c) \/ HClear(c) PROVE Next
    BY <1>2 DEF HAddFails, HPublish, HClear, Next, Call, Proceed
  <1>3. ASSUME NEW c \in Callers, HRejected(c) PROVE UNCHANGED vars
    BY <1>3 DEF HRejected
  <1>4. ASSUME NEW c \in Callers, HRemove(c) PROVE [Next]_vars
    <2>1. CASE Remove(c, handle[c])
      <3>1. handle[c] \in Ids
        BY <2>1 DEF Remove, TypeOK
      <3> QED
        BY <2>1, <3>1 DEF Next, Call
    <2> QED
      BY <1>4, <2>1 DEF HRemove
  <1>5. ASSUME NEW c \in Callers, HCarryOn(c) PROVE Next
    BY <1>5 DEF HCarryOn, Next, Proceed
  <1>6. CASE HBackground
    BY <1>6 DEF HBackground, Next
  <1> QED
    BY <1>1, <1>2, <1>3, <1>4, <1>5, <1>6 DEF HNext

\* Ids are handed out once, so that a failed or late call changes nothing about
\* who holds which.
LEMMA HandleStep == ASSUME OwnInv, HandleInv, [HNext]_hvars PROVE HandleInv'
  <1> USE DEF NoId, Adders
  <1>t. TypeOK /\ (nextId < MaxId => nextId \in Ids /\ heap[nextId] = "none")
    BY DEF OwnInv, TypeOK, Fresh, Ids
  <1>1. ASSUME NEW c \in Callers, NEW i \in Intervals, HAdd(c, i) PROVE HandleInv'
    BY <1>1, <1>t DEF HAdd, Add, HandleInv, TypeOK
  <1>2. ASSUME NEW c \in Callers, HAddFails(c) PROVE HandleInv'
    <2>1. handle' \in [Callers -> Int] /\ (c \in Adders => handle'[c] = NoId)
      BY <1>2 DEF HAddFails, Failure, HandleInv
    <2> QED
      BY <1>2, <1>t, <2>1 DEF HAddFails, AddFails, HandleInv, TypeOK, callers
  <1>3. ASSUME NEW c \in Callers, HRejected(c) PROVE HandleInv'
    <2>1. handle' \in [Callers -> Int] /\ (c \in Adders => handle'[c] = NoId)
      BY <1>3 DEF HRejected, Failure, HandleInv
    <2> QED
      BY <1>3, <2>1 DEF HRejected, vars, HandleInv
  <1>4. ASSUME NEW c \in Callers, HPublish(c) PROVE HandleInv'
    <2>1. /\ target[c] \in Ids /\ heap[target[c]] # "none"
          /\ maker[target[c]] = {c}
      BY <1>4 DEF HPublish, Publish, HandleInv
    <2>2. handle' \in [Callers -> Int]
      BY <1>4, <2>1 DEF HPublish, HandleInv, Ids
    <2> QED
      BY <1>4, <1>t, <2>1, <2>2 DEF HPublish, Publish, HandleInv, TypeOK, entries
  <1>5. ASSUME NEW c \in Callers, HRemove(c) PROVE HandleInv'
    <2>1. UNCHANGED <<heap, target>> /\ \A d \in Callers : cpc'[d] = "publish" => cpc[d] = "publish"
      BY <1>5, <1>t DEF HRemove, Remove, vars, entries, TypeOK
    <2> QED
      BY <1>5, <2>1 DEF HRemove, HandleInv
  <1>6. ASSUME NEW c \in Callers, HClear(c) PROVE HandleInv'
    BY <1>6, <1>t DEF HClear, Clear, entries, HandleInv, TypeOK
  <1>7. ASSUME NEW c \in Callers, HCarryOn(c) PROVE HandleInv'
    <2>1. /\ \A id \in Ids : heap[id] # "none" => heap'[id] # "none"
          /\ \A d \in Callers : cpc'[d] = "publish" => /\ cpc[d] = "publish"
                                                       /\ target'[d] = target[d]
      <3>1. ASSUME NEW id \in Ids, Deactivate(c, id) PROVE <2>1!1 /\ <2>1!2
        BY <3>1, <1>t DEF Deactivate, TypeOK
      <3>2. CASE Poll(c) \/ Clock(c) \/ Join(c) \/ Return(c)
        BY <3>2, <1>t DEF Poll, Clock, Join, Return, entries, TypeOK
      <3>3. CASE Delete(c)
        BY <3>3, <1>t DEF Delete, TypeOK
      <3> QED
        BY <1>7, <3>1, <3>2, <3>3 DEF HCarryOn
    <2> QED
      BY <1>7, <2>1 DEF HCarryOn, HandleInv
  <1>8. CASE HBackground
    <2>1. UNCHANGED <<heap, cpc, target, handle, maker>>
      BY <1>8 DEF HBackground, Tick, Worker, Check, Write, Wake, Finish, entries, callers
    <2> QED
      BY <2>1 DEF HandleInv
  <1>9. CASE UNCHANGED hvars
    BY <1>9 DEF hvars, vars, HandleInv
  <1> QED
    BY <1>1, <1>2, <1>3, <1>4, <1>5, <1>6, <1>7, <1>8, <1>9 DEF HNext

\* The freezes are those of Freeze, and ids are in the hands they were given to.
LEMMA HandlesHeld == HSpec => [](OwnInv /\ HandleInv)
  <1>1. HInit => OwnInv /\ HandleInv
    BY OwnInit DEF HInit, HandleInv, Init, NoId, Adders, CallerPcs
  <1>2. OwnInv /\ HandleInv /\ [HNext]_hvars => (OwnInv /\ HandleInv)'
    <2>1. OwnInv /\ [HNext]_hvars => OwnInv'
      BY HandlesSimulate, OwnStep DEF OwnInv
    <2> QED
      BY <2>1, HandleStep
  <1> QED
    BY <1>1, <1>2, PTL DEF HSpec

\* Callers of freezeAdd take down only freezes of their own, however late they
\* use an id and whatever the callers of freezeAllResults do with theirs.
THEOREM AddersHarmNoOthers == HSpec => AddersStopTheirOwn
  <1>1. ASSUME OwnInv, HandleInv, HNext, NEW c \in Adders, handle[c] # NoId, handle'[c] = NoId
        PROVE  registry \ registry' \subseteq {id \in Ids : maker[id] = {c}}
    <2>1. c \in Callers /\ handle[c] \in Ids /\ maker[handle[c]] = {c}
      BY <1>1 DEF HandleInv, Adders
    <2>2. PICK d \in Callers : HRemove(d) \/ handle' = handle \/ HPublish(d)
                               \/ HAddFails(d) \/ HRejected(d)
      BY <1>1, <2>1 DEF HNext, HAdd, HClear, HCarryOn, HBackground
    <2>3. CASE HRemove(d)
      <3>1. d = c
        BY <1>1, <2>1, <2>3 DEF HRemove, HandleInv
      <3>2. registry \ registry' \subseteq {handle[c]}
        BY <2>3, <3>1 DEF HRemove, Remove, vars
      <3> QED
        BY <2>1, <3>2
    <2>4. CASE HPublish(d)
      <3>1. target[d] # NoId
        BY <1>1, <2>4 DEF HPublish, Publish, HandleInv, Ids, NoId
      <3> QED
        BY <1>1, <2>1, <2>4, <3>1 DEF HPublish, HandleInv
    <2>5. CASE HAddFails(d) \/ HRejected(d)
      BY <1>1, <2>1, <2>5 DEF HAddFails, HRejected, HandleInv
    <2> QED
      BY <1>1, <2>2, <2>3, <2>4, <2>5
  <1>2. OwnInv /\ HandleInv /\ [HNext]_hvars
            => [\A c \in Callers \ GroupCallers : StopsOwn(c)]_hvars
    BY <1>1 DEF StopsOwn, Adders
  <1> QED
    BY <1>2, HandlesHeld, PTL DEF HSpec, AddersStopTheirOwn
=============================================================================
