--------------------------- MODULE FreezeHandles ----------------------------
(***************************************************************************)
(* The ids the freeze API returns, and what its callers do with them: a    *)
(* caller keeps the id of its last freezeAdd or freezeAllResults when that *)
(* is not negative, and hands it to freezeRemove, possibly long after a    *)
(* freezeClear of another thread took that freeze down.                    *)
(***************************************************************************)
EXTENDS Freeze

CONSTANT GroupCallers   \* callers of freezeAllResults; the others freezeAdd

ASSUME GroupCallersAssumption == GroupCallers \subseteq Callers

VARIABLES handle,       \* the id each caller holds, or NoId
          maker         \* the caller whose call started a freeze, as a set

hvars == <<vars, handle, maker>>

HInit == /\ Init
         /\ handle = [c \in Callers |-> NoId]
         /\ maker = [id \in Ids |-> {}]

\* Mutant: freeze_add fails the way freeze_all_results does.
FailureZero(c) == 0

\* What a call that created nothing returns: freeze_add says -1 and
\* freeze_all_results says 0.
Failure(c) == IF c \in GroupCallers THEN 0 ELSE NoId

HAdd(c, i) == /\ handle[c] = NoId
              /\ Add(c, i)
              /\ maker' = [maker EXCEPT ![nextId] = {c}]
              /\ UNCHANGED handle

HAddFails(c) == /\ handle[c] = NoId
                /\ AddFails(c)
                /\ handle' = [handle EXCEPT ![c] = Failure(c)]
                /\ UNCHANGED maker

\* Nothing is created: there is no value (-1 from the JNI layer, whatever is
\* called), or no results to freeze, a bad pid or a bad interval.
HRejected(c) == /\ cpc[c] = "idle"
                /\ handle[c] = NoId
                /\ \E id \in {NoId, Failure(c)} : handle' = [handle EXCEPT ![c] = id]
                /\ UNCHANGED <<vars, maker>>

HPublish(c) == /\ Publish(c)
               /\ handle' = [handle EXCEPT ![c] = target[c]]
               /\ UNCHANGED maker

HRemove(c) == /\ \/ Remove(c, handle[c])
                 \/ /\ cpc[c] = "idle"
                    /\ handle[c] \in Ids \ registry
                    /\ UNCHANGED vars
              /\ handle' = [handle EXCEPT ![c] = NoId]
              /\ UNCHANGED maker

HClear(c) == Clear(c) /\ UNCHANGED <<handle, maker>>

HCarryOn(c) == /\ \/ \E id \in Ids : Deactivate(c, id)
                  \/ Poll(c) \/ Clock(c) \/ Join(c) \/ Delete(c) \/ Return(c)
               /\ UNCHANGED <<handle, maker>>

HBackground == /\ Tick \/ \E id \in Ids : Worker(id)
               /\ UNCHANGED <<handle, maker>>

HNext == \/ \E c \in Callers : \/ \E i \in Intervals : HAdd(c, i)
                               \/ HAddFails(c) \/ HRejected(c)
                               \/ HPublish(c) \/ HRemove(c) \/ HClear(c)
                               \/ HCarryOn(c)
         \/ HBackground

HSpec == HInit /\ [][HNext]_hvars

\* As in Freeze: threads that can run do run, and time passes.
HFairSpec == /\ HSpec
             /\ \A c \in Callers : WF_hvars(HPublish(c) \/ HCarryOn(c))
             /\ WF_hvars(HBackground)
             /\ \A id \in Ids : WF_hvars(Worker(id) /\ UNCHANGED <<handle, maker>>)

-----------------------------------------------------------------------------
(* Properties *)

\* Caller c spends its id, and takes down only freezes of its own.
StopsOwn(c) == handle[c] # NoId /\ handle'[c] = NoId
                   => registry \ registry' \subseteq {id \in Ids : maker[id] = {c}}

\* A caller that only uses freezeAdd takes down only freezes of its own by the
\* ids it was given, whatever other callers do with theirs and however late it
\* uses its own: ids are not reused and a failed freezeAdd leaves nothing to
\* remove.
AddersStopTheirOwn == [][\A c \in Callers \ GroupCallers : StopsOwn(c)]_hvars
=============================================================================
