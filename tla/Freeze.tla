------------------------------- MODULE Freeze -------------------------------
(***************************************************************************)
(* src/core/mem_freeze.cpp: freezes, their worker threads, and the calls   *)
(* that create, remove and clear them from any number of threads.          *)
(*                                                                         *)
(* A FreezeEntry is named by the id it is filed under: ids come            *)
(* from one atomic counter, so an id never names two entries.  The mutex   *)
(* s_mutex is held over one access to s_freezes and never across a wait:   *)
(* each critical section is one action.                                    *)
(*                                                                         *)
(* Time is discrete.  A worker that is not asleep takes its next step      *)
(* within Lag units (scheduling, or one whole pass of write_mem); callers  *)
(* may be delayed for as long as the scheduler likes.                      *)
(***************************************************************************)
EXTENDS Integers, FiniteSets

CONSTANTS Callers,      \* threads that call the freeze API
          MaxId,        \* bound on s_next_id: ids are 0 .. MaxId-1
          Intervals,    \* interval_ms values the callers pass
          Timeout,      \* FREEZE_JOIN_TIMEOUT_MS
          Lag           \* longest delay of a worker that is not asleep

ASSUME MaxIdAssumption     == MaxId \in Nat
ASSUME IntervalsAssumption == Intervals \subseteq Nat \ {0}
ASSUME TimeoutAssumption   == Timeout \in Nat
ASSUME LagAssumption       == Lag \in Nat

VARIABLES nextId,       \* s_next_id
          registry,     \* the keys of s_freezes
          heap,         \* the entry of an id: "none" yet, "live", or "freed"
          active,       \* ids whose entry->active is true
          finished,     \* ids whose entry->finished is true
          interval,     \* the interval each worker captured
          wpc,          \* where the worker of an id is
          wtimer,       \* time the worker has left before its next step is due
          cpc,          \* where a caller is
          target,       \* the entry a caller has in hand, or NoId
          todo,         \* entries a caller took out of s_freezes, not yet stopped
          waited        \* time since a caller's join_with_timeout began

entries == <<heap, active, finished, interval>>
workers == <<wpc, wtimer>>
callers == <<cpc, target, todo, waited>>
vars == <<nextId, registry, heap, active, finished, interval, wpc, wtimer,
          cpc, target, todo, waited>>

Ids  == 0 .. MaxId - 1
NoId == -1

\* The allocated entries.
Live == {id \in Ids : heap[id] = "live"}

WorkerPcs == {"none", "check", "write", "sleep", "store", "gone"}
CallerPcs == {"idle", "publish", "stop", "poll", "clock", "join", "delete"}

Init == /\ nextId = 0
        /\ registry = {}
        /\ heap = [id \in Ids |-> "none"]
        /\ active = {}
        /\ finished = {}
        /\ interval = [id \in Ids |-> 0]
        /\ wpc = [id \in Ids |-> "none"]
        /\ wtimer = [id \in Ids |-> 0]
        /\ cpc = [c \in Callers |-> "idle"]
        /\ target = [c \in Callers |-> NoId]
        /\ todo = [c \in Callers |-> {}]
        /\ waited = [c \in Callers |-> 0]

-----------------------------------------------------------------------------
(* Creating a freeze *)

\* freeze_add and freeze_all_results up to the running thread.  The id and
\* the entry are private until they are published, so fetching the counter,
\* allocating the entry and starting the thread are one step.
Add(c, i) ==
    /\ cpc[c] = "idle"
    /\ nextId < MaxId
    /\ nextId' = nextId + 1
    /\ heap' = [heap EXCEPT ![nextId] = "live"]
    /\ active' = active \cup {nextId}
    /\ interval' = [interval EXCEPT ![nextId] = i]
    /\ wpc' = [wpc EXCEPT ![nextId] = "check"]
    /\ wtimer' = [wtimer EXCEPT ![nextId] = Lag]
    /\ cpc' = [cpc EXCEPT ![c] = "publish"]
    /\ target' = [target EXCEPT ![c] = nextId]
    /\ UNCHANGED <<registry, finished, todo, waited>>

\* std::thread throws: the id is spent, the entry is deleted unpublished.
AddFails(c) ==
    /\ cpc[c] = "idle"
    /\ nextId < MaxId
    /\ nextId' = nextId + 1
    /\ heap' = [heap EXCEPT ![nextId] = "freed"]
    /\ UNCHANGED <<registry, active, finished, interval, workers, callers>>

\* Mutant: the entry is filed under the failure value.
FiledUnderNoId(c) == NoId

\* The key of the new entry.
FiledUnder(c) == target[c]

\* s_freezes[id] = entry, with the worker already running.
Publish(c) ==
    /\ cpc[c] = "publish"
    /\ registry' = registry \cup {FiledUnder(c)}
    /\ cpc' = [cpc EXCEPT ![c] = "idle"]
    /\ target' = [target EXCEPT ![c] = NoId]
    /\ UNCHANGED <<nextId, entries, workers, todo, waited>>

-----------------------------------------------------------------------------
(* Removing freezes.  An unknown id changes nothing. *)

\* Mutant: the entry is found but not erased.
FoundOnly(id) == registry

Erased(id) == registry \ {id}

\* freeze_remove: find and erase under the lock.
Remove(c, id) ==
    /\ cpc[c] = "idle"
    /\ id \in registry
    /\ registry' = Erased(id)
    /\ todo' = [todo EXCEPT ![c] = {id}]
    /\ cpc' = [cpc EXCEPT ![c] = "stop"]
    /\ UNCHANGED <<nextId, entries, workers, target, waited>>

\* freeze_clear: swap the whole map out under the lock.
Clear(c) ==
    /\ cpc[c] = "idle"
    /\ registry' = {}
    /\ todo' = [todo EXCEPT ![c] = registry]
    /\ cpc' = [cpc EXCEPT ![c] = "stop"]
    /\ UNCHANGED <<nextId, entries, workers, target, waited>>

\* Mutant: the iterator over the removed entries does not advance.
NotAdvanced(c, id) == todo[c]

\* The entries that come after this one.
After(c, id) == todo[c] \ {id}

\* Mutant: one clock for all the joins of a freeze_clear.
SameClock(c) == waited[c]

NewClock(c) == 0

\* active.store(false) on the next entry, and the clock of the join starts.
Deactivate(c, id) ==
    /\ cpc[c] = "stop"
    /\ id \in todo[c]
    /\ active' = active \ {id}
    /\ todo' = [todo EXCEPT ![c] = After(c, id)]
    /\ target' = [target EXCEPT ![c] = id]
    /\ waited' = [waited EXCEPT ![c] = NewClock(c)]
    /\ cpc' = [cpc EXCEPT ![c] = "poll"]
    /\ UNCHANGED <<nextId, registry, heap, finished, interval, workers>>

\* join_with_timeout reads finished: join the thread, or look at the clock.
Poll(c) ==
    /\ cpc[c] = "poll"
    /\ cpc' = [cpc EXCEPT ![c] = IF target[c] \in finished THEN "join"
                                                           ELSE "clock"]
    /\ UNCHANGED <<nextId, registry, entries, workers, target, todo, waited>>

\* Mutant: the thread is not waited for.
ExpiredAtOnce(c) == TRUE

Expired(c) == waited[c] > Timeout

\* Past the timeout the thread is detached, otherwise sleep 50 ms and poll.
Clock(c) ==
    /\ cpc[c] = "clock"
    /\ cpc' = [cpc EXCEPT ![c] = IF Expired(c) THEN "delete" ELSE "poll"]
    /\ UNCHANGED <<nextId, registry, entries, workers, target, todo, waited>>

\* worker.join(), which waits without a limit for the thread to end.
Join(c) ==
    /\ cpc[c] = "join"
    /\ wpc[target[c]] = "gone"
    /\ cpc' = [cpc EXCEPT ![c] = "delete"]
    /\ UNCHANGED <<nextId, registry, entries, workers, target, todo, waited>>

\* delete entry, whether the thread was joined or only detached.
Delete(c) ==
    /\ cpc[c] = "delete"
    /\ heap' = [heap EXCEPT ![target[c]] = "freed"]
    /\ target' = [target EXCEPT ![c] = NoId]
    /\ cpc' = [cpc EXCEPT ![c] = "stop"]
    /\ UNCHANGED <<nextId, registry, active, finished, interval, workers,
                   todo, waited>>

Return(c) ==
    /\ cpc[c] = "stop"
    /\ todo[c] = {}
    /\ cpc' = [cpc EXCEPT ![c] = "idle"]
    /\ UNCHANGED <<nextId, registry, entries, workers, target, todo, waited>>

-----------------------------------------------------------------------------
(* The worker thread of an id *)

\* What loading entry->active may return: anything once the entry is freed.
ActiveLoads(id) == IF heap[id] = "live" THEN {id \in active} ELSE BOOLEAN

\* Mutant: an inactive worker skips its pass but stays in the loop.
LoopContinue == "sleep"

\* Where an inactive worker goes.
LoopExit == "store"

\* while (entry->active.load(acquire))
Check(id) ==
    /\ wpc[id] = "check"
    /\ \E on \in ActiveLoads(id) :
          \/ /\ on
             /\ wpc' = [wpc EXCEPT ![id] = "write"]
             /\ wtimer' = [wtimer EXCEPT ![id] = Lag]
          \/ /\ ~on
             /\ wpc' = [wpc EXCEPT ![id] = LoopExit]
             /\ UNCHANGED wtimer
    /\ UNCHANGED <<nextId, registry, entries, callers>>

\* Mutant: if instead of while.
PassThenExit == "store"

AfterPass == "sleep"

\* The pass of write_mem is over and sleep_for(interval) begins.
Write(id) ==
    /\ wpc[id] = "write"
    /\ wpc' = [wpc EXCEPT ![id] = AfterPass]
    /\ wtimer' = [wtimer EXCEPT ![id] = interval[id]]
    /\ UNCHANGED <<nextId, registry, entries, callers>>

\* Mutant: active is not loaded again after the sleep.
SleepThenWrite == "write"

AfterSleep == "check"

\* sleep_for is over: back to the condition of the loop.
Wake(id) ==
    /\ wpc[id] = "sleep"
    /\ wtimer[id] = 0
    /\ wpc' = [wpc EXCEPT ![id] = AfterSleep]
    /\ wtimer' = [wtimer EXCEPT ![id] = Lag]
    /\ UNCHANGED <<nextId, registry, entries, callers>>

\* Whose finished a store to the entry of id sets: its own, and once that is
\* freed nobody's, or that of a later entry which was given its memory.
StoreHits(id) == IF heap[id] = "live" THEN {{id}}
                 ELSE {{}} \cup {{e} : e \in {d \in Live : d > id}}

\* finished.store(true)
Finish(id) ==
    /\ wpc[id] = "store"
    /\ \E hit \in StoreHits(id) : finished' = finished \cup hit
    /\ wpc' = [wpc EXCEPT ![id] = "gone"]
    /\ UNCHANGED <<nextId, registry, heap, active, interval, wtimer, callers>>

-----------------------------------------------------------------------------
(* Time *)

Alive(id)   == wpc[id] \notin {"none", "gone"}
Joining(c)  == cpc[c] \in {"poll", "clock", "join"}

Tick ==
    /\ \A id \in Ids : Alive(id) => wtimer[id] > 0
    /\ wtimer' = [id \in Ids |-> IF Alive(id) THEN wtimer[id] - 1
                                              ELSE wtimer[id]]
    /\ waited' = [c \in Callers |-> IF Joining(c) /\ waited[c] <= Timeout
                                    THEN waited[c] + 1 ELSE waited[c]]
    /\ UNCHANGED <<nextId, registry, entries, wpc, cpc, target, todo>>

-----------------------------------------------------------------------------
Call(c) == \/ \E i \in Intervals : Add(c, i)
           \/ AddFails(c)
           \/ \E id \in Ids : Remove(c, id)
           \/ Clear(c)

\* The steps that carry a call on to its return.
Proceed(c) == \/ Publish(c)
              \/ \E id \in Ids : Deactivate(c, id)
              \/ Poll(c)
              \/ Clock(c)
              \/ Join(c)
              \/ Delete(c)
              \/ Return(c)

Worker(id) == Check(id) \/ Write(id) \/ Wake(id) \/ Finish(id)

Next == \/ \E c \in Callers : Call(c) \/ Proceed(c)
        \/ \E id \in Ids : Worker(id)
        \/ Tick

Spec == Init /\ [][Next]_vars

\* Threads that can run do run, and time passes; nobody has to call.
Fairness == /\ \A c \in Callers : WF_vars(Proceed(c))
            /\ \A id \in Ids : WF_vars(Worker(id))
            /\ WF_vars(Tick)

FairSpec == Spec /\ Fairness

-----------------------------------------------------------------------------
(* Properties *)

TypeOK ==
    /\ nextId \in 0 .. MaxId
    /\ registry \subseteq Ids
    /\ heap \in [Ids -> {"none", "live", "freed"}]
    /\ active \subseteq Ids
    /\ finished \subseteq Ids
    /\ interval \in [Ids -> Nat]
    /\ wpc \in [Ids -> WorkerPcs]
    /\ wtimer \in [Ids -> Nat]
    /\ cpc \in [Callers -> CallerPcs]
    /\ target \in [Callers -> Ids \cup {NoId}]
    /\ todo \in [Callers -> SUBSET Ids]
    /\ waited \in [Callers -> 0 .. Timeout + 1]

\* The entries each caller is responsible for.
Held == [c \in Callers |->
            todo[c] \cup IF cpc[c] \in {"publish", "poll", "clock", "join", "delete"}
                         THEN {target[c]} ELSE {}]

OwnedOnce(live, reg, held) ==
    /\ \A id \in Ids : id \in live <=> \/ id \in reg
                                       \/ \E c \in Callers : id \in held[c]
    /\ \A id \in reg, c \in Callers : id \notin held[c]
    /\ \A c, d \in Callers : c # d => \A id \in held[c] : id \notin held[d]

\* Every allocated entry is owned exactly once: by s_freezes, by the call that
\* is about to publish it, or by the one call that took it out.  So no entry
\* is leaked and none is deleted twice, however removes and clears overlap.
SingleOwner == OwnedOnce(Live, registry, Held)

\* The join always outlasts a worker: an interval and two delays fit in it.
Prompt == \A i \in Intervals : i + 2 * Lag <= Timeout

\* A worker never outlives the entry it reads and writes through a raw
\* pointer: `delete entry` happens only after its thread is through.
NoUseAfterFree ==
    \A id \in Ids : heap[id] = "freed" => ~Alive(id)

\* A freeze that s_freezes lists is one that is still being applied.
ListedIsRunning ==
    \A id \in registry : heap[id] = "live" /\ id \in active /\ Alive(id)

\* "Arrete un freeze individuel." / "Arrete tous les freezes.": once the call
\* that removed it is over with an entry, its worker writes no more.
RemovedWritesNoMore ==
    \A id \in Ids : heap[id] = "freed" => wpc[id] # "write"

\* Every call returns, even one that waits for a worker in a long sleep.
CallsReturn == \A c \in Callers : cpc[c] # "idle" ~> cpc[c] = "idle"

\* A worker that was told to stop ends.
StoppedWorkersEnd ==
    \A id \in Ids : (Alive(id) /\ id \notin active) ~> ~Alive(id)

\* As long as nobody stops it, a freeze keeps writing its value again.
KeepsWriting ==
    \A id \in Ids : []<>(heap[id] = "live" /\ id \in active => wpc[id] = "write")

\* How far the life of an id has come, and who is writing.
PhaseOf(id) == CASE heap[id] = "none"  -> "unborn"
                 [] heap[id] = "freed" -> "stopped"
                 [] heap[id] = "live"  -> IF id \in active THEN "running"
                                                           ELSE "stopping"

Promise == INSTANCE FreezePromise WITH
                phase   <- [id \in Ids |-> PhaseOf(id)],
                writing <- {id \in Ids : wpc[id] = "write"}

\* The threads, the timeouts and the raw pointers of the implementation keep
\* the promise of the API: ids are fresh, a pass begins only before a stop,
\* and a stop is complete only when no pass is under way.
KeepsPromise == Promise!Spec

-----------------------------------------------------------------------------
(* The inductive invariant behind the properties *)

\* Ids below nextId have been handed out, the others are untouched.
Fresh ==
    \A id \in Ids : /\ id < nextId <=> heap[id] # "none"
                    /\ heap[id] = "none" => /\ id \notin active \cup finished
                                            /\ wpc[id] = "none"

\* What a caller has in hand at each point of its call.
InHand ==
    \A c \in Callers :
        /\ cpc[c] \in {"publish", "delete"} \/ Joining(c) =>
               target[c] \in Ids \ todo[c]
        /\ cpc[c] = "publish" => target[c] \in active
        /\ Joining(c) \/ cpc[c] = "delete" => target[c] \notin active
        /\ cpc[c] \in {"idle", "publish"} => todo[c] = {}
        /\ todo[c] \subseteq active

\* A worker leaves its loop only after its entry was deactivated.
Looping ==
    /\ registry \subseteq active
    /\ \A id \in active : heap[id] = "live"
    /\ \A id \in Ids : heap[id] = "live" =>
           /\ wpc[id] # "none"
           /\ id \in active => wpc[id] \in {"check", "write", "sleep"}
           /\ wpc[id] = "gone" => id \in finished

OwnInv == TypeOK /\ Fresh /\ SingleOwner /\ InHand /\ Looping

\* Time a worker that was told to stop still needs, at most.
Remaining(id) == CASE wpc[id] = "write" -> wtimer[id] + interval[id] + Lag
                   [] wpc[id] = "sleep" -> wtimer[id] + Lag
                   [] OTHER             -> wtimer[id]

\* The budget of a join covers what its worker still needs, and only entries
\* whose worker is through are about to be deleted.
Timing ==
    /\ \A id \in Ids : /\ heap[id] = "live" => interval[id] \in Intervals
                       /\ wtimer[id] <= IF wpc[id] = "sleep" THEN interval[id]
                                                            ELSE Lag
    /\ \A c \in Callers :
           /\ Joining(c) /\ Alive(target[c]) =>
                 waited[c] + Remaining(target[c]) <= interval[target[c]] + 2 * Lag
           /\ cpc[c] = "delete" => ~Alive(target[c])

IInv == OwnInv /\ Timing /\ NoUseAfterFree
=============================================================================
