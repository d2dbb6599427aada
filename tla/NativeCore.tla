----------------------------- MODULE NativeCore -----------------------------
(***************************************************************************)
(* What the threads that call NativeCore share: the results of ScanCache   *)
(* and the watch list of src/core/watch_list.cpp.  Ids come from an atomic *)
(* counter before the mutex is taken, and watch_read copies the entry and  *)
(* reads the other process after unlocking: two steps each, between which  *)
(* other threads add, remove and read.                                     *)
(***************************************************************************)
EXTENDS ScanCache

CONSTANT MaxWatches     \* bound on the ids given out

ASSUME WatchesAssumption == MaxWatches \in Nat

WatchIds == 0 .. MaxWatches - 1
Nowhere  == -1

VARIABLES watches,      \* s_watches: the address watched under an id, or Nowhere
          nextWatch,    \* s_wl_next_id
          watching,     \* the call of the watch list each caller is in
          given         \* history: the address an id was handed out for

watchVars == <<watches, nextWatch, watching, given>>
coreVars  == <<vars, watchVars>>

InWatch(op) == [op : {op}, id : WatchIds, addr : Addrs]

CoreInit == /\ Init
            /\ watches = [id \in WatchIds |-> Nowhere]
            /\ nextWatch = 0
            /\ watching = [c \in Callers |-> Idle]
            /\ given = [id \in WatchIds |-> Nowhere]

\* A caller is in one call at a time.
Rests(c) == call[c] = Idle /\ watching[c] = Idle

\* Mutant: the id is the size of the list.
NewIdSize == Cardinality({id \in WatchIds : watches[id] # Nowhere})

\* fetch_add
NewId == nextWatch

\* The pid was found positive; the id is drawn.
WatchDraw(c, addr) ==
    /\ Rests(c)
    /\ nextWatch < MaxWatches
    /\ nextWatch' = nextWatch + 1
    /\ watching' = [watching EXCEPT ![c] = [op |-> "add", id |-> NewId, addr |-> addr]]
    /\ UNCHANGED <<vars, watches, given>>

\* The entry is filed under the lock, and the id returned.
WatchFile(c) ==
    /\ watching[c].op = "add"
    /\ watches' = [watches EXCEPT ![watching[c].id] = watching[c].addr]
    /\ given'   = [given EXCEPT ![watching[c].id] = watching[c].addr]
    /\ watching' = [watching EXCEPT ![c] = Idle]
    /\ UNCHANGED <<vars, nextWatch>>

WatchRemove(c, id) ==
    /\ Rests(c)
    /\ watches' = [watches EXCEPT ![id] = Nowhere]
    /\ UNCHANGED <<vars, nextWatch, watching, given>>

\* The entry is found and copied; otherwise watch_read returns at once.
WatchCopy(c, id) ==
    /\ Rests(c)
    /\ watches[id] # Nowhere
    /\ watching' = [watching EXCEPT ![c] = [op |-> "read", id |-> id, addr |-> watches[id]]]
    /\ UNCHANGED <<vars, watches, nextWatch, given>>

\* read_mem, which may fail, and the return.
WatchReadEnd(c) ==
    /\ watching[c].op = "read"
    /\ watching' = [watching EXCEPT ![c] = Idle]
    /\ UNCHANGED <<vars, watches, nextWatch, given>>

WatchProceed(c) == WatchFile(c) \/ WatchReadEnd(c)

CoreNext == \/ \E c \in Callers :
                  \/ watching[c] = Idle /\ Call(c) /\ UNCHANGED watchVars
                  \/ Proceed(c) /\ UNCHANGED watchVars
                  \/ WatchProceed(c)
                  \/ \E addr \in Addrs : WatchDraw(c, addr)
                  \/ \E id \in WatchIds : WatchRemove(c, id) \/ WatchCopy(c, id)
            \/ \E a \in Addrs, v \in Values : Mutate(a, v) /\ UNCHANGED watchVars

CoreSpec == CoreInit /\ [][CoreNext]_coreVars

\* As FairSpec; nothing is assumed of the watch list.
FairCoreSpec == CoreSpec /\ \A c \in Callers : WF_vars(Proceed(c))

-----------------------------------------------------------------------------
(* Properties *)

CoreTypeOK == /\ TypeOK
              /\ watches \in [WatchIds -> Addrs \cup {Nowhere}]
              /\ nextWatch \in 0 .. MaxWatches
              /\ watching \in [Callers -> InWatch("add") \cup InWatch("read") \cup {Idle}]
              /\ given \in [WatchIds -> Addrs \cup {Nowhere}]
              /\ \A c \in Callers : watching[c] # Idle => call[c] = Idle

\* An id stands for the address it was handed out for, and for no other, ever:
\* a watch_read that unlocked reads the address of its own watch, even when
\* that watch has been removed and others were added meanwhile.
ReadsOwnWatch ==
    /\ \A id \in WatchIds : watches[id] \in {given[id], Nowhere}
    /\ \A c \in Callers :
          watching[c].op = "read" => watching[c].addr = given[watching[c].id]
=============================================================================
