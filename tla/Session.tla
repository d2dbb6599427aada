------------------------------ MODULE Session -------------------------------
(***************************************************************************)
(* A session of the overlay (AngelsOverlayService): what its views show,   *)
(* what it remembers, and the native state behind it, which outlives the   *)
(* service and is lost with the process.                                   *)
(*                                                                         *)
(* Every handler, the refresh task included, runs to its end on the main   *)
(* looper: an action each.  The busy flags are therefore never found set.  *)
(* The engine appears by what its calls promise: see Freeze and ScanCache. *)
(***************************************************************************)
EXTENDS Integers, FiniteSets

CONSTANTS Pids,         \* processes that can be typed in
          MaxFreezes,   \* bound on the ids of freezes
          MaxWatches,   \* bound on the ids of watches
          MaxResults,   \* bound on s_scan_results.size()
          Positions     \* of the slider, of 0 .. 2000

ASSUME BoundsAssumption == {MaxFreezes, MaxWatches, MaxResults} \subseteq Nat
ASSUME PidsAssumption   == Pids \subseteq Nat \ {0}

\* The slider counts in 1/200; so do the factors here.
One == 200
ASSUME PositionsAssumption == One \in Positions /\ Positions \subseteq 0 .. 2000

FreezeIds == 0 .. MaxFreezes - 1
WatchIds  == 0 .. MaxWatches - 1

\* What tvFreezeStatus shows instead of an id; a pid without a speed factor.
NoFreeze == -1      \* "Aucun freeze actif"
Failed   == -2      \* "Freeze echoue"
NotSet   == 0

VARIABLES
    \* of the process
    targetPid, results,         \* PanelState::target_pid; s_scan_results.size()
    freezes, nextFreeze,        \* s_freezes, s_next_id
    watches, nextWatch,         \* s_watches, s_wl_next_id
    speeds,                     \* factors of s_speeds, or NotSet
    speedFactor, speedActive,   \* of PanelState
    \* of the service
    service,                    \* "none", "running", "stopping" (stopSelf)
    posted,                     \* how often refreshTask is posted
    shown, status,              \* tvResultCount, tvFreezeStatus
    slider,                     \* progress of sbSpeed
    freezeIds, watchItems,
    \* history: what there was when the service was created
    inherited

engine  == <<results, freezes, nextFreeze, watches, nextWatch, speeds>>
panel   == <<targetPid, speedFactor, speedActive>>
overlay == <<shown, status, slider, freezeIds, watchItems>>
life    == <<service, posted, inherited>>
vars    == <<engine, panel, overlay, life>>

NoViews == /\ shown = 0 /\ status = NoFreeze /\ slider = One
           /\ freezeIds = {} /\ watchItems = {}

Init == /\ targetPid = 0 /\ results = 0
        /\ freezes = {} /\ nextFreeze = 0
        /\ watches = {} /\ nextWatch = 0
        /\ speeds = [p \in Pids |-> NotSet]
        /\ speedFactor = One /\ speedActive = FALSE
        /\ service = "none" /\ posted = 0
        /\ NoViews
        /\ inherited = [freezes |-> {}, watches |-> {}, factor |-> One]

-----------------------------------------------------------------------------
(* The life of the service and of its process *)

\* The fields and views of a new instance.
FreshViews == /\ shown' = 0 /\ status' = NoFreeze /\ slider' = One
              /\ freezeIds' = {} /\ watchItems' = {}

\* onCreate; without the permission, or when the views cannot be built, the
\* service stops itself before anything is posted.
Create(built) ==
    /\ service = "none"
    /\ service' = IF built THEN "running" ELSE "stopping"
    /\ posted' = IF built THEN 1 ELSE 0
    /\ FreshViews
    /\ inherited' = [freezes |-> freezes, watches |-> watches, factor |-> speedFactor]
    /\ UNCHANGED <<engine, panel>>

\* onDestroy: the instance is gone with its views; nothing native is stopped.
Destroy == /\ service # "none"
           /\ service' = "none" /\ posted' = 0
           /\ FreshViews
           /\ UNCHANGED <<engine, panel, inherited>>

\* The process dies, and everything with it; START_STICKY creates the service
\* again.
Kill == /\ targetPid' = 0 /\ results' = 0
        /\ freezes' = {} /\ nextFreeze' = 0
        /\ watches' = {} /\ nextWatch' = 0
        /\ speeds' = [p \in Pids |-> NotSet]
        /\ speedFactor' = One /\ speedActive' = FALSE
        /\ service' = "none" /\ posted' = 0
        /\ FreshViews
        /\ inherited' = [freezes |-> {}, watches |-> {}, factor |-> One]

Running == service = "running"

\* Mutant: the refresh is not posted again.
RefreshOnce ==
    /\ Running /\ posted > 0
    /\ shown' = results
    /\ posted' = posted - 1
    /\ UNCHANGED <<engine, panel, status, slider, freezeIds, watchItems, service, inherited>>

\* refresh(), posted again at its end.
Refresh ==
    /\ Running /\ posted > 0
    /\ shown' = results
    /\ UNCHANGED <<engine, panel, status, slider, freezeIds, watchItems, life>>

-----------------------------------------------------------------------------
(* Target and scans *)

ApplyPid(pid) == /\ Running
                 /\ targetPid' = pid
                 /\ UNCHANGED <<engine, speedFactor, speedActive, overlay, life>>

\* "PID invalide" otherwise.
HasPid == targetPid > 0

\* A scan, or scanClear, leaves n results and shows how many.
ShowScan(n) ==
    /\ results' = n /\ shown' = n
    /\ UNCHANGED <<freezes, nextFreeze, watches, nextWatch, speeds, panel,
                   status, slider, freezeIds, watchItems, life>>

FirstScan(n) == Running /\ HasPid /\ ShowScan(n)
Refine(n)    == Running /\ HasPid /\ n <= results /\ ShowScan(n)
ClearScan    == Running /\ ShowScan(0)

\* scanXorAuto: no key is found, -1 is shown, and the results are those of
\* the scan before; with a key it is a first scan.
XorAutoFails ==
    /\ Running /\ HasPid
    /\ shown' = -1
    /\ UNCHANGED <<engine, panel, status, slider, freezeIds, watchItems, life>>

-----------------------------------------------------------------------------
(* Freezes *)

\* Mutant: one id is remembered.
RememberedLast(id) == {id}

StatusOf(id) == IF id >= 0 THEN id ELSE Failed
Remembered(id) == IF id >= 0 THEN freezeIds \cup {id} ELSE freezeIds

\* doFreezeAll, with the id that freezeAllResults returned.
ShowFreeze(id) ==
    /\ status' = StatusOf(id)
    /\ freezeIds' = Remembered(id)
    /\ UNCHANGED <<results, watches, nextWatch, speeds, panel,
                   shown, slider, watchItems, life>>

\* A value has been typed, so the value handed over is not empty.
FreezeAll ==
    /\ Running /\ HasPid
    /\ results > 0 /\ nextFreeze < MaxFreezes
    /\ freezes' = freezes \cup {nextFreeze}
    /\ nextFreeze' = nextFreeze + 1
    /\ ShowFreeze(nextFreeze)

\* freeze_all_results returns 0 when there are no results, and when no thread
\* could be started, the id being spent.
FreezeNone ==
    /\ Running /\ HasPid
    /\ \/ results = 0 /\ UNCHANGED nextFreeze
       \/ results > 0 /\ nextFreeze < MaxFreezes /\ nextFreeze' = nextFreeze + 1
    /\ UNCHANGED freezes
    /\ ShowFreeze(0)

\* doUnfreezeAll: freezeClear stops every freeze, the ones of an earlier
\* instance of the service too.
UnfreezeAll ==
    /\ Running
    /\ freezes' = {}
    /\ freezeIds' = {} /\ status' = NoFreeze
    /\ UNCHANGED <<results, nextFreeze, watches, nextWatch, speeds, panel,
                   shown, slider, watchItems, life>>

-----------------------------------------------------------------------------
(* Watches *)

\* watch_add refuses a pid with -1.
WatchId == IF targetPid <= 0 THEN -1 ELSE nextWatch

WatchAdd ==
    /\ Running /\ HasPid
    /\ nextWatch < MaxWatches
    /\ watchItems' = watchItems \cup {WatchId}
    /\ watches' = watches \cup ({WatchId} \ {-1})
    /\ nextWatch' = IF WatchId = -1 THEN nextWatch ELSE nextWatch + 1
    /\ UNCHANGED <<results, freezes, nextFreeze, speeds, panel,
                   shown, status, slider, freezeIds, life>>

\* Mutant: the rows go, watch_remove is not called.
WatchesKept(ids) == watches

\* watch_remove of each id.
WatchesLeft(ids) == watches \ ids

\* The button of one row, or CLEAR ALL.
WatchRemove(ids) ==
    /\ Running
    /\ watches' = WatchesLeft(ids)
    /\ watchItems' = watchItems \ ids
    /\ UNCHANGED <<results, freezes, nextFreeze, nextWatch, speeds, panel,
                   shown, status, slider, freezeIds, life>>

-----------------------------------------------------------------------------
(* Speed hack *)

\* max(0.01, prog / 200), within the limits of nativeSetSpeedFactor.
Factor(position) == IF position < 2 THEN 2 ELSE position

\* Mutant: setProgress does not call onProgressChanged.
MovesSilently(position) == slider' = position /\ UNCHANGED speedFactor

\* setProgress calls onProgressChanged when the progress changes.
Moves(position) ==
    /\ slider' = position
    /\ speedFactor' = IF position # slider THEN Factor(position) ELSE speedFactor

Slide(position) ==
    /\ Running
    /\ Moves(position)
    /\ UNCHANGED <<engine, targetPid, speedActive, shown, status, freezeIds, watchItems, life>>

\* speed_hack_set and speed_hack_reset: the entry of the target in s_speeds;
\* a pid that is not positive is refused.
SpeedsWith(factor) == [p \in Pids |-> IF p = targetPid THEN factor ELSE speeds[p]]

\* Mutant: what speedHackSet returned is not looked at.
ApplyRegardless ==
    /\ Running
    /\ speeds' = SpeedsWith(speedFactor)
    /\ speedActive' = TRUE
    /\ UNCHANGED <<results, freezes, nextFreeze, watches, nextWatch,
                   targetPid, speedFactor, overlay, life>>

\* APPLIQUER: active is what speed_hack_set returned.
SpeedApply ==
    /\ Running
    /\ speeds' = SpeedsWith(speedFactor)
    /\ speedActive' = (targetPid > 0)
    /\ UNCHANGED <<results, freezes, nextFreeze, watches, nextWatch,
                   targetPid, speedFactor, overlay, life>>

\* RESET: whatever speed_hack_reset returned, the panel is inactive and the
\* slider goes back to 1x.
SpeedReset ==
    /\ Running
    /\ speeds' = SpeedsWith(NotSet)
    /\ speedActive' = FALSE
    /\ Moves(One)
    /\ UNCHANGED <<results, freezes, nextFreeze, watches, nextWatch,
                   targetPid, shown, status, freezeIds, watchItems, life>>

-----------------------------------------------------------------------------
Next == \/ \E built \in BOOLEAN : Create(built)
        \/ Destroy \/ Kill \/ Refresh
        \/ \E pid \in Pids \cup {0} : ApplyPid(pid)
        \/ \E n \in 0 .. MaxResults : FirstScan(n) \/ Refine(n)
        \/ ClearScan \/ XorAutoFails
        \/ FreezeAll \/ FreezeNone \/ UnfreezeAll
        \/ WatchAdd \/ WatchRemove(watchItems)
        \/ \E id \in watchItems : WatchRemove({id})
        \/ \E position \in Positions : Slide(position)
        \/ SpeedApply \/ SpeedReset

Spec == Init /\ [][Next]_vars

\* The looper runs the posted task in the end.
FairSpec == Spec /\ WF_vars(Refresh)

-----------------------------------------------------------------------------
(* Properties *)

TypeOK == /\ targetPid \in Pids \cup {0} /\ results \in 0 .. MaxResults
          /\ freezes \subseteq FreezeIds /\ nextFreeze \in 0 .. MaxFreezes
          /\ watches \subseteq WatchIds /\ nextWatch \in 0 .. MaxWatches
          /\ speeds \in [Pids -> 0 .. 2000]
          /\ speedFactor \in 1 .. 2000 /\ speedActive \in BOOLEAN
          /\ service \in {"none", "running", "stopping"} /\ posted \in 0 .. 1
          /\ shown \in -1 .. MaxResults
          /\ status \in FreezeIds \cup {0, NoFreeze, Failed}
          /\ slider \in Positions
          /\ freezeIds \subseteq FreezeIds \cup {0} /\ watchItems \subseteq WatchIds
          /\ inherited \in [freezes : SUBSET FreezeIds, watches : SUBSET WatchIds,
                            factor : 1 .. 2000]

\* The rows of the watch tab are the watches the engine holds, apart from
\* those an earlier instance of the service left behind: none is lost or kept
\* behind the user's back by any sequence of adding, deleting and clearing.
WatchesAreListed == Running => /\ watches = inherited.watches \cup watchItems
                               /\ inherited.watches \cap watchItems = {}

\* Every running freeze of this instance is among the ids it remembers, and
\* "Aucun freeze actif" is shown only when it has none running.
FreezesAreKnown == Running =>
    /\ freezes \subseteq inherited.freezes \cup freezeIds
    /\ status = NoFreeze => freezes \subseteq inherited.freezes

\* The factor that APPLIQUER sends is the one the slider shows, unless it was
\* left by an earlier instance and the slider still stands where it was built.
FactorIsShown == Running => \/ speedFactor = Factor(slider)
                            \/ slider = One /\ speedFactor = inherited.factor

\* The panel says the speed hack is active only while some process has a
\* factor, whichever pids it was applied to and reset for.
ActiveIsSet == speedActive => \E p \in Pids : speeds[p] # NotSet

\* What the count shows becomes the number of results, whoever changed them
\* and however the last scan ended, as long as the service lives.
CountCatchesUp == Running /\ shown # results ~> shown = results \/ ~Running

\* "Freeze actif -- id=N": the freeze shown as active is running.
StatusIsTrue == Running /\ status >= 0 => status \in freezes
=============================================================================
