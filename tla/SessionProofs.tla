--------------------------- MODULE SessionProofs ----------------------------
(***************************************************************************)
(* What the overlay shows and remembers agrees with the engine, for any    *)
(* processes, bounds and slider positions, and the log of the panel        *)
(* disturbs none of it.                                                    *)
(***************************************************************************)
EXTENDS PanelLog, TLAPS

\* Handlers that change neither watches, nor freezes, nor factors.
ScanTab == \/ Refresh \/ ClearScan \/ XorAutoFails
           \/ \E pid \in Pids \cup {0} : ApplyPid(pid)
           \/ \E n \in 0 .. MaxResults : FirstScan(n) \/ Refine(n)

WatchTab == \/ WatchAdd \/ WatchRemove(watchItems)
            \/ \E id \in watchItems : WatchRemove({id})

FreezeTab == FreezeAll \/ FreezeNone \/ UnfreezeAll

SpeedTab == \/ \E position \in Positions : Slide(position)
            \/ SpeedApply \/ SpeedReset

Life == (\E built \in BOOLEAN : Create(built)) \/ Destroy \/ Kill

LEMMA NextByTabs == Next <=> ScanTab \/ WatchTab \/ FreezeTab \/ SpeedTab \/ Life
  BY DEF Next, ScanTab, WatchTab, FreezeTab, SpeedTab, Life

-----------------------------------------------------------------------------
(* Types *)

LEMMA TypeInit == Init => TypeOK
  <1> USE BoundsAssumption, PidsAssumption, PositionsAssumption
  <1> SUFFICES ASSUME Init PROVE TypeOK
      OBVIOUS
  <1> USE DEF Init, NoViews
  <1>1. speeds \in [Pids -> 0 .. 2000] /\ speedFactor \in 1 .. 2000
        BY DEF One, NotSet
  <1>2. inherited \in [freezes : SUBSET FreezeIds, watches : SUBSET WatchIds,
                       factor : 1 .. 2000]
        BY DEF One
  <1>3. /\ nextFreeze \in 0 .. MaxFreezes /\ nextWatch \in 0 .. MaxWatches
        /\ results \in 0 .. MaxResults /\ shown \in -1 .. MaxResults
        OBVIOUS
  <1>4. targetPid \in Pids \cup {0} /\ status \in FreezeIds \cup {0, NoFreeze, Failed}
        OBVIOUS
  <1>5. speedActive \in BOOLEAN
        BY ONLY Init
  <1> QED
      BY <1>1, <1>2, <1>3, <1>4, <1>5 DEF TypeOK

LEMMA TypeScanTab == ASSUME TypeOK, ScanTab PROVE TypeOK'
  <1> USE DEF engine, panel, overlay, life
  <1>1. CASE Refresh      BY <1>1 DEF TypeOK, Refresh
  <1>2. CASE ClearScan    BY <1>2, BoundsAssumption DEF TypeOK, ClearScan, ShowScan
  <1>3. CASE XorAutoFails BY <1>3, BoundsAssumption DEF TypeOK, XorAutoFails
  <1>4. ASSUME NEW pid \in Pids \cup {0}, ApplyPid(pid) PROVE TypeOK'
        BY <1>4 DEF TypeOK, ApplyPid
  <1>5. ASSUME NEW n \in 0 .. MaxResults, FirstScan(n) \/ Refine(n) PROVE TypeOK'
    <2>1. CASE FirstScan(n) BY <2>1 DEF TypeOK, FirstScan, ShowScan
    <2>2. CASE Refine(n)    BY <2>2 DEF TypeOK, Refine, ShowScan
    <2> QED BY <1>5, <2>1, <2>2
  <1> QED
      BY <1>1, <1>2, <1>3, <1>4, <1>5 DEF ScanTab

LEMMA NewWatchId == ASSUME TypeOK, WatchAdd
                    PROVE  WatchId = nextWatch /\ nextWatch \in WatchIds
  <1>1. targetPid \in Int BY PidsAssumption DEF TypeOK
  <1>2. WatchId = nextWatch BY <1>1 DEF WatchAdd, HasPid, WatchId
  <1> QED
      BY <1>2, BoundsAssumption DEF TypeOK, WatchAdd, WatchIds

LEMMA TypeWatchTab == ASSUME TypeOK, WatchTab PROVE TypeOK'
  <1> USE DEF panel, life
  <1>1. CASE WatchAdd
    <2>1. watches' \subseteq WatchIds /\ watchItems' \subseteq WatchIds
          BY <1>1, NewWatchId DEF TypeOK, WatchAdd
    <2>2. nextWatch' \in 0 .. MaxWatches
          BY <1>1, BoundsAssumption DEF TypeOK, WatchAdd
    <2> QED
        BY <1>1, <2>1, <2>2 DEF TypeOK, WatchAdd
  <1>2. ASSUME NEW ids, WatchRemove(ids) PROVE TypeOK'
        BY <1>2 DEF TypeOK, WatchRemove, WatchesLeft
  <1> QED
      BY <1>1, <1>2 DEF WatchTab

LEMMA TypeFreezeTab == ASSUME TypeOK, FreezeTab PROVE TypeOK'
  <1> USE BoundsAssumption DEF panel, life, ShowFreeze, Remembered, StatusOf
  <1>1. CASE FreezeAll   BY <1>1 DEF TypeOK, FreezeAll, FreezeIds
  <1>2. CASE FreezeNone  BY <1>2 DEF TypeOK, FreezeNone, FreezeIds
  <1>3. CASE UnfreezeAll BY <1>3 DEF TypeOK, UnfreezeAll
  <1> QED
      BY <1>1, <1>2, <1>3 DEF FreezeTab

LEMMA TypeSpeedTab == ASSUME TypeOK, SpeedTab PROVE TypeOK'
  <1>1. ASSUME NEW position \in Positions, Slide(position) PROVE TypeOK'
    <2>1. slider' \in Positions /\ speedFactor' \in 1 .. 2000
          BY <1>1, PositionsAssumption DEF TypeOK, Slide, Moves, Factor
    <2> QED
        BY <1>1, <2>1 DEF TypeOK, Slide, life, engine
  <1>2. CASE SpeedApply
    <2>1. speeds' \in [Pids -> 0 .. 2000]
          BY <1>2 DEF TypeOK, SpeedApply, SpeedsWith
    <2>2. speedActive' \in BOOLEAN
          BY ONLY <1>2 DEF SpeedApply
    <2> QED
        BY <1>2, <2>1, <2>2 DEF TypeOK, SpeedApply, overlay, life
  <1>3. CASE SpeedReset
    <2>1. speeds' \in [Pids -> 0 .. 2000]
          BY <1>3 DEF TypeOK, SpeedReset, SpeedsWith, NotSet
    <2>2. slider' \in Positions /\ speedFactor' \in 1 .. 2000
          BY <1>3, PositionsAssumption DEF TypeOK, SpeedReset, Moves, One, Factor
    <2>3. speedActive' \in BOOLEAN
          BY ONLY <1>3 DEF SpeedReset
    <2> QED
        BY <1>3, <2>1, <2>2, <2>3 DEF TypeOK, SpeedReset, life
  <1> QED
      BY <1>1, <1>2, <1>3 DEF SpeedTab

LEMMA TypeLife == ASSUME TypeOK, Life PROVE TypeOK'
  <1> USE BoundsAssumption, PositionsAssumption DEF FreshViews
  <1>1. ASSUME NEW built \in BOOLEAN, Create(built) PROVE TypeOK'
        BY <1>1 DEF TypeOK, Create, One, NotSet, engine, panel
  <1>2. CASE Destroy BY <1>2 DEF TypeOK, Destroy, engine, panel
  <1>3. CASE Kill
    <2>1. speeds' \in [Pids -> 0 .. 2000] /\ speedFactor' \in 1 .. 2000
          BY <1>3 DEF Kill, One, NotSet
    <2>2. inherited' \in [freezes : SUBSET FreezeIds, watches : SUBSET WatchIds,
                          factor : 1 .. 2000]
          BY <1>3 DEF Kill, One
    <2>3. speedActive' \in BOOLEAN
          BY ONLY <1>3 DEF Kill
    <2> QED
        BY <1>3, <2>1, <2>2, <2>3 DEF TypeOK, Kill
  <1> QED
      BY <1>1, <1>2, <1>3 DEF Life

LEMMA TypeStep == ASSUME TypeOK, [Next]_vars PROVE TypeOK'
  <1>1. CASE UNCHANGED vars
        BY <1>1 DEF TypeOK, vars, engine, panel, overlay, life
  <1> QED
      BY <1>1, NextByTabs, TypeScanTab, TypeWatchTab, TypeFreezeTab, TypeSpeedTab, TypeLife

\* The state of a session keeps its types.
THEOREM SessionTypes == Spec => []TypeOK
  BY TypeInit, TypeStep, PTL DEF Spec

-----------------------------------------------------------------------------
(* Watches *)

\* The ids of watches that the engine, the rows or the history know have been
\* handed out, so that WatchAdd brings a new one.
WatchesSpent == watches \cup watchItems \cup inherited.watches \subseteq 0 .. nextWatch - 1

WatchInv == WatchesSpent /\ WatchesAreListed

LEMMA WatchStep == ASSUME TypeOK, WatchInv, [Next]_vars PROVE WatchInv'
  <1> USE DEF WatchInv, WatchesSpent, WatchesAreListed, Running
  <1> USE DEF engine, panel, overlay, life
  <1>1. CASE WatchAdd
    <2>1. /\ watchItems' = watchItems \cup {nextWatch}
          /\ watches' = watches \cup {nextWatch}
          /\ nextWatch' = nextWatch + 1
          /\ nextWatch \in Nat
          BY <1>1, NewWatchId, BoundsAssumption DEF WatchAdd, WatchIds, TypeOK
    <2>2. service' = service /\ inherited' = inherited
          BY <1>1 DEF WatchAdd
    <2>3. nextWatch \notin 0 .. nextWatch - 1 /\ 0 .. nextWatch - 1 \subseteq 0 .. nextWatch
          BY <2>1
    <2> QED
        BY <2>1, <2>2, <2>3
  <1>2. ASSUME NEW ids, ids \subseteq watchItems, WatchRemove(ids) PROVE WatchInv'
        BY <1>2 DEF WatchRemove, WatchesLeft
  <1>3. CASE Life
    <2>1. ASSUME NEW built \in BOOLEAN, Create(built) PROVE WatchInv'
          BY <2>1 DEF Create, FreshViews
    <2>2. CASE Destroy BY <2>2 DEF Destroy, FreshViews
    <2>3. CASE Kill BY <2>3 DEF Kill, FreshViews
    <2> QED
        BY <1>3, <2>1, <2>2, <2>3 DEF Life
  <1>4. CASE ScanTab \/ FreezeTab \/ SpeedTab \/ UNCHANGED vars
    <2>1. UNCHANGED <<watches, nextWatch, watchItems, service, inherited>>
          BY <1>4 DEF ScanTab, Refresh, ClearScan, XorAutoFails, ApplyPid, FirstScan, Refine,
                      ShowScan, FreezeTab, FreezeAll, FreezeNone, UnfreezeAll, ShowFreeze,
                      SpeedTab, Slide, SpeedApply, SpeedReset, vars
    <2> QED
        BY <2>1
  <1> QED
      BY <1>1, <1>2, <1>3, <1>4, NextByTabs DEF WatchTab

\* The rows of the watch tab and the watches of the engine agree in every
\* session, over any number of re-creations.
THEOREM WatchesStayListed == Spec => []WatchesAreListed
  <1>1. Init => WatchInv
        BY DEF Init, NoViews, WatchInv, WatchesSpent, WatchesAreListed, Running
  <1>2. WatchInv => WatchesAreListed
        BY DEF WatchInv
  <1> QED
      BY <1>1, <1>2, SessionTypes, WatchStep, PTL DEF Spec

-----------------------------------------------------------------------------
(* Freezes *)

LEMMA FreezeStep == ASSUME TypeOK, FreezesAreKnown, [Next]_vars PROVE FreezesAreKnown'
  <1> USE DEF FreezesAreKnown, Running
  <1> USE DEF engine, panel, overlay, life
  <1>1. CASE FreezeAll
    <2>1. nextFreeze >= 0 /\ nextFreeze # NoFreeze
          BY BoundsAssumption DEF TypeOK, NoFreeze
    <2>2. status' = nextFreeze /\ freezeIds' = freezeIds \cup {nextFreeze}
          BY <1>1, <2>1 DEF FreezeAll, ShowFreeze, StatusOf, Remembered
    <2> QED
        BY <1>1, <2>1, <2>2 DEF FreezeAll, ShowFreeze
  <1>2. CASE FreezeNone
    <2>1. status' = 0 /\ 0 # NoFreeze /\ freezeIds' = freezeIds \cup {0}
          BY <1>2 DEF FreezeNone, ShowFreeze, StatusOf, Remembered, NoFreeze
    <2> QED
        BY <1>2, <2>1 DEF FreezeNone, ShowFreeze
  <1>3. CASE UnfreezeAll BY <1>3 DEF UnfreezeAll
  <1>4. CASE Life
    <2>1. ASSUME NEW built \in BOOLEAN, Create(built) PROVE FreezesAreKnown'
          BY <2>1 DEF Create, FreshViews
    <2>2. CASE Destroy BY <2>2 DEF Destroy, FreshViews
    <2>3. CASE Kill BY <2>3 DEF Kill, FreshViews
    <2> QED
        BY <1>4, <2>1, <2>2, <2>3 DEF Life
  <1>5. CASE ScanTab \/ WatchTab \/ SpeedTab \/ UNCHANGED vars
    <2>1. UNCHANGED <<freezes, freezeIds, status, service, inherited>>
          BY <1>5 DEF ScanTab, Refresh, ClearScan, XorAutoFails, ApplyPid, FirstScan, Refine,
                      ShowScan, WatchTab, WatchAdd, WatchRemove,
                      SpeedTab, Slide, SpeedApply, SpeedReset, vars
    <2> QED
        BY <2>1
  <1> QED
      BY <1>1, <1>2, <1>3, <1>4, <1>5, NextByTabs DEF FreezeTab

\* No freeze of this instance runs unknown to it, and "Aucun freeze actif" is
\* true of them.
THEOREM FreezesStayKnown == Spec => []FreezesAreKnown
  <1>1. Init => FreezesAreKnown
        BY DEF Init, NoViews, FreezesAreKnown, Running
  <1> QED
      BY <1>1, SessionTypes, FreezeStep, PTL DEF Spec

\* An id above 0 that tvFreezeStatus shows is of a freeze that runs: only 0 is
\* both an id and a failure (StatusIsTrue).
ShownFreezeRuns == Running /\ status > 0 => status \in freezes

LEMMA ShownFreezeStep == ASSUME TypeOK, ShownFreezeRuns, [Next]_vars
                         PROVE  ShownFreezeRuns'
  <1> USE DEF ShownFreezeRuns, Running
  <1> USE DEF engine, panel, overlay, life
  <1>1. CASE FreezeAll
    <2>1. nextFreeze >= 0
          BY BoundsAssumption DEF TypeOK
    <2>2. status' = nextFreeze /\ freezes' = freezes \cup {nextFreeze}
          BY <1>1, <2>1 DEF FreezeAll, ShowFreeze, StatusOf
    <2> QED
        BY <2>2
  <1>2. CASE FreezeNone
    <2>1. status' = 0
          BY <1>2 DEF FreezeNone, ShowFreeze, StatusOf
    <2> QED
        BY <2>1
  <1>3. CASE UnfreezeAll
    <2>1. ~(status' > 0)
          BY <1>3 DEF UnfreezeAll, NoFreeze
    <2> QED
        BY <2>1
  <1>4. CASE Life
    <2>1. ~(status' > 0)
          BY <1>4 DEF Life, Create, Destroy, Kill, FreshViews, NoFreeze
    <2> QED
        BY <2>1
  <1>5. CASE ScanTab \/ WatchTab \/ SpeedTab \/ UNCHANGED vars
    <2>1. UNCHANGED <<freezes, status, service>>
          BY <1>5 DEF ScanTab, Refresh, ClearScan, XorAutoFails, ApplyPid, FirstScan, Refine,
                      ShowScan, WatchTab, WatchAdd, WatchRemove,
                      SpeedTab, Slide, SpeedApply, SpeedReset, vars
    <2> QED
        BY <2>1
  <1> QED
      BY <1>1, <1>2, <1>3, <1>4, <1>5, NextByTabs DEF FreezeTab

\* "Freeze actif" with an id above 0 is true through any re-creation, any other
\* freezes and failures: what StatusIsTrue finds is the failure 0 alone.
THEOREM ShownFreezesRun == Spec => []ShownFreezeRuns
  <1>1. Init => ShownFreezeRuns
        BY DEF Init, NoViews, ShownFreezeRuns, Running
  <1> QED
      BY <1>1, SessionTypes, ShownFreezeStep, PTL DEF Spec

-----------------------------------------------------------------------------
(* Speed hack *)

SpeedInv == FactorIsShown /\ ActiveIsSet

LEMMA SpeedStep == ASSUME TypeOK, SpeedInv, [Next]_vars PROVE SpeedInv'
  <1> USE DEF SpeedInv, Running
  <1> USE DEF engine, panel, overlay, life
  <1>1. ASSUME NEW position \in Positions, Slide(position) PROVE SpeedInv'
    <2>1. FactorIsShown' BY <1>1 DEF Slide, Moves, FactorIsShown
    <2>2. ActiveIsSet'   BY <1>1 DEF Slide, ActiveIsSet
    <2> QED BY <2>1, <2>2
  <1>2. CASE SpeedApply
    <2>1. FactorIsShown' BY <1>2 DEF SpeedApply, FactorIsShown
    <2>2. ASSUME targetPid > 0 PROVE ActiveIsSet'
      <3>1. targetPid \in Pids /\ speedFactor # NotSet
            BY <2>2 DEF TypeOK, NotSet
      <3>2. speeds'[targetPid] = speedFactor
            BY <1>2, <3>1 DEF SpeedApply, SpeedsWith
      <3> QED
          BY <3>1, <3>2 DEF ActiveIsSet, NotSet
    <2>3. ASSUME ~(targetPid > 0) PROVE ActiveIsSet'
          BY <1>2, <2>3 DEF SpeedApply, ActiveIsSet
    <2> QED BY <2>1, <2>2, <2>3
  <1>3. CASE SpeedReset
    <2>1. FactorIsShown' BY <1>3 DEF SpeedReset, Moves, FactorIsShown
    <2>2. ActiveIsSet'   BY <1>3 DEF SpeedReset, ActiveIsSet
    <2> QED BY <2>1, <2>2
  <1>4. CASE Life
    <2>1. ASSUME NEW built \in BOOLEAN, Create(built) PROVE SpeedInv'
          BY <2>1 DEF Create, FreshViews, FactorIsShown, ActiveIsSet
    <2>2. CASE Destroy BY <2>2 DEF Destroy, FactorIsShown, ActiveIsSet
    <2>3. CASE Kill BY <2>3 DEF Kill, FactorIsShown, ActiveIsSet
    <2> QED
        BY <1>4, <2>1, <2>2, <2>3 DEF Life
  <1>5. CASE ScanTab \/ WatchTab \/ FreezeTab \/ UNCHANGED vars
    <2>1. UNCHANGED <<speeds, speedFactor, slider, service, inherited>>
          BY <1>5 DEF ScanTab, Refresh, ClearScan, XorAutoFails, ApplyPid, FirstScan, Refine,
                      ShowScan, WatchTab, WatchAdd, WatchRemove,
                      FreezeTab, FreezeAll, FreezeNone, UnfreezeAll, ShowFreeze, vars
    <2>2. speedActive' = speedActive
          BY <1>5 DEF ScanTab, Refresh, ClearScan, XorAutoFails, ApplyPid, FirstScan, Refine,
                      ShowScan, WatchTab, WatchAdd, WatchRemove,
                      FreezeTab, FreezeAll, FreezeNone, UnfreezeAll, ShowFreeze, vars
    <2> QED
        BY <2>1, <2>2 DEF FactorIsShown, ActiveIsSet
  <1> QED
      BY <1>1, <1>2, <1>3, <1>4, <1>5, NextByTabs DEF SpeedTab

LEMMA SpeedHolds == Spec => []SpeedInv
  <1>1. Init => SpeedInv
        BY DEF Init, NoViews, SpeedInv, FactorIsShown, ActiveIsSet, Running
  <1> QED
      BY <1>1, SessionTypes, SpeedStep, PTL DEF Spec

\* What APPLIQUER sends is what the slider shows, or what an earlier instance
\* left, for any positions and however often the service is created anew.
THEOREM SpeedStaysShown == Spec => []FactorIsShown
  <1>1. SpeedInv => FactorIsShown
        BY DEF SpeedInv
  <1> QED
      BY <1>1, SpeedHolds, PTL

\* A speed hack that is shown as active is set for some process, however the
\* target was changed between APPLIQUER and RESET.
THEOREM ActiveStaysSet == Spec => []ActiveIsSet
  <1>1. SpeedInv => ActiveIsSet
        BY DEF SpeedInv
  <1> QED
      BY <1>1, SpeedHolds, PTL

-----------------------------------------------------------------------------
(* The log *)

\* Each step with the log is a step of the session, or leaves it alone.
LEMMA LogStepSimulates == [LogNext]_logVars => [Next]_vars
  <1> SUFFICES ASSUME LogNext PROVE [Next]_vars
      BY DEF logVars
  <1>1. CASE Created
        BY <1>1 DEF Created, Next
  <1>2. CASE Destroyed \/ Killed \/ Refreshed
        BY <1>2 DEF Destroyed, Killed, Refreshed, Next
  <1>3. CASE SetPid
        BY <1>3 DEF SetPid, Next
  <1>4. CASE ClearLog \/ Noted
        BY <1>4 DEF ClearLog, Noted
  <1>5. CASE Handled
        BY <1>5 DEF Handled, Next
  <1>6. CASE Unlogged
        BY <1>6 DEF Unlogged, Next
  <1> QED
      BY <1>1, <1>2, <1>3, <1>4, <1>5, <1>6 DEF LogNext

\* What is proved of the session holds of it with its log.
THEOREM LogDisturbsNothing == LogSpec => Spec
  <1>1. LogInit => Init
        BY DEF LogInit
  <1> QED
      BY <1>1, LogStepSimulates, PTL DEF LogSpec, Spec

\* A line more, or none, keeps the log within its bound.
LEMMA PushedBounded == ASSUME NEW n \in 0 .. LogMax PROVE Pushed(n) \in 0 .. LogMax
  BY LogAssumption DEF Pushed

LEMMA EmptyLog == 0 \in 0 .. LogMax
  BY LogAssumption

LogInv == lines \in 0 .. LogMax /\ behind \in BOOLEAN

LEMMA LogStep == LogInv /\ [LogNext]_logVars => LogInv'
  <1> SUFFICES ASSUME LogInv, [LogNext]_logVars PROVE LogInv'
      OBVIOUS
  <1>1. Pushed(lines) \in 0 .. LogMax /\ Pushed(Pushed(lines)) \in 0 .. LogMax
        BY PushedBounded DEF LogInv
  <1>2. CASE Created \/ SetPid \/ Handled \/ Noted
        BY <1>1, <1>2 DEF Created, SetPid, Handled, Noted, Log, LogTwice, LogInv
  <1>3. CASE Killed \/ ClearLog
    <2>1. lines' = 0 /\ behind' = FALSE
          BY <1>3 DEF Killed, ClearLog, ViewCleared
    <2> QED
        BY <2>1, EmptyLog DEF LogInv
  <1>4. CASE Destroyed \/ Refreshed \/ Unlogged \/ UNCHANGED logVars
    <2>1. lines' = lines
          BY <1>4 DEF Destroyed, Refreshed, Unlogged, Silent, logVars
    <2>2. HasText \in BOOLEAN
          BY DEF HasText, LogInv
    <2>3. behind' \in {HasText, behind /\ ~HasText, behind}
          BY <1>4 DEF Destroyed, Refreshed, Unlogged, Silent, logVars
    <2>4. behind' \in BOOLEAN
          BY <2>2, <2>3, Zenon DEF LogInv
    <2> QED
        BY <2>1, <2>4 DEF LogInv
  <1> QED
      BY <1>2, <1>3, <1>4 DEF LogNext

\* The session keeps its types and the log its bound, whatever is written to it.
THEOREM LogTypes == LogSpec => []LogTypeOK
  <1>1. LogInit => LogInv
        BY EmptyLog DEF LogInit, LogInv
  <1>2. TypeOK /\ LogInv => LogTypeOK
        BY DEF LogInv, LogTypeOK
  <1> QED
      BY <1>1, <1>2, LogStep, LogDisturbsNothing, SessionTypes, PTL DEF LogSpec
=============================================================================
