------------------------------ MODULE PanelLog ------------------------------
(***************************************************************************)
(* The log of the panel (src/ui/panel_state.cpp, src/jni/jni_panel.cpp)    *)
(* and the view of the overlay that shows it.  Most handlers of Session    *)
(* write a line; the view is brought up to date by the refresh task only,  *)
(* and only when there is something to show.                               *)
(***************************************************************************)
EXTENDS Session

CONSTANT LogMax         \* LOG_MAX

ASSUME LogAssumption == LogMax \in Nat \ {0}

VARIABLES lines,        \* log_entries.size()
          behind        \* the text of tvLog is not the text of the log

logVars == <<vars, lines, behind>>

LogInit == Init /\ lines = 0 /\ behind = FALSE

\* Mutant: a full log grows.
PushedAlways(n) == n + 1

\* PanelState::log: a full log loses its first line.
Pushed(n) == (IF n >= LogMax THEN n - 1 ELSE n) + 1

\* AngelsPanel.log, once and twice.
Log == lines' = Pushed(lines) /\ behind' = TRUE
LogTwice == lines' = Pushed(Pushed(lines)) /\ behind' = TRUE

Silent == UNCHANGED <<lines, behind>>

\* What getLog returns is not empty.
HasText == lines > 0

\* onCreate says that it has started, or why it has not.
Created == \/ \E built \in BOOLEAN : Create(built) /\ Log
           \/ Create(FALSE) /\ LogTwice

\* The next view is empty, the log is not.
Destroyed == Destroy /\ UNCHANGED lines /\ behind' = HasText

Killed == Kill /\ lines' = 0 /\ behind' = FALSE

\* The view gets the text of the log, unless that is empty.
Refreshed == Refresh /\ UNCHANGED lines /\ behind' = (behind /\ ~HasText)

\* setTargetPid and applyPid both write a line.
SetPid == /\ \E pid \in Pids \cup {0} : ApplyPid(pid)
          /\ LogTwice

\* Mutant: only the log is cleared.
ViewKept == behind \/ HasText

\* tvLog.setText(""), next to an empty log.
ViewCleared == FALSE

\* The button next to the log.
ClearLog == /\ Running
            /\ lines' = 0 /\ behind' = ViewCleared
            /\ UNCHANGED vars

\* The handlers that write one line.
Handled == /\ \/ \E n \in 0 .. MaxResults : FirstScan(n) \/ Refine(n)
              \/ ClearScan \/ XorAutoFails
              \/ FreezeAll \/ FreezeNone \/ UnfreezeAll
              \/ WatchAdd \/ SpeedApply \/ SpeedReset
           /\ Log

\* Bulk writes, string scans and the search for keys change nothing else here.
Noted == Running /\ HasPid /\ Log /\ UNCHANGED vars

\* The handlers that write none.
Unlogged == /\ \/ WatchRemove(watchItems)
               \/ \E id \in watchItems : WatchRemove({id})
               \/ \E position \in Positions : Slide(position)
            /\ Silent

LogNext == \/ Created \/ Destroyed \/ Killed \/ Refreshed
           \/ SetPid \/ ClearLog \/ Handled \/ Noted \/ Unlogged

LogSpec == LogInit /\ [][LogNext]_logVars

\* As in Session: the looper runs the posted task in the end.
FairLogSpec == LogSpec /\ WF_logVars(Refreshed)

-----------------------------------------------------------------------------
(* Properties *)

\* The state of a session keeps its types, and the log its bound.
LogTypeOK == TypeOK /\ lines \in 0 .. LogMax /\ behind \in BOOLEAN

\* The view of the log catches up with it: no line is kept from the user, and
\* none stays there after the log was cleared, although the refresh task never
\* shows an empty log.
LogCatchesUp == Running /\ behind ~> ~behind \/ ~Running
=============================================================================
