---------------------------- MODULE FreezePromise ----------------------------
(***************************************************************************)
(* What a caller of the freeze API is promised, whatever its threads do.   *)
(* A freeze is a promise about ONE id: it writes its value only between    *)
(* its creation and its removal ("Arrete un freeze individuel"), ids are   *)
(* never handed out twice, and a removed freeze never runs again.          *)
(***************************************************************************)

CONSTANTS Ids           \* the ids s_next_id may hand out

VARIABLES phase,        \* life of an id, one way from "unborn" to "stopped"
          writing       \* ids with a pass of write_mem under way

vars == <<phase, writing>>

Phases == {"unborn", "running", "stopping", "stopped"}

Init == /\ phase = [id \in Ids |-> "unborn"]
        /\ writing = {}

\* An id is handed out and its freeze starts.
Start(id) == /\ phase[id] = "unborn"
             /\ phase' = [phase EXCEPT ![id] = "running"]
             /\ UNCHANGED writing

\* An id is handed out but no thread could be started for it.
Burn(id) == /\ phase[id] = "unborn"
            /\ phase' = [phase EXCEPT ![id] = "stopped"]
            /\ UNCHANGED writing

\* A pass may begin only while nobody asked the freeze to stop.
BeginWrite(id) == /\ phase[id] = "running"
                  /\ id \notin writing
                  /\ writing' = writing \cup {id}
                  /\ UNCHANGED phase

EndWrite(id) == /\ id \in writing
                /\ writing' = writing \ {id}
                /\ UNCHANGED phase

Stop(id) == /\ phase[id] = "running"
            /\ phase' = [phase EXCEPT ![id] = "stopping"]
            /\ UNCHANGED writing

\* The stop is complete only when no pass is under way.
Reclaim(id) == /\ phase[id] = "stopping"
               /\ id \notin writing
               /\ phase' = [phase EXCEPT ![id] = "stopped"]
               /\ UNCHANGED writing

Next == \E id \in Ids : \/ Start(id) \/ Burn(id)
                        \/ BeginWrite(id) \/ EndWrite(id)
                        \/ Stop(id) \/ Reclaim(id)

Spec == Init /\ [][Next]_vars
=============================================================================
