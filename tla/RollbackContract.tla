--------------------------- MODULE RollbackContract ---------------------------
(***************************************************************************)
(* What the script-state hooks of a generated strategy promise the engine  *)
(* (docstring of _emit_script_state_hooks, codegen/emit_top.py).           *)
(*                                                                         *)
(* The engine brackets a bar's executions with snapshot_script_state,      *)
(* restore_script_state and commit_script_state.  A successful restore     *)
(* gives every rolled-back member the contents it had when the checkpoint  *)
(* was taken and leaves every other member alone; a hook that throws       *)
(* leaves the checkpoint as it was, so that the hook can be retried.       *)
(***************************************************************************)
CONSTANTS
    Rolled,     \* members a restore brings back
    Kept,       \* members a restore leaves alone
    Data,       \* for each member, what it can hold
    Initial     \* the members' reset values

Members == Rolled \cup Kept

VARIABLES
    live,       \* the members' contents
    saved,      \* the checkpoint: NoCheckpoint, or the contents of Rolled
    restoring,  \* restore_script_state is between its first and last write
    outcome     \* how the last hook ended: "ok", or "threw"

vars == <<live, saved, restoring, outcome>>

NoCheckpoint == [taken |-> FALSE]
Checkpoint(f) == [taken |-> TRUE, contents |-> f]

(* Every member may hold anything of its type. *)
Changed ==
    /\ live' = [m \in Members |-> live'[m]]
    /\ \A m \in Members : live'[m] \in Data[m]

KeptUnchanged == \A m \in Kept : live'[m] = live[m]

Init ==
    /\ live = Initial
    /\ saved = NoCheckpoint
    /\ restoring = FALSE
    /\ outcome = "ok"

(* The script runs: any member may change, the checkpoint may not. *)
Run ==
    /\ ~restoring
    /\ Changed
    /\ UNCHANGED <<saved, restoring, outcome>>

(* snapshot_script_state and commit_script_state. *)
Take ==
    /\ ~restoring
    /\ saved' = Checkpoint([m \in Rolled |-> live[m]])
    /\ outcome' = "ok"
    /\ UNCHANGED <<live, restoring>>

TakeThrows ==
    /\ ~restoring
    /\ outcome' = "threw"
    /\ UNCHANGED <<live, saved, restoring>>

BeginRestore ==
    /\ ~restoring
    /\ saved.taken
    /\ restoring' = TRUE
    /\ UNCHANGED <<live, saved, outcome>>

RestoreStep ==
    /\ restoring
    /\ Changed
    /\ KeptUnchanged
    /\ UNCHANGED <<saved, restoring, outcome>>

EndRestore ==
    /\ restoring
    /\ live' = [m \in Members |->
                  IF m \in Rolled THEN saved.contents[m] ELSE live[m]]
    /\ restoring' = FALSE
    /\ outcome' = "ok"
    /\ UNCHANGED saved

RestoreThrows ==
    /\ restoring
    /\ Changed
    /\ KeptUnchanged
    /\ restoring' = FALSE
    /\ outcome' = "threw"
    /\ UNCHANGED saved

(* prepare_script_run: a new lifecycle. *)
PrepareRun ==
    /\ ~restoring
    /\ live' = Initial
    /\ saved' = NoCheckpoint
    /\ outcome' = "ok"
    /\ UNCHANGED restoring

Next ==
    \/ Run \/ Take \/ TakeThrows
    \/ BeginRestore \/ RestoreStep \/ EndRestore \/ RestoreThrows
    \/ PrepareRun

Spec == Init /\ [][Next]_vars
===============================================================================
