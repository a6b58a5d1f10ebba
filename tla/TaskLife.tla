------------------------------ MODULE TaskLife ------------------------------
(***************************************************************************)
(* What the registry promises about a detached task: it may lag behind the *)
(* process, but it never calls a live process completed, and it forgets a  *)
(* task only when the process does not run.  A kill ends the promise: it   *)
(* is not known to have ended the process.                                 *)
(***************************************************************************)
CONSTANTS Tasks, None
VARIABLES life, shown

lifevars == <<life, shown>>

LifeInit ==
  /\ life = [t \in Tasks |-> "none"]
  /\ shown = [t \in Tasks |-> None]

Begin(t) ==
  /\ life[t] = "none"
  /\ life' = [life EXCEPT ![t] = "running"]
  /\ UNCHANGED shown

(* A kill without effect. *)
CutLoose(t) ==
  /\ life[t] = "running"
  /\ life' = [life EXCEPT ![t] = "loose"]
  /\ UNCHANGED shown

End(t) ==
  /\ life[t] \in {"running", "loose"}
  /\ life' = [life EXCEPT ![t] = "ended"]
  /\ UNCHANGED shown

Show(t, status) ==
  /\ status = "completed" => life[t] # "running"
  /\ shown' = [shown EXCEPT ![t] = status]
  /\ UNCHANGED life

Forget(t) ==
  /\ life[t] # "running"
  /\ shown' = [shown EXCEPT ![t] = None]
  /\ UNCHANGED life

LifeNext ==
  \E t \in Tasks :
    \/ Begin(t) \/ CutLoose(t) \/ End(t) \/ Forget(t)
    \/ \E status \in {"launching", "running", "completed"} : Show(t, status)

LifeSpec == LifeInit /\ [][LifeNext]_lifevars
=============================================================================
