------------------------------- MODULE DagRun -------------------------------
(***************************************************************************)
(* What RunPipeline promises its caller, without goroutines, channels,     *)
(* contexts, rows or workspaces: jobs run in dependency order, and it      *)
(* returns exactly once, nil if and only if every job succeeded, with no   *)
(* job left running.  Scheduler implements this (Scheduler!Promise).       *)
(***************************************************************************)
EXTENDS Naturals, Sequences

CONSTANTS Jobs, Pipelines

VARIABLES
  dependsOn,  \* the pipeline: each job's list of dependencies
  stage,      \* how far each job has got
  verdict     \* "none" while open, then what RunPipeline returned

vars == <<dependsOn, stage, verdict>>

DepsOf(j) == {dependsOn[j][i] : i \in 1..Len(dependsOn[j])}

Ready(j) == /\ verdict = "none"
            /\ stage[j] = "waiting"
            /\ \A d \in DepsOf(j) : stage[d] = "succeeded"

Begin(j) == /\ Ready(j)
            /\ stage' = [stage EXCEPT ![j] = "running"]
            /\ UNCHANGED <<dependsOn, verdict>>

\* The job fails before its container runs.
Refuse(j) == /\ Ready(j)
             /\ stage' = [stage EXCEPT ![j] = "failed"]
             /\ UNCHANGED <<dependsOn, verdict>>

End(j) == /\ stage[j] = "running"
          /\ \E s \in {"succeeded", "failed"} : stage' = [stage EXCEPT ![j] = s]
          /\ UNCHANGED <<dependsOn, verdict>>

AllSucceeded == \A j \in Jobs : stage[j] = "succeeded"

Conclude == /\ verdict = "none"
            /\ \A j \in Jobs : stage[j] # "running"
            /\ verdict' = IF AllSucceeded THEN "ok" ELSE "err"
            /\ UNCHANGED <<dependsOn, stage>>

Init == /\ dependsOn \in Pipelines
        /\ stage = [j \in Jobs |-> "waiting"]
        /\ verdict = "none"

Next == Conclude \/ \E j \in Jobs : Begin(j) \/ Refuse(j) \/ End(j)

Spec == Init /\ [][Next]_vars
=============================================================================
