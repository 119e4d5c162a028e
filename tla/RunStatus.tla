------------------------------ MODULE RunStatus ------------------------------
(***************************************************************************)
(* The statuses a run and each of its jobs carry in the store              *)
(* (pkg/drevtypes/types.go).  StatusCancelled is declared there and shown  *)
(* by the dashboard, but no code of the daemon ever writes it, so it is    *)
(* not a status a model's row can take.                                    *)
(***************************************************************************)

Pending == "pending"
Running == "running"
Success == "success"
Failed  == "failed"

\* What a row of the store may hold.
Status == {Pending, Running, Success, Failed}

\* What ResetGhostRuns looks for and every client treats as unfinished.
Active == {Pending, Running}

Terminal == {Success, Failed}
=============================================================================
