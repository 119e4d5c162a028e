----------------------------- MODULE MCOverview -----------------------------
(* The runs on the server TLC runs the overview page on. *)
EXTENDS Overview

R(status, duration) == [status |-> status, duration |-> duration]

\* One run in progress; then more runs than the batch holds, so that the
\* daemon's sample reaches further back than the browser's.
MCHistory == <<
  <<R("running", NoDuration), R("success", 3)>>,
  <<R("running", NoDuration), R("failed", NoDuration), R("success", 3), R("failed", 4)>> >>

MCOutages == {{}, {"stats"}, {"stats", "runs"}, Endpoints}
=============================================================================
