----------------------------- MODULE MCScheduler -----------------------------
(* The shapes of pipeline three jobs can form, for TLC. *)
EXTENDS Scheduler, TLC

CONSTANTS a, b, c

None == <<>>

\* Chain, fork, fan-in and three roots; a job listed twice, which is two
\* dependencies; and a cycle, which the scheduler rejects.
MCPipelines == {
  (a :> None @@ b :> <<a>> @@ c :> <<b>>),
  (a :> None @@ b :> <<a>> @@ c :> <<a>>),
  (a :> None @@ b :> None @@ c :> <<a, b>>),
  (a :> None @@ b :> None @@ c :> None),
  (a :> None @@ b :> <<a, a>> @@ c :> <<b, a>>),
  (a :> None @@ b :> <<c>> @@ c :> <<b>>) }

\* Job names that are clean already: each has a directory of its own.
MCDir == [j \in Jobs |-> j]

\* Jobs a and b are named "lint" and "./lint": different names to the parser,
\* one directory to filepath.Clean.  No job depends on the other.
MCAliasedPipelines == {
  (a :> None @@ b :> None @@ c :> <<a, b>>),
  (a :> None @@ b :> None @@ c :> None) }

MCAliasedDir == [j \in Jobs |-> IF j = b THEN a ELSE j]
=============================================================================
