------------------------------ MODULE MCRunsPage ------------------------------
(***************************************************************************)
(* Four rows that tie or lack a time in one way each, two of which change, *)
(* and query strings a link or the history may hold.                       *)
(***************************************************************************)
EXTENDS RunsPage

MCTexts == {"", "all", "fix", "fix ", "main", "web", "Web", "ALL"}
MCTrim == [x \in MCTexts |-> IF x = "fix " THEN "fix" ELSE x]
MCLower == [x \in MCTexts |-> CASE x = "Web" -> "web" [] x = "ALL" -> "all" [] OTHER -> x]
MCTyped == {"fix", "fix "}

NoUrl == [q |-> "", status |-> "", branch |-> "", pipeline |-> "", sort |-> "", other |-> ""]
MCLinks ==
    { NoUrl,
      [NoUrl EXCEPT !.pipeline = "Web", !.other = "kept"],
      [NoUrl EXCEPT !.q = "fix ", !.status = "bogus", !.sort = "duration-asc"] }

\* A run's pipeline goes by its identifier, its name or both.
Row(id, status, started, finished, pipelineId, pipelineName, contains) ==
    [id |-> id, status |-> status, created |-> 1, started |-> started, finished |-> finished,
     branch |-> IF id = 1 THEN "" ELSE "main", pipelineId |-> pipelineId,
     pipelineName |-> pipelineName, contains |-> contains]

MCRowsAt == [n \in 1 .. 2 |->
    { Row(1, "failed", 2, 4, "web", "main", {"fix"}),
      Row(2, IF n = 1 THEN "running" ELSE "success", 2, IF n = 1 THEN Unusable ELSE 4, "fix", "Web", {}),
      Row(3, IF n = 1 THEN "pending" ELSE "cancelled", Unusable, Missing, "all", "", {"fix"}),
      Row(4, "success", Missing, Missing, "main", "fix", {}) }]

=============================================================================
