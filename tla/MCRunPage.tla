----------------------------- MODULE MCRunPage -----------------------------
(* The histories TLC runs the page of a run on. *)
EXTENDS RunPage

CONSTANTS a, b, c

History(span, first, second, third) ==
  [run |-> span, job |-> [j \in Jobs |-> CASE j = a -> first [] j = b -> second [] j = c -> third]]

S(from, to) == [from |-> from, to |-> to]
R(from, to, again) == [from |-> from, to |-> to, again |-> again]

\* Jobs one inside the other; one after the other, and touching; at the same
\* time; without length, alone and inside another; a job that never runs; one
\* that starts when two others end; one that is failed unstarted; a run that
\* ends unstarted; and jobs a later recovery fails, one left as running and one
\* as pending, under a run whose end is written again in between.
MCPlans == {
  History(R(2, 5, Unset), S(2, 5), S(3, 4), NeverRuns),
  History(R(3, 5, 5), S(3, 4), S(4, 5), NeverRuns),
  History(R(3, 4, 5), S(3, 4), S(3, 4), S(3, 4)),
  History(R(2, 4, 4), S(2, 2), S(2, 4), NeverRuns),
  History(R(2, 4, 5), S(3, 3), S(3, 3), NeverRuns),
  History(R(4, 4, 4), NeverRuns, S(Unset, 4), NeverRuns),
  History(R(2, 5, 5), S(2, 4), S(3, 4), S(4, 5)),
  History(R(Unset, 3, Unset), NeverRuns, NeverRuns, S(Unset, 5)),
  History(R(2, 3, 4), S(2, 3), S(2, 5), S(Unset, 5)) }

\* One job after the other, the first within one second.
MCSequential == { History(R(2, 4, 4), S(2, 2), S(3, 4), NeverRuns) }
=============================================================================
