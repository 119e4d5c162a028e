------------------------------ MODULE RateLimit ------------------------------
(***************************************************************************)
(* The arithmetic of the login limiter (src/dashboard/lib/auth-server.ts,  *)
(* 344-433).  The code keeps absolute times; an entry here keeps what its  *)
(* tests compare: the age of the window (now - windowStart) and the time   *)
(* left of the block (blockedUntil - now).  Ages stop counting at          *)
(* Window + 1, where every comparison with the window has been decided,    *)
(* and a block that is over, or was never set, is NotBlocked.              *)
(***************************************************************************)
EXTENDS Integers

CONSTANTS Window,           \* RATE_LIMIT_WINDOW_MS, in ticks
          MaxFailures,      \* MAX_FAILURES
          NoEntry           \* the map holds nothing for this client

ASSUME RateLimitAssumption ==
    /\ Window \in Nat \ {0}
    /\ MaxFailures \in Nat \ {0}
    /\ NoEntry \notin [failures : Nat, age : Nat, block : Int]

NotBlocked == -1

Entries == [failures : Nat, age : 0 .. Window + 1, block : NotBlocked .. Window]

WindowOver(e) == e.age > Window
BlockInForce(e) == e.block > 0

(* Seeded faults: one failure too many is let through and
   the block is not looked at; a refused attempt starts the block again.   *)
AllowedUpToLimit(e) == e = NoEntry \/ WindowOver(e) \/ e.failures <= MaxFailures
CheckedExtending(e) ==
    IF e # NoEntry /\ e.failures >= MaxFailures
    THEN [e EXCEPT !.block = Window] ELSE e

(* checkRateLimit: whether the attempt goes on ...                         *)
Allowed(e) ==
    e # NoEntry => ~BlockInForce(e) /\ (WindowOver(e) \/ e.failures < MaxFailures)

(* ... and what the check leaves in the map.                               *)
Checked(e) ==
    IF e = NoEntry \/ BlockInForce(e) THEN e
    ELSE IF WindowOver(e) THEN NoEntry
    ELSE IF e.failures >= MaxFailures THEN [e EXCEPT !.block = Window - e.age] ELSE e

(* recordFailedAttempt, once the map has been pruned.                      *)
Failed(e) ==
    IF e = NoEntry \/ WindowOver(e)
    THEN [failures |-> 1, age |-> 0, block |-> NotBlocked]
    ELSE [failures |-> e.failures + 1,
          age      |-> e.age,
          block    |-> IF e.failures + 1 >= MaxFailures THEN Window ELSE e.block]

(* What pruneExpiredEntries deletes.                                       *)
Expired(e) == e # NoEntry /\ WindowOver(e) /\ e.block = NotBlocked

(* One tick later.                                                         *)
Aged(e) ==
    IF e = NoEntry THEN NoEntry
    ELSE [failures |-> e.failures,
          age      |-> IF e.age > Window THEN e.age ELSE e.age + 1,
          block    |-> IF e.block = NotBlocked THEN e.block ELSE e.block - 1]
=============================================================================
