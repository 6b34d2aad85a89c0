-------------------------- MODULE MCFiberScheduler --------------------------
(***************************************************************************)
(* The fiber scheduler on small instances; the .cfg files give the bounds. *)
(* A behaviour takes one of two courses.  In "sleep" fibers sleep, wait    *)
(* with a timeout and are suspended, but guest code runs only for a short  *)
(* time; in "share" they do not, and it runs for as long as the clock      *)
(* goes.  Only guest code is held back: what the host owes a fiber does    *)
(* not depend on the course.                                               *)
(***************************************************************************)
EXTENDS FiberScheduler

CONSTANT SleepClock  \* bound: how far guest code runs, and delays last, in "sleep"

VARIABLE course

Timed(call) == call.kind \in {"timed", "sleep"}

StaysOnCourse ==
    IF course = "sleep"
    THEN /\ ran' > ran => clock' <= SleepClock
         /\ \A i \in DOMAIN fibers' :
               Timed(fibers'[i].call) => fibers'[i].call.until <= SleepClock
    ELSE /\ \A i \in DOMAIN fibers' : ~Timed(fibers'[i].call)
         /\ \A s \in Slots : registry'[s].life = "suspended" => registry[s].life # "runnable"

MCInit == Init /\ course \in {"sleep", "share"}
MCNext == Next /\ StaysOnCourse /\ UNCHANGED course

MCSpec == MCInit /\ [][MCNext]_<<vars, course>>
MCFairSpec == MCSpec /\ WF_vars(HostStep)
=============================================================================
