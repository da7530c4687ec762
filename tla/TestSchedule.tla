---------------------------- MODULE TestSchedule ----------------------------
(***************************************************************************)
(* What the scheduling part of the runner promises, without the tree walk, *)
(* the mutexes and the threads: every selected test runs exactly once, and *)
(* two tests of one #[sequential] module never run at the same time        *)
(* (book/src/advanced_features/per_test_configuration.md).                 *)
(***************************************************************************)
CONSTANTS
    AllTests,            \* the tests to run
    Exclusive(_, _)      \* may these two tests not overlap?

VARIABLES
    waiting,             \* tests that did not start yet
    active,              \* tests whose body is running
    finished             \* tests that have a result

schedule == <<waiting, active, finished>>

ScheduleInit ==
    /\ waiting = AllTests
    /\ active = {}
    /\ finished = {}

StartTest(x) ==
    /\ x \in waiting
    /\ \A y \in active : ~Exclusive(x, y)
    /\ waiting' = waiting \ {x}
    /\ active' = active \cup {x}
    /\ UNCHANGED finished

FinishTest(x) ==
    /\ x \in active
    /\ active' = active \ {x}
    /\ finished' = finished \cup {x}
    /\ UNCHANGED waiting

ScheduleNext == \E x \in AllTests : StartTest(x) \/ FinishTest(x)

ScheduleSafety == ScheduleInit /\ [][ScheduleNext]_schedule

(* Some test starts or finishes as long as one can. *)
ScheduleSpec == ScheduleSafety /\ WF_schedule(ScheduleNext)
=============================================================================
