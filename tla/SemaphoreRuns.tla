----------------------------- MODULE SemaphoreRuns -----------------------------
(* What the two semaphore tests of src/linux-c/semaphore have in common.   *)

CONSTANTS Runs,        \* the runs of the tests, which may overlap
          Faulty       \* those in which library calls fail and processes are killed

ASSUME SemaphoreRunsAssumption ==
  /\ Faulty \subseteq Runs
  /\ "none" \notin Runs
===============================================================================
