------------------------------ MODULE Partitioned ------------------------------
(* Scheduler implements TimePartitioning.                                     *)
EXTENDS Scheduler

Phase ==
    IF ~mf_timer THEN "closed"
    ELSE IF finished_sc_partitions < Total THEN "sc" ELSE "be"

TP == INSTANCE TimePartitioning WITH
          win     <- current_win,
          entered <- started,
          phase   <- Phase,
          waiting <- IF op \in {"startSc", "startBe"} THEN todo ELSE {},
          active  <- running_process,
          done    <- completed,
          alive   <- system_process_spawned

\* Timers, nested callbacks, completions, exits and shutdown, however they
\* interleave, amount to the service that TimePartitioning describes: windows in
\* order, BE partitions only after every SC partition of the window, at most one
\* turn for each process, no slice idle while a process of its partition waits.
TimePartitioned == TP!Spec
===============================================================================
