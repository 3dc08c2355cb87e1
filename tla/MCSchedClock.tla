---------------------------- MODULE MCSchedClock ----------------------------
(* SchedClock on small instances.                                          *)
EXTENDS SchedClock

(* What the invariants can tell apart: the time left of a sleep, not the   *)
(* value of the tick counter.                                              *)
View ==
    <<wq, th_stat, active, pendsv, critical_cnt, r0, schedVars, due, asked,
      [th \in wq[WQ_CLOCK] |-> (clock[th] - ticks) % (2 * CLOCK_HALF)]>>
=============================================================================
