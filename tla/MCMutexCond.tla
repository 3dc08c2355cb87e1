----------------------------- MODULE MCMutexCond -----------------------------
(* MutexCond on a small instance.                                          *)
EXTENDS MutexCond

(* What the behaviours and the invariants can tell apart: the time left of *)
(* a wait, not the value of the tick counter, and no result that nobody    *)
(* looks at any more.                                                      *)
View ==
    <<wq, th_stat, active, pendsv, critical_cnt, schedVars, mutexVars,
      cond_alloc, call,
      [th \in wq[WQ_CLOCK] |-> (clock[th] - ticks) % (2 * CLOCK_HALF)],
      [th \in Threads |-> IF call[th].op = "none" THEN OK ELSE r0[th]]>>
=============================================================================
