--------------------------- MODULE MCKernelFlags ---------------------------
(* Flags on small instances.                                               *)
EXTENDS KernelFlags

(* What the behaviours and the properties can tell apart: the time left of *)
(* a wait, not the value of the tick counter, and no result that nobody    *)
(* looks at any more.                                                      *)
View ==
    <<wq, th_stat, active, pendsv, critical_cnt, schedVars, handlerVars, flagVars, asked, gives,
      [th \in wq[WQ_CLOCK] |-> (clock[th] - ticks) % (2 * CLOCK_HALF)],
      [th \in Threads |-> IF asked[th] = 0 THEN OK ELSE r0[th]]>>
=============================================================================
