--------------------------- MODULE MCKernelGates ---------------------------
(* Gates on small instances.                                               *)
EXTENDS KernelGates

(* What the behaviours and the properties can tell apart: the time left of *)
(* a wait, not the value of the tick counter, and no result that nobody    *)
(* looks at any more.                                                      *)
View ==
    <<wq, th_stat, active, pendsv, critical_cnt, schedVars, handlerVars, gateVars, asked, opens,
      [th \in wq[WQ_CLOCK] |-> (clock[th] - ticks) % (2 * CLOCK_HALF)],
      [th \in Threads |-> IF asked[th] = 0 THEN OK ELSE r0[th]]>>
=============================================================================
