--------------------------- MODULE MCKernelThreads ---------------------------
(* KernelThreads on small instances.                                       *)
EXTENDS KernelThreads

(* What the behaviours and the properties can tell apart: the time left of *)
(* a wait, not the value of the tick counter, and no result that nobody    *)
(* looks at any more.                                                      *)
View ==
    <<wq, th_stat, active, pendsv, critical_cnt, schedVars, mutexVars,
      cond_alloc, th_alloc, ctx, joined,
      [th \in th_alloc |-> pc[th]],
      [th \in Threads |-> IF th_stat[th].timed THEN (clock[th] - ticks) % (2 * CLOCK_HALF)
                          ELSE 0],
      [th \in Threads |-> IF (pc[th] = "exit" /\ th \in th_alloc) \/ th \in joined
                          THEN r0[th] ELSE OK]>>
=============================================================================
