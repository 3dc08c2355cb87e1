# A verification project for ThinkOS

ThinkOS (`src/sdk/libthinkos`, `src/sdk/include/thinkos*`) is a small real time
kernel for ARM Cortex-M processors; the repository also holds protocol libraries
that run on it. This directory has TLA+ specifications of the kernel's calls, of
the MS/TP link layer and of the XMODEM transfers, the configurations with which
TLC checks them on small instances, and TLAPS proofs, for any number of threads
and objects, of the invariants of the scheduler, the clock, mutexes and condition
variables, and that the semaphores implement counting semaphores.

## 1. The system

### Parts, state and operations

| part | source | state | operations |
|---|---|---|---|
| runtime, wait queues | `kernel.h`, `thinkos_init.c`, `misc/bmp_alloc.c` | `wq_lst[]` (one bitmap of threads per queue), `th_stat[]`, `clock[]`, `ticks`, `active` | suspend, insert, timed insert, wake up, preempt, bitmap allocation |
| scheduler, tick, idle | `thinkos_core.c`, `thinkos_sched.S`, `thinkos_idle.c` | `sched_val[]`, `sched_pri[]`, `sched_limit`, the pending PendSV | context switch, tick (time outs, time sharing), idle loop |
| sleep, alarm, yield, critical sections | `thinkos_sleep.c`, `thinkos_svc.c`, `syscalls.h` | `critical_cnt` | one call each |
| mutexes | `thinkos_mutex.c` | `lock[]`, `mutex_alloc` | alloc, free, lock, trylock, timedlock, unlock |
| condition variables | `thinkos_cond.c`, wrappers in `syscalls.h` | `cond_alloc` | alloc, free, wait, timedwait, signal, broadcast |
| semaphores | `thinkos_semaphore.c` | `sem_val[]`, `sem_alloc` | alloc, free, init, trywait, wait, timedwait, post, post from an interrupt |
| event sets | `thinkos_event.c` | pending events and mask per set | alloc, free, wait, timedwait, raise, mask, clear, raise from an interrupt |
| flags | `thinkos_flag.c` | one bit per flag | alloc, free, value, set, clear, give, take, timedtake, watch, timedwatch, give from an interrupt |
| gates | `thinkos_gate.c` | a lock and a signal bit per gate | alloc, free, wait, timedwait, exit, open, close, open from an interrupt |
| thread life cycle | `thinkos_thread.c`, `_exit.c`, `_cancel.c`, `_join.c` | `th_alloc`, contexts, join and canceled queues | create, exit, terminate, cancel, join |
| pause, resume, break | `thinkos_pause.c`, `thinkos_break.c` | paused queue | one call each |
| MS/TP link | `board/slcdev-hub/mstp_test/mstp_lnk.c` | state of the station, next station, poll station, token count, silence timer | the transitions of the loop; send, stop, resume |
| XMODEM | `libxmodem/xmodem_snd.c`, `xmodem_rcv.c` | packet, sequence number, retry counts | open, loop, eot on either side |

The rest of the repository (interrupt waits, the console, the debug monitor, the
network stack, other libraries, drivers, boards, boot loaders) is listed in
`PROJECT.json` as not modelled; section 6 says why.

### How the parts interact

Threads enter the kernel by the SVC exception; the handler runs on behalf of the
current thread, moves threads between wait queues and, when the current thread
has stopped or another has become ready, requests PendSV. PendSV takes the lowest
numbered thread of the ready queue. The tick (SysTick) ends time outs and charges
the current thread for its time slice; a used up slice moves the thread to the
time share queue, which is collected when the ready queue runs empty. Interrupt
handlers may post to semaphores, raise events, give flags and open gates by plain
function calls.

What may interrupt what follows from `src/sdk/include/thinkos/irq.h:34-39`. SVC
and SysTick have the same priority and never interrupt each other. PendSV is
below both. Regular interrupts are above all three. Hence

* calls on objects that no interrupt handler touches are atomic steps;
* calls on semaphores, event sets, flags and gates are sequences of steps
  between which an interrupt handler's whole call may come;
* a context switch that has been requested happens after the handler in
  progress and before the thread executes its next instruction.

The MS/TP stations share one wire; each runs the same loop in a thread of its
own. The two ends of an XMODEM transfer share a line in each direction.

### What is hard here

Time outs that race an unlock or a post; a thread's status word that has to name
the queue it really is in; the two system calls of a condition wait; requests for
the scheduler that a critical section suppresses or drops; starvation in a
scheduler that always prefers low numbers; the wrap around of the tick counter;
lock-free code against interrupts; threads that end, or are paused, while others
wait for them; a token that must be neither doubled nor lost; answers taken for
those of other packets. The `hazards` of `PROJECT.json` list these by line, with
the properties about them.

## 2. Modules

| module | models |
|---|---|
| `ThinkosRt` | the runtime structure and the primitives of `kernel.h`. A bitmap is a set of thread numbers; `wq` is one array with the source's order of queues; `th_stat` is a record of queue and clock bit |
| `ThinkosSched` | `PendSV`, `SysTick`, `Idle`, `Sleep`, `Alarm`, `Yield`, `CriticalEnter`, `CriticalExit` |
| `ThinkosMutex`, `ThinkosCond` | one action per system call of the two source files |
| `MutexCond` | threads that use mutexes and condition variables; the relock of `thinkos_cond_wait()`; the properties and the inductive invariant `IInv` |
| `SchedClock` | threads that compute, sleep, yield and use critical sections |
| `ThinkosHandler` | what system calls on the objects of interrupt handlers have in common, step by step with a program counter (`handler`): the waits with their roll back, taking and waking a thread, the tick, the end of an interrupt |
| `ThinkosSem`, `ThinkosEvent`, `ThinkosFlag`, `ThinkosGate` | the calls of the four source files on top of it, and the call of an interrupt handler (`SemPostIsr`, `EvRaiseIsr`, `FlagGiveIsr`, `GateOpenIsr`) |
| `CountingSemaphore`, `EventSets`, `SignalFlags`, `SignalGates` | the abstract specifications: atomic semaphores, event sets, flags, gates |
| `Semaphores`, `KernelEvents`, `KernelFlags`, `KernelGates` | threads and interrupt handlers that use them; the refinement mappings |
| `ThinkosThread` | create, exit, terminate, cancel, join, pause, resume, break; the function that a joined thread ends with |
| `ThreadLife` | the abstract specification: a finished thread keeps its code, a join lasts until the thread ends and returns the code |
| `KernelThreads` | threads that do all this to each other while they sleep and wait for a mutex; the refinement mapping |
| `MstpLnk` | one action per transition of `mstp_lnk_loop`, with the code's names for them; send, stop, resume |
| `MstpBus` | stations on a wire: frames, damage, time, applications |
| `XmodemLine`, `XmodemSnd`, `XmodemRcv` | the line and the two ends of a transfer |
| `XmodemTransfer` | both ends with the faults of the line, of the devices and of slow applications |
| `MC...` | a VIEW or the data of an instance each, for TLC |
| `KernelProofs`, `MutexCondProofs` | proofs about `MutexCond`, see section 4 |
| `SchedClockProofs` | proofs about `SchedClock` |
| `HandlerProofs`, `PlaceProofs` | what the steps of `ThinkosHandler` preserve, for every kind of object |
| `SemStepProofs`, `SemRequestProofs`, `SemaphoreProofs` | proofs about `Semaphores`, from these |

Actions have the names of the system calls. A call's guard `Running(self)` says
that the thread is current and no context switch is pending. Operators called
"Mutant: ..." are plausible mistakes; they are used by no specification and show,
when they replace the definition after them, that a property can fail.

In `ThinkosHandler` an exclusive load and store with nothing between them is one
step, since an interrupt makes the store fail and the code load again. The pair
on the wait queue, which encloses a second test of the object, is modelled with
the exclusive monitor `excl`. Interrupt handlers have one priority
(`IRQ_DEF_PRIORITY`) and do not interrupt each other.

The actions accept every argument the calls accept, wrong objects included.
What well behaved threads do not do is stated in the compositions: they free a
mutex only when nobody holds it, waits for it or is to relock it, free another
object, or initialise a semaphore, only when nobody waits for it; interrupt
handlers use allocated objects; threads leave only gates that they are inside of
or that are not locked.

The abstract specifications count what is raised, given, opened or posted modulo
2, so that a refinement fails when such an operation is lost or counted twice,
although the state it leads to may be the same.

In `MstpBus` a frame takes less than a tick of the clock, and so do the
transitions it causes. Stations that send at the same tick, or in answer to the
same frame, collide. In `XmodemTransfer` an end times out when nothing is on the
line and the other end waits as well or has ended; an application slower than
the time limit is one of the faults, and so is a device whose read or write fails.
Data is counted in blocks of 128 octets. The last block may be only partly filled
(`part`): it is padded, and decides whether `xmodem_snd_eot()` sends what is left
block by block or, when all but the last block of the buffer are full, in one packet.

## 3. What TLC checks

| run | instance | distinct states | shows |
|---|---|---|---|
| `mutex_cond` | 3 threads, 1 mutex, 1 condition variable, time sharing | 194,079 | `QueueInv`, `WorkConserving`, `RunsFirstReady`, `WaitersHaveOwner`, `LockResult`, `CondWaitOwnsMutex` |
| `sleep_clock` | 3 threads, counter modulo 6, delays 0, 1, 3, all alarms | 344,392 | `Punctual`: sleeps end at their tick across the wrap around; `SleepLasts` |
| `sched_live` | 2 threads, critical sections nested up to 2 | 63,936 | `FirstReadyRuns`, `CriticalKept`; liveness: `EveryThreadRuns`, `IdleGivesWay` |
| `semaphores` | 3 threads, 1 semaphore, interrupts | 396,968 | `CountingSpec` (refinement), `QueuesSettled`, `RunsFirstReady`; liveness: `HandlerEnds` |
| `kernel_events` | 3 threads, 1 set of 2 events, interrupts | 303,404 | `EventSpec` (refinement) |
| `kernel_flags` | 3 threads, 1 flag, interrupts | 269,368 | `FlagSpec` (refinement) |
| `kernel_gates` | 3 threads, 2 gates, interrupts | 454,544 | `GateSpec` (refinement), `MutualExclusion` |
| `kernel_threads` | 3 threads, 1 mutex, 2 exit codes | 246,569 | `LifeSpec` (refinement), `DeadInNoQueue`, `ThreadsQueued`, `WorkConserving`, `WaitersHaveOwner`, `FinishedGoesOn` |
| `mstp_bus` | stations 0, 2, 3; address 1 is nobody's; two sends, a damaged frame, or a stop or resume of a running link | 304,055 | `SingleToken`; liveness: `TokenComes`, `RingForms` |
| `xmodem` | 5 or 6 blocks, the last one full or not, sequence numbers modulo 5, packets of one or three blocks, 3 faults of 7 kinds | 1,616,231 | `Prefix`, `AckedIsReceived`; liveness: `BothEnd` |

Two runs show a disagreement between the code and what it says of itself:

* `sem_timedwait`: `thinkos_sem_timedwait()` stores its default result
  `ETIMEDOUT` after the thread is in the semaphore's queue. A post from an
  interrupt between the two is overwritten. The unit is lost, and the thread
  stays in the clock queue while it is ready.
* `xmodem_eot`: `xmodem_send_pkt()` receives the answer into the first octet of
  the packet. A packet sent again after a NAK begins with the NAK; the receiver
  skips it, hunts for a packet in the rest, and may find an EOT there, which ends
  the transfer with success on its side.

### Windows that the passing runs close

The refinements hold outside of the following windows. Each is closed by a named
constant or guard, so that the run shows that there is no other one; opening it
gives a counterexample in a few seconds.

| where | what happens | closed by |
|---|---|---|
| timed waits of semaphores, event sets, gates (`thinkos_semaphore.c:286`, `thinkos_event.c:239`, `thinkos_gate.c:265`) | a signal from an interrupt after the thread is queued is overwritten by the default `ETIMEDOUT` | `Quiet`: the points `clock`, `wq_clock`, `timeout` |
| `thinkos_event.c:405` | an event raised by an interrupt while it is being unmasked sees the old mask and is left pending beside waiting threads | `Quiet`: `unmask_mask` |
| `thinkos_flag.c:455` | a watch tests the flag and queues its thread without exclusive access: a give in between is missed | `Quiet`: `watch_insert` |
| `thinkos_flag.c:279` | a flag is given to a thread that waits but has not been switched from: the result goes to a stack frame that is gone | `EarlyGives` |
| `thinkos_gate.c:204` | a timed wait at a gate that is locked and signaled enters it beside the thread inside | `Careful` (`MayTimedWait`) |
| `thinkos_gate.c:334` | exit tests `__GATE_SIGNALED << 3` instead of the gate's own bit: an opening is missed, or another gate's taken for it | `Careful` (`MayExit`) |
| `thinkos_core.c:307` | a sleep of more than half the range of the counter ends at the next tick, where the documentation promises at least the time asked for | `Delays` up to `CLOCK_HALF` |
| `thinkos_core.c:276` | a slice that ends in a critical section puts the running thread into the time share queue; if it then sleeps, it is collected from there too early | `CRITICAL_MAX` = 0 in `sleep_clock` |
| `thinkos_mutex.c:60` | a mutex is freed while threads wait for it | `Unused` in `MutexCond` |

A yield lets the lowest numbered ready thread run, often the caller, although the
documentation says that a new thread gets to run.

`KernelThreads` lists what threads do although the kernel does not cope with it as
`Slips`; `Careless` selects the ones that are allowed.

| slip | what the code does | breaks |
|---|---|---|
| `stack` | a create that fails for its stack keeps the slot (`thinkos_thread.c:119`) | `ThreadsQueued`, `LifeSpec` |
| `terminate` | a thread that waits with a time limit, or is paused, leaves only the queue of its status (`thinkos_exit.c:128`) | `DeadInNoQueue`, `ThreadsQueued`, `FinishedGoesOn`, `LifeSpec` |
| `cancel` | a thread that cancels itself, or one that is paused, joined or about to end, is put into the canceled queue where nobody finds it (`thinkos_cancel.c:77`) | all but `WaitersHaveOwner` |
| `share` | a pause of the last ready thread does not collect the time share queue (`thinkos_pause.c:371`) | `WorkConserving` |
| `pause` | a thread that joins or has finished is paused, and misses the end of the other, or loses its place in the canceled queue | `ThreadsQueued`, `DeadInNoQueue`, `FinishedGoesOn`, `LifeSpec` |
| `break` | any queue may be broken (`thinkos_break.c:43-72`). Breaking the ready queue takes every thread out of it, the idle one included; breaking the clock queue leaves threads with a time limit in the queue of what they wait for; breaking the time share, paused or canceled queue overwrites the result of a join or the code of a finished thread | `DeadInNoQueue`, `ThreadsQueued`, `FinishedGoesOn`, `LifeSpec` |

### What the models of the protocols leave out or make visible

MS/TP, all in `mstp_lnk.c`:

* a station in `ANSWER_DATA_REQUEST` restarts its timer with every frame it
  hears and may stay there for ever beside a busy ring, although the comment at
  lines 58-61 gives it a limit. `TokenComes` and `RingForms` leave such a
  station out, and say so;
* two stations that answer the same broadcast request collide;
* a reply to a poll that is heard in `IDLE` counts as the token;
* a link that is stopped keeps the last frame it heard; `Resume` is not taken
  while that frame is a token (`StaleToken`), which the code does not test;
* stations whose silence timers disagree may make tokens at the same time:
  stations join at the end of a frame (`Joins`);
* `mstp_lnk_resume()` and `mstp_lnk_stop()` set the state whatever it is. In the bus
  `Resume` starts a stopped link, which is what fairness is assumed of, and `Restart`
  resumes a running one, which falls back to `IDLE` and drops the token. Both keep to
  the same moments (`InStep`): resumed in the middle of a silence that the others have
  measured from another frame, a station makes a token beside theirs, and
  `SingleToken` fails. Within them a restart leads nowhere that a stop followed by a
  resume does not. The limit of a wait in progress is that of the new state, where the
  code takes the new one from the next wait on;
* only the receive path with DMA is modelled (`Heard`), which is the one that
  `mstp_test.c:356` opens. Without it (`mstp_lnk.c:106-114`) the buffer that is decoded
  is the one before that which is being filled, so each frame is seen one frame late;
* two damaged frames may make two stations retry at once; `MAX_FAULTS` is 1;
* sending no octets takes the transmit flag for good.

XMODEM:

* the sender compares the result of its read with the positive `ETIMEDOUT`, so a
  time out always ends the transfer on its side;
* after a packet that is lost, cut short or late the receiver sends its last
  answer again; an ACK is taken for the answer to that packet. So
  `AckedIsReceived` does not hold with these faults (`Misleading`, recorded in `misled`). `Prefix` does;
* the answer to the EOT is not awaited;
* a read returns octets or an error. Of the serial drivers only the one with DMA may
  return 0, and nothing in the repository uses libxmodem with it; `xmodem_send_pkt()`
  (`xmodem_snd.c:180`) would return 0 without the answer and without counting the
  sequence number, and the next packet would pass for a repetition;
* a packet without its first octet is read as a short or damaged one, as an EOT or as
  nothing (`Reads`). That its data holds a whole packet that can be read is left out;
* an application that is told of an error cancels the transfer;
* a sender of another make (`Senders`) keeps the first octet and sends again on
  a time out, as hosts do: without it the receiver's branch for a repeated packet
  is never taken.

### Bounds

* Threads: three give a current thread, a waiting one and one that interferes; two
  threads in one queue show who is served first. `sched_live`, which has no view and
  checks liveness, uses two: one that runs and one that is kept waiting.
* `CLOCK_HALF` stands for 2^31; it is at least the largest delay, so that the same
  comparisons come out as with the real width, and small, so that the counter wraps
  around often.
* `SCHED_LIMIT_MAX` 1 or 2 lets slices be used up in one tick or in several.
* `CRITICAL_MAX` bounds nested critical sections. `VALUE_MAX` bounds the value of a
  semaphore that is posted to; `SEM_RANGE` stands for 2^32.
* Event sets have 2 events (`EV_WIDTH`), so that one can be masked and the other
  not. There are 2 gates, since the code's mistake in `thinkos_gate_exit()` mixes
  up the bits of neighbours.
* MS/TP: the timers are in the order and, as far as the properties depend on it,
  the proportion of the source's values: slot < usage timeout < the pause of a sole
  master < reply delay = reply timeout, and the no-token limit is longer than a
  usage timeout and a pause together. At most `MAX_EVENTS` = 2 of sends, damaged
  frames and stops happen; a stop counts for two.
* XMODEM: sequence numbers modulo 5 wrap around in a transfer of 6 blocks, and
  include the numbers 1, 2 and 4 that read like SOH, STX and EOT. The retry limits
  3, 4, 3 stand for 10, 30, 10. Three faults are enough to use a limit up and to
  combine any two kinds with a third. Packets of three blocks stand for those of
  eight: 5 blocks leave two for `xmodem_snd_eot()` to send one by one, and 6 blocks
  with the last one partly filled leave three for a single packet.
* The views (`View` of the MC modules) leave out the absolute time and results that
  nobody reads again. They are used with safety properties only.

### Fairness

| specification | fairness | why |
|---|---|---|
| `SchedClock` | weak: `Tick`, `Switch`, `IdleLoop` | a hardware timer; a pending exception is taken; the idle loop goes round |
| `Semaphores` | weak: `Step` | a handler in progress goes on after every interrupt |
| `MstpBus` | weak: `Proceed`; strong: some `Resume` | the stations' threads run, frames arrive and time goes on; a link that is stopped is resumed in the end, although the moments for it (`Joins`) come and go |
| `XmodemTransfer` | weak: `Sender`, `Receiver`, `SndGivesUp`, `RcvAsksAgain` | both ends run, and their time limits come |

Nothing is assumed of threads, which may compute for ever, of interrupts, which may
come at any rate, or of faults. `EveryThreadRuns` is limited to times when no other
thread sleeps: a thread that is asleep at the tick is charged and refilled without
being put aside, so threads that sleep between ticks can keep a thread behind them
from running. Deadlock is checked in all runs but those of XMODEM, whose transfers
end.

## 4. What is proved

All theorems hold for every `THREADS_MAX > 0`, every number of objects, every
`CLOCK_HALF > 0`, every set of delays, every set of priorities up to
`SCHED_LIMIT_MAX > 0` and, for semaphores, every `SEM_RANGE > 1` with values below it.
These are the named assumptions `RtAssumption`, `SchedAssumption`, `SemAssumption`,
`MutexCondAssumption`, `SchedClockAssumption` and `SemaphoresAssumption`. What a
theorem assumes besides is in its statement and in this table.

| theorem | property | assumes besides |
|---|---|---|
| **`MutexCondProofs`** | | |
| `Invariance` | `IInv`, the inductive invariant | |
| `TypeCorrect` | `TypeOK` | |
| `QueuesAgree` | `QueueInv` | |
| `Scheduling` | `RunsFirstReady` | |
| `Collected` | `WorkConserving` | |
| `NoLostUnlock` | `WaitersHaveOwner` | |
| `LockCorrect` | `LockResult` | |
| `CondWaitCorrect` | `CondWaitOwnsMutex` | |
| **`SchedClockProofs`** | | |
| `SchedTypes` | `TypeOK` | |
| `FirstRuns` | `FirstReadyRuns` | |
| `CriticalSections` | `CriticalKept`, an action property | |
| `Punctuality` | `Punctual` | delays up to `CLOCK_HALF` |
| `Sleeping` | `SleepLasts` | delays up to `CLOCK_HALF`, `CRITICAL_MAX = 0` |
| **`SemaphoreProofs`** | | |
| `SemTypes` | `TypeOK` | |
| `SemFirstReady` | `RunsFirstReady` | |
| `SemQueues` | `QueuesSettled` | `WaitWindow \subseteq Quiet` |
| `SemInvariance` | `SemInv`, the inductive invariant | `WaitWindow \subseteq Quiet` |
| `SemImplementsCounting` | `CountingSpec`, the refinement | `WaitWindow \subseteq Quiet` |

The assumptions of the last column are the windows of section 3. Without them the
statements are false: a sleep beyond half the range ends at the next tick, a slice
that ends in a critical section brings a sleeping thread back, and a post between a
timed wait's entry into its queue and its default result is overwritten, which the
run `sem_timedwait` shows.

### Mutexes and condition variables

`IInv` adds two things to the invariants that the run checks. `critical_cnt = 0`,
since the threads of `MutexCond` use no critical section (with them
`RunsFirstReady` is false). And `CallInv`, which says what a thread's last call
implies while it is blocked: the queue it is in, its default result (`ETIMEDOUT`
exactly when a time limit is set), and that a mutex to be locked again is still
allocated and not yet owned. Without it the result of a lock could not be derived
at the time of the wake up, which happens in a step of another thread or of the
tick.

`KernelProofs` begins with the queues alone: what suspend, block, wake up, the
tick's wake ups and time sharing do to `Agree`, `WorkConserving` and the head of the
ready queue (`KInv`). It then splits `IInv` into `KInv`, a part about the objects
(`ObjInv`) and one about each thread (`ThInv`), and proves them for a reply, for
taking a mutex and for the kernel's own steps. `MutexCondProofs` does the same for
blocking and for handing a mutex over, has one lemma per call, puts them together
in `NextInv`, and ends with the temporal theorems.

### Scheduler and clock

`SchedInv` needs, besides `TypeOK` and `FirstReadyRuns`, that no thread is charged
more than a whole slice, since a slice would otherwise become negative, that the
idle thread is ready and never charged, and that a switch pending inside a critical
section has been asked for by the thread in it. `ClockInv` relates the wrapping
counter to the true time left, `due`, by the same comparison with half the range
that the code makes; one tick of the counter is then one tick of the time. `Apart`
says that a sleeping thread is in neither of the queues that threads run from, and
is what critical sections break.

### Semaphores

An interrupt may post between any two steps of a wait, of a post or of the tick, so
the invariant has to say what holds at every point of each handler. It has three
parts, two of which do not depend on the kind of object and are proved once, in
`HandlerProofs` and `PlaceProofs`, for the steps of `ThinkosHandler`:

* `SwitchInv` (`HandlerProofs`): the first ready thread runs unless a switch is
  pending, except at the points where the caller is not ready and the handler is
  certain to ask for the scheduler, or to roll back. The roll back asks for
  nothing; it is right since, with no switch pending, nobody has been woken in
  between (`SemSwitchInv`). This part holds whatever interrupts do, hence
  `SemTypes` and `SemFirstReady` need no window to be closed.
* `PlaceInv` (`PlaceProofs`): the queues that each thread is in. A thread is
  `Settled`, which means that its status word tells the truth, or the handler is
  moving it, and then its place follows from the point of the handler. The tick
  reads the clock queue once; the threads it has still to look at are in that
  queue, or have been woken since.
* `RequestInv` (`SemStepProofs`, `SemRequestProofs`): a thread in a semaphore's queue
  has asked for that semaphore; a caller that inserts itself with its exclusive
  access intact has not been posted to; the unit of a post is counted only when
  nobody waits.

`SemImplementsCounting` maps a state of `Semaphores` to values, waiting threads and
results (`Outcome`). Most steps change none of them. The lemmas of `SemRequestProofs`
say which step takes effect: the decrement of a wait, the insertion into the queue,
the removal of the first waiting thread by a post, the wake up by the tick. The step
that takes effect is a step of `CountingSemaphore`, and all others leave the mapped
state as it is. A roll back, for instance, shows nothing.

The lowest bit of a bitmap that is not 0 exists: the models use `CHOOSE`, and the
proofs take the minimum from the library's theorem on well founded relations
(`LowestBit`).

## 5. What is only model-checked

* Liveness (`EveryThreadRuns`, `IdleGivesWay`, `HandlerEnds`, `TokenComes`,
  `RingForms`, `BothEnd`): the prover does not reason about fairness.
* The refinements `EventSpec`, `FlagSpec`, `GateSpec`, and the invariants of
  `KernelEvents` and `KernelGates`. `HandlerProofs` and `PlaceProofs`
  are stated for any kind of object, and cover the steps these have in common with
  semaphores; the steps of their own are not proved.
* `LifeSpec` and the invariants of `KernelThreads`, where a step of one thread may
  end, pause or cancel another in any of its queues.
* The protocols. `SingleToken` rests on an invariant over all pairs of timers and
  states of the stations. `Prefix` and `AckedIsReceived` are about sequences that
  grow with the transfer and follow by induction over data, which is out of the
  prover's reach.

## 6. What is not modelled

* **Interrupt waits** (`thinkos_irq.c`): the interplay with the interrupt controller
  is at the level of registers.
* **Console** (`thinkos_console.c`) and the **debug monitor** with its pause of all
  threads (`thinkos_dbgmon.c`, `thinkos_debug.c`): the monitor runs above all other
  priorities and may stop threads in the middle of a system call.
* **Resumption** of threads that were paused in waits for condition variables,
  semaphores, event sets, flags, gates, interrupts and the console.
* **Kernel control and queries**, which read the state; **faults**, the **MPU** and
  the vectors; saving and restoring of registers; the set up of memory. The
  dispatcher of `thinkos_svc.c` is the choice of an action.
* Of MS/TP: the hand over of received data to the application, test frames, which
  take the paths of data frames, and the statistics. Of libxmodem: `ymodem_rcv.c`.
* The network stack, field bus, shell, trace, USB, flash and JavaScript libraries,
  drivers, boards and boot loaders: clients of the kernel or register level code,
  each a system of its own. They make up most of the repository's lines.
