----------------------------- MODULE Workqueue -----------------------------
(***************************************************************************)
(* kernel/workqueue.c: one multi-threaded workqueue (keventd_wq) over the  *)
(* online CPUs, its worker threads, the contexts that queue, delay and     *)
(* cancel work, and the tasks that flush it.                               *)
(*                                                                         *)
(* Sections under cwq->lock are atomic.  What the code does outside the    *)
(* lock (the pending bit, the wq_data check, the wait-queue dance of       *)
(* worker_thread) is one step per access, so every interleaving of the     *)
(* CPUs and of the interrupts is a behaviour.                              *)
(***************************************************************************)
EXTENDS Integers, Sequences, FiniteSets

CONSTANTS
  NCPU,       \* number of online CPUs
  Works,      \* the work_structs in use
  Flushers,   \* tasks outside the workqueue that call flush_workqueue()
  NoWork,     \* "no work", e.g. no delayed_work_timer_fn running on a CPU
  LongMod,    \* 2^w, for the `long` sequence counters
  SelfFlush   \* may a handler call flush_workqueue() on its own queue?

CPU  == 0 .. NCPU - 1
Long == 0 .. LongMod - 1
Task == CPU \cup Flushers    \* a CPU number stands for its worker thread

(* work->wq_data: a cwq (its CPU), the workqueue while delayed, or unset. *)
DataWq   == -1
DataNull == -2
Entry    == [work : Works, id : Long]

ASSUME WorkqueueAssumption ==
  /\ NCPU \in Nat \ {0}
  /\ LongMod \in Nat \ {0}
  /\ NoWork \notin Works
  /\ SelfFlush \in BOOLEAN
  /\ CPU \cap Flushers = {}

VARIABLES
  pending,          \* bit 0 of work->pending
  wq_data,          \* work->wq_data
  timer,            \* timer_pending(&work->timer)
  queuing,          \* <<w, c>>: queue_work() on c owns the bit, not yet listed
  firing,           \* work whose delayed_work_timer_fn runs on the CPU
  cancelling,       \* works between del_timer_sync() and clear_bit()
  worklist,         \* cwq->worklist
  insert_sequence,  \* cwq->insert_sequence
  remove_sequence,  \* cwq->remove_sequence
  frames,           \* works run_workqueue() has off the list, innermost last
  tpc,              \* control point of worker_thread()
  tstate,           \* its task state
  onq,              \* is it on cwq->more_work?
  fl                \* one flush_workqueue() call per task

workVars == <<pending, wq_data, timer, queuing, firing, cancelling>>
cwqVars  == <<worklist, insert_sequence, remove_sequence, frames>>
thrVars  == <<tpc, tstate, onq>>
vars     == <<workVars, cwqVars, thrVars, fl>>

ThreadPc == {"idle", "waiting", "sched", "removing", "test", "taken", "call",
             "rearm"}
FlushPc  == {"idle", "enter", "wait", "nested"}
NoFlush  == [pc |-> "idle", cpu |-> 0, need |-> 0, asleep |-> FALSE,
             owed |-> {}]

(* `a - b > 0` on two's complement longs. *)
After(a, b) == LET d == (a - b) % LongMod IN d > 0 /\ d < LongMod \div 2
Inc(n)      == (n + 1) % LongMod
Top(s)      == s[Len(s)]
Front(s)    == SubSeq(s, 1, Len(s) - 1)

(* Instances queued to c, or being run by it, that have not completed. *)
Outstanding(c) == {worklist[c][i].id : i \in DOMAIN worklist[c]}
                    \cup {frames[c][i].id : i \in DOMAIN frames[c]}

Init ==
  /\ pending         = [w \in Works |-> FALSE]
  /\ wq_data         = [w \in Works |-> DataNull]
  /\ timer           = [w \in Works |-> FALSE]
  /\ queuing         = {}
  /\ firing          = [c \in CPU |-> NoWork]
  /\ cancelling      = {}
  /\ worklist        = [c \in CPU |-> <<>>]
  /\ insert_sequence = [c \in CPU |-> 0]
  /\ remove_sequence = [c \in CPU |-> 0]
  /\ frames          = [c \in CPU |-> <<>>]
  /\ tpc             = [c \in CPU |-> "idle"]
  /\ tstate          = [c \in CPU |-> "INTERRUPTIBLE"]
  /\ onq             = [c \in CPU |-> FALSE]
  /\ fl              = [t \in Task |-> NoFlush]

-----------------------------------------------------------------------------
(* Queueing. *)

(* Mutants: __queue_work() without the wake-up, and without setting wq_data. *)
InsertWork_NoWake(c, w) ==
  /\ wq_data'  = [wq_data EXCEPT ![w] = c]
  /\ worklist' = [worklist EXCEPT
                    ![c] = Append(@, [work |-> w, id |-> insert_sequence[c]])]
  /\ insert_sequence' = [insert_sequence EXCEPT ![c] = Inc(@)]
  /\ UNCHANGED <<remove_sequence, frames, tpc, tstate, onq, fl>>

InsertWork_NoData(c, w) ==
  /\ worklist' = [worklist EXCEPT
                    ![c] = Append(@, [work |-> w, id |-> insert_sequence[c]])]
  /\ insert_sequence' = [insert_sequence EXCEPT ![c] = Inc(@)]
  /\ tstate' = [tstate EXCEPT ![c] = IF onq[c] THEN "RUNNING" ELSE @]
  /\ UNCHANGED <<wq_data, remove_sequence, frames, tpc, onq, fl>>

(* __queue_work(): under cwq->lock; wake_up(&cwq->more_work) makes the      *)
(* worker runnable only if it is on that wait queue.                        *)
InsertWork(c, w) ==
  /\ wq_data'  = [wq_data EXCEPT ![w] = c]
  /\ worklist' = [worklist EXCEPT
                    ![c] = Append(@, [work |-> w, id |-> insert_sequence[c]])]
  /\ insert_sequence' = [insert_sequence EXCEPT ![c] = Inc(@)]
  /\ tstate' = [tstate EXCEPT ![c] = IF onq[c] THEN "RUNNING" ELSE @]
  /\ UNCHANGED <<remove_sequence, frames, tpc, onq, fl>>

(* queue_work() up to test_and_set_bit(): a pending work is left alone.     *)
QueueWork(c, w) ==
  /\ ~pending[w]
  /\ pending' = [pending EXCEPT ![w] = TRUE]
  /\ queuing' = queuing \cup {<<w, c>>}
  /\ UNCHANGED <<wq_data, timer, firing, cancelling, cwqVars, thrVars, fl>>

(* queue_work() from there on: __queue_work() to the submitting CPU.        *)
QueueWorkInsert(c, w) ==
  /\ <<w, c>> \in queuing
  /\ queuing' = queuing \ {<<w, c>>}
  /\ InsertWork(c, w)
  /\ UNCHANGED <<pending, timer, firing, cancelling>>

(* Mutant: the pending bit is set but not tested. *)
QueueDelayedWork_NoTest(w) ==
  /\ ~timer[w]
  /\ pending' = [pending EXCEPT ![w] = TRUE]
  /\ wq_data' = [wq_data EXCEPT ![w] = DataWq]
  /\ timer'   = [timer EXCEPT ![w] = TRUE]
  /\ UNCHANGED <<queuing, firing, cancelling, cwqVars, thrVars, fl>>

(* queue_delayed_work(): the bit is taken and the timer armed.  Nothing can *)
(* come between: only the owner of the bit touches wq_data and the timer.   *)
QueueDelayedWork(w) ==
  /\ ~pending[w]
  /\ pending' = [pending EXCEPT ![w] = TRUE]
  /\ wq_data' = [wq_data EXCEPT ![w] = DataWq]
  /\ timer'   = [timer EXCEPT ![w] = TRUE]
  /\ UNCHANGED <<queuing, firing, cancelling, cwqVars, thrVars, fl>>

(* The timer expires on CPU c: __run_timers() detaches it and calls its     *)
(* function; base->running_timer keeps del_timer_sync() waiting meanwhile.  *)
TimerExpire(c, w) ==
  /\ timer[w] /\ firing[c] = NoWork
  /\ timer'  = [timer EXCEPT ![w] = FALSE]
  /\ firing' = [firing EXCEPT ![c] = w]
  /\ UNCHANGED <<pending, wq_data, queuing, cancelling, cwqVars, thrVars, fl>>

(* delayed_work_timer_fn() on CPU c.                                        *)
DelayedWorkTimerFn(c) ==
  /\ firing[c] # NoWork
  /\ firing' = [firing EXCEPT ![c] = NoWork]
  /\ InsertWork(c, firing[c])
  /\ UNCHANGED <<pending, timer, queuing, cancelling>>

(* Mutant: the result of del_timer_sync() is not looked at. *)
CancelDelayedWork_Always(w) ==
  /\ w \notin cancelling /\ \A c \in CPU : firing[c] # w
  /\ timer'      = [timer EXCEPT ![w] = FALSE]
  /\ cancelling' = cancelling \cup {w}
  /\ UNCHANGED <<pending, wq_data, queuing, firing, cwqVars, thrVars, fl>>

(* cancel_delayed_work(): del_timer_sync() waits for a running timer        *)
(* function and succeeds only on a timer that is still armed ...            *)
CancelDelayedWork(w) ==
  /\ timer[w] /\ \A c \in CPU : firing[c] # w
  /\ timer'      = [timer EXCEPT ![w] = FALSE]
  /\ cancelling' = cancelling \cup {w}
  /\ UNCHANGED <<pending, wq_data, queuing, firing, cwqVars, thrVars, fl>>

(* Mutant: the timer is deleted and the bit left set. *)
CancelClear_Forget(w) ==
  /\ w \in cancelling
  /\ cancelling' = cancelling \ {w}
  /\ UNCHANGED <<pending, wq_data, timer, queuing, firing, cwqVars, thrVars, fl>>

(* ... and only then is the pending bit cleared.                            *)
CancelClear(w) ==
  /\ w \in cancelling
  /\ cancelling' = cancelling \ {w}
  /\ pending'    = [pending EXCEPT ![w] = FALSE]
  /\ UNCHANGED <<wq_data, timer, queuing, firing, cwqVars, thrVars, fl>>

-----------------------------------------------------------------------------
(* worker_thread() and run_workqueue(). *)

Goto(c, from, to) == tpc[c] = from /\ tpc' = [tpc EXCEPT ![c] = to]

(* add_wait_queue(&cwq->more_work, &wait)                                   *)
WorkerAddWait(c) ==
  /\ Goto(c, "idle", "waiting")
  /\ onq' = [onq EXCEPT ![c] = TRUE]
  /\ UNCHANGED <<workVars, cwqVars, tstate, fl>>

(* if (list_empty()) schedule(); else __set_current_state(TASK_RUNNING);    *)
WorkerCheck(c) ==
  /\ IF worklist[c] = <<>>
       THEN Goto(c, "waiting", "sched") /\ UNCHANGED tstate
       ELSE /\ Goto(c, "waiting", "removing")
            /\ tstate' = [tstate EXCEPT ![c] = "RUNNING"]
  /\ UNCHANGED <<workVars, cwqVars, onq, fl>>

(* schedule() returns once something made the thread runnable.              *)
WorkerWake(c) ==
  /\ tstate[c] = "RUNNING"
  /\ Goto(c, "sched", "removing")
  /\ UNCHANGED <<workVars, cwqVars, tstate, onq, fl>>

(* remove_wait_queue(&cwq->more_work, &wait)                                *)
WorkerRemoveWait(c) ==
  /\ Goto(c, "removing", "test")
  /\ onq' = [onq EXCEPT ![c] = FALSE]
  /\ UNCHANGED <<workVars, cwqVars, tstate, fl>>

(* Mutant: list_del_init() is missing. *)
TakeOnto_NoDel(c, s) ==
  /\ frames' = [frames EXCEPT ![c] = Append(s, Head(worklist[c]))]
  /\ tpc'    = [tpc EXCEPT ![c] = "taken"]
  /\ UNCHANGED worklist

(* Take the head of the list on top of the stack s (list_del_init, under    *)
(* cwq->lock): its pending bit is still set.                                *)
TakeOnto(c, s) ==
  /\ frames'   = [frames EXCEPT ![c] = Append(s, Head(worklist[c]))]
  /\ worklist' = [worklist EXCEPT ![c] = Tail(@)]
  /\ tpc'      = [tpc EXCEPT ![c] = "taken"]

(* if (!list_empty()) run_workqueue(cwq): lock and take the first work.     *)
WorkerRun(c) ==
  /\ tpc[c] = "test" /\ worklist[c] # <<>>
  /\ TakeOnto(c, <<>>)
  /\ UNCHANGED <<workVars, insert_sequence, remove_sequence, tstate, onq, fl>>

(* Nothing to run, or run_workqueue() returned: back to the loop's head.    *)
WorkerRearm(c) ==
  /\ \/ tpc[c] = "test" /\ worklist[c] = <<>>
     \/ tpc[c] = "rearm"
  /\ tpc'    = [tpc EXCEPT ![c] = "idle"]
  /\ tstate' = [tstate EXCEPT ![c] = "INTERRUPTIBLE"]
  /\ UNCHANGED <<workVars, cwqVars, onq, fl>>

(* BUG_ON(work->wq_data != cwq); clear_bit(0, &work->pending); f(data)      *)
CallHandler(c) ==
  /\ Goto(c, "taken", "call")
  /\ pending' = [pending EXCEPT ![Top(frames[c]).work] = FALSE]
  /\ UNCHANGED <<wq_data, timer, queuing, firing, cancelling, cwqVars, tstate,
                 onq, fl>>

(* Mutant: the loop over the CPUs runs one too far. *)
NextCpu_OffByOne(f) == IF f.cpu = NCPU
                         THEN NoFlush
                         ELSE [NoFlush EXCEPT !.pc = "enter", !.cpu = f.cpu + 1]

(* flush_workqueue() moves on to the next online CPU, or returns.           *)
NextCpu(f) == IF f.cpu = NCPU - 1
                THEN NoFlush
                ELSE [NoFlush EXCEPT !.pc = "enter", !.cpu = f.cpu + 1]

(* wake_up(&cwq->work_done): every flush that waits on c becomes runnable.  *)
(* The instance `done` is no longer owed to any of them.                    *)
WakeFlushers(c, done) ==
  [t \in Task |-> IF fl[t].cpu = c
                    THEN [fl[t] EXCEPT !.asleep = FALSE, !.owed = @ \ {done}]
                    ELSE fl[t]]

(* Bound: 2^(w-1) works do not complete while a woken flush is runnable but *)
(* has not looked again (the difference of the two longs keeps its sign).   *)
NoLap(c) == \A t \in Task :
  fl[t].pc = "wait" /\ fl[t].cpu = c
    => (remove_sequence[c] - fl[t].need) % LongMod # LongMod \div 2

(* The handler returned: under cwq->lock, remove_sequence++, wake every     *)
(* task on work_done, and take the next work or leave run_workqueue().  The *)
(* outermost call goes back to worker_thread(); a nested one returns into   *)
(* the flush_cpu_workqueue() of the handler below it on the stack.          *)
FinishWork(c) ==
  LET rest == Front(frames[c])
      seen == WakeFlushers(c, Top(frames[c]).id)
  IN /\ tpc[c] = "call" /\ NoLap(c)
     /\ Len(frames[c]) = 1 => fl[c].pc = "idle"
     /\ remove_sequence' = [remove_sequence EXCEPT ![c] = Inc(@)]
     /\ \/ /\ worklist[c] # <<>>
           /\ TakeOnto(c, rest)
           /\ fl' = seen
        \/ /\ worklist[c] = <<>>
           /\ frames' = [frames EXCEPT ![c] = rest]
           /\ IF rest = <<>>
                THEN tpc' = [tpc EXCEPT ![c] = "rearm"] /\ fl' = seen
                ELSE /\ fl' = [seen EXCEPT ![c] = NextCpu(seen[c])]
                     /\ UNCHANGED tpc
           /\ UNCHANGED worklist
     /\ UNCHANGED <<workVars, insert_sequence, tstate, onq>>

-----------------------------------------------------------------------------
(* flush_workqueue() and flush_cpu_workqueue(). *)

(* A task outside the queue, or a handler run at the bottom of the stack    *)
(* of its worker, starts a flush.  Bound: a handler that such a flush runs  *)
(* by hand does not flush itself, so run_workqueue() nests to depth two;    *)
(* the code goes on, with a warning when run_depth exceeds three.           *)
FlushBegin(t) ==
  /\ fl[t].pc = "idle"
  /\ t \in CPU => SelfFlush /\ tpc[t] = "call" /\ Len(frames[t]) = 1
  /\ fl' = [fl EXCEPT ![t] = [NoFlush EXCEPT !.pc = "enter"]]
  /\ UNCHANGED <<workVars, cwqVars, thrVars>>

(* Under cwq->lock: sleep on work_done while sequence_needed is ahead of    *)
(* remove_sequence, else finish_wait() and go to the next CPU.              *)
FlushStep(t, f) ==
  /\ fl' = [fl EXCEPT ![t] =
              IF After(f.need, remove_sequence[f.cpu])
                THEN [f EXCEPT !.pc = "wait", !.asleep = TRUE]
                ELSE NextCpu(f)]
  /\ UNCHANGED <<workVars, cwqVars, thrVars>>

(* The queue of another thread: sample its insert_sequence.                 *)
FlushSample(t) ==
  /\ fl[t].pc = "enter" /\ fl[t].cpu # t
  /\ LET c == fl[t].cpu
     IN FlushStep(t, [fl[t] EXCEPT !.need = insert_sequence[c],
                                   !.owed = Outstanding(c)])

(* Mutant: `if` in place of `while`: woken once, the flush is over. *)
FlushRecheck_NoLoop(t) ==
  /\ fl[t].pc = "wait" /\ ~fl[t].asleep
  /\ fl' = [fl EXCEPT ![t] = NextCpu(@)]
  /\ UNCHANGED <<workVars, cwqVars, thrVars>>

(* Mutant: insert_sequence is read again in every turn of the loop. *)
FlushRecheck_Resample(t) ==
  /\ fl[t].pc = "wait" /\ ~fl[t].asleep
  /\ FlushStep(t, [fl[t] EXCEPT !.need = insert_sequence[fl[t].cpu]])

(* schedule() returned: look again.                                         *)
FlushRecheck(t) ==
  /\ fl[t].pc = "wait" /\ ~fl[t].asleep
  /\ FlushStep(t, fl[t])

(* cwq->thread == current: run the queue by hand.                           *)
FlushOwn(c) ==
  /\ fl[c].pc = "enter" /\ fl[c].cpu = c
  /\ IF worklist[c] = <<>>
       THEN /\ fl' = [fl EXCEPT ![c] = NextCpu(@)]
            /\ UNCHANGED <<worklist, frames, tpc>>
       ELSE /\ TakeOnto(c, frames[c])
            /\ fl' = [fl EXCEPT ![c].pc = "nested"]
  /\ UNCHANGED <<workVars, insert_sequence, remove_sequence, tstate, onq>>

-----------------------------------------------------------------------------
(* One worker step: everything worker_thread() of c does by itself.         *)
Worker(c) ==
  \/ WorkerAddWait(c) \/ WorkerCheck(c) \/ WorkerWake(c)
  \/ WorkerRemoveWait(c) \/ WorkerRun(c) \/ WorkerRearm(c)
  \/ CallHandler(c) \/ FinishWork(c)

Flush(t) == FlushSample(t) \/ FlushRecheck(t)

Next ==
  \/ \E c \in CPU, w \in Works :
       \/ QueueWork(c, w) \/ QueueWorkInsert(c, w) \/ TimerExpire(c, w)
  \/ \E w \in Works :
       \/ QueueDelayedWork(w) \/ CancelDelayedWork(w) \/ CancelClear(w)
  \/ \E c \in CPU : DelayedWorkTimerFn(c) \/ Worker(c) \/ FlushOwn(c)
  \/ \E t \in Task : FlushBegin(t) \/ Flush(t)

Spec == Init /\ [][Next]_vars

(* Fairness: a CPU finishes what it started (a caller inside queue_work()   *)
(* or cancel_delayed_work(), a timer function, a runnable worker, a flusher *)
(* that was woken), handlers return (SF: one may flush its queue, but not   *)
(* for ever) and armed timers expire: __run_timers() runs every timer whose *)
(* time has come, so one that stays armed is not passed over for ever (SF). *)
(* Nobody has to queue, cancel or flush.                                    *)
Fairness ==
  /\ \A c \in CPU :
       /\ WF_vars(DelayedWorkTimerFn(c)) /\ WF_vars(Worker(c))
       /\ SF_vars(FinishWork(c)) /\ WF_vars(FlushOwn(c))
  /\ \A w \in Works :
       /\ SF_vars(\E c \in CPU : TimerExpire(c, w))
       /\ WF_vars(\E c \in CPU : QueueWorkInsert(c, w))
       /\ WF_vars(CancelClear(w))
  /\ \A t \in Task : WF_vars(Flush(t))

FairSpec == Spec /\ Fairness

-----------------------------------------------------------------------------
(* Properties. *)

FlushCall == [pc : FlushPc, cpu : CPU, need : Long, asleep : BOOLEAN,
              owed : SUBSET Long]

(* Every variable keeps its type.                                           *)
TypeOK ==
  /\ pending \in [Works -> BOOLEAN]
  /\ wq_data \in [Works -> CPU \cup {DataWq, DataNull}]
  /\ timer \in [Works -> BOOLEAN]
  /\ queuing \subseteq Works \X CPU
  /\ firing \in [CPU -> Works \cup {NoWork}]
  /\ cancelling \subseteq Works
  /\ worklist \in [CPU -> Seq(Entry)]
  /\ insert_sequence \in [CPU -> Long]
  /\ remove_sequence \in [CPU -> Long]
  /\ frames \in [CPU -> Seq(Entry)]
  /\ tpc \in [CPU -> ThreadPc]
  /\ tstate \in [CPU -> {"RUNNING", "INTERRUPTIBLE"}]
  /\ onq \in [CPU -> BOOLEAN]
  /\ fl \in [Task -> FlushCall]
  /\ \A c \in CPU : tpc[c] \in {"taken", "call"} <=> frames[c] # <<>>

(* The places that can hold a work whose pending bit is set: a queue_work() *)
(* on c, the work's timer, a timer function on c, a cancel, position i of   *)
(* the list of c, or run_workqueue() on c before its clear_bit().           *)
Place    == {"queuing", "timer", "firing", "cancel", "list", "taken"}
PosOf(c) == 0 .. Len(worklist[c])
Holds(p, c, i, w) ==
  \/ p = "queuing" /\ i = 0 /\ <<w, c>> \in queuing
  \/ p = "timer"   /\ i = 0 /\ c = 0 /\ timer[w]
  \/ p = "firing"  /\ i = 0 /\ firing[c] = w
  \/ p = "cancel"  /\ i = 0 /\ c = 0 /\ w \in cancelling
  \/ p = "list"    /\ i # 0 /\ worklist[c][i].work = w
  \/ p = "taken"   /\ i = 0 /\ tpc[c] = "taken" /\ Top(frames[c]).work = w

(* A set pending bit has a holder that will clear it: no work is stuck.     *)
PendingHeld ==
  \A w \in Works : pending[w] =>
    \E p \in Place, c \in CPU : \E i \in PosOf(c) : Holds(p, c, i, w)

(* The pending bit is the lock of the work_struct: it is set while anything *)
(* holds the work, and only one place ever does.  So BUG_ON(!list_empty()), *)
(* BUG_ON(timer_pending()) and a work on two lists are all impossible.      *)
OneHolder ==
  \A w \in Works : \A p \in Place, c \in CPU : \A i \in PosOf(c) :
    Holds(p, c, i, w) =>
      /\ pending[w]
      /\ \A q \in Place, d \in CPU : \A j \in PosOf(d) :
           Holds(q, d, j, w) => q = p /\ d = c /\ j = i

(* run_workqueue()'s BUG_ON(work->wq_data != cwq) never fires, although     *)
(* wq_data is rewritten outside the lock by queue_delayed_work(); and a     *)
(* timer function finds the workqueue there, never a cwq.                   *)
WqDataOk ==
  /\ \A c \in CPU : tpc[c] = "taken" => wq_data[Top(frames[c]).work] = c
  /\ \A c \in CPU : firing[c] # NoWork => wq_data[firing[c]] = DataWq

(* No wake-up is lost: a worker that sleeps in schedule() has nothing to do.*)
NoLostWakeup ==
  \A c \in CPU : tpc[c] = "sched" /\ tstate[c] = "INTERRUPTIBLE"
                    => worklist[c] = <<>>

(* flush_workqueue() called from outside the queue leaves a CPU only when   *)
(* every work that was queued to it, or running on it, when the flush       *)
(* sampled insert_sequence has run to completion.                           *)
FlushReturns ==
  [][\A t \in Flushers :
       fl[t].pc \in {"enter", "wait"} /\ fl'[t] = NextCpu(fl[t]) =>
         IF fl[t].pc = "enter" THEN Outstanding(fl[t].cpu) = {}
                               ELSE fl[t].owed = {}]_vars

(* A flush from outside the queue ends, although works keep being queued,   *)
(* cancelled and queued again, and handlers flush: insert_sequence is       *)
(* sampled once.                                                            *)
FlushTerminates == \A t \in Flushers : fl[t].pc # "idle" ~> fl[t].pc = "idle"
=============================================================================
