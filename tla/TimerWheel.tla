----------------------------- MODULE TimerWheel -----------------------------
(***************************************************************************)
(* kernel/timer.c: the timers of the kernel, kept by each CPU in vectors   *)
(* tv1, tv2, ... of buckets (four vectors after tv1 in the code), the      *)
(* softirq that runs them, and the callers that arm, move and delete them. *)
(*                                                                         *)
(* What happens under base->lock is atomic, except that __run_timers() is  *)
(* one step per pass of its loops and per function it calls: it has the    *)
(* lock of its base while its phase is "locked".  The order of the timers  *)
(* in a bucket is left open.                                               *)
(***************************************************************************)
EXTENDS Integers, FiniteSets, FiniteSetsExt

CONSTANTS
  CPUs, Timers, None,
  LongBits,            \* width of jiffies
  TVR_BITS, TVN_BITS,
  Vectors,             \* vectors after tv1: 4
  Delays,              \* how far from now callers set a timer
  LagMax               \* bound: ticks that a CPU may be behind

ASSUME WheelAssumption ==
  /\ None \notin Timers \cup CPUs \cup [timer : Timers, expires : Int]
  /\ {LongBits, TVR_BITS, TVN_BITS, Vectors, LagMax} \subseteq Nat \ {0}
  /\ LongBits >= TVR_BITS + Vectors * TVN_BITS
  /\ Delays \subseteq Int

VARIABLES
  jiffies,
  timer_jiffies,   \* base->timer_jiffies: the next tick to process
  running_timer,   \* base->running_timer
  phase,           \* where the CPU is in __run_timers()
  work,            \* its work_list
  pending,         \* timer_pending(): entry.next is not NULL
  expires,         \* timer->expires
  base,            \* timer->base, None while it moves
  slot,            \* the vector and bucket it is linked in
  moving,          \* the __mod_timer() of the CPU between two bases
  gone             \* del_timer_sync() returned, nobody armed it since

baseVars  == <<timer_jiffies, running_timer, phase>>
timerVars == <<work, pending, expires, base, slot>>
vars      == <<jiffies, baseVars, timerVars, moving, gone>>

Word   == 2^LongBits
NoSlot == [lv |-> 0, ix |-> 0]

(* time_after_eq(), on unsigned longs that wrap.                            *)
TimeAfterEq(a, b) == (a - b) % Word < Word \div 2

(* The low bits that a vector does not look at, its buckets, and the one it *)
(* keeps x in.  The mutant does not mask the index.                         *)
Shift(k)   == IF k = 1 THEN 0 ELSE TVR_BITS + (k - 2) * TVN_BITS
Buckets(k) == 2^(IF k = 1 THEN TVR_BITS ELSE TVN_BITS)
Index(k, x) == (x \div 2^Shift(k)) % Buckets(k)

Init ==
  /\ jiffies = 0 /\ timer_jiffies = [c \in CPUs |-> 0]
  /\ running_timer = [c \in CPUs |-> None] /\ phase = [c \in CPUs |-> "idle"]
  /\ work = [c \in CPUs |-> {}]
  /\ pending = [t \in Timers |-> FALSE] /\ expires = [t \in Timers |-> 0]
  /\ base \in [Timers -> CPUs]
  /\ slot = [t \in Timers |-> NoSlot]
  /\ moving = [c \in CPUs |-> None] /\ gone = [t \in Timers |-> FALSE]

(* do_timer(). *)
DoTimer ==
  /\ \A c \in CPUs : (jiffies + 1 - timer_jiffies[c]) % Word <= LagMax
  /\ jiffies' = (jiffies + 1) % Word
  /\ UNCHANGED <<baseVars, timerVars, moving, gone>>

-----------------------------------------------------------------------------
(* Arming and deleting. *)

(* internal_add_timer(): the first vector that reaches as far as e; what is *)
(* in the past goes to the bucket that is processed next.                   *)
InternalAddTimer(tj, e) ==
  LET d    == (e - tj) % Word
      near == {k \in 1 .. Vectors : d < 2^Shift(k + 1)}
      k    == Min(near \cup {Vectors + 1})
  IN IF near = {} /\ d >= Word \div 2
       THEN [lv |-> 1, ix |-> Index(1, tj)]
       ELSE [lv |-> k, ix |-> Index(k, e)]

(* lock_timer_base(): wait until t is on a base, and for the lock of that.  *)
Lockable(t) == base[t] # None /\ phase[base[t]] # "locked"

(* Code other than __run_timers() runs on c, with interrupts on.            *)
Free(c) == phase[c] # "locked" /\ moving[c] = None

(* The work_lists without t.  The mutant takes it for granted that a timer  *)
(* is never on one while its base is unlocked.                              *)
Unlinked_Not(t) == work
Unlinked(t) == [c \in CPUs |-> work[c] \ {t}]

(* The timer is linked into the base of c.                                  *)
Link(c, t, e) ==
  /\ base'    = [base EXCEPT ![t] = c]
  /\ expires' = [expires EXCEPT ![t] = e]
  /\ pending' = [pending EXCEPT ![t] = TRUE]
  /\ slot'    = [slot EXCEPT ![t] = InternalAddTimer(timer_jiffies[c], e)]

(* Does __mod_timer() on c leave t on its base?  The mutant forgets that    *)
(* its function may be running there.                                       *)
Stays_Never(c, t) == base[t] = c
Stays(c, t) == base[t] = c \/ running_timer[base[t]] = t

(* __mod_timer() on c, of a timer that stays on its base.                   *)
ModTimer(c, t, e) ==
  /\ Free(c) /\ Lockable(t) /\ Stays(c, t)
  /\ Link(base[t], t, e)
  /\ work' = Unlinked(t)
  /\ gone' = [gone EXCEPT ![t] = FALSE]
  /\ UNCHANGED <<jiffies, baseVars, moving>>

(* Otherwise: detach it, let go of its base, with base NULL ...             *)
ModTimerLeave(c, t, e) ==
  /\ Free(c) /\ Lockable(t) /\ ~Stays(c, t)
  /\ base'   = [base EXCEPT ![t] = None]
  /\ slot'   = [slot EXCEPT ![t] = NoSlot]
  /\ work'   = Unlinked(t)
  /\ moving' = [moving EXCEPT ![c] = [timer |-> t, expires |-> e]]
  /\ gone'   = [gone EXCEPT ![t] = FALSE]
  /\ UNCHANGED <<jiffies, baseVars, pending, expires>>

(* ... and lock the base of this CPU.                                       *)
ModTimerArrive(c) ==
  /\ moving[c] # None
  /\ Link(c, moving[c].timer, moving[c].expires)
  /\ moving' = [moving EXCEPT ![c] = None]
  /\ UNCHANGED <<jiffies, baseVars, work, gone>>

(* detach_timer(timer, 1)                                                   *)
Detach(t) ==
  /\ pending' = [pending EXCEPT ![t] = FALSE]
  /\ slot'    = [slot EXCEPT ![t] = NoSlot]
  /\ work'    = Unlinked(t)

(* del_timer(), which does nothing to a timer that is not pending.          *)
DelTimer(t) ==
  /\ Lockable(t) /\ pending[t]
  /\ Detach(t)
  /\ UNCHANGED <<jiffies, baseVars, expires, base, moving, gone>>

(* Mutant: the base is not asked for its running timer. *)
DelTimerSync_NoWait(t) ==
  /\ Lockable(t)
  /\ Detach(t) /\ gone' = [gone EXCEPT ![t] = TRUE]
  /\ UNCHANGED <<jiffies, baseVars, expires, base, moving>>

(* del_timer_sync(): the try_to_del_timer_sync() that succeeds.             *)
DelTimerSync(t) ==
  /\ Lockable(t) /\ running_timer[base[t]] # t
  /\ Detach(t) /\ gone' = [gone EXCEPT ![t] = TRUE]
  /\ UNCHANGED <<jiffies, baseVars, expires, base, moving>>

-----------------------------------------------------------------------------
(* __run_timers(). *)

Due(c) == TimeAfterEq(jiffies, timer_jiffies[c])

(* run_timer_softirq(), and spin_lock_irq(&base->lock).                     *)
RunTimers(c) ==
  /\ phase[c] = "idle" /\ Free(c) /\ Due(c)
  /\ phase' = [phase EXCEPT ![c] = "locked"]
  /\ UNCHANGED <<jiffies, timer_jiffies, running_timer, timerVars, moving, gone>>

(* Mutant: a vector is cascaded when its own index comes round. *)
Cascaded_OwnIndex(tj) == {k \in 2 .. Vectors + 1 : Index(1, tj) = 0 /\ Index(k, tj) = 0}

(* The vectors that are cascaded: each one when all before it come round.   *)
Cascaded(tj) == {k \in 2 .. Vectors + 1 : \A j \in 1 .. k - 1 : Index(j, tj) = 0}

(* cascade(): where t is after it.  A timer that internal_add_timer() puts  *)
(* back on the list being emptied is lost by the INIT_LIST_HEAD() at its    *)
(* end (and two such timers keep the loop going for ever).                  *)
Cascade(c, t) ==
  LET tj == timer_jiffies[c]
      s  == InternalAddTimer(tj, expires[t])
  IN IF slot[t].lv \notin Cascaded(tj) \/ slot[t].ix # Index(slot[t].lv, tj)
       THEN slot[t]
       ELSE IF s = slot[t] THEN NoSlot ELSE s

(* One turn of the outer loop: cascade, ++timer_jiffies, and take the       *)
(* bucket of tv1 whose time has come.                                       *)
ExpireTick(c) ==
  LET now == [lv |-> 1, ix |-> Index(1, timer_jiffies[c])]
      due == {t \in Timers : base[t] = c /\ Cascade(c, t) = now}
  IN /\ phase[c] = "locked" /\ work[c] = {} /\ Due(c)
     /\ timer_jiffies' = [timer_jiffies EXCEPT ![c] = (@ + 1) % Word]
     /\ work' = [work EXCEPT ![c] = due]
     /\ slot' = [t \in Timers |->
                   IF base[t] # c THEN slot[t]
                   ELSE IF t \in due THEN NoSlot ELSE Cascade(c, t)]
     /\ UNCHANGED <<jiffies, running_timer, phase, pending, expires, base, moving,
                    gone>>

(* The inner loop: detach a timer, unlock and call its function.            *)
CallTimer(c, t) ==
  /\ phase[c] = "locked" /\ t \in work[c]
  /\ running_timer' = [running_timer EXCEPT ![c] = t]
  /\ Detach(t)
  /\ phase' = [phase EXCEPT ![c] = "fn"]
  /\ UNCHANGED <<jiffies, timer_jiffies, expires, base, moving, gone>>

(* The function returns, and the lock is taken again.                       *)
TimerReturns(c) ==
  /\ phase[c] = "fn" /\ Free(c)
  /\ phase' = [phase EXCEPT ![c] = "locked"]
  /\ UNCHANGED <<jiffies, timer_jiffies, running_timer, timerVars, moving, gone>>

(* No tick left: set_running_timer(base, NULL) and unlock.                  *)
RunDone(c) ==
  /\ phase[c] = "locked" /\ work[c] = {} /\ ~Due(c)
  /\ phase' = [phase EXCEPT ![c] = "idle"]
  /\ running_timer' = [running_timer EXCEPT ![c] = None]
  /\ UNCHANGED <<jiffies, timer_jiffies, timerVars, moving, gone>>

-----------------------------------------------------------------------------
Next ==
  \/ DoTimer
  \/ \E c \in CPUs, t \in Timers, d \in Delays :
       LET e == (jiffies + d) % Word
       IN ModTimer(c, t, e) \/ ModTimerLeave(c, t, e)
  \/ \E t \in Timers : DelTimer(t) \/ DelTimerSync(t)
  \/ \E c \in CPUs : \/ ModTimerArrive(c) \/ RunTimers(c) \/ ExpireTick(c)
                     \/ TimerReturns(c) \/ RunDone(c)
                     \/ \E t \in Timers : CallTimer(c, t)

Spec == Init /\ [][Next]_vars

-----------------------------------------------------------------------------
(* Properties. *)

Running(c, t) == phase[c] = "fn" /\ running_timer[c] = t
Moving(c, t)  == moving[c] # None /\ moving[c].timer = t

(* A pending timer is linked in one place, a bucket or the work_list of its *)
(* base, unless a CPU is taking it elsewhere; and no other timer is.  So    *)
(* cascade() loses none: "We are removing _all_ timers from the list".      *)
Linked ==
  \A t \in Timers :
    LET lists == {c \in CPUs : t \in work[c]}
    IN /\ lists \subseteq {base[t]}
       /\ slot[t] # NoSlot => base[t] # None /\ lists = {}
       /\ slot[t] # NoSlot \/ lists # {} => pending[t]
       /\ pending[t] => slot[t] # NoSlot \/ lists # {} \/ base[t] = None
       /\ Cardinality({c \in CPUs : Moving(c, t)}) = (IF base[t] = None THEN 1 ELSE 0)

(* "The kernel will do a ->function(->data) callback at the ->expires point *)
(* in the future": no timer is taken out to be run before its time, and no  *)
(* timer is still in the vectors after it, except one that was armed too    *)
(* late, which is in the bucket that is processed next.                     *)
OnTime ==
  \A t \in Timers, c \in CPUs :
    /\ t \in work[c] => TimeAfterEq(timer_jiffies[c] - 1, expires[t])
    /\ base[t] = c /\ slot[t] # NoSlot /\ ~TimeAfterEq(expires[t], timer_jiffies[c])
         => slot[t] = [lv |-> 1, ix |-> Index(1, timer_jiffies[c])]

(* "the timer is serialized wrt itself": its function never runs on two     *)
(* CPUs at once, although any CPU may arm it while it runs.                 *)
Serialized ==
  \A t \in Timers, c, d \in CPUs : Running(c, t) /\ Running(d, t) => c = d

(* "Upon exit the timer is not queued and the handler is not running on any *)
(* CPU": so it is after del_timer_sync(), until somebody arms it again.     *)
DelSyncQuiet ==
  \A t \in Timers : gone[t] => ~pending[t] /\ \A c \in CPUs : ~Running(c, t)
=============================================================================
