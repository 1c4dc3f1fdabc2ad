-------------------------- MODULE TimerWheelProof --------------------------
(***************************************************************************)
(* kernel/timer.c, for every number of CPUs and timers.  Whatever the      *)
(* layout of the vectors, a timer's function is serialized and             *)
(* del_timer_sync() leaves nothing behind.  With the layout that the       *)
(* kernel is built with, cascade() loses no timer and none runs early or   *)
(* is left behind.                                                         *)
(***************************************************************************)
EXTENDS TimerWheel, FiniteSetTheorems, TLAPS

(* The types that the argument needs; where the wheel links a timer, and    *)
(* when, does not matter to it.                                             *)
LockTypes ==
  /\ phase \in [CPUs -> {"idle", "locked", "fn"}]
  /\ running_timer \in [CPUs -> Timers \cup {None}]
  /\ work \in [CPUs -> SUBSET Timers]
  /\ pending \in [Timers -> BOOLEAN] /\ gone \in [Timers -> BOOLEAN]
  /\ base \in [Timers -> CPUs \cup {None}]
  /\ DOMAIN slot = Timers /\ DOMAIN moving = CPUs

(* A timer stays on the base of the CPU that runs its function.             *)
FnOwner == \A c \in CPUs : phase[c] = "fn" =>
             running_timer[c] \in Timers /\ base[running_timer[c]] = c

(* What is linked is pending, and on the work_list of its own base only.    *)
WorkOwner   == \A c \in CPUs : \A t \in work[c] : base[t] = c /\ pending[t]
SlotPending == \A t \in Timers : slot[t] # NoSlot => pending[t]

(* The timer that a CPU takes elsewhere is on no base, no other CPU has it, *)
(* and it does not count as deleted.                                        *)
MoveOwner ==
  \A c \in CPUs : moving[c] # None =>
    /\ moving[c].timer \in Timers /\ base[moving[c].timer] = None
    /\ ~gone[moving[c].timer]
    /\ \A d \in CPUs : moving[d] # None /\ moving[d].timer = moving[c].timer => d = c

LockInv == LockTypes /\ FnOwner /\ WorkOwner /\ SlotPending /\ MoveOwner /\ DelSyncQuiet

(* cascade() moves linked timers only: one that is in no bucket stays so.   *)
LEMMA CascadeLinked ==
  ASSUME NEW c \in CPUs, NEW t \in Timers, slot[t] = NoSlot
  PROVE  Cascade(c, t) = NoSlot
<1>1. slot[t].lv = 0
  BY DEF NoSlot
<1>2. 0 \notin Cascaded(timer_jiffies[c])
  BY WheelAssumption DEF Cascaded
<1> QED BY <1>1, <1>2 DEF Cascade

(* Before any CPU runs timers, nothing is linked, moving or running.        *)
LEMMA LockInit == Init => LockInv
<1> SUFFICES ASSUME Init PROVE LockInv
  OBVIOUS
<1>1. LockTypes
  BY WheelAssumption DEF Init, LockTypes
<1>2. FnOwner /\ WorkOwner /\ SlotPending /\ MoveOwner
  BY DEF Init, FnOwner, WorkOwner, SlotPending, MoveOwner
<1>3. DelSyncQuiet
  BY DEF Init, DelSyncQuiet
<1> QED BY <1>1, <1>2, <1>3 DEF LockInv

(* Arming a timer that stays on its base.                                   *)
LEMMA LockModTimer ==
  ASSUME LockInv, NEW c \in CPUs, NEW t \in Timers, NEW e, ModTimer(c, t, e)
  PROVE  LockInv'
<1> DEFINE s == InternalAddTimer(timer_jiffies[base[t]], e)
<1>0. base' = [base EXCEPT ![t] = base[t]] /\ pending' = [pending EXCEPT ![t] = TRUE]
      /\ slot' = [slot EXCEPT ![t] = s] /\ work' = [d \in CPUs |-> work[d] \ {t}]
      /\ gone' = [gone EXCEPT ![t] = FALSE] /\ base[t] \in CPUs
      /\ UNCHANGED <<phase, running_timer, moving>>
  BY DEF ModTimer, Link, Unlinked, baseVars, Lockable, LockInv, LockTypes
<1> HIDE DEF s
<1>1. base' = base
  BY <1>0 DEF LockInv, LockTypes
<1>2. LockTypes'
  BY <1>0, <1>1 DEF LockInv, LockTypes
<1>3. FnOwner' /\ WorkOwner' /\ SlotPending'
  BY <1>0, <1>1 DEF LockInv, LockTypes, FnOwner, WorkOwner, SlotPending
<1>4. MoveOwner'
  BY <1>0, <1>1 DEF LockInv, LockTypes, MoveOwner
<1>5. DelSyncQuiet'
  BY <1>0, <1>1 DEF LockInv, LockTypes, DelSyncQuiet, Running
<1> QED BY <1>2, <1>3, <1>4, <1>5 DEF LockInv

(* Leaving a base: not while the function runs there.                       *)
LEMMA LockModLeave ==
  ASSUME LockInv, NEW c \in CPUs, NEW t \in Timers, NEW e, ModTimerLeave(c, t, e)
  PROVE  LockInv'
<1>0. base' = [base EXCEPT ![t] = None] /\ slot' = [slot EXCEPT ![t] = NoSlot]
      /\ work' = [d \in CPUs |-> work[d] \ {t}]
      /\ gone' = [gone EXCEPT ![t] = FALSE] /\ base[t] \in CPUs
      /\ UNCHANGED <<phase, running_timer, pending>>
      /\ running_timer[base[t]] # t /\ moving[c] = None
      /\ moving' = [moving EXCEPT ![c] = [timer |-> t, expires |-> e]]
  BY DEF ModTimerLeave, Unlinked, baseVars, Lockable, LockInv, LockTypes, Stays, Free
<1>1. LockTypes'
  BY <1>0 DEF LockInv, LockTypes
<1>2. FnOwner'
  <2> SUFFICES ASSUME NEW d \in CPUs, phase[d] = "fn"
               PROVE  running_timer[d] \in Timers /\ base'[running_timer[d]] = d
    BY <1>0 DEF FnOwner
  <2>1. running_timer[d] \in Timers /\ base[running_timer[d]] = d
    BY DEF LockInv, FnOwner
  <2>2. running_timer[d] # t
    BY <2>1, <1>0
  <2> QED BY <2>1, <2>2, <1>0 DEF LockInv, LockTypes
<1>3. WorkOwner' /\ SlotPending'
  BY <1>0 DEF LockInv, LockTypes, WorkOwner, SlotPending
<1>4. MoveOwner'
  <2>1. \A d \in CPUs : d # c => moving'[d] = moving[d]
    BY <1>0 DEF LockInv, LockTypes
  <2>2. moving'[c].timer = t
    BY <1>0 DEF LockInv, LockTypes
  <2>3. \A d \in CPUs : d # c /\ moving[d] # None => moving[d].timer # t
    BY <1>0, WheelAssumption DEF LockInv, MoveOwner
  <2> QED BY <2>1, <2>2, <2>3, <1>0 DEF LockInv, LockTypes, MoveOwner
<1>5. DelSyncQuiet'
  BY <1>0 DEF LockInv, LockTypes, DelSyncQuiet, Running
<1> QED BY <1>1, <1>2, <1>3, <1>4, <1>5 DEF LockInv

(* Arriving on another base.                                                *)
LEMMA LockModArrive ==
  ASSUME LockInv, NEW c \in CPUs, ModTimerArrive(c)
  PROVE  LockInv'
<1> DEFINE t == moving[c].timer
           s == InternalAddTimer(timer_jiffies[c], moving[c].expires)
<1>0. base' = [base EXCEPT ![t] = c] /\ slot' = [slot EXCEPT ![t] = s]
      /\ pending' = [pending EXCEPT ![t] = TRUE]
      /\ moving' = [moving EXCEPT ![c] = None]
      /\ UNCHANGED <<phase, running_timer, work, gone>>
      /\ t \in Timers /\ base[t] = None /\ ~gone[t]
      /\ \A d \in CPUs : moving[d] # None /\ moving[d].timer = t => d = c
  BY DEF ModTimerArrive, Link, baseVars, LockInv, MoveOwner
<1> HIDE DEF t, s
<1>1. LockTypes'
  BY <1>0 DEF LockInv, LockTypes
<1>2. FnOwner'
  BY <1>0, WheelAssumption DEF LockInv, LockTypes, FnOwner
<1>3. WorkOwner' /\ SlotPending'
  BY <1>0, WheelAssumption DEF LockInv, LockTypes, WorkOwner, SlotPending
<1>4. MoveOwner'
  BY <1>0 DEF LockInv, LockTypes, MoveOwner
<1>5. DelSyncQuiet'
  BY <1>0 DEF LockInv, LockTypes, DelSyncQuiet, Running
<1> QED BY <1>1, <1>2, <1>3, <1>4, <1>5 DEF LockInv

(* Deleting: del_timer_sync() only when no base runs the function.          *)
LEMMA LockDelete ==
  ASSUME LockInv, NEW t \in Timers, DelTimer(t) \/ DelTimerSync(t)
  PROVE  LockInv'
<1>0. slot' = [slot EXCEPT ![t] = NoSlot] /\ pending' = [pending EXCEPT ![t] = FALSE]
      /\ work' = [d \in CPUs |-> work[d] \ {t}] /\ base[t] \in CPUs
      /\ UNCHANGED <<phase, running_timer, base, moving>>
  BY DEF DelTimer, DelTimerSync, Detach, Unlinked, baseVars, Lockable, LockInv, LockTypes
<1>1. gone' = gone \/ (gone' = [gone EXCEPT ![t] = TRUE] /\ running_timer[base[t]] # t)
  BY DEF DelTimer, DelTimerSync
<1>2. LockTypes'
  BY <1>0, <1>1 DEF LockInv, LockTypes
<1>3. FnOwner' /\ WorkOwner' /\ SlotPending'
  BY <1>0 DEF LockInv, LockTypes, FnOwner, WorkOwner, SlotPending
<1>4. MoveOwner'
  BY <1>0, <1>1, WheelAssumption DEF LockInv, LockTypes, MoveOwner
<1>5. DelSyncQuiet'
  BY <1>0, <1>1 DEF LockInv, LockTypes, DelSyncQuiet, Running, FnOwner
<1> QED BY <1>2, <1>3, <1>4, <1>5 DEF LockInv

(* A turn of the outer loop: only linked timers reach the work_list.        *)
LEMMA LockExpireTick ==
  ASSUME LockInv, NEW c \in CPUs, ExpireTick(c)
  PROVE  LockInv'
<1>0. PICK due \in SUBSET Timers :
        /\ \A t \in due : base[t] = c /\ slot[t] # NoSlot
        /\ work' = [work EXCEPT ![c] = due]
  <2> DEFINE now == [lv |-> 1, ix |-> Index(1, timer_jiffies[c])]
             due == {t \in Timers : base[t] = c /\ Cascade(c, t) = now}
  <2>1. now # NoSlot
    BY DEF NoSlot
  <2>2. \A t \in due : base[t] = c /\ slot[t] # NoSlot
    BY <2>1, CascadeLinked
  <2> QED BY <2>2 DEF ExpireTick
<1>1. \A t \in Timers : slot'[t] # NoSlot => slot[t] # NoSlot
  BY CascadeLinked DEF ExpireTick
<1>2. UNCHANGED <<phase, running_timer, pending, base, moving, gone>>
      /\ DOMAIN slot' = Timers
  BY DEF ExpireTick
<1>3. LockTypes'
  BY <1>0, <1>2 DEF LockInv, LockTypes
<1>4. FnOwner' /\ WorkOwner' /\ SlotPending'
  BY <1>0, <1>1, <1>2 DEF LockInv, LockTypes, FnOwner, WorkOwner, SlotPending
<1>5. MoveOwner' /\ DelSyncQuiet'
  BY <1>2 DEF LockInv, MoveOwner, DelSyncQuiet, Running
<1> QED BY <1>3, <1>4, <1>5 DEF LockInv

(* Calling a function: its timer is on the base of the caller.              *)
LEMMA LockCallTimer ==
  ASSUME LockInv, NEW c \in CPUs, NEW t \in Timers, CallTimer(c, t)
  PROVE  LockInv'
<1>0. slot' = [slot EXCEPT ![t] = NoSlot] /\ pending' = [pending EXCEPT ![t] = FALSE]
      /\ work' = [d \in CPUs |-> work[d] \ {t}]
      /\ phase' = [phase EXCEPT ![c] = "fn"] /\ t \in work[c]
      /\ running_timer' = [running_timer EXCEPT ![c] = t]
      /\ UNCHANGED <<base, moving, gone>>
  BY DEF CallTimer, Detach, Unlinked
<1>1. base[t] = c /\ pending[t]
  BY <1>0 DEF LockInv, WorkOwner
<1>2. LockTypes'
  BY <1>0 DEF LockInv, LockTypes
<1>3. FnOwner' /\ WorkOwner' /\ SlotPending'
  BY <1>0, <1>1 DEF LockInv, LockTypes, FnOwner, WorkOwner, SlotPending
<1>4. MoveOwner'
  BY <1>0 DEF LockInv, MoveOwner
<1>5. DelSyncQuiet'
  BY <1>0, <1>1 DEF LockInv, LockTypes, DelSyncQuiet, Running
<1> QED BY <1>2, <1>3, <1>4, <1>5 DEF LockInv

(* The steps of __run_timers() that only take, keep or drop the lock.       *)
LEMMA LockPhase ==
  ASSUME LockInv, NEW c \in CPUs, RunTimers(c) \/ TimerReturns(c) \/ RunDone(c)
  PROVE  LockInv'
<1>0. PICK p \in {"idle", "locked"}, r \in {running_timer[c], None} :
        /\ phase' = [phase EXCEPT ![c] = p]
        /\ running_timer' = [running_timer EXCEPT ![c] = r]
  BY DEF RunTimers, TimerReturns, RunDone, LockInv, LockTypes
<1>1. UNCHANGED <<timerVars, moving, gone>>
  BY DEF RunTimers, TimerReturns, RunDone
<1>2. LockTypes'
  BY <1>0, <1>1 DEF LockInv, LockTypes, timerVars
<1>3. FnOwner' /\ WorkOwner' /\ SlotPending' /\ MoveOwner'
  BY <1>0, <1>1 DEF LockInv, LockTypes, FnOwner, WorkOwner, SlotPending, MoveOwner, timerVars
<1>4. DelSyncQuiet'
  BY <1>0, <1>1 DEF LockInv, LockTypes, DelSyncQuiet, Running, timerVars
<1> QED BY <1>2, <1>3, <1>4 DEF LockInv

(* Every step keeps the invariant.                                          *)
LEMMA LockStep == LockInv /\ [Next]_vars => LockInv'
<1> SUFFICES ASSUME LockInv, [Next]_vars PROVE LockInv'
  OBVIOUS
<1>1. CASE DoTimer \/ UNCHANGED vars
  <2>1. UNCHANGED <<baseVars, timerVars, moving, gone>>
    BY <1>1 DEF DoTimer, vars
  <2>2. LockTypes' /\ FnOwner' /\ WorkOwner' /\ SlotPending' /\ MoveOwner'
    BY <2>1 DEF LockInv, LockTypes, FnOwner, WorkOwner, SlotPending, MoveOwner,
                baseVars, timerVars
  <2>3. DelSyncQuiet'
    BY <2>1 DEF LockInv, DelSyncQuiet, Running, baseVars, timerVars
  <2> QED BY <2>2, <2>3 DEF LockInv
<1>2. ASSUME NEW c \in CPUs, NEW t \in Timers, NEW e,
             ModTimer(c, t, e) \/ ModTimerLeave(c, t, e)
      PROVE  LockInv'
  BY <1>2, LockModTimer, LockModLeave
<1>3. ASSUME NEW t \in Timers, DelTimer(t) \/ DelTimerSync(t) PROVE LockInv'
  BY <1>3, LockDelete
<1>4. ASSUME NEW c \in CPUs, ModTimerArrive(c) \/ ExpireTick(c) PROVE LockInv'
  BY <1>4, LockModArrive, LockExpireTick
<1>5. ASSUME NEW c \in CPUs, RunTimers(c) \/ TimerReturns(c) \/ RunDone(c)
      PROVE  LockInv'
  BY <1>5, LockPhase
<1>6. ASSUME NEW c \in CPUs, NEW t \in Timers, CallTimer(c, t) PROVE LockInv'
  BY <1>6, LockCallTimer
<1> QED BY <1>1, <1>2, <1>3, <1>4, <1>5, <1>6 DEF Next

(* Hence the invariant holds of every behaviour of kernel/timer.c.          *)
LEMMA LockAlways == Spec => []LockInv
<1> QED BY LockInit, LockStep, PTL DEF Spec

(* "the timer is serialized wrt itself" (__mod_timer): for any number of    *)
(* CPUs arming it, its function never runs twice at once.                   *)
THEOREM SerializedAlways == Spec => []Serialized
<1>1. LockInv => Serialized
  BY DEF LockInv, FnOwner, Serialized, Running
<1> QED BY <1>1, LockAlways, PTL

(* "Upon exit the timer is not queued and the handler is not running on any *)
(* CPU" (del_timer_sync).                                                   *)
THEOREM DelSyncAlways == Spec => []DelSyncQuiet
<1>1. LockInv => DelSyncQuiet
  BY DEF LockInv
<1> QED BY <1>1, LockAlways, PTL
-----------------------------------------------------------------------------
(* The wheel. *)

(* The layout of timer.c for a 32-bit CPU with CONFIG_BASE_SMALL=0, as in  *)
(* arch/sh/configs/hp6xx_defconfig: the vectors cover all of jiffies.      *)
Layout == LongBits = 32 /\ TVR_BITS = 8 /\ TVN_BITS = 6 /\ Vectors = 4

Ticks       == {x \in Nat : x < Word}
Ahead(x, e) == (e - x) % Word

(* Where a timer that expires at e may be linked while x is the next tick  *)
(* of its base.  A late one is in the bucket of x.  Any other is within    *)
(* the reach of its vector, in the bucket of e, and the tick at which that *)
(* bucket is cascaded, e without its low bits, has not passed.             *)
Late(x, e, s) ==
  /\ Ahead(x, e) >= Word \div 2
  /\ s = [lv |-> 1, ix |-> Index(1, x)]
AtLevel(k, x, e, s) ==
  /\ s = [lv |-> k, ix |-> Index(k, e)]
  /\ Ahead(x, e) < 2^Shift(k + 1) /\ e % 2^Shift(k) <= Ahead(x, e)
Fits(x, e, s) ==
  \/ Late(x, e, s)
  \/ Ahead(x, e) < Word \div 2 /\ \E k \in 1 .. 5 : AtLevel(k, x, e, s)

(* The sizes that the layout gives.                                        *)
LEMMA LayoutSizes ==
  ASSUME Layout
  PROVE  /\ Word = 4294967296 /\ Word \div 2 = 2147483648
         /\ 2^Shift(1) = 1 /\ 2^Shift(2) = 256 /\ 2^Shift(3) = 16384
         /\ 2^Shift(4) = 1048576 /\ 2^Shift(5) = 67108864
         /\ 2^Shift(6) = 4294967296
         /\ Buckets(1) = 256 /\ \A k \in 2 .. 5 : Buckets(k) = 64
<1>1. Shift(1) = 0 /\ Shift(2) = 8 /\ Shift(3) = 14 /\ Shift(4) = 20 /\ Shift(5) = 26
      /\ Shift(6) = 32
  BY SMT DEF Layout, Shift
<1>2. 2^0 = 1 /\ 2^6 = 64 /\ 2^8 = 256 /\ 2^14 = 16384 /\ 2^20 = 1048576
      /\ 2^26 = 67108864 /\ 2^32 = 4294967296
  BY SMT
<1>3. Word = 4294967296
  BY <1>2 DEF Layout, Word
<1>4. Word \div 2 = 2147483648
  BY <1>3, SMT
<1>6. 2^Shift(1) = 2^0 /\ 2^Shift(2) = 2^8 /\ 2^Shift(3) = 2^14 /\ 2^Shift(4) = 2^20
      /\ 2^Shift(5) = 2^26 /\ 2^Shift(6) = 2^32
  BY <1>1, Zenon
<1>7. 2^Shift(1) = 1 /\ 2^Shift(2) = 256 /\ 2^Shift(3) = 16384 /\ 2^Shift(4) = 1048576
      /\ 2^Shift(5) = 67108864 /\ 2^Shift(6) = 4294967296
  BY <1>6, SMT
<1>5. Buckets(1) = 256 /\ \A k \in 2 .. 5 : Buckets(k) = 64
  BY <1>2 DEF Layout, Buckets
<1> QED BY <1>3, <1>4, <1>5, <1>7, SMT

(* The bits of expires that choose the bucket in each vector.              *)
LEMMA LayoutIndex ==
  ASSUME Layout, NEW x \in Nat
  PROVE  /\ Index(1, x) = x % 256 /\ Index(2, x) = (x \div 256) % 64
         /\ Index(3, x) = (x \div 16384) % 64 /\ Index(4, x) = (x \div 1048576) % 64
         /\ Index(5, x) = (x \div 67108864) % 64
<1>1. x \div 1 = x
  BY SMT
<1> QED BY <1>1, LayoutSizes DEF Index

(* The minimum of a set that has one.                                      *)
LEMMA MinIs ==
  ASSUME NEW S \in SUBSET Int, NEW m \in S, \A n \in S : m <= n
  PROVE  Min(S) = m
<1>1. \E n \in S : \A i \in S : n <= i
  OBVIOUS
<1>2. Min(S) \in S /\ \A n \in S : Min(S) <= n
  BY <1>1 DEF Min
<1>3. Min(S) \in Int /\ m \in Int /\ Min(S) <= m /\ m <= Min(S)
  BY <1>2
<1> QED BY <1>3

(* internal_add_timer(), vector by vector.                                 *)
LEMMA AddLevel ==
  ASSUME Layout, NEW x \in Ticks, NEW e \in Ticks
  PROVE  LET d == Ahead(x, e)
             s == InternalAddTimer(x, e)
             at(k) == [lv |-> k, ix |-> Index(k, e)]
         IN /\ d < 256 => s = at(1)
            /\ d >= 256 /\ d < 16384 => s = at(2)
            /\ d >= 16384 /\ d < 1048576 => s = at(3)
            /\ d >= 1048576 /\ d < 67108864 => s = at(4)
            /\ d >= 67108864 /\ d < 2147483648 => s = at(5)
            /\ d >= 2147483648 => s = [lv |-> 1, ix |-> Index(1, x)]
<1> DEFINE d == Ahead(x, e)
           near == {k \in 1 .. Vectors : d < 2^Shift(k + 1)}
           S == near \cup {Vectors + 1}
           s == InternalAddTimer(x, e)
           at(k) == [lv |-> k, ix |-> Index(k, e)]
<1>1. d \in Nat
  BY LayoutSizes, SMT DEF Ahead, Ticks
<1>2. s = IF near = {} /\ d >= Word \div 2
        THEN [lv |-> 1, ix |-> Index(1, x)]
        ELSE at(Min(S))
  BY DEF InternalAddTimer, Ahead
<1>3. Vectors = 4 /\ S \in SUBSET Int
  BY DEF Layout
<1> HIDE DEF d, s
<1>4. /\ 1 \in near <=> d < 256
      /\ 2 \in near <=> d < 16384
      /\ 3 \in near <=> d < 1048576
      /\ 4 \in near <=> d < 67108864
      /\ near \subseteq {1, 2, 3, 4}
  BY <1>3, LayoutSizes
<1> HIDE DEF near
<1>5. ASSUME d < 256 PROVE s = at(1)
  <2>1. 1 \in S /\ \A n \in S : 1 <= n
    BY <1>1, <1>3, <1>4, <1>5
  <2>2. Min(S) = 1
    BY <1>3, <2>1, MinIs
  <2>3. near # {}
    BY <1>1, <1>4, <1>5
  <2> QED BY <1>2, <2>2, <2>3
<1>6. ASSUME d >= 256, d < 16384 PROVE s = at(2)
  <2>1. 2 \in S /\ \A n \in S : 2 <= n
    BY <1>1, <1>3, <1>4, <1>6
  <2>2. Min(S) = 2
    BY <1>3, <2>1, MinIs
  <2>3. near # {}
    BY <1>1, <1>4, <1>6
  <2> QED BY <1>2, <2>2, <2>3
<1>7. ASSUME d >= 16384, d < 1048576 PROVE s = at(3)
  <2>1. 3 \in S /\ \A n \in S : 3 <= n
    BY <1>1, <1>3, <1>4, <1>7
  <2>2. Min(S) = 3
    BY <1>3, <2>1, MinIs
  <2>3. near # {}
    BY <1>1, <1>4, <1>7
  <2> QED BY <1>2, <2>2, <2>3
<1>8. ASSUME d >= 1048576, d < 67108864 PROVE s = at(4)
  <2>1. 4 \in S /\ \A n \in S : 4 <= n
    BY <1>1, <1>3, <1>4, <1>8
  <2>2. Min(S) = 4
    BY <1>3, <2>1, MinIs
  <2>3. near # {}
    BY <1>1, <1>4, <1>8
  <2> QED BY <1>2, <2>2, <2>3
<1>9. ASSUME d >= 67108864
      PROVE  s = IF d >= 2147483648 THEN [lv |-> 1, ix |-> Index(1, x)] ELSE at(5)
  <2>1. near = {}
    BY <1>1, <1>4, <1>9
  <2>2. 5 \in S /\ \A n \in S : 5 <= n
    BY <1>3, <2>1
  <2>3. Min(S) = 5
    BY <1>3, <2>2, MinIs
  <2> QED BY <1>2, <2>1, <2>3, LayoutSizes
<1>10. d >= 2147483648 => d >= 67108864 /\ ~(d < 2147483648)
  BY <1>1, SMT
<1> HIDE DEF at
<1> QED BY <1>1, <1>5, <1>6, <1>7, <1>8, <1>9, <1>10 DEF d, s, at

(* Linked by internal_add_timer(), a timer is late, or in the first vector *)
(* that reaches as far as it.                                              *)
LEMMA AddPlace ==
  ASSUME Layout, NEW x \in Ticks, NEW e \in Ticks
  PROVE  \/ Late(x, e, InternalAddTimer(x, e))
         \/ /\ Ahead(x, e) < Word \div 2
            /\ \E k \in 1 .. 5 :
                 /\ InternalAddTimer(x, e) = [lv |-> k, ix |-> Index(k, e)]
                 /\ Ahead(x, e) < 2^Shift(k + 1)
                 /\ k = 1 \/ 2^Shift(k) <= Ahead(x, e)
<1> DEFINE d == Ahead(x, e)
           s == InternalAddTimer(x, e)
           at(k) == [lv |-> k, ix |-> Index(k, e)]
<1>1. d \in Nat
  BY LayoutSizes, SMT DEF Ahead, Ticks
<1>2. /\ d < 256 => s = at(1)
      /\ d >= 256 /\ d < 16384 => s = at(2)
      /\ d >= 16384 /\ d < 1048576 => s = at(3)
      /\ d >= 1048576 /\ d < 67108864 => s = at(4)
      /\ d >= 67108864 /\ d < 2147483648 => s = at(5)
      /\ d >= 2147483648 => s = [lv |-> 1, ix |-> Index(1, x)]
  BY AddLevel
<1> HIDE DEF d, s, at
<1>3. ASSUME d >= 2147483648 PROVE Late(x, e, s)
  BY <1>2, <1>3, LayoutSizes, SMT DEF d, Late
<1>4. ASSUME d < 2147483648
      PROVE  \E k \in 1 .. 5 : s = at(k) /\ d < 2^Shift(k + 1) /\ (k = 1 \/ 2^Shift(k) <= d)
  <2>1. CASE d < 256
    BY <1>2, <2>1, LayoutSizes, SMT
  <2>2. CASE d >= 256 /\ d < 16384
    BY <1>2, <2>2, LayoutSizes, SMT
  <2>3. CASE d >= 16384 /\ d < 1048576
    BY <1>2, <2>3, LayoutSizes, SMT
  <2>4. CASE d >= 1048576 /\ d < 67108864
    BY <1>2, <2>4, LayoutSizes, SMT
  <2>5. CASE d >= 67108864
    <3>1. s = at(5) /\ d < 2^Shift(6) /\ 2^Shift(5) <= d
      BY <1>1, <1>2, <1>4, <2>5, LayoutSizes, SMT
    <3> QED BY <3>1, SMT
  <2> QED BY <1>1, <2>1, <2>2, <2>3, <2>4, <2>5, SMT
<1>5. d < 2147483648 \/ d >= 2147483648
  BY <1>1, SMT
<1> QED BY <1>3, <1>4, <1>5, LayoutSizes, SMT DEF d, s, at

(* The ticks at which a vector is cascaded.                                *)
LEMMA CascadedAt ==
  ASSUME Layout, NEW x \in Ticks
  PROVE  /\ 2 \in Cascaded(x) <=> x % 256 = 0
         /\ 3 \in Cascaded(x) <=> x % 16384 = 0
         /\ 4 \in Cascaded(x) <=> x % 1048576 = 0
         /\ 5 \in Cascaded(x) <=> x % 67108864 = 0
<1>1. x \in Nat /\ Vectors = 4
  BY DEF Ticks, Layout
<1>2. /\ Index(1, x) = x % 256 /\ Index(2, x) = (x \div 256) % 64
      /\ Index(3, x) = (x \div 16384) % 64 /\ Index(4, x) = (x \div 1048576) % 64
  BY <1>1, LayoutIndex
<1>3. /\ 2 \in Cascaded(x) <=> Index(1, x) = 0
      /\ 3 \in Cascaded(x) <=> Index(1, x) = 0 /\ Index(2, x) = 0
      /\ 4 \in Cascaded(x) <=> Index(1, x) = 0 /\ Index(2, x) = 0 /\ Index(3, x) = 0
      /\ 5 \in Cascaded(x) <=> /\ Index(1, x) = 0 /\ Index(2, x) = 0
                               /\ Index(3, x) = 0 /\ Index(4, x) = 0
  <2>1. 1 .. 2 - 1 = {1} /\ 1 .. 3 - 1 = {1, 2} /\ 1 .. 4 - 1 = {1, 2, 3}
        /\ 1 .. 5 - 1 = {1, 2, 3, 4}
    BY SMT
  <2>2. \A k \in {2, 3, 4, 5} : k \in Cascaded(x) <=> \A j \in 1 .. k - 1 : Index(j, x) = 0
    BY <1>1 DEF Cascaded
  <2> QED BY <2>1, <2>2
<1>4. x % 16384 = 0 <=> x % 256 = 0 /\ (x \div 256) % 64 = 0
  BY <1>1, SMT
<1>5. x % 1048576 = 0 <=> x % 16384 = 0 /\ (x \div 16384) % 64 = 0
  BY <1>1, SMT
<1>6. x % 67108864 = 0 <=> x % 1048576 = 0 /\ (x \div 1048576) % 64 = 0
  BY <1>1, SMT
<1> QED BY <1>2, <1>3, <1>4, <1>5, <1>6

(* A bucket that is cascaded holds timers of the coming round of the       *)
(* vector below, and the tick of a timer's bucket is one of its cascades.  *)
LEMMA LevelArith ==
  ASSUME Layout, NEW x \in Ticks, NEW e \in Ticks, NEW k \in 2 .. 5
  PROVE  /\ k \in Cascaded(x) /\ Index(k, e) = Index(k, x)
              /\ Ahead(x, e) < 2^Shift(k + 1)
            => Ahead(x, e) < 2^Shift(k)
         /\ Ahead(x, e) = e % 2^Shift(k)
            => k \in Cascaded(x) /\ Index(k, e) = Index(k, x)
<1>1. x \in Nat /\ e \in Nat /\ x < 4294967296 /\ e < 4294967296
      /\ Ahead(x, e) = (e - x) % 4294967296
  BY LayoutSizes DEF Ticks, Ahead
<1>2. CASE k = 2
  <2>1. (k \in Cascaded(x) <=> x % 256 = 0) /\ 2^Shift(k) = 256 /\ 2^Shift(k + 1) = 16384
    BY <1>2, CascadedAt, LayoutSizes
  <2>2. Index(k, e) = (e \div 256) % 64 /\ Index(k, x) = (x \div 256) % 64
    BY <1>1, <1>2, LayoutIndex
  <2>3. x % 256 = 0 /\ (e \div 256) % 64 = (x \div 256) % 64
          /\ (e - x) % 4294967296 < 16384
        => (e - x) % 4294967296 < 256
    BY <1>1, SMT
  <2>4. (e - x) % 4294967296 = e % 256
        => x % 256 = 0 /\ (e \div 256) % 64 = (x \div 256) % 64
    BY <1>1, SMT
  <2> QED BY <1>1, <2>1, <2>2, <2>3, <2>4
<1>3. CASE k = 3
  <2>1. (k \in Cascaded(x) <=> x % 16384 = 0) /\ 2^Shift(k) = 16384 /\ 2^Shift(k + 1) = 1048576
    BY <1>3, CascadedAt, LayoutSizes
  <2>2. Index(k, e) = (e \div 16384) % 64 /\ Index(k, x) = (x \div 16384) % 64
    BY <1>1, <1>3, LayoutIndex
  <2>3. x % 16384 = 0 /\ (e \div 16384) % 64 = (x \div 16384) % 64
          /\ (e - x) % 4294967296 < 1048576
        => (e - x) % 4294967296 < 16384
    BY <1>1, SMT
  <2>4. (e - x) % 4294967296 = e % 16384
        => x % 16384 = 0 /\ (e \div 16384) % 64 = (x \div 16384) % 64
    BY <1>1, SMT
  <2> QED BY <1>1, <2>1, <2>2, <2>3, <2>4
<1>4. CASE k = 4
  <2>1. (k \in Cascaded(x) <=> x % 1048576 = 0) /\ 2^Shift(k) = 1048576 /\ 2^Shift(k + 1) = 67108864
    BY <1>4, CascadedAt, LayoutSizes
  <2>2. Index(k, e) = (e \div 1048576) % 64 /\ Index(k, x) = (x \div 1048576) % 64
    BY <1>1, <1>4, LayoutIndex
  <2>3. x % 1048576 = 0 /\ (e \div 1048576) % 64 = (x \div 1048576) % 64
          /\ (e - x) % 4294967296 < 67108864
        => (e - x) % 4294967296 < 1048576
    BY <1>1, SMT
  <2>4. (e - x) % 4294967296 = e % 1048576
        => x % 1048576 = 0 /\ (e \div 1048576) % 64 = (x \div 1048576) % 64
    BY <1>1, SMT
  <2> QED BY <1>1, <2>1, <2>2, <2>3, <2>4
<1>5. CASE k = 5
  <2>1. (k \in Cascaded(x) <=> x % 67108864 = 0) /\ 2^Shift(k) = 67108864 /\ 2^Shift(k + 1) = 4294967296
    BY <1>5, CascadedAt, LayoutSizes
  <2>2. Index(k, e) = (e \div 67108864) % 64 /\ Index(k, x) = (x \div 67108864) % 64
    BY <1>1, <1>5, LayoutIndex
  <2>3. x % 67108864 = 0 /\ (e \div 67108864) % 64 = (x \div 67108864) % 64
          /\ (e - x) % 4294967296 < 4294967296
        => (e - x) % 4294967296 < 67108864
    BY <1>1, SMT
  <2>4. (e - x) % 4294967296 = e % 67108864
        => x % 67108864 = 0 /\ (e \div 67108864) % 64 = (x \div 67108864) % 64
    BY <1>1, SMT
  <2> QED BY <1>1, <2>1, <2>2, <2>3, <2>4
<1> QED BY <1>2, <1>3, <1>4, <1>5

(* cascade() of one timer: its place s after the cascades at tick x.       *)
Moved(x, e, s) ==
  LET r == InternalAddTimer(x, e)
  IN IF s.lv \notin Cascaded(x) \/ s.ix # Index(s.lv, x) THEN s
     ELSE IF r = s THEN NoSlot ELSE r

(* The distance to e shrinks by one with a tick.                           *)
LEMMA TickAhead ==
  ASSUME Layout, NEW x \in Ticks, NEW e \in Ticks
  PROVE  /\ Ahead(x, e) \in Nat /\ (x + 1) % Word \in Ticks
         /\ Ahead(x, e) >= 1 => Ahead((x + 1) % Word, e) = Ahead(x, e) - 1
         /\ Ahead(x, e) = 0 <=> x = e
         /\ x # e => (x - e) % Word = Word - Ahead(x, e)
         /\ (((x + 1) % Word) - 1 - e) % Word = (x - e) % Word
<1>1. x \in Nat /\ e \in Nat /\ x < 4294967296 /\ e < 4294967296 /\ Word = 4294967296
  BY LayoutSizes DEF Ticks
<1>2. (e - x) % 4294967296 \in Nat /\ (x + 1) % 4294967296 \in Nat
      /\ (x + 1) % 4294967296 < 4294967296
  BY <1>1, SMT
<1>3. (e - x) % 4294967296 >= 1
      => (e - ((x + 1) % 4294967296)) % 4294967296 = ((e - x) % 4294967296) - 1
  BY <1>1, SMT
<1>4. /\ (e - x) % 4294967296 = 0 <=> x = e
      /\ x # e => (x - e) % 4294967296 = 4294967296 - ((e - x) % 4294967296)
  BY <1>1, SMT
<1>5. (((x + 1) % 4294967296) - 1 - e) % 4294967296 = (x - e) % 4294967296
  BY <1>1, SMT
<1> QED BY <1>1, <1>2, <1>3, <1>4, <1>5 DEF Ahead, Ticks

(* What a step of the wheel needs of the sizes.                            *)
LEMMA LevelSizes ==
  ASSUME Layout, NEW k \in 1 .. 5, NEW e \in Ticks
  PROVE  /\ 2^Shift(k) \in Nat \ {0} /\ 2^Shift(k + 1) \in Nat /\ 2^Shift(1) = 1
         /\ e % 2^Shift(k) \in Nat /\ e % 2^Shift(k) < 2^Shift(k)
         /\ k = 1 => e % 2^Shift(k) = 0
<1>1. e \in Nat
  BY DEF Ticks
<1>2. k \in {1, 2, 3, 4, 5}
  BY SMT
<1>3. 2^Shift(k) \in Nat \ {0} /\ 2^Shift(k + 1) \in Nat /\ 2^Shift(1) = 1
  BY <1>2, LayoutSizes
<1>4. \A n \in Nat \ {0} : e % n \in Nat /\ e % n < n /\ (n = 1 => e % n = 0)
  BY <1>1, SMT
<1> QED BY <1>3, <1>4

(* A timer of the first vector, one that is not late, is in the bucket of  *)
(* tick x just if it expires at x.                                         *)
LEMMA FirstVector ==
  ASSUME Layout, NEW x \in Ticks, NEW e \in Ticks, Ahead(x, e) < 2^Shift(2)
  PROVE  Index(1, e) = Index(1, x) <=> Ahead(x, e) = 0
<1>1. x \in Nat /\ e \in Nat /\ x < 4294967296 /\ e < 4294967296
      /\ Ahead(x, e) = (e - x) % 4294967296 /\ (e - x) % 4294967296 < 256
  BY LayoutSizes DEF Ticks, Ahead
<1>2. Index(1, e) = e % 256 /\ Index(1, x) = x % 256
  BY <1>1, LayoutIndex
<1>3. e % 256 = x % 256 <=> (e - x) % 4294967296 = 0
  BY <1>1, SMT
<1> QED BY <1>1, <1>2, <1>3

(* The cascades at tick x lose no timer: each is then in the bucket of x,  *)
(* if it expires at x or is late, or in its right place for x + 1.         *)
LEMMA TickFits ==
  ASSUME Layout, NEW x \in Ticks, NEW e \in Ticks, NEW s, Fits(x, e, s)
  PROVE  IF Moved(x, e, s) = [lv |-> 1, ix |-> Index(1, x)]
           THEN x = e \/ Late(x, e, s)
           ELSE Moved(x, e, s) # NoSlot /\ Fits((x + 1) % Word, e, Moved(x, e, s))
                /\ Ahead(x, e) < Word \div 2 /\ Ahead((x + 1) % Word, e) < Word \div 2
<1> DEFINE r   == Moved(x, e, s)
           d   == Ahead(x, e)
           y   == (x + 1) % Word
           now == [lv |-> 1, ix |-> Index(1, x)]
           at(k) == [lv |-> k, ix |-> Index(k, e)]
<1>0. /\ d \in Nat /\ y \in Ticks /\ (d >= 1 => Ahead(y, e) = d - 1)
      /\ d = 0 <=> x = e
      /\ Word \div 2 \in Nat
  <2>1. Word \div 2 \in Nat
    BY LayoutSizes, SMT
  <2> QED BY <2>1, TickAhead
<1>1. ASSUME Late(x, e, s) PROVE r = now
  BY <1>1 DEF Moved, Late, Cascaded
<1>2. ASSUME d < Word \div 2, NEW k \in 1 .. 5, r = at(k), d < 2^Shift(k + 1), d >= 1,
             e % 2^Shift(k) <= d - 1
      PROVE  r # NoSlot /\ Fits(y, e, r) /\ Ahead(y, e) < Word \div 2
  <2>1. Ahead(y, e) < Word \div 2 /\ Ahead(y, e) = d - 1
    BY <1>0, <1>2
  <2>2. d - 1 < 2^Shift(k + 1)
    BY <1>0, <1>2, LevelSizes
  <2>3. AtLevel(k, y, e, r)
    BY <1>2, <2>1, <2>2 DEF AtLevel
  <2>4. r # NoSlot
    BY <1>2 DEF NoSlot
  <2> QED BY <2>1, <2>3, <2>4 DEF Fits
<1>3. ASSUME d < Word \div 2, NEW k \in 1 .. 5, AtLevel(k, x, e, s), r = s
      PROVE  IF r = now THEN x = e
             ELSE r # NoSlot /\ Fits(y, e, r) /\ Ahead(y, e) < Word \div 2
  <2>1. s = at(k) /\ d < 2^Shift(k + 1) /\ e % 2^Shift(k) <= d
    BY <1>3 DEF AtLevel
  <2>2. CASE k = 1
    <3>1. Index(1, e) = Index(1, x) <=> d = 0
      BY <2>1, <2>2, FirstVector
    <3>2. r = now <=> d = 0
      BY <1>3, <2>1, <2>2, <3>1
    <3>3. d # 0 => d >= 1 /\ e % 2^Shift(k) <= d - 1
      BY <1>0, <2>2, LevelSizes
    <3> QED BY <1>0, <1>2, <1>3, <2>1, <3>2, <3>3
  <2>3. CASE k \in 2 .. 5
    <3>1. r # now
      BY <1>3, <2>1, <2>3
    <3>2. ~(k \in Cascaded(x) /\ Index(k, e) = Index(k, x))
      <4>1. ASSUME k \in Cascaded(x), Index(k, e) = Index(k, x) PROVE FALSE
        <5>1. Moved(x, e, s) # s
          <6>1. s.lv = k /\ s.ix = Index(k, x) /\ s # NoSlot
            BY <2>1, <2>3, <4>1 DEF NoSlot
          <6> QED BY <4>1, <6>1 DEF Moved
        <5> QED BY <1>3, <5>1
      <4> QED BY <4>1
    <3>3. d # e % 2^Shift(k)
      BY <2>3, <3>2, LevelArith
    <3>4. d >= 1 /\ e % 2^Shift(k) <= d - 1
      BY <1>0, <2>1, <3>3, LevelSizes
    <3> QED BY <1>2, <1>3, <2>1, <3>1, <3>4
  <2> QED BY <2>2, <2>3
<1>4. ASSUME d < Word \div 2, NEW k \in 1 .. 5, AtLevel(k, x, e, s), r # s
      PROVE  IF r = now THEN x = e
             ELSE r # NoSlot /\ Fits(y, e, r) /\ Ahead(y, e) < Word \div 2
  <2>1. s = at(k) /\ d < 2^Shift(k + 1) /\ e % 2^Shift(k) <= d
    BY <1>4 DEF AtLevel
  <2>2. k \in Cascaded(x) /\ Index(k, e) = Index(k, x)
    BY <1>4, <2>1 DEF Moved
  <2>3. k \in 2 .. 5
    BY <2>2 DEF Cascaded
  <2>4. d < 2^Shift(k)
    BY <2>1, <2>2, <2>3, LevelArith
  <2>5. PICK j \in 1 .. 5 : /\ InternalAddTimer(x, e) = at(j) /\ d < 2^Shift(j + 1)
                            /\ j = 1 \/ 2^Shift(j) <= d
    <3>1. ~Late(x, e, InternalAddTimer(x, e))
      BY <1>0, <1>4 DEF Late
    <3> QED BY <3>1, AddPlace
  <2>6. r = at(j)
    <3>1. j # k
      BY <1>0, <2>3, <2>4, <2>5, LevelSizes
    <3>2. at(j) # s
      BY <2>1, <3>1
    <3> QED BY <2>1, <2>2, <2>5, <3>2 DEF Moved
  <2>7. CASE d = 0
    <3>1. j = 1
      BY <2>5, <2>7, LevelSizes
    <3>2. r = now
      BY <2>6, <2>7, <1>0, <3>1
    <3> QED BY <1>0, <2>7, <3>2
  <2>8. CASE d # 0
    <3>1. r # now
      <4>1. ASSUME r = now PROVE FALSE
        <5>1. j = 1 /\ Index(1, e) = Index(1, x)
          BY <2>6, <4>1
        <5>2. d < 2^Shift(2)
          BY <2>5, <5>1
        <5> QED BY <2>8, <5>1, <5>2, FirstVector
      <4> QED BY <4>1
    <3>2. d >= 1 /\ e % 2^Shift(j) <= d - 1
      BY <1>0, <2>5, <2>8, LevelSizes
    <3> QED BY <1>2, <1>4, <2>5, <2>6, <3>1, <3>2
  <2> QED BY <2>7, <2>8
<1> QED BY <1>1, <1>3, <1>4 DEF Fits

(* A linked timer is on a base and in no work_list, and in its right place *)
(* in the vectors; a pending one is linked, in a work_list or moving; and  *)
(* a timer is on no base just while a CPU takes it elsewhere.              *)
WheelTypes ==
  /\ jiffies \in Ticks /\ timer_jiffies \in [CPUs -> Ticks]
  /\ expires \in [Timers -> Ticks]
  /\ moving \in [CPUs -> {None} \cup [timer : Timers, expires : Ticks]]
Placed ==
  \A t \in Timers : slot[t] # NoSlot =>
    /\ base[t] # None /\ \A c \in CPUs : t \notin work[c]
    /\ Fits(timer_jiffies[base[t]], expires[t], slot[t])
PendingLinked ==
  \A t \in Timers : pending[t] =>
    slot[t] # NoSlot \/ base[t] = None \/ \E c \in CPUs : t \in work[c]
Carried == \A t \in Timers : base[t] = None => \E c \in CPUs : Moving(c, t)

WheelInv == WheelTypes /\ Placed /\ PendingLinked /\ Carried

(* What internal_add_timer() returns is a place of the vectors.            *)
LEMMA AddFits ==
  ASSUME Layout, NEW x \in Ticks, NEW e \in Ticks
  PROVE  Fits(x, e, InternalAddTimer(x, e)) /\ InternalAddTimer(x, e) # NoSlot
<1> DEFINE s == InternalAddTimer(x, e)
<1>1. CASE Late(x, e, s)
  BY <1>1 DEF Fits, Late, NoSlot
<1>2. CASE ~Late(x, e, s)
  <2>1. PICK k \in 1 .. 5 : /\ s = [lv |-> k, ix |-> Index(k, e)]
                            /\ Ahead(x, e) < 2^Shift(k + 1)
                            /\ k = 1 \/ 2^Shift(k) <= Ahead(x, e)
    BY <1>2, AddPlace
  <2>2. Ahead(x, e) < Word \div 2
    BY <1>2, AddPlace
  <2>3. e % 2^Shift(k) <= Ahead(x, e)
    BY <2>1, LevelSizes, TickAhead
  <2>4. AtLevel(k, x, e, s)
    BY <2>1, <2>3 DEF AtLevel
  <2>5. s # NoSlot
    BY <2>1 DEF NoSlot
  <2> QED BY <2>2, <2>4, <2>5 DEF Fits
<1> QED BY <1>1, <1>2

(* The time that a caller sets.                                            *)
LEMMA ExpiresType ==
  ASSUME Layout, WheelTypes, NEW d \in Delays
  PROVE  (jiffies + d) % Word \in Ticks
<1>1. jiffies \in Nat /\ d \in Int /\ Word = 4294967296
  BY WheelAssumption, LayoutSizes DEF WheelTypes, Ticks
<1>2. (jiffies + d) % 4294967296 \in Nat /\ (jiffies + d) % 4294967296 < 4294967296
  BY <1>1, SMT
<1> QED BY <1>1, <1>2 DEF Ticks

(* Initially nothing is pending.                                           *)
LEMMA WheelInit == Layout /\ Init => WheelInv
<1> SUFFICES ASSUME Layout, Init PROVE WheelInv
  OBVIOUS
<1>1. 0 \in Ticks
  BY LayoutSizes, SMT DEF Ticks
<1>2. WheelTypes
  BY <1>1 DEF Init, WheelTypes
<1>3. Placed /\ PendingLinked
  BY DEF Init, Placed, PendingLinked
<1>4. Carried
  BY WheelAssumption DEF Init, Carried
<1> QED BY <1>2, <1>3, <1>4 DEF WheelInv

(* __mod_timer() of a timer that stays on its base.                        *)
LEMMA WheelModTimer ==
  ASSUME Layout, LockInv, WheelInv, NEW c \in CPUs, NEW t \in Timers, NEW e \in Ticks,
         ModTimer(c, t, e)
  PROVE  WheelInv'
<1> DEFINE s == InternalAddTimer(timer_jiffies[base[t]], e)
<1>0. /\ base' = [base EXCEPT ![t] = base[t]] /\ pending' = [pending EXCEPT ![t] = TRUE]
      /\ expires' = [expires EXCEPT ![t] = e]
      /\ slot' = [slot EXCEPT ![t] = s] /\ work' = [d \in CPUs |-> work[d] \ {t}]
      /\ base[t] \in CPUs /\ base[t] # None
      /\ UNCHANGED <<jiffies, timer_jiffies, moving>>
  BY WheelAssumption
     DEF ModTimer, Link, Unlinked, baseVars, Lockable, LockInv, LockTypes
<1>1. Fits(timer_jiffies[base[t]], e, s) /\ s # NoSlot
  BY <1>0, AddFits DEF WheelInv, WheelTypes
<1> HIDE DEF s
<1>2. base' = base
  BY <1>0 DEF LockInv, LockTypes
<1>3. WheelTypes'
  BY <1>0 DEF WheelInv, WheelTypes
<1>4. Placed'
  BY <1>0, <1>1, <1>2 DEF WheelInv, WheelTypes, LockInv, LockTypes, Placed
<1>5. PendingLinked'
  BY <1>0, <1>1, <1>2 DEF WheelInv, LockInv, LockTypes, PendingLinked
<1>6. Carried'
  BY <1>0, <1>2 DEF WheelInv, Carried, Moving
<1> QED BY <1>3, <1>4, <1>5, <1>6 DEF WheelInv

(* Leaving a base.                                                         *)
LEMMA WheelModLeave ==
  ASSUME Layout, LockInv, WheelInv, NEW c \in CPUs, NEW t \in Timers, NEW e \in Ticks,
         ModTimerLeave(c, t, e)
  PROVE  WheelInv'
<1>0. /\ base' = [base EXCEPT ![t] = None] /\ slot' = [slot EXCEPT ![t] = NoSlot]
      /\ work' = [d \in CPUs |-> work[d] \ {t}] /\ moving[c] = None
      /\ moving' = [moving EXCEPT ![c] = [timer |-> t, expires |-> e]]
      /\ UNCHANGED <<jiffies, timer_jiffies, pending, expires>>
  BY DEF ModTimerLeave, Unlinked, baseVars, Free
<1>1. WheelTypes'
  BY <1>0 DEF WheelInv, WheelTypes
<1>2. Placed'
  BY <1>0 DEF WheelInv, WheelTypes, LockInv, LockTypes, Placed
<1>3. PendingLinked'
  BY <1>0 DEF WheelInv, LockInv, LockTypes, PendingLinked
<1>4. Carried'
  <2>1. [timer |-> t, expires |-> e] # None
    BY WheelAssumption DEF Ticks
  <2>2. /\ moving'[c] = [timer |-> t, expires |-> e]
        /\ \A d \in CPUs \ {c} : moving'[d] = moving[d]
        /\ base'[t] = None /\ \A u \in Timers \ {t} : base'[u] = base[u]
    BY <1>0 DEF LockInv, LockTypes
  <2>3. \E d \in CPUs : Moving(d, t)'
    BY <2>1, <2>2 DEF Moving
  <2>4. ASSUME NEW u \in Timers \ {t}, base'[u] = None PROVE \E d \in CPUs : Moving(d, u)'
    <3>1. PICK d \in CPUs : Moving(d, u)
      BY <2>2, <2>4 DEF WheelInv, Carried
    <3>2. d # c
      BY <1>0, <3>1 DEF Moving
    <3>3. Moving(d, u)'
      BY <2>2, <3>1, <3>2 DEF Moving
    <3> QED BY <3>3
  <2> QED BY <2>3, <2>4 DEF Carried
<1> QED BY <1>1, <1>2, <1>3, <1>4 DEF WheelInv

(* Arriving on another base.                                               *)
LEMMA WheelModArrive ==
  ASSUME Layout, LockInv, WheelInv, NEW c \in CPUs, ModTimerArrive(c)
  PROVE  WheelInv'
<1> DEFINE t == moving[c].timer
           e == moving[c].expires
           s == InternalAddTimer(timer_jiffies[c], e)
<1>0. /\ base' = [base EXCEPT ![t] = c] /\ slot' = [slot EXCEPT ![t] = s]
      /\ pending' = [pending EXCEPT ![t] = TRUE]
      /\ expires' = [expires EXCEPT ![t] = e]
      /\ moving' = [moving EXCEPT ![c] = None]
      /\ UNCHANGED <<jiffies, timer_jiffies, work>>
      /\ t \in Timers /\ base[t] = None /\ e \in Ticks /\ c # None
  BY WheelAssumption
     DEF ModTimerArrive, Link, baseVars, LockInv, MoveOwner, WheelInv, WheelTypes
<1>1. Fits(timer_jiffies[c], e, s) /\ s # NoSlot
  BY <1>0, AddFits DEF WheelInv, WheelTypes
<1>2. \A d \in CPUs : t \notin work[d]
  BY <1>0, WheelAssumption DEF LockInv, WorkOwner
<1> HIDE DEF t, e, s
<1>3. WheelTypes'
  BY <1>0 DEF WheelInv, WheelTypes
<1>4. Placed'
  BY <1>0, <1>1, <1>2 DEF WheelInv, WheelTypes, LockInv, LockTypes, Placed
<1>5. PendingLinked'
  BY <1>0, <1>1, <1>2 DEF WheelInv, LockInv, LockTypes, PendingLinked
<1>6. Carried'
  <2>1. ASSUME NEW u \in Timers, base'[u] = None PROVE \E d \in CPUs : Moving(d, u)'
    <3>1. u # t /\ base[u] = None
      BY <1>0, <2>1 DEF LockInv, LockTypes
    <3>2. PICK d \in CPUs : Moving(d, u)
      BY <3>1 DEF WheelInv, Carried
    <3>3. d # c
      BY <3>1, <3>2 DEF Moving, t
    <3>4. moving'[d] = moving[d]
      BY <1>0, <3>3 DEF LockInv, LockTypes
    <3> QED BY <3>2, <3>4 DEF Moving
  <2> QED BY <2>1 DEF Carried
<1> QED BY <1>3, <1>4, <1>5, <1>6 DEF WheelInv

(* Detaching a timer, to delete it or to call its function.                *)
LEMMA WheelDetach ==
  ASSUME LockInv, WheelInv, NEW t \in Timers, Detach(t),
         UNCHANGED <<jiffies, timer_jiffies, expires, base, moving>>
  PROVE  WheelInv'
<1>0. slot' = [slot EXCEPT ![t] = NoSlot] /\ pending' = [pending EXCEPT ![t] = FALSE]
      /\ work' = [d \in CPUs |-> work[d] \ {t}]
  BY DEF Detach, Unlinked
<1>1. WheelTypes'
  BY DEF WheelInv, WheelTypes
<1>2. Placed'
  BY <1>0 DEF WheelInv, WheelTypes, LockInv, LockTypes, Placed
<1>3. PendingLinked'
  BY <1>0 DEF WheelInv, LockInv, LockTypes, PendingLinked
<1>4. Carried'
  BY DEF WheelInv, Carried, Moving
<1> QED BY <1>1, <1>2, <1>3, <1>4 DEF WheelInv

(* A turn of the outer loop of __run_timers(): cascade() loses no timer.   *)
LEMMA WheelExpireTick ==
  ASSUME Layout, LockInv, WheelInv, NEW c \in CPUs, ExpireTick(c)
  PROVE  WheelInv'
<1> DEFINE x   == timer_jiffies[c]
           now == [lv |-> 1, ix |-> Index(1, x)]
           due == {t \in Timers : base[t] = c /\ Cascade(c, t) = now}
<1>0. /\ work[c] = {} /\ work' = [work EXCEPT ![c] = due]
      /\ timer_jiffies' = [timer_jiffies EXCEPT ![c] = (x + 1) % Word]
      /\ slot' = [t \in Timers |-> IF base[t] # c THEN slot[t]
                                   ELSE IF t \in due THEN NoSlot ELSE Cascade(c, t)]
      /\ UNCHANGED <<jiffies, pending, expires, base, moving>>
  BY DEF ExpireTick
<1>1. \A t \in Timers : Cascade(c, t) = Moved(x, expires[t], slot[t])
  BY DEF Cascade, Moved
<1>2. x \in Ticks /\ (x + 1) % Word \in Ticks /\ \A t \in Timers : expires[t] \in Ticks
  BY TickAhead DEF WheelInv, WheelTypes
<1>3. ASSUME NEW t \in Timers, base[t] = c, slot[t] # NoSlot, t \notin due
      PROVE  slot'[t] # NoSlot /\ Fits((x + 1) % Word, expires[t], slot'[t])
  <2>1. Fits(x, expires[t], slot[t])
    BY <1>3 DEF WheelInv, Placed
  <2>2. slot'[t] = Moved(x, expires[t], slot[t]) /\ slot'[t] # now
    BY <1>0, <1>1, <1>3
  <2> QED BY <1>2, <2>1, <2>2, TickFits
<1>4. \A t \in Timers : slot[t] = NoSlot => t \notin due /\ slot'[t] = NoSlot
  <2>1. now # NoSlot
    BY DEF NoSlot
  <2> QED BY <1>0, <2>1, CascadeLinked
<1>5. \A t \in due : slot'[t] = NoSlot /\ base[t] = c /\ t \in Timers
  BY <1>0
<1> HIDE DEF due
<1>6. WheelTypes'
  BY <1>0, <1>2 DEF WheelInv, WheelTypes
<1>7. Placed'
  <2> SUFFICES ASSUME NEW t \in Timers, slot'[t] # NoSlot
               PROVE  /\ base[t] # None /\ \A d \in CPUs : t \notin work'[d]
                      /\ Fits(timer_jiffies'[base[t]], expires[t], slot'[t])
    BY <1>0 DEF Placed
  <2>1. slot[t] # NoSlot /\ t \notin due
    BY <1>4, <1>5
  <2>2. base[t] # None /\ \A d \in CPUs : t \notin work[d]
    BY <2>1 DEF WheelInv, Placed
  <2>3. \A d \in CPUs : t \notin work'[d]
    BY <1>0, <2>1, <2>2 DEF LockInv, LockTypes
  <2>4. CASE base[t] = c
    <3>1. timer_jiffies'[base[t]] = (x + 1) % Word
      BY <1>0, <2>4 DEF WheelInv, WheelTypes
    <3> QED BY <1>3, <2>1, <2>2, <2>3, <2>4, <3>1
  <2>5. CASE base[t] # c
    <3>1. slot'[t] = slot[t] /\ base[t] \in CPUs
      BY <1>0, <2>2, <2>5 DEF LockInv, LockTypes
    <3>2. timer_jiffies'[base[t]] = timer_jiffies[base[t]]
      BY <1>0, <2>5, <3>1 DEF WheelInv, WheelTypes
    <3>3. Fits(timer_jiffies[base[t]], expires[t], slot[t])
      BY <2>1 DEF WheelInv, Placed
    <3> QED BY <2>2, <2>3, <3>1, <3>2, <3>3
  <2> QED BY <2>4, <2>5
<1>8. PendingLinked'
  <2> SUFFICES ASSUME NEW t \in Timers, pending[t]
               PROVE  slot'[t] # NoSlot \/ base[t] = None \/ \E d \in CPUs : t \in work'[d]
    BY <1>0 DEF PendingLinked
  <2>1. CASE base[t] = c
    <3>1. c # None
      BY WheelAssumption
    <3>2. slot[t] # NoSlot
      BY <1>0, <2>1, <3>1 DEF WheelInv, PendingLinked, LockInv, WorkOwner
    <3>3. t \in due \/ slot'[t] # NoSlot
      BY <1>3, <2>1, <3>2
    <3>4. work'[c] = due
      BY <1>0 DEF LockInv, LockTypes
    <3> QED BY <3>3, <3>4
  <2>2. CASE base[t] # c
    <3>1. slot'[t] = slot[t]
      BY <1>0, <2>2
    <3>2. \A d \in CPUs : t \in work[d] => t \in work'[d]
      BY <1>0 DEF LockInv, LockTypes
    <3> QED BY <3>1, <3>2 DEF WheelInv, PendingLinked
  <2> QED BY <2>1, <2>2
<1>9. Carried'
  BY <1>0 DEF WheelInv, Carried, Moving
<1> QED BY <1>6, <1>7, <1>8, <1>9 DEF WheelInv

(* Every step keeps every timer in its right place.                        *)
LEMMA WheelStep == Layout /\ LockInv /\ WheelInv /\ [Next]_vars => WheelInv'
<1> SUFFICES ASSUME Layout, LockInv, WheelInv, [Next]_vars PROVE WheelInv'
  OBVIOUS
<1>1. ASSUME UNCHANGED <<timer_jiffies, timerVars, moving>>, jiffies' \in Ticks
      PROVE  WheelInv'
  BY <1>1 DEF WheelInv, WheelTypes, Placed, PendingLinked, Carried, Moving, timerVars
<1>2. CASE DoTimer
  <2>1. jiffies' = (jiffies + 1) % Word /\ UNCHANGED <<timer_jiffies, timerVars, moving>>
    BY <1>2 DEF DoTimer, baseVars
  <2>2. jiffies' \in Ticks
    BY <2>1, TickAhead DEF WheelInv, WheelTypes
  <2> QED BY <1>1, <2>1, <2>2
<1>3. ASSUME NEW c \in CPUs, NEW t \in Timers, NEW e \in Ticks,
             ModTimer(c, t, e) \/ ModTimerLeave(c, t, e)
      PROVE  WheelInv'
  BY <1>3, WheelModTimer, WheelModLeave
<1>4. ASSUME NEW t \in Timers, DelTimer(t) \/ DelTimerSync(t) PROVE WheelInv'
  BY <1>4, WheelDetach DEF DelTimer, DelTimerSync, baseVars
<1>5. ASSUME NEW c \in CPUs, ModTimerArrive(c) \/ ExpireTick(c) PROVE WheelInv'
  BY <1>5, WheelModArrive, WheelExpireTick
<1>6. ASSUME NEW c \in CPUs, RunTimers(c) \/ TimerReturns(c) \/ RunDone(c)
      PROVE  WheelInv'
  BY <1>1, <1>6 DEF RunTimers, TimerReturns, RunDone, WheelInv, WheelTypes
<1>7. ASSUME NEW c \in CPUs, NEW t \in Timers, CallTimer(c, t) PROVE WheelInv'
  BY <1>7, WheelDetach DEF CallTimer
<1>8. CASE UNCHANGED vars
  BY <1>1, <1>8 DEF vars, baseVars, WheelInv, WheelTypes
<1>9. \A d \in Delays : (jiffies + d) % Word \in Ticks
  BY ExpiresType DEF WheelInv
<1> QED BY <1>2, <1>3, <1>4, <1>5, <1>6, <1>7, <1>8, <1>9 DEF Next

(* Hence it holds of every behaviour.                                      *)
LEMMA WheelAlways ==
  ASSUME Layout
  PROVE  Spec => [](LockInv /\ WheelInv)
<1>1. Init => LockInv /\ WheelInv
  BY LockInit, WheelInit
<1>2. LockInv /\ WheelInv /\ [Next]_vars => LockInv' /\ WheelInv'
  BY LockStep, WheelStep
<1> QED BY <1>1, <1>2, PTL DEF Spec

(* "We are removing _all_ timers from the list" (cascade): with the layout *)
(* of the kernel, for every number of CPUs and timers and every delay, a   *)
(* pending timer is always linked in exactly one place, although it may be *)
(* cascaded, moved between CPUs and armed by its own function.             *)
THEOREM LinkedAlways ==
  ASSUME Layout
  PROVE  Spec => []Linked
<1>1. ASSUME LockInv, WheelInv PROVE Linked
  <2> SUFFICES ASSUME NEW t \in Timers
               PROVE  LET lists == {c \in CPUs : t \in work[c]}
                      IN /\ lists \subseteq {base[t]}
                         /\ slot[t] # NoSlot => base[t] # None /\ lists = {}
                         /\ slot[t] # NoSlot \/ lists # {} => pending[t]
                         /\ pending[t] => slot[t] # NoSlot \/ lists # {} \/ base[t] = None
                         /\ Cardinality({c \in CPUs : Moving(c, t)})
                              = (IF base[t] = None THEN 1 ELSE 0)
    BY DEF Linked
  <2> DEFINE lists  == {c \in CPUs : t \in work[c]}
             movers == {c \in CPUs : Moving(c, t)}
  <2>1. lists \subseteq {base[t]} /\ (lists # {} => pending[t])
    BY <1>1 DEF LockInv, WorkOwner
  <2>2. slot[t] # NoSlot => base[t] # None /\ lists = {}
    BY <1>1 DEF WheelInv, Placed
  <2>3. slot[t] # NoSlot => pending[t]
    BY <1>1 DEF LockInv, SlotPending
  <2>4. pending[t] => slot[t] # NoSlot \/ lists # {} \/ base[t] = None
    BY <1>1 DEF WheelInv, PendingLinked
  <2>5. CASE base[t] = None
    <3>1. PICK c \in CPUs : Moving(c, t)
      BY <1>1, <2>5 DEF WheelInv, Carried
    <3>2. movers = {c}
      BY <1>1, <3>1 DEF LockInv, MoveOwner, Moving
    <3>3. Cardinality(movers) = 1
      BY <3>2, FS_Singleton
    <3> QED BY <2>1, <2>2, <2>3, <2>4, <2>5, <3>3
  <2>6. CASE base[t] # None
    <3>1. movers = {}
      BY <1>1, <2>6 DEF LockInv, MoveOwner, Moving
    <3>2. Cardinality(movers) = 0
      BY <3>1, FS_EmptySet
    <3> QED BY <2>1, <2>2, <2>3, <2>4, <2>6, <3>2
  <2> QED BY <2>5, <2>6
<1> QED BY <1>1, WheelAlways, PTL

-----------------------------------------------------------------------------
(* Timers run on time. *)

(* No caller sets a timer exactly half the range of jiffies away from the  *)
(* tick that the base has reached: that time is neither before nor after.  *)
Decided ==
  \A d \in Delays, n \in 0 .. LagMax + 1 : (d + n - 1) % Word # Word \div 2

(* How far the ticks of a CPU are behind jiffies; a CPU that moves a timer *)
(* is not in __run_timers(), so that its base stays at its tick meanwhile; *)
(* no time in use is half the range away; and what is in a work_list has   *)
(* expired.                                                                *)
LagInv == \A c \in CPUs : (jiffies + 1 - timer_jiffies[c]) % Word <= LagMax + 1
MovePhase == \A c \in CPUs : moving[c] # None => phase[c] # "locked"
SlotDecided ==
  \A t \in Timers : slot[t] # NoSlot =>
    Ahead(timer_jiffies[base[t]], expires[t]) # Word \div 2
MoveDecided ==
  \A c \in CPUs : moving[c] # None =>
    Ahead(timer_jiffies[c], moving[c].expires) # Word \div 2
WorkDue ==
  \A c \in CPUs : \A t \in work[c] : TimeAfterEq(timer_jiffies[c] - 1, expires[t])

TimeInv == LagInv /\ MovePhase /\ SlotDecided /\ MoveDecided /\ WorkDue

(* The time that a caller sets is before or after the tick of every base.  *)
LEMMA DelayDecided ==
  ASSUME Layout, Decided, WheelTypes, LagInv, NEW c \in CPUs, NEW d \in Delays
  PROVE  Ahead(timer_jiffies[c], (jiffies + d) % Word) # Word \div 2
<1> DEFINE x == timer_jiffies[c]
           n == (jiffies + 1 - x) % Word
<1>1. /\ x \in Nat /\ jiffies \in Nat /\ d \in Int /\ Word = 4294967296
      /\ x < 4294967296 /\ jiffies < 4294967296
  BY WheelAssumption, LayoutSizes DEF WheelTypes, Ticks
<1>2. n \in Nat /\ n <= LagMax + 1 /\ LagMax \in Nat
  <2>1. (jiffies + 1 - x) % 4294967296 \in Nat
    BY <1>1, SMT
  <2>2. LagMax \in Nat
    BY WheelAssumption
  <2> QED BY <1>1, <2>1, <2>2 DEF LagInv
<1>3. n \in 0 .. LagMax + 1
  BY <1>2
<1>4. (((jiffies + d) % 4294967296) - x) % 4294967296
        = (d + ((jiffies + 1 - x) % 4294967296) - 1) % 4294967296
  BY <1>1, SMT
<1>5. (d + n - 1) % Word # Word \div 2
  BY <1>3 DEF Decided
<1> QED BY <1>1, <1>4, <1>5 DEF Ahead

(* Time passes and the bases follow.                                       *)
LEMMA LagArith ==
  ASSUME Layout, NEW j \in Ticks, NEW x \in Ticks
  PROVE  /\ (((j + 1) % Word) + 1 - x) % Word <= ((j + 1 - x) % Word) + 1
         /\ TimeAfterEq(j, x)
              => (j + 1 - ((x + 1) % Word)) % Word <= (j + 1 - x) % Word
         /\ (j + 1 - x) % Word \in Nat /\ (((j + 1) % Word) + 1 - x) % Word \in Nat
         /\ (j + 1 - ((x + 1) % Word)) % Word \in Nat
<1>1. j \in Nat /\ x \in Nat /\ j < 4294967296 /\ x < 4294967296 /\ Word = 4294967296
      /\ Word \div 2 = 2147483648
  BY LayoutSizes DEF Ticks
<1>2. (((j + 1) % 4294967296) + 1 - x) % 4294967296 <= ((j + 1 - x) % 4294967296) + 1
  BY <1>1, SMT
<1>3. (j - x) % 4294967296 < 2147483648
      => (j + 1 - ((x + 1) % 4294967296)) % 4294967296 <= (j + 1 - x) % 4294967296
  BY <1>1, SMT
<1>4. /\ (j + 1 - x) % 4294967296 \in Nat
      /\ (((j + 1) % 4294967296) + 1 - x) % 4294967296 \in Nat
      /\ (j + 1 - ((x + 1) % 4294967296)) % 4294967296 \in Nat
  BY <1>1, SMT
<1> QED BY <1>1, <1>2, <1>3, <1>4 DEF TimeAfterEq

(* Initially nothing is linked, and every base is at the first tick.       *)
LEMMA TimeInit == Layout /\ Init => TimeInv
<1> SUFFICES ASSUME Layout, Init PROVE TimeInv
  OBVIOUS
<1>1. (0 + 1 - 0) % Word = 1
  BY LayoutSizes, SMT
<1>2. LagInv
  BY <1>1, WheelAssumption DEF Init, LagInv
<1> QED BY <1>2 DEF Init, TimeInv, MovePhase, SlotDecided, MoveDecided, WorkDue

(* do_timer() waits for no base that is LagMax behind.                     *)
LEMMA TimeDoTimer ==
  ASSUME Layout, WheelInv, TimeInv, DoTimer
  PROVE  TimeInv'
<1>0. /\ jiffies' = (jiffies + 1) % Word
      /\ \A c \in CPUs : (jiffies + 1 - timer_jiffies[c]) % Word <= LagMax
      /\ UNCHANGED <<timer_jiffies, phase, work, expires, base, slot, moving>>
  BY DEF DoTimer, baseVars, timerVars
<1>1. LagInv'
  <2> SUFFICES ASSUME NEW c \in CPUs
               PROVE  (((jiffies + 1) % Word) + 1 - timer_jiffies[c]) % Word <= LagMax + 1
    BY <1>0 DEF LagInv
  <2>1. jiffies \in Ticks /\ timer_jiffies[c] \in Ticks /\ LagMax \in Nat
    BY WheelAssumption DEF WheelInv, WheelTypes
  <2>2. (jiffies + 1 - timer_jiffies[c]) % Word <= LagMax
    BY <1>0
  <2> QED BY <2>1, <2>2, LagArith
<1>2. MovePhase' /\ SlotDecided' /\ MoveDecided' /\ WorkDue'
  BY <1>0 DEF TimeInv, MovePhase, SlotDecided, MoveDecided, WorkDue
<1> QED BY <1>1, <1>2 DEF TimeInv

(* Arming, on the base of the timer or on the way to another.              *)
LEMMA TimeModTimer ==
  ASSUME Layout, LockInv, WheelInv, TimeInv, NEW c \in CPUs, NEW t \in Timers, NEW e \in Ticks,
         \A d \in CPUs : Ahead(timer_jiffies[d], e) # Word \div 2,
         ModTimer(c, t, e) \/ ModTimerLeave(c, t, e)
  PROVE  TimeInv'
<1>0. /\ work' = [d \in CPUs |-> work[d] \ {t}]
      /\ UNCHANGED <<jiffies, timer_jiffies, phase>> /\ phase[c] # "locked"
      /\ base[t] \in CPUs
  BY DEF ModTimer, ModTimerLeave, Unlinked, baseVars, Free, Lockable, LockInv, LockTypes
<1>1. \/ /\ base' = base /\ moving' = moving /\ expires' = [expires EXCEPT ![t] = e]
         /\ \A u \in Timers \ {t} : slot'[u] = slot[u]
      \/ /\ base' = [base EXCEPT ![t] = None] /\ expires' = expires
         /\ slot' = [slot EXCEPT ![t] = NoSlot]
         /\ moving' = [moving EXCEPT ![c] = [timer |-> t, expires |-> e]]
  BY DEF ModTimer, ModTimerLeave, Link, Lockable, LockInv, LockTypes
<1>2. LagInv'
  BY <1>0 DEF TimeInv, LagInv
<1>3. MovePhase'
  BY <1>0, <1>1 DEF TimeInv, MovePhase, LockInv, LockTypes
<1>4. SlotDecided'
  BY <1>0, <1>1 DEF TimeInv, SlotDecided, WheelInv, WheelTypes, LockInv, LockTypes
<1>5. MoveDecided'
  BY <1>0, <1>1 DEF TimeInv, MoveDecided, LockInv, LockTypes
<1>6. WorkDue'
  BY <1>0, <1>1 DEF TimeInv, WorkDue, WheelInv, WheelTypes, LockInv, LockTypes
<1> QED BY <1>2, <1>3, <1>4, <1>5, <1>6 DEF TimeInv

(* Arriving: the base has not moved on since the timer left its old one.   *)
LEMMA TimeModArrive ==
  ASSUME LockInv, WheelInv, TimeInv, NEW c \in CPUs, ModTimerArrive(c)
  PROVE  TimeInv'
<1> DEFINE t == moving[c].timer
           e == moving[c].expires
<1>0. /\ base' = [base EXCEPT ![t] = c] /\ expires' = [expires EXCEPT ![t] = e]
      /\ \A u \in Timers \ {t} : slot'[u] = slot[u]
      /\ moving' = [moving EXCEPT ![c] = None] /\ moving[c] # None
      /\ UNCHANGED <<jiffies, timer_jiffies, phase, work>>
      /\ t \in Timers /\ base[t] = None
  BY DEF ModTimerArrive, Link, baseVars, LockInv, LockTypes, MoveOwner
<1>1. Ahead(timer_jiffies[c], e) # Word \div 2
  BY <1>0 DEF TimeInv, MoveDecided
<1>2. \A d \in CPUs : t \notin work[d]
  BY <1>0, WheelAssumption DEF LockInv, WorkOwner
<1> HIDE DEF t, e
<1>3. LagInv' /\ MovePhase' /\ MoveDecided'
  BY <1>0 DEF TimeInv, LagInv, MovePhase, MoveDecided, LockInv, LockTypes
<1>4. SlotDecided'
  BY <1>0, <1>1 DEF TimeInv, SlotDecided, WheelInv, WheelTypes, LockInv, LockTypes
<1>5. WorkDue'
  BY <1>0, <1>2 DEF TimeInv, WorkDue, WheelInv, WheelTypes, LockInv, LockTypes
<1> QED BY <1>3, <1>4, <1>5 DEF TimeInv

(* A tick: the timers that are taken out have expired.                     *)
LEMMA TimeExpireTick ==
  ASSUME Layout, LockInv, WheelInv, TimeInv, NEW c \in CPUs, ExpireTick(c)
  PROVE  TimeInv'
<1> DEFINE x   == timer_jiffies[c]
           now == [lv |-> 1, ix |-> Index(1, x)]
           due == {t \in Timers : base[t] = c /\ Cascade(c, t) = now}
<1>0. /\ work[c] = {} /\ work' = [work EXCEPT ![c] = due] /\ phase[c] = "locked" /\ Due(c)
      /\ timer_jiffies' = [timer_jiffies EXCEPT ![c] = (x + 1) % Word]
      /\ slot' = [t \in Timers |-> IF base[t] # c THEN slot[t]
                                   ELSE IF t \in due THEN NoSlot ELSE Cascade(c, t)]
      /\ UNCHANGED <<jiffies, phase, expires, base, moving>>
  BY DEF ExpireTick
<1>1. \A t \in Timers : Cascade(c, t) = Moved(x, expires[t], slot[t])
  BY DEF Cascade, Moved
<1>2. x \in Ticks /\ jiffies \in Ticks /\ \A t \in Timers : expires[t] \in Ticks
  BY DEF WheelInv, WheelTypes
<1>3. \A t \in Timers : slot[t] = NoSlot => t \notin due /\ slot'[t] = NoSlot
  <2>1. now # NoSlot
    BY DEF NoSlot
  <2> QED BY <1>0, <2>1, CascadeLinked
<1>4. ASSUME NEW t \in due PROVE TimeAfterEq(((x + 1) % Word) - 1, expires[t])
  <2>1. t \in Timers /\ base[t] = c /\ slot[t] # NoSlot
    BY <1>3
  <2>2. Fits(x, expires[t], slot[t]) /\ Ahead(x, expires[t]) # Word \div 2
    BY <2>1 DEF WheelInv, Placed, TimeInv, SlotDecided
  <2>3. Moved(x, expires[t], slot[t]) = now
    BY <1>1, <2>1
  <2>4. x = expires[t] \/ Late(x, expires[t], slot[t])
    BY <1>2, <2>1, <2>2, <2>3, TickFits
  <2>5. (((x + 1) % Word) - 1 - expires[t]) % Word = (x - expires[t]) % Word
    BY <1>2, <2>1, TickAhead
  <2>6. (x - expires[t]) % Word < Word \div 2
    <3>1. CASE x = expires[t]
      <4>1. x - expires[t] = 0
        BY <1>2, <3>1 DEF Ticks
      <4>2. 0 % Word < Word \div 2
        BY LayoutSizes, SMT
      <4> QED BY <4>1, <4>2
    <3>2. CASE x # expires[t]
      <4>1. /\ (x - expires[t]) % Word = Word - Ahead(x, expires[t])
            /\ Ahead(x, expires[t]) \in Nat
        BY <1>2, <2>1, <3>2, TickAhead
      <4>2. Ahead(x, expires[t]) > Word \div 2
        BY <2>2, <2>4, <3>2, <4>1, LayoutSizes DEF Late
      <4> QED BY <4>1, <4>2, LayoutSizes, SMT
    <3> QED BY <3>1, <3>2
  <2> QED BY <2>5, <2>6 DEF TimeAfterEq
<1>5. ASSUME NEW t \in Timers, base[t] = c, slot'[t] # NoSlot
      PROVE  Ahead((x + 1) % Word, expires[t]) # Word \div 2
  <2>1. slot[t] # NoSlot /\ t \notin due /\ slot'[t] = Cascade(c, t)
    BY <1>0, <1>3, <1>5
  <2>2. Fits(x, expires[t], slot[t]) /\ Moved(x, expires[t], slot[t]) # now
    BY <1>1, <1>5, <2>1 DEF WheelInv, Placed
  <2>3. Ahead((x + 1) % Word, expires[t]) < Word \div 2
    BY <1>2, <2>2, TickFits
  <2>4. Word \div 2 \in Int
    BY LayoutSizes, SMT
  <2> QED BY <2>3, <2>4
<1>6. \A t \in due : t \in Timers /\ base[t] = c
  OBVIOUS
<1> HIDE DEF due
<1>7. LagInv'
  <2> SUFFICES ASSUME NEW d \in CPUs
               PROVE  (jiffies + 1 - timer_jiffies'[d]) % Word <= LagMax + 1
    BY <1>0 DEF LagInv
  <2>1. (jiffies + 1 - timer_jiffies[d]) % Word <= LagMax + 1
    BY DEF TimeInv, LagInv
  <2>2. CASE d = c
    <3>1. timer_jiffies'[d] = (x + 1) % Word
      BY <1>0, <2>2 DEF WheelInv, WheelTypes
    <3>2. TimeAfterEq(jiffies, x)
      BY <1>0 DEF Due
    <3>3. (jiffies + 1 - ((x + 1) % Word)) % Word <= (jiffies + 1 - x) % Word
          /\ (jiffies + 1 - x) % Word \in Nat
          /\ (jiffies + 1 - ((x + 1) % Word)) % Word \in Nat
      BY <1>2, <3>2, LagArith
    <3>4. LagMax \in Nat
      BY WheelAssumption
    <3>5. (jiffies + 1 - x) % Word <= LagMax + 1
      BY <2>1, <2>2
    <3>6. (jiffies + 1 - ((x + 1) % Word)) % Word <= LagMax + 1
      BY <3>3, <3>4, <3>5
    <3> QED BY <3>1, <3>6
  <2>3. CASE d # c
    <3>1. timer_jiffies'[d] = timer_jiffies[d]
      BY <1>0, <2>3 DEF WheelInv, WheelTypes
    <3> QED BY <2>1, <3>1
  <2> QED BY <2>2, <2>3
<1>8. MovePhase' /\ MoveDecided'
  BY <1>0 DEF TimeInv, MovePhase, MoveDecided, WheelInv, WheelTypes
<1>9. SlotDecided'
  <2> SUFFICES ASSUME NEW t \in Timers, slot'[t] # NoSlot
               PROVE  Ahead(timer_jiffies'[base[t]], expires[t]) # Word \div 2
    BY <1>0 DEF SlotDecided
  <2>1. CASE base[t] = c
    <3>1. timer_jiffies'[base[t]] = (x + 1) % Word
      BY <1>0, <2>1 DEF WheelInv, WheelTypes
    <3> QED BY <1>5, <2>1, <3>1
  <2>2. CASE base[t] # c
    <3>1. slot[t] # NoSlot
      BY <1>3
    <3>2. base[t] \in CPUs
      BY <3>1 DEF WheelInv, Placed, LockInv, LockTypes
    <3>3. timer_jiffies'[base[t]] = timer_jiffies[base[t]]
      BY <1>0, <2>2, <3>2 DEF WheelInv, WheelTypes
    <3> QED BY <3>1, <3>3 DEF TimeInv, SlotDecided
  <2> QED BY <2>1, <2>2
<1>10. WorkDue'
  <2> SUFFICES ASSUME NEW d \in CPUs, NEW t \in work'[d]
               PROVE  TimeAfterEq(timer_jiffies'[d] - 1, expires[t])
    BY <1>0 DEF WorkDue
  <2>1. CASE d = c
    <3>1. work'[c] = due /\ timer_jiffies'[c] = (x + 1) % Word
      BY <1>0 DEF LockInv, LockTypes, WheelInv, WheelTypes
    <3> QED BY <1>4, <2>1, <3>1
  <2>2. CASE d # c
    <3>1. work'[d] = work[d] /\ timer_jiffies'[d] = timer_jiffies[d]
      BY <1>0, <2>2 DEF LockInv, LockTypes, WheelInv, WheelTypes
    <3> QED BY <3>1 DEF TimeInv, WorkDue
  <2> QED BY <2>1, <2>2
<1> QED BY <1>7, <1>8, <1>9, <1>10 DEF TimeInv

(* Deleting a timer, calling its function, and the steps of __run_timers() *)
(* that take, keep or drop the lock.                                       *)
LEMMA TimeDetach ==
  ASSUME LockInv, TimeInv, NEW t \in Timers, Detach(t), MovePhase',
         UNCHANGED <<jiffies, timer_jiffies, expires, base, moving>>
  PROVE  TimeInv'
<1>0. slot' = [slot EXCEPT ![t] = NoSlot] /\ work' = [d \in CPUs |-> work[d] \ {t}]
  BY DEF Detach, Unlinked
<1>1. LagInv' /\ MoveDecided'
  BY DEF TimeInv, LagInv, MoveDecided
<1>2. SlotDecided' /\ WorkDue'
  BY <1>0 DEF TimeInv, SlotDecided, WorkDue, LockInv, LockTypes
<1> QED BY <1>1, <1>2 DEF TimeInv

(* A step that moves neither timers nor time keeps the times right.        *)
LEMMA TimePhase ==
  ASSUME LockInv, TimeInv, MovePhase',
         UNCHANGED <<jiffies, timer_jiffies, timerVars, moving>>
  PROVE  TimeInv'
BY DEF TimeInv, LagInv, SlotDecided, MoveDecided, WorkDue, timerVars

(* Every step keeps the times right.                                       *)
LEMMA TimeStep ==
  Layout /\ Decided /\ LockInv /\ WheelInv /\ TimeInv /\ [Next]_vars => TimeInv'
<1> SUFFICES ASSUME Layout, Decided, LockInv, WheelInv, TimeInv, [Next]_vars
             PROVE  TimeInv'
  OBVIOUS
<1>1. ASSUME NEW c \in CPUs, NEW t \in Timers, NEW d \in Delays,
             \/ ModTimer(c, t, (jiffies + d) % Word)
             \/ ModTimerLeave(c, t, (jiffies + d) % Word)
      PROVE  TimeInv'
  <2> DEFINE e == (jiffies + d) % Word
  <2>1. e \in Ticks
    BY ExpiresType DEF WheelInv
  <2>2. \A b \in CPUs : Ahead(timer_jiffies[b], e) # Word \div 2
    BY DelayDecided DEF WheelInv, TimeInv
  <2> HIDE DEF e
  <2> QED BY <1>1, <2>1, <2>2, TimeModTimer DEF e
<1>2. ASSUME NEW t \in Timers, DelTimer(t) \/ DelTimerSync(t) PROVE TimeInv'
  <2>1. MovePhase'
    BY <1>2 DEF DelTimer, DelTimerSync, baseVars, TimeInv, MovePhase
  <2> QED BY <1>2, <2>1, TimeDetach DEF DelTimer, DelTimerSync, baseVars
<1>3. ASSUME NEW c \in CPUs, ModTimerArrive(c) \/ ExpireTick(c) PROVE TimeInv'
  BY <1>3, TimeModArrive, TimeExpireTick
<1>4. ASSUME NEW c \in CPUs, RunTimers(c) \/ TimerReturns(c) \/ RunDone(c)
      PROVE  TimeInv'
  <2>1. /\ UNCHANGED <<jiffies, timer_jiffies, timerVars, moving>>
        /\ \/ phase' = [phase EXCEPT ![c] = "idle"]
           \/ phase' = [phase EXCEPT ![c] = "locked"] /\ moving[c] = None
    BY <1>4 DEF RunTimers, TimerReturns, RunDone, Free
  <2>2. MovePhase'
    BY <2>1 DEF TimeInv, MovePhase, LockInv, LockTypes
  <2> QED BY <2>1, <2>2, TimePhase
<1>5. ASSUME NEW c \in CPUs, NEW t \in Timers, CallTimer(c, t) PROVE TimeInv'
  <2>1. MovePhase'
    BY <1>5 DEF CallTimer, TimeInv, MovePhase, LockInv, LockTypes
  <2> QED BY <1>5, <2>1, TimeDetach DEF CallTimer
<1>6. CASE UNCHANGED vars
  <2>1. MovePhase'
    BY <1>6 DEF vars, baseVars, TimeInv, MovePhase
  <2> QED BY <1>6, <2>1, TimePhase DEF vars, baseVars
<1> QED BY <1>1, <1>2, <1>3, <1>4, <1>5, <1>6, TimeDoTimer DEF Next

(* "->function(->data) callback at the ->expires point in the future": for *)
(* the layout of the kernel, every number of CPUs and timers, every delay  *)
(* that is told from the past and every bounded lag of the softirq, no     *)
(* timer is run before its time and none is left behind in the vectors.    *)
THEOREM OnTimeAlways ==
  ASSUME Layout, Decided
  PROVE  Spec => []OnTime
<1>1. Init => LockInv /\ WheelInv /\ TimeInv
  BY LockInit, WheelInit, TimeInit
<1>2. LockInv /\ WheelInv /\ TimeInv /\ [Next]_vars => LockInv' /\ WheelInv' /\ TimeInv'
  BY LockStep, WheelStep, TimeStep
<1>3. ASSUME LockInv, WheelInv, TimeInv PROVE OnTime
  <2> SUFFICES ASSUME NEW t \in Timers, NEW c \in CPUs
               PROVE  /\ t \in work[c] => TimeAfterEq(timer_jiffies[c] - 1, expires[t])
                      /\ base[t] = c /\ slot[t] # NoSlot
                           /\ ~TimeAfterEq(expires[t], timer_jiffies[c])
                         => slot[t] = [lv |-> 1, ix |-> Index(1, timer_jiffies[c])]
    BY DEF OnTime
  <2>1. t \in work[c] => TimeAfterEq(timer_jiffies[c] - 1, expires[t])
    BY <1>3 DEF TimeInv, WorkDue
  <2>2. ASSUME base[t] = c, slot[t] # NoSlot, ~TimeAfterEq(expires[t], timer_jiffies[c])
        PROVE  slot[t] = [lv |-> 1, ix |-> Index(1, timer_jiffies[c])]
    <3>1. Fits(timer_jiffies[c], expires[t], slot[t])
      BY <1>3, <2>2 DEF WheelInv, Placed
    <3>2. ~(Ahead(timer_jiffies[c], expires[t]) < Word \div 2)
      BY <2>2 DEF TimeAfterEq, Ahead
    <3> QED BY <3>1, <3>2 DEF Fits, Late
  <2> QED BY <2>1, <2>2
<1> QED BY <1>1, <1>2, <1>3, PTL DEF Spec
=============================================================================
