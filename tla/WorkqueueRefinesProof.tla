----------------------- MODULE WorkqueueRefinesProof -----------------------
(***************************************************************************)
(* kernel/workqueue.c implements DelayedWork, for every number of CPUs,    *)
(* works and flushers, also when handlers flush their own queue.           *)
(***************************************************************************)
EXTENDS WorkqueueRefines, WorkqueueProof, FiniteSetTheorems

AbsStep == [Abs!Next]_(Abs!dwVars)

(* The calls of the function of w that have not returned.                  *)
Runs(w) == {x \in UNION {{c} \X Called(c) : c \in CPU} : frames[x[1]][x[2]].work = w}

(* RunningOf() counts the calls under way.                                 *)
LEMMA RunsAre ==
  ASSUME NEW w
  PROVE  /\ RunningOf(w) = Cardinality(Runs(w))
         /\ \A x : x \in Runs(w) <=> \E c \in CPU : \E i \in Called(c) :
                                       x = <<c, i>> /\ frames[c][i].work = w
BY DEF RunningOf, Runs

(* They are finitely many, since run_workqueue() nests at most twice.      *)
LEMMA RunsFinite ==
  ASSUME TypeOK, NestInv, NEW w
  PROVE  IsFiniteSet(Runs(w)) /\ Cardinality(Runs(w)) \in Nat
<1>1. IsFiniteSet(CPU) /\ IsFiniteSet(1 .. 2)
  <2>1. 0 \in Int /\ 1 \in Int /\ 2 \in Int /\ NCPU - 1 \in Int
    BY WorkqueueAssumption
  <2>2. IsFiniteSet(0 .. NCPU - 1) /\ IsFiniteSet(1 .. 2)
    BY <2>1, FS_Interval
  <2> QED BY <2>2 DEF CPU
<1>2. IsFiniteSet(CPU \X (1 .. 2))
  BY <1>1, FS_Product
<1>3. Runs(w) \subseteq CPU \X (1 .. 2)
  <2> SUFFICES ASSUME NEW c \in CPU, NEW i \in Called(c) PROVE <<c, i>> \in CPU \X (1 .. 2)
    BY RunsAre
  <2>1. frames[c] \in Seq(Entry) /\ Len(frames[c]) <= 2
    BY DEF TypeOK, NestInv
  <2>2. DOMAIN frames[c] = 1 .. Len(frames[c]) /\ Len(frames[c]) \in Nat
    BY <2>1, LenProperties
  <2>3. i \in 1 .. 2
    BY <2>1, <2>2 DEF Called
  <2> QED BY <2>3
<1>4. IsFiniteSet(Runs(w))
  BY <1>2, <1>3, FS_Subset
<1> QED BY <1>4, FS_CardinalityType

(* Steps that move no work and start or finish no function.                *)
LEMMA RunsSame ==
  ASSUME \A c \in CPU : /\ Called(c)' = Called(c)
                        /\ \A i \in Called(c) : frames'[c][i] = frames[c][i]
  PROVE  \A w : RunningOf(w)' = RunningOf(w)
<1> SUFFICES ASSUME NEW w PROVE RunningOf(w)' = RunningOf(w)
  OBVIOUS
<1>1. \A x : x \in Runs(w)' <=> x \in Runs(w)
  BY DEF Runs
<1>2. Runs(w)' = Runs(w)
  BY <1>1
<1>3. RunningOf(w)' = Cardinality(Runs(w)')
  BY DEF RunningOf, Runs
<1> QED BY <1>2, <1>3, RunsAre

(* A step that moves no work and starts and ends no call is a stutter.     *)
LEMMA Invisible ==
  ASSUME \A w \in Works : WhereOf(w)' = WhereOf(w) /\ RunningOf(w)' = RunningOf(w)
  PROVE  AbsStep
BY DEF AbsStep, Abs!dwVars

(* Calls are counted by the frames, but for one not called yet.            *)
LEMMA FramesSame ==
  ASSUME UNCHANGED frames, \A c \in CPU : tpc'[c] = "taken" <=> tpc[c] = "taken"
  PROVE  \A w : RunningOf(w)' = RunningOf(w)
<1>1. \A c \in CPU : Called(c)' = Called(c)
  BY DEF Called
<1> QED BY <1>1, RunsSame

(* One work moves between its delay, the queue and rest.                   *)
Moves == {<<"idle", "queued">>, <<"idle", "delayed">>, <<"delayed", "queued">>,
          <<"delayed", "idle">>}

(* A work that alone makes one of these moves takes an abstract step.      *)
LEMMA MoveStep ==
  ASSUME NEW w \in Works, <<WhereOf(w), WhereOf(w)'>> \in Moves,
         \A v \in Works \ {w} : WhereOf(v)' = WhereOf(v),
         \A v : RunningOf(v)' = RunningOf(v)
  PROVE  AbsStep
<1>1. [v \in Works |-> WhereOf(v)]' = [[v \in Works |-> WhereOf(v)] EXCEPT ![w] = WhereOf(w)']
  OBVIOUS
<1>2. [v \in Works |-> RunningOf(v)]' = [v \in Works |-> RunningOf(v)]
  OBVIOUS
<1>3. \/ WhereOf(w) = "idle" /\ WhereOf(w)' = "queued"
      \/ WhereOf(w) = "idle" /\ WhereOf(w)' = "delayed"
      \/ WhereOf(w) = "delayed" /\ WhereOf(w)' = "queued"
      \/ WhereOf(w) = "delayed" /\ WhereOf(w)' = "idle"
  BY DEF Moves
<1>4. Abs!Schedule(w) \/ Abs!ScheduleDelayed(w) \/ Abs!Expire(w) \/ Abs!Cancel(w)
  BY <1>1, <1>2, <1>3
     DEF Abs!Schedule, Abs!ScheduleDelayed, Abs!Expire, Abs!Cancel, Abs!Move
<1> QED BY <1>4 DEF AbsStep, Abs!Next

(* A call of the function of w is added to those under way.                *)
LEMMA StartStep ==
  ASSUME TypeOK, NestInv, NEW w \in Works, NEW x, x \notin Runs(w),
         Runs(w)' = Runs(w) \cup {x}, \A v \in Works \ {w} : Runs(v)' = Runs(v),
         WhereOf(w) = "queued", WhereOf(w)' = "idle",
         \A v \in Works \ {w} : WhereOf(v)' = WhereOf(v)
  PROVE  AbsStep
<1>1. Cardinality(Runs(w)') = Cardinality(Runs(w)) + 1
  BY RunsFinite, FS_AddElement
<1>2. \A v : RunningOf(v)' = Cardinality(Runs(v)')
  BY DEF RunningOf, Runs
<1>3. RunningOf(w)' = RunningOf(w) + 1 /\ \A v \in Works \ {w} : RunningOf(v)' = RunningOf(v)
  BY <1>1, <1>2, RunsAre
<1>4. [v \in Works |-> WhereOf(v)]' = [[v \in Works |-> WhereOf(v)] EXCEPT ![w] = "idle"]
  OBVIOUS
<1>5. [v \in Works |-> RunningOf(v)]'
        = [[v \in Works |-> RunningOf(v)] EXCEPT ![w] = RunningOf(w) + 1]
  BY <1>3
<1>6. Abs!Start(w)
  BY <1>4, <1>5 DEF Abs!Start, Abs!Move
<1> QED BY <1>6 DEF AbsStep, Abs!Next

(* A call of the function of w is over.                                    *)
LEMMA FinishStep ==
  ASSUME TypeOK, NestInv, NEW w \in Works, NEW x \in Runs(w),
         Runs(w)' = Runs(w) \ {x}, \A v \in Works \ {w} : Runs(v)' = Runs(v),
         \A v \in Works : WhereOf(v)' = WhereOf(v)
  PROVE  AbsStep
<1>1. Cardinality(Runs(w)') = Cardinality(Runs(w)) - 1
  BY RunsFinite, FS_RemoveElement
<1>2. \A v : RunningOf(v)' = Cardinality(Runs(v)')
  BY DEF RunningOf, Runs
<1>3. RunningOf(w)' = RunningOf(w) - 1 /\ \A v \in Works \ {w} : RunningOf(v)' = RunningOf(v)
  BY <1>1, <1>2, RunsAre
<1>4. RunningOf(w) > 0
  <2>1. Cardinality(Runs(w)) # 0
    BY RunsFinite, FS_EmptySet
  <2> QED BY <2>1, RunsFinite, RunsAre
<1>5. [v \in Works |-> RunningOf(v)]'
        = [[v \in Works |-> RunningOf(v)] EXCEPT ![w] = RunningOf(w) - 1]
  BY <1>3
<1>6. [v \in Works |-> WhereOf(v)]' = [v \in Works |-> WhereOf(v)]
  OBVIOUS
<1>7. Abs!Finish(w)
  BY <1>4, <1>5, <1>6 DEF Abs!Finish
<1> QED BY <1>7 DEF AbsStep, Abs!Next

-----------------------------------------------------------------------------
(* The steps of the workqueue. *)

(* Only one of the timer, a cancel and the others holds a work.            *)
LEMMA HoldsTimer ==
  ASSUME HolderInv, NEW w \in Works, timer[w]
  PROVE  pending[w] /\ w \notin cancelling
<1>1. 0 \in CPU /\ 0 \in PosOf(0)
  BY ZeroType DEF PosOf, HolderInv, TypeOK
<1>2. Holds("timer", 0, 0, w)
  BY DEF Holds
<1>3. "timer" \in Place /\ "cancel" \in Place
  BY DEF Place
<1>4. pending[w]
  BY <1>1, <1>2, <1>3 DEF HolderInv, OneHolder
<1>5. ~Holds("cancel", 0, 0, w)
  BY <1>1, <1>2, <1>3 DEF HolderInv, OneHolder
<1> QED BY <1>4, <1>5 DEF Holds

(* A work that cancel_delayed_work() took back has no timer.               *)
LEMMA HoldsCancel ==
  ASSUME HolderInv, NEW w \in cancelling
  PROVE  w \in Works /\ pending[w] /\ ~timer[w]
<1>1. 0 \in CPU /\ 0 \in PosOf(0) /\ w \in Works
  BY ZeroType DEF PosOf, HolderInv, TypeOK
<1>2. Holds("cancel", 0, 0, w)
  BY DEF Holds
<1>3. "timer" \in Place /\ "cancel" \in Place
  BY DEF Place
<1>4. pending[w]
  BY <1>1, <1>2, <1>3 DEF HolderInv, OneHolder
<1>5. ~timer[w]
  BY <1>1, <1>4, HoldsTimer
<1> QED BY <1>1, <1>4, <1>5

(* A work taken off the list has no timer and is not being cancelled.      *)
LEMMA HoldsTaken ==
  ASSUME HolderInv, NEW c \in CPU, tpc[c] = "taken"
  PROVE  LET w == Top(frames[c]).work
         IN w \in Works /\ pending[w] /\ ~timer[w] /\ w \notin cancelling
<1> DEFINE w == Top(frames[c]).work
<1>1. w \in Works
  BY TakenType DEF HolderInv
<1> HIDE DEF w
<1>2. 0 \in CPU /\ 0 \in PosOf(0) /\ 0 \in PosOf(c)
  BY ZeroType DEF PosOf, HolderInv, TypeOK
<1>3. Holds("taken", c, 0, w)
  BY DEF Holds, w
<1>4. "timer" \in Place /\ "cancel" \in Place /\ "taken" \in Place
  BY DEF Place
<1>5. pending[w]
  BY <1>1, <1>2, <1>3, <1>4 DEF HolderInv, OneHolder
<1>6. ~Holds("timer", 0, 0, w) /\ ~Holds("cancel", 0, 0, w)
  BY <1>1, <1>2, <1>3, <1>4 DEF HolderInv, OneHolder
<1>7. ~timer[w] /\ w \notin cancelling
  BY <1>6 DEF Holds
<1> QED BY <1>1, <1>5, <1>7 DEF w

(* queue_work() takes the bit.                                             *)
LEMMA RefQueueWork ==
  ASSUME HolderInv, NEW c \in CPU, NEW w \in Works, QueueWork(c, w)
  PROVE  AbsStep
<1>1. ~pending[w] /\ ~timer[w] /\ w \notin cancelling
  BY HoldsTimer, HoldsCancel DEF QueueWork
<1>2. /\ pending' = [pending EXCEPT ![w] = TRUE]
      /\ UNCHANGED <<timer, cancelling, frames, tpc>>
  BY DEF QueueWork, cwqVars, thrVars
<1>3. pending'[w] /\ \A v \in Works \ {w} : pending'[v] = pending[v]
  BY <1>2 DEF HolderInv, TypeOK
<1>4. WhereOf(w) = "idle" /\ WhereOf(w)' = "queued"
  BY <1>1, <1>2, <1>3 DEF WhereOf
<1>5. \A v \in Works \ {w} : WhereOf(v)' = WhereOf(v)
  BY <1>2, <1>3 DEF WhereOf
<1>6. \A v : RunningOf(v)' = RunningOf(v)
  BY <1>2, FramesSame
<1> QED BY <1>4, <1>5, <1>6, MoveStep DEF Moves

(* queue_delayed_work() takes the bit and arms the timer.                  *)
LEMMA RefQueueDelayed ==
  ASSUME HolderInv, NEW w \in Works, QueueDelayedWork(w)
  PROVE  AbsStep
<1>1. ~pending[w]
  BY DEF QueueDelayedWork
<1>2. /\ pending' = [pending EXCEPT ![w] = TRUE] /\ timer' = [timer EXCEPT ![w] = TRUE]
      /\ UNCHANGED <<cancelling, frames, tpc>>
  BY DEF QueueDelayedWork, cwqVars, thrVars
<1>3. /\ pending'[w] /\ timer'[w]
      /\ \A v \in Works \ {w} : pending'[v] = pending[v] /\ timer'[v] = timer[v]
  BY <1>2 DEF HolderInv, TypeOK
<1>4. WhereOf(w) = "idle" /\ WhereOf(w)' = "delayed"
  BY <1>1, <1>2, <1>3 DEF WhereOf
<1>5. \A v \in Works \ {w} : WhereOf(v)' = WhereOf(v)
  BY <1>2, <1>3 DEF WhereOf
<1>6. \A v : RunningOf(v)' = RunningOf(v)
  BY <1>2, FramesSame
<1> QED BY <1>4, <1>5, <1>6, MoveStep DEF Moves

(* The delay is over when the timer is detached.                           *)
LEMMA RefTimerExpire ==
  ASSUME HolderInv, NEW c \in CPU, NEW w \in Works, TimerExpire(c, w)
  PROVE  AbsStep
<1>1. timer[w] /\ pending[w] /\ w \notin cancelling
  BY HoldsTimer DEF TimerExpire
<1>2. /\ timer' = [timer EXCEPT ![w] = FALSE]
      /\ UNCHANGED <<pending, cancelling, frames, tpc>>
  BY DEF TimerExpire, cwqVars, thrVars
<1>3. ~timer'[w] /\ \A v \in Works \ {w} : timer'[v] = timer[v]
  BY <1>2 DEF HolderInv, TypeOK
<1>4. WhereOf(w) = "delayed" /\ WhereOf(w)' = "queued"
  BY <1>1, <1>2, <1>3 DEF WhereOf
<1>5. \A v \in Works \ {w} : WhereOf(v)' = WhereOf(v)
  BY <1>2, <1>3 DEF WhereOf
<1>6. \A v : RunningOf(v)' = RunningOf(v)
  BY <1>2, FramesSame
<1> QED BY <1>4, <1>5, <1>6, MoveStep DEF Moves

(* A cancel takes the work from the timer, and gives up the bit later.     *)
LEMMA RefCancel ==
  ASSUME HolderInv, NEW w \in Works, CancelDelayedWork(w)
  PROVE  AbsStep
<1>1. timer[w] /\ pending[w]
  BY HoldsTimer DEF CancelDelayedWork
<1>2. /\ timer' = [timer EXCEPT ![w] = FALSE] /\ cancelling' = cancelling \cup {w}
      /\ UNCHANGED <<pending, frames, tpc>>
  BY DEF CancelDelayedWork, cwqVars, thrVars
<1>3. \A v \in Works \ {w} : timer'[v] = timer[v]
  BY <1>2 DEF HolderInv, TypeOK
<1>4. WhereOf(w) = "delayed" /\ WhereOf(w)' = "delayed"
  BY <1>1, <1>2 DEF WhereOf
<1>5. \A v \in Works \ {w} : WhereOf(v)' = WhereOf(v)
  BY <1>2, <1>3 DEF WhereOf
<1>6. \A v : RunningOf(v)' = RunningOf(v)
  BY <1>2, FramesSame
<1> QED BY <1>4, <1>5, <1>6, Invisible

(* clear_bit() in cancel_delayed_work() ends the delay: Cancel.            *)
LEMMA RefCancelClear ==
  ASSUME HolderInv, NEW w \in Works, CancelClear(w)
  PROVE  AbsStep
<1>1. w \in cancelling /\ pending[w]
  BY HoldsCancel DEF CancelClear
<1>2. /\ pending' = [pending EXCEPT ![w] = FALSE] /\ cancelling' = cancelling \ {w}
      /\ UNCHANGED <<timer, frames, tpc>>
  BY DEF CancelClear, cwqVars, thrVars
<1>3. ~pending'[w] /\ \A v \in Works \ {w} : pending'[v] = pending[v]
  BY <1>2 DEF HolderInv, TypeOK
<1>4. WhereOf(w) = "delayed" /\ WhereOf(w)' = "idle"
  BY <1>1, <1>2, <1>3 DEF WhereOf
<1>5. \A v \in Works \ {w} : WhereOf(v)' = WhereOf(v)
  BY <1>2, <1>3 DEF WhereOf
<1>6. \A v : RunningOf(v)' = RunningOf(v)
  BY <1>2, FramesSame
<1> QED BY <1>4, <1>5, <1>6, MoveStep DEF Moves

(* A stack without its innermost frame.                                    *)
LEMMA FrontKeeps ==
  ASSUME NEW s \in Seq(Entry), s # <<>>
  PROVE  \A i \in 1 .. Len(s) - 1 : Front(s)[i] = s[i]
<1> DEFINE n == Len(s) - 1
<1>1. Len(s) \in Nat \ {0} /\ \A i \in 1 .. Len(s) : s[i] \in Entry
  BY EmptySeq
<1>2. n \in Nat /\ \A i \in 1 .. n : s[i] \in Entry
  BY <1>1
<1> HIDE DEF n
<1>3. \A i \in 1 .. n : SubSeq(s, 1, n)[i] = s[1 + i - 1]
  BY <1>2, SubSeqProperties
<1>4. \A i \in 1 .. n : SubSeq(s, 1, n)[i] = s[i]
  BY <1>2, <1>3
<1> QED BY <1>4 DEF Front, n

(* The work that run_workqueue() takes on top of the stack s is not called *)
(* yet.                                                                    *)
LEMMA TakeCalled ==
  ASSUME TypeOK, NEW c \in CPU, NEW s \in Seq(Entry), worklist[c] # <<>>, TakeOnto(c, s)
  PROVE  /\ Called(c)' = 1 .. Len(s) /\ \A i \in 1 .. Len(s) : frames'[c][i] = s[i]
         /\ \A d \in CPU \ {c} : frames'[d] = frames[d] /\ tpc'[d] = tpc[d]
<1> DEFINE a == Append(s, Head(worklist[c]))
<1>1. Head(worklist[c]) \in Entry
  BY TailFacts DEF TypeOK
<1>2. /\ a \in Seq(Entry) /\ Len(a) = Len(s) + 1 /\ Len(s) \in Nat
      /\ \A i \in 1 .. Len(s) : a[i] = s[i]
  BY <1>1, AppendFacts, LenProperties
<1>3. DOMAIN a = 1 .. Len(s) + 1
  BY <1>2, LenProperties
<1>4. /\ frames'[c] = a /\ tpc'[c] = "taken"
      /\ \A d \in CPU \ {c} : frames'[d] = frames[d] /\ tpc'[d] = tpc[d]
  BY DEF TakeOnto, TypeOK
<1> HIDE DEF a
<1>5. (1 .. Len(s) + 1) \ {Len(s) + 1} = 1 .. Len(s)
  BY <1>2
<1>6. Called(c)' = 1 .. Len(s)
  BY <1>2, <1>3, <1>4, <1>5 DEF Called
<1> QED BY <1>2, <1>4, <1>6

(* Taking a work on top of the calls under way starts none.                *)
LEMMA RefTake ==
  ASSUME TypeOK, NEW c \in CPU, NEW s \in Seq(Entry), worklist[c] # <<>>, TakeOnto(c, s),
         Called(c) = 1 .. Len(s), \A i \in 1 .. Len(s) : frames[c][i] = s[i],
         UNCHANGED <<pending, timer, cancelling>>
  PROVE  AbsStep
<1>1. \A d \in CPU \ {c} : Called(d)' = Called(d)
  BY TakeCalled DEF Called
<1>2. \A d \in CPU : /\ Called(d)' = Called(d)
                     /\ \A i \in Called(d) : frames'[d][i] = frames[d][i]
  BY <1>1, TakeCalled
<1>3. \A v : RunningOf(v)' = RunningOf(v)
  BY <1>2, RunsSame
<1>4. \A v \in Works : WhereOf(v)' = WhereOf(v)
  BY DEF WhereOf
<1> QED BY <1>3, <1>4, Invisible

(* worker_thread() that takes the first work starts no call yet.           *)
LEMMA RefWorkerRun ==
  ASSUME TypeOK, NEW c \in CPU, WorkerRun(c)
  PROVE  AbsStep
<1>1. tpc[c] = "test" /\ worklist[c] # <<>> /\ TakeOnto(c, <<>>)
      /\ UNCHANGED <<pending, timer, cancelling>>
  BY DEF WorkerRun, workVars
<1>2. frames[c] = <<>>
  BY <1>1 DEF TypeOK
<1>3. << >> \in Seq(Entry) /\ Len(<< >>) = 0 /\ Called(c) = 1 .. 0
  BY <1>1, <1>2 DEF Called
<1>4. Called(c) = 1 .. Len(<< >>) /\ \A i \in 1 .. Len(<< >>) : frames[c][i] = << >>[i]
  BY <1>3
<1> QED BY <1>1, <1>3, <1>4, RefTake

(* flush_workqueue() of a handler starts or ends no call by itself.        *)
LEMMA RefFlushOwn ==
  ASSUME TypeOK, NestInv, NEW c \in CPU, FlushOwn(c)
  PROVE  AbsStep
<1>1. UNCHANGED <<pending, timer, cancelling>> /\ fl[c].pc = "enter"
  BY DEF FlushOwn, workVars
<1>2. CASE worklist[c] = <<>>
  <2>1. UNCHANGED <<frames, tpc>>
    BY <1>2 DEF FlushOwn
  <2> QED BY <1>1, <2>1, FramesSame, Invisible DEF WhereOf
<1>3. CASE worklist[c] # <<>>
  <2>1. TakeOnto(c, frames[c]) /\ tpc[c] = "call" /\ frames[c] \in Seq(Entry)
    BY <1>1, <1>3 DEF FlushOwn, NestInv, TypeOK
  <2>2. Called(c) = 1 .. Len(frames[c])
    BY <2>1, LenProperties DEF Called
  <2> QED BY <1>1, <1>3, <2>1, <2>2, RefTake
<1> QED BY <1>2, <1>3

(* run_workqueue() clears the bit and calls the function.                  *)
LEMMA RefCallHandler ==
  ASSUME HolderInv, NestInv, NEW c \in CPU, CallHandler(c)
  PROVE  AbsStep
<1> DEFINE w == Top(frames[c]).work
           n == Len(frames[c])
<1>1. /\ tpc[c] = "taken" /\ tpc' = [tpc EXCEPT ![c] = "call"]
      /\ pending' = [pending EXCEPT ![w] = FALSE]
      /\ UNCHANGED <<timer, cancelling, frames>>
  BY DEF CallHandler, Goto, cwqVars
<1>2. w \in Works /\ pending[w] /\ ~timer[w] /\ w \notin cancelling
  BY <1>1, HoldsTaken
<1>3. frames[c] \in Seq(Entry) /\ frames[c] # <<>> /\ n \in Nat \ {0}
      /\ DOMAIN frames[c] = 1 .. n /\ frames[c][n].work = w
  <2>1. frames[c] \in Seq(Entry) /\ frames[c] # <<>>
    BY <1>1 DEF HolderInv, TypeOK
  <2>2. n \in Nat \ {0} /\ DOMAIN frames[c] = 1 .. n
    BY <2>1, EmptySeq, LenProperties
  <2> QED BY <2>1, <2>2 DEF Top
<1> HIDE DEF w, n
<1>4. pending'[w] = FALSE /\ \A v \in Works \ {w} : pending'[v] = pending[v]
  BY <1>1, <1>2 DEF HolderInv, TypeOK
<1>5. \A v \in Works : v = w => WhereOf(v) = "queued" /\ WhereOf(v)' = "idle"
  BY <1>1, <1>2, <1>4 DEF WhereOf
<1>6. \A v \in Works \ {w} : WhereOf(v)' = WhereOf(v)
  BY <1>1, <1>4 DEF WhereOf
<1>7. Called(c) = (1 .. n) \ {n} /\ Called(c)' = 1 .. n
      /\ \A d \in CPU \ {c} : Called(d)' = Called(d)
  BY <1>1, <1>3 DEF Called, HolderInv, TypeOK, n
<1>8. \A v : Runs(v)' = IF v = w THEN Runs(v) \cup {<<c, n>>} ELSE Runs(v)
  <2> SUFFICES ASSUME NEW v
               PROVE  Runs(v)' = IF v = w THEN Runs(v) \cup {<<c, n>>} ELSE Runs(v)
    OBVIOUS
  <2>1. \A x : x \in Runs(v)' <=> \E d \in CPU : \E i \in Called(d)' :
                                    x = <<d, i>> /\ frames[d][i].work = v
    BY <1>1 DEF Runs
  <2>2. \A x : x \in Runs(v) <=> \E d \in CPU : \E i \in Called(d) :
                                   x = <<d, i>> /\ frames[d][i].work = v
    BY RunsAre
  <2>3. n \in 1 .. n
    BY <1>3
  <2>4. \A x : x \in Runs(v)' <=> x \in Runs(v) \/ (v = w /\ x = <<c, n>>)
    BY <1>3, <1>7, <2>1, <2>2, <2>3
  <2> QED BY <2>4
<1>9. <<c, n>> \notin Runs(w)
  BY <1>7, RunsAre
<1> QED BY <1>2, <1>5, <1>6, <1>8, <1>9, StartStep DEF HolderInv

(* The function returned.                                                  *)
LEMMA RefFinishWork ==
  ASSUME HolderInv, NestInv, NEW c \in CPU, FinishWork(c)
  PROVE  AbsStep
<1> DEFINE w == Top(frames[c]).work
           n == Len(frames[c])
           rest == Front(frames[c])
<1>0. TypeOK
  BY DEF HolderInv
<1>1. tpc[c] = "call" /\ UNCHANGED <<pending, timer, cancelling>>
  BY DEF FinishWork, workVars
<1>2. /\ frames[c] \in Seq(Entry) /\ frames[c] # <<>> /\ n \in Nat \ {0}
      /\ DOMAIN frames[c] = 1 .. n /\ frames[c][n].work = w /\ w \in Works
      /\ rest \in Seq(Entry) /\ Len(rest) = n - 1 /\ DOMAIN rest = 1 .. n - 1
      /\ \A i \in 1 .. n - 1 : rest[i] = frames[c][i]
  <2>1. frames[c] \in Seq(Entry) /\ frames[c] # <<>>
    BY <1>0, <1>1 DEF TypeOK
  <2>2. n \in Nat \ {0} /\ DOMAIN frames[c] = 1 .. n
    BY <2>1, EmptySeq, LenProperties
  <2>3. rest \in Seq(Entry) /\ Len(rest) = n - 1 /\ w \in Works
    BY <1>0, <1>1, <2>1, FrontFacts, TakenType
  <2>4. DOMAIN rest = 1 .. n - 1
    BY <2>3, LenProperties
  <2>5. \A i \in 1 .. n - 1 : rest[i] = frames[c][i]
    BY <2>1, FrontKeeps
  <2> QED BY <2>1, <2>2, <2>3, <2>4, <2>5 DEF Top
<1>3. /\ Called(c)' = 1 .. n - 1 /\ \A i \in 1 .. n - 1 : frames'[c][i] = frames[c][i]
      /\ \A d \in CPU \ {c} : frames'[d] = frames[d] /\ Called(d)' = Called(d)
  <2>1. CASE worklist[c] # <<>>
    <3>1. TakeOnto(c, rest)
      BY <2>1 DEF FinishWork
    <3> HIDE DEF rest
    <3>2. /\ Called(c)' = 1 .. n - 1 /\ \A i \in 1 .. n - 1 : frames'[c][i] = rest[i]
          /\ \A d \in CPU \ {c} : frames'[d] = frames[d] /\ tpc'[d] = tpc[d]
      BY <1>0, <1>2, <2>1, <3>1, TakeCalled
    <3>3. \A d \in CPU \ {c} : Called(d)' = Called(d)
      BY <3>2 DEF Called
    <3> QED BY <1>2, <3>2, <3>3
  <2>2. CASE worklist[c] = <<>>
    <3>1. frames' = [frames EXCEPT ![c] = rest]
          /\ (tpc' = [tpc EXCEPT ![c] = "rearm"] \/ UNCHANGED tpc)
      BY <2>2 DEF FinishWork
    <3> HIDE DEF rest
    <3>2. /\ frames'[c] = rest /\ tpc'[c] # "taken"
          /\ \A d \in CPU \ {c} : frames'[d] = frames[d] /\ tpc'[d] = tpc[d]
      BY <1>0, <1>1, <3>1 DEF TypeOK
    <3>3. Called(c)' = 1 .. n - 1
      BY <1>2, <3>2 DEF Called
    <3>4. \A d \in CPU \ {c} : Called(d)' = Called(d)
      BY <3>2 DEF Called
    <3> QED BY <1>2, <3>2, <3>3, <3>4
  <2> QED BY <2>1, <2>2
<1>4. Called(c) = 1 .. n
  BY <1>1, <1>2 DEF Called
<1> HIDE DEF w, n, rest
<1>5. \A v : Runs(v)' = IF v = w THEN Runs(v) \ {<<c, n>>} ELSE Runs(v)
  <2> SUFFICES ASSUME NEW v
               PROVE  Runs(v)' = IF v = w THEN Runs(v) \ {<<c, n>>} ELSE Runs(v)
    OBVIOUS
  <2>1. \A x : x \in Runs(v)' <=> \E d \in CPU : \E i \in Called(d)' :
                                    x = <<d, i>> /\ frames'[d][i].work = v
    BY DEF Runs
  <2>2. \A x : x \in Runs(v) <=> \E d \in CPU : \E i \in Called(d) :
                                   x = <<d, i>> /\ frames[d][i].work = v
    BY RunsAre
  <2>3. \A i : i \in 1 .. n <=> i \in 1 .. n - 1 \/ i = n
    BY <1>2
  <2>4. n \notin 1 .. n - 1
    BY <1>2
  <2>5. \A d \in CPU : \A i : /\ i \in Called(d)' <=> i \in Called(d) /\ <<d, i>> # <<c, n>>
                              /\ i \in Called(d)' => frames'[d][i] = frames[d][i]
    BY <1>3, <1>4, <2>3, <2>4
  <2>6. \A x : x \in Runs(v)' <=> x \in Runs(v) /\ x # <<c, n>>
    BY <2>1, <2>2, <2>5
  <2>7. <<c, n>> \in Runs(v) => v = w
    BY <1>2, <2>2
  <2> QED BY <2>6, <2>7
<1>6. <<c, n>> \in Runs(w)
  <2>1. n \in Called(c)
    BY <1>2, <1>4
  <2> QED BY <1>2, <2>1, RunsAre
<1>7. \A v \in Works : WhereOf(v)' = WhereOf(v)
  BY <1>1 DEF WhereOf
<1> QED BY <1>0, <1>2, <1>5, <1>6, <1>7, FinishStep

(* Under the invariant every step is a step of DelayedWork, or invisible.  *)
LEMMA RefStep == HolderInv /\ NestInv /\ [Next]_vars => AbsStep
<1> SUFFICES ASSUME HolderInv, NestInv, [Next]_vars PROVE AbsStep
  OBVIOUS
<1> USE DEF workVars, cwqVars, thrVars
<1>0. TypeOK
  BY DEF HolderInv
<1>1. ASSUME UNCHANGED <<pending, timer, cancelling, frames>>,
             \A c \in CPU : tpc'[c] = "taken" <=> tpc[c] = "taken"
      PROVE  AbsStep
  BY <1>1, FramesSame, Invisible DEF WhereOf
<1>2. ASSUME NEW c \in CPU, NEW w \in Works,
             QueueWork(c, w) \/ QueueWorkInsert(c, w) \/ TimerExpire(c, w)
      PROVE  AbsStep
  BY <1>1, <1>2, RefQueueWork, RefTimerExpire DEF QueueWorkInsert, InsertWork
<1>3. ASSUME NEW w \in Works,
             QueueDelayedWork(w) \/ CancelDelayedWork(w) \/ CancelClear(w)
      PROVE  AbsStep
  BY <1>3, RefQueueDelayed, RefCancel, RefCancelClear
<1>4. ASSUME NEW c \in CPU, DelayedWorkTimerFn(c) PROVE AbsStep
  BY <1>1, <1>4 DEF DelayedWorkTimerFn, InsertWork
<1>5. ASSUME NEW c \in CPU, Worker(c) PROVE AbsStep
  <2>1. CASE WorkerAddWait(c) \/ WorkerCheck(c) \/ WorkerWake(c) \/ WorkerRemoveWait(c)
             \/ WorkerRearm(c)
    <3>1. UNCHANGED <<pending, timer, cancelling, frames>>
      BY <2>1 DEF WorkerAddWait, WorkerCheck, WorkerWake, WorkerRemoveWait, WorkerRearm
    <3>2. /\ tpc[c] # "taken" /\ tpc'[c] # "taken"
          /\ \A d \in CPU \ {c} : tpc'[d] = tpc[d]
      BY <1>0, <2>1 DEF WorkerAddWait, WorkerCheck, WorkerWake, WorkerRemoveWait,
                        WorkerRearm, Goto, TypeOK
    <3> QED BY <1>1, <3>1, <3>2
  <2> QED BY <1>0, <1>5, <2>1, RefWorkerRun, RefCallHandler, RefFinishWork DEF Worker
<1>6. ASSUME NEW c \in CPU, FlushOwn(c) PROVE AbsStep
  BY <1>0, <1>6, RefFlushOwn
<1>7. ASSUME NEW t \in Task, FlushBegin(t) \/ Flush(t) PROVE AbsStep
  BY <1>1, <1>7 DEF FlushBegin, Flush, FlushSample, FlushRecheck, FlushStep
<1>8. CASE UNCHANGED vars
  BY <1>1, <1>8 DEF vars
<1> QED BY <1>2, <1>3, <1>4, <1>5, <1>6, <1>7, <1>8 DEF Next

(* kernel/workqueue.c keeps what include/linux/workqueue.h promises, for   *)
(* every number of CPUs, works and flushers: a work runs once for each     *)
(* schedule of it that took effect, a cancel that succeeds takes back a    *)
(* work that was still in its delay, and a later one changes nothing.      *)
THEOREM DelayedWorkRefinement == Spec => ImplementsDelayedWork
<1>1. Init => Abs!Init
  <2> SUFFICES ASSUME Init PROVE Abs!Init
    OBVIOUS
  <2>1. \A w \in Works : WhereOf(w) = "idle"
    BY DEF Init, WhereOf
  <2>2. \A w \in Works : RunningOf(w) = 0
    <3> SUFFICES ASSUME NEW w \in Works PROVE RunningOf(w) = 0
      OBVIOUS
    <3>1. \A c \in CPU : Called(c) = {}
      BY DEF Init, Called
    <3>2. Runs(w) = {}
      BY <3>1, RunsAre
    <3> QED BY <3>2, RunsAre, FS_EmptySet
  <2> QED BY <2>1, <2>2 DEF Abs!Init
<1>2. HolderInv /\ NestInv /\ [Next]_vars => [Abs!Next]_(Abs!dwVars)
  BY RefStep DEF AbsStep
<1> QED BY <1>1, <1>2, HolderCorrect, PTL DEF Spec, ImplementsDelayedWork, Abs!Spec
=============================================================================
