--------------------------- MODULE WorkqueueProof ---------------------------
(***************************************************************************)
(* Proofs about Workqueue, for any number of CPUs, works and flushers: a   *)
(* pending work has one holder (HolderInv), the worker misses no wake-up   *)
(* (WakeInv), and a flush waits for all it must, although the counters     *)
(* wrap (SeqInv, OwedInv).                                                 *)
(***************************************************************************)
EXTENDS Workqueue, SequenceTheorems, FiniteSetTheorems, TLAPS

(* A sequence counter stays a `long` when it is incremented.               *)
LEMMA IncType == \A n \in Long : Inc(n) \in Long
  BY WorkqueueAssumption DEF Inc, Long

(* The first insert_sequence of a queue is a `long`, CPU 0 exists.         *)
LEMMA ZeroType == 0 \in Long /\ 0 \in CPU
  BY WorkqueueAssumption DEF Long, CPU

(* Appending to a sequence keeps its type and its elements.                *)
LEMMA AppendFacts ==
  ASSUME NEW S, NEW s \in Seq(S), NEW e \in S
  PROVE  /\ Append(s, e) \in Seq(S)
         /\ Append(s, e) # <<>>
         /\ Len(Append(s, e)) = Len(s) + 1
         /\ \A i \in 1 .. Len(s) : Append(s, e)[i] = s[i]
         /\ Append(s, e)[Len(s) + 1] = e
  OBVIOUS

(* Taking the head of a list keeps the order of the rest.                  *)
LEMMA TailFacts ==
  ASSUME NEW S, NEW s \in Seq(S), s # <<>>
  PROVE  /\ Head(s) \in S /\ Head(s) = s[1]
         /\ Tail(s) \in Seq(S)
         /\ Len(Tail(s)) = Len(s) - 1
         /\ \A i \in 1 .. Len(Tail(s)) : Tail(s)[i] = s[i + 1]
  OBVIOUS

(* Popping a frame leaves a stack of frames.                               *)
LEMMA FrontFacts ==
  ASSUME NEW S, NEW s \in Seq(S), s # <<>>
  PROVE  /\ Front(s) \in Seq(S)
         /\ Top(s) \in S
         /\ Len(Front(s)) = Len(s) - 1
<1> DEFINE n == Len(s) - 1
           f == SubSeq(s, 1, n)
<1>1. Len(s) \in Nat \ {0} /\ \A i \in 1 .. Len(s) : s[i] \in S
  BY EmptySeq
<1>2. n \in Nat /\ \A i \in 1 .. n : s[i] \in S
  BY <1>1
<1>3. f \in Seq(S) /\ Len(f) = IF 1 <= n THEN n - 1 + 1 ELSE 0
  <2> HIDE DEF n
  <2> QED BY <1>2, SubSeqProperties
<1>4. Len(f) = n
  <2> HIDE DEF f, n
  <2> QED BY <1>2, <1>3
<1>5. s[Len(s)] \in S
  BY <1>1
<1> QED BY <1>3, <1>4, <1>5 DEF Front, Top

-----------------------------------------------------------------------------
(* Type correctness. *)

(* A queue entry is made of a work and a sequence number.                  *)
LEMMA InsertType ==
  ASSUME TypeOK, NEW c \in CPU, NEW w \in Works, InsertWork(c, w)
  PROVE  /\ wq_data' \in [Works -> CPU \cup {DataWq, DataNull}]
         /\ worklist' \in [CPU -> Seq(Entry)]
         /\ insert_sequence' \in [CPU -> Long]
         /\ tstate' \in [CPU -> {"RUNNING", "INTERRUPTIBLE"}]
         /\ UNCHANGED <<remove_sequence, frames, tpc, onq, fl>>
<1>1. [work |-> w, id |-> insert_sequence[c]] \in Entry
  BY DEF TypeOK, Entry
<1>2. Append(worklist[c], [work |-> w, id |-> insert_sequence[c]]) \in Seq(Entry)
  BY <1>1, AppendFacts DEF TypeOK
<1>3. Inc(insert_sequence[c]) \in Long
  BY IncType DEF TypeOK
<1> QED BY <1>2, <1>3 DEF InsertWork, TypeOK

(* Taking the first work of the list on a stack of frames.                 *)
LEMMA TakeType ==
  ASSUME TypeOK, NEW c \in CPU, NEW s \in Seq(Entry), worklist[c] # <<>>,
         TakeOnto(c, s)
  PROVE  /\ frames' \in [CPU -> Seq(Entry)]
         /\ worklist' \in [CPU -> Seq(Entry)]
         /\ tpc' \in [CPU -> ThreadPc]
         /\ \A d \in CPU : tpc'[d] \in {"taken", "call"} <=> frames'[d] # <<>>
<1>1. Head(worklist[c]) \in Entry /\ Tail(worklist[c]) \in Seq(Entry)
  BY TailFacts DEF TypeOK
<1>2. /\ Append(s, Head(worklist[c])) \in Seq(Entry)
      /\ Append(s, Head(worklist[c])) # <<>>
  BY <1>1, AppendFacts
<1> QED BY <1>1, <1>2 DEF TakeOnto, TypeOK, ThreadPc

(* A flush call is never malformed.                                        *)
LEMMA FlushTypes ==
  /\ NoFlush \in FlushCall
  /\ \A f \in FlushCall : NextCpu(f) \in FlushCall
<1>1. NoFlush \in FlushCall
  BY ZeroType DEF NoFlush, FlushCall, FlushPc
<1>2. ASSUME NEW f \in FlushCall PROVE NextCpu(f) \in FlushCall
  <2>1. f.cpu \in CPU BY DEF FlushCall
  <2>2. f.cpu # NCPU - 1 => f.cpu + 1 \in CPU
    BY <2>1, WorkqueueAssumption DEF CPU
  <2> QED BY <1>1, <2>2 DEF NextCpu, NoFlush, FlushCall, FlushPc
<1> QED BY <1>1, <1>2

(* Instance numbers are sequence numbers.                                  *)
LEMMA OutstandingType ==
  ASSUME TypeOK, NEW c \in CPU
  PROVE  Outstanding(c) \subseteq Long
<1>1. \A i \in DOMAIN worklist[c] : worklist[c][i].id \in Long
  <2>1. worklist[c] \in Seq(Entry) BY DEF TypeOK
  <2>2. \A i \in DOMAIN worklist[c] : worklist[c][i] \in Entry
    BY <2>1, LenProperties
  <2> QED BY <2>2 DEF Entry
<1>2. \A i \in DOMAIN frames[c] : frames[c][i].id \in Long
  <2>1. frames[c] \in Seq(Entry) BY DEF TypeOK
  <2>2. \A i \in DOMAIN frames[c] : frames[c][i] \in Entry
    BY <2>1, LenProperties
  <2> QED BY <2>2 DEF Entry
<1> QED BY <1>1, <1>2 DEF Outstanding

(* The start of the system is well typed.                                  *)
LEMMA TypeInit == Init => TypeOK
<1> SUFFICES ASSUME Init PROVE TypeOK
  OBVIOUS
<1>1. <<>> \in Seq(Entry)
  OBVIOUS
<1> QED BY <1>1, ZeroType, FlushTypes DEF Init, TypeOK, ThreadPc

(* Every step keeps every variable in its type.                            *)
LEMMA TypeStep == TypeOK /\ [Next]_vars => TypeOK'
<1> SUFFICES ASSUME TypeOK, [Next]_vars PROVE TypeOK'
  OBVIOUS
<1> USE DEF workVars, cwqVars, thrVars
<1>1. ASSUME NEW c \in CPU, NEW w \in Works, QueueWork(c, w) PROVE TypeOK'
  BY <1>1 DEF QueueWork, TypeOK
<1>2. ASSUME NEW c \in CPU, NEW w \in Works, QueueWorkInsert(c, w)
      PROVE  TypeOK'
  BY <1>2, InsertType DEF QueueWorkInsert, TypeOK
<1>3. ASSUME NEW c \in CPU, NEW w \in Works, TimerExpire(c, w) PROVE TypeOK'
  BY <1>3 DEF TimerExpire, TypeOK
<1>4. ASSUME NEW w \in Works, QueueDelayedWork(w) PROVE TypeOK'
  BY <1>4 DEF QueueDelayedWork, TypeOK
<1>5. ASSUME NEW w \in Works, CancelDelayedWork(w) PROVE TypeOK'
  BY <1>5 DEF CancelDelayedWork, TypeOK
<1>6. ASSUME NEW w \in Works, CancelClear(w) PROVE TypeOK'
  BY <1>6 DEF CancelClear, TypeOK
<1>7. ASSUME NEW c \in CPU, DelayedWorkTimerFn(c) PROVE TypeOK'
  <2>1. firing[c] \in Works
    BY <1>7 DEF DelayedWorkTimerFn, TypeOK
  <2> QED BY <1>7, <2>1, InsertType DEF DelayedWorkTimerFn, TypeOK
<1>8. ASSUME NEW c \in CPU, Worker(c) PROVE TypeOK'
  <2> USE DEF Goto, ThreadPc
  <2>1. CASE WorkerAddWait(c)
    BY <2>1 DEF WorkerAddWait, TypeOK
  <2>2. CASE WorkerCheck(c)
    BY <2>2 DEF WorkerCheck, TypeOK
  <2>3. CASE WorkerWake(c)
    BY <2>3 DEF WorkerWake, TypeOK
  <2>4. CASE WorkerRemoveWait(c)
    BY <2>4 DEF WorkerRemoveWait, TypeOK
  <2>5. CASE WorkerRun(c)
    BY <2>5, TakeType DEF WorkerRun, TypeOK
  <2>6. CASE WorkerRearm(c)
    BY <2>6 DEF WorkerRearm, TypeOK
  <2>7. CASE CallHandler(c)
    BY <2>7 DEF CallHandler, TypeOK
  <2>8. CASE FinishWork(c)
    <3> DEFINE rest == Front(frames[c])
               seen == WakeFlushers(c, Top(frames[c]).id)
    <3>1. rest \in Seq(Entry)
      BY <2>8, FrontFacts DEF FinishWork, TypeOK
    <3>2. seen \in [Task -> FlushCall]
      BY DEF WakeFlushers, TypeOK, FlushCall
    <3>3. c \in Task
      BY DEF Task
    <3>4. remove_sequence' \in [CPU -> Long]
      BY <2>8, IncType DEF FinishWork, TypeOK
    <3>5. CASE worklist[c] # <<>>
      <4>1. TakeOnto(c, rest) /\ fl' = seen
        BY <2>8, <3>5 DEF FinishWork
      <4> QED BY <2>8, <3>1, <3>2, <3>4, <3>5, <4>1, TakeType
              DEF FinishWork, TypeOK
    <3>6. CASE worklist[c] = <<>>
      <4>1. frames' = [frames EXCEPT ![c] = rest] /\ UNCHANGED worklist
        BY <2>8, <3>6 DEF FinishWork
      <4>2. CASE rest = <<>>
        <5>1. tpc' = [tpc EXCEPT ![c] = "rearm"] /\ fl' = seen
          BY <2>8, <3>6, <4>2 DEF FinishWork
        <5> QED BY <2>8, <3>1, <3>2, <3>4, <4>1, <4>2, <5>1
                DEF FinishWork, TypeOK
      <4>3. CASE rest # <<>>
        <5>1. fl' = [seen EXCEPT ![c] = NextCpu(seen[c])] /\ UNCHANGED tpc
          BY <2>8, <3>6, <4>3 DEF FinishWork
        <5>2. fl' \in [Task -> FlushCall]
          BY <3>2, <3>3, <5>1, FlushTypes
        <5> QED BY <2>8, <3>1, <3>4, <4>1, <4>3, <5>1, <5>2
                DEF FinishWork, TypeOK
      <4> QED BY <4>2, <4>3
    <3> QED BY <3>5, <3>6
  <2> QED BY <1>8, <2>1, <2>2, <2>3, <2>4, <2>5, <2>6, <2>7, <2>8 DEF Worker
<1>9. ASSUME NEW t \in Task, FlushBegin(t) PROVE TypeOK'
  <2>1. [NoFlush EXCEPT !.pc = "enter"] \in FlushCall
    BY ZeroType DEF NoFlush, FlushCall, FlushPc
  <2> QED BY <1>9, <2>1 DEF FlushBegin, TypeOK
<1>10. ASSUME NEW t \in Task, NEW f \in FlushCall, FlushStep(t, f)
       PROVE  TypeOK'
  <2>1. [f EXCEPT !.pc = "wait", !.asleep = TRUE] \in FlushCall
    BY DEF FlushCall, FlushPc
  <2> QED BY <1>10, <2>1, FlushTypes DEF FlushStep, TypeOK
<1>11. ASSUME NEW t \in Task, FlushSample(t) PROVE TypeOK'
  <2> DEFINE c == fl[t].cpu
             g == [fl[t] EXCEPT !.need = insert_sequence[c],
                                !.owed = Outstanding(c)]
  <2>1. c \in CPU /\ fl[t] \in FlushCall
    BY DEF TypeOK, FlushCall
  <2>2. Outstanding(c) \subseteq Long /\ insert_sequence[c] \in Long
    BY <2>1, OutstandingType DEF TypeOK
  <2>3. g \in FlushCall
    BY <2>1, <2>2 DEF FlushCall
  <2> QED BY <1>10, <1>11, <2>3 DEF FlushSample
<1>12. ASSUME NEW t \in Task, FlushRecheck(t) PROVE TypeOK'
  <2>1. fl[t] \in FlushCall
    BY DEF TypeOK
  <2> QED BY <1>10, <1>12, <2>1 DEF FlushRecheck
<1>13. ASSUME NEW c \in CPU, FlushOwn(c) PROVE TypeOK'
  <2>1. c \in Task /\ fl[c] \in FlushCall
    BY DEF TypeOK, Task
  <2>2. CASE worklist[c] = <<>>
    BY <1>13, <2>1, <2>2, FlushTypes DEF FlushOwn, TypeOK
  <2>3. CASE worklist[c] # <<>>
    <3>1. TakeOnto(c, frames[c]) /\ fl' = [fl EXCEPT ![c].pc = "nested"]
      BY <1>13, <2>3 DEF FlushOwn
    <3>2. fl' \in [Task -> FlushCall]
      BY <2>1, <3>1 DEF TypeOK, FlushCall, FlushPc
    <3>3. frames[c] \in Seq(Entry)
      BY DEF TypeOK
    <3> QED BY <1>13, <2>3, <3>1, <3>2, <3>3, TakeType DEF FlushOwn, TypeOK
  <2> QED BY <2>2, <2>3
<1>14. ASSUME UNCHANGED vars PROVE TypeOK'
  BY <1>14 DEF vars, TypeOK
<1> QED BY <1>1, <1>2, <1>3, <1>4, <1>5, <1>6, <1>7, <1>8, <1>9, <1>11, <1>12,
           <1>13, <1>14 DEF Next, Flush

(* Type correctness of the workqueue, for every number of CPUs, works and  *)
(* flushers: in particular a worker has works off its list exactly while   *)
(* it is inside run_workqueue()'s loop.                                    *)
THEOREM TypeCorrect == Spec => []TypeOK
  BY TypeInit, TypeStep, PTL DEF Spec

-----------------------------------------------------------------------------
(* A handler that flushes its own queue. *)

(* Where a handler's own flush is: it waits only below its handler, and    *)
(* run_workqueue() is nested exactly while it runs the queue by hand.      *)
NestInv == \A c \in CPU :
  /\ Len(frames[c]) <= 2
  /\ fl[c].pc = "nested" <=> Len(frames[c]) = 2
  /\ fl[c].pc \in {"enter", "wait"} => tpc[c] = "call" /\ Len(frames[c]) = 1

(* NestInv is kept where neither a flush nor a stack of frames moves, and  *)
(* a worker inside its handler stays there.                                *)
LEMMA NestFrame ==
  ASSUME TypeOK, NestInv, UNCHANGED <<frames, fl>>,
         \A c \in CPU : tpc[c] = "call" => tpc'[c] = "call"
  PROVE  NestInv'
  BY DEF NestInv

(* A step of c alone: what is left to show is the nesting of c.            *)
LEMMA NestOne ==
  ASSUME NestInv, NEW c \in CPU,
         \A d \in CPU : d # c => /\ frames'[d] = frames[d] /\ tpc'[d] = tpc[d]
                                 /\ fl'[d].pc = fl[d].pc,
         \/ Len(frames'[c]) = 0 /\ fl'[c].pc = "idle"
         \/ Len(frames'[c]) = 1 /\ fl'[c].pc = "idle"
         \/ /\ Len(frames'[c]) = 1 /\ fl'[c].pc \in {"idle", "enter"}
            /\ tpc'[c] = "call"
         \/ Len(frames'[c]) = 2 /\ fl'[c].pc = "nested"
  PROVE  NestInv'
<1> DEFINE Ok(n, pc, tp) == /\ n <= 2
                            /\ pc = "nested" <=> n = 2
                            /\ pc \in {"enter", "wait"} => tp = "call" /\ n = 1
<1>1. Ok(Len(frames'[c]), fl'[c].pc, tpc'[c])
  <2>1. \A n, pc, tp :
          \/ n = 0 /\ pc = "idle"
          \/ n = 1 /\ pc = "idle"
          \/ n = 1 /\ pc \in {"idle", "enter"} /\ tp = "call"
          \/ n = 2 /\ pc = "nested"
          => Ok(n, pc, tp)
    OBVIOUS
  <2> HIDE DEF Ok
  <2> QED BY <2>1
<1>2. \A d \in CPU : Ok(Len(frames[d]), fl[d].pc, tpc[d])
  BY DEF NestInv
<1>3. \A d \in CPU : Ok(Len(frames'[d]), fl'[d].pc, tpc'[d])
  <2> HIDE DEF Ok
  <2> QED BY <1>1, <1>2
<1> QED BY <1>3 DEF NestInv

(* A flush step of task t: it was below its handler, and stays there.      *)
LEMMA NestFlush ==
  ASSUME TypeOK, NestInv, NEW t \in Task, UNCHANGED <<frames, tpc>>,
         t \in CPU => tpc[t] = "call" /\ Len(frames[t]) = 1,
         NEW f \in FlushCall, f.pc # "nested", fl' = [fl EXCEPT ![t] = f]
  PROVE  NestInv'
<1>1. \A c \in CPU : c \in Task
  BY DEF Task
<1>2. \A c \in CPU : fl'[c] = IF c = t THEN f ELSE fl[c]
  BY <1>1 DEF TypeOK
<1> QED BY <1>2 DEF NestInv, FlushCall, FlushPc

(* Every step keeps the nesting.                                           *)
LEMMA NestStep == TypeOK /\ NestInv /\ [Next]_vars => NestInv'
<1> SUFFICES ASSUME TypeOK, NestInv, [Next]_vars PROVE NestInv'
  OBVIOUS
<1>0. TypeOK' /\ \A c \in CPU : c \in Task
  BY TypeStep DEF Task
<1> USE DEF workVars, cwqVars, thrVars
<1>1. ASSUME NEW c \in CPU, NEW w \in Works,
             QueueWork(c, w) \/ QueueWorkInsert(c, w) \/ TimerExpire(c, w)
      PROVE  NestInv'
  BY <1>1, NestFrame DEF QueueWork, QueueWorkInsert, TimerExpire, InsertWork
<1>2. ASSUME NEW w \in Works,
             QueueDelayedWork(w) \/ CancelDelayedWork(w) \/ CancelClear(w)
      PROVE  NestInv'
  BY <1>2, NestFrame DEF QueueDelayedWork, CancelDelayedWork, CancelClear
<1>3. ASSUME NEW c \in CPU, DelayedWorkTimerFn(c) PROVE NestInv'
  BY <1>3, NestFrame DEF DelayedWorkTimerFn, InsertWork
<1>4. ASSUME NEW c \in CPU, Worker(c) PROVE NestInv'
  <2> USE DEF Goto
  <2>1. CASE WorkerAddWait(c) \/ WorkerCheck(c) \/ WorkerWake(c)
             \/ WorkerRemoveWait(c) \/ WorkerRearm(c) \/ CallHandler(c)
    <3>1. UNCHANGED <<frames, fl>>
      BY <2>1 DEF WorkerAddWait, WorkerCheck, WorkerWake, WorkerRemoveWait,
                  WorkerRearm, CallHandler
    <3>2. \A d \in CPU : tpc[d] = "call" => tpc'[d] = "call"
      BY <2>1 DEF WorkerAddWait, WorkerCheck, WorkerWake, WorkerRemoveWait,
                  WorkerRearm, CallHandler, TypeOK
    <3> QED BY <3>1, <3>2, NestFrame
  <2>2. CASE WorkerRun(c)
    <3>1. fl[c].pc \notin {"enter", "wait", "nested"}
      <4>1. tpc[c] = "test" /\ frames[c] = <<>>
        BY <2>2 DEF WorkerRun, TypeOK
      <4>2. Len(frames[c]) # 2
        BY <4>1
      <4> QED BY <4>1, <4>2 DEF NestInv
    <3>2. Head(worklist[c]) \in Entry
      BY <2>2, TailFacts DEF WorkerRun, TypeOK
    <3>3. Len(Append(<<>>, Head(worklist[c]))) = 1
      BY <3>2, EmptySeq, AppendFacts
    <3>4. /\ \A d \in CPU : frames'[d] = IF d = c
                              THEN Append(<<>>, Head(worklist[c])) ELSE frames[d]
          /\ \A d \in CPU : d # c => tpc'[d] = tpc[d]
          /\ fl' = fl
      BY <2>2 DEF WorkerRun, TakeOnto, TypeOK
    <3>5. /\ Len(frames'[c]) = 1 /\ fl'[c] = fl[c]
          /\ \A d \in CPU : d # c =>
               frames'[d] = frames[d] /\ tpc'[d] = tpc[d] /\ fl'[d] = fl[d]
      BY <3>3, <3>4
    <3>6. fl'[c].pc = "idle"
      BY <1>0, <3>1, <3>5 DEF TypeOK, FlushCall, FlushPc
    <3> QED BY <3>5, <3>6, NestOne
  <2>3. CASE FinishWork(c)
    <3> DEFINE rest == Front(frames[c])
               seen == WakeFlushers(c, Top(frames[c]).id)
    <3>1. \A d \in CPU : seen[d].pc = fl[d].pc
      <4>1. \A d \in CPU : fl[d] \in FlushCall
        BY <1>0 DEF TypeOK
      <4> QED BY <1>0, <4>1 DEF WakeFlushers, FlushCall
    <3>2. /\ rest \in Seq(Entry) /\ Len(rest) = Len(frames[c]) - 1
          /\ Len(frames[c]) \in {1, 2}
      <4>1. frames[c] \in Seq(Entry) /\ frames[c] # <<>>
        BY <2>3 DEF FinishWork, TypeOK
      <4>2. Len(frames[c]) \in Nat \ {0}
        BY <4>1, EmptySeq
      <4>3. rest \in Seq(Entry) /\ Len(rest) = Len(frames[c]) - 1
        BY <4>1, FrontFacts
      <4>4. Len(frames[c]) <= 2
        BY DEF NestInv
      <4>5. Len(frames[c]) \in {1, 2}
        <5>1. \A n \in Nat \ {0} : n <= 2 => n \in {1, 2}
          OBVIOUS
        <5> QED BY <4>2, <4>4, <5>1
      <4> QED BY <4>3, <4>5
    <3>3. CASE worklist[c] # <<>>
      <4>1. TakeOnto(c, rest) /\ fl' = seen
        BY <2>3, <3>3 DEF FinishWork
      <4>2. Head(worklist[c]) \in Entry
        BY <3>3, TailFacts DEF TypeOK
      <4>3. Len(frames'[c]) = Len(frames[c])
        BY <3>2, <4>1, <4>2, AppendFacts DEF TakeOnto, TypeOK
      <4>4. \A d \in CPU : d # c => frames'[d] = frames[d] /\ tpc'[d] = tpc[d]
        BY <4>1 DEF TakeOnto, TypeOK
      <4>5. fl[c].pc \notin {"enter", "wait"}
        BY <2>3, <3>2 DEF FinishWork, NestInv
      <4> QED BY <3>1, <4>1, <4>3, <4>4, <4>5 DEF NestInv
    <3>4. CASE worklist[c] = <<>>
      <4>1. \A d \in CPU : frames'[d] = IF d = c THEN rest ELSE frames[d]
        BY <2>3, <3>4 DEF FinishWork, TypeOK
      <4>2. CASE rest = <<>>
        <5>1. tpc' = [tpc EXCEPT ![c] = "rearm"] /\ fl' = seen
          BY <2>3, <3>4, <4>2 DEF FinishWork
        <5>2. \A d \in CPU : d # c => tpc'[d] = tpc[d]
          BY <5>1 DEF TypeOK
        <5>3. Len(rest) = 0 /\ Len(frames[c]) = 1
          BY <3>2, <4>2
        <5>4. fl[c].pc = "idle"
          BY <2>3, <5>3 DEF FinishWork
        <5> QED BY <3>1, <4>1, <5>1, <5>2, <5>3, <5>4 DEF NestInv
      <4>3. CASE rest # <<>>
        <5>1. fl' = [seen EXCEPT ![c] = NextCpu(seen[c])] /\ UNCHANGED tpc
          BY <2>3, <3>4, <4>3 DEF FinishWork
        <5>2. Len(rest) = 1
          <6>1. Len(rest) \in Nat \ {0}
            BY <3>2, <4>3, EmptySeq
          <6> QED BY <3>2, <6>1
        <5>3. NextCpu(seen[c]).pc \in {"idle", "enter"}
          BY DEF NextCpu, NoFlush
        <5>4. \A d \in CPU : fl'[d] = IF d = c THEN NextCpu(seen[c]) ELSE seen[d]
          BY <1>0, <5>1 DEF WakeFlushers
        <5>5. tpc[c] = "call"
          BY <2>3 DEF FinishWork
        <5>6. Len(frames'[c]) = 1 /\ fl'[c].pc \in {"idle", "enter"}
              /\ tpc'[c] = "call"
          BY <4>1, <5>1, <5>2, <5>3, <5>4, <5>5
        <5>7. \A d \in CPU : d # c => /\ frames'[d] = frames[d] /\ tpc'[d] = tpc[d]
                                      /\ fl'[d].pc = fl[d].pc
          BY <3>1, <4>1, <5>1, <5>4
        <5> QED BY <5>6, <5>7, NestOne
      <4> QED BY <4>2, <4>3
    <3> QED BY <3>3, <3>4
  <2> QED BY <1>4, <2>1, <2>2, <2>3 DEF Worker
<1>5. ASSUME NEW t \in Task, FlushBegin(t) PROVE NestInv'
  <2> DEFINE f == [NoFlush EXCEPT !.pc = "enter"]
  <2>1. f \in FlushCall /\ f.pc # "nested"
    BY ZeroType DEF NoFlush, FlushCall, FlushPc
  <2>2. /\ fl' = [fl EXCEPT ![t] = f] /\ UNCHANGED <<frames, tpc>>
        /\ t \in CPU => tpc[t] = "call" /\ Len(frames[t]) = 1
    BY <1>5 DEF FlushBegin
  <2> HIDE DEF f
  <2> QED BY <2>1, <2>2, NestFlush
<1>6. ASSUME NEW t \in Task, Flush(t) PROVE NestInv'
  <2>1. PICK g : FlushStep(t, g) /\ g \in FlushCall
    <3>1. fl[t] \in FlushCall /\ fl[t].cpu \in CPU
      BY DEF TypeOK, FlushCall
    <3>2. CASE FlushSample(t)
      <4> DEFINE c == fl[t].cpu
                 h == [fl[t] EXCEPT !.need = insert_sequence[c],
                                    !.owed = Outstanding(c)]
      <4>1. Outstanding(c) \subseteq Long /\ insert_sequence[c] \in Long
        BY <3>1, OutstandingType DEF TypeOK
      <4>2. h \in FlushCall
        BY <3>1, <4>1 DEF FlushCall
      <4> QED BY <3>2, <4>2 DEF FlushSample
    <3>3. CASE FlushRecheck(t)
      BY <3>1, <3>3 DEF FlushRecheck
    <3> QED BY <1>6, <3>2, <3>3 DEF Flush
  <2>2. t \in CPU => tpc[t] = "call" /\ Len(frames[t]) = 1
    BY <1>6 DEF Flush, FlushSample, FlushRecheck, NestInv
  <2>3. PICK f \in FlushCall : f.pc # "nested" /\ fl' = [fl EXCEPT ![t] = f]
    <3>1. /\ [g EXCEPT !.pc = "wait", !.asleep = TRUE] \in FlushCall
          /\ [g EXCEPT !.pc = "wait", !.asleep = TRUE].pc # "nested"
      BY <2>1 DEF FlushCall, FlushPc
    <3>2. NextCpu(g) \in FlushCall /\ NextCpu(g).pc # "nested"
      <4>1. NextCpu(g).pc # "nested" BY DEF NextCpu, NoFlush
      <4> QED BY <2>1, <4>1, FlushTypes
    <3> QED BY <2>1, <3>1, <3>2 DEF FlushStep
  <2>4. UNCHANGED <<frames, tpc>>
    BY <2>1 DEF FlushStep
  <2> QED BY <2>2, <2>3, <2>4, NestFlush
<1>7. ASSUME NEW c \in CPU, FlushOwn(c) PROVE NestInv'
  <2>1. tpc[c] = "call" /\ Len(frames[c]) = 1 /\ c \in Task
    BY <1>0, <1>7 DEF FlushOwn, NestInv
  <2>2. CASE worklist[c] = <<>>
    <3>1. fl' = [fl EXCEPT ![c] = NextCpu(fl[c])] /\ UNCHANGED <<frames, tpc>>
      BY <1>7, <2>2 DEF FlushOwn
    <3>2. NextCpu(fl[c]) \in FlushCall /\ NextCpu(fl[c]).pc # "nested"
      <4>1. NextCpu(fl[c]).pc # "nested" BY DEF NextCpu, NoFlush
      <4> QED BY <2>1, <4>1, FlushTypes DEF TypeOK
    <3> QED BY <2>1, <3>1, <3>2, NestFlush
  <2>3. CASE worklist[c] # <<>>
    <3>1. TakeOnto(c, frames[c]) /\ fl' = [fl EXCEPT ![c].pc = "nested"]
      BY <1>7, <2>3 DEF FlushOwn
    <3>2. Head(worklist[c]) \in Entry /\ frames[c] \in Seq(Entry)
      BY <2>3, TailFacts DEF TypeOK
    <3>3. Len(frames'[c]) = 2
      <4>1. frames'[c] = Append(frames[c], Head(worklist[c]))
        BY <3>1 DEF TakeOnto, TypeOK
      <4>2. Len(Append(frames[c], Head(worklist[c]))) = Len(frames[c]) + 1
        BY <3>2, AppendFacts
      <4> QED BY <2>1, <4>1, <4>2
    <3>4. /\ \A d \in CPU : d # c => frames'[d] = frames[d] /\ tpc'[d] = tpc[d]
          /\ \A d \in CPU : d # c => fl'[d] = fl[d]
      BY <1>0, <3>1 DEF TakeOnto, TypeOK
    <3>5. fl'[c].pc = "nested"
      BY <2>1, <3>1 DEF TypeOK, FlushCall
    <3> QED BY <3>3, <3>4, <3>5, NestOne
  <2> QED BY <2>2, <2>3
<1>8. ASSUME UNCHANGED vars PROVE NestInv'
  BY <1>8, NestFrame DEF vars
<1> QED BY <1>1, <1>2, <1>3, <1>4, <1>5, <1>6, <1>7, <1>8 DEF Next

-----------------------------------------------------------------------------
(* The pending bit as the lock of a work. *)

(* The wq_data of every work that is held, as its holder will read it.     *)
HeldData ==
  /\ \A c \in CPU : \A i \in 1 .. Len(worklist[c]) :
       wq_data[worklist[c][i].work] = c
  /\ \A c \in CPU : tpc[c] = "taken" => wq_data[Top(frames[c]).work] = c
  /\ \A c \in CPU : firing[c] # NoWork => wq_data[firing[c]] = DataWq
  /\ \A w \in Works : timer[w] => wq_data[w] = DataWq

HolderInv == TypeOK /\ PendingHeld /\ OneHolder /\ HeldData

(* Inside run_workqueue()'s loop the innermost frame is a work.            *)
LEMMA TakenType ==
  ASSUME TypeOK, NEW c \in CPU, tpc[c] \in {"taken", "call"}
  PROVE  Top(frames[c]) \in Entry /\ Top(frames[c]).work \in Works
<1>1. frames[c] \in Seq(Entry) /\ frames[c] # <<>>
  BY DEF TypeOK
<1>2. Top(frames[c]) \in Entry
  BY <1>1, FrontFacts
<1> QED BY <1>2 DEF Entry

(* What is on a worklist is a work.                                        *)
LEMMA ListedType ==
  ASSUME TypeOK, NEW c \in CPU, NEW i \in 1 .. Len(worklist[c])
  PROVE  worklist[c][i] \in Entry /\ worklist[c][i].work \in Works
<1>1. worklist[c] \in Seq(Entry)
  BY DEF TypeOK
<1>2. worklist[c][i] \in Entry
  BY <1>1, LenProperties
<1> QED BY <1>2 DEF Entry

(* At the start no work is pending and nothing holds one.                  *)
LEMMA HolderInit == Init => HolderInv
<1> SUFFICES ASSUME Init PROVE HolderInv
  OBVIOUS
<1>1. TypeOK
  BY TypeInit
<1>2. PendingHeld
  BY DEF Init, PendingHeld
<1>3. \A c \in CPU : PosOf(c) = {0}
  BY DEF Init, PosOf
<1>4. ASSUME NEW w \in Works, NEW p \in Place, NEW c \in CPU, NEW i \in PosOf(c)
      PROVE  ~Holds(p, c, i, w)
  BY <1>3, <1>4, WorkqueueAssumption DEF Init, Holds
<1>5. OneHolder
  BY <1>4 DEF OneHolder
<1>6. HeldData
  BY DEF Init, HeldData
<1> QED BY <1>1, <1>2, <1>5, <1>6 DEF HolderInv

(* Steps that move no work keep every holder.                              *)
LEMMA HolderFrame ==
  ASSUME HolderInv, TypeOK', UNCHANGED <<workVars, worklist>>,
         \A c \in CPU : (tpc[c] = "taken" \/ tpc'[c] = "taken")
                          => tpc'[c] = tpc[c] /\ frames'[c] = frames[c]
  PROVE  HolderInv'
<1> USE DEF workVars
<1>1. \A p, c, i, w : c \in CPU => (Holds(p, c, i, w)' <=> Holds(p, c, i, w))
  BY DEF Holds
<1>2. \A c : PosOf(c)' = PosOf(c)
  BY DEF PosOf
<1>3. PendingHeld'
  BY <1>1, <1>2 DEF PendingHeld, HolderInv
<1>4. OneHolder'
  BY <1>1, <1>2 DEF OneHolder, HolderInv
<1>5. HeldData'
  BY DEF HeldData, HolderInv
<1> QED BY <1>3, <1>4, <1>5 DEF HolderInv

(* queue_work() takes a free work.                                         *)
LEMMA HolderQueueWork ==
  ASSUME HolderInv, TypeOK', NEW c \in CPU, NEW w \in Works, QueueWork(c, w)
  PROVE  HolderInv'
<1> USE DEF cwqVars, thrVars
<1>1. \A p \in Place, d \in CPU : \A i \in PosOf(d) : ~Holds(p, d, i, w)
  BY DEF QueueWork, HolderInv, OneHolder
<1>2. \A d : PosOf(d)' = PosOf(d)
  BY DEF QueueWork, PosOf
<1>3. \A p, d, i, v : Holds(p, d, i, v)' <=>
        Holds(p, d, i, v) \/ (p = "queuing" /\ i = 0 /\ d = c /\ v = w)
  BY DEF QueueWork, Holds
<1>4. \A v : v # w => pending'[v] = pending[v]
  BY DEF QueueWork, HolderInv, TypeOK
<1>5. pending'[w] /\ "queuing" \in Place /\ \A d \in CPU : 0 \in PosOf(d)
  BY DEF QueueWork, HolderInv, TypeOK, Place, PosOf
<1>6. PendingHeld'
  BY <1>2, <1>3, <1>4, <1>5 DEF HolderInv, PendingHeld
<1>7. OneHolder'
  BY <1>1, <1>2, <1>3, <1>4, <1>5 DEF HolderInv, OneHolder
<1>8. HeldData'
  BY DEF QueueWork, HolderInv, HeldData
<1> QED BY <1>6, <1>7, <1>8 DEF HolderInv

(* queue_delayed_work() takes a free work.                                 *)
LEMMA HolderQueueDelayed ==
  ASSUME HolderInv, TypeOK', NEW w \in Works, QueueDelayedWork(w)
  PROVE  HolderInv'
<1> USE DEF cwqVars, thrVars
<1>1. \A p \in Place, d \in CPU : \A i \in PosOf(d) : ~Holds(p, d, i, w)
  BY DEF QueueDelayedWork, HolderInv, OneHolder
<1>2. \A d : PosOf(d)' = PosOf(d)
  BY DEF QueueDelayedWork, PosOf
<1>3. \A p, d, i : \A v \in Works : Holds(p, d, i, v)' <=>
        Holds(p, d, i, v) \/ (p = "timer" /\ i = 0 /\ d = 0 /\ v = w)
  BY DEF QueueDelayedWork, Holds, HolderInv, TypeOK
<1>4. \A v : v # w => pending'[v] = pending[v]
  BY DEF QueueDelayedWork, HolderInv, TypeOK
<1>5. pending'[w] /\ "timer" \in Place /\ 0 \in CPU /\ \A d \in CPU : 0 \in PosOf(d)
  BY ZeroType DEF QueueDelayedWork, HolderInv, TypeOK, Place, PosOf
<1>6. PendingHeld'
  BY <1>2, <1>3, <1>4, <1>5 DEF HolderInv, PendingHeld
<1>7. OneHolder'
  BY <1>1, <1>2, <1>3, <1>4, <1>5 DEF HolderInv, OneHolder
<1>8. HeldData'
  <2>1. ASSUME NEW d \in CPU, NEW i \in 1 .. Len(worklist[d])
        PROVE  worklist[d][i].work # w
    BY <1>1, <2>1 DEF Holds, PosOf, Place, HolderInv, TypeOK
  <2>2. ASSUME NEW d \in CPU, tpc[d] = "taken" PROVE Top(frames[d]).work # w
    BY <1>1, <1>5, <2>2 DEF Holds, Place
  <2>3. \A d \in CPU : firing[d] # w
    BY <1>1, <1>5 DEF Holds, Place
  <2>4. /\ \A v \in Works : wq_data'[v] = IF v = w THEN DataWq ELSE wq_data[v]
        /\ \A v \in Works : timer'[v] => v = w \/ timer[v]
        /\ UNCHANGED <<worklist, frames, tpc, firing>>
    BY DEF QueueDelayedWork, HolderInv, TypeOK
  <2>5. ASSUME NEW d \in CPU, NEW i \in 1 .. Len(worklist[d])
        PROVE  worklist[d][i].work \in Works
    BY <2>5, ListedType DEF HolderInv
  <2>6. ASSUME NEW d \in CPU, tpc[d] = "taken"
        PROVE  Top(frames[d]).work \in Works
    BY <2>6, TakenType DEF HolderInv
  <2>7. \A d \in CPU : firing[d] # NoWork => firing[d] \in Works
    BY DEF HolderInv, TypeOK
  <2> QED BY <2>1, <2>2, <2>3, <2>4, <2>5, <2>6, <2>7 DEF HolderInv, HeldData
<1> QED BY <1>6, <1>7, <1>8 DEF HolderInv

(* A step after which w has one holder <<p, c, 0>> where it had            *)
(* <<q, d, 0>>, and the other works keep theirs.                           *)
LEMMA HolderPass ==
  ASSUME HolderInv, TypeOK', UNCHANGED <<pending, worklist>>, HeldData',
         NEW w \in Works,
         NEW p \in Place, NEW c \in CPU, NEW q \in Place, NEW d \in CPU,
         Holds(q, d, 0, w), p # q,
         \A r \in Place, e \in CPU : \A j \in PosOf(e) : \A v \in Works :
           Holds(r, e, j, v)' <=>
             \/ Holds(r, e, j, v) /\ ~(r = q /\ e = d /\ j = 0 /\ v = w)
             \/ r = p /\ e = c /\ j = 0 /\ v = w
  PROVE  HolderInv'
<1>1. \A e : PosOf(e)' = PosOf(e)
  BY DEF PosOf
<1>2. \A e \in CPU : 0 \in PosOf(e)
  BY DEF PosOf, HolderInv, TypeOK
<1>3. PendingHeld'
  BY <1>1, <1>2 DEF HolderInv, PendingHeld
<1>4. OneHolder'
  BY <1>1, <1>2 DEF HolderInv, OneHolder
<1> QED BY <1>3, <1>4 DEF HolderInv

(* The timer expires: its work passes to the timer function.               *)
LEMMA HolderTimerExpire ==
  ASSUME HolderInv, TypeOK', NEW c \in CPU, NEW w \in Works, TimerExpire(c, w)
  PROVE  HolderInv'
<1> USE DEF cwqVars, thrVars
<1>1. Holds("timer", 0, 0, w)
  BY DEF TimerExpire, Holds
<1>2. \A r \in Place, e \in CPU : \A j \in PosOf(e) : \A v \in Works :
        Holds(r, e, j, v)' <=>
          \/ Holds(r, e, j, v) /\ ~(r = "timer" /\ e = 0 /\ j = 0 /\ v = w)
          \/ r = "firing" /\ e = c /\ j = 0 /\ v = w
  BY WorkqueueAssumption DEF TimerExpire, Holds, HolderInv, TypeOK
<1>3. HeldData'
  BY DEF TimerExpire, HolderInv, HeldData, TypeOK
<1>4. UNCHANGED <<pending, worklist>>
  BY DEF TimerExpire
<1>5. "timer" \in Place /\ "firing" \in Place
  BY DEF Place
<1> QED BY <1>1, <1>2, <1>3, <1>4, <1>5, ZeroType, HolderPass

(* del_timer_sync() succeeded: the work passes to the canceller.           *)
LEMMA HolderCancel ==
  ASSUME HolderInv, TypeOK', NEW w \in Works, CancelDelayedWork(w)
  PROVE  HolderInv'
<1> USE DEF cwqVars, thrVars
<1>1. Holds("timer", 0, 0, w)
  BY DEF CancelDelayedWork, Holds
<1>2. \A r \in Place, e \in CPU : \A j \in PosOf(e) : \A v \in Works :
        Holds(r, e, j, v)' <=>
          \/ Holds(r, e, j, v) /\ ~(r = "timer" /\ e = 0 /\ j = 0 /\ v = w)
          \/ r = "cancel" /\ e = 0 /\ j = 0 /\ v = w
  BY DEF CancelDelayedWork, Holds, HolderInv, TypeOK
<1>3. HeldData'
  BY DEF CancelDelayedWork, HolderInv, HeldData, TypeOK
<1>4. UNCHANGED <<pending, worklist>>
  BY DEF CancelDelayedWork
<1>5. "timer" \in Place /\ "cancel" \in Place
  BY DEF Place
<1> QED BY <1>1, <1>2, <1>3, <1>4, <1>5, ZeroType, HolderPass

(* A step in which the only holder of w clears the pending bit.            *)
LEMMA HolderRelease ==
  ASSUME HolderInv, TypeOK', UNCHANGED worklist, HeldData',
         NEW w \in Works, NEW q \in Place, NEW d \in CPU, Holds(q, d, 0, w),
         \A v \in Works : pending'[v] <=> pending[v] /\ v # w,
         \A r \in Place, e \in CPU : \A j \in PosOf(e) : \A v \in Works :
           Holds(r, e, j, v)' <=>
             Holds(r, e, j, v) /\ ~(r = q /\ e = d /\ j = 0 /\ v = w)
  PROVE  HolderInv'
<1>1. \A e : PosOf(e)' = PosOf(e)
  BY DEF PosOf
<1>2. \A e \in CPU : 0 \in PosOf(e)
  BY DEF PosOf, HolderInv, TypeOK
<1>3. PendingHeld'
  BY <1>1, <1>2 DEF HolderInv, PendingHeld
<1>4. OneHolder'
  BY <1>1, <1>2 DEF HolderInv, OneHolder
<1> QED BY <1>3, <1>4 DEF HolderInv

(* cancel_delayed_work() clears the bit of a work nobody else holds.       *)
LEMMA HolderCancelClear ==
  ASSUME HolderInv, TypeOK', NEW w \in Works, CancelClear(w)
  PROVE  HolderInv'
<1> USE DEF cwqVars, thrVars
<1>1. Holds("cancel", 0, 0, w)
  BY DEF CancelClear, Holds
<1>2. \A r \in Place, e \in CPU : \A j \in PosOf(e) : \A v \in Works :
        Holds(r, e, j, v)' <=>
          Holds(r, e, j, v) /\ ~(r = "cancel" /\ e = 0 /\ j = 0 /\ v = w)
  BY DEF CancelClear, Holds, HolderInv, TypeOK
<1>3. HeldData'
  BY DEF CancelClear, HolderInv, HeldData, TypeOK
<1>4. UNCHANGED worklist /\ \A v \in Works : pending'[v] <=> pending[v] /\ v # w
  BY DEF CancelClear, HolderInv, TypeOK
<1>5. "cancel" \in Place
  BY DEF Place
<1> QED BY <1>1, <1>2, <1>3, <1>4, <1>5, ZeroType, HolderRelease

(* run_workqueue() clears the bit of the work it is about to run.          *)
LEMMA HolderCallHandler ==
  ASSUME HolderInv, TypeOK', NEW c \in CPU, CallHandler(c)
  PROVE  HolderInv'
<1> USE DEF cwqVars, thrVars
<1> DEFINE w == Top(frames[c]).work
<1>0. w \in Works
  BY TakenType DEF CallHandler, Goto, HolderInv
<1>1. Holds("taken", c, 0, w)
  BY DEF CallHandler, Goto, Holds
<1>2. \A r \in Place, e \in CPU : \A j \in PosOf(e) : \A v \in Works :
        Holds(r, e, j, v)' <=>
          Holds(r, e, j, v) /\ ~(r = "taken" /\ e = c /\ j = 0 /\ v = w)
  BY DEF CallHandler, Goto, Holds, HolderInv, TypeOK
<1>3. HeldData'
  BY DEF CallHandler, Goto, HolderInv, HeldData, TypeOK
<1>4. UNCHANGED worklist /\ \A v \in Works : pending'[v] <=> pending[v] /\ v # w
  BY <1>0 DEF CallHandler, HolderInv, TypeOK
<1>5. "taken" \in Place
  BY DEF Place
<1> QED BY <1>0, <1>1, <1>2, <1>3, <1>4, <1>5, HolderRelease

(* __queue_work(): w passes from <<q, d, 0>> to the end of the list of c.   *)
LEMMA HolderInsert ==
  ASSUME HolderInv, TypeOK', NEW c \in CPU, NEW w \in Works, InsertWork(c, w),
         NEW q \in {"queuing", "firing"}, NEW d \in CPU, Holds(q, d, 0, w),
         UNCHANGED <<pending, timer, cancelling>>,
         \A e \in CPU, v \in Works :
           /\ <<v, e>> \in queuing' <=>
                <<v, e>> \in queuing /\ ~(q = "queuing" /\ e = d /\ v = w)
           /\ firing'[e] = v <=>
                firing[e] = v /\ ~(q = "firing" /\ e = d /\ v = w)
  PROVE  HolderInv'
<1>0. PICK n \in Nat : n = Len(worklist[c]) + 1
  BY DEF HolderInv, TypeOK
<1> DEFINE e0 == [work |-> w, id |-> insert_sequence[c]]
<1>1. /\ Len(worklist'[c]) = n /\ worklist'[c][n] = e0
      /\ \A i \in 1 .. Len(worklist[c]) : worklist'[c][i] = worklist[c][i]
      /\ \A e \in CPU : e # c => worklist'[e] = worklist[e]
  <2>1. worklist[c] \in Seq(Entry) /\ e0 \in Entry
    BY DEF HolderInv, TypeOK, Entry
  <2>2. worklist'[c] = Append(worklist[c], e0)
    BY DEF InsertWork, HolderInv, TypeOK
  <2>3. \A e \in CPU : e # c => worklist'[e] = worklist[e]
    BY DEF InsertWork, HolderInv, TypeOK
  <2> QED BY <1>0, <2>1, <2>2, <2>3, AppendFacts
<1>2. \A e \in CPU : Len(worklist[e]) \in Nat
  BY DEF HolderInv, TypeOK
<1>3. /\ \A e \in CPU : e # c => PosOf(e)' = PosOf(e)
      /\ PosOf(c)' = PosOf(c) \cup {n} /\ n \notin PosOf(c)
      /\ n # 0 /\ \A e \in CPU : 0 \in PosOf(e)
  BY <1>0, <1>1, <1>2 DEF PosOf
<1>4. ASSUME NEW r \in Place, NEW e \in CPU, NEW j \in PosOf(e),
             NEW v \in Works
      PROVE  Holds(r, e, j, v)' <=>
               Holds(r, e, j, v) /\ ~(r = q /\ e = d /\ j = 0 /\ v = w)
  <2>1. worklist'[e][j] = worklist[e][j] \/ j = 0
    BY <1>1, <1>2 DEF PosOf
  <2>2. UNCHANGED <<tpc, frames, timer, cancelling>>
    BY DEF InsertWork
  <2> QED BY <2>1, <2>2 DEF Holds
<1>5. \A r \in Place, v \in Works : Holds(r, c, n, v)' <=> r = "list" /\ v = w
  BY <1>1, <1>3 DEF Holds
<1>6. "list" \in Place /\ q \in Place /\ q # "list"
  BY DEF Place
<1>10. /\ pending[w]
       /\ \A r \in Place, e \in CPU : \A j \in PosOf(e) :
            Holds(r, e, j, w) => r = q /\ e = d /\ j = 0
  <2>1. \A p \in Place, f \in CPU : \A i \in PosOf(f) : Holds(p, f, i, w) =>
          /\ pending[w]
          /\ \A r \in Place, e \in CPU : \A j \in PosOf(e) :
               Holds(r, e, j, w) => r = p /\ e = f /\ j = i
    BY DEF HolderInv, OneHolder
  <2>2. 0 \in PosOf(d)
    BY <1>3
  <2> QED BY <1>6, <2>1, <2>2
<1>7. PendingHeld'
  <2> SUFFICES ASSUME NEW v \in Works, pending[v]
               PROVE  \E r \in Place, e \in CPU : \E j \in PosOf(e)' :
                        Holds(r, e, j, v)'
    BY DEF PendingHeld
  <2>1. CASE v = w
    BY <1>3, <1>5, <1>6, <2>1
  <2>2. CASE v # w
    <3>1. PICK r \in Place, e \in CPU : \E j \in PosOf(e) : Holds(r, e, j, v)
      BY DEF HolderInv, PendingHeld
    <3>2. PICK j \in PosOf(e) : Holds(r, e, j, v)
      BY <3>1
    <3> QED BY <1>3, <1>4, <2>2, <3>2
  <2> QED BY <2>1, <2>2
<1>8. OneHolder'
  <2>1. \A r \in Place, e \in CPU : \A j \in PosOf(e) : ~Holds(r, e, j, w)'
    BY <1>4, <1>10
  <2>2. ASSUME NEW v \in Works, NEW r \in Place, NEW e \in CPU,
               NEW j \in PosOf(e)', Holds(r, e, j, v)'
        PROVE  \/ v = w /\ r = "list" /\ e = c /\ j = n
               \/ v # w /\ j \in PosOf(e) /\ Holds(r, e, j, v)
    <3>1. CASE j \in PosOf(e)
      BY <1>4, <2>1, <2>2, <3>1
    <3>2. CASE j \notin PosOf(e)
      BY <1>3, <1>5, <2>2, <3>2
    <3> QED BY <3>1, <3>2
  <2> SUFFICES ASSUME NEW v \in Works, NEW r \in Place, NEW e \in CPU,
                      NEW j \in PosOf(e)', Holds(r, e, j, v)'
               PROVE  /\ pending[v]
                      /\ \A s \in Place, f \in CPU : \A k \in PosOf(f)' :
                           Holds(s, f, k, v)' => s = r /\ f = e /\ k = j
    BY DEF OneHolder
  <2>3. CASE v = w
    BY <1>10, <2>2, <2>3
  <2>4. CASE v # w
    <3>1. j \in PosOf(e) /\ Holds(r, e, j, v)
      BY <2>2, <2>4
    <3> QED BY <2>2, <2>4, <3>1 DEF HolderInv, OneHolder
  <2> QED BY <2>3, <2>4
<1>9. HeldData'
  <2>0. {"list", "taken", "timer", "firing"} \subseteq Place
    BY DEF Place
  <2>1. \A e \in CPU : \A j \in PosOf(e) : j # 0 => worklist[e][j].work # w
    BY <1>10, <2>0 DEF Holds
  <2>2. \A e \in CPU : tpc[e] = "taken" => Top(frames[e]).work # w
    BY <1>10, <1>3, <2>0 DEF Holds
  <2>3. ~timer[w]
    BY <1>10, <1>3, <2>0, ZeroType DEF Holds
  <2>4. \A e \in CPU : firing'[e] # w
    BY <1>10, <1>3, <2>0 DEF Holds
  <2>5. /\ \A v \in Works : wq_data'[v] = IF v = w THEN c ELSE wq_data[v]
        /\ UNCHANGED <<tpc, frames, timer>>
    BY DEF InsertWork, HolderInv, TypeOK
  <2>6. ASSUME NEW e \in CPU, NEW j \in 1 .. Len(worklist'[e])
        PROVE  wq_data'[worklist'[e][j].work] = e
    <3>1. CASE e = c /\ j = n
      BY <1>1, <2>5, <3>1
    <3>2. CASE ~(e = c /\ j = n)
      <4>1. j \in 1 .. Len(worklist[e]) /\ worklist'[e][j] = worklist[e][j]
        BY <1>0, <1>1, <1>2, <2>6, <3>2
      <4>2. worklist[e][j].work \in Works /\ worklist[e][j].work # w
        BY <1>2, <2>1, <4>1, ListedType DEF HolderInv, PosOf
      <4> QED BY <2>5, <4>1, <4>2 DEF HolderInv, HeldData
    <3> QED BY <3>1, <3>2
  <2>7. ASSUME NEW e \in CPU, tpc'[e] = "taken"
        PROVE  wq_data'[Top(frames'[e]).work] = e
    <3>1. Top(frames[e]).work \in Works
      BY <2>5, <2>7, TakenType DEF HolderInv
    <3> QED BY <2>2, <2>5, <2>7, <3>1 DEF HolderInv, HeldData
  <2>8. ASSUME NEW e \in CPU, firing'[e] # NoWork
        PROVE  wq_data'[firing'[e]] = DataWq
    <3>1. firing'[e] \in Works
      BY <2>8 DEF TypeOK
    <3>2. firing[e] = firing'[e]
      BY <3>1
    <3> QED BY <2>4, <2>5, <2>8, <3>1, <3>2 DEF HolderInv, HeldData
  <2>9. \A v \in Works : timer'[v] => wq_data'[v] = DataWq
    BY <2>3, <2>5 DEF HolderInv, HeldData
  <2>10. \A e \in CPU : Top(frames'[e]) = Top(frames[e])'
    BY DEF Top
  <2> QED BY <2>6, <2>7, <2>8, <2>9, <2>10 DEF HeldData
<1> QED BY <1>7, <1>8, <1>9 DEF HolderInv

(* run_workqueue() takes the first work: it passes from position 1 of the  *)
(* list of c to the stack of c, and the rest of that list moves up.        *)
LEMMA HolderTake ==
  ASSUME HolderInv, TypeOK', UNCHANGED workVars, NEW c \in CPU,
         NEW s \in Seq(Entry), worklist[c] # <<>>, tpc[c] # "taken",
         TakeOnto(c, s)
  PROVE  HolderInv'
<1> USE DEF workVars
<1>0. PICK w \in Works : w = worklist[c][1].work
  <2>1. 1 \in 1 .. Len(worklist[c])
    BY EmptySeq DEF HolderInv, TypeOK
  <2> QED BY <2>1, ListedType DEF HolderInv
<1>1. /\ Len(worklist'[c]) = Len(worklist[c]) - 1
      /\ \A i \in 1 .. Len(worklist'[c]) : worklist'[c][i] = worklist[c][i + 1]
      /\ \A e \in CPU : e # c => worklist'[e] = worklist[e]
      /\ Len(worklist[c]) # 0
  <2>1. worklist[c] \in Seq(Entry)
    BY DEF HolderInv, TypeOK
  <2>2. worklist'[c] = Tail(worklist[c])
    BY DEF TakeOnto, HolderInv, TypeOK
  <2>3. \A e \in CPU : e # c => worklist'[e] = worklist[e]
    BY DEF TakeOnto, HolderInv, TypeOK
  <2> QED BY <2>1, <2>2, <2>3, TailFacts, EmptySeq
<1>2. \A e \in CPU : Len(worklist[e]) \in Nat
  BY DEF HolderInv, TypeOK
<1>3. /\ tpc'[c] = "taken" /\ Top(frames'[c]).work = w
      /\ \A e \in CPU : e # c => tpc'[e] = tpc[e] /\ frames'[e] = frames[e]
  <2>1. worklist[c] \in Seq(Entry)
    BY DEF HolderInv, TypeOK
  <2>2. Head(worklist[c]) \in Entry /\ Head(worklist[c]).work = w
    BY <1>0, <2>1, TailFacts
  <2>3. frames'[c] = Append(s, Head(worklist[c]))
    BY DEF TakeOnto, HolderInv, TypeOK
  <2>4. Top(frames'[c]) = Head(worklist[c])
    BY <2>2, <2>3, AppendFacts DEF Top
  <2>5. /\ tpc'[c] = "taken"
        /\ \A e \in CPU : e # c => tpc'[e] = tpc[e] /\ frames'[e] = frames[e]
    BY DEF TakeOnto, HolderInv, TypeOK
  <2> QED BY <2>2, <2>4, <2>5
<1>4. /\ \A e \in CPU : e # c => PosOf(e)' = PosOf(e)
      /\ \A j \in PosOf(c)' : j \in PosOf(c) /\ j + 1 \in PosOf(c) /\ j \in Nat
      /\ \A j \in PosOf(c) : j \in Nat /\ (j # 0 => j - 1 \in PosOf(c)')
      /\ \A e \in CPU : 0 \in PosOf(e) /\ 0 \in PosOf(e)'
      /\ 1 \in PosOf(c)
  BY <1>1, <1>2 DEF PosOf
<1>5. Holds("list", c, 1, w) /\ "list" \in Place /\ "taken" \in Place
  BY <1>0 DEF Holds, Place
<1>6. /\ pending[w]
      /\ \A r \in Place, e \in CPU : \A j \in PosOf(e) :
           Holds(r, e, j, w) => r = "list" /\ e = c /\ j = 1
  <2>1. \A p \in Place, f \in CPU : \A i \in PosOf(f) : Holds(p, f, i, w) =>
          /\ pending[w]
          /\ \A r \in Place, e \in CPU : \A j \in PosOf(e) :
               Holds(r, e, j, w) => r = p /\ e = f /\ j = i
    BY DEF HolderInv, OneHolder
  <2> QED BY <1>4, <1>5, <2>1
\* What holds a work after the step, in terms of what held it before.
<1>7. ASSUME NEW v \in Works, NEW r \in Place, NEW e \in CPU,
             NEW j \in PosOf(e)', Holds(r, e, j, v)'
      PROVE  \/ v = w /\ r = "taken" /\ e = c /\ j = 0
             \/ r = "list" /\ e = c /\ j # 0 /\ Holds(r, e, j + 1, v)
             \/ (r # "list" \/ e # c) /\ j \in PosOf(e) /\ Holds(r, e, j, v)
  <2>1. CASE r = "list" /\ e = c
    <3>1. j # 0 /\ worklist'[c][j].work = v
      BY <1>7, <2>1 DEF Holds
    <3>2. j \in 1 .. Len(worklist'[c])
      BY <1>7, <2>1, <3>1 DEF PosOf
    <3>3. worklist[c][j + 1].work = v /\ j + 1 # 0
      BY <1>1, <3>1, <3>2
    <3> QED BY <2>1, <3>1, <3>3 DEF Holds
  <2>2. CASE r = "list" /\ e # c
    BY <1>1, <1>4, <1>7, <2>2 DEF Holds
  <2>3. CASE r # "list"
    <3>1. j = 0
      BY <1>7, <2>3 DEF Holds
    <3>2. CASE r = "taken" /\ e = c
      <4>1. v = Top(frames[c])'.work
        BY <1>7, <3>2 DEF Holds
      <4>2. Top(frames[c])' = Top(frames'[c])
        BY DEF Top
      <4> QED BY <1>3, <3>1, <3>2, <4>1, <4>2
    <3>3. CASE r = "taken" /\ e # c
      BY <1>3, <1>4, <1>7, <3>1, <3>3 DEF Holds, Top
    <3>4. CASE r # "taken"
      BY <1>4, <1>7, <2>3, <3>1, <3>4 DEF Holds
    <3> QED BY <3>2, <3>3, <3>4
  <2> QED BY <2>1, <2>2, <2>3
<1>8. PendingHeld'
  <2> SUFFICES ASSUME NEW v \in Works, pending[v]
               PROVE  \E r \in Place, e \in CPU : \E j \in PosOf(e)' :
                        Holds(r, e, j, v)'
    BY DEF PendingHeld
  <2>1. CASE v = w
    <3>1. Holds("taken", c, 0, w)'
      BY <1>3 DEF Holds, Top
    <3> QED BY <1>4, <1>5, <2>1, <3>1
  <2>2. CASE v # w
    <3>1. PICK r \in Place, e \in CPU : \E j \in PosOf(e) : Holds(r, e, j, v)
      BY DEF HolderInv, PendingHeld
    <3>2. PICK j \in PosOf(e) : Holds(r, e, j, v)
      BY <3>1
    <3>3. CASE r = "list" /\ e = c
      <4>1. j # 0 /\ worklist[c][j].work = v
        BY <3>2, <3>3 DEF Holds
      <4>2. j # 1
        BY <1>0, <2>2, <4>1
      <4>3. j \in 2 .. Len(worklist[c])
        BY <1>2, <3>3, <4>1, <4>2 DEF PosOf
      <4>4. j - 1 \in 1 .. Len(worklist'[c]) /\ (j - 1) + 1 = j
        BY <1>1, <1>2, <4>3
      <4>5. worklist'[c][j - 1] = worklist[c][j]
        BY <1>1, <4>4
      <4>6. Holds(r, c, j - 1, v)'
        BY <3>3, <4>1, <4>4, <4>5 DEF Holds
      <4>7. j - 1 \in PosOf(c)'
        BY <1>4, <3>3, <4>1
      <4> QED BY <3>3, <4>6, <4>7
    <3>4. CASE r = "list" /\ e # c
      BY <1>1, <1>4, <3>2, <3>4 DEF Holds
    <3>5. CASE r = "taken"
      BY <1>3, <1>4, <3>2, <3>5 DEF Holds, Top
    <3>6. CASE r \notin {"list", "taken"}
      BY <1>4, <3>2, <3>6 DEF Holds
    <3> QED BY <3>3, <3>4, <3>5, <3>6
  <2> QED BY <2>1, <2>2
<1>9. OneHolder'
  <2> SUFFICES ASSUME NEW v \in Works, NEW r \in Place, NEW e \in CPU,
                      NEW j \in PosOf(e)', Holds(r, e, j, v)'
               PROVE  /\ pending[v]
                      /\ \A p \in Place, f \in CPU : \A k \in PosOf(f)' :
                           Holds(p, f, k, v)' => p = r /\ f = e /\ k = j
    BY DEF OneHolder
  <2>0. ASSUME NEW p \in Place, NEW f \in CPU, NEW k \in PosOf(f)',
               Holds(p, f, k, w)'
        PROVE  p = "taken" /\ f = c /\ k = 0
    <3>1. CASE p = "list" /\ f = c /\ k # 0 /\ Holds(p, f, k + 1, w)
      <4>1. k + 1 \in PosOf(f)
        BY <1>4, <3>1
      <4>2. k + 1 = 1
        BY <1>6, <3>1, <4>1
      <4> QED BY <1>4, <3>1, <4>2
    <3>2. CASE (p # "list" \/ f # c) /\ k \in PosOf(f) /\ Holds(p, f, k, w)
      BY <1>6, <3>2
    <3> QED BY <1>7, <2>0, <3>1, <3>2
  <2>1. CASE v = w
    BY <1>6, <2>0, <2>1
  <2>2. CASE v # w
    <3> DEFINE Old(p, f, k, o) == IF p = "list" /\ f = c THEN o = k + 1 ELSE o = k
    <3>1. ASSUME NEW p \in Place, NEW f \in CPU, NEW k \in PosOf(f)',
                 Holds(p, f, k, v)'
          PROVE  \E o \in PosOf(f) : Old(p, f, k, o) /\ Holds(p, f, o, v)
      BY <1>4, <1>7, <2>2, <3>1
    <3>2. PICK o \in PosOf(e) : Old(r, e, j, o) /\ Holds(r, e, o, v)
      BY <3>1
    <3>3. ASSUME NEW p \in Place, NEW f \in CPU, NEW k \in PosOf(f)',
                 Holds(p, f, k, v)'
          PROVE  p = r /\ f = e /\ k = j
      <4>1. PICK o2 \in PosOf(f) : Old(p, f, k, o2) /\ Holds(p, f, o2, v)
        BY <3>1, <3>3
      <4>2. p = r /\ f = e /\ o2 = o
        BY <3>2, <4>1 DEF HolderInv, OneHolder
      <4>3. p = "list" /\ f = c => j + 1 = k + 1 /\ j \in Nat /\ k \in Nat
        BY <1>4, <3>2, <4>1, <4>2
      <4> QED BY <3>2, <4>1, <4>2, <4>3
    <3>4. pending[v]
      BY <3>2 DEF HolderInv, OneHolder
    <3> QED BY <3>3, <3>4
  <2> QED BY <2>1, <2>2
<1>10. HeldData'
  <2>1. ASSUME NEW e \in CPU, NEW i \in 1 .. Len(worklist'[e])
        PROVE  wq_data'[worklist'[e][i].work] = e
    <3>1. CASE e = c
      <4>1. i + 1 \in 1 .. Len(worklist[c]) /\ worklist'[c][i] = worklist[c][i + 1]
        BY <1>1, <1>2, <2>1, <3>1
      <4> QED BY <3>1, <4>1 DEF HolderInv, HeldData
    <3>2. CASE e # c
      BY <1>1, <2>1, <3>2 DEF HolderInv, HeldData
    <3> QED BY <3>1, <3>2
  <2>2. ASSUME NEW e \in CPU, tpc'[e] = "taken"
        PROVE  wq_data'[Top(frames'[e]).work] = e
    <3>1. 1 \in 1 .. Len(worklist[c])
      BY <1>1, <1>2
    <3> QED BY <1>0, <1>3, <2>2, <3>1 DEF HolderInv, HeldData
  <2>3. \A e \in CPU : Top(frames'[e]) = Top(frames[e])'
    BY DEF Top
  <2> QED BY <2>1, <2>2, <2>3 DEF HolderInv, HeldData
<1> QED BY <1>8, <1>9, <1>10 DEF HolderInv

(* Every step keeps the holders and what they will read.                   *)
LEMMA HolderStep == HolderInv /\ NestInv /\ [Next]_vars => HolderInv'
<1> SUFFICES ASSUME HolderInv, NestInv, [Next]_vars PROVE HolderInv'
  OBVIOUS
<1>0. TypeOK /\ TypeOK'
  BY TypeStep DEF HolderInv
<1> USE DEF workVars, cwqVars, thrVars
<1>1. ASSUME NEW c \in CPU, NEW w \in Works, QueueWork(c, w) PROVE HolderInv'
  BY <1>0, <1>1, HolderQueueWork
<1>2. ASSUME NEW c \in CPU, NEW w \in Works, QueueWorkInsert(c, w)
      PROVE  HolderInv'
  <2>1. Holds("queuing", c, 0, w)
    BY <1>2 DEF QueueWorkInsert, Holds
  <2>2. \A e \in CPU, v \in Works :
          /\ <<v, e>> \in queuing' <=>
               <<v, e>> \in queuing /\ ~("queuing" = "queuing" /\ e = c /\ v = w)
          /\ firing'[e] = v <=>
               firing[e] = v /\ ~("queuing" = "firing" /\ e = c /\ v = w)
    BY <1>2 DEF QueueWorkInsert
  <2>3. InsertWork(c, w) /\ UNCHANGED <<pending, timer, cancelling>>
    BY <1>2 DEF QueueWorkInsert
  <2> QED BY <1>0, <2>1, <2>2, <2>3, HolderInsert
<1>3. ASSUME NEW c \in CPU, NEW w \in Works, TimerExpire(c, w) PROVE HolderInv'
  BY <1>0, <1>3, HolderTimerExpire
<1>4. ASSUME NEW w \in Works, QueueDelayedWork(w) PROVE HolderInv'
  BY <1>0, <1>4, HolderQueueDelayed
<1>5. ASSUME NEW w \in Works, CancelDelayedWork(w) PROVE HolderInv'
  BY <1>0, <1>5, HolderCancel
<1>6. ASSUME NEW w \in Works, CancelClear(w) PROVE HolderInv'
  BY <1>0, <1>6, HolderCancelClear
<1>7. ASSUME NEW c \in CPU, DelayedWorkTimerFn(c) PROVE HolderInv'
  <2>0. PICK w \in Works : w = firing[c]
    BY <1>0, <1>7 DEF DelayedWorkTimerFn, TypeOK
  <2>1. Holds("firing", c, 0, w)
    BY <2>0 DEF Holds
  <2>2. \A e \in CPU, v \in Works :
          /\ <<v, e>> \in queuing' <=>
               <<v, e>> \in queuing /\ ~("firing" = "queuing" /\ e = c /\ v = w)
          /\ firing'[e] = v <=>
               firing[e] = v /\ ~("firing" = "firing" /\ e = c /\ v = w)
    BY <1>0, <1>7, <2>0, WorkqueueAssumption DEF DelayedWorkTimerFn, TypeOK
  <2>3. InsertWork(c, w) /\ UNCHANGED <<pending, timer, cancelling>>
    BY <1>7, <2>0 DEF DelayedWorkTimerFn
  <2> QED BY <1>0, <2>1, <2>2, <2>3, HolderInsert
<1>8. ASSUME NEW c \in CPU, Worker(c) PROVE HolderInv'
  <2> USE DEF Goto
  <2>1. CASE WorkerAddWait(c)
    BY <1>0, <2>1, HolderFrame DEF WorkerAddWait, TypeOK
  <2>2. CASE WorkerCheck(c)
    BY <1>0, <2>2, HolderFrame DEF WorkerCheck, TypeOK
  <2>3. CASE WorkerWake(c)
    BY <1>0, <2>3, HolderFrame DEF WorkerWake, TypeOK
  <2>4. CASE WorkerRemoveWait(c)
    BY <1>0, <2>4, HolderFrame DEF WorkerRemoveWait, TypeOK
  <2>5. CASE WorkerRun(c)
    <3>1. <<>> \in Seq(Entry)
      OBVIOUS
    <3> QED BY <1>0, <2>5, <3>1, HolderTake DEF WorkerRun
  <2>6. CASE WorkerRearm(c)
    BY <1>0, <2>6, HolderFrame DEF WorkerRearm, TypeOK
  <2>7. CASE CallHandler(c)
    BY <1>0, <2>7, HolderCallHandler
  <2>8. CASE FinishWork(c)
    <3>1. CASE worklist[c] # <<>>
      <4>1. Front(frames[c]) \in Seq(Entry)
        BY <1>0, <2>8, FrontFacts DEF FinishWork, TypeOK
      <4>2. TakeOnto(c, Front(frames[c])) /\ tpc[c] = "call" /\ UNCHANGED workVars
        BY <2>8, <3>1 DEF FinishWork
      <4> QED BY <1>0, <3>1, <4>1, <4>2, HolderTake
    <3>2. CASE worklist[c] = <<>>
      <4>1. /\ UNCHANGED <<workVars, worklist>> /\ tpc[c] = "call"
            /\ tpc' = tpc \/ tpc' = [tpc EXCEPT ![c] = "rearm"]
            /\ frames' = [frames EXCEPT ![c] = Front(frames[c])]
        BY <2>8, <3>2 DEF FinishWork
      <4>2. \A d \in CPU : (tpc[d] = "taken" \/ tpc'[d] = "taken")
                             => tpc'[d] = tpc[d] /\ frames'[d] = frames[d]
        BY <1>0, <4>1 DEF TypeOK
      <4> QED BY <1>0, <4>1, <4>2, HolderFrame
    <3> QED BY <3>1, <3>2
  <2> QED BY <1>8, <2>1, <2>2, <2>3, <2>4, <2>5, <2>6, <2>7, <2>8 DEF Worker
<1>9. ASSUME NEW t \in Task, FlushBegin(t) \/ Flush(t) PROVE HolderInv'
  <2>1. UNCHANGED <<workVars, cwqVars, thrVars>>
    BY <1>9 DEF FlushBegin, Flush, FlushSample, FlushRecheck, FlushStep
  <2> QED BY <1>0, <2>1, HolderFrame
<1>10. ASSUME NEW c \in CPU, FlushOwn(c) PROVE HolderInv'
  <2>1. CASE worklist[c] = <<>>
    BY <1>0, <1>10, <2>1, HolderFrame DEF FlushOwn
  <2>2. CASE worklist[c] # <<>>
    <3>1. TakeOnto(c, frames[c]) /\ UNCHANGED workVars
      BY <1>10, <2>2 DEF FlushOwn
    <3>2. frames[c] \in Seq(Entry)
      BY <1>0 DEF TypeOK
    <3>3. tpc[c] # "taken"
      BY <1>10 DEF FlushOwn, NestInv
    <3> QED BY <1>0, <2>2, <3>1, <3>2, <3>3, HolderTake
  <2> QED BY <2>1, <2>2
<1>11. ASSUME UNCHANGED vars PROVE HolderInv'
  BY <1>0, <1>11, HolderFrame DEF vars
<1> QED BY <1>1, <1>2, <1>3, <1>4, <1>5, <1>6, <1>7, <1>8, <1>9, <1>10, <1>11
        DEF Next

(* The inductive invariant: the holders, and the nesting of the flushes.   *)
THEOREM HolderCorrect == Spec => [](HolderInv /\ NestInv)
<1>1. Init => HolderInv /\ NestInv
  BY HolderInit DEF Init, NestInv, NoFlush, Task
<1>2. HolderInv /\ NestInv /\ [Next]_vars => HolderInv' /\ NestInv'
  BY HolderStep, NestStep DEF HolderInv
<1> QED BY <1>1, <1>2, PTL DEF Spec

(* The pending bit is an exact lock on the work_struct, for every number   *)
(* of CPUs and works: a work has at most one holder, and then the bit is   *)
(* set, so the BUG_ONs of queue_work() and queue_delayed_work() cannot     *)
(* fire and no work is ever linked into two lists.                         *)
THEOREM OneHolderAlways == Spec => []OneHolder
  BY HolderCorrect, PTL DEF HolderInv

(* No pending bit is orphaned: whoever holds the work will clear it.       *)
THEOREM PendingHeldAlways == Spec => []PendingHeld
  BY HolderCorrect, PTL DEF HolderInv

(* BUG_ON(work->wq_data != cwq) never fires.                               *)
THEOREM WqDataAlways == Spec => []WqDataOk
<1>1. HolderInv => WqDataOk
  BY DEF HolderInv, HeldData, WqDataOk
<1> QED BY <1>1, HolderCorrect, PTL
-----------------------------------------------------------------------------
(* The wait queue of the worker. *)

(* A worker is on more_work from before it looks at its list until after   *)
(* schedule(), so that wake_up() finds it there.                           *)
WakeInv ==
  /\ \A c \in CPU : tpc[c] \in {"waiting", "sched"} => onq[c]
  /\ NoLostWakeup

(* Putting a work on the list of c makes its worker runnable, if that is   *)
(* about to sleep.                                                         *)
LEMMA WakeInsert ==
  ASSUME TypeOK, WakeInv, NEW c \in CPU, NEW w, InsertWork(c, w)
  PROVE  WakeInv'
<1>1. /\ UNCHANGED <<tpc, onq>>
      /\ \A d \in CPU \ {c} : worklist'[d] = worklist[d] /\ tstate'[d] = tstate[d]
      /\ onq[c] => tstate'[c] = "RUNNING"
  BY DEF InsertWork, TypeOK
<1>2. \A d \in CPU : tpc'[d] \in {"waiting", "sched"} => onq'[d]
  BY <1>1 DEF WakeInv
<1>3. ASSUME NEW d \in CPU, tpc'[d] = "sched", tstate'[d] = "INTERRUPTIBLE"
      PROVE  worklist'[d] = <<>>
  <2>1. tpc[d] = "sched" /\ onq[d]
    BY <1>1, <1>3 DEF WakeInv
  <2>2. d # c
    BY <1>1, <1>3, <2>1
  <2>3. tstate[d] = "INTERRUPTIBLE" /\ worklist'[d] = worklist[d]
    BY <1>1, <1>3, <2>2
  <2> QED BY <2>1, <2>3 DEF WakeInv, NoLostWakeup
<1> QED BY <1>2, <1>3 DEF WakeInv, NoLostWakeup

(* Taking a work off the list of c: its worker is awake.                   *)
LEMMA WakeTake ==
  ASSUME TypeOK, WakeInv, NEW c \in CPU, NEW s, TakeOnto(c, s), UNCHANGED <<tstate, onq>>
  PROVE  WakeInv'
<1>1. /\ \A d \in CPU \ {c} : worklist'[d] = worklist[d] /\ tpc'[d] = tpc[d]
      /\ tpc'[c] = "taken"
  BY DEF TakeOnto, TypeOK
<1> QED BY <1>1 DEF WakeInv, NoLostWakeup

(* Every step keeps WakeInv.                                               *)
LEMMA WakeStep == TypeOK /\ WakeInv /\ [Next]_vars => WakeInv'
<1> SUFFICES ASSUME TypeOK, WakeInv, [Next]_vars PROVE WakeInv'
  OBVIOUS
<1> USE DEF workVars, cwqVars, thrVars
<1>1. ASSUME UNCHANGED <<worklist, tpc, tstate, onq>> PROVE WakeInv'
  BY <1>1 DEF WakeInv, NoLostWakeup
<1>2. ASSUME NEW c \in CPU, NEW w \in Works,
             QueueWork(c, w) \/ QueueWorkInsert(c, w) \/ TimerExpire(c, w)
      PROVE  WakeInv'
  BY <1>1, <1>2, WakeInsert DEF QueueWork, QueueWorkInsert, TimerExpire
<1>3. ASSUME NEW w \in Works,
             QueueDelayedWork(w) \/ CancelDelayedWork(w) \/ CancelClear(w)
      PROVE  WakeInv'
  BY <1>1, <1>3 DEF QueueDelayedWork, CancelDelayedWork, CancelClear
<1>4. ASSUME NEW c \in CPU, DelayedWorkTimerFn(c) PROVE WakeInv'
  BY <1>4, WakeInsert DEF DelayedWorkTimerFn
<1>5. ASSUME NEW c \in CPU, Worker(c) PROVE WakeInv'
  <2> USE DEF Goto, TypeOK, WakeInv, NoLostWakeup
  <2>1. CASE WorkerAddWait(c)
    BY <2>1 DEF WorkerAddWait
  <2>2. CASE WorkerCheck(c)
    BY <2>2 DEF WorkerCheck
  <2>3. CASE WorkerWake(c)
    BY <2>3 DEF WorkerWake
  <2>4. CASE WorkerRemoveWait(c)
    BY <2>4 DEF WorkerRemoveWait
  <2>5. CASE WorkerRun(c)
    BY <2>5, WakeTake DEF WorkerRun
  <2>6. CASE WorkerRearm(c)
    BY <2>6 DEF WorkerRearm
  <2>7. CASE CallHandler(c)
    BY <2>7 DEF CallHandler
  <2>8. CASE FinishWork(c)
    <3> DEFINE rest == Front(frames[c])
    <3>1. UNCHANGED <<tstate, onq>>
      BY <2>8 DEF FinishWork
    <3>2. CASE TakeOnto(c, rest)
      BY <3>1, <3>2, WakeTake
    <3>3. CASE UNCHANGED worklist /\ (tpc' = [tpc EXCEPT ![c] = "rearm"] \/ UNCHANGED tpc)
      BY <3>1, <3>3
    <3> QED BY <2>8, <3>2, <3>3 DEF FinishWork
  <2> QED BY <1>5, <2>1, <2>2, <2>3, <2>4, <2>5, <2>6, <2>7, <2>8 DEF Worker
<1>6. ASSUME NEW c \in CPU, FlushOwn(c) PROVE WakeInv'
  BY <1>1, <1>6, WakeTake DEF FlushOwn
<1>7. ASSUME NEW t \in Task, FlushBegin(t) \/ Flush(t) PROVE WakeInv'
  BY <1>1, <1>7 DEF FlushBegin, Flush, FlushSample, FlushRecheck, FlushStep
<1>8. CASE UNCHANGED vars
  BY <1>1, <1>8 DEF vars
<1> QED BY <1>2, <1>3, <1>4, <1>5, <1>6, <1>7, <1>8 DEF Next

(* No wake-up of a worker is lost, for every number of CPUs and works: the *)
(* task state is set before the wait queue is joined and the list looked   *)
(* at last, so that __queue_work() either is seen or wakes the worker.     *)
THEOREM NoLostWakeupAlways == Spec => []NoLostWakeup
<1>1. Init => WakeInv
  BY DEF Init, WakeInv, NoLostWakeup
<1>2. WakeInv => NoLostWakeup
  BY DEF WakeInv
<1> QED BY <1>1, <1>2, WakeStep, TypeCorrect, PTL DEF Spec

-----------------------------------------------------------------------------
(* What a flush waits for. *)

(* Handlers do not flush their own queue, and fewer works exist than half  *)
(* of the sequence numbers.                                                *)
FlushAssumption ==
  ~SelfFlush /\ IsFiniteSet(Works) /\ Cardinality(Works) + 1 < LongMod \div 2

(* j steps after r, for j < LongMod.                                       *)
Plus(r, j) == IF r + j < LongMod THEN r + j ELSE r + j - LongMod

(* The instances on a queue are numbered in the order in which they will   *)
(* complete, from remove_sequence up to insert_sequence.                   *)
SeqOk(c) ==
  /\ fl[c].pc = "idle" /\ Len(frames[c]) <= 1
  /\ \A i \in 1 .. Len(frames[c]) : frames[c][i].id = remove_sequence[c]
  /\ \A i \in 1 .. Len(worklist[c]) :
       worklist[c][i].id = Plus(remove_sequence[c], Len(frames[c]) + i - 1)
  /\ insert_sequence[c] = Plus(remove_sequence[c], Len(frames[c]) + Len(worklist[c]))
SeqInv == \A c \in CPU : SeqOk(c)

(* What a waiting flush is owed comes before sequence_needed; it is owed   *)
(* nothing once remove_sequence is there.                                  *)
Half         == LongMod \div 2
Gap(f)       == (f.need - remove_sequence[f.cpu]) % LongMod
Window(r, g) == {Plus(r, j) : j \in 0 .. g - 1}
OwedBy(f)    == IF Gap(f) < Half
                  THEN f.owed \subseteq Window(remove_sequence[f.cpu], Gap(f))
                  ELSE f.owed = {}
OwedInv      == \A t \in Flushers : fl[t].pc = "wait" => OwedBy(fl[t])

(* The remainder of a number near the modulus.                             *)
LEMMA ModNear ==
  ASSUME NEW M \in Nat \ {0}, NEW a \in Int
  PROVE  /\ 0 <= a /\ a < M => a % M = a
         /\ 0 > a /\ 0 <= a + M => a % M = a + M
         /\ M <= a /\ a < M + M => a % M = a - M
  OBVIOUS

(* The difference of two sequence numbers.                                 *)
LEMMA DiffIs ==
  ASSUME NEW a \in Long, NEW b \in Long
  PROVE  (a - b) % LongMod = IF a >= b THEN a - b ELSE a - b + LongMod
<1>1. LongMod \in Nat \ {0} /\ a \in Nat /\ a < LongMod /\ b \in Nat /\ b < LongMod
  BY WorkqueueAssumption DEF Long
<1>2. a - b \in Int /\ a - b < LongMod /\ 0 <= a - b + LongMod
  BY <1>1
<1>3. a >= b => 0 <= a - b
  BY <1>1
<1>4. ~(a >= b) => 0 > a - b
  BY <1>1
<1> QED BY <1>1, <1>2, <1>3, <1>4, ModNear

(* The number after a sequence number.                                     *)
LEMMA IncIs ==
  ASSUME NEW a \in Long
  PROVE  Inc(a) = IF a + 1 < LongMod THEN a + 1 ELSE 0
<1>1. LongMod \in Nat \ {0} /\ a \in Nat /\ a < LongMod
  BY WorkqueueAssumption DEF Long
<1>2. CASE a + 1 < LongMod
  <2>1. a + 1 \in Int /\ 0 <= a + 1
    BY <1>1
  <2> QED BY <1>1, <1>2, <2>1, ModNear DEF Inc
<1>3. CASE a + 1 = LongMod
  <2>1. LongMod % LongMod = 0
    BY <1>1
  <2> QED BY <1>1, <1>3, <2>1 DEF Inc
<1> QED BY <1>1, <1>2, <1>3

(* Arithmetic of the sequence numbers.                                     *)
LEMMA PlusFacts ==
  ASSUME NEW r \in Long, NEW j \in Nat, j < LongMod
  PROVE  /\ Plus(r, j) \in Long /\ Plus(r, 0) = r
         /\ j + 1 < LongMod => Inc(Plus(r, j)) = Plus(r, j + 1)
         /\ j + 1 < LongMod => Plus(Inc(r), j) = Plus(r, j + 1)
         /\ (Plus(r, j) - r) % LongMod = j
<1>1. LongMod \in Nat \ {0} /\ r \in Nat /\ r < LongMod
  BY WorkqueueAssumption DEF Long
<1>2. Plus(r, j) \in Long /\ Plus(r, 0) = r
  BY <1>1 DEF Plus, Long
<1>3. \A n \in Long : Inc(n) = IF n + 1 < LongMod THEN n + 1 ELSE 0
  BY IncIs
<1>4. j + 1 < LongMod => Inc(Plus(r, j)) = Plus(r, j + 1)
  BY <1>1, <1>2, <1>3 DEF Plus
<1>5. j + 1 < LongMod => Plus(Inc(r), j) = Plus(r, j + 1)
  BY <1>1, <1>3 DEF Plus
<1>6. (Plus(r, j) - r) % LongMod = j
  <2>1. CASE r + j < LongMod
    <3>1. Plus(r, j) - r = j
      BY <1>1, <2>1 DEF Plus
    <3> QED BY <1>1, <3>1, ModNear
  <2>2. CASE ~(r + j < LongMod)
    <3>1. Plus(r, j) - r = j - LongMod
      BY <1>1, <2>2 DEF Plus
    <3> QED BY <1>1, <3>1, ModNear
  <2> QED BY <2>1, <2>2
<1> QED BY <1>2, <1>4, <1>5, <1>6

(* One completed work brings a flush one step nearer.                      *)
LEMMA GapStep ==
  ASSUME NEW n \in Long, NEW r \in Long
  PROVE  /\ (n - r) % LongMod \in Nat /\ (n - r) % LongMod < LongMod
         /\ (n - r) % LongMod >= 1 => (n - Inc(r)) % LongMod = ((n - r) % LongMod) - 1
<1>1. /\ LongMod \in Nat \ {0} /\ r \in Nat /\ r < LongMod /\ n \in Nat /\ n < LongMod
  BY WorkqueueAssumption DEF Long
<1>2. (n - r) % LongMod = IF n >= r THEN n - r ELSE n - r + LongMod
  BY DiffIs
<1>3. Inc(r) = IF r + 1 < LongMod THEN r + 1 ELSE 0
  BY IncIs
<1>4. Inc(r) \in Long
  BY IncType
<1>5. (n - Inc(r)) % LongMod = IF n >= Inc(r) THEN n - Inc(r) ELSE n - Inc(r) + LongMod
  BY <1>4, DiffIs
<1> QED BY <1>1, <1>2, <1>3, <1>5

(* The works on a list are distinct, so there are not too many.            *)
LEMMA ListBound ==
  ASSUME HolderInv, IsFiniteSet(Works), NEW c \in CPU
  PROVE  Len(worklist[c]) \in Nat /\ Len(worklist[c]) <= Cardinality(Works)
<1> DEFINE n == Len(worklist[c])
           f == [i \in 1 .. n |-> worklist[c][i].work]
<1>1. n \in Nat
  BY LenProperties DEF HolderInv, TypeOK
<1>2. \A i \in 1 .. n : worklist[c][i].work \in Works
  BY ListedType DEF HolderInv
<1>3. ASSUME NEW i \in 1 .. n, NEW j \in 1 .. n, f[i] = f[j] PROVE i = j
  <2> DEFINE w == worklist[c][i].work
  <2>1. i \in PosOf(c) /\ j \in PosOf(c) /\ i # 0 /\ j # 0
    BY <1>1 DEF PosOf
  <2>2. "list" \in Place /\ w \in Works /\ worklist[c][j].work = w
    BY <1>2, <1>3 DEF Place
  <2> HIDE DEF w
  <2>3. Holds("list", c, i, w) /\ Holds("list", c, j, w)
    BY <2>1, <2>2 DEF Holds, w
  <2> QED BY <2>1, <2>2, <2>3 DEF HolderInv, OneHolder
<1>4. f \in Injection(1 .. n, Works)
  <2>1. f \in [1 .. n -> Works]
    BY <1>2
  <2> HIDE DEF f
  <2> QED BY <1>3, <2>1 DEF Injection, IsInjective
<1>5. Cardinality(1 .. n) <= Cardinality(Works)
  BY <1>4, FS_Injection
<1>6. Cardinality(1 .. n) = n
  <2>1. 1 \in Int /\ n \in Int
    BY <1>1
  <2>2. Cardinality(1 .. n) = IF 1 > n THEN 0 ELSE n - 1 + 1
    BY <2>1, FS_Interval
  <2> HIDE DEF n
  <2> QED BY <1>1, <2>2
<1> QED BY <1>1, <1>5, <1>6

(* Half of the sequence numbers are more than two.                         *)
LEMMA HalfFacts ==
  ASSUME FlushAssumption
  PROVE  /\ Half \in Nat /\ LongMod \in Nat /\ Half + 1 < LongMod
         /\ IsFiniteSet(Works) /\ Cardinality(Works) \in Nat
         /\ Cardinality(Works) + 1 < Half
<1>1. LongMod \in Nat
  BY WorkqueueAssumption
<1>2. IsFiniteSet(Works) /\ Cardinality(Works) + 1 < Half
  BY DEF FlushAssumption, Half
<1>3. Cardinality(Works) \in Nat
  BY <1>2, FS_CardinalityType
<1>4. Half \in Nat
  BY <1>1 DEF Half
<1>5. Half >= 2
  BY <1>2, <1>3, <1>4
<1>6. \A m \in Nat : m \div 2 >= 2 => (m \div 2) + 1 < m
  OBVIOUS
<1>7. Half + 1 < LongMod
  BY <1>1, <1>5, <1>6 DEF Half
<1> QED BY <1>1, <1>2, <1>3, <1>4, <1>7

(* How many instances are outstanding on a queue.                          *)
LEMMA QueueBound ==
  ASSUME HolderInv, SeqInv, FlushAssumption, NEW c \in CPU
  PROVE  /\ Len(frames[c]) \in Nat /\ Len(worklist[c]) \in Nat
         /\ Len(frames[c]) + Len(worklist[c]) < Half
         /\ Half \in Nat /\ Half + 1 < LongMod /\ LongMod \in Nat
<1>1. /\ Half \in Nat /\ LongMod \in Nat /\ Half + 1 < LongMod
      /\ IsFiniteSet(Works) /\ Cardinality(Works) \in Nat
      /\ Cardinality(Works) + 1 < Half
  BY HalfFacts
<1>2. Len(worklist[c]) \in Nat /\ Len(worklist[c]) <= Cardinality(Works)
  BY <1>1, ListBound
<1>3. Len(frames[c]) \in Nat
  BY LenProperties DEF HolderInv, TypeOK
<1>4. Len(frames[c]) <= 1
  BY DEF SeqInv, SeqOk
<1>5. \A F, L, C \in Nat : F <= 1 /\ L <= C /\ C + 1 < Half => F + L < Half
  BY <1>1
<1> QED BY <1>1, <1>2, <1>3, <1>4, <1>5

(* The queues of the other CPUs stay as they are.                          *)
LEMMA SeqOthers ==
  ASSUME SeqInv, NEW c \in CPU, SeqOk(c)', \A d \in CPU : fl'[d].pc = "idle",
         \A d \in CPU \ {c} : /\ frames'[d] = frames[d] /\ worklist'[d] = worklist[d]
                               /\ insert_sequence'[d] = insert_sequence[d]
                               /\ remove_sequence'[d] = remove_sequence[d]
  PROVE  SeqInv'
<1> SUFFICES ASSUME NEW d \in CPU \ {c} PROVE SeqOk(d)'
  BY DEF SeqInv
<1>1. SeqOk(d)
  BY DEF SeqInv
<1>2. /\ fl'[d].pc = "idle" /\ frames'[d] = frames[d] /\ worklist'[d] = worklist[d]
      /\ insert_sequence'[d] = insert_sequence[d] /\ remove_sequence'[d] = remove_sequence[d]
  OBVIOUS
<1>3. SeqOk(d)' <=>
        /\ fl'[d].pc = "idle" /\ Len(frames'[d]) <= 1
        /\ \A i \in 1 .. Len(frames'[d]) : frames'[d][i].id = remove_sequence'[d]
        /\ \A i \in 1 .. Len(worklist'[d]) :
             worklist'[d][i].id = Plus(remove_sequence'[d], Len(frames'[d]) + i - 1)
        /\ insert_sequence'[d] = Plus(remove_sequence'[d], Len(frames'[d]) + Len(worklist'[d]))
  BY DEF SeqOk, Plus
<1> QED BY <1>1, <1>2, <1>3, Zenon DEF SeqOk

(* A new instance gets the next number.                                    *)
LEMMA SeqInsert ==
  ASSUME HolderInv, SeqInv, FlushAssumption, NEW c \in CPU, NEW w \in Works,
         InsertWork(c, w)
  PROVE  SeqInv'
<1> DEFINE e == [work |-> w, id |-> insert_sequence[c]]
           r == remove_sequence[c]
           F == Len(frames[c])
           L == Len(worklist[c])
<1>0. /\ worklist' = [worklist EXCEPT ![c] = Append(worklist[c], e)]
      /\ insert_sequence' = [insert_sequence EXCEPT ![c] = Inc(insert_sequence[c])]
      /\ UNCHANGED <<remove_sequence, frames, fl>>
  BY DEF InsertWork
<1>1. worklist[c] \in Seq(Entry) /\ e \in Entry /\ r \in Long
  BY DEF HolderInv, TypeOK, Entry
<1>2. /\ L \in Nat /\ F \in Nat /\ F + L + 1 < LongMod /\ LongMod \in Nat
      /\ insert_sequence[c] = Plus(r, F + L) /\ e.id = Plus(r, F + L)
  <2>1. /\ F \in Nat /\ L \in Nat /\ F + L < Half
        /\ Half \in Nat /\ Half + 1 < LongMod /\ LongMod \in Nat
    BY QueueBound
  <2>2. insert_sequence[c] = Plus(r, F + L)
    BY DEF SeqInv, SeqOk
  <2>3. e.id = Plus(r, F + L)
    BY <2>2
  <2> HIDE DEF F, L, r, e
  <2>4. F + L + 1 < LongMod
    BY <2>1
  <2> QED BY <2>1, <2>2, <2>3, <2>4
<1>3. /\ Len(worklist'[c]) = L + 1 /\ worklist'[c][L + 1] = e
      /\ \A i \in 1 .. L : worklist'[c][i] = worklist[c][i]
      /\ insert_sequence'[c] = Inc(insert_sequence[c])
      /\ \A d \in CPU \ {c} : /\ worklist'[d] = worklist[d]
                              /\ insert_sequence'[d] = insert_sequence[d]
  BY <1>0, <1>1, AppendFacts DEF HolderInv, TypeOK
<1>6. \A i \in 1 .. L : worklist[c][i].id = Plus(r, F + i - 1)
  BY DEF SeqInv, SeqOk
<1> HIDE DEF F, L, r, e
<1>4. insert_sequence'[c] = Plus(r, F + (L + 1))
  <2>1. F + L \in Nat /\ F + L < LongMod /\ F + (L + 1) = F + L + 1
    BY <1>2
  <2>2. Inc(Plus(r, F + L)) = Plus(r, F + L + 1)
    BY <1>1, <1>2, <2>1, PlusFacts
  <2> QED BY <1>2, <1>3, <2>1, <2>2
<1>5. \A i \in 1 .. L + 1 : worklist'[c][i].id = Plus(r, F + i - 1)
  <2> SUFFICES ASSUME NEW i \in 1 .. L + 1 PROVE worklist'[c][i].id = Plus(r, F + i - 1)
    OBVIOUS
  <2>1. CASE i \in 1 .. L
    BY <1>3, <1>6, <2>1
  <2>2. CASE i = L + 1
    <3>1. F + i - 1 = F + L
      BY <1>2, <2>2
    <3> QED BY <1>2, <1>3, <2>2, <3>1
  <2> QED BY <1>2, <2>1, <2>2
<1>7. SeqOk(c)'
  <2>1. /\ fl'[c].pc = "idle" /\ Len(frames'[c]) <= 1 /\ Len(frames'[c]) = F
        /\ \A i \in 1 .. Len(frames'[c]) : frames'[c][i].id = remove_sequence'[c]
        /\ remove_sequence'[c] = r
    BY <1>0 DEF SeqInv, SeqOk, F, r
  <2> QED BY <1>3, <1>4, <1>5, <2>1 DEF SeqOk
<1>8. \A d \in CPU : fl'[d].pc = "idle"
  BY <1>0 DEF SeqInv, SeqOk
<1> QED BY <1>0, <1>3, <1>7, <1>8, SeqOthers

(* The worker takes the instance whose number is remove_sequence.          *)
LEMMA SeqRun ==
  ASSUME HolderInv, SeqInv, FlushAssumption, NEW c \in CPU, WorkerRun(c)
  PROVE  SeqInv'
<1> DEFINE r == remove_sequence[c]
           L == Len(worklist[c])
           h == Head(worklist[c])
<1>0. /\ tpc[c] = "test" /\ worklist[c] # <<>>
      /\ frames' = [frames EXCEPT ![c] = Append(<<>>, h)]
      /\ worklist' = [worklist EXCEPT ![c] = Tail(worklist[c])]
      /\ UNCHANGED <<remove_sequence, insert_sequence, fl>>
  BY DEF WorkerRun, TakeOnto
<1>1. worklist[c] \in Seq(Entry) /\ frames[c] = <<>> /\ r \in Long
  BY <1>0 DEF HolderInv, TypeOK
<1>2. L \in Nat /\ Len(frames[c]) = 0 /\ L < LongMod /\ LongMod \in Nat
  <2>1. Len(frames[c]) = 0
    BY <1>1
  <2>2. /\ Len(frames[c]) \in Nat /\ L \in Nat /\ Len(frames[c]) + L < Half
        /\ Half \in Nat /\ Half + 1 < LongMod /\ LongMod \in Nat
    BY QueueBound
  <2> HIDE DEF L
  <2> QED BY <2>1, <2>2
<1>3. /\ h \in Entry /\ h = worklist[c][1] /\ L >= 1
      /\ Len(Tail(worklist[c])) = L - 1
      /\ \A i \in 1 .. L - 1 : Tail(worklist[c])[i] = worklist[c][i + 1]
  <2>1. /\ h \in Entry /\ h = worklist[c][1] /\ Tail(worklist[c]) \in Seq(Entry)
        /\ Len(Tail(worklist[c])) = L - 1
        /\ \A i \in 1 .. Len(Tail(worklist[c])) : Tail(worklist[c])[i] = worklist[c][i + 1]
    BY <1>0, <1>1, TailFacts
  <2>2. Len(Tail(worklist[c])) \in Nat
    BY <2>1, LenProperties
  <2> QED BY <1>2, <2>1, <2>2
<1>4. << >> \in Seq(Entry) /\ Len(<< >>) = 0
  OBVIOUS
<1>5. /\ Len(frames'[c]) = 1 /\ frames'[c][1] = h /\ worklist'[c] = Tail(worklist[c])
      /\ \A d \in CPU \ {c} : frames'[d] = frames[d] /\ worklist'[d] = worklist[d]
  <2>1. frames'[c] = Append(<<>>, h) /\ worklist'[c] = Tail(worklist[c])
        /\ \A d \in CPU \ {c} : frames'[d] = frames[d] /\ worklist'[d] = worklist[d]
    BY <1>0 DEF HolderInv, TypeOK
  <2> HIDE DEF h
  <2>2. Len(Append(<<>>, h)) = 0 + 1 /\ Append(<<>>, h)[0 + 1] = h
    BY <1>3, <1>4, AppendFacts
  <2> QED BY <2>1, <2>2
<1>6. \A i \in 1 .. L : worklist[c][i].id = Plus(r, 0 + i - 1)
  BY <1>2 DEF SeqInv, SeqOk
<1>7. h.id = r
  <2>1. 1 \in 1 .. L /\ 0 + 1 - 1 = 0 /\ 0 < LongMod
    BY <1>2, <1>3
  <2> QED BY <1>1, <1>3, <1>6, <2>1, PlusFacts
<1> HIDE DEF h
<1>8. \A i \in 1 .. Len(frames'[c]) : frames'[c][i].id = r
  BY <1>5, <1>7
<1>9. \A i \in 1 .. L - 1 : worklist'[c][i].id = Plus(r, 1 + i - 1)
  <2> SUFFICES ASSUME NEW i \in 1 .. L - 1 PROVE worklist'[c][i].id = Plus(r, 1 + i - 1)
    OBVIOUS
  <2>1. i + 1 \in 1 .. L /\ 0 + (i + 1) - 1 = 1 + i - 1
    BY <1>2
  <2> QED BY <1>3, <1>5, <1>6, <2>1
<1>10. insert_sequence[c] = Plus(r, 1 + (L - 1))
  <2>1. 0 + L = 1 + (L - 1)
    BY <1>2
  <2>2. insert_sequence[c] = Plus(r, Len(frames[c]) + L)
    BY DEF SeqInv, SeqOk
  <2> QED BY <1>2, <2>1, <2>2
<1>11. /\ Len(frames'[c]) <= 1 /\ Len(worklist'[c]) = L - 1
       /\ insert_sequence'[c] = Plus(r, Len(frames'[c]) + Len(worklist'[c]))
       /\ \A i \in 1 .. Len(worklist'[c]) :
            worklist'[c][i].id = Plus(r, Len(frames'[c]) + i - 1)
  <2>1. Len(worklist'[c]) = L - 1 /\ insert_sequence'[c] = insert_sequence[c]
    BY <1>0, <1>3, <1>5
  <2> QED BY <1>5, <1>9, <1>10, <2>1
<1>12. \A d \in CPU : fl'[d].pc = "idle"
  BY <1>0 DEF SeqInv, SeqOk
<1>13. SeqOk(c)'
  <2>1. remove_sequence'[c] = r
    BY <1>0
  <2> QED BY <1>8, <1>11, <1>12, <2>1 DEF SeqOk
<1> QED BY <1>0, <1>5, <1>12, <1>13, SeqOthers

(* The instance that completes has that number, and the next one follows.  *)
LEMMA SeqFinish ==
  ASSUME HolderInv, SeqInv, FlushAssumption, NEW c \in CPU, FinishWork(c)
  PROVE  /\ SeqInv' /\ Top(frames[c]).id = remove_sequence[c]
         /\ remove_sequence' = [remove_sequence EXCEPT ![c] = Inc(remove_sequence[c])]
         /\ fl' = WakeFlushers(c, remove_sequence[c])
<1> DEFINE r == remove_sequence[c]
           L == Len(worklist[c])
           rest == Front(frames[c])
<1>0. tpc[c] = "call" /\ UNCHANGED insert_sequence
      /\ remove_sequence' = [remove_sequence EXCEPT ![c] = Inc(r)]
  BY DEF FinishWork
<1>1. worklist[c] \in Seq(Entry) /\ frames[c] \in Seq(Entry) /\ frames[c] # <<>> /\ r \in Long
  BY <1>0 DEF HolderInv, TypeOK
<1>2. Len(frames[c]) = 1 /\ L \in Nat /\ 1 + L < LongMod /\ LongMod \in Nat
  <2>1. Len(frames[c]) \in Nat /\ Len(frames[c]) # 0
    BY <1>1, EmptySeq, LenProperties
  <2>4. Len(frames[c]) <= 1
    BY DEF SeqInv, SeqOk
  <2>5. \A n \in Nat : n # 0 /\ n <= 1 => n = 1
    OBVIOUS
  <2>2. Len(frames[c]) = 1
    BY <2>1, <2>4, <2>5
  <2>3. /\ L \in Nat /\ Len(frames[c]) + L < Half
        /\ Half \in Nat /\ Half + 1 < LongMod /\ LongMod \in Nat
    BY QueueBound
  <2> HIDE DEF L
  <2> QED BY <2>2, <2>3
<1>3. rest = <<>>
  <2>1. rest \in Seq(Entry) /\ Len(rest) = 0
    BY <1>1, <1>2, FrontFacts
  <2> QED BY <2>1, EmptySeq
<1>4. Top(frames[c]).id = r
  <2>1. \A i \in 1 .. Len(frames[c]) : frames[c][i].id = r
    BY DEF SeqInv, SeqOk
  <2> QED BY <1>2, <2>1 DEF Top
<1>5. fl' = WakeFlushers(c, r)
  BY <1>3, <1>4 DEF FinishWork
<1>6. /\ \A i \in 1 .. L : worklist[c][i].id = Plus(r, i)
      /\ insert_sequence[c] = Plus(r, L + 1)
  <2>1. \A i \in 1 .. L : 1 + i - 1 = i
    BY <1>2
  <2>2. 1 + L = L + 1
    BY <1>2
  <2>3. /\ \A i \in 1 .. L : worklist[c][i].id = Plus(r, Len(frames[c]) + i - 1)
        /\ insert_sequence[c] = Plus(r, Len(frames[c]) + L)
    BY DEF SeqInv, SeqOk
  <2> QED BY <1>2, <2>1, <2>2, <2>3
<1>7. /\ Inc(r) \in Long /\ Plus(r, 1) = Inc(r)
      /\ \A j \in 0 .. L : Plus(r, j + 1) = Plus(Inc(r), j)
  <2>1. Inc(r) \in Long
    BY <1>1, IncType
  <2>2. \A j \in 0 .. L : j \in Nat /\ j + 1 < LongMod /\ j < LongMod
    BY <1>2
  <2>3. \A j \in 0 .. L : Plus(r, j + 1) = Plus(Inc(r), j)
    BY <1>1, <2>2, PlusFacts
  <2>4. Plus(r, 0 + 1) = Plus(Inc(r), 0)
    BY <1>2, <2>3
  <2>5. 0 \in Nat /\ 0 < LongMod
    BY <1>2
  <2>6. Plus(Inc(r), 0) = Inc(r)
    BY <2>1, <2>5, PlusFacts
  <2> QED BY <2>1, <2>3, <2>4, <2>6
<1>8. \A d \in CPU : fl'[d].pc = "idle"
  <2> SUFFICES ASSUME NEW d \in CPU PROVE fl'[d].pc = "idle"
    OBVIOUS
  <2>1. d \in Task /\ fl[d] \in FlushCall /\ fl[d].pc = "idle"
    BY DEF Task, HolderInv, TypeOK, SeqInv, SeqOk
  <2> QED BY <1>5, <2>1 DEF WakeFlushers, FlushCall
<1>9. remove_sequence'[c] = Inc(r)
      /\ \A d \in CPU \ {c} : remove_sequence'[d] = remove_sequence[d]
  BY <1>0 DEF HolderInv, TypeOK
<1>10. CASE worklist[c] = <<>>
  <2>1. frames' = [frames EXCEPT ![c] = <<>>] /\ UNCHANGED worklist
    BY <1>3, <1>10 DEF FinishWork
  <2>2. frames'[c] = <<>> /\ \A d \in CPU \ {c} : frames'[d] = frames[d]
    BY <2>1 DEF HolderInv, TypeOK
  <2>3. L = 0 /\ Len(frames'[c]) = 0 /\ worklist'[c] = <<>> /\ Len(worklist'[c]) = 0
    BY <1>10, <2>1, <2>2
  <2>4. insert_sequence'[c] = Plus(remove_sequence'[c], Len(frames'[c]) + Len(worklist'[c]))
    <3>1. 0 \in 0 .. L /\ L + 1 = 0 + 1 /\ 0 + 0 = 0
      BY <2>3
    <3> QED BY <1>0, <1>6, <1>7, <1>9, <2>3, <3>1
  <2>5. SeqInv'
    <3>1. SeqOk(c)'
      BY <1>8, <2>3, <2>4 DEF SeqOk
    <3> QED BY <1>0, <1>8, <1>9, <2>1, <2>2, <3>1, SeqOthers
  <2> QED BY <1>0, <1>4, <1>5, <2>5
<1>11. CASE worklist[c] # <<>>
  <2> DEFINE h == Head(worklist[c])
  <2>1. frames' = [frames EXCEPT ![c] = Append(<<>>, h)]
        /\ worklist' = [worklist EXCEPT ![c] = Tail(worklist[c])]
    BY <1>3, <1>11 DEF FinishWork, TakeOnto
  <2>2. /\ frames'[c] = Append(<<>>, h) /\ worklist'[c] = Tail(worklist[c])
        /\ \A d \in CPU \ {c} : frames'[d] = frames[d] /\ worklist'[d] = worklist[d]
    BY <2>1 DEF HolderInv, TypeOK
  <2>3. /\ h \in Entry /\ h = worklist[c][1] /\ Tail(worklist[c]) \in Seq(Entry)
        /\ Len(Tail(worklist[c])) = L - 1
        /\ \A i \in 1 .. Len(Tail(worklist[c])) : Tail(worklist[c])[i] = worklist[c][i + 1]
    BY <1>1, <1>11, TailFacts
  <2> HIDE DEF h
  <2>4. << >> \in Seq(Entry) /\ Len(<< >>) = 0
    OBVIOUS
  <2>5. Len(frames'[c]) = 1 /\ frames'[c][1] = h
    <3>1. Len(Append(<<>>, h)) = 0 + 1 /\ Append(<<>>, h)[0 + 1] = h
      BY <2>3, <2>4, AppendFacts
    <3> QED BY <2>2, <3>1
  <2>6. Len(worklist'[c]) = L - 1 /\ L - 1 \in Nat
    BY <2>2, <2>3, LenProperties
  <2>7. h.id = Inc(r)
    BY <1>2, <1>6, <1>7, <2>3, <2>6
  <2>8. \A i \in 1 .. Len(frames'[c]) : frames'[c][i].id = remove_sequence'[c]
    BY <1>9, <2>5, <2>7
  <2>9. \A i \in 1 .. Len(worklist'[c]) :
          worklist'[c][i].id = Plus(remove_sequence'[c], Len(frames'[c]) + i - 1)
    <3> SUFFICES ASSUME NEW i \in 1 .. L - 1
                 PROVE  worklist'[c][i].id = Plus(Inc(r), 1 + i - 1)
      BY <1>9, <2>5, <2>6
    <3>1. i + 1 \in 1 .. L /\ i \in 0 .. L /\ 1 + i - 1 = i
      BY <1>2
    <3>2. worklist'[c][i].id = Plus(r, i + 1)
      BY <1>6, <2>2, <2>3, <2>6, <3>1
    <3> QED BY <1>7, <3>1, <3>2
  <2>10. insert_sequence'[c] = Plus(remove_sequence'[c], Len(frames'[c]) + Len(worklist'[c]))
    <3>1. L \in 0 .. L /\ 1 + (L - 1) = L
      BY <1>2
    <3>2. insert_sequence[c] = Plus(Inc(r), L)
      BY <1>6, <1>7, <3>1
    <3> QED BY <1>0, <1>9, <2>5, <2>6, <3>1, <3>2
  <2>11. SeqInv'
    <3>1. SeqOk(c)'
      BY <1>8, <2>5, <2>8, <2>9, <2>10 DEF SeqOk
    <3> QED BY <1>0, <1>8, <1>9, <2>2, <3>1, SeqOthers
  <2> QED BY <1>0, <1>4, <1>5, <2>11
<1> QED BY <1>10, <1>11

(* Every step keeps the numbers in order.                                  *)
LEMMA SeqStep ==
  ASSUME HolderInv, SeqInv, FlushAssumption, [Next]_vars
  PROVE  SeqInv'
<1> USE DEF workVars, cwqVars, thrVars
<1>1. ASSUME UNCHANGED cwqVars, \A d \in CPU : fl'[d].pc = "idle" PROVE SeqInv'
  <2>1. \A d \in CPU : SeqOk(d)' <=> SeqOk(d)
    <3> SUFFICES ASSUME NEW d \in CPU PROVE SeqOk(d)' <=> SeqOk(d)
      OBVIOUS
    <3>1. fl[d].pc = "idle" /\ fl'[d].pc = "idle"
      BY <1>1 DEF SeqInv, SeqOk
    <3> QED BY <1>1, <3>1 DEF SeqOk, Plus
  <2> QED BY <2>1 DEF SeqInv
<1>2. \A d \in CPU : fl[d].pc = "idle"
  BY DEF SeqInv, SeqOk
<1>3. ASSUME UNCHANGED <<cwqVars, fl>> PROVE SeqInv'
  BY <1>1, <1>2, <1>3
<1>4. ASSUME NEW c \in CPU, NEW w \in Works,
             QueueWork(c, w) \/ QueueWorkInsert(c, w) \/ TimerExpire(c, w)
      PROVE  SeqInv'
  BY <1>3, <1>4, SeqInsert DEF QueueWork, QueueWorkInsert, TimerExpire
<1>5. ASSUME NEW w \in Works,
             QueueDelayedWork(w) \/ CancelDelayedWork(w) \/ CancelClear(w)
      PROVE  SeqInv'
  BY <1>3, <1>5 DEF QueueDelayedWork, CancelDelayedWork, CancelClear
<1>6. ASSUME NEW c \in CPU, DelayedWorkTimerFn(c) PROVE SeqInv'
  <2>1. firing[c] \in Works
    BY <1>6 DEF DelayedWorkTimerFn, HolderInv, TypeOK
  <2> QED BY <1>6, <2>1, SeqInsert DEF DelayedWorkTimerFn
<1>7. ASSUME NEW c \in CPU, Worker(c) PROVE SeqInv'
  <2>1. CASE WorkerRun(c)
    BY <2>1, SeqRun
  <2>2. CASE FinishWork(c)
    BY <2>2, SeqFinish
  <2>3. CASE \/ WorkerAddWait(c) \/ WorkerCheck(c) \/ WorkerWake(c)
             \/ WorkerRemoveWait(c) \/ WorkerRearm(c) \/ CallHandler(c)
    BY <1>3, <2>3 DEF WorkerAddWait, WorkerCheck, WorkerWake, WorkerRemoveWait,
                      WorkerRearm, CallHandler
  <2> QED BY <1>7, <2>1, <2>2, <2>3 DEF Worker
<1>8. ASSUME NEW c \in CPU, FlushOwn(c) PROVE FALSE
  BY <1>2, <1>8 DEF FlushOwn
<1>9. ASSUME NEW t \in Task, FlushBegin(t) \/ Flush(t) PROVE SeqInv'
  <2>1. t \notin CPU
    BY <1>2, <1>9 DEF FlushBegin, Flush, FlushSample, FlushRecheck, FlushAssumption
  <2>2. UNCHANGED cwqVars /\ \A d \in CPU : fl'[d] = fl[d]
    BY <1>9, <2>1 DEF FlushBegin, Flush, FlushSample, FlushRecheck, FlushStep,
                      HolderInv, TypeOK, Task
  <2> QED BY <1>1, <1>2, <2>2
<1>10. CASE UNCHANGED vars
  BY <1>3, <1>10 DEF vars
<1> QED BY <1>4, <1>5, <1>6, <1>7, <1>8, <1>9, <1>10 DEF Next

(* What is outstanding on a queue when a flush samples insert_sequence.    *)
LEMMA Sampled ==
  ASSUME HolderInv, SeqInv, FlushAssumption, NEW c \in CPU
  PROVE  LET r == remove_sequence[c]
             g == (insert_sequence[c] - r) % LongMod
         IN /\ g \in Nat /\ g < Half /\ Outstanding(c) \subseteq Window(r, g)
            /\ g = 0 => Outstanding(c) = {}
<1> DEFINE r == remove_sequence[c]
           F == Len(frames[c])
           L == Len(worklist[c])
<1>1. /\ F \in Nat /\ L \in Nat /\ F + L < Half
      /\ Half \in Nat /\ Half + 1 < LongMod /\ LongMod \in Nat
  BY QueueBound
<1>2. /\ F <= 1 /\ \A i \in 1 .. F : frames[c][i].id = r
      /\ \A i \in 1 .. L : worklist[c][i].id = Plus(r, F + i - 1)
      /\ insert_sequence[c] = Plus(r, F + L)
  BY DEF SeqInv, SeqOk
<1>3. r \in Long /\ DOMAIN frames[c] = 1 .. F /\ DOMAIN worklist[c] = 1 .. L
  BY LenProperties DEF HolderInv, TypeOK
<1>4. \A x \in Outstanding(c) : \/ \E i \in 1 .. L : x = worklist[c][i].id
                                \/ \E i \in 1 .. F : x = frames[c][i].id
  BY <1>3 DEF Outstanding
<1> HIDE DEF F, L, r
<1>5. F + L \in Nat /\ F + L < LongMod
  BY <1>1
<1>6. (insert_sequence[c] - r) % LongMod = F + L
  BY <1>2, <1>3, <1>5, PlusFacts
<1>7. Plus(r, 0) = r
  BY <1>3, <1>5, PlusFacts
<1>8. Outstanding(c) \subseteq Window(r, F + L)
  <2> SUFFICES ASSUME NEW x \in Outstanding(c) PROVE x \in Window(r, F + L)
    OBVIOUS
  <2>1. ASSUME NEW i \in 1 .. L, x = worklist[c][i].id
        PROVE  \E j \in 0 .. (F + L) - 1 : x = Plus(r, j)
    <3>1. F + i - 1 \in 0 .. (F + L) - 1
      BY <1>1
    <3>2. x = Plus(r, F + i - 1)
      BY <1>2, <2>1
    <3> QED BY <3>1, <3>2
  <2>2. ASSUME NEW i \in 1 .. F, x = frames[c][i].id
        PROVE  \E j \in 0 .. (F + L) - 1 : x = Plus(r, j)
    <3>1. 0 \in 0 .. (F + L) - 1
      BY <1>1
    <3>2. x = Plus(r, 0)
      BY <1>2, <1>7, <2>2
    <3> QED BY <3>1, <3>2
  <2>3. \E j \in 0 .. (F + L) - 1 : x = Plus(r, j)
    BY <1>4, <2>1, <2>2
  <2>4. \A g, y : (\E j \in 0 .. g - 1 : y = Plus(r, j)) => y \in Window(r, g)
    BY Zenon DEF Window
  <2> QED BY <2>3, <2>4
<1>9. F + L = 0 => Outstanding(c) = {}
  <2>1. F + L = 0 => 0 .. (F + L) - 1 = {}
    BY <1>1
  <2> QED BY <1>8, <2>1 DEF Window
<1> QED BY <1>1, <1>5, <1>6, <1>8, <1>9 DEF r

(* A completed instance is no longer owed, and the window moves on by one. *)
LEMMA WindowStep ==
  ASSUME NEW r \in Long, NEW g \in Nat, g >= 1, g < LongMod
  PROVE  Window(r, g) \ {r} \subseteq Window(Inc(r), g - 1)
<1> SUFFICES ASSUME NEW j \in 0 .. g - 1, Plus(r, j) # r
             PROVE  \E k \in 0 .. g - 1 - 1 : Plus(r, j) = Plus(Inc(r), k)
  BY DEF Window
<1>1. LongMod \in Nat
  BY WorkqueueAssumption
<1>2. 0 \in Nat /\ 0 < LongMod
  BY <1>1
<1>3. Plus(r, 0) = r
  BY <1>2, PlusFacts
<1>4. j # 0
  BY <1>3
<1>5. j - 1 \in 0 .. g - 1 - 1 /\ j - 1 \in Nat /\ j - 1 < LongMod /\ (j - 1) + 1 < LongMod
      /\ (j - 1) + 1 = j
  BY <1>1, <1>4
<1>6. Plus(Inc(r), j - 1) = Plus(r, (j - 1) + 1)
  BY <1>5, PlusFacts
<1> QED BY <1>5, <1>6

(* run_workqueue() completes an instance: every flush that waits is owed   *)
(* it no more.                                                             *)
LEMMA OwedFinish ==
  ASSUME HolderInv, SeqInv, OwedInv, FlushAssumption, NEW c \in CPU, FinishWork(c)
  PROVE  OwedInv'
<1> DEFINE r == remove_sequence[c]
<1>1. /\ remove_sequence' = [remove_sequence EXCEPT ![c] = Inc(r)]
      /\ fl' = WakeFlushers(c, r)
  BY SeqFinish
<1> SUFFICES ASSUME NEW t \in Flushers, fl'[t].pc = "wait" PROVE OwedBy(fl[t])'
  BY DEF OwedInv, OwedBy, Gap, Window, Plus
<1> DEFINE f == fl[t]
           g == fl'[t]
<1>2. t \in Task /\ f \in FlushCall
  BY DEF Task, HolderInv, TypeOK
<1>3. /\ g.pc = f.pc /\ g.cpu = f.cpu /\ g.need = f.need
      /\ g.owed = IF f.cpu = c THEN f.owed \ {r} ELSE f.owed
  BY <1>1, <1>2 DEF WakeFlushers, FlushCall
<1>4. f.cpu \in CPU /\ f.need \in Long /\ r \in Long /\ f.pc = "wait"
  BY <1>2, <1>3 DEF FlushCall, HolderInv, TypeOK
<1>5. OwedBy(f)
  BY <1>4 DEF OwedInv
<1>6. OwedBy(fl[t])' <=>
        IF (g.need - remove_sequence'[g.cpu]) % LongMod < Half
          THEN g.owed \subseteq Window(remove_sequence'[g.cpu],
                                       (g.need - remove_sequence'[g.cpu]) % LongMod)
          ELSE g.owed = {}
  BY DEF OwedBy, Gap, Window, Plus, Half
<1> HIDE DEF f, g, r
<1>7. CASE f.cpu # c
  <2>1. remove_sequence'[f.cpu] = remove_sequence[f.cpu]
    BY <1>1, <1>4, <1>7 DEF HolderInv, TypeOK
  <2>2. g.owed = f.owed
    BY <1>3, <1>7
  <2> QED BY <1>3, <1>5, <1>6, <2>1, <2>2 DEF OwedBy, Gap
<1>8. CASE f.cpu = c
  <2> DEFINE d == (f.need - r) % LongMod
             e == (f.need - Inc(r)) % LongMod
  <2>1. remove_sequence'[f.cpu] = Inc(r) /\ remove_sequence[f.cpu] = r
    BY <1>1, <1>4, <1>8 DEF HolderInv, TypeOK, r
  <2>2. d \in Nat /\ d < LongMod /\ (d >= 1 => e = d - 1)
    BY <1>4, GapStep
  <2>3. IF d < Half THEN f.owed \subseteq Window(r, d) ELSE f.owed = {}
    BY <1>5, <2>1 DEF OwedBy, Gap
  <2>4. OwedBy(fl[t])' <=> IF e < Half THEN g.owed \subseteq Window(Inc(r), e) ELSE g.owed = {}
    BY <1>3, <1>6, <2>1
  <2>5. g.owed = f.owed \ {r}
    BY <1>3, <1>8
  <2>6. Half \in Nat
    BY HalfFacts
  <2> HIDE DEF d, e
  <2>7. CASE f.owed = {}
    BY <2>4, <2>5, <2>7
  <2>8. CASE f.owed # {}
    <3>1. d < Half /\ f.owed \subseteq Window(r, d)
      BY <2>3, <2>8
    <3>2. d # 0
      <4>1. ASSUME d = 0 PROVE 0 .. d - 1 = {}
        BY <4>1
      <4> QED BY <2>8, <3>1, <4>1 DEF Window
    <3>3. d >= 1 /\ e = d - 1 /\ e < Half
      BY <2>2, <2>6, <3>1, <3>2
    <3>4. Window(r, d) \ {r} \subseteq Window(Inc(r), e)
      BY <1>4, <2>2, <3>3, WindowStep
    <3> QED BY <2>4, <2>5, <3>1, <3>3, <3>4
  <2> QED BY <2>7, <2>8
<1> QED BY <1>7, <1>8

(* A flush that goes to sleep after its look at the queue of c.            *)
LEMMA OwedLook ==
  ASSUME HolderInv, OwedInv, NEW t \in Task, NEW f \in FlushCall, OwedBy(f), FlushStep(t, f)
  PROVE  OwedInv'
<1>1. UNCHANGED remove_sequence /\ fl \in [Task -> FlushCall]
  BY DEF FlushStep, cwqVars, HolderInv, TypeOK
<1>2. fl' = [fl EXCEPT ![t] = IF After(f.need, remove_sequence[f.cpu])
                                THEN [f EXCEPT !.pc = "wait", !.asleep = TRUE]
                                ELSE NextCpu(f)]
  BY DEF FlushStep
<1>3. \A x, y : x.cpu = y.cpu /\ x.need = y.need /\ x.owed = y.owed => (OwedBy(x) <=> OwedBy(y))
  BY Zenon DEF OwedBy, Gap
<1> SUFFICES ASSUME NEW u \in Flushers, fl'[u].pc = "wait" PROVE OwedBy(fl'[u])
  BY <1>1 DEF OwedInv, OwedBy, Gap, Window, Plus, Half
<1>4. u \in Task
  BY DEF Task
<1>5. CASE u # t
  BY <1>1, <1>2, <1>4, <1>5 DEF OwedInv
<1>6. CASE u = t
  <2>1. NextCpu(f).pc # "wait"
    BY DEF NextCpu, NoFlush
  <2>2. fl'[t] = [f EXCEPT !.pc = "wait", !.asleep = TRUE]
    BY <1>1, <1>2, <1>6, <2>1
  <2>3. fl'[t].cpu = f.cpu /\ fl'[t].need = f.need /\ fl'[t].owed = f.owed
    BY <2>2 DEF FlushCall
  <2> QED BY <1>3, <1>6, <2>3
<1> QED BY <1>5, <1>6

(* The record with which flush_cpu_workqueue() enters its loop.            *)
Sample(f) == [f EXCEPT !.need = insert_sequence[f.cpu], !.owed = Outstanding(f.cpu)]

(* It is a flush of the same queue.                                        *)
LEMMA SampleFacts ==
  ASSUME HolderInv, NEW f \in FlushCall
  PROVE  /\ Sample(f) \in FlushCall /\ Sample(f).cpu = f.cpu /\ f.cpu \in CPU
         /\ Sample(f).need = insert_sequence[f.cpu] /\ Sample(f).owed = Outstanding(f.cpu)
<1>1. f.cpu \in CPU
  BY DEF FlushCall
<1>2. insert_sequence[f.cpu] \in Long
  BY <1>1 DEF HolderInv, TypeOK
<1>3. Outstanding(f.cpu) \subseteq Long
  <2> DEFINE c == f.cpu
  <2>1. worklist[c] \in Seq(Entry) /\ frames[c] \in Seq(Entry)
    BY <1>1 DEF HolderInv, TypeOK
  <2>2. /\ \A i \in DOMAIN worklist[c] : worklist[c][i] \in Entry
        /\ \A i \in DOMAIN frames[c] : frames[c][i] \in Entry
    BY <2>1
  <2>3. \A x \in Entry : x.id \in Long
    BY DEF Entry
  <2> HIDE DEF c
  <2>4. Outstanding(c) \subseteq Long
    BY <2>2, <2>3 DEF Outstanding
  <2> QED BY <2>4 DEF c
<1> QED BY <1>1, <1>2, <1>3 DEF Sample, FlushCall

(* A flush that samples is owed what is outstanding, and no more.          *)
LEMMA OwedSample ==
  ASSUME HolderInv, SeqInv, FlushAssumption, NEW f \in FlushCall
  PROVE  OwedBy(Sample(f))
<1>1. /\ f.cpu \in CPU /\ Sample(f).cpu = f.cpu
      /\ Sample(f).need = insert_sequence[f.cpu] /\ Sample(f).owed = Outstanding(f.cpu)
  BY SampleFacts
<1>2. LET r == remove_sequence[f.cpu]
          g == (insert_sequence[f.cpu] - r) % LongMod
      IN g < Half /\ Outstanding(f.cpu) \subseteq Window(r, g)
  BY <1>1, Sampled
<1> QED BY <1>1, <1>2 DEF OwedBy, Gap

(* Every step keeps what flushes are owed before sequence_needed.          *)
LEMMA OwedStep ==
  ASSUME HolderInv, SeqInv, OwedInv, FlushAssumption, [Next]_vars
  PROVE  OwedInv'
<1> USE DEF workVars, cwqVars, thrVars
<1>1. ASSUME UNCHANGED remove_sequence,
             \A t \in Flushers : fl'[t] = fl[t] \/ fl'[t].pc # "wait"
      PROVE  OwedInv'
  BY <1>1 DEF OwedInv, OwedBy, Gap, Window, Plus, Half
<1>2. ASSUME NEW c \in CPU, NEW w \in Works,
             QueueWork(c, w) \/ QueueWorkInsert(c, w) \/ TimerExpire(c, w)
      PROVE  OwedInv'
  BY <1>1, <1>2 DEF QueueWork, QueueWorkInsert, InsertWork, TimerExpire
<1>3. ASSUME NEW w \in Works,
             QueueDelayedWork(w) \/ CancelDelayedWork(w) \/ CancelClear(w)
      PROVE  OwedInv'
  BY <1>1, <1>3 DEF QueueDelayedWork, CancelDelayedWork, CancelClear
<1>4. ASSUME NEW c \in CPU, DelayedWorkTimerFn(c) PROVE OwedInv'
  BY <1>1, <1>4 DEF DelayedWorkTimerFn, InsertWork
<1>5. ASSUME NEW c \in CPU, Worker(c) PROVE OwedInv'
  <2>1. CASE FinishWork(c)
    BY <2>1, OwedFinish
  <2>2. CASE \/ WorkerAddWait(c) \/ WorkerCheck(c) \/ WorkerWake(c)
             \/ WorkerRemoveWait(c) \/ WorkerRun(c) \/ WorkerRearm(c) \/ CallHandler(c)
    BY <1>1, <2>2 DEF WorkerAddWait, WorkerCheck, WorkerWake, WorkerRemoveWait,
                      WorkerRun, WorkerRearm, CallHandler
  <2> QED BY <1>5, <2>1, <2>2 DEF Worker
<1>6. ASSUME NEW c \in CPU, FlushOwn(c) PROVE FALSE
  BY <1>6 DEF FlushOwn, SeqInv, SeqOk
<1>7. ASSUME NEW t \in Task, FlushBegin(t) PROVE OwedInv'
  <2>1. fl' = [fl EXCEPT ![t] = [NoFlush EXCEPT !.pc = "enter"]] /\ UNCHANGED remove_sequence
    BY <1>7 DEF FlushBegin
  <2>2. [NoFlush EXCEPT !.pc = "enter"].pc # "wait"
    BY DEF NoFlush
  <2>3. \A u \in Flushers : fl'[u] = fl[u] \/ fl'[u].pc # "wait"
    BY <2>1, <2>2 DEF Task, HolderInv, TypeOK
  <2> QED BY <1>1, <2>1, <2>3
<1>8. ASSUME NEW t \in Task, Flush(t) PROVE OwedInv'
  <2>1. fl[t] \in FlushCall
    BY DEF HolderInv, TypeOK
  <2>2. CASE FlushSample(t)
    <3>1. FlushStep(t, Sample(fl[t]))
      BY <2>2 DEF FlushSample, Sample
    <3> QED BY <2>1, <3>1, OwedSample, SampleFacts, OwedLook
  <2>3. CASE FlushRecheck(t)
    <3>1. FlushStep(t, fl[t]) /\ fl[t].pc = "wait"
      BY <2>3 DEF FlushRecheck
    <3>2. t \in Flushers
      BY <3>1 DEF SeqInv, SeqOk, Task
    <3> QED BY <2>1, <3>1, <3>2, OwedLook DEF OwedInv
  <2> QED BY <1>8, <2>2, <2>3 DEF Flush
<1>9. CASE UNCHANGED vars
  BY <1>1, <1>9 DEF vars
<1> QED BY <1>2, <1>3, <1>4, <1>5, <1>6, <1>7, <1>8, <1>9 DEF Next

(* A flush that is done with a queue is not where it was.                  *)
LEMMA NextCpuMoves ==
  ASSUME NEW f \in FlushCall, NEW g, f.pc \in {"enter", "wait"}, g.pc = f.pc, g.cpu = f.cpu
  PROVE  g # NextCpu(f)
<1>1. f.cpu \in Int
  BY WorkqueueAssumption DEF FlushCall, CPU
<1>2. CASE f.cpu = NCPU - 1
  BY <1>2 DEF NextCpu, NoFlush
<1>3. CASE f.cpu # NCPU - 1
  <2>1. NextCpu(f).cpu = f.cpu + 1
    BY <1>3 DEF NextCpu, NoFlush
  <2>2. f.cpu + 1 # f.cpu
    BY <1>1
  <2> QED BY <2>1, <2>2
<1> QED BY <1>2, <1>3

(* The comparison of the sequence numbers, for a flush that does not wait. *)
LEMMA NotAfter ==
  ASSUME HolderInv, FlushAssumption, NEW f \in FlushCall, OwedBy(f),
         ~After(f.need, remove_sequence[f.cpu])
  PROVE  f.owed = {}
<1>1. f.need \in Long /\ remove_sequence[f.cpu] \in Long
  BY DEF FlushCall, HolderInv, TypeOK
<1>2. Gap(f) \in Nat /\ ~(Gap(f) > 0 /\ Gap(f) < Half)
  BY <1>1, GapStep DEF Gap, After, Half
<1>3. Half \in Nat
  BY HalfFacts
<1>4. CASE Gap(f) < Half
  <2>1. Gap(f) = 0
    BY <1>2, <1>4
  <2>2. 0 .. Gap(f) - 1 = {}
    BY <2>1
  <2> QED BY <1>4, <2>2 DEF OwedBy, Window
<1>5. CASE ~(Gap(f) < Half)
  BY <1>5 DEF OwedBy
<1> QED BY <1>4, <1>5

(* A flush leaves a queue only when nothing of what it waits for is left.  *)
LEMMA FlushLeaves ==
  ASSUME HolderInv, SeqInv, OwedInv, FlushAssumption, [Next]_vars,
         NEW t \in Flushers, fl[t].pc \in {"enter", "wait"}, fl'[t] = NextCpu(fl[t])
  PROVE  IF fl[t].pc = "enter" THEN Outstanding(fl[t].cpu) = {} ELSE fl[t].owed = {}
<1> USE DEF workVars, cwqVars, thrVars
<1>1. t \in Task /\ fl[t] \in FlushCall /\ t \notin CPU /\ fl \in [Task -> FlushCall]
  BY WorkqueueAssumption DEF Task, HolderInv, TypeOK
<1>2. ~(fl'[t].pc = fl[t].pc /\ fl'[t].cpu = fl[t].cpu)
  BY <1>1, NextCpuMoves
<1>3. ASSUME NEW c \in CPU, FinishWork(c) PROVE FALSE
  <2>1. fl' = WakeFlushers(c, remove_sequence[c])
    BY <1>3, SeqFinish
  <2>2. fl'[t].pc = fl[t].pc /\ fl'[t].cpu = fl[t].cpu
    BY <1>1, <2>1 DEF WakeFlushers, FlushCall
  <2> QED BY <1>2, <2>2
<1>4. CASE Flush(t)
  <2>1. NextCpu(fl[t]).pc # "wait"
    BY DEF NextCpu, NoFlush
  <2>2. ASSUME NEW f \in FlushCall, FlushStep(t, f), OwedBy(f) PROVE f.owed = {}
    <3>1. fl'[t] = IF After(f.need, remove_sequence[f.cpu])
                     THEN [f EXCEPT !.pc = "wait", !.asleep = TRUE]
                     ELSE NextCpu(f)
      BY <1>1, <2>2 DEF FlushStep
    <3>2. [f EXCEPT !.pc = "wait", !.asleep = TRUE].pc = "wait"
      BY DEF FlushCall
    <3>3. ~After(f.need, remove_sequence[f.cpu])
      BY <2>1, <3>1, <3>2
    <3> QED BY <2>2, <3>3, NotAfter
  <2>3. CASE FlushSample(t)
    <3>1. FlushStep(t, Sample(fl[t])) /\ fl[t].pc = "enter"
      BY <2>3 DEF FlushSample, Sample
    <3>2. Sample(fl[t]) \in FlushCall /\ Sample(fl[t]).owed = Outstanding(fl[t].cpu)
      BY <1>1, SampleFacts
    <3>3. OwedBy(Sample(fl[t]))
      BY <1>1, OwedSample
    <3> QED BY <2>2, <3>1, <3>2, <3>3
  <2>4. CASE FlushRecheck(t)
    <3>1. FlushStep(t, fl[t]) /\ fl[t].pc = "wait"
      BY <2>4 DEF FlushRecheck
    <3> QED BY <1>1, <2>2, <3>1 DEF OwedInv
  <2> QED BY <1>4, <2>3, <2>4 DEF Flush
<1>5. ASSUME fl'[t] = fl[t] PROVE FALSE
  BY <1>2, <1>5
<1>6. ASSUME NEW u \in Task, u # t, FlushBegin(u) \/ Flush(u) PROVE FALSE
  BY <1>1, <1>5, <1>6 DEF FlushBegin, Flush, FlushSample, FlushRecheck, FlushStep
<1>7. ~FlushBegin(t)
  BY DEF FlushBegin
<1>8. ASSUME NEW c \in CPU, FlushOwn(c) PROVE FALSE
  BY <1>8 DEF FlushOwn, SeqInv, SeqOk
<1>9. ASSUME NEW c \in CPU, Worker(c) PROVE FALSE
  BY <1>3, <1>5, <1>9 DEF Worker, WorkerAddWait, WorkerCheck, WorkerWake, WorkerRemoveWait,
                          WorkerRun, WorkerRearm, CallHandler
<1>10. ASSUME NEW c \in CPU, NEW w \in Works,
              QueueWork(c, w) \/ QueueWorkInsert(c, w) \/ TimerExpire(c, w)
       PROVE  FALSE
  BY <1>5, <1>10 DEF QueueWork, QueueWorkInsert, InsertWork, TimerExpire
<1>11. ASSUME NEW w \in Works,
              QueueDelayedWork(w) \/ CancelDelayedWork(w) \/ CancelClear(w)
       PROVE  FALSE
  BY <1>5, <1>11 DEF QueueDelayedWork, CancelDelayedWork, CancelClear
<1>12. ASSUME NEW c \in CPU, DelayedWorkTimerFn(c) PROVE FALSE
  BY <1>5, <1>12 DEF DelayedWorkTimerFn, InsertWork
<1>13. ~UNCHANGED vars
  BY <1>5 DEF vars
<1> QED BY <1>4, <1>6, <1>7, <1>8, <1>9, <1>10, <1>11, <1>12, <1>13 DEF Next

(* flush_workqueue() from outside the queue returns only when every work   *)
(* that was queued or running when it looked has run to completion, for    *)
(* any number of CPUs, works and flushers, if handlers do not flush.       *)
THEOREM FlushReturnsAlways ==
  ASSUME FlushAssumption
  PROVE  Spec => FlushReturns
<1> DEFINE Leave == \A t \in Flushers :
                      fl[t].pc \in {"enter", "wait"} /\ fl'[t] = NextCpu(fl[t]) =>
                        IF fl[t].pc = "enter" THEN Outstanding(fl[t].cpu) = {}
                                              ELSE fl[t].owed = {}
<1>1. Init => SeqInv /\ OwedInv
  <2> SUFFICES ASSUME Init PROVE SeqInv /\ OwedInv
    OBVIOUS
  <2>1. LongMod \in Nat \ {0}
    BY WorkqueueAssumption
  <2>2. \A c \in CPU : SeqOk(c)
    <3> SUFFICES ASSUME NEW c \in CPU PROVE SeqOk(c)
      OBVIOUS
    <3>1. c \in Task
      BY DEF Task
    <3> QED BY <2>1, <3>1 DEF Init, SeqOk, Plus, NoFlush
  <2>3. OwedInv
    BY DEF Init, OwedInv, NoFlush, Task
  <2> QED BY <2>2, <2>3 DEF SeqInv
<1>2. HolderInv /\ SeqInv /\ OwedInv /\ [Next]_vars => SeqInv' /\ OwedInv' /\ Leave
  BY SeqStep, OwedStep, FlushLeaves
<1>3. Spec => [][Leave]_vars
  <2> HIDE DEF Leave
  <2> QED BY <1>1, <1>2, HolderCorrect, PTL DEF Spec
<1> QED BY <1>3 DEF FlushReturns
=============================================================================
