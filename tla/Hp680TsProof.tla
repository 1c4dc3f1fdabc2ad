---------------------------- MODULE Hp680TsProof ----------------------------
(***************************************************************************)
(* Proofs about Hp680Ts, for every limit of note_interrupt(): every        *)
(* disable_irq_nosync() of the touchscreen's handler has exactly one       *)
(* enable_irq() to come, and nothing of the driver is left behind when it  *)
(* is unloaded.  The argument is that a work is under way (delayed, queued *)
(* or in do_softint() up to enable_irq()) just while the line is disabled; *)
(* this needs that the line stays masked while the handler runs, so that   *)
(* __do_IRQ() never calls it a second time on its way out.                 *)
(***************************************************************************)
EXTENDS Hp680Ts, TLAPS

(* How far hp680_ts_init() and hp680_ts_exit() get, and do_softint().       *)
Stages   == {"out", "registered", "loaded", "freed", "cancelled", "flushing",
             "flushed"}
Softs    == {"idle", "sample", "report", "enable", "return"}
Enabling == {"sample", "report", "enable"}

(* Types; and every interrupt is handled, so that the line is never stuck.  *)
TsTypes ==
  /\ mod \in Stages /\ hpc \in {"entry", "done"} /\ soft \in Softs
  /\ where \in [{ts} -> {"idle", "delayed", "queued"}]
  /\ running \in [{ts} -> Nat] /\ owed \in Nat
  /\ depth \in Nat /\ irqs_unhandled = 0
  /\ handler = "level" /\ next = [d \in {ts} |-> None]
  /\ walk \in [{cpu} -> {ts, None}]
  /\ first \in [{cpu} -> {ts, None}]
  /\ masked \in BOOLEAN

(* The driver has the line just while it is loaded, and its handler runs    *)
(* only then: with the line masked since ->ack(), so that no instance can   *)
(* come in and make __do_IRQ() start over.                                  *)
HandlerInv ==
  /\ action = IF mod = "loaded" THEN ts ELSE None
  /\ walk[cpu] = ts =>
       /\ mod = "loaded" /\ first[cpu] = ts
       /\ masked /\ "PENDING" \notin status
  /\ walk[cpu] = None => hpc = "entry"
  /\ mod = "loaded" => ("DISABLED" \in status <=> depth > 0)

(* The handler starts with the line enabled.  From its disable_irq_nosync() *)
(* to the enable_irq() of do_softint() there is exactly one work under way: *)
(* waiting for its timer, waiting for the worker, or in do_softint().       *)
DepthInv ==
  /\ mod = "loaded" => depth = (IF WillEnable THEN 1 ELSE 0)
  /\ walk[cpu] = ts /\ hpc = "entry" => depth = 0
  /\ soft \in Enabling => where[ts] = "idle"

(* The one worker; what is left of the work at each stage of the unloading. *)
WorkInv ==
  /\ running[ts] = IF soft = "idle" THEN 0 ELSE 1
  /\ mod \in {"cancelled", "flushing"} => where[ts] # "delayed"
  /\ mod \in {"flushed", "out", "registered"} =>
       where[ts] = "idle" /\ soft = "idle"
  /\ owed = IF mod = "flushing"
              THEN running[ts] + (IF where[ts] = "queued" THEN 1 ELSE 0)
              ELSE 0

TsInv == TsTypes /\ HandlerInv /\ DepthInv /\ WorkInv

-----------------------------------------------------------------------------
(* Before hp680_ts_init() the line is free and nothing is scheduled.       *)
LEMMA TsInit == Init => TsInv
BY IrqAssumption, TsAssumption
DEF Init, DescInit, W!Init, TsInv, TsTypes, Stages, Softs, Enabling,
    HandlerInv, DepthInv, WorkInv, WillEnable

(* The pen changes no more than the request for an interrupt.              *)
LEMMA PenSteps ==
  ASSUME TsInv,
         PenDown \/ PenUp \/ PenRequests
  PROVE  TsInv'
<1> USE IrqAssumption, TsAssumption
    DEF TsInv, TsTypes, Stages, Softs, Enabling, WillEnable, Thread, desc,
        hw, descVars, modVars, softVars
<1>1. CASE PenDown
  BY <1>1 DEF PenDown, HandlerInv, DepthInv, WorkInv
<1>2. CASE PenUp
  BY <1>2 DEF PenUp, HandlerInv, DepthInv, WorkInv
<1>3. CASE PenRequests
  BY <1>3 DEF PenRequests, Raise, HandlerInv, DepthInv, WorkInv
<1> QED BY <1>1, <1>2, <1>3

(* The interrupt, hp680_ts_interrupt() and its return.                     *)
LEMMA IrqSteps ==
  ASSUME TsInv,
         TakeIrq \/ Hp680TsInterrupt \/ IrqReturn
  PROVE  TsInv'
<1> USE IrqAssumption, TsAssumption
    DEF TsInv, TsTypes, Stages, Softs, Enabling, WillEnable, Thread, desc,
        hw, descVars, modVars, softVars
<1>1. CASE TakeIrq
  <2>1. TsTypes'
    BY <1>1
    DEF TakeIrq, DoIRQ, Busy, AckMasks, AckMasked, EndMasked, HandlerInv,
        WorkInv
  <2>2. HandlerInv'
    <3>1. walk[cpu] = None
      BY <1>1 DEF TakeIrq, DoIRQ, HandlerInv
    <3>2. /\ UNCHANGED <<action, mod, depth, hpc>>
          /\ "DISABLED" \in status' <=> "DISABLED" \in status
      BY <1>1 DEF TakeIrq, DoIRQ, Busy
    <3> DEFINE st == (status \ {"REPLAY"}) \cup {"PENDING"}
    <3>3. CASE Busy(st)
      BY <1>1, <3>1, <3>2, <3>3 DEF TakeIrq, DoIRQ, HandlerInv
    <3>4. CASE ~Busy(st)
      <4>1. /\ walk' = [walk EXCEPT ![cpu] = action]
            /\ first' = [first EXCEPT ![cpu] = action]
        BY <1>1, <3>4 DEF TakeIrq, DoIRQ
      <4>2. "PENDING" \notin status'
        BY <1>1, <3>4 DEF TakeIrq, DoIRQ
      <4>3. action # None => masked'
        BY <1>1, <3>4 DEF TakeIrq, DoIRQ, AckMasked, AckMasks
      <4> QED BY <3>1, <3>2, <4>1, <4>2, <4>3 DEF HandlerInv
    <3> QED BY <3>3, <3>4
  <2>3. DepthInv'
    BY <1>1
    DEF TakeIrq, DoIRQ, Busy, AckMasks, AckMasked, EndMasked, DepthInv,
        HandlerInv, WorkInv
  <2>4. WorkInv'
    BY <1>1
    DEF TakeIrq, DoIRQ, Busy, AckMasks, AckMasked, EndMasked, WorkInv,
        HandlerInv, DepthInv
  <2> QED BY <2>1, <2>2, <2>3, <2>4
<1>2. CASE Hp680TsInterrupt
  <2>1. TsTypes'
    BY <1>2
    DEF Hp680TsInterrupt, Disable, W!ScheduleDelayed, W!Move, HandlerInv,
        WorkInv
  <2>2. HandlerInv'
    <3>1. /\ UNCHANGED <<action, mod, walk, first>>
          /\ walk[cpu] = ts /\ depth' = depth + 1
          /\ status' = IF depth = 0 THEN status \cup {"DISABLED"} ELSE status
      BY <1>2 DEF Hp680TsInterrupt, Disable
    <3>2. masked => masked'
      BY <1>2 DEF Hp680TsInterrupt, Disable
    <3> QED BY <3>1, <3>2 DEF HandlerInv
  <2>3. DepthInv'
    BY <1>2
    DEF Hp680TsInterrupt, Disable, W!ScheduleDelayed, W!Move, DepthInv,
        HandlerInv, WorkInv
  <2>4. WorkInv'
    BY <1>2
    DEF Hp680TsInterrupt, Disable, W!ScheduleDelayed, W!Move, WorkInv,
        HandlerInv, DepthInv
  <2> QED BY <2>1, <2>2, <2>3, <2>4
<1>3. CASE IrqReturn
  <2>1. TsTypes'
    BY <1>3
    DEF IrqReturn, LastReturn, Stuck, Unhandled, NoteInterrupt, CountDue,
        Again, EndIrq, EndMasked, AckMasks, HandlerInv, WorkInv
  <2>2. HandlerInv'
    BY <1>3
    DEF IrqReturn, LastReturn, Stuck, Unhandled, NoteInterrupt, CountDue,
        Again, EndIrq, EndMasked, AckMasks, HandlerInv, DepthInv
  <2>3. DepthInv'
    BY <1>3
    DEF IrqReturn, LastReturn, Stuck, Unhandled, NoteInterrupt, CountDue,
        Again, EndIrq, EndMasked, AckMasks, DepthInv, HandlerInv, WorkInv
  <2>4. WorkInv'
    BY <1>3
    DEF IrqReturn, LastReturn, Stuck, Unhandled, NoteInterrupt, CountDue,
        Again, EndIrq, EndMasked, AckMasks, WorkInv, HandlerInv, DepthInv
  <2> QED BY <2>1, <2>2, <2>3, <2>4
<1> QED BY <1>1, <1>2, <1>3

(* The delay of the work, and do_softint().                                *)
LEMMA WorkSteps ==
  ASSUME TsInv,
         Expire \/ SoftintStart \/ SoftintSample
         \/ SoftintReport \/ SoftintEnable \/ SoftintReturn
  PROVE  TsInv'
<1> USE IrqAssumption, TsAssumption
    DEF TsInv, TsTypes, Stages, Softs, Enabling, WillEnable, Thread, desc,
        hw, descVars, modVars, softVars
<1>1. CASE Expire
  <2>1. TsTypes'
    BY <1>1 DEF Expire, W!Expire, W!Move, HandlerInv, WorkInv
  <2>2. HandlerInv'
    BY <1>1 DEF Expire, W!Expire, W!Move, HandlerInv, DepthInv
  <2>3. DepthInv'
    BY <1>1 DEF Expire, W!Expire, W!Move, DepthInv, HandlerInv, WorkInv
  <2>4. WorkInv'
    BY <1>1 DEF Expire, W!Expire, W!Move, WorkInv, HandlerInv, DepthInv
  <2> QED BY <2>1, <2>2, <2>3, <2>4
<1>2. CASE SoftintStart
  <2>1. TsTypes'
    BY <1>2 DEF SoftintStart, W!Start, W!Move, HandlerInv, WorkInv
  <2>2. HandlerInv'
    BY <1>2 DEF SoftintStart, W!Start, W!Move, HandlerInv, DepthInv
  <2>3. DepthInv'
    BY <1>2 DEF SoftintStart, W!Start, W!Move, DepthInv, HandlerInv, WorkInv
  <2>4. WorkInv'
    BY <1>2 DEF SoftintStart, W!Start, W!Move, WorkInv, HandlerInv, DepthInv
  <2> QED BY <2>1, <2>2, <2>3, <2>4
<1>3. CASE SoftintSample
  BY <1>3 DEF SoftintSample, HandlerInv, DepthInv, WorkInv
<1>4. CASE SoftintReport
  BY <1>4 DEF SoftintReport, HandlerInv, DepthInv, WorkInv
<1>5. CASE SoftintEnable
  <2>1. TsTypes'
    <3>1. depth' \in Nat
      BY <1>5 DEF SoftintEnable, Enable
    <3>2. masked' \in BOOLEAN
      BY <1>5 DEF SoftintEnable, Enable
    <3> QED BY <1>5, <3>1, <3>2 DEF SoftintEnable, Enable
  <2>2. HandlerInv'
    BY <1>5 DEF SoftintEnable, Enable, LastEnable, HandlerInv, DepthInv
  <2>3. DepthInv'
    BY <1>5
    DEF SoftintEnable, Enable, LastEnable, DepthInv, HandlerInv, WorkInv
  <2>4. WorkInv'
    BY <1>5
    DEF SoftintEnable, Enable, LastEnable, WorkInv, HandlerInv, DepthInv
  <2> QED BY <2>1, <2>2, <2>3, <2>4
<1>6. CASE SoftintReturn
  <2>1. TsTypes'
    BY <1>6 DEF SoftintReturn, W!Finish, HandlerInv, WorkInv
  <2>2. HandlerInv'
    BY <1>6 DEF SoftintReturn, W!Finish, HandlerInv, DepthInv
  <2>3. DepthInv'
    BY <1>6 DEF SoftintReturn, W!Finish, DepthInv, HandlerInv, WorkInv
  <2>4. WorkInv'
    BY <1>6 DEF SoftintReturn, W!Finish, WorkInv, HandlerInv, DepthInv
  <2> QED BY <2>1, <2>2, <2>3, <2>4
<1> QED BY <1>1, <1>2, <1>3, <1>4, <1>5, <1>6

(* hp680_ts_init() and hp680_ts_exit().                                    *)
LEMMA ModSteps ==
  ASSUME TsInv,
         InitRegister \/ InitRequest \/ InitFails \/ ExitFree
         \/ ExitCancel \/ ExitFlush \/ ExitFlushed \/ ExitUnregister
  PROVE  TsInv'
<1> USE IrqAssumption, TsAssumption
    DEF TsInv, TsTypes, Stages, Softs, Enabling, WillEnable, Thread, desc,
        hw, descVars, modVars, softVars
<1>1. CASE InitRegister
  BY <1>1 DEF InitRegister, GotoMod, ModFrame, HandlerInv, DepthInv, WorkInv
<1>2. CASE InitRequest
  <2>1. TsTypes'
    BY <1>2 DEF InitRequest, GotoMod, ModFrame, Setup, HandlerInv, WorkInv
  <2>2. HandlerInv'
    BY <1>2 DEF InitRequest, GotoMod, ModFrame, Setup, HandlerInv, DepthInv
  <2>3. DepthInv'
    BY <1>2
    DEF InitRequest, GotoMod, ModFrame, Setup, DepthInv, HandlerInv, WorkInv
  <2>4. WorkInv'
    BY <1>2
    DEF InitRequest, GotoMod, ModFrame, Setup, WorkInv, HandlerInv, DepthInv
  <2> QED BY <2>1, <2>2, <2>3, <2>4
<1>3. CASE InitFails
  BY <1>3 DEF InitFails, GotoMod, ModFrame, HandlerInv, DepthInv, WorkInv
<1>4. CASE ExitFree
  <2>1. TsTypes'
    BY <1>4 DEF ExitFree, GotoMod, ModFrame, Unlink, HandlerInv, WorkInv
  <2>2. HandlerInv'
    BY <1>4 DEF ExitFree, GotoMod, ModFrame, Unlink, HandlerInv, DepthInv
  <2>3. DepthInv'
    BY <1>4
    DEF ExitFree, GotoMod, ModFrame, Unlink, DepthInv, HandlerInv, WorkInv
  <2>4. WorkInv'
    BY <1>4
    DEF ExitFree, GotoMod, ModFrame, Unlink, WorkInv, HandlerInv, DepthInv
  <2> QED BY <2>1, <2>2, <2>3, <2>4
<1>5. CASE ExitCancel
  <2>1. TsTypes'
    BY <1>5
    DEF ExitCancel, GotoMod, ModFrame, W!Cancel, W!Move, HandlerInv, WorkInv
  <2>2. HandlerInv'
    BY <1>5
    DEF ExitCancel, GotoMod, ModFrame, W!Cancel, W!Move, HandlerInv,
        DepthInv
  <2>3. DepthInv'
    BY <1>5
    DEF ExitCancel, GotoMod, ModFrame, W!Cancel, W!Move, DepthInv,
        HandlerInv, WorkInv
  <2>4. WorkInv'
    BY <1>5
    DEF ExitCancel, GotoMod, ModFrame, W!Cancel, W!Move, WorkInv,
        HandlerInv, DepthInv
  <2> QED BY <2>1, <2>2, <2>3, <2>4
<1>6. CASE ExitFlush
  <2>1. TsTypes'
    BY <1>6 DEF ExitFlush, GotoMod, ModFrame, HandlerInv, WorkInv
  <2>2. HandlerInv'
    BY <1>6 DEF ExitFlush, GotoMod, ModFrame, HandlerInv, DepthInv
  <2>3. DepthInv'
    BY <1>6 DEF ExitFlush, GotoMod, ModFrame, DepthInv, HandlerInv, WorkInv
  <2>4. WorkInv'
    BY <1>6 DEF ExitFlush, GotoMod, ModFrame, WorkInv, HandlerInv, DepthInv
  <2> QED BY <2>1, <2>2, <2>3, <2>4
<1>7. CASE ExitFlushed
  BY <1>7 DEF ExitFlushed, GotoMod, ModFrame, HandlerInv, DepthInv, WorkInv
<1>8. CASE ExitUnregister
  BY <1>8 DEF ExitUnregister, GotoMod, ModFrame, HandlerInv, DepthInv, WorkInv
<1> QED BY <1>1, <1>2, <1>3, <1>4, <1>5, <1>6, <1>7, <1>8

(* Every step of the driver, the line and the work queue keeps TsInv.      *)
LEMMA TsNext == TsInv /\ [Next]_vars => TsInv'
<1> SUFFICES ASSUME TsInv, [Next]_vars PROVE TsInv'
  OBVIOUS
<1>1. CASE Next
  BY <1>1, PenSteps, IrqSteps, WorkSteps, ModSteps DEF Next, Irq, Softint
<1>2. CASE UNCHANGED vars
  BY <1>2
  DEF vars, descVars, desc, hw, modVars, softVars, TsInv, TsTypes, HandlerInv,
      DepthInv, WorkInv, WillEnable
<1> QED BY <1>1, <1>2

(* TsInv holds in every reachable state of the driver, its interrupt line  *)
(* and its work.                                                           *)
THEOREM TsCorrect == Spec => []TsInv
BY TsInit, TsNext, PTL DEF Spec

(* While the driver is loaded the line is disabled just when a work is on  *)
(* its way to enable it: neither does the touchscreen go dead, nor does    *)
(* do_softint() enable a line that is enabled.                             *)
THEOREM DisableHasEnableAlways == Spec => []DisableHasEnable
<1>1. TsInv => DisableHasEnable
  BY DEF TsInv, DepthInv, DisableHasEnable
<1> QED BY <1>1, TsCorrect, PTL

(* After flush_scheduled_work() in hp680_ts_exit() there is no timer, no   *)
(* queued work, no worker in do_softint() and no handler left.             *)
THEOREM UnloadedIsQuietAlways == Spec => []UnloadedIsQuiet
<1>1. TsInv => UnloadedIsQuiet
  BY IrqAssumption, TsAssumption
  DEF TsInv, TsTypes, HandlerInv, WorkInv, UnloadedIsQuiet, Thread
<1> QED BY <1>1, TsCorrect, PTL
=============================================================================
