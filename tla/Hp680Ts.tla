------------------------------ MODULE Hp680Ts ------------------------------
(***************************************************************************)
(* drivers/input/touchscreen/hp680_ts_input.c on the interrupt line of     *)
(* IrqDesc and the delayed work of DelayedWork: the handler disables its   *)
(* own line and hands over to a work 50 ms later, which samples the pen    *)
(* and enables the line again.  The module can be unloaded at any time.    *)
(*                                                                         *)
(* The machine has one processor: threads and timers run only while no     *)
(* interrupt handler does.                                                 *)
(***************************************************************************)
EXTENDS IrqDesc

CONSTANTS cpu, ts   \* the processor, and the driver

ASSUME TsAssumption ==
  CPUs = {cpu} /\ Drivers = {ts} /\ ~Shared /\ Controllers = {"level"}

VARIABLES
  mod,      \* how far hp680_ts_init() or hp680_ts_exit() got
  hpc,      \* has this call of hp680_ts_interrupt() done its work?
  where,    \* where `work` is, see DelayedWork
  running,  \* how many workers are in do_softint(): one at most
  soft,     \* control point of do_softint()
  touched,  \* its `touched`
  owed,     \* runs of `work` that flush_scheduled_work() still waits for
  pen,      \* is the pen down?
  btn       \* the last BTN_TOUCH reported

W == INSTANCE DelayedWork WITH Works <- {ts}

modVars  == <<mod, owed>>
softVars == <<soft, touched, btn>>
vars     == <<descVars, hpc, where, running, modVars, softVars, pen>>

Init ==
  /\ DescInit /\ W!Init
  /\ mod = "out" /\ owed = 0 /\ hpc = "entry"
  /\ soft = "idle" /\ touched = FALSE /\ btn = FALSE /\ pen = FALSE

Thread == walk[cpu] = None   \* the processor is not in an interrupt handler

-----------------------------------------------------------------------------
(* The pen.  Down, it requests an interrupt; whether the request stands     *)
(* while the pen is down, or only its edge is latched, is up to the board.  *)

PenDown ==
  /\ ~pen /\ pen' = TRUE /\ raised' = TRUE
  /\ UNCHANGED <<desc, masked, walk, first, ret, hpc, where, running, modVars,
                 softVars>>

PenUp ==
  /\ pen /\ pen' = FALSE /\ raised' \in {raised, FALSE}
  /\ UNCHANGED <<desc, masked, walk, first, ret, hpc, where, running, modVars,
                 softVars>>

PenRequests ==
  /\ pen /\ Raise
  /\ UNCHANGED <<hpc, where, running, modVars, softVars, pen>>

-----------------------------------------------------------------------------
(* The interrupt. *)

TakeIrq ==
  /\ DoIRQ(cpu)
  /\ UNCHANGED <<hpc, where, running, modVars, softVars, pen>>

(* hp680_ts_interrupt(): disable_irq_nosync() and schedule_delayed_work(),  *)
(* which does nothing if the work is still pending.                         *)
Hp680TsInterrupt ==
  /\ walk[cpu] = ts /\ hpc = "entry" /\ hpc' = "done"
  /\ Disable
  /\ IF where[ts] = "idle" THEN W!ScheduleDelayed(ts) ELSE UNCHANGED <<where, running>>
  /\ UNCHANGED <<modVars, softVars, pen>>

(* return IRQ_HANDLED, and the end of __do_IRQ().                           *)
IrqReturn ==
  /\ walk[cpu] = ts /\ hpc = "done" /\ hpc' = "entry"
  /\ LastReturn(cpu, TRUE)
  /\ UNCHANGED <<where, running, modVars, softVars, pen>>

-----------------------------------------------------------------------------
(* The work. *)

Expire ==
  /\ Thread /\ W!Expire(ts)
  /\ UNCHANGED <<descVars, hpc, modVars, softVars, pen>>

(* do_softint() is called and looks at the pen a first time.                *)
SoftintStart ==
  /\ Thread /\ soft = "idle" /\ W!Start(ts)
  /\ soft' = IF pen THEN "sample" ELSE "report"
  /\ touched' = FALSE
  /\ UNCHANGED <<descVars, hpc, modVars, btn, pen>>

(* The two conversions are done: is the pen still down?                     *)
SoftintSample ==
  /\ Thread /\ soft = "sample" /\ soft' = "report"
  /\ touched' = pen
  /\ UNCHANGED <<descVars, hpc, where, running, modVars, btn, pen>>

(* input_report_key(), input_report_abs() and input_sync().                 *)
SoftintReport ==
  /\ Thread /\ soft = "report" /\ soft' = "enable"
  /\ btn' = touched
  /\ UNCHANGED <<descVars, hpc, where, running, modVars, touched, pen>>

(* Mutant: the line stays disabled when the pen is up. *)
SoftintEnable_IfTouched ==
  /\ Thread /\ soft = "enable" /\ soft' = "return"
  /\ IF touched THEN Enable ELSE UNCHANGED descVars
  /\ UNCHANGED <<hpc, where, running, modVars, touched, btn, pen>>

(* enable_irq(HP680_TS_IRQ)                                                 *)
SoftintEnable ==
  /\ Thread /\ soft = "enable" /\ soft' = "return"
  /\ Enable
  /\ UNCHANGED <<hpc, where, running, modVars, touched, btn, pen>>

(* Mutant: the worker does not count what it has run (remove_sequence). *)
SoftintReturn_Uncounted ==
  /\ Thread /\ soft = "return" /\ soft' = "idle"
  /\ W!Finish(ts)
  /\ UNCHANGED <<descVars, hpc, mod, owed, touched, btn, pen>>

(* do_softint() returns, and run_workqueue() counts it.                     *)
SoftintReturn ==
  /\ Thread /\ soft = "return" /\ soft' = "idle"
  /\ W!Finish(ts)
  /\ owed' = IF owed > 0 THEN owed - 1 ELSE 0
  /\ UNCHANGED <<descVars, hpc, mod, touched, btn, pen>>

-----------------------------------------------------------------------------
(* hp680_ts_init() and hp680_ts_exit(). *)

GotoMod(from, to) == Thread /\ mod = from /\ mod' = to
ModFrame == UNCHANGED <<hpc, softVars, pen>>

(* input_allocate_device() and input_register_device()                      *)
InitRegister ==
  /\ GotoMod("out", "registered")
  /\ UNCHANGED <<descVars, where, running, owed>> /\ ModFrame

InitRequest ==
  /\ GotoMod("registered", "loaded")
  /\ Setup(ts, {})
  /\ UNCHANGED <<where, running, owed>> /\ ModFrame

(* request_irq() fails: input_unregister_device()                           *)
InitFails ==
  /\ GotoMod("registered", "out")
  /\ UNCHANGED <<descVars, where, running, owed>> /\ ModFrame

(* free_irq()                                                               *)
ExitFree ==
  /\ GotoMod("loaded", "freed")
  /\ Unlink(ts, {ts})
  /\ UNCHANGED <<where, running, owed>> /\ ModFrame

(* Mutant: the timer is left armed. *)
ExitCancel_Skip ==
  /\ GotoMod("freed", "cancelled")
  /\ UNCHANGED <<where, running, descVars, owed>> /\ ModFrame

(* cancel_delayed_work(): only a work that waits for its timer is taken     *)
(* back.                                                                    *)
ExitCancel ==
  /\ GotoMod("freed", "cancelled")
  /\ IF where[ts] = "delayed" THEN W!Cancel(ts) ELSE UNCHANGED <<where, running>>
  /\ UNCHANGED <<descVars, owed>> /\ ModFrame

(* flush_scheduled_work() waits for what is queued or running now.          *)
ExitFlush ==
  /\ GotoMod("cancelled", "flushing")
  /\ owed' = running[ts] + (IF where[ts] = "queued" THEN 1 ELSE 0)
  /\ UNCHANGED <<descVars, where, running>> /\ ModFrame

ExitFlushed ==
  /\ owed = 0 /\ GotoMod("flushing", "flushed")
  /\ UNCHANGED <<descVars, where, running, owed>> /\ ModFrame

(* input_unregister_device(); the module's text and data go.                *)
ExitUnregister ==
  /\ GotoMod("flushed", "out")
  /\ UNCHANGED <<descVars, where, running, owed>> /\ ModFrame

-----------------------------------------------------------------------------
Softint == SoftintStart \/ SoftintSample \/ SoftintReport \/ SoftintEnable
             \/ SoftintReturn

Irq == TakeIrq \/ Hp680TsInterrupt \/ IrqReturn

Next ==
  \/ PenDown \/ PenUp \/ PenRequests \/ Irq \/ Expire \/ Softint
  \/ InitRegister \/ InitRequest \/ InitFails
  \/ ExitFree \/ ExitCancel \/ ExitFlush \/ ExitFlushed \/ ExitUnregister

Spec == Init /\ [][Next]_vars

(* The processor takes the interrupts it is given and finishes them, delays *)
(* end and the worker runs; an unload that began goes on.  The worker does  *)
(* not starve under the interrupts of a held pen: the handler itself keeps  *)
(* the line disabled until the worker has run.                              *)
FairSpec ==
  /\ Spec
  /\ WF_vars(Irq) /\ WF_vars(Expire) /\ WF_vars(Softint)
  /\ WF_vars(ExitCancel \/ ExitFlush \/ ExitFlushed \/ ExitUnregister)

-----------------------------------------------------------------------------
(* Properties. *)

(* A worker, or a schedule, that will enable the line again.                *)
WillEnable == where[ts] # "idle" \/ soft \in {"sample", "report", "enable"}

(* Every disable_irq_nosync() of the handler is undone by exactly one       *)
(* enable_irq() of a work: while the driver is loaded and the handler is    *)
(* not running, the line is disabled just when a work is on its way to      *)
(* enable it.  The touchscreen never goes dead, and no enable_irq() hits    *)
(* WARN_ON(1), although schedule_delayed_work() may ignore a call.          *)
DisableHasEnable ==
  mod = "loaded" /\ Thread => depth = (IF WillEnable THEN 1 ELSE 0)

(* Once the module is gone nothing of it is left behind: no timer, no       *)
(* queued work and no worker in do_softint().                               *)
UnloadedIsQuiet ==
  mod \in {"flushed", "out"} => where[ts] = "idle" /\ running[ts] = 0 /\ Thread

(* free_irq(): "if the interrupt line is no longer in use by any driver it  *)
(* is disabled".                                                            *)
FreedLineDisabled == action = None => "DISABLED" \in status

(* A pen that comes down, and so requests an interrupt, and is held down is *)
(* reported, even if the request came while the line was disabled or in the *)
(* middle of do_softint().                                                  *)
PenReported ==
  mod = "loaded" /\ pen /\ raised ~> btn \/ ~pen \/ mod # "loaded"

(* rmmod ends: the flush does not wait for a work that is not coming.       *)
UnloadEnds == mod = "freed" ~> mod = "out"
=============================================================================
