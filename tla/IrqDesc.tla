------------------------------ MODULE IrqDesc ------------------------------
(***************************************************************************)
(* kernel/irq/{handle,manage,spurious}.c: one interrupt line, irq_desc[i]: *)
(* what the CPUs that take its interrupts, and the driver calls, do to it. *)
(*                                                                         *)
(* Sections under desc->lock are atomic.  Handlers run, and                *)
(* handle_IRQ_event() follows action->next, without the lock;              *)
(* synchronize_irq() reads desc->status without it.                        *)
(***************************************************************************)
EXTENDS Naturals, FiniteSets

CONSTANTS
  CPUs,               \* processors the line can interrupt
  Drivers,            \* drivers; each one's irqaction carries its name
  None,               \* NULL
  Shared,             \* do all drivers pass SA_SHIRQ?
  Controllers,        \* the kinds of controller the line may be on
  CountMax,           \* 100000: note_interrupt() looks every CountMax irqs
  UnhandledMax        \* 99900: unhandled irqs tolerated per CountMax

ASSUME IrqAssumption ==
  /\ None \notin Drivers
  /\ CountMax \in Nat \ {0} /\ UnhandledMax \in Nat
  /\ Shared \in BOOLEAN /\ Controllers \subseteq {"level", "edge"}

VARIABLES
  handler,         \* desc->handler: its ->ack() masks a level line
  action,          \* desc->action, the head of the list
  next,            \* action->next of each driver's irqaction
  depth,           \* desc->depth
  status,          \* desc->status, the set of its flags
  irq_count,       \* desc->irq_count
  irqs_unhandled,  \* desc->irqs_unhandled
  masked,          \* is the line masked in the controller?
  raised,          \* does the device (level), or a latch (edge), request?
  walk,            \* the irqaction whose handler the CPU is in, or None
  first,           \* the `action` its __do_IRQ() started from
  ret              \* retval of handle_IRQ_event() so far: IRQ_HANDLED?

desc     == <<handler, action, next, depth, status, irq_count, irqs_unhandled>>
hw       == <<masked, raised>>
descVars == <<desc, hw, walk, first, ret>>

Flags == {"INPROGRESS", "DISABLED", "PENDING", "REPLAY"}

DescInit ==
  /\ handler \in Controllers
  /\ action = None /\ next = [d \in Drivers |-> None]
  /\ depth = 1 /\ status = {"DISABLED"}
  /\ irq_count = 0 /\ irqs_unhandled = 0
  /\ masked = TRUE /\ raised = FALSE
  /\ walk = [c \in CPUs |-> None] /\ first = [c \in CPUs |-> None]
  /\ ret = [c \in CPUs |-> FALSE]

(* Every part of the descriptor keeps its type.                             *)
DescTypeOK ==
  /\ handler \in Controllers /\ action \in Drivers \cup {None}
  /\ next \in [Drivers -> Drivers \cup {None}]
  /\ depth \in Nat /\ status \subseteq Flags
  /\ irq_count \in 0 .. CountMax - 1 /\ irqs_unhandled \in Nat
  /\ masked \in BOOLEAN /\ raised \in BOOLEAN
  /\ walk \in [CPUs -> Drivers \cup {None}]
  /\ first \in [CPUs -> Drivers \cup {None}]
  /\ ret \in [CPUs -> BOOLEAN]

-----------------------------------------------------------------------------
(* Taking an interrupt. *)

(* The device raises its interrupt.                                         *)
Raise ==
  /\ ~raised /\ raised' = TRUE
  /\ UNCHANGED <<desc, masked, walk, first, ret>>

(* ->ack() then, at the end, ->end(), which unmasks unless the line is      *)
(* disabled or another CPU is in its handlers.                              *)
AckMasks  == handler = "level"
AckMasked == masked \/ AckMasks
EndMasked(st, m) ==
  m /\ ~(AckMasks /\ st \cap {"DISABLED", "INPROGRESS"} = {})

(* May __do_IRQ() not commit to handling the interrupt?  The mutant forgets *)
(* that the handlers may be running on another CPU.                         *)
Busy_DisabledOnly(st) == "DISABLED" \in st
Busy(st) == st \cap {"DISABLED", "INPROGRESS"} # {}

(* __do_IRQ() up to handle_IRQ_event(): a line that is disabled or in       *)
(* progress only becomes PENDING; one without an action stays INPROGRESS.   *)
(* Bound: a CPU in the handlers of the line starts no second walk of them.  *)
DoIRQ(c) ==
  /\ raised /\ ~masked /\ (walk[c] = None \/ Busy(status))
  /\ raised' = (raised /\ AckMasks)
  /\ LET st == (status \ {"REPLAY"}) \cup {"PENDING"}
     IN IF Busy(st)
          THEN /\ status' = st /\ masked' = EndMasked(st, AckMasked)
               /\ UNCHANGED <<walk, first, ret>>
          ELSE /\ status' = (st \ {"PENDING"}) \cup {"INPROGRESS"}
               /\ walk'   = [walk EXCEPT ![c] = action]
               /\ first'  = [first EXCEPT ![c] = action]
               /\ ret'    = [ret EXCEPT ![c] = FALSE]
               /\ masked' = IF action = None THEN EndMasked(status', AckMasked)
                                             ELSE AckMasked
  /\ UNCHANGED <<handler, action, next, depth, irq_count, irqs_unhandled>>

(* handle_IRQ_event(): the handler returns, having served its device or     *)
(* not, and the walk goes on along action->next.                            *)
HandlerReturn(c, handled) ==
  /\ walk[c] # None /\ next[walk[c]] # None
  /\ ret'    = [ret EXCEPT ![c] = @ \/ handled]
  /\ raised' = (raised /\ ~(AckMasks /\ handled))
  /\ walk' = [walk EXCEPT ![c] = next[walk[c]]]
  /\ UNCHANGED <<desc, masked, first>>

(* note_interrupt(), under desc->lock: count, and is the line stuck?  The   *)
(* mutant counts one interrupt too many.                                    *)
CountDue_Late == irq_count + 1 > CountMax
CountDue      == irq_count + 1 >= CountMax
Unhandled(handled) == irqs_unhandled + (IF handled THEN 0 ELSE 1)
Stuck(handled)     == CountDue /\ Unhandled(handled) > UnhandledMax
NoteInterrupt(handled) ==
  /\ irq_count'      = IF CountDue THEN 0 ELSE irq_count + 1
  /\ irqs_unhandled' = IF CountDue THEN 0 ELSE Unhandled(handled)

(* Did an instance come in while the handlers ran?  The mutant never looks. *)
Again_Never(st) == FALSE
Again(st) == "PENDING" \in st

(* Leaving __do_IRQ().  Mutants: ->end() is called before IRQ_INPROGRESS is *)
(* cleared; a line just killed as stuck keeps IRQ_INPROGRESS.               *)
EndIrq_EndFirst(st, m) ==
  status' = st \ {"INPROGRESS"} /\ masked' = EndMasked(st, m)
EndIrq_Stuck(st, m) ==
  /\ status' = IF "DISABLED" \in st \ status THEN st ELSE st \ {"INPROGRESS"}
  /\ masked' = EndMasked(status', m)
EndIrq(st, m) ==
  status' = st \ {"INPROGRESS"} /\ masked' = EndMasked(status', m)

(* The last handler returned: __do_IRQ() takes desc->lock, notes the        *)
(* interrupt, and either starts over from the action it began with, because *)
(* an instance came in meanwhile, or clears IRQ_INPROGRESS and ends.        *)
LastReturn(c, handled) ==
  /\ walk[c] # None /\ next[walk[c]] = None
  /\ LET served == ret[c] \/ handled
         st == IF Stuck(served) THEN status \cup {"DISABLED"} ELSE status
         m  == masked \/ Stuck(served)
     IN /\ raised' = (raised /\ ~(AckMasks /\ handled))
        /\ NoteInterrupt(served)
        /\ IF Again(st)
             THEN /\ status' = st \ {"PENDING"} /\ masked' = m
                  /\ walk'   = [walk EXCEPT ![c] = first[c]]
             ELSE /\ EndIrq(st, m)
                  /\ walk'   = [walk EXCEPT ![c] = None]
  /\ ret' = [ret EXCEPT ![c] = FALSE]
  /\ UNCHANGED <<handler, action, next, depth, first>>

-----------------------------------------------------------------------------
(* What the drivers' calls do to the line. *)

(* disable_irq_nosync(), from a handler of the driver or from elsewhere.    *)
Disable ==
  /\ depth'  = depth + 1
  /\ status' = IF depth = 0 THEN status \cup {"DISABLED"} ELSE status
  /\ masked' = (masked \/ depth = 0)
  /\ UNCHANGED <<handler, action, next, irq_count, irqs_unhandled, raised,
                 walk, first, ret>>

(* synchronize_irq() may stop spinning.  The mutant does not wait.          *)
Synchronized_Now == TRUE
Synchronized == "INPROGRESS" \notin status

(* Is this enable_irq() the one that matches the first disable?  The mutant *)
(* takes every one for it.                                                  *)
LastEnable_Any == depth > 0
LastEnable == depth = 1

(* enable_irq(): WARN_ON(1) at depth 0; the last one re-enables the line    *)
(* and marks a pending interrupt REPLAY (hw_resend_irq() does nothing on    *)
(* SH).                                                                     *)
Enable ==
  /\ depth' = IF depth = 0 THEN 0 ELSE depth - 1
  /\ IF LastEnable
       THEN LET st == status \ {"DISABLED"}
            IN /\ status' = IF "PENDING" \in st THEN st \cup {"REPLAY"} ELSE st
               /\ masked' = FALSE
       ELSE UNCHANGED <<status, masked>>
  /\ UNCHANGED <<handler, action, next, irq_count, irqs_unhandled, raised,
                 walk, first, ret>>

(* request_irq(), setup_irq(): the new action goes to the end of the list   *)
(* of a line all share; the first action resets the line and starts it.  A  *)
(* mismatch returns -EBUSY and changes nothing.  `linked` is the list as a  *)
(* set.                                                                     *)
Setup(d, linked) ==
  /\ action # None => Shared
  /\ IF action = None
       THEN /\ action' = d
            /\ next'   = [next EXCEPT ![d] = None]
            /\ depth'  = 0
            /\ status' = status \ {"DISABLED", "INPROGRESS"}
            /\ masked' = FALSE
       ELSE /\ next' = [e \in Drivers |-> IF e = d THEN None
                         ELSE IF e \in linked /\ next[e] = None THEN d ELSE next[e]]
            /\ UNCHANGED <<action, depth, status, masked>>
  /\ UNCHANGED <<handler, irq_count, irqs_unhandled, raised, walk, first, ret>>

(* free_irq() under desc->lock: unlink the action, whose own next pointer   *)
(* stays, and shut the line down when it was the last one.                  *)
Unlink(d, linked) ==
  /\ action' = IF action = d THEN next[d] ELSE action
  /\ next'   = [e \in Drivers |-> IF e \in linked /\ next[e] = d THEN next[d]
                                                             ELSE next[e]]
  /\ status' = IF action' = None THEN status \cup {"DISABLED"} ELSE status
  /\ masked' = (masked \/ action' = None)
  /\ UNCHANGED <<handler, depth, irq_count, irqs_unhandled, raised, walk, first, ret>>
=============================================================================
