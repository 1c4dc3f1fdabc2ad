------------------------------ MODULE IrqCore ------------------------------
(***************************************************************************)
(* One interrupt line and the drivers that request, free, disable and      *)
(* enable it, each one pairing its own calls as the interfaces of          *)
(* kernel/irq/manage.c ask.                                                *)
(***************************************************************************)
EXTENDS IrqDesc

CONSTANT RequestDuringFree  \* may one driver request while another one frees?

ASSUME RequestAssumption == RequestDuringFree \in BOOLEAN

VARIABLES
  drv,  \* where each driver is
  dis   \* its disable_irq() that awaits an enable_irq()

vars == <<descVars, drv, dis>>

DrvPc  == {"absent", "live", "disabling", "freeing", "kfree"}
DisSet == {"no", "nosync", "synced"}

Init ==
  /\ DescInit
  /\ drv = [d \in Drivers |-> "absent"] /\ dis = [d \in Drivers |-> "no"]

(* The drivers whose action is on the list.                                 *)
Listed == {d \in Drivers : drv[d] \in {"live", "disabling"}}

(* disable_irq_nosync()                                                     *)
DisableNosync(d) ==
  /\ drv[d] = "live" /\ dis[d] = "no"
  /\ Disable
  /\ dis' = [dis EXCEPT ![d] = "nosync"]
  /\ UNCHANGED drv

(* disable_irq(): the same, then synchronize_irq() ...                      *)
DisableIrq(d) ==
  /\ drv[d] = "live" /\ dis[d] = "no"
  /\ Disable
  /\ drv' = [drv EXCEPT ![d] = "disabling"]
  /\ dis' = [dis EXCEPT ![d] = "nosync"]

(* ... which spins while IRQ_INPROGRESS is set (desc->action is not NULL:   *)
(* d has not freed its own).                                                *)
DisableSynced(d) ==
  /\ drv[d] = "disabling" /\ Synchronized
  /\ drv' = [drv EXCEPT ![d] = "live"]
  /\ dis' = [dis EXCEPT ![d] = "synced"]
  /\ UNCHANGED descVars

(* enable_irq(), once per disable.                                          *)
EnableIrq(d) ==
  /\ drv[d] = "live" /\ dis[d] # "no"
  /\ Enable
  /\ dis' = [dis EXCEPT ![d] = "no"]
  /\ UNCHANGED drv

(* request_irq()                                                            *)
RequestIrq(d) ==
  /\ drv[d] = "absent"
  /\ RequestDuringFree \/ \A e \in Drivers : drv[e] \notin {"freeing", "kfree"}
  /\ Setup(d, Listed)
  /\ drv' = [drv EXCEPT ![d] = "live"]
  /\ UNCHANGED dis

(* free_irq() by a driver that undid its own disable_irq().                 *)
FreeIrq(d) ==
  /\ drv[d] = "live" /\ dis[d] = "no"
  /\ Unlink(d, Listed)
  /\ drv' = [drv EXCEPT ![d] = "freeing"]
  /\ UNCHANGED dis

(* synchronize_irq() saw IRQ_INPROGRESS clear.                              *)
FreeSynced(d) ==
  /\ drv[d] = "freeing" /\ Synchronized
  /\ drv' = [drv EXCEPT ![d] = "kfree"]
  /\ UNCHANGED <<descVars, dis>>

(* kfree(action): free_irq() returns.                                       *)
FreeDone(d) ==
  /\ drv[d] = "kfree"
  /\ drv' = [drv EXCEPT ![d] = "absent"]
  /\ UNCHANGED <<descVars, dis>>

-----------------------------------------------------------------------------
Return(c) == \E handled \in BOOLEAN :
               HandlerReturn(c, handled) \/ LastReturn(c, handled)

Driver(d) ==
  \/ DisableNosync(d) \/ DisableIrq(d) \/ DisableSynced(d) \/ EnableIrq(d)
  \/ RequestIrq(d) \/ FreeIrq(d) \/ FreeSynced(d) \/ FreeDone(d)

Next ==
  \/ (Raise \/ \E c \in CPUs : DoIRQ(c) \/ Return(c)) /\ UNCHANGED <<drv, dis>>
  \/ \E d \in Drivers : Driver(d)

Spec == Init /\ [][Next]_vars

(* Handlers return, CPUs take the interrupts they are given, and a driver   *)
(* inside disable_irq() or free_irq() keeps running.                        *)
Fairness ==
  /\ \A c \in CPUs : /\ WF_vars(DoIRQ(c) /\ UNCHANGED <<drv, dis>>)
                      /\ WF_vars(Return(c) /\ UNCHANGED <<drv, dis>>)
  /\ \A d \in Drivers :
       WF_vars(DisableSynced(d) \/ FreeSynced(d) \/ FreeDone(d))

FairSpec == Spec /\ Fairness

-----------------------------------------------------------------------------
(* Properties. *)

(* Every variable keeps its type.                                           *)
TypeOK ==
  /\ DescTypeOK
  /\ drv \in [Drivers -> DrvPc] /\ dis \in [Drivers -> DisSet]

(* The handlers of a line never run on two CPUs at once, although they run  *)
(* outside desc->lock: a driver's handler need not be reentrant.            *)
HandlersExclusive ==
  \A c, e \in CPUs : walk[c] # None /\ walk[e] # None => c = e

(* After disable_irq() returned, and until the matching enable_irq(), no    *)
(* handler of the line runs anywhere.                                       *)
DisabledIsQuiet ==
  \A d \in Drivers : dis[d] = "synced" => \A c \in CPUs : walk[c] = None

(* free_irq() "does not return until any executing interrupts for this IRQ  *)
(* have completed": kfree() never frees an action a CPU is in.              *)
FreeWaits ==
  \A d \in Drivers : drv[d] \in {"kfree", "absent"} => \A c \in CPUs : walk[c] # d

(* Disables nest: depth counts the drivers that have the line disabled, and *)
(* while there is one the line is IRQ_DISABLED; nobody's enable_irq() hits  *)
(* WARN_ON(1), and no other driver's call re-enables the line early.        *)
DepthCounts ==
  action # None =>
    /\ depth = Cardinality({d \in Drivers : dis[d] # "no"})
    /\ depth > 0 => "DISABLED" \in status

(* The line is not forgotten masked: enabled and at rest, it can interrupt. *)
EnabledIsUnmasked ==
  action # None /\ "DISABLED" \notin status /\ (\A c \in CPUs : walk[c] = None)
    => ~masked

(* An instance that came in while the handlers ran is not lost: a CPU runs  *)
(* them again, unless the line is disabled meanwhile.                       *)
PendingServed ==
  "PENDING" \in status /\ "INPROGRESS" \in status
    ~> "PENDING" \notin status \/ "DISABLED" \in status

(* disable_irq() returns although the device goes on, and so does the        *)
(* free_irq() of the last driver.                                           *)
SyncReturns ==
  \A d \in Drivers :
    /\ drv[d] = "disabling" ~> drv[d] = "live"
    /\ drv[d] = "freeing" /\ Listed = {} ~> drv[d] = "absent"
=============================================================================
