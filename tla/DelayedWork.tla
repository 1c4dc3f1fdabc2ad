---------------------------- MODULE DelayedWork ----------------------------
(***************************************************************************)
(* What include/linux/workqueue.h promises the users of a work_struct,     *)
(* without worklists, threads or the pending bit: a work is idle, waits    *)
(* for its delay, or waits for a worker; scheduling one that is not idle   *)
(* does nothing; cancelling takes back only a work still in its delay; and *)
(* a run belongs to exactly one schedule.  Workqueue implements this       *)
(* module, and the drivers' modules are written against it.                *)
(***************************************************************************)
EXTENDS Naturals

CONSTANT Works

VARIABLES
  where,    \* the work is "idle", "delayed" or "queued"
  running   \* how many workers are inside its function

dwVars == <<where, running>>

Init == where = [w \in Works |-> "idle"] /\ running = [w \in Works |-> 0]

Move(w, from, to) == where[w] = from /\ where' = [where EXCEPT ![w] = to]

Schedule(w)        == Move(w, "idle", "queued")    /\ UNCHANGED running
ScheduleDelayed(w) == Move(w, "idle", "delayed")   /\ UNCHANGED running
Expire(w)          == Move(w, "delayed", "queued") /\ UNCHANGED running
Cancel(w)          == Move(w, "delayed", "idle")   /\ UNCHANGED running

(* A worker calls the function; the work may be scheduled again meanwhile.  *)
Start(w) ==
  /\ Move(w, "queued", "idle")
  /\ running' = [running EXCEPT ![w] = @ + 1]

Finish(w) ==
  /\ running[w] > 0
  /\ running' = [running EXCEPT ![w] = @ - 1]
  /\ UNCHANGED where

Next == \E w \in Works :
  \/ Schedule(w) \/ ScheduleDelayed(w) \/ Expire(w) \/ Cancel(w)
  \/ Start(w) \/ Finish(w)

Spec == Init /\ [][Next]_dwVars

(* Delays end, and workers get to every queued work.  That its function     *)
(* returns is up to the function: one that flushes the queue it runs from   *)
(* stays in flush_workqueue() as long as works keep being queued.           *)
FairSpec ==
  /\ Spec
  /\ \A w \in Works : WF_dwVars(Expire(w)) /\ WF_dwVars(Start(w))
=============================================================================
