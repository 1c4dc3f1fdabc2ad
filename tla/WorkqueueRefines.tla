-------------------------- MODULE WorkqueueRefines --------------------------
(***************************************************************************)
(* The workqueue implements DelayedWork, what a driver may rely on.        *)
(***************************************************************************)
EXTENDS Workqueue

(* The abstract place of a work.  It is handed over when its timer is       *)
(* detached, and cancelled when the pending bit is cleared.                 *)
WhereOf(w) == CASE ~pending[w]                    -> "idle"
                [] pending[w] /\ (timer[w] \/ w \in cancelling) -> "delayed"
                [] OTHER                          -> "queued"

(* The positions of the stack of c whose function has been called: all but  *)
(* the last one while run_workqueue() has not reached it.                   *)
Called(c) == DOMAIN frames[c] \ (IF tpc[c] = "taken" THEN {Len(frames[c])} ELSE {})

RunningOf(w) ==
  Cardinality({x \in UNION {{c} \X Called(c) : c \in CPU} :
                 frames[x[1]][x[2]].work = w})

Abs == INSTANCE DelayedWork
         WITH where   <- [w \in Works |-> WhereOf(w)],
              running <- [w \in Works |-> RunningOf(w)]

(* Every step of the workqueue is a step of DelayedWork or invisible to it: *)
(* in particular a work runs once per schedule, a cancel that succeeds      *)
(* means that it does not run, and one that comes too late changes nothing. *)
ImplementsDelayedWork == Abs!Spec

(* And the fairness that DelayedWork promises is kept as well: a work that  *)
(* is delayed or queued is run or cancelled, so the pending bit never stays *)
(* set for ever, which would make every later schedule_work() of it a       *)
(* silent no-op.                                                            *)
KeepsDelayedWorkFair == Abs!FairSpec
=============================================================================
