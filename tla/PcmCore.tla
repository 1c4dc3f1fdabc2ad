------------------------------ MODULE PcmCore ------------------------------
(***************************************************************************)
(* sound/core/{pcm_native,pcm_lib}.c: the run-time state of one playback   *)
(* substream and what the middle layer does to it under the stream lock,   *)
(* with interrupts off.  A frame is a byte, as on the HP 6xx (U8, mono).   *)
(*                                                                         *)
(* The driver's callbacks are the business of the module that extends this *)
(* one.  silence_size is 0 and the buffer is not mapped: the application   *)
(* writes.                                                                 *)
(***************************************************************************)
EXTENDS Integers

CONSTANTS
  Configs,      \* <<buffer_size, period_size>> that hw_params() may choose
  BoundFactor   \* boundary / buffer_size, a power of two, at least 4

ASSUME PcmAssumption ==
  /\ \A k \in Configs : /\ k[1] \in Nat \ {0} /\ k[2] \in Nat \ {0}
                        /\ k[1] % k[2] = 0
  /\ BoundFactor \in Nat /\ BoundFactor >= 4

VARIABLES
  state,             \* runtime->status->state, "CLOSED" when there is none
  buffer_size, period_size, start_threshold, xfer_align,
  hw_ptr,            \* runtime->status->hw_ptr
  hw_ptr_base, hw_ptr_interrupt,
  appl_ptr           \* runtime->control->appl_ptr

params == <<buffer_size, period_size, start_threshold, xfer_align>>
hwPtrs == <<hw_ptr, hw_ptr_base, hw_ptr_interrupt>>
pcm    == <<state, params, hwPtrs, appl_ptr>>

Boundary       == buffer_size * BoundFactor
Stop_threshold == buffer_size      \* what hw_params() sets
Avail_min      == period_size

PcmState == {"CLOSED", "OPEN", "SETUP", "PREPARED", "RUNNING", "DRAINING", "XRUN"}
Running  == state \in {"RUNNING", "DRAINING"}

(* snd_pcm_playback_avail() for given pointers, and the data left.          *)
AvailAt(hw, appl) == LET a == hw + buffer_size - appl
                     IN IF a < 0 THEN a + Boundary
                        ELSE IF a >= Boundary THEN a - Boundary ELSE a
Avail == AvailAt(hw_ptr, appl_ptr)

PcmInit ==
  /\ state = "CLOSED"
  /\ buffer_size = 0 /\ period_size = 0 /\ start_threshold = 0 /\ xfer_align = 0
  /\ hw_ptr = 0 /\ hw_ptr_base = 0 /\ hw_ptr_interrupt = 0 /\ appl_ptr = 0

-----------------------------------------------------------------------------
(* The hardware pointer. *)

NextBase == LET b == hw_ptr_base + buffer_size IN IF b = Boundary THEN 0 ELSE b

(* Mutant of snd_pcm_update_hw_ptr_post(): an underrun is not noticed. *)
PostState_NoXrun(hw) ==
  IF AvailAt(hw, appl_ptr) >= Stop_threshold /\ state = "DRAINING" THEN "SETUP" ELSE state

(* snd_pcm_update_hw_ptr_post(): all played: drained, or an underrun.       *)
PostState(hw) ==
  IF AvailAt(hw, appl_ptr) >= Stop_threshold
    THEN IF state = "DRAINING" THEN "SETUP" ELSE "XRUN"
    ELSE state

(* A position that is behind `due` by less than half a buffer is jitter and *)
(* ignored; one that is behind by more lies in the next buffer.             *)
Behind(pos, due) == due - (hw_ptr_base + pos)
Jitter(pos, due) ==
  Behind(pos, due) > 0 /\ Behind(pos, due) < buffer_size \div 2

MoveHwPtr(pos, nextbuf) ==
  LET base == IF nextbuf THEN NextBase ELSE hw_ptr_base
  IN /\ hw_ptr_base' = base
     /\ hw_ptr' = base + pos
     /\ state'  = PostState(base + pos)

(* snd_pcm_update_hw_ptr()                                                  *)
UpdateHwPtr(pos) ==
  IF Jitter(pos, hw_ptr)
    THEN UNCHANGED <<state, hwPtrs>>
    ELSE MoveHwPtr(pos, Behind(pos, hw_ptr) > 0) /\ UNCHANGED hw_ptr_interrupt

(* snd_pcm_period_elapsed() and snd_pcm_update_hw_ptr_interrupt().          *)
PeriodElapsed(pos) ==
  LET due   == hw_ptr_interrupt + period_size
      whole == period_size = buffer_size
  IN IF ~Running \/ (~whole /\ Jitter(pos, due))
       THEN UNCHANGED <<state, hwPtrs>>
       ELSE /\ MoveHwPtr(pos, whole \/ Behind(pos, due) > 0)
            /\ hw_ptr_interrupt' = hw_ptr' - (hw_ptr' % period_size)

-----------------------------------------------------------------------------
(* The ioctls. *)

(* snd_pcm_hw_params(): the default software parameters, too.               *)
HwParamsPcm(k) ==
  /\ state \in {"OPEN", "SETUP", "PREPARED"} /\ state' = "SETUP"
  /\ buffer_size' = k[1] /\ period_size' = k[2]
  /\ start_threshold' = 1 /\ xfer_align' = k[2]
  /\ UNCHANGED <<hwPtrs, appl_ptr>>

(* snd_pcm_sw_params() as players use it: start when the buffer is full,    *)
(* and accept any number of frames.                                         *)
SwParamsPcm ==
  /\ state \notin {"CLOSED", "OPEN"}
  /\ start_threshold' = buffer_size /\ xfer_align' = 1
  /\ UNCHANGED <<state, buffer_size, period_size, hwPtrs, appl_ptr>>

(* snd_pcm_hw_free()                                                        *)
HwFreePcm ==
  /\ state \in {"SETUP", "PREPARED"} /\ state' = "OPEN"
  /\ UNCHANGED <<params, hwPtrs, appl_ptr>>

(* snd_pcm_prepare(): the pointers start over.                              *)
PreparePcm ==
  /\ state \notin {"CLOSED", "OPEN"} /\ ~Running
  /\ state' = "PREPARED"
  /\ hw_ptr' = 0 /\ hw_ptr_base' = 0 /\ hw_ptr_interrupt' = 0
  /\ appl_ptr' = 0
  /\ UNCHANGED params

(* Must snd_pcm_lib_write1() call snd_pcm_start(), which then starts?       *)
AutoStart(appl) ==
  /\ state = "PREPARED"
  /\ buffer_size - AvailAt(hw_ptr, appl) >= start_threshold
  /\ AvailAt(hw_ptr, appl) < buffer_size
=============================================================================
