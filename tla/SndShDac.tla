------------------------------ MODULE SndShDac ------------------------------
(***************************************************************************)
(* snd_sh_dac_audio.c, the ALSA driver of the HP 6xx: a timer interrupt    *)
(* takes one byte at a time from data_buffer to the DAC while an           *)
(* application writes through snd_pcm_lib_write1(), drains and closes.     *)
(*                                                                         *)
(* There are two versions of it: in sound/sh of the kernel tree            *)
(* TRIGGER_STOP does nothing; in the driver of 2009 it resets the buffer   *)
(* and stops the timer, from the interrupt handler too.                    *)
(*                                                                         *)
(* One processor: the interrupt handler is atomic, and so is what a task   *)
(* does under the stream lock.  copy() runs without that lock, so the      *)
(* handler may come between any two of its steps.  Pointers are offsets    *)
(* from data_buffer.                                                       *)
(***************************************************************************)
EXTENDS PcmCore

CONSTANTS
  DataSize,     \* bound: bytes of data_buffer the handler may walk through
  OtherThread,  \* may another thread issue ioctls while one writes?
  Versions      \* of the driver: the values of stop_resets

ASSUME DacAssumption ==
  /\ DataSize \in Nat /\ OtherThread \in BOOLEAN
  /\ Versions \subseteq BOOLEAN

VARIABLES
  buffer_begin, buffer_end, empty, processed,   \* struct snd_sh_dac
  chip_size,    \* chip->buffer_size
  timer,        \* is the timer running?
  stop_resets,  \* is this the driver of 2009?
  early,        \* history: the stream runs, and the handler was in the first
                \* period of the buffer when it was started
  w             \* the task in snd_pcm_lib_write1(), snd_pcm_drain() or close()

dac  == <<buffer_begin, buffer_end, empty, processed, timer>>
hist == <<stop_resets, early>>   \* what the driver does not write
chip == <<dac, chip_size, hist>>
vars == <<pcm, chip, w>>

Idle == [pc |-> "idle", size |-> 0, appl |-> 0, frames |-> 0]

Init ==
  /\ PcmInit
  /\ buffer_begin = 0 /\ buffer_end = 0 /\ empty = TRUE /\ processed = 0
  /\ chip_size = 0 /\ timer = FALSE /\ stop_resets \in Versions /\ early = FALSE
  /\ w = Idle

Min2(a, b) == IF a < b THEN a ELSE b

-----------------------------------------------------------------------------
(* The trigger and the interrupt. *)

(* The buffer is empty, from open() on or after TRIGGER_STOP.               *)
ResetBuffer ==
  buffer_begin' = 0 /\ buffer_end' = 0 /\ processed' = 0 /\ empty' = TRUE

(* snd_pcm_stop() of a stream that runs calls the driver with TRIGGER_STOP. *)
StopTriggers == stop_resets /\ Running /\ state' \notin {"RUNNING", "DRAINING"}
TriggerStop  == ResetBuffer /\ timer' = FALSE
MayStop      == IF StopTriggers THEN TriggerStop ELSE UNCHANGED dac

(* The history of `early` begins with a start and ends with a stop.         *)
FirstPeriod == buffer_begin < period_size
KeepEarly   == early' = (early /\ state' \in {"RUNNING", "DRAINING"})

(* Mutant: the pointer never wraps. *)
Wrap_Never(b) == b

(* The handler starts over one byte before the end of the buffer.           *)
Wrap(b) == IF b = chip_size - 1 THEN 0 ELSE b

(* snd_sh_dac_interrupt(): one byte to the DAC; a period's worth of bytes   *)
(* is reported to the middle layer, before the pointer wraps; the timer     *)
(* stops when the pointer meets buffer_end.                                 *)
Interrupt ==
  /\ timer /\ ~empty /\ buffer_begin < DataSize
  /\ LET b == buffer_begin + 1
         n == processed + 1
         full == n >= period_size
     IN /\ IF full THEN PeriodElapsed(b) ELSE UNCHANGED <<state, hwPtrs>>
        /\ \/ StopTriggers /\ TriggerStop
           \/ /\ ~StopTriggers
              /\ processed' = IF full THEN n - period_size ELSE n
              /\ buffer_begin' = Wrap(b)
              /\ empty' = (Wrap(b) = buffer_end)
              /\ timer' = (Wrap(b) # buffer_end)
              /\ UNCHANGED buffer_end
  /\ KeepEarly
  /\ UNCHANGED <<params, appl_ptr, chip_size, stop_resets, w>>

-----------------------------------------------------------------------------
(* snd_pcm_lib_write1(). *)

Aligned(n) == IF n > xfer_align THEN n - (n % xfer_align) ELSE n

WriteBegin(size) ==
  /\ w = Idle /\ state \in {"PREPARED", "RUNNING"}
  /\ w' = [Idle EXCEPT !.pc = "loop", !.size = Aligned(size)]
  /\ UNCHANGED <<pcm, chip>>

(* Mutant: avail_min is not looked at. *)
NoRoom_AlignOnly(a) == w.size >= xfer_align /\ a < xfer_align

(* Must the writer wait for room?                                           *)
NoRoom(a) ==
  \/ a < Avail_min /\ w.size > a
  \/ w.size >= xfer_align /\ a < xfer_align

(* The piece to transfer next, up to the end of the buffer.                 *)
Piece(a) == Min2(Min2(w.size, Aligned(a)), buffer_size - (appl_ptr % buffer_size))
ToCopy(a) == [w EXCEPT !.pc = "copy", !.appl = appl_ptr, !.frames = Piece(a)]

(* The head of the loop: look where the hardware is, then copy or wait.     *)
WriteLoop ==
  /\ w.pc = "loop" /\ w.size > 0
  /\ IF state = "RUNNING" THEN UpdateHwPtr(buffer_begin)
                          ELSE UNCHANGED <<state, hwPtrs>>
  /\ LET a == AvailAt(hw_ptr', appl_ptr)
     IN w' = IF NoRoom(a) THEN [w EXCEPT !.pc = "wait"] ELSE ToCopy(a)
  /\ MayStop /\ KeepEarly
  /\ UNCHANGED <<params, appl_ptr, chip_size, stop_resets>>

WriteReturn ==
  /\ w.pc = "loop" /\ w.size = 0 /\ w' = Idle
  /\ UNCHANGED <<pcm, chip>>

(* Woken: the stream stopped, or there is room.                             *)
WriteWoken ==
  /\ w.pc = "wait"
  /\ \/ state \in {"XRUN", "DRAINING", "SETUP"} /\ w' = Idle
     \/ state \in {"OPEN", "PREPARED", "RUNNING"} /\ Avail >= Avail_min
        /\ w' = ToCopy(Avail)
  /\ UNCHANGED <<pcm, chip>>

(* A signal, the time-out, or O_NONBLOCK in the first place.                *)
WriteGivesUp ==
  /\ w.pc = "wait" /\ w' = Idle
  /\ UNCHANGED <<pcm, chip>>

(* snd_sh_dac_pcm_copy(): the bytes, then buffer_end ...                    *)
CopyEnd ==
  /\ w.pc = "copy" /\ w' = [w EXCEPT !.pc = "test"]
  /\ buffer_end' = (w.appl % buffer_size) + w.frames
  /\ UNCHANGED <<pcm, buffer_begin, empty, processed, chip_size, timer,
                 hist>>

(* Mutant: copy() does not start the timer. *)
CopyTest_NoStart ==
  /\ w.pc = "test" /\ empty' = FALSE
  /\ w' = [w EXCEPT !.pc = "ack"]
  /\ UNCHANGED <<pcm, buffer_begin, buffer_end, processed, chip_size, timer,
                 hist>>

(* ... if (chip->empty) chip->empty = 0 ...                                 *)
CopyTest ==
  /\ w.pc = "test" /\ empty' = FALSE
  /\ w' = [w EXCEPT !.pc = IF empty THEN "kick" ELSE "ack"]
  /\ UNCHANGED <<pcm, buffer_begin, buffer_end, processed, chip_size, timer,
                 hist>>

(* ... and dac_audio_start_timer().                                         *)
CopyKick ==
  /\ w.pc = "kick" /\ w' = [w EXCEPT !.pc = "ack"]
  /\ timer' = TRUE
  /\ UNCHANGED <<pcm, buffer_begin, buffer_end, empty, processed, chip_size,
                 hist>>

(* Back under the stream lock: appl_ptr moves on from where it was when the *)
(* piece was cut, and the stream starts when start_threshold is reached.    *)
WriteAck ==
  /\ w.pc = "ack"
  /\ \/ state = "XRUN" /\ w' = Idle /\ UNCHANGED <<state, appl_ptr, timer, early>>
     \/ /\ state # "XRUN"
        /\ LET p == w.appl + w.frames
               appl == IF p >= Boundary THEN p - Boundary ELSE p
           IN /\ appl_ptr' = appl
              /\ state' = IF AutoStart(appl) THEN "RUNNING" ELSE state
              /\ timer' = (timer \/ AutoStart(appl))
              /\ early' = IF AutoStart(appl) THEN FirstPeriod ELSE early
        /\ w' = [w EXCEPT !.pc = "loop", !.size = @ - w.frames]
  /\ UNCHANGED <<params, hwPtrs, buffer_begin, buffer_end, empty, processed,
                 chip_size, stop_resets>>

-----------------------------------------------------------------------------
(* The ioctls.  Another thread may issue them while the writer is busy.     *)

CallerFree == w = Idle \/ (OtherThread /\ w.pc # "sync")

(* snd_sh_dac_pcm_open()                                                    *)
Open ==
  /\ w = Idle /\ state = "CLOSED" /\ state' = "OPEN"
  /\ ResetBuffer
  /\ UNCHANGED <<params, hwPtrs, appl_ptr, chip_size, timer, hist, w>>

HwParams(k) == CallerFree /\ HwParamsPcm(k) /\ UNCHANGED <<chip, w>>
SwParams    == CallerFree /\ SwParamsPcm    /\ UNCHANGED <<chip, w>>
HwFree      == CallerFree /\ HwFreePcm      /\ UNCHANGED <<chip, w>>

(* snd_sh_dac_pcm_prepare()                                                 *)
Prepare ==
  /\ CallerFree /\ PreparePcm
  /\ chip_size' = buffer_size
  /\ UNCHANGED <<dac, hist, w>>

(* snd_pcm_drop()                                                           *)
Drop ==
  /\ CallerFree /\ state \notin {"CLOSED", "OPEN"} /\ state' = "SETUP"
  /\ MayStop /\ KeepEarly
  /\ UNCHANGED <<params, hwPtrs, appl_ptr, chip_size, stop_resets, w>>

(* snd_pcm_start(), by ioctl.                                               *)
Start ==
  /\ CallerFree /\ state = "PREPARED" /\ Avail < buffer_size
  /\ state' = "RUNNING" /\ timer' = TRUE /\ early' = FirstPeriod
  /\ UNCHANGED <<params, hwPtrs, appl_ptr, buffer_begin, buffer_end, empty,
                 processed, chip_size, stop_resets, w>>

(* snd_pcm_drain(): start what was written, and wait for the end.  Another  *)
(* thread that drains ends by itself, or like Drop.                         *)
Drain ==
  /\ CallerFree
  /\ \/ /\ state = "PREPARED" /\ Avail < buffer_size
        /\ timer' = TRUE /\ early' = FirstPeriod
     \/ state = "RUNNING" /\ UNCHANGED <<timer, early>>
  /\ state' = "DRAINING"
  /\ w' = IF w = Idle THEN [Idle EXCEPT !.pc = "drain"] ELSE w
  /\ UNCHANGED <<params, hwPtrs, appl_ptr, buffer_begin, buffer_end, empty,
                 processed, chip_size, stop_resets>>

DrainReturn ==
  /\ w.pc = "drain" /\ state # "DRAINING" /\ w' = Idle
  /\ UNCHANGED <<pcm, chip>>

(* A signal, or ten seconds: "playback drain error (DMA or IRQ trouble?)".  *)
DrainGivesUp ==
  /\ w.pc = "drain" /\ state = "DRAINING" /\ w' = Idle
  /\ state' \in {"DRAINING", "SETUP"}
  /\ MayStop /\ KeepEarly
  /\ UNCHANGED <<params, hwPtrs, appl_ptr, chip_size, stop_resets>>

(* snd_pcm_release_substream(): drop, then close() waits in                 *)
(* dac_audio_sync() for the handler to run dry ...                          *)
Release ==
  /\ w = Idle /\ state # "CLOSED"
  /\ state' = IF state = "OPEN" THEN "OPEN" ELSE "SETUP"
  /\ w' = [Idle EXCEPT !.pc = "sync"]
  /\ MayStop /\ KeepEarly
  /\ UNCHANGED <<params, hwPtrs, appl_ptr, chip_size, stop_resets>>

(* ... and dac_audio_stop() stops the timer.                                *)
CloseDone ==
  /\ w.pc = "sync" /\ empty
  /\ state' = "CLOSED" /\ timer' = FALSE /\ w' = Idle
  /\ UNCHANGED <<params, hwPtrs, appl_ptr, buffer_begin, buffer_end, empty,
                 processed, chip_size, hist>>

-----------------------------------------------------------------------------
Writer == WriteLoop \/ WriteReturn \/ WriteWoken \/ CopyEnd \/ CopyTest
            \/ CopyKick \/ WriteAck

Next ==
  \/ Interrupt \/ Writer \/ WriteGivesUp
  \/ \E size \in 1 .. buffer_size : WriteBegin(size)
  \/ Open \/ (\E k \in Configs : HwParams(k)) \/ SwParams \/ HwFree \/ Prepare
  \/ Start \/ Drop \/ Drain \/ DrainReturn \/ DrainGivesUp \/ Release \/ CloseDone

Spec == Init /\ [][Next]_vars

(* A running timer interrupts, and a task that can go on does.              *)
FairSpec == /\ Spec
            /\ WF_vars(Interrupt) /\ WF_vars(Writer) /\ WF_vars(CloseDone)

-----------------------------------------------------------------------------
(* Properties. *)

TaskPc == {"idle", "loop", "wait", "copy", "test", "kick", "ack", "drain", "sync"}

(* Every variable keeps its type; the writer never cuts an empty piece      *)
(* (snd_assert(frames != 0)) or one that leaves the buffer.                 *)
TypeOK ==
  /\ state \in PcmState
  /\ {buffer_size, period_size, start_threshold, xfer_align, hw_ptr, hw_ptr_base,
      hw_ptr_interrupt, appl_ptr, buffer_begin, buffer_end, processed, chip_size}
       \subseteq Nat
  /\ {empty, timer, early} \subseteq BOOLEAN
  /\ w.pc \in TaskPc
  /\ w.pc \in {"copy", "test", "kick", "ack"} => w.frames \in 1 .. buffer_size

(* "The position must be returned in frames, ranged from 0 to buffer_size - *)
(* 1": what pointer() returns to the middle layer while the stream runs.    *)
PointerInRange == Running => buffer_begin < buffer_size

(* The handler's pointer, once within the buffer, wraps before its end, and *)
(* no ioctl in the middle of a write takes it out of there, but for one:    *)
(* prepare() after hw_params() has chosen a smaller buffer.                 *)
PositionKept ==
  [][buffer_begin < chip_size - 1
       => buffer_begin' < chip_size' - 1 \/ chip_size' < chip_size]_vars

(* No stall: bytes that copy() has put in the buffer are being played,      *)
(* whatever the moment at which the handler ran dry and stopped the timer.  *)
NoStall ==
  buffer_begin # buffer_end /\ w.pc \notin {"test", "kick"} => ~empty /\ timer

(* What the application is told it may write, or has still to be played, is *)
(* never more than the buffer: the two pointers, moved by the writer and by *)
(* the interrupt, never overtake one another while the stream runs, if it   *)
(* was started before the handler, which copy() starts, left the first      *)
(* period.  Later the interrupts that came before the start, and were       *)
(* dropped, are missed: hw_ptr may be taken back.                           *)
AvailBounded == Running /\ early => Avail < buffer_size

(* close() returns if the last piece written ended before the last two      *)
(* positions of the buffer: everywhere else but there the handler's pointer *)
(* meets buffer_end, although it wraps a byte too early.                    *)
CloseReturns == w.pc = "sync" /\ buffer_end < chip_size - 1 ~> w.pc # "sync"
=============================================================================
