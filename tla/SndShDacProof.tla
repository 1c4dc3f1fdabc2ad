--------------------------- MODULE SndShDacProof ---------------------------
(***************************************************************************)
(* Proofs about SndShDac, for both versions of the driver.                 *)
(*                                                                         *)
(* NoStall holds for all buffer and period sizes and whatever ioctls come  *)
(* between the steps of copy(): StallInv says that the flag chip->empty    *)
(* and the timer agree except in the middle of copy().                     *)
(*                                                                         *)
(* So does PositionKept: prepare() with a smaller buffer is the one step   *)
(* that takes the handler's pointer out of it.                             *)
(*                                                                         *)
(* TypeOK, and with it that the writer's pieces stay within the buffer,    *)
(* holds for every buffer size and any set of period sizes if the          *)
(* application does not change the buffer size (OneBufferSize).  So does   *)
(* AvailBounded.                                                           *)
(*                                                                         *)
(* AvailBounded rests on two facts.  hw_ptr is never taken back: the       *)
(* handler is near the last period interrupt (Near), which a stream that   *)
(* was started early never leaves.  And the room that the writer found     *)
(* when it cut its piece is still there when appl_ptr moves on (FrameInv), *)
(* unless prepare() has come in between.                                   *)
(***************************************************************************)
EXTENDS SndShDac, TLAPS

Busy   == {"copy", "test", "kick", "ack"}
Writing == {"loop", "wait"} \cup Busy

(* The task is a record; its fields are of no interest here.                *)
TaskShape ==
  /\ w = [pc |-> w.pc, size |-> w.size, appl |-> w.appl, frames |-> w.frames]
  /\ w.pc \in TaskPc

(* Outside the two steps of copy() that set chip->empty and start the timer *)
(* a buffer that is not empty is being played, and one with bytes in it is  *)
(* not marked empty.                                                        *)
StallInv ==
  /\ TaskShape
  /\ empty \in BOOLEAN /\ timer \in BOOLEAN
  /\ ~empty /\ w.pc # "kick" => timer
  /\ buffer_begin # buffer_end /\ w.pc # "test" => ~empty

-----------------------------------------------------------------------------
(* No stall. *)

(* A closed stream is empty, and its timer is off.                          *)
LEMMA StallInit == Init => StallInv
<1> SUFFICES ASSUME Init PROVE StallInv
  OBVIOUS
<1>1. TaskShape
  BY DEF Init, Idle, TaskShape, TaskPc
<1>2. /\ empty \in BOOLEAN /\ timer \in BOOLEAN
      /\ empty /\ buffer_begin = buffer_end
  BY DEF Init
<1> QED BY <1>1, <1>2 DEF StallInv

(* The interrupt, and each step of the writer, of ioctls and of close().    *)
LEMMA StallNext ==
  ASSUME StallInv, Next
  PROVE  StallInv'
<1> USE DEF StallInv, TaskShape, TaskPc, dac, chip, hist, pcm
<1>1. CASE Interrupt
  BY <1>1 DEF Interrupt, TriggerStop, ResetBuffer
<1>2. ASSUME NEW size \in 1 .. buffer_size, WriteBegin(size)
      PROVE  StallInv'
  BY <1>2 DEF WriteBegin, Idle
<1>3. CASE WriteLoop
  BY <1>3 DEF WriteLoop, ToCopy, MayStop, TriggerStop, ResetBuffer
<1>4. CASE WriteReturn
  BY <1>4 DEF WriteReturn, Idle
<1>5. CASE WriteWoken
  <2>1. UNCHANGED dac
    BY <1>5 DEF WriteWoken
  <2>2. w'.pc \in {"idle", "copy"} /\ TaskShape'
    <3>1. w' = Idle \/ w' = ToCopy(Avail)
      BY <1>5 DEF WriteWoken
    <3>2. CASE w' = Idle
      BY <3>2 DEF Idle
    <3>3. CASE w' = ToCopy(Avail)
      BY <3>3 DEF ToCopy
    <3> QED BY <3>1, <3>2, <3>3
  <2> QED BY <1>5, <2>1, <2>2 DEF WriteWoken
<1>6. CASE WriteGivesUp
  BY <1>6 DEF WriteGivesUp, Idle
<1>7. CASE CopyEnd
  BY <1>7 DEF CopyEnd
<1>8. CASE CopyTest
  BY <1>8 DEF CopyTest
<1>9. CASE CopyKick
  BY <1>9 DEF CopyKick
<1>10. CASE WriteAck
  <2>1. w'.pc \in {"idle", "loop"} /\ TaskShape'
    <3>1. \/ w' = Idle
          \/ w' = [w EXCEPT !.pc = "loop", !.size = w.size - w.frames]
      BY <1>10 DEF WriteAck
    <3>2. CASE w' = Idle
      BY <3>2 DEF Idle
    <3>3. CASE w' = [w EXCEPT !.pc = "loop", !.size = w.size - w.frames]
      BY <3>3
    <3> QED BY <3>1, <3>2, <3>3
  <2>2. UNCHANGED <<buffer_begin, buffer_end, empty>>
    BY <1>10 DEF WriteAck
  <2>3. timer' \in BOOLEAN /\ (timer => timer')
    BY <1>10 DEF WriteAck
  <2> QED BY <1>10, <2>1, <2>2, <2>3 DEF WriteAck
<1>11. CASE Open
  BY <1>11 DEF Open, ResetBuffer
<1>12. ASSUME NEW k \in Configs, HwParams(k)
      PROVE  StallInv'
  BY <1>12 DEF HwParams
<1>13. CASE SwParams
  BY <1>13 DEF SwParams
<1>14. CASE HwFree
  BY <1>14 DEF HwFree
<1>15. CASE Prepare
  BY <1>15 DEF Prepare
<1>16. CASE Drop
  BY <1>16 DEF Drop, MayStop, TriggerStop, ResetBuffer
<1>17. CASE Start
  BY <1>17 DEF Start
<1>18. CASE Drain
  <2>1. w'.pc \in {"drain", w.pc} /\ TaskShape'
    BY <1>18 DEF Drain, Idle
  <2>2. timer' = TRUE \/ timer' = timer
    BY <1>18 DEF Drain
  <2>3. UNCHANGED <<buffer_begin, buffer_end, empty>>
    BY <1>18 DEF Drain
  <2>4. w.pc # w'.pc => w.pc = "idle"
    BY <1>18 DEF Drain, Idle
  <2> QED BY <2>1, <2>2, <2>3, <2>4
<1>19. CASE DrainReturn
  BY <1>19 DEF DrainReturn, Idle
<1>20. CASE DrainGivesUp
  BY <1>20 DEF DrainGivesUp, Idle, MayStop, TriggerStop, ResetBuffer
<1>21. CASE Release
  BY <1>21 DEF Release, Idle, MayStop, TriggerStop, ResetBuffer
<1>22. CASE CloseDone
  BY <1>22 DEF CloseDone, Idle
<1> QED BY <1>1, <1>2, <1>3, <1>4, <1>5, <1>6, <1>7, <1>8, <1>9, <1>10,
           <1>11, <1>12, <1>13, <1>14, <1>15, <1>16, <1>17, <1>18, <1>19,
           <1>20, <1>21, <1>22
    DEF Next, Writer

(* Bytes that copy() has put in the buffer are being played: the handler    *)
(* that stops the timer between any two steps of copy() does not leave them *)
(* behind, nor does a stop, a prepare or a close.                           *)
THEOREM NoStallAlways == Spec => []NoStall
<1>1. StallInv /\ [Next]_vars => StallInv'
  <2>1. StallInv /\ Next => StallInv'
    BY StallNext
  <2>2. StallInv /\ UNCHANGED vars => StallInv'
    BY DEF vars, chip, hist, dac, StallInv, TaskShape
  <2> QED BY <2>1, <2>2
<1>2. StallInv => NoStall
  BY DEF StallInv, NoStall
<1> QED BY <1>1, <1>2, StallInit, PTL DEF Spec

-----------------------------------------------------------------------------
(* The history variable. *)

(* A stream that was started early runs; close() has stopped the stream.    *)
EarlyInv ==
  /\ early \in BOOLEAN /\ (early => Running)
  /\ w.pc = "sync" => ~Running

(* snd_pcm_period_elapsed() does nothing to a stream that does not run.     *)
LEMMA ElapsedStops ==
  ASSUME NEW pos, PeriodElapsed(pos)
  PROVE  Running' => Running
BY DEF PeriodElapsed, Running

(* Each step keeps the history in agreement with the state of the stream.   *)
LEMMA EarlyNext ==
  ASSUME StallInv, EarlyInv, Next
  PROVE  EarlyInv'
<1> USE DEF StallInv, TaskShape, TaskPc, EarlyInv, dac, chip, hist, pcm, Running
<1>1. CASE Interrupt
  <2>1. Running' => Running
    <3>1. CASE PeriodElapsed(buffer_begin + 1)
      BY <3>1, ElapsedStops
    <3>2. CASE UNCHANGED <<state, hwPtrs>>
      BY <3>2
    <3> QED BY <1>1, <3>1, <3>2 DEF Interrupt
  <2> QED BY <1>1, <2>1 DEF Interrupt, KeepEarly
<1>2. ASSUME NEW size \in 1 .. buffer_size, WriteBegin(size)
      PROVE  EarlyInv'
  BY <1>2 DEF WriteBegin, Idle
<1>3. CASE WriteLoop
  BY <1>3 DEF WriteLoop, ToCopy, KeepEarly
<1>4. CASE WriteReturn
  BY <1>4 DEF WriteReturn, Idle
<1>5. CASE WriteWoken
  <2>1. w'.pc \in {"idle", "copy"}
    <3>1. w' = Idle \/ w' = ToCopy(Avail)
      BY <1>5 DEF WriteWoken
    <3>2. CASE w' = Idle
      BY <3>2 DEF Idle
    <3>3. CASE w' = ToCopy(Avail)
      BY <3>3 DEF ToCopy
    <3> QED BY <3>1, <3>2, <3>3
  <2>2. UNCHANGED <<state, early>>
    BY <1>5 DEF WriteWoken
  <2> QED BY <2>1, <2>2
<1>6. CASE WriteGivesUp
  BY <1>6 DEF WriteGivesUp, Idle
<1>7. CASE CopyEnd
  BY <1>7 DEF CopyEnd
<1>8. CASE CopyTest
  BY <1>8 DEF CopyTest
<1>9. CASE CopyKick
  BY <1>9 DEF CopyKick
<1>10. CASE WriteAck
  <2>1. w'.pc \in {"idle", "loop"}
    <3>1. \/ w' = Idle
          \/ w' = [w EXCEPT !.pc = "loop", !.size = w.size - w.frames]
      BY <1>10 DEF WriteAck
    <3>2. CASE w' = Idle
      BY <3>2 DEF Idle
    <3>3. CASE w' = [w EXCEPT !.pc = "loop", !.size = w.size - w.frames]
      BY <3>3
    <3> QED BY <3>1, <3>2, <3>3
  <2>2. \/ UNCHANGED <<state, early>>
        \/ state' = "RUNNING" /\ early' = FirstPeriod
    <3> DEFINE p == w.appl + w.frames
               appl == IF p >= Boundary THEN p - Boundary ELSE p
    <3>1. \/ UNCHANGED <<state, early>>
          \/ /\ state' = IF AutoStart(appl) THEN "RUNNING" ELSE state
             /\ early' = IF AutoStart(appl) THEN FirstPeriod ELSE early
      BY <1>10 DEF WriteAck
    <3> HIDE DEF appl
    <3> QED BY <3>1
  <2>3. FirstPeriod \in BOOLEAN
    BY DEF FirstPeriod
  <2>4. CASE UNCHANGED <<state, early>>
    BY <2>1, <2>4
  <2>5. CASE state' = "RUNNING" /\ early' = FirstPeriod
    BY <2>1, <2>3, <2>5
  <2> QED BY <2>2, <2>4, <2>5
<1>11. CASE Open
  BY <1>11 DEF Open, Idle
<1>12. ASSUME NEW k \in Configs, HwParams(k)
      PROVE  EarlyInv'
  BY <1>12 DEF HwParams, HwParamsPcm
<1>13. CASE SwParams
  BY <1>13 DEF SwParams, SwParamsPcm
<1>14. CASE HwFree
  BY <1>14 DEF HwFree, HwFreePcm
<1>15. CASE Prepare
  BY <1>15 DEF Prepare, PreparePcm
<1>16. CASE Drop
  BY <1>16 DEF Drop, KeepEarly
<1>17. CASE Start
  BY <1>17 DEF Start, FirstPeriod, CallerFree, Idle
<1>18. CASE Drain
  <2>1. w'.pc # "sync" /\ state' = "DRAINING"
    BY <1>18 DEF Drain, CallerFree, Idle
  <2>2. early' = FirstPeriod \/ early' = early
    BY <1>18 DEF Drain
  <2>3. FirstPeriod \in BOOLEAN
    BY DEF FirstPeriod
  <2> QED BY <2>1, <2>2, <2>3
<1>19. CASE DrainReturn
  BY <1>19 DEF DrainReturn, Idle
<1>20. CASE DrainGivesUp
  BY <1>20 DEF DrainGivesUp, KeepEarly, Idle
<1>21. CASE Release
  BY <1>21 DEF Release, KeepEarly, Idle
<1>22. CASE CloseDone
  BY <1>22 DEF CloseDone, Idle
<1> QED BY <1>1, <1>2, <1>3, <1>4, <1>5, <1>6, <1>7, <1>8, <1>9, <1>10,
           <1>11, <1>12, <1>13, <1>14, <1>15, <1>16, <1>17, <1>18, <1>19,
           <1>20, <1>21, <1>22
    DEF Next, Writer

(* The history variable says what it is meant to say.                       *)
LEMMA EarlyAlways == Spec => [](StallInv /\ EarlyInv)
<1>1. Init => StallInv /\ EarlyInv
  BY StallInit DEF Init, PcmInit, EarlyInv, Running, Idle
<1>2. StallInv /\ EarlyInv /\ [Next]_vars => (StallInv /\ EarlyInv)'
  <2>1. StallInv /\ EarlyInv /\ Next => (StallInv /\ EarlyInv)'
    BY StallNext, EarlyNext
  <2>2. StallInv /\ EarlyInv /\ UNCHANGED vars => (StallInv /\ EarlyInv)'
    BY DEF vars, chip, hist, dac, pcm, StallInv, TaskShape, EarlyInv, Running
  <2> QED BY <2>1, <2>2
<1> QED BY <1>1, <1>2, PTL DEF Spec

-----------------------------------------------------------------------------
(* Where the handler is, whatever buffers the application asks for.         *)

PlaceTypes ==
  /\ buffer_begin \in Nat /\ chip_size \in Nat /\ buffer_size \in Nat

(* The buffer is not made smaller, or the handler keeps its place in it.    *)
PlaceKept ==
  buffer_begin < chip_size - 1
    => buffer_begin' < chip_size' - 1 \/ chip_size' < chip_size

(* Only the handler moves the pointer, and only prepare() changes the size  *)
(* at which it wraps.                                                       *)
LEMMA PlaceNext ==
  ASSUME PlaceTypes, Next
  PROVE  PlaceTypes' /\ PlaceKept
<1> USE DEF PlaceTypes, PlaceKept, dac, chip, hist, pcm, params
<1>1. CASE Interrupt
  BY <1>1 DEF Interrupt, TriggerStop, ResetBuffer, Wrap
<1>2. ASSUME NEW size \in 1 .. buffer_size, WriteBegin(size)
      PROVE  PlaceTypes' /\ PlaceKept
  BY <1>2 DEF WriteBegin
<1>3. CASE WriteLoop
  BY <1>3 DEF WriteLoop, MayStop, TriggerStop, ResetBuffer
<1>4. CASE WriteReturn
  BY <1>4 DEF WriteReturn
<1>5. CASE WriteWoken
  BY <1>5 DEF WriteWoken
<1>6. CASE WriteGivesUp
  BY <1>6 DEF WriteGivesUp
<1>7. CASE CopyEnd
  BY <1>7 DEF CopyEnd
<1>8. CASE CopyTest
  BY <1>8 DEF CopyTest
<1>9. CASE CopyKick
  BY <1>9 DEF CopyKick
<1>10. CASE WriteAck
  BY <1>10 DEF WriteAck
<1>11. CASE Open
  BY <1>11 DEF Open, ResetBuffer
<1>12. ASSUME NEW k \in Configs, HwParams(k)
      PROVE  PlaceTypes' /\ PlaceKept
  BY <1>12, PcmAssumption DEF HwParams, HwParamsPcm
<1>13. CASE SwParams
  BY <1>13 DEF SwParams, SwParamsPcm
<1>14. CASE HwFree
  BY <1>14 DEF HwFree, HwFreePcm
<1>15. CASE Prepare
  BY <1>15 DEF Prepare, PreparePcm
<1>16. CASE Drop
  BY <1>16 DEF Drop, MayStop, TriggerStop, ResetBuffer
<1>17. CASE Start
  BY <1>17 DEF Start
<1>18. CASE Drain
  BY <1>18 DEF Drain
<1>19. CASE DrainReturn
  BY <1>19 DEF DrainReturn
<1>20. CASE DrainGivesUp
  BY <1>20 DEF DrainGivesUp, MayStop, TriggerStop, ResetBuffer
<1>21. CASE Release
  BY <1>21 DEF Release, MayStop, TriggerStop, ResetBuffer
<1>22. CASE CloseDone
  BY <1>22 DEF CloseDone
<1> QED BY <1>1, <1>2, <1>3, <1>4, <1>5, <1>6, <1>7, <1>8, <1>9, <1>10,
           <1>11, <1>12, <1>13, <1>14, <1>15, <1>16, <1>17, <1>18, <1>19,
           <1>20, <1>21, <1>22
    DEF Next, Writer

(* For all buffer and period sizes, also when the application changes them: *)
(* the handler's pointer leaves the buffer in one step only, a prepare()    *)
(* that stores a smaller size.                                              *)
THEOREM PositionKeptAlways == Spec => PositionKept
<1>1. Init => PlaceTypes
  BY DEF Init, PcmInit, PlaceTypes
<1>2. PlaceTypes /\ [Next]_vars => PlaceTypes' /\ [PlaceKept]_vars
  <2>1. PlaceTypes /\ UNCHANGED vars => PlaceTypes'
    BY DEF vars, chip, hist, dac, pcm, params, PlaceTypes
  <2> QED BY <2>1, PlaceNext
<1>3. PositionKept <=> [][PlaceKept]_vars
  BY DEF PositionKept, PlaceKept
<1> QED BY <1>1, <1>2, <1>3, PTL DEF Spec

-----------------------------------------------------------------------------
(* The pointers. *)

(* The parameters, once they are set; the driver knows the buffer's size    *)
(* when the stream has been prepared, and is not active before.             *)
SizeInv(B) ==
  /\ buffer_size \in {0, B} /\ chip_size \in {0, B}
  /\ period_size \in Nat /\ xfer_align \in Nat /\ start_threshold \in Nat
  /\ buffer_size = B => period_size > 0 /\ xfer_align > 0
  /\ state \notin {"CLOSED", "OPEN"} => buffer_size = B
  /\ state \in {"PREPARED", "RUNNING", "DRAINING", "XRUN"} \/ w.pc \in Writing
       \/ timer => buffer_size = B /\ chip_size = B

(* The pointers of the middle layer and of the driver.                      *)
PtrTypes ==
  /\ hw_ptr \in Nat /\ hw_ptr_base \in Nat /\ hw_ptr_interrupt \in Nat
  /\ buffer_begin \in Nat /\ buffer_end \in Nat /\ processed \in Nat
  /\ appl_ptr \in Nat /\ (appl_ptr = 0 \/ appl_ptr < Boundary)

(* The writer's piece is not empty, and lies within what it has to write    *)
(* and within the buffer.                                                   *)
TaskInv ==
  /\ w.size \in Nat /\ w.appl \in Nat /\ w.frames \in Nat
  /\ w.pc = "wait" => w.size > 0
  /\ w.pc \in Busy => /\ w.appl < Boundary
                      /\ w.frames \in 1 .. buffer_size /\ w.frames <= w.size

DacInv(B) ==
  /\ state \in PcmState /\ StallInv
  /\ SizeInv(B) /\ PtrTypes /\ TaskInv

(* The application keeps to one buffer size.                                *)
OneBufferSize(B) == \A k \in Configs : k[1] = B

(* Remainders.                                                             *)
LEMMA ModRange ==
  ASSUME NEW a \in Nat, NEW n \in Nat \ {0}
  PROVE  a % n \in Nat /\ a % n < n /\ a % n <= a
OBVIOUS

(* The boundary is a multiple of the buffer size.                          *)
LEMMA BoundaryRange ==
  ASSUME NEW n \in Nat \ {0}
  PROVE  n * BoundFactor \in Nat /\ n <= n * BoundFactor
BY PcmAssumption

(* Rounding down to xfer_align leaves something.                           *)
LEMMA AlignedRange ==
  ASSUME NEW n \in Nat \ {0}, xfer_align \in Nat \ {0}
  PROVE  Aligned(n) \in Nat \ {0} /\ Aligned(n) <= n
BY ModRange DEF Aligned

(* snd_pcm_playback_avail() is not negative.                               *)
LEMMA AvailNat ==
  ASSUME buffer_size \in Nat \ {0}, NEW h \in Nat, NEW p \in Nat,
         p = 0 \/ p < Boundary
  PROVE  AvailAt(h, p) \in Nat
<1>1. Boundary \in Nat
  BY BoundaryRange DEF Boundary
<1> QED BY <1>1 DEF AvailAt

(* The piece snd_pcm_lib_write1() cuts is not empty, and ends in the       *)
(* buffer.                                                                 *)
LEMMA PieceRange ==
  ASSUME buffer_size \in Nat \ {0}, xfer_align \in Nat \ {0},
         appl_ptr \in Nat, w.size \in Nat \ {0}, NEW a \in Nat \ {0}
  PROVE  Piece(a) \in 1 .. buffer_size /\ Piece(a) <= w.size /\ Piece(a) <= a
<1>1. Aligned(a) \in Nat \ {0} /\ Aligned(a) <= a
  BY AlignedRange
<1>2. appl_ptr % buffer_size \in Nat /\ appl_ptr % buffer_size < buffer_size
  BY ModRange
<1> QED BY <1>1, <1>2 DEF Piece, Min2

(* snd_pcm_update_hw_ptr_post() stops the stream, or leaves it as it is.   *)
LEMMA MoveTypes ==
  ASSUME buffer_size \in Nat, hw_ptr_base \in Nat, NEW pos \in Nat, NEW nb,
         MoveHwPtr(pos, nb)
  PROVE  /\ hw_ptr' \in Nat /\ hw_ptr_base' \in Nat
         /\ state' \in {state, "SETUP", "XRUN"}
<1>1. NextBase \in Nat
  BY DEF NextBase
<1> QED BY <1>1 DEF MoveHwPtr, PostState

(* snd_pcm_update_hw_ptr() keeps the pointers natural.                     *)
LEMMA UpdateTypes ==
  ASSUME buffer_size \in Nat, hw_ptr_base \in Nat, hw_ptr \in Nat,
         hw_ptr_interrupt \in Nat, NEW pos \in Nat, UpdateHwPtr(pos)
  PROVE  /\ hw_ptr' \in Nat /\ hw_ptr_base' \in Nat
         /\ hw_ptr_interrupt' \in Nat
         /\ state' \in {state, "SETUP", "XRUN"}
<1>1. CASE Jitter(pos, hw_ptr)
  BY <1>1 DEF UpdateHwPtr, hwPtrs
<1>2. CASE ~Jitter(pos, hw_ptr)
  BY <1>2, MoveTypes DEF UpdateHwPtr
<1> QED BY <1>1, <1>2

(* snd_pcm_period_elapsed() does, and leaves a stream that does not run    *)
(* alone.                                                                  *)
LEMMA ElapsedTypes ==
  ASSUME buffer_size \in Nat, hw_ptr_base \in Nat, hw_ptr \in Nat,
         Running => period_size \in Nat \ {0}, hw_ptr_interrupt \in Nat,
         NEW pos \in Nat, PeriodElapsed(pos)
  PROVE  /\ hw_ptr' \in Nat /\ hw_ptr_base' \in Nat
         /\ hw_ptr_interrupt' \in Nat
         /\ state' = state \/ (Running /\ state' \in {"SETUP", "XRUN"})
<1> DEFINE due   == hw_ptr_interrupt + period_size
           whole == period_size = buffer_size
<1>1. CASE ~Running \/ (~whole /\ Jitter(pos, due))
  BY <1>1 DEF PeriodElapsed, hwPtrs
<1>2. CASE ~(~Running \/ (~whole /\ Jitter(pos, due)))
  <2>1. /\ MoveHwPtr(pos, whole \/ Behind(pos, due) > 0)
        /\ hw_ptr_interrupt' = hw_ptr' - (hw_ptr' % period_size)
    BY <1>2 DEF PeriodElapsed
  <2>2. /\ hw_ptr' \in Nat /\ hw_ptr_base' \in Nat
        /\ state' \in {state, "SETUP", "XRUN"}
    BY <2>1, MoveTypes
  <2>3. hw_ptr' % period_size \in Nat /\ hw_ptr' % period_size <= hw_ptr'
    BY <1>2, <2>2, ModRange
  <2> QED BY <1>2, <2>1, <2>2, <2>3
<1> QED BY <1>1, <1>2

(* A stream that is not opened yet has all pointers at 0.                  *)
LEMMA DacInit == ASSUME NEW B \in Nat \ {0} PROVE Init => DacInv(B)
<1> SUFFICES ASSUME Init PROVE DacInv(B)
  OBVIOUS
<1>1. StallInv
  BY StallInit
<1>2. SizeInv(B) /\ PtrTypes
  BY DEF Init, PcmInit, SizeInv, PtrTypes, Idle, Writing, Busy, Boundary
<1>3. TaskInv /\ state \in PcmState
  BY DEF Init, PcmInit, TaskInv, PcmState, Idle, Busy
<1> QED BY <1>1, <1>2, <1>3 DEF DacInv

(* The interrupt, and each step of the writer, of ioctls and of close().    *)
LEMMA DacNext ==
  ASSUME NEW B \in Nat \ {0}, OneBufferSize(B), DacInv(B), Next
  PROVE  DacInv(B)'
<1>0. StallInv'
  BY StallNext DEF DacInv
<1> USE PcmAssumption
    DEF OneBufferSize, DacInv, StallInv, TaskShape, TaskPc, dac, chip, hist, pcm,
        hwPtrs, params, Busy, Writing, Running
<1>1. CASE Interrupt
  <2>1. buffer_size = B
    BY <1>1 DEF Interrupt, SizeInv
  <2>2. /\ hw_ptr' \in Nat /\ hw_ptr_base' \in Nat /\ hw_ptr_interrupt' \in Nat
        /\ state' = state \/ (Running /\ state' \in {"SETUP", "XRUN"})
    <3>1. CASE processed + 1 >= period_size
      <4>1. PeriodElapsed(buffer_begin + 1)
        BY <1>1, <3>1 DEF Interrupt
      <4>2. buffer_begin + 1 \in Nat /\ period_size \in Nat \ {0}
        BY <2>1 DEF PtrTypes, SizeInv
      <4> QED BY <2>1, <4>1, <4>2, ElapsedTypes DEF PtrTypes
    <3>2. CASE ~(processed + 1 >= period_size)
      BY <1>1, <3>2 DEF Interrupt, PtrTypes
    <3> QED BY <3>1, <3>2
  <2>3. state' \in PcmState
    BY <2>2 DEF PcmState
  <2>4. SizeInv(B)'
    BY <1>1, <2>2 DEF Interrupt, TriggerStop, ResetBuffer, SizeInv
  <2>5. PtrTypes'
    <3>1. buffer_begin' \in Nat /\ buffer_end' \in Nat /\ processed' \in Nat
      BY <1>1 DEF Interrupt, TriggerStop, ResetBuffer, PtrTypes, SizeInv, Wrap
    <3> QED BY <1>1, <2>2, <3>1 DEF Interrupt, PtrTypes, Boundary
  <2>6. TaskInv'
    BY <1>1 DEF Interrupt, TaskInv, Boundary
  <2> QED BY <1>0, <2>3, <2>4, <2>5, <2>6
<1>2. ASSUME NEW size \in 1 .. buffer_size, WriteBegin(size)
      PROVE  DacInv(B)'
  <2>1. Aligned(size) \in Nat
    BY <1>2, AlignedRange DEF WriteBegin, SizeInv
  <2>2. TaskInv'
    BY <1>2, <2>1 DEF WriteBegin, Idle, TaskInv
  <2>3. SizeInv(B)'
    BY <1>2 DEF WriteBegin, Idle, SizeInv
  <2>4. PtrTypes' /\ state' \in PcmState
    BY <1>2 DEF WriteBegin, PtrTypes, Boundary
  <2> QED BY <1>0, <2>2, <2>3, <2>4
<1>3. CASE WriteLoop
  <2>1. /\ buffer_size = B /\ chip_size = B /\ UNCHANGED params
        /\ period_size > 0 /\ xfer_align > 0 /\ w.size \in Nat \ {0}
    BY <1>3 DEF WriteLoop, SizeInv, TaskInv
  <2>2. /\ hw_ptr' \in Nat /\ hw_ptr_base' \in Nat /\ hw_ptr_interrupt' \in Nat
        /\ state' \in {state, "SETUP", "XRUN"}
    <3>1. CASE state = "RUNNING"
      <4>1. UpdateHwPtr(buffer_begin)
        BY <1>3, <3>1 DEF WriteLoop
      <4> QED BY <2>1, <4>1, UpdateTypes DEF PtrTypes
    <3>2. CASE state # "RUNNING"
      BY <1>3, <3>2 DEF WriteLoop, PtrTypes
    <3> QED BY <3>1, <3>2
  <2>3. state' \in PcmState
    BY <2>2 DEF PcmState
  <2>4. SizeInv(B)'
    BY <1>3, <2>1 DEF WriteLoop, SizeInv
  <2>5. PtrTypes'
    <3>1. buffer_begin' \in Nat /\ buffer_end' \in Nat /\ processed' \in Nat
      BY <1>3 DEF WriteLoop, MayStop, TriggerStop, ResetBuffer, PtrTypes
    <3> QED BY <1>3, <2>2, <3>1 DEF WriteLoop, PtrTypes, Boundary
  <2>6. TaskInv'
    <3> DEFINE a == AvailAt(hw_ptr', appl_ptr)
    <3>1. a \in Nat
      BY <2>1, <2>2, AvailNat DEF PtrTypes
    <3>2. w' = IF NoRoom(a) THEN [w EXCEPT !.pc = "wait"] ELSE ToCopy(a)
      BY <1>3 DEF WriteLoop
    <3>3. CASE NoRoom(a)
      BY <1>3, <2>1, <3>2, <3>3 DEF TaskInv
    <3>4. CASE ~NoRoom(a)
      <4>1. a \in Nat \ {0}
        BY <2>1, <3>1, <3>4 DEF NoRoom, Avail_min, SizeInv
      <4>2. Piece(a) \in 1 .. buffer_size /\ Piece(a) <= w.size
        BY <2>1, <4>1, PieceRange DEF PtrTypes, SizeInv
      <4>3. appl_ptr \in Nat /\ appl_ptr < Boundary
        BY <2>1, BoundaryRange DEF PtrTypes, Boundary
      <4>4. w' = ToCopy(a)
        BY <3>2, <3>4
      <4> HIDE DEF a
      <4>5. /\ w'.pc = "copy" /\ w'.size = w.size /\ w'.appl = appl_ptr
            /\ w'.frames = Piece(a)
        BY <4>4 DEF ToCopy
      <4>6. UNCHANGED <<buffer_size, Boundary>>
        BY <2>1 DEF Boundary
      <4> QED BY <2>1, <4>2, <4>3, <4>5, <4>6 DEF TaskInv
    <3> QED BY <3>3, <3>4
  <2> QED BY <1>0, <2>3, <2>4, <2>5, <2>6
<1>4. CASE WriteReturn
  <2>1. state' \in PcmState
    BY <1>4 DEF WriteReturn, Idle, PcmState
  <2>2. SizeInv(B)'
    BY <1>4 DEF WriteReturn, Idle, SizeInv
  <2>3. PtrTypes'
    BY <1>4 DEF WriteReturn, Idle, PtrTypes, SizeInv, Boundary
  <2>4. TaskInv'
    BY <1>4 DEF WriteReturn, Idle, TaskInv, SizeInv, Boundary
  <2> QED BY <1>0, <2>1, <2>2, <2>3, <2>4
<1>5. CASE WriteWoken
  <2>1. /\ buffer_size = B /\ w.size \in Nat \ {0} /\ UNCHANGED <<pcm, chip>>
        /\ period_size > 0 /\ xfer_align > 0
    BY <1>5 DEF WriteWoken, SizeInv, TaskInv
  <2>2. \/ w' = Idle
        \/ w' = ToCopy(Avail) /\ Avail >= period_size
    BY <1>5 DEF WriteWoken, Avail_min
  <2>3. state' \in PcmState /\ PtrTypes'
    BY <2>1 DEF PtrTypes, Boundary
  <2>4. SizeInv(B)'
    BY <1>5, <2>1 DEF WriteWoken, SizeInv
  <2>5. TaskInv'
    <3>1. CASE w' = Idle
      BY <3>1 DEF Idle, TaskInv
    <3>2. CASE w' = ToCopy(Avail) /\ Avail >= period_size
      <4>1. Avail \in Nat \ {0}
        BY <2>1, <3>2, AvailNat DEF Avail, PtrTypes, SizeInv
      <4>2. Piece(Avail) \in 1 .. buffer_size /\ Piece(Avail) <= w.size
        BY <2>1, <4>1, PieceRange DEF PtrTypes, SizeInv
      <4>3. appl_ptr \in Nat /\ appl_ptr < Boundary
        BY <2>1, BoundaryRange DEF PtrTypes, Boundary
      <4>4. /\ w'.pc = "copy" /\ w'.size = w.size /\ w'.appl = appl_ptr
            /\ w'.frames = Piece(Avail)
        BY <3>2 DEF ToCopy
      <4>5. UNCHANGED <<buffer_size, Boundary>>
        BY <2>1 DEF Boundary
      <4> QED BY <2>1, <4>2, <4>3, <4>4, <4>5 DEF TaskInv
    <3> QED BY <2>2, <3>1, <3>2
  <2> QED BY <1>0, <2>3, <2>4, <2>5
<1>6. CASE WriteGivesUp
  <2>1. state' \in PcmState
    BY <1>6 DEF WriteGivesUp, Idle, PcmState
  <2>2. SizeInv(B)'
    BY <1>6 DEF WriteGivesUp, Idle, SizeInv
  <2>3. PtrTypes'
    BY <1>6 DEF WriteGivesUp, Idle, PtrTypes, SizeInv, Boundary
  <2>4. TaskInv'
    BY <1>6 DEF WriteGivesUp, Idle, TaskInv, SizeInv, Boundary
  <2> QED BY <1>0, <2>1, <2>2, <2>3, <2>4
<1>7. CASE CopyEnd
  <2>1. buffer_size = B
    BY <1>7 DEF CopyEnd, SizeInv
  <2>2. w.appl % buffer_size \in Nat
    BY <2>1, ModRange DEF TaskInv
  <2>3. state' \in PcmState /\ PtrTypes'
    BY <1>7, <2>2 DEF CopyEnd, PtrTypes, TaskInv, Boundary
  <2>4. SizeInv(B)' /\ TaskInv'
    BY <1>7 DEF CopyEnd, SizeInv, TaskInv, Boundary
  <2> QED BY <1>0, <2>3, <2>4
<1>8. CASE CopyTest
  <2>1. state' \in PcmState
    BY <1>8 DEF CopyTest, PcmState
  <2>2. SizeInv(B)'
    BY <1>8 DEF CopyTest, SizeInv
  <2>3. PtrTypes'
    BY <1>8 DEF CopyTest, PtrTypes, SizeInv, Boundary
  <2>4. TaskInv'
    BY <1>8 DEF CopyTest, TaskInv, SizeInv, Boundary
  <2> QED BY <1>0, <2>1, <2>2, <2>3, <2>4
<1>9. CASE CopyKick
  <2>1. state' \in PcmState
    BY <1>9 DEF CopyKick, PcmState
  <2>2. SizeInv(B)'
    BY <1>9 DEF CopyKick, SizeInv
  <2>3. PtrTypes'
    BY <1>9 DEF CopyKick, PtrTypes, SizeInv, Boundary
  <2>4. TaskInv'
    BY <1>9 DEF CopyKick, TaskInv, SizeInv, Boundary
  <2> QED BY <1>0, <2>1, <2>2, <2>3, <2>4
<1>10. CASE WriteAck
  <2>1. /\ buffer_size = B /\ UNCHANGED params
        /\ w.frames \in 1 .. buffer_size /\ w.frames <= w.size
        /\ w.appl \in Nat /\ w.appl < Boundary
    BY <1>10 DEF WriteAck, SizeInv, TaskInv
  <2>2. Boundary \in Nat /\ buffer_size <= Boundary /\ Boundary' = Boundary
    BY <2>1, BoundaryRange DEF Boundary
  <2>3. state' \in PcmState /\ SizeInv(B)'
    BY <1>10 DEF WriteAck, Idle, SizeInv, AutoStart, PcmState
  <2>4. PtrTypes'
    <3>1. appl_ptr' \in Nat /\ (appl_ptr' = 0 \/ appl_ptr' < Boundary)
      BY <1>10, <2>1, <2>2 DEF WriteAck, PtrTypes
    <3> QED BY <1>10, <2>2, <3>1 DEF WriteAck, PtrTypes
  <2>5. TaskInv'
    <3>1. \/ w' = Idle
          \/ w' = [w EXCEPT !.pc = "loop", !.size = w.size - w.frames]
      BY <1>10 DEF WriteAck
    <3>2. CASE w' = Idle
      BY <3>2 DEF Idle, TaskInv
    <3>3. CASE w' = [w EXCEPT !.pc = "loop", !.size = w.size - w.frames]
      <4>1. /\ w'.pc = "loop" /\ w'.size = w.size - w.frames
            /\ w'.appl = w.appl /\ w'.frames = w.frames
        BY <3>3
      <4> QED BY <2>1, <4>1 DEF TaskInv
    <3> QED BY <3>1, <3>2, <3>3
  <2> QED BY <1>0, <2>3, <2>4, <2>5
<1>11. CASE Open
  <2>1. state' \in PcmState
    BY <1>11 DEF Open, ResetBuffer, PcmState
  <2>2. SizeInv(B)'
    BY <1>11 DEF Open, ResetBuffer, SizeInv
  <2>3. PtrTypes'
    BY <1>11 DEF Open, ResetBuffer, PtrTypes, SizeInv, Boundary
  <2>4. TaskInv'
    BY <1>11 DEF Open, ResetBuffer, TaskInv, SizeInv, Boundary
  <2> QED BY <1>0, <2>1, <2>2, <2>3, <2>4
<1>12. ASSUME NEW k \in Configs, HwParams(k)
      PROVE  DacInv(B)'
  <2>1. state' \in PcmState
    BY <1>12 DEF HwParams, HwParamsPcm, PcmState
  <2>2. SizeInv(B)'
    BY <1>12 DEF HwParams, HwParamsPcm, SizeInv
  <2>3. PtrTypes'
    BY <1>12 DEF HwParams, HwParamsPcm, PtrTypes, SizeInv, Boundary
  <2>4. TaskInv'
    BY <1>12 DEF HwParams, HwParamsPcm, TaskInv, SizeInv, Boundary
  <2> QED BY <1>0, <2>1, <2>2, <2>3, <2>4
<1>13. CASE SwParams
  <2>1. state' \in PcmState
    BY <1>13 DEF SwParams, SwParamsPcm, PcmState
  <2>2. SizeInv(B)'
    BY <1>13 DEF SwParams, SwParamsPcm, SizeInv
  <2>3. PtrTypes'
    BY <1>13 DEF SwParams, SwParamsPcm, PtrTypes, SizeInv, Boundary
  <2>4. TaskInv'
    BY <1>13 DEF SwParams, SwParamsPcm, TaskInv, SizeInv, Boundary
  <2> QED BY <1>0, <2>1, <2>2, <2>3, <2>4
<1>14. CASE HwFree
  <2>1. state' \in PcmState
    BY <1>14 DEF HwFree, HwFreePcm, PcmState
  <2>2. SizeInv(B)'
    BY <1>14 DEF HwFree, HwFreePcm, SizeInv
  <2>3. PtrTypes'
    BY <1>14 DEF HwFree, HwFreePcm, PtrTypes, SizeInv, Boundary
  <2>4. TaskInv'
    BY <1>14 DEF HwFree, HwFreePcm, TaskInv, SizeInv, Boundary
  <2> QED BY <1>0, <2>1, <2>2, <2>3, <2>4
<1>15. CASE Prepare
  <2>1. state' \in PcmState
    BY <1>15 DEF Prepare, PreparePcm, PcmState
  <2>2. SizeInv(B)'
    BY <1>15 DEF Prepare, PreparePcm, SizeInv
  <2>3. PtrTypes'
    BY <1>15 DEF Prepare, PreparePcm, PtrTypes, SizeInv, Boundary
  <2>4. TaskInv'
    BY <1>15 DEF Prepare, PreparePcm, TaskInv, SizeInv, Boundary
  <2> QED BY <1>0, <2>1, <2>2, <2>3, <2>4
<1>16. CASE Drop
  <2>1. state' \in PcmState
    BY <1>16 DEF Drop, MayStop, TriggerStop, ResetBuffer, PcmState
  <2>2. SizeInv(B)'
    BY <1>16 DEF Drop, MayStop, TriggerStop, ResetBuffer, SizeInv
  <2>3. PtrTypes'
    BY <1>16
    DEF Drop, MayStop, TriggerStop, ResetBuffer, PtrTypes, SizeInv, Boundary
  <2>4. TaskInv'
    BY <1>16
    DEF Drop, MayStop, TriggerStop, ResetBuffer, TaskInv, SizeInv, Boundary
  <2> QED BY <1>0, <2>1, <2>2, <2>3, <2>4
<1>17. CASE Start
  <2>1. state' \in PcmState
    BY <1>17 DEF Start, PcmState
  <2>2. SizeInv(B)'
    BY <1>17 DEF Start, SizeInv
  <2>3. PtrTypes'
    BY <1>17 DEF Start, PtrTypes, SizeInv, Boundary
  <2>4. TaskInv'
    BY <1>17 DEF Start, TaskInv, SizeInv, Boundary
  <2> QED BY <1>0, <2>1, <2>2, <2>3, <2>4
<1>18. CASE Drain
  <2>1. state' \in PcmState
    BY <1>18 DEF Drain, Idle, PcmState
  <2>2. SizeInv(B)'
    BY <1>18 DEF Drain, Idle, SizeInv
  <2>3. PtrTypes'
    BY <1>18 DEF Drain, Idle, PtrTypes, SizeInv, Boundary
  <2>4. TaskInv'
    BY <1>18 DEF Drain, Idle, TaskInv, SizeInv, Boundary
  <2> QED BY <1>0, <2>1, <2>2, <2>3, <2>4
<1>19. CASE DrainReturn
  <2>1. state' \in PcmState
    BY <1>19 DEF DrainReturn, Idle, PcmState
  <2>2. SizeInv(B)'
    BY <1>19 DEF DrainReturn, Idle, SizeInv
  <2>3. PtrTypes'
    BY <1>19 DEF DrainReturn, Idle, PtrTypes, SizeInv, Boundary
  <2>4. TaskInv'
    BY <1>19 DEF DrainReturn, Idle, TaskInv, SizeInv, Boundary
  <2> QED BY <1>0, <2>1, <2>2, <2>3, <2>4
<1>20. CASE DrainGivesUp
  <2>1. state' \in PcmState
    BY <1>20
    DEF DrainGivesUp, Idle, MayStop, TriggerStop, ResetBuffer, PcmState
  <2>2. SizeInv(B)'
    BY <1>20
    DEF DrainGivesUp, Idle, MayStop, TriggerStop, ResetBuffer, SizeInv
  <2>3. PtrTypes'
    BY <1>20
    DEF DrainGivesUp, Idle, MayStop, TriggerStop, ResetBuffer, PtrTypes,
        SizeInv, Boundary
  <2>4. TaskInv'
    BY <1>20
    DEF DrainGivesUp, Idle, MayStop, TriggerStop, ResetBuffer, TaskInv,
        SizeInv, Boundary
  <2> QED BY <1>0, <2>1, <2>2, <2>3, <2>4
<1>21. CASE Release
  <2>1. state' \in PcmState
    BY <1>21 DEF Release, Idle, MayStop, TriggerStop, ResetBuffer, PcmState
  <2>2. SizeInv(B)'
    BY <1>21 DEF Release, Idle, MayStop, TriggerStop, ResetBuffer, SizeInv
  <2>3. PtrTypes'
    BY <1>21
    DEF Release, Idle, MayStop, TriggerStop, ResetBuffer, PtrTypes, SizeInv,
        Boundary
  <2>4. TaskInv'
    BY <1>21
    DEF Release, Idle, MayStop, TriggerStop, ResetBuffer, TaskInv, SizeInv,
        Boundary
  <2> QED BY <1>0, <2>1, <2>2, <2>3, <2>4
<1>22. CASE CloseDone
  <2>1. state' \in PcmState
    BY <1>22 DEF CloseDone, Idle, PcmState
  <2>2. SizeInv(B)'
    BY <1>22 DEF CloseDone, Idle, SizeInv
  <2>3. PtrTypes'
    BY <1>22 DEF CloseDone, Idle, PtrTypes, SizeInv, Boundary
  <2>4. TaskInv'
    BY <1>22 DEF CloseDone, Idle, TaskInv, SizeInv, Boundary
  <2> QED BY <1>0, <2>1, <2>2, <2>3, <2>4
<1> QED BY <1>1, <1>2, <1>3, <1>4, <1>5, <1>6, <1>7, <1>8, <1>9, <1>10,
           <1>11, <1>12, <1>13, <1>14, <1>15, <1>16, <1>17, <1>18, <1>19,
           <1>20, <1>21, <1>22
    DEF Next, Writer

(* DacInv holds in every reachable state, for a buffer of any size.         *)
THEOREM DacCorrect ==
  ASSUME NEW B \in Nat \ {0}, OneBufferSize(B)
  PROVE  Spec => []DacInv(B)
<1>1. Init => DacInv(B)
  BY DacInit
<1>2. DacInv(B) /\ [Next]_vars => DacInv(B)'
  <2>1. DacInv(B) /\ Next => DacInv(B)'
    BY DacNext
  <2>2. DacInv(B) /\ UNCHANGED vars => DacInv(B)'
    BY DEF vars, chip, hist, dac, pcm, hwPtrs, params, DacInv, StallInv, TaskShape,
       SizeInv, PtrTypes, TaskInv, Boundary
  <2> QED BY <2>1, <2>2
<1> QED BY <1>1, <1>2, PTL DEF Spec

(* Types: no pointer of the middle layer or of the driver gets negative,    *)
(* and no piece that copy() is given is empty or longer than the buffer.    *)
THEOREM DacTypeCorrect ==
  ASSUME NEW B \in Nat \ {0}, OneBufferSize(B)
  PROVE  Spec => []TypeOK
<1>1. DacInv(B) /\ EarlyInv => TypeOK
  BY DEF DacInv, StallInv, TaskShape, SizeInv, PtrTypes, TaskInv, EarlyInv,
         TypeOK, Busy
<1>2. Spec => []DacInv(B)
  BY DacCorrect
<1> QED BY <1>1, <1>2, EarlyAlways, PTL

(* The handler's pointer wraps before the last byte of the buffer.          *)
WrapInv(B) ==
  IF chip_size = 0 THEN buffer_begin = 0 ELSE buffer_begin < B - 1

(* Only the handler moves the pointer, and only the size that prepare()     *)
(* stores can change under it.                                              *)
LEMMA WrapNext ==
  ASSUME NEW B \in Nat \ {0, 1}, OneBufferSize(B), DacInv(B), WrapInv(B), Next
  PROVE  WrapInv(B)'
<1> USE DEF DacInv, SizeInv, PtrTypes, WrapInv, dac, chip, hist
<1>1. CASE Interrupt
  BY <1>1 DEF Interrupt, TriggerStop, ResetBuffer, Wrap
<1>2. ASSUME NEW size \in 1 .. buffer_size, WriteBegin(size)
      PROVE  WrapInv(B)'
  BY <1>2 DEF WriteBegin
<1>3. CASE WriteLoop
  BY <1>3 DEF WriteLoop, MayStop, TriggerStop, ResetBuffer
<1>4. CASE WriteReturn
  BY <1>4 DEF WriteReturn
<1>5. CASE WriteWoken
  BY <1>5 DEF WriteWoken
<1>6. CASE WriteGivesUp
  BY <1>6 DEF WriteGivesUp
<1>7. CASE CopyEnd
  BY <1>7 DEF CopyEnd
<1>8. CASE CopyTest
  BY <1>8 DEF CopyTest
<1>9. CASE CopyKick
  BY <1>9 DEF CopyKick
<1>10. CASE WriteAck
  BY <1>10 DEF WriteAck
<1>11. CASE Open
  BY <1>11 DEF Open, ResetBuffer
<1>12. ASSUME NEW k \in Configs, HwParams(k)
      PROVE  WrapInv(B)'
  BY <1>12 DEF HwParams
<1>13. CASE SwParams
  BY <1>13 DEF SwParams
<1>14. CASE HwFree
  BY <1>14 DEF HwFree
<1>15. CASE Prepare
  BY <1>15 DEF Prepare, PreparePcm
<1>16. CASE Drop
  BY <1>16 DEF Drop, MayStop, TriggerStop, ResetBuffer
<1>17. CASE Start
  BY <1>17 DEF Start
<1>18. CASE Drain
  BY <1>18 DEF Drain
<1>19. CASE DrainReturn
  BY <1>19 DEF DrainReturn
<1>20. CASE DrainGivesUp
  BY <1>20 DEF DrainGivesUp, MayStop, TriggerStop, ResetBuffer
<1>21. CASE Release
  BY <1>21 DEF Release, MayStop, TriggerStop, ResetBuffer
<1>22. CASE CloseDone
  BY <1>22 DEF CloseDone
<1> QED BY <1>1, <1>2, <1>3, <1>4, <1>5, <1>6, <1>7, <1>8, <1>9, <1>10,
           <1>11, <1>12, <1>13, <1>14, <1>15, <1>16, <1>17, <1>18, <1>19,
           <1>20, <1>21, <1>22
    DEF Next, Writer

-----------------------------------------------------------------------------
(* The distance of the handler from the last period interrupt.              *)

(* Where the handler is for the middle layer: after hw_ptr.                 *)
PosOf(B, h, base, b) == base + b + (IF b < h - base THEN B ELSE 0)

(* How far it is from hw_ptr_interrupt, on the circle of M positions.       *)
DistOf(B, M, h, base, hwi, b) ==
  PosOf(B, h, base, b) - hwi + (IF hwi > h THEN M ELSE 0)

(* With n bytes played since the last report to the middle layer it is less *)
(* than a period and n bytes away; one byte more for as long as the wrap,   *)
(* at which the handler leaves out a byte, is not more than n bytes ago.    *)
Near(B, M, P, h, base, hwi, b, n) ==
  LET d == DistOf(B, M, h, base, hwi, b)
      c == Min2(n, P - 1)
  IN d <= P - 1 + c \/ (d = P + c /\ b <= c)

(* Buffer, boundary and period; a buffer has two periods or more.           *)
Sizes(B, M, P) ==
  /\ B \in Nat /\ M \in Nat /\ P \in Nat
  /\ 1 <= P /\ P + P <= B /\ 4 * B <= M

Ptrs(B, M, h, base, hwi) ==
  /\ h \in Nat /\ base \in Nat /\ hwi \in Nat
  /\ base <= h /\ h < base + B /\ base + B <= M /\ hwi < M

(* The handler's pointer after one byte.                                    *)
ByteOn(B, b) == IF b + 1 = B - 1 THEN 0 ELSE b + 1

(* snd_pcm_update_hw_ptr() sees where the handler is, and moves nothing     *)
(* else.                                                                    *)
LEMMA NearUpdate ==
  ASSUME NEW B, NEW M, NEW P, NEW h, NEW base, NEW hwi, NEW b \in Nat,
         NEW n \in Nat, NEW nbase,
         Sizes(B, M, P), Ptrs(B, M, h, base, hwi), b < B - 1,
         Near(B, M, P, h, base, hwi, b, n),
         nbase = IF h - (base + b) > 0
                   THEN IF base + B = M THEN 0 ELSE base + B ELSE base
  PROVE  Near(B, M, P, nbase + b, nbase, hwi, b, n)
BY SMT DEF Sizes, Ptrs, Near, DistOf, PosOf, Min2

(* A byte that does not complete a period.                                  *)
LEMMA NearTick ==
  ASSUME NEW B, NEW M, NEW P, NEW h, NEW base, NEW hwi, NEW b \in Nat,
         NEW n \in Nat,
         Sizes(B, M, P), Ptrs(B, M, h, base, hwi), b < B - 1,
         Near(B, M, P, h, base, hwi, b, n), n + 1 < P
  PROVE  Near(B, M, P, h, base, hwi, ByteOn(B, b), n + 1)
BY SMT DEF Sizes, Ptrs, Near, DistOf, PosOf, Min2, ByteOn

(* One that does, but comes too early for the middle layer.                 *)
LEMMA NearJitter ==
  ASSUME NEW B, NEW M, NEW P, NEW h, NEW base, NEW hwi, NEW b \in Nat,
         NEW n \in Nat, NEW half \in Nat, half + half <= B,
         B <= half + half + 1,
         Sizes(B, M, P), Ptrs(B, M, h, base, hwi), b < B - 1,
         Near(B, M, P, h, base, hwi, b, n), n + 1 >= P,
         (hwi + P) - (base + (b + 1)) > 0,
         (hwi + P) - (base + (b + 1)) < half
  PROVE  Near(B, M, P, h, base, hwi, ByteOn(B, b), (n + 1) - P)
BY SMT DEF Sizes, Ptrs, Near, DistOf, PosOf, Min2, ByteOn

(* One that is due or late is not behind hw_ptr, although a write may have  *)
(* moved hw_ptr on since the last period interrupt.                         *)
LEMMA NearAhead ==
  ASSUME NEW B, NEW M, NEW P, NEW h, NEW base, NEW hwi, NEW b \in Nat,
         NEW n \in Nat,
         Sizes(B, M, P), Ptrs(B, M, h, base, hwi), b < B - 1,
         Near(B, M, P, h, base, hwi, b, n), n + 1 >= P,
         ~((hwi + P) - (base + (b + 1)) > 0)
  PROVE  base + (b + 1) >= h
BY SMT DEF Sizes, Ptrs, Near, DistOf, PosOf, Min2

(* After a period interrupt hw_ptr_interrupt is in hw_ptr's period.         *)
LEMMA NearMove ==
  ASSUME NEW B, NEW M, NEW P, NEW base \in Nat, NEW hwi, NEW b \in Nat,
         NEW n \in Nat, NEW r \in Nat,
         Sizes(B, M, P), b < B - 1, r < P, r <= base + (b + 1),
         hwi = (base + (b + 1)) - r
  PROVE  Near(B, M, P, base + (b + 1), base, hwi, ByteOn(B, b), n)
BY SMT DEF Sizes, Near, DistOf, PosOf, Min2, ByteOn

-----------------------------------------------------------------------------
(* The room in the buffer. *)

Bases(B) == {k * B : k \in 0 .. BoundFactor - 1}

(* The boundary is at least four buffers.                                   *)
LEMMA BoundaryFour ==
  ASSUME NEW B \in Nat
  PROVE  B * BoundFactor \in Nat /\ 4 * B <= B * BoundFactor
<1>1. BoundFactor \in Nat /\ BoundFactor >= 4
  BY PcmAssumption
<1>2. \A f \in Nat : B * (4 + f) = 4 * B + B * f /\ B * f >= 0
  OBVIOUS
<1>3. BoundFactor = 4 + (BoundFactor - 4) /\ BoundFactor - 4 \in Nat
  BY <1>1
<1> QED BY <1>1, <1>2, <1>3

(* The base of the buffer lies a buffer before the boundary, or more, and   *)
(* so does the next base.                                                   *)
LEMMA BaseRange ==
  ASSUME NEW B \in Nat \ {0}, NEW base \in Bases(B)
  PROVE  /\ base \in Nat /\ base + B <= B * BoundFactor
         /\ (IF base + B = B * BoundFactor THEN 0 ELSE base + B) \in Bases(B)
<1>1. BoundFactor \in Nat /\ BoundFactor >= 4
  BY PcmAssumption
<1>2. PICK k \in 0 .. BoundFactor - 1 : base = k * B
  BY DEF Bases
<1>3. \A j \in Nat : j * B \in Nat
  OBVIOUS
<1>4. base + B = (k + 1) * B
  BY <1>1, <1>2
<1>5. CASE k + 1 = BoundFactor
  <2>1. base + B = B * BoundFactor
    BY <1>1, <1>4, <1>5
  <2>2. 0 = 0 * B /\ 0 \in 0 .. BoundFactor - 1
    BY <1>1
  <2> QED BY <1>2, <1>3, <2>1, <2>2 DEF Bases
<1>6. CASE k + 1 < BoundFactor
  <2>1. k + 1 \in 0 .. BoundFactor - 1
    BY <1>1, <1>6
  <2>2. \A j, f \in Nat : j < f => j * B + B <= B * f
    <3> TAKE j, f \in Nat
    <3>1. ASSUME j < f PROVE j * B + B <= B * f
      <4>1. PICK i \in Nat : f = (j + 1) + i
        <5>1. f = (j + 1) + (f - (j + 1)) /\ f - (j + 1) \in Nat
          BY <3>1
        <5> QED BY <5>1
      <4>2. B * ((j + 1) + i) = (j * B + B) + B * i
        OBVIOUS
      <4>3. B * i \in Nat /\ j * B \in Nat
        OBVIOUS
      <4> QED BY <4>1, <4>2, <4>3
    <3> QED BY <3>1
  <2>3. (k + 1) * B + B <= B * BoundFactor /\ (k + 1) * B \in Nat
    BY <1>1, <1>3, <1>6, <2>2
  <2>4. B * BoundFactor \in Nat
    BY BoundaryFour
  <2>5. base \in Nat /\ base + B < B * BoundFactor
    BY <1>2, <1>3, <1>4, <2>3, <2>4
  <2>6. base + B \in Bases(B)
    BY <1>4, <2>1 DEF Bases
  <2> QED BY <2>4, <2>5, <2>6
<1> QED BY <1>1, <1>5, <1>6

(* A buffer of several periods has two or more.                             *)
LEMMA PeriodHalf ==
  ASSUME NEW k \in Configs
  PROVE  k[2] = k[1] \/ k[2] + k[2] <= k[1]
<1>1. k[1] \in Nat \ {0} /\ k[2] \in Nat \ {0} /\ k[1] % k[2] = 0
  BY PcmAssumption
<1>2. \A m, n \in Nat \ {0} : m < n => m % n = m
  OBVIOUS
<1>3. \A m, n \in Nat \ {0} : n < m /\ m < n + n => m % n = m - n
  OBVIOUS
<1> QED BY <1>1, <1>2, <1>3

(* snd_pcm_playback_avail() for a boundary M.                               *)
RoomOf(B, M, h, p) ==
  LET a == h + B - p IN IF a < 0 THEN a + M ELSE IF a >= M THEN a - M ELSE a

(* The room grows by what hw_ptr moves on, across the boundary too.         *)
LEMMA RoomForward ==
  ASSUME NEW B \in Nat, NEW M \in Nat, 4 * B <= M,
         NEW h \in Nat, h < M, NEW p \in Nat, p < M,
         RoomOf(B, M, h, p) < B,
         NEW adv \in Nat, adv < B + B,
         NEW h2 \in Nat, h2 < M, h2 = h + adv \/ h2 = (h + adv) - M
  PROVE  RoomOf(B, M, h2, p) = RoomOf(B, M, h, p) + adv
BY SMT DEF RoomOf

(* It shrinks by what appl_ptr moves on.                                    *)
LEMMA RoomTaken ==
  ASSUME NEW B \in Nat, NEW M \in Nat, 4 * B <= M,
         NEW h \in Nat, h < M, NEW p \in Nat, p < M,
         NEW f \in Nat, f <= RoomOf(B, M, h, p), f <= B
  PROVE  RoomOf(B, M, h, IF p + f >= M THEN (p + f) - M ELSE p + f)
           = RoomOf(B, M, h, p) - f
BY SMT DEF RoomOf

(* AvailAt() is RoomOf() for the boundary of the buffer.                    *)
LEMMA AvailIsRoom ==
  ASSUME NEW B \in Nat, buffer_size = B, NEW h, NEW p
  PROVE  AvailAt(h, p) = RoomOf(B, B * BoundFactor, h, p)
BY DEF AvailAt, RoomOf, Boundary

-----------------------------------------------------------------------------
(* The two pointers never overtake one another. *)

(* hw_ptr lies in the buffer that begins at hw_ptr_base.                    *)
BaseInv(B) ==
  /\ hw_ptr_base \in Bases(B)
  /\ hw_ptr_base <= hw_ptr /\ hw_ptr < hw_ptr_base + B
  /\ hw_ptr_interrupt < B * BoundFactor
  /\ period_size = B \/ period_size + period_size <= B

(* prepare() has reset the pointers.                                        *)
PrepInv ==
  state = "PREPARED" => hw_ptr = 0 /\ hw_ptr_base = 0 /\ hw_ptr_interrupt = 0

(* The handler of a stream that was started early is near the last period   *)
(* interrupt.                                                               *)
DistInv(B) ==
  early /\ period_size # B =>
    Near(B, B * BoundFactor, period_size, hw_ptr, hw_ptr_base,
         hw_ptr_interrupt, buffer_begin, processed)

(* There is room for the writer's piece, unless prepare() came after it was *)
(* cut.                                                                     *)
FrameInv ==
  w.pc \in Busy /\ (state = "PREPARED" \/ early) =>
    IF appl_ptr = w.appl THEN w.frames <= Avail
                         ELSE state = "PREPARED" /\ appl_ptr = 0

RoomInv(B) ==
  /\ BaseInv(B) /\ PrepInv /\ DistInv(B)
  /\ FrameInv /\ AvailBounded

(* Moving hw_ptr, and going on to the next buffer if nb holds.              *)
LEMMA MovePtrs ==
  ASSUME NEW B \in Nat \ {0}, buffer_size = B, BaseInv(B),
         NEW pos \in Nat, pos < B, NEW nb \in BOOLEAN, MoveHwPtr(pos, nb)
  PROVE  /\ hw_ptr_base' \in Bases(B) /\ hw_ptr_base' \in Nat
         /\ hw_ptr_base' = IF nb THEN IF hw_ptr_base + B = B * BoundFactor
                                        THEN 0 ELSE hw_ptr_base + B
                                  ELSE hw_ptr_base
         /\ hw_ptr' = hw_ptr_base' + pos
         /\ hw_ptr_base' <= hw_ptr' /\ hw_ptr' < hw_ptr_base' + B
<1>1. hw_ptr_base \in Bases(B)
  BY DEF BaseInv
<1>2. /\ hw_ptr_base' = IF nb THEN NextBase ELSE hw_ptr_base
      /\ hw_ptr' = hw_ptr_base' + pos
  BY DEF MoveHwPtr
<1>3. NextBase = IF hw_ptr_base + B = B * BoundFactor
                   THEN 0 ELSE hw_ptr_base + B
  BY DEF NextBase, Boundary
<1>4. hw_ptr_base' \in Bases(B)
  BY <1>1, <1>2, <1>3, BaseRange
<1>5. hw_ptr_base' \in Nat
  BY <1>4, BaseRange
<1> QED BY <1>2, <1>3, <1>4, <1>5

(* A move that does not take hw_ptr back leaves no less room than there     *)
(* was, and not a whole buffer of it if the stream is not stopped.          *)
LEMMA MoveRoom ==
  ASSUME NEW B \in Nat \ {0}, buffer_size = B, BaseInv(B), hw_ptr \in Nat,
         appl_ptr \in Nat, appl_ptr < Boundary, Avail < B,
         NEW pos \in Nat, pos < B, NEW nb \in BOOLEAN,
         nb \/ hw_ptr_base + pos >= hw_ptr,
         MoveHwPtr(pos, nb), UNCHANGED <<buffer_size, appl_ptr>>
  PROVE  Running' => Avail <= Avail' /\ Avail' < B
<1> DEFINE M   == B * BoundFactor
           adv == IF nb THEN (B + pos) - (hw_ptr - hw_ptr_base)
                        ELSE (hw_ptr_base + pos) - hw_ptr
<1>1. M \in Nat /\ 4 * B <= M /\ Boundary = M
  BY BoundaryFour DEF Boundary
<1>2. hw_ptr_base \in Nat /\ hw_ptr_base + B <= M
  BY BaseRange DEF BaseInv
<1>3. hw_ptr_base <= hw_ptr /\ hw_ptr < hw_ptr_base + B
  BY DEF BaseInv
<1>4. /\ hw_ptr_base' \in Bases(B) /\ hw_ptr' = hw_ptr_base' + pos
      /\ hw_ptr_base' = IF nb THEN IF hw_ptr_base + B = M
                                     THEN 0 ELSE hw_ptr_base + B
                               ELSE hw_ptr_base
  BY MovePtrs
<1>5. hw_ptr_base' \in Nat /\ hw_ptr_base' + B <= M
  BY <1>4, BaseRange
<1> HIDE DEF M
<1>6. adv \in Nat /\ adv < B + B
  BY <1>2, <1>3
<1>7. /\ hw_ptr' \in Nat /\ hw_ptr' < M
      /\ hw_ptr' = hw_ptr + adv \/ hw_ptr' = (hw_ptr + adv) - M
  BY <1>1, <1>2, <1>3, <1>4, <1>5
<1>8. /\ Avail = RoomOf(B, M, hw_ptr, appl_ptr)
      /\ Avail' = RoomOf(B, M, hw_ptr', appl_ptr)
      /\ AvailAt(hw_ptr', appl_ptr) = RoomOf(B, M, hw_ptr', appl_ptr)
  BY AvailIsRoom DEF Avail, M, AvailAt, RoomOf, Boundary
<1>9. hw_ptr < M /\ appl_ptr < M
  BY <1>1, <1>2, <1>3
<1> HIDE DEF adv
<1>10. Avail' = Avail + adv
  BY <1>1, <1>6, <1>7, <1>8, <1>9, RoomForward
<1>11. Avail \in Int
  BY <1>1, <1>8 DEF RoomOf
<1>12. state' = PostState(hw_ptr')
  BY <1>4 DEF MoveHwPtr
<1>13. Running' => ~(AvailAt(hw_ptr', appl_ptr) >= B)
  BY <1>12 DEF PostState, Stop_threshold, Running
<1>14. Avail' = AvailAt(hw_ptr', appl_ptr)
  BY <1>8
<1> QED BY <1>6, <1>10, <1>11, <1>13, <1>14

(* snd_pcm_update_hw_ptr() never takes hw_ptr back.                         *)
LEMMA UpdateRoom ==
  ASSUME NEW B \in Nat \ {0, 1}, buffer_size = B, BaseInv(B), hw_ptr \in Nat,
         hw_ptr_interrupt \in Nat, processed \in Nat, period_size \in Nat \ {0},
         buffer_begin \in Nat, buffer_begin < B - 1,
         UpdateHwPtr(buffer_begin), UNCHANGED <<params, appl_ptr>>
  PROVE  /\ BaseInv(B)'
         /\ appl_ptr \in Nat /\ appl_ptr < Boundary /\ Avail < B
              => (Running' => Avail <= Avail' /\ Avail' < B)
         /\ DistInv(B) /\ UNCHANGED <<buffer_begin, processed>> /\ (early' => early)
              => DistInv(B)'
<1> DEFINE M  == B * BoundFactor
           nb == Behind(buffer_begin, hw_ptr) > 0
<1>1. CASE Jitter(buffer_begin, hw_ptr)
  <2>1. UNCHANGED <<state, hwPtrs>>
    BY <1>1 DEF UpdateHwPtr
  <2>2. Avail' = Avail
    BY <2>1 DEF Avail, AvailAt, Boundary, params, hwPtrs
  <2>3. BaseInv(B)'
    BY <2>1 DEF BaseInv, params, hwPtrs
  <2>4. DistInv(B) /\ UNCHANGED <<buffer_begin, processed>> /\ (early' => early)
          => DistInv(B)'
    BY <2>1 DEF DistInv, params, hwPtrs
  <2>5. Boundary \in Nat /\ (appl_ptr \in Nat /\ appl_ptr < Boundary => Avail \in Nat)
    BY BoundaryRange, AvailNat DEF Boundary, Avail
  <2> QED BY <2>2, <2>3, <2>4, <2>5
<1>2. CASE ~Jitter(buffer_begin, hw_ptr)
  <2>1. /\ MoveHwPtr(buffer_begin, nb) /\ UNCHANGED hw_ptr_interrupt
    BY <1>2 DEF UpdateHwPtr
  <2>2. nb \in BOOLEAN /\ buffer_begin < B
    OBVIOUS
  <2>3. hw_ptr_base \in Nat /\ hw_ptr_base + B <= M
    BY BaseRange DEF BaseInv
  <2>4. nb <=> hw_ptr - (hw_ptr_base + buffer_begin) > 0
    BY DEF Behind
  <2>5. nb \/ hw_ptr_base + buffer_begin >= hw_ptr
    BY <2>3, <2>4
  <2>6. UNCHANGED <<buffer_size, period_size>>
    BY DEF params
  <2> HIDE DEF nb
  <2>7. /\ hw_ptr_base' \in Bases(B)
        /\ hw_ptr_base' = IF nb THEN IF hw_ptr_base + B = M
                                        THEN 0 ELSE hw_ptr_base + B
                                  ELSE hw_ptr_base
        /\ hw_ptr' = hw_ptr_base' + buffer_begin
        /\ hw_ptr_base' <= hw_ptr' /\ hw_ptr' < hw_ptr_base' + B
    BY <2>1, <2>2, MovePtrs
  <2>8. BaseInv(B)'
    BY <2>1, <2>6, <2>7 DEF BaseInv
  <2>9. appl_ptr \in Nat /\ appl_ptr < Boundary /\ Avail < B
          => (Running' => Avail <= Avail' /\ Avail' < B)
    BY <2>1, <2>2, <2>5, <2>6, MoveRoom
  <2>10. ASSUME DistInv(B), UNCHANGED <<buffer_begin, processed>>,
                early, period_size # B
         PROVE  Near(B, M, period_size, hw_ptr', hw_ptr_base',
                     hw_ptr_interrupt, buffer_begin, processed)
    <3>1. Near(B, M, period_size, hw_ptr, hw_ptr_base, hw_ptr_interrupt,
               buffer_begin, processed)
      BY <2>10 DEF DistInv
    <3>2. M \in Nat /\ 4 * B <= M
      BY BoundaryFour
    <3>3. hw_ptr_interrupt < M
      BY DEF BaseInv
    <3> HIDE DEF M
    <3>4. Sizes(B, M, period_size) /\ Ptrs(B, M, hw_ptr, hw_ptr_base, hw_ptr_interrupt)
      BY <2>3, <2>10, <3>2, <3>3 DEF Sizes, Ptrs, BaseInv
    <3>5. hw_ptr_base' = IF hw_ptr - (hw_ptr_base + buffer_begin) > 0
                           THEN IF hw_ptr_base + B = M THEN 0 ELSE hw_ptr_base + B
                           ELSE hw_ptr_base
      BY <2>4, <2>7
    <3> QED BY <2>7, <3>1, <3>4, <3>5, NearUpdate
  <2>11. DistInv(B) /\ UNCHANGED <<buffer_begin, processed>> /\ (early' => early)
           => DistInv(B)'
    BY <2>1, <2>6, <2>10 DEF DistInv
  <2> QED BY <2>8, <2>9, <2>11
<1> QED BY <1>1, <1>2

(* Nor does snd_pcm_update_hw_ptr_interrupt(), if the stream was started    *)
(* early.                                                                   *)
LEMMA ElapsedRoom ==
  ASSUME NEW B \in Nat \ {0, 1}, buffer_size = B, BaseInv(B), hw_ptr \in Nat,
         hw_ptr_interrupt \in Nat, processed \in Nat, period_size \in Nat \ {0},
         buffer_begin \in Nat, buffer_begin < B - 1, DistInv(B),
         early => Running, processed + 1 >= period_size,
         PeriodElapsed(buffer_begin + 1), UNCHANGED <<params, appl_ptr>>
  PROVE  /\ BaseInv(B)'
         /\ early /\ appl_ptr \in Nat /\ appl_ptr < Boundary /\ Avail < B
              => (Running' => Avail <= Avail' /\ Avail' < B)
         /\ (early' => early) /\ buffer_begin' = ByteOn(B, buffer_begin)
              /\ processed' = (processed + 1) - period_size
              => DistInv(B)'
<1> DEFINE M    == B * BoundFactor
           due  == hw_ptr_interrupt + period_size
           whole == period_size = buffer_size
           pos  == buffer_begin + 1
           nb   == whole \/ Behind(pos, due) > 0
           still == ~Running \/ (~whole /\ Jitter(pos, due))
           ok   == /\ early' => early
                   /\ buffer_begin' = ByteOn(B, buffer_begin)
                   /\ processed' = (processed + 1) - period_size
<1>1. hw_ptr_base \in Nat /\ hw_ptr_base + B <= M
  BY BaseRange DEF BaseInv
<1>2. M \in Nat /\ 4 * B <= M
  BY BoundaryFour
<1>3. hw_ptr_interrupt < M
  BY DEF BaseInv
<1>4. UNCHANGED <<buffer_size, period_size>>
  BY DEF params
<1>5. Behind(pos, due) = (hw_ptr_interrupt + period_size) - (hw_ptr_base + (buffer_begin + 1))
  BY DEF Behind
<1>6. ASSUME early, period_size # B
      PROVE  /\ Sizes(B, M, period_size)
             /\ Ptrs(B, M, hw_ptr, hw_ptr_base, hw_ptr_interrupt)
             /\ Near(B, M, period_size, hw_ptr, hw_ptr_base, hw_ptr_interrupt,
                     buffer_begin, processed)
  <2>1. Near(B, M, period_size, hw_ptr, hw_ptr_base, hw_ptr_interrupt,
             buffer_begin, processed)
    BY <1>6 DEF DistInv
  <2> HIDE DEF M
  <2> QED BY <1>1, <1>2, <1>3, <1>6, <2>1 DEF Sizes, Ptrs, BaseInv
<1>7. CASE still
  <2>1. UNCHANGED <<state, hwPtrs>>
    BY <1>7 DEF PeriodElapsed
  <2>2. Avail' = Avail
    BY <2>1 DEF Avail, AvailAt, Boundary, params, hwPtrs
  <2>3. BaseInv(B)'
    BY <2>1 DEF BaseInv, params, hwPtrs
  <2>4. Boundary \in Nat /\ (appl_ptr \in Nat /\ appl_ptr < Boundary => Avail \in Nat)
    BY BoundaryRange, AvailNat DEF Boundary, Avail
  <2>5. ASSUME ok, early, Running, period_size # B
        PROVE  Near(B, M, period_size, hw_ptr, hw_ptr_base, hw_ptr_interrupt,
                    ByteOn(B, buffer_begin), (processed + 1) - period_size)
    <3>1. Behind(pos, due) > 0 /\ Behind(pos, due) < B \div 2
      BY <1>7, <2>5 DEF Jitter
    <3>2. /\ B \div 2 \in Nat /\ (B \div 2) + (B \div 2) <= B
          /\ B <= (B \div 2) + (B \div 2) + 1
      OBVIOUS
    <3> HIDE DEF M
    <3> QED BY <1>5, <1>6, <2>5, <3>1, <3>2, NearJitter
  <2>6. ok => DistInv(B)'
    BY <1>4, <2>1, <2>5 DEF DistInv, hwPtrs
  <2> QED BY <2>2, <2>3, <2>4, <2>6
<1>8. CASE ~still
  <2>1. /\ MoveHwPtr(pos, nb)
        /\ hw_ptr_interrupt' = hw_ptr' - (hw_ptr' % period_size)
    BY <1>8 DEF PeriodElapsed
  <2>2. nb \in BOOLEAN /\ pos \in Nat /\ pos < B
    OBVIOUS
  <2>3. early => nb \/ hw_ptr_base + pos >= hw_ptr
    <3>1. CASE ~nb /\ early
      <4>1. period_size # B /\ ~(Behind(pos, due) > 0)
        BY <3>1
      <4> HIDE DEF M
      <4> QED BY <1>5, <1>6, <3>1, <4>1, NearAhead
    <3> QED BY <3>1
  <2> HIDE DEF nb
  <2>4. /\ hw_ptr_base' \in Bases(B) /\ hw_ptr_base' \in Nat
        /\ hw_ptr' = hw_ptr_base' + pos
        /\ hw_ptr_base' <= hw_ptr' /\ hw_ptr' < hw_ptr_base' + B
    BY <2>1, <2>2, MovePtrs
  <2>5. hw_ptr' \in Nat /\ hw_ptr' < M
    <3>1. hw_ptr_base' + B <= M
      BY <2>4, BaseRange
    <3>2. \A m, x \in Nat : x + B <= m => x + pos \in Nat /\ x + pos < m
      BY <2>2
    <3> QED BY <1>2, <2>4, <3>1, <3>2
  <2>6. /\ hw_ptr' % period_size \in Nat /\ hw_ptr' % period_size < period_size
        /\ hw_ptr' % period_size <= hw_ptr'
    BY <2>5, ModRange
  <2>7. hw_ptr_interrupt' < M
    BY <1>2, <2>1, <2>5, <2>6
  <2>8. BaseInv(B)'
    BY <1>4, <2>4, <2>7 DEF BaseInv
  <2>9. early /\ appl_ptr \in Nat /\ appl_ptr < Boundary /\ Avail < B
          => (Running' => Avail <= Avail' /\ Avail' < B)
    BY <1>4, <2>1, <2>2, <2>3, MoveRoom
  <2>10. ASSUME ok, early, period_size # B
         PROVE  Near(B, M, period_size, hw_ptr', hw_ptr_base', hw_ptr_interrupt',
                     ByteOn(B, buffer_begin), (processed + 1) - period_size)
    <3>1. hw_ptr' = hw_ptr_base' + (buffer_begin + 1)
      BY <2>4
    <3>2. hw_ptr_interrupt'
            = (hw_ptr_base' + (buffer_begin + 1)) - (hw_ptr' % period_size)
      BY <2>1, <3>1
    <3>3. (processed + 1) - period_size \in Nat
      OBVIOUS
    <3>4. /\ Sizes(B, M, period_size) /\ hw_ptr_base' \in Nat
          /\ hw_ptr' % period_size \in Nat /\ hw_ptr' % period_size < period_size
          /\ hw_ptr' % period_size <= hw_ptr_base' + (buffer_begin + 1)
      BY <1>6, <2>4, <2>6, <2>10
    <3> HIDE DEF M
    <3>5. Near(B, M, period_size, hw_ptr_base' + (buffer_begin + 1), hw_ptr_base',
               hw_ptr_interrupt', ByteOn(B, buffer_begin),
               (processed + 1) - period_size)
      BY <3>2, <3>3, <3>4, NearMove
    <3> QED BY <3>1, <3>5
  <2>11. ok => DistInv(B)'
    BY <1>4, <2>10 DEF DistInv
  <2> QED BY <2>8, <2>9, <2>11
<1> QED BY <1>7, <1>8

(* A stream that is stopped, or not prepared yet, has nothing to keep but   *)
(* its pointers.                                                            *)
LEMMA RoomStopped ==
  ASSUME NEW B, RoomInv(B), UNCHANGED <<hwPtrs, period_size>>,
         state' \in {"CLOSED", "OPEN", "SETUP"}, ~early'
  PROVE  RoomInv(B)'
BY DEF RoomInv, BaseInv, PrepInv, DistInv, FrameInv, AvailBounded, hwPtrs

(* Nothing that RoomInv is about changes, but perhaps the writer's place.   *)
LEMMA RoomSame ==
  ASSUME NEW B, RoomInv(B), UNCHANGED <<state, hwPtrs, period_size, buffer_size,
           appl_ptr, buffer_begin, processed, early>>,
         w'.pc \in Busy => w.pc \in Busy /\ w'.appl = w.appl /\ w'.frames = w.frames
  PROVE  RoomInv(B)'
<1>1. Avail' = Avail
  BY DEF Avail, AvailAt, Boundary, hwPtrs
<1>2. FrameInv'
  BY <1>1 DEF RoomInv, FrameInv
<1>3. AvailBounded'
  BY <1>1 DEF RoomInv, AvailBounded, Running
<1> QED BY <1>2, <1>3 DEF RoomInv, BaseInv, PrepInv, DistInv, hwPtrs

(* A stream that is started has room, and the handler is near: it is still  *)
(* in the first period.                                                     *)
LEMMA RoomStart ==
  ASSUME NEW B \in Nat \ {0, 1}, DacInv(B), RoomInv(B), state = "PREPARED",
         state' \in {"RUNNING", "DRAINING"}, early' = FirstPeriod,
         UNCHANGED <<hwPtrs, period_size, buffer_size, buffer_begin, processed>>,
         Avail' < buffer_size
  PROVE  BaseInv(B)' /\ PrepInv' /\ DistInv(B)' /\ AvailBounded'
<1>1. BaseInv(B)' /\ PrepInv' /\ AvailBounded'
  BY DEF RoomInv, BaseInv, PrepInv, AvailBounded, hwPtrs
<1>2. /\ hw_ptr = 0 /\ hw_ptr_base = 0 /\ hw_ptr_interrupt = 0
      /\ buffer_begin \in Nat /\ processed \in Nat /\ period_size \in Nat \ {0}
  BY DEF RoomInv, PrepInv, DacInv, PtrTypes, SizeInv
<1>3. ASSUME buffer_begin < period_size, NEW M
      PROVE  Near(B, M, period_size, 0, 0, 0, buffer_begin, processed)
  BY <1>2, <1>3 DEF Near, DistOf, PosOf, Min2
<1>4. DistInv(B)'
  BY <1>2, <1>3 DEF DistInv, FirstPeriod, hwPtrs
<1> QED BY <1>1, <1>4

(* Each step keeps the pointers in order.                                   *)
LEMMA RoomNext ==
  ASSUME NEW B \in Nat \ {0, 1}, OneBufferSize(B), DacInv(B), WrapInv(B),
         EarlyInv, RoomInv(B), EarlyInv', Next
  PROVE  RoomInv(B)'
<1> USE DEF chip, hist, dac, pcm, params
<1>1. CASE Interrupt
  <2>1. /\ buffer_size = B /\ chip_size = B /\ period_size \in Nat \ {0}
        /\ buffer_begin \in Nat /\ buffer_begin < B - 1
    BY <1>1 DEF Interrupt, DacInv, SizeInv, PtrTypes, WrapInv
  <2>2. /\ hw_ptr \in Nat /\ hw_ptr_interrupt \in Nat /\ processed \in Nat
        /\ appl_ptr \in Nat /\ appl_ptr < Boundary
    BY <2>1, BoundaryRange DEF DacInv, PtrTypes, Boundary
  <2>3. UNCHANGED <<params, appl_ptr, w>> /\ (early' => early /\ Running')
    BY <1>1 DEF Interrupt, KeepEarly, Running
  <2>4. /\ BaseInv(B) /\ DistInv(B) /\ (early => Running)
        /\ early => Avail < B
    BY <2>1 DEF RoomInv, EarlyInv, AvailBounded
  <2>5. StopTriggers => ~early'
    BY <1>1 DEF Interrupt, KeepEarly, StopTriggers
  <2>6. ~StopTriggers =>
          /\ buffer_begin' = ByteOn(B, buffer_begin)
          /\ processed' = IF processed + 1 >= period_size
                            THEN (processed + 1) - period_size ELSE processed + 1
    BY <1>1, <2>1 DEF Interrupt, Wrap, ByteOn
  <2>7. /\ BaseInv(B)' /\ DistInv(B)'
        /\ early' => Avail <= Avail' /\ Avail' < B
    <3>1. CASE processed + 1 >= period_size
      <4>1. PeriodElapsed(buffer_begin + 1)
        BY <1>1, <3>1 DEF Interrupt
      <4>2. /\ BaseInv(B)'
            /\ early /\ Avail < B => (Running' => Avail <= Avail' /\ Avail' < B)
            /\ (early' => early) /\ buffer_begin' = ByteOn(B, buffer_begin)
                 /\ processed' = (processed + 1) - period_size
                 => DistInv(B)'
        BY <2>1, <2>2, <2>3, <2>4, <3>1, <4>1, ElapsedRoom
      <4>3. StopTriggers => DistInv(B)'
        BY <2>5 DEF DistInv
      <4> QED BY <2>3, <2>4, <2>6, <3>1, <4>2, <4>3
    <3>2. CASE ~(processed + 1 >= period_size)
      <4>1. UNCHANGED <<state, hwPtrs>>
        BY <1>1, <3>2 DEF Interrupt
      <4>2. Avail' = Avail
        BY <2>3, <4>1 DEF Avail, AvailAt, Boundary, hwPtrs
      <4>3. BaseInv(B)'
        BY <2>3, <2>4, <4>1 DEF BaseInv, hwPtrs
      <4>4. ~StopTriggers
        BY <4>1 DEF StopTriggers, Running
      <4>5. ASSUME early, period_size # B
            PROVE  Near(B, B * BoundFactor, period_size, hw_ptr, hw_ptr_base,
                        hw_ptr_interrupt, ByteOn(B, buffer_begin), processed + 1)
        <5> DEFINE M == B * BoundFactor
        <5>1. hw_ptr_base \in Nat /\ hw_ptr_base + B <= M
          BY <2>4, BaseRange DEF BaseInv
        <5>2. M \in Nat /\ 4 * B <= M
          BY BoundaryFour
        <5>3. hw_ptr_interrupt < M
          BY <2>4 DEF BaseInv
        <5>4. Near(B, M, period_size, hw_ptr, hw_ptr_base, hw_ptr_interrupt,
                   buffer_begin, processed)
          BY <2>4, <4>5 DEF DistInv
        <5> HIDE DEF M
        <5>5. /\ Sizes(B, M, period_size)
              /\ Ptrs(B, M, hw_ptr, hw_ptr_base, hw_ptr_interrupt)
          BY <2>1, <2>2, <2>4, <4>5, <5>1, <5>2, <5>3 DEF Sizes, Ptrs, BaseInv
        <5>6. Near(B, M, period_size, hw_ptr, hw_ptr_base, hw_ptr_interrupt,
                   ByteOn(B, buffer_begin), processed + 1)
          BY <2>1, <2>2, <3>2, <5>4, <5>5, NearTick
        <5> QED BY <5>6 DEF M
      <4>6. DistInv(B)'
        BY <2>3, <2>6, <3>2, <4>1, <4>4, <4>5 DEF DistInv, hwPtrs
      <4>7. Avail \in Nat
        BY <2>1, <2>2, AvailNat DEF Avail
      <4> QED BY <2>3, <2>4, <4>2, <4>3, <4>6, <4>7
    <3> QED BY <3>1, <3>2
  <2>8. PrepInv' /\ (state' = "PREPARED" => UNCHANGED <<state, hwPtrs>>)
    <3>1. state' = "PREPARED" => UNCHANGED <<state, hwPtrs>>
      <4>1. CASE UNCHANGED <<state, hwPtrs>>
        BY <4>1
      <4>2. CASE PeriodElapsed(buffer_begin + 1)
        BY <4>2 DEF PeriodElapsed, MoveHwPtr, PostState, Running
      <4> QED BY <1>1, <4>1, <4>2 DEF Interrupt
    <3> QED BY <3>1 DEF RoomInv, PrepInv, hwPtrs
  <2>9. AvailBounded'
    BY <2>1, <2>3, <2>7 DEF AvailBounded
  <2>10. FrameInv'
    <3>1. CASE state' = "PREPARED"
      <4>1. Avail' = Avail
        BY <2>3, <2>8, <3>1 DEF Avail, AvailAt, Boundary, hwPtrs
      <4> QED BY <2>3, <2>8, <3>1, <4>1 DEF RoomInv, FrameInv
    <3>2. CASE state' # "PREPARED" /\ early'
      <4>1. early /\ state # "PREPARED" /\ Avail <= Avail'
        BY <2>3, <2>4, <2>7, <3>2 DEF Running
      <4>2. w.pc \in Busy => appl_ptr = w.appl /\ w.frames <= Avail
        BY <4>1 DEF RoomInv, FrameInv
      <4>3. Avail \in Nat /\ Avail' \in Nat
        <5>1. Avail \in Nat
          BY <2>1, <2>2, AvailNat DEF Avail
        <5>2. hw_ptr' \in Nat /\ hw_ptr_base' \in Nat
          BY DacNext DEF DacInv, PtrTypes
        <5>3. Avail' = AvailAt(hw_ptr', appl_ptr)
          BY <2>3 DEF Avail, AvailAt, Boundary
        <5> QED BY <2>1, <2>2, <5>1, <5>2, <5>3, AvailNat
      <4>4. w.frames \in Nat
        BY DEF DacInv, TaskInv
      <4> QED BY <2>3, <4>1, <4>2, <4>3, <4>4 DEF FrameInv
    <3> QED BY <3>1, <3>2 DEF FrameInv
  <2> QED BY <2>7, <2>8, <2>9, <2>10 DEF RoomInv
<1>2. ASSUME NEW size \in 1 .. buffer_size, WriteBegin(size)
      PROVE  RoomInv(B)'
  BY <1>2, RoomSame DEF WriteBegin, Idle, Busy
<1>3. CASE WriteLoop
  <2>1. /\ buffer_size = B /\ chip_size = B /\ period_size \in Nat \ {0}
        /\ xfer_align \in Nat \ {0} /\ w.size \in Nat \ {0}
        /\ buffer_begin \in Nat /\ buffer_begin < B - 1
    BY <1>3 DEF WriteLoop, DacInv, SizeInv, PtrTypes, TaskInv, WrapInv, Writing
  <2>2. /\ hw_ptr \in Nat /\ hw_ptr_interrupt \in Nat /\ processed \in Nat
        /\ appl_ptr \in Nat /\ appl_ptr < Boundary
    BY <2>1, BoundaryRange DEF DacInv, PtrTypes, Boundary
  <2>3. UNCHANGED <<params, appl_ptr>> /\ (early' => early /\ Running')
    BY <1>3 DEF WriteLoop, KeepEarly, Running
  <2>4. /\ BaseInv(B) /\ DistInv(B) /\ (early => Running)
        /\ early => Avail < B
    BY <2>1 DEF RoomInv, EarlyInv, AvailBounded
  <2>5. StopTriggers => ~early'
    BY <1>3 DEF WriteLoop, KeepEarly, StopTriggers
  <2>6. ~StopTriggers => UNCHANGED <<buffer_begin, processed>>
    BY <1>3 DEF WriteLoop, MayStop
  <2>7. /\ BaseInv(B)' /\ DistInv(B)' /\ (early' => Avail' < B)
        /\ state' = "PREPARED" => UNCHANGED <<state, hwPtrs>>
    <3>1. CASE state = "RUNNING"
      <4>1. UpdateHwPtr(buffer_begin)
        BY <1>3, <3>1 DEF WriteLoop
      <4>2. /\ BaseInv(B)'
            /\ Avail < B => (Running' => Avail <= Avail' /\ Avail' < B)
            /\ UNCHANGED <<buffer_begin, processed>> /\ (early' => early)
                 => DistInv(B)'
        BY <2>1, <2>2, <2>3, <2>4, <4>1, UpdateRoom
      <4>3. StopTriggers => DistInv(B)'
        BY <2>5 DEF DistInv
      <4>4. state' # "PREPARED"
        BY <3>1, <4>1 DEF UpdateHwPtr, MoveHwPtr, PostState
      <4> QED BY <2>3, <2>4, <2>6, <4>2, <4>3, <4>4
    <3>2. CASE state # "RUNNING"
      <4>1. UNCHANGED <<state, hwPtrs>>
        BY <1>3, <3>2 DEF WriteLoop
      <4>2. Avail' = Avail
        BY <2>3, <4>1 DEF Avail, AvailAt, Boundary, hwPtrs
      <4>3. BaseInv(B)'
        BY <2>3, <2>4, <4>1 DEF BaseInv, hwPtrs
      <4>4. DistInv(B)'
        BY <2>3, <2>4, <2>5, <2>6, <4>1 DEF DistInv, hwPtrs
      <4> QED BY <2>3, <2>4, <4>1, <4>2, <4>3, <4>4
    <3> QED BY <3>1, <3>2
  <2>8. PrepInv'
    BY <2>7 DEF RoomInv, PrepInv, hwPtrs
  <2>9. AvailBounded'
    BY <2>1, <2>3, <2>7 DEF AvailBounded
  <2>10. FrameInv'
    <3> DEFINE a == AvailAt(hw_ptr', appl_ptr)
    <3>1. a \in Nat
      <4>1. hw_ptr' \in Nat
        BY DacNext DEF DacInv, PtrTypes
      <4> QED BY <2>1, <2>2, <4>1, AvailNat
    <3>2. Avail' = a
      BY <2>3 DEF Avail, AvailAt, Boundary
    <3>3. w' = IF NoRoom(a) THEN [w EXCEPT !.pc = "wait"] ELSE ToCopy(a)
      BY <1>3 DEF WriteLoop
    <3>4. CASE NoRoom(a)
      <4>1. w'.pc = "wait"
        BY <3>3, <3>4 DEF DacInv, StallInv, TaskShape
      <4> QED BY <4>1 DEF FrameInv, Busy
    <3>5. CASE ~NoRoom(a)
      <4>1. a \in Nat \ {0}
        BY <2>1, <3>1, <3>5 DEF NoRoom, Avail_min
      <4>2. Piece(a) <= a
        BY <2>1, <2>2, <4>1, PieceRange
      <4>3. w'.appl = appl_ptr /\ w'.frames = Piece(a)
        BY <3>3, <3>5 DEF ToCopy, DacInv, StallInv, TaskShape
      <4> QED BY <2>3, <3>2, <4>2, <4>3 DEF FrameInv
    <3> QED BY <3>4, <3>5
  <2> QED BY <2>7, <2>8, <2>9, <2>10 DEF RoomInv
<1>4. CASE WriteReturn
  BY <1>4, RoomSame DEF WriteReturn, Idle, Busy
<1>5. CASE WriteWoken
  <2>1. UNCHANGED <<pcm, chip>> /\ w.pc = "wait"
    BY <1>5 DEF WriteWoken
  <2>2. w' = Idle \/ (w' = ToCopy(Avail) /\ Avail >= Avail_min)
    BY <1>5 DEF WriteWoken
  <2>3. CASE w' = Idle
    BY <2>1, <2>3, RoomSame DEF Idle, Busy
  <2>4. CASE w' = ToCopy(Avail) /\ Avail >= Avail_min
    <3>1. /\ buffer_size \in Nat \ {0} /\ xfer_align \in Nat \ {0}
          /\ period_size \in Nat \ {0} /\ w.size \in Nat \ {0}
          /\ hw_ptr \in Nat /\ appl_ptr \in Nat
          /\ appl_ptr = 0 \/ appl_ptr < Boundary
      BY <2>1 DEF DacInv, SizeInv, PtrTypes, TaskInv, Writing
    <3>2. Avail \in Nat \ {0}
      BY <2>4, <3>1, AvailNat DEF Avail, Avail_min
    <3>3. Piece(Avail) <= Avail
      BY <3>1, <3>2, PieceRange
    <3>4. w'.appl = appl_ptr /\ w'.frames = Piece(Avail)
      BY <2>4 DEF ToCopy, DacInv, StallInv, TaskShape
    <3>5. Avail' = Avail
      BY <2>1 DEF Avail, AvailAt, Boundary, hwPtrs
    <3>6. FrameInv'
      BY <2>1, <3>3, <3>4, <3>5 DEF FrameInv
    <3>7. AvailBounded'
      BY <2>1, <3>5 DEF RoomInv, AvailBounded, Running
    <3> QED BY <2>1, <3>6, <3>7 DEF RoomInv, BaseInv, PrepInv, DistInv, hwPtrs
  <2> QED BY <2>2, <2>3, <2>4
<1>6. CASE WriteGivesUp
  BY <1>6, RoomSame DEF WriteGivesUp, Idle, Busy
<1>7. CASE CopyEnd
  BY <1>7, RoomSame DEF CopyEnd, Busy, DacInv, StallInv, TaskShape
<1>8. CASE CopyTest
  BY <1>8, RoomSame DEF CopyTest, Busy, DacInv, StallInv, TaskShape
<1>9. CASE CopyKick
  BY <1>9, RoomSame DEF CopyKick, Busy, DacInv, StallInv, TaskShape
<1>10. CASE WriteAck
  <2> DEFINE p    == w.appl + w.frames
             appl == IF p >= Boundary THEN p - Boundary ELSE p
  <2>1. w.pc \in Busy /\ w'.pc \notin Busy
    <3>1. \/ w' = Idle
          \/ w' = [w EXCEPT !.pc = "loop", !.size = w.size - w.frames]
      BY <1>10 DEF WriteAck
    <3>2. CASE w' = Idle
      BY <1>10, <3>2 DEF WriteAck, Idle, Busy
    <3>3. CASE w' = [w EXCEPT !.pc = "loop", !.size = w.size - w.frames]
      BY <1>10, <3>3 DEF WriteAck, Busy, DacInv, StallInv, TaskShape
    <3> QED BY <3>1, <3>2, <3>3
  <2>2. FrameInv'
    BY <2>1 DEF FrameInv
  <2>3. UNCHANGED <<params, hwPtrs, buffer_begin, processed>>
    BY <1>10 DEF WriteAck
  <2>4. /\ buffer_size = B /\ w.frames \in Nat /\ w.frames <= B
        /\ hw_ptr \in Nat /\ appl_ptr \in Nat /\ appl_ptr < Boundary
    BY <2>1, BoundaryRange DEF DacInv, SizeInv, PtrTypes, TaskInv, Writing, Boundary
  <2>5. CASE state = "XRUN"
    BY <1>10, <2>1, <2>3, <2>5, RoomSame DEF WriteAck
  <2>6. CASE state # "XRUN"
    <3>1. /\ appl_ptr' = appl
          /\ state' = IF AutoStart(appl) THEN "RUNNING" ELSE state
          /\ early' = IF AutoStart(appl) THEN FirstPeriod ELSE early
      BY <1>10, <2>6 DEF WriteAck
    <3>2. Avail' = AvailAt(hw_ptr, appl)
      BY <2>3, <3>1 DEF Avail, AvailAt, Boundary, hwPtrs
    <3> HIDE DEF appl
    <3>3. CASE AutoStart(appl)
      <4>1. state = "PREPARED" /\ state' = "RUNNING" /\ early' = FirstPeriod
        BY <3>1, <3>3 DEF AutoStart
      <4>2. Avail' < buffer_size
        BY <3>2, <3>3 DEF AutoStart
      <4> QED BY <2>2, <2>3, <4>1, <4>2, RoomStart DEF RoomInv
    <3>4. CASE ~AutoStart(appl)
      <4>1. UNCHANGED <<state, early>>
        BY <3>1, <3>4
      <4>2. ASSUME early PROVE Avail' < B
        <5>1. appl_ptr = w.appl /\ w.frames <= Avail /\ Avail < B
          BY <2>1, <2>4, <4>2
          DEF RoomInv, FrameInv, AvailBounded, EarlyInv, Running
        <5> DEFINE M == B * BoundFactor
        <5>2. M \in Nat /\ 4 * B <= M /\ Boundary = M
          BY <2>4, BoundaryFour DEF Boundary
        <5>3. hw_ptr < M
          <6>1. hw_ptr_base \in Nat /\ hw_ptr_base + B <= M
            BY BaseRange DEF RoomInv, BaseInv
          <6>2. hw_ptr < hw_ptr_base + B
            BY DEF RoomInv, BaseInv
          <6> HIDE DEF M
          <6> QED BY <2>4, <5>2, <6>1, <6>2
        <5>4. /\ Avail = RoomOf(B, M, hw_ptr, appl_ptr)
              /\ Avail' = RoomOf(B, M, hw_ptr, appl)
          BY <2>4, <3>2, AvailIsRoom DEF Avail
        <5> HIDE DEF M
        <5>5. appl = IF appl_ptr + w.frames >= M
                       THEN (appl_ptr + w.frames) - M ELSE appl_ptr + w.frames
          BY <5>1, <5>2 DEF appl
        <5>6. Avail' = Avail - w.frames
          BY <2>4, <5>1, <5>2, <5>3, <5>4, <5>5, RoomTaken
        <5>7. Avail \in Nat
          BY <2>4, AvailNat DEF Avail
        <5> QED BY <2>4, <5>1, <5>6, <5>7
      <4>3. AvailBounded'
        BY <2>3, <2>4, <4>1, <4>2 DEF AvailBounded
      <4> QED BY <2>2, <2>3, <4>1, <4>3
          DEF RoomInv, BaseInv, PrepInv, DistInv, hwPtrs
    <3> QED BY <3>3, <3>4
  <2> QED BY <2>5, <2>6
<1>11. CASE Open
  BY <1>11, RoomStopped DEF Open, EarlyInv, Running
<1>12. ASSUME NEW k \in Configs, HwParams(k)
      PROVE  RoomInv(B)'
  <2>1. k[2] = B \/ k[2] + k[2] <= B
    BY PeriodHalf DEF OneBufferSize
  <2>2. /\ state' = "SETUP" /\ ~early' /\ UNCHANGED hwPtrs
        /\ period_size' = k[2]
    BY <1>12 DEF HwParams, HwParamsPcm, EarlyInv, Running
  <2> QED BY <2>1, <2>2
      DEF RoomInv, BaseInv, PrepInv, DistInv, FrameInv, AvailBounded, hwPtrs
<1>13. CASE SwParams
  BY <1>13, RoomSame DEF SwParams, SwParamsPcm
<1>14. CASE HwFree
  BY <1>14, RoomStopped DEF HwFree, HwFreePcm, EarlyInv, Running
<1>15. CASE Prepare
  <2>1. /\ state' = "PREPARED" /\ ~early' /\ UNCHANGED <<params, w>>
        /\ hw_ptr' = 0 /\ hw_ptr_base' = 0 /\ hw_ptr_interrupt' = 0
        /\ appl_ptr' = 0 /\ buffer_size = B
    BY <1>15 DEF Prepare, PreparePcm, EarlyInv, Running, DacInv, SizeInv
  <2>2. BaseInv(B)'
    <3>1. 0 = 0 * B /\ 0 \in 0 .. BoundFactor - 1
      BY PcmAssumption
    <3>2. 0 \in Bases(B)
      BY <3>1 DEF Bases
    <3>3. 0 < B * BoundFactor
      BY BoundaryFour
    <3> QED BY <2>1, <3>2, <3>3 DEF RoomInv, BaseInv
  <2>3. FrameInv'
    <3>1. Avail' = B
      BY <2>1, BoundaryFour DEF Avail, AvailAt, Boundary
    <3>2. w.pc \in Busy => w.frames \in 1 .. B
      BY <2>1 DEF DacInv, TaskInv
    <3> QED BY <2>1, <3>1, <3>2 DEF FrameInv
  <2> QED BY <2>1, <2>2, <2>3 DEF RoomInv, PrepInv, DistInv, AvailBounded, Running
<1>16. CASE Drop
  BY <1>16, RoomStopped DEF Drop, EarlyInv, Running
<1>17. CASE Start
  <2>1. /\ state = "PREPARED" /\ state' = "RUNNING" /\ early' = FirstPeriod
        /\ UNCHANGED <<params, hwPtrs, appl_ptr, buffer_begin, processed, w>>
        /\ Avail < buffer_size
    BY <1>17 DEF Start
  <2>2. Avail' = Avail
    BY <2>1 DEF Avail, AvailAt, Boundary, hwPtrs
  <2>3. BaseInv(B)' /\ PrepInv' /\ DistInv(B)' /\ AvailBounded'
    BY <2>1, <2>2, RoomStart
  <2>4. FrameInv'
    <3>1. appl_ptr # 0
      <4>1. hw_ptr = 0 /\ buffer_size = B
        BY <2>1 DEF RoomInv, PrepInv, DacInv, SizeInv
      <4>2. appl_ptr = 0 => Avail = B
        BY <4>1, BoundaryFour DEF Avail, AvailAt, Boundary
      <4> QED BY <2>1, <4>1, <4>2
    <3> QED BY <2>1, <2>2, <3>1 DEF RoomInv, FrameInv
  <2> QED BY <2>3, <2>4 DEF RoomInv
<1>18. CASE Drain
  <2>1. /\ UNCHANGED <<params, hwPtrs, appl_ptr, buffer_begin, processed>>
        /\ state' = "DRAINING" /\ (w'.pc = "drain" \/ w' = w)
        /\ \/ state = "PREPARED" /\ Avail < buffer_size
           \/ state = "RUNNING" /\ early' = early
    BY <1>18 DEF Drain, Idle
  <2>2. Avail' = Avail
    BY <2>1 DEF Avail, AvailAt, Boundary, hwPtrs
  <2>3. FrameInv'
    <3>1. CASE w'.pc = "drain"
      BY <3>1 DEF FrameInv, Busy
    <3>2. CASE w' = w /\ state = "RUNNING" /\ early' = early
      BY <2>1, <2>2, <3>2 DEF RoomInv, FrameInv
    <3>3. CASE w' = w /\ state = "PREPARED" /\ Avail < buffer_size
      <4>1. hw_ptr = 0 /\ buffer_size = B
        BY <3>3 DEF RoomInv, PrepInv, DacInv, SizeInv
      <4>2. appl_ptr # 0
        BY <3>3, <4>1, BoundaryFour DEF Avail, AvailAt, Boundary
      <4> QED BY <2>1, <2>2, <3>3, <4>2 DEF RoomInv, FrameInv
    <3> QED BY <2>1, <3>1, <3>2, <3>3
  <2>4. CASE /\ state = "PREPARED" /\ Avail < buffer_size
             /\ early' = FirstPeriod
    BY <2>1, <2>2, <2>3, <2>4, RoomStart DEF RoomInv
  <2>5. CASE state = "RUNNING" /\ UNCHANGED early
    <3>1. AvailBounded'
      BY <2>1, <2>2, <2>5 DEF RoomInv, AvailBounded, Running
    <3> QED BY <2>1, <2>3, <2>5, <3>1
        DEF RoomInv, BaseInv, PrepInv, DistInv, hwPtrs
  <2> QED BY <1>18, <2>4, <2>5 DEF Drain
<1>19. CASE DrainReturn
  BY <1>19, RoomSame DEF DrainReturn, Idle, Busy
<1>20. CASE DrainGivesUp
  <2>1. CASE state' = "SETUP"
    BY <1>20, <2>1, RoomStopped DEF DrainGivesUp, EarlyInv, Running
  <2>2. CASE state' = "DRAINING"
    <3>1. ~StopTriggers
      BY <2>2 DEF StopTriggers
    <3>2. /\ UNCHANGED <<state, hwPtrs, params, appl_ptr, buffer_begin, processed>>
          /\ w'.pc = "idle" /\ early' = early
      BY <1>20, <2>2, <3>1
      DEF DrainGivesUp, MayStop, KeepEarly, Idle, EarlyInv
    <3> QED BY <3>2, RoomSame DEF Busy
  <2> QED BY <1>20, <2>1, <2>2 DEF DrainGivesUp
<1>21. CASE Release
  BY <1>21, RoomStopped DEF Release, EarlyInv, Running
<1>22. CASE CloseDone
  BY <1>22, RoomStopped DEF CloseDone, EarlyInv, Running
<1> QED BY <1>1, <1>2, <1>3, <1>4, <1>5, <1>6, <1>7, <1>8, <1>9, <1>10,
           <1>11, <1>12, <1>13, <1>14, <1>15, <1>16, <1>17, <1>18, <1>19,
           <1>20, <1>21, <1>22
    DEF Next, Writer

(* What may be written is less than the buffer while a stream runs that was *)
(* started early: neither snd_pcm_period_elapsed() nor a write takes hw_ptr *)
(* back, and the writer's piece, cut before copy() and accounted for after  *)
(* it, still fits.                                                          *)
THEOREM AvailBoundedAlways ==
  ASSUME NEW B \in Nat \ {0, 1}, OneBufferSize(B)
  PROVE  Spec => []AvailBounded
<1> DEFINE Inv == DacInv(B) /\ WrapInv(B) /\ EarlyInv /\ RoomInv(B)
<1>1. Init => Inv
  <2> SUFFICES ASSUME Init PROVE Inv
    OBVIOUS
  <2>1. DacInv(B)
    BY DacInit
  <2>2. WrapInv(B) /\ EarlyInv
    BY DEF Init, PcmInit, WrapInv, EarlyInv, Running, Idle
  <2>3. 0 = 0 * B /\ 0 \in 0 .. BoundFactor - 1
    BY PcmAssumption
  <2>4. 0 \in Bases(B)
    BY <2>3 DEF Bases
  <2>5. 0 < B * BoundFactor
    BY BoundaryFour
  <2>6. BaseInv(B)
    BY <2>4, <2>5 DEF Init, PcmInit, BaseInv
  <2>7. PrepInv /\ DistInv(B) /\ FrameInv /\ AvailBounded
    BY DEF Init, PcmInit, PrepInv, DistInv, FrameInv, AvailBounded, Idle, Busy
  <2> QED BY <2>1, <2>2, <2>6, <2>7 DEF RoomInv
<1>2. Inv /\ [Next]_vars => Inv'
  <2>1. Inv /\ Next => Inv'
    <3> SUFFICES ASSUME Inv, Next PROVE Inv'
      OBVIOUS
    <3>1. DacInv(B)'
      BY DacNext
    <3>2. WrapInv(B)'
      BY WrapNext
    <3>3. EarlyInv'
      BY EarlyNext DEF DacInv
    <3>4. RoomInv(B)'
      BY <3>3, RoomNext
    <3> QED BY <3>1, <3>2, <3>3, <3>4
  <2>2. Inv /\ UNCHANGED vars => Inv'
    <3> SUFFICES ASSUME Inv, UNCHANGED vars PROVE Inv'
      OBVIOUS
    <3>1. DacInv(B)' /\ WrapInv(B)' /\ EarlyInv'
      BY DEF vars, chip, hist, dac, pcm, hwPtrs, params, DacInv, StallInv,
             TaskShape, SizeInv, PtrTypes, TaskInv, Boundary, WrapInv, EarlyInv,
             Running
    <3>2. RoomInv(B)'
      BY RoomSame DEF vars, chip, hist, dac, pcm, params
    <3> QED BY <3>1, <3>2
  <2> QED BY <2>1, <2>2
<1>3. Inv => AvailBounded
  BY DEF RoomInv
<1> QED BY <1>1, <1>2, <1>3, PTL DEF Spec
=============================================================================
