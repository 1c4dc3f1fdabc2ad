# The HP 6xx palmtop kernel: a TLA+ verification project

The repository holds the kernel its author maintained for the HP Palmtop
620LX/660LX and the HP Jornada 6xx (SuperH SH3, HD64461 companion chip): a
modified Linux 2.6.17 tree in `linux-2.6.17.new/`, the drivers written for
these machines (ALSA and OSS sound, scanned keyboards, touchscreen, backlight,
PCMCIA bridge) and a handful of patches. Most of the tree is stock Linux for
other machines. This project models what makes *this* kernel work: the machine's
own drivers, and the kernel services they are built on, in this order of
importance: work queues, interrupt lines, the touchscreen driver that uses both
of them, the sound driver under the ALSA middle layer, kernel timers, the PCMCIA
socket, and the scanned keyboard.

All paths below are relative to `linux-2.6.17.new/` unless they say otherwise.

## 1. Inventory

| Component | State it keeps | Operations | What is hard about it | What makes it correct |
|---|---|---|---|---|
| Work queues, `kernel/workqueue.c` | pending bit, `wq_data` and timer of each work; list and two sequence counters per CPU | queue, delay, expire, cancel, run (nested), flush | the pending bit, `wq_data` and the worker's sleep are handled outside the lock; counters wrap; handlers flush | each work has one holder; no lost wake-up; a flush waits for exactly what it must, and ends |
| Interrupt lines, `kernel/irq/` | action list, depth, status flags, spurious counters | `__do_IRQ`, request, free, disable, enable, synchronize | handlers run outside the lock on any CPU, `synchronize_irq` reads without it | one CPU in the handlers; nothing runs after `disable_irq` or `free_irq` |
| Interrupt controllers, `arch/sh/kernel/cpu/irq/ipr.c`, `arch/sh/cchips/hd6446x/hd64461/setup.c` | one mask per line | ack (masks), end (unmasks), enable, disable | `->end()` looks at the status | an enabled idle line is not left masked |
| Timers, `kernel/timer.c` | per CPU: vectors of buckets, `timer_jiffies`, `running_timer`; per timer: `expires`, `base`, pending | arm, move to another CPU, cascade, run, delete, `del_timer_sync` | filed by distance from a clock that wraps; functions run without the lock; a timer on its way between two CPUs is on no base | linked in one place; runs on time; not on two CPUs at once; quiet after `del_timer_sync` |
| Touchscreen, `drivers/input/touchscreen/hp680_ts_input.c` | one work, its line, module life cycle | interrupt, softint, init, exit | disable in the handler, enable 50 ms later in a work; unloading in between | disables and enables pair up; a held pen is reported; nothing survives unloading |
| ALSA driver, `sound/sh/snd_sh_dac_audio.c` | two pointers into a byte buffer, `empty`, `processed`, TMU1 | PCM callbacks, one interrupt per byte | copy() and the handler share everything without a lock | bytes written are played; the position is in range; close() returns |
| PCM middle layer, `sound/core/pcm_{lib,native}.c` | stream state, `hw_ptr`, `appl_ptr`, thresholds | ioctls, write, period reports | pointers modulo a boundary; writer sleeps; copies are made without the stream lock | the pointers never overtake one another; sleepers are woken |
| ALSA driver of 2009, `../hpjornada_hppalmtop_sound_linux_driver/` | as above, HD64461 timer 0 | as above; TRIGGER_STOP resets the buffer | the reset races copy() | as above |
| Scanned keyboards, `drivers/input/keyboard/scan_keyb.c` and `drivers/input/input.c` | list of keyboards, two buffers each, one timer; pressed keys and autorepeat timer of the input device | register, unregister, scan, repeat | buffers alternate and scans fail; one timer and one list for all; the timers run during unloading | what is reported is the last good scan; a key that stays is reported; nothing runs after unloading |
| PCMCIA bridge, `drivers/pcmcia/hd64461_ss.c` | change and enable bits of card detect, power | interrupt, status, set socket, load, unload, suspend, resume | the card comes and goes at any time | changes are reported |
| PCMCIA socket core, `drivers/pcmcia/cs.c`, `cistpl.c` | flags, CIS cache and pending events of a socket, its thread | detect, setup, reset, shutdown, suspend, resume, eject, insert | jobs sleep in the middle with the mutex held; events are ignored in a suspended socket; unloading | power, flags and references agree; no event is lost; drivers go before the power does |
| PCMCIA bus driver, `drivers/pcmcia/ds.c` | devices of the card | card added, removed, suspended, resumed | two power managements: a user's and the system's | devices belong to the card in the slot |
| Backlight, APM, PM, OSS sound | registers, a few flags | | | |

How they interact: a device raises its line; the controller is acknowledged and
`__do_IRQ` runs the driver's handler; the touchscreen's handler disables the
line and schedules a delayed work; the timer hands the work to the queue of its
CPU; a worker calls `do_softint`, which enables the line again. The sound
driver's handler calls up into the middle layer (`snd_pcm_period_elapsed`),
which calls back down (`pointer`, `trigger`) and wakes the writer, who in turn
calls the driver's `copy`. The PCMCIA bridge's handler hands its events to the socket
thread, which carries them out under the socket's mutex and calls the bus driver; the
keyboard's timer reports keys to the input core, which arms a timer of its own.

`PROJECT.json` lists every component, and under "hazards" each place where this
code is hard to test, with the property that would catch it going wrong.

## 2. Modules

| Module | Models | Built on |
|---|---|---|
| `DelayedWork` | abstract: what a driver may rely on about a `work_struct` | |
| `Workqueue` | `kernel/workqueue.c`: one multi-threaded queue | |
| `WorkqueueRefines` | the refinement mapping from `Workqueue` to `DelayedWork` | both |
| `WorkqueueProof`, `WorkqueueRefinesProof` | proofs: ownership, wake-ups, flushing; the refinement | `Workqueue`, `WorkqueueRefines` |
| `IrqDesc` | one `irq_desc[]` entry and its controller: operators, no specification | |
| `IrqCore` | drivers sharing that line | `IrqDesc` |
| `IrqCoreProof` | proofs | `IrqCore` |
| `Hp680Ts` | the touchscreen driver | `IrqDesc`, an instance of `DelayedWork` |
| `Hp680TsProof` | proofs | `Hp680Ts` |
| `PcmCore` | the middle layer's part of a playback stream: operators | |
| `SndShDac` | both versions of the ALSA driver, and `snd_pcm_lib_write1` | `PcmCore` |
| `SndShDacProof` | proofs | `SndShDac` |
| `TimerWheel` | `kernel/timer.c`: the vectors, their softirq and their callers | |
| `TimerWheelProof` | proofs: locking; the vectors | `TimerWheel` |
| `PcmciaCard` | abstract: what the PCMCIA core promises the drivers of a card | |
| `PcmciaSocket` | bridge, socket thread, users and power management of one socket | an instance of `PcmciaCard` |
| `PcmciaSocketProof` | proofs, with the refinement | `PcmciaSocket` |
| `ScanKeyb` | the scanned keyboard with its input device | |
| `ScanKeybProof` | proofs | `ScanKeyb` |
| `MCSndShDac`, `MCTimerWheel` | buffer sizes and delays for TLC | |

### Workqueue

`pending`, `wq_data`, `timer` are fields of the work; `worklist`,
`insert_sequence`, `remove_sequence` those of the per-CPU queue. `frames[c]` is
the stack of works that `run_workqueue()` on CPU `c` has taken off its list:
longer than one when a handler flushes its own queue. A worker is known by its
CPU number. Sections under `cwq->lock` are one step; everything the code does
outside it is a step of its own:

* `QueueWork` is `test_and_set_bit`, `QueueWorkInsert` the `__queue_work` after
  it (`queuing` remembers who is between the two);
* `TimerExpire` detaches the timer, `DelayedWorkTimerFn` is the function it
  calls; `CancelDelayedWork` is a `del_timer_sync` that took the timer back,
  `CancelClear` the `clear_bit` after it. A cancel that finds no timer changes
  nothing and has no action;
* `WorkerAddWait` to `WorkerRearm` are the steps of `worker_thread`; `tstate` and
  `onq` are its task state and its place on the wait queue, and `InsertWork` wakes
  it only if it is on it;
* `CallHandler` is the `BUG_ON` and the `clear_bit`, and enters the handler;
  `FinishWork` is its return, with the next turn of the loop;
* `FlushBegin`, `FlushSample`, `FlushRecheck`, `FlushOwn` are `flush_workqueue`
  over the CPUs. `fl[t].owed` is a history variable: which instances were queued
  or running when the flush sampled `insert_sequence`.

Instances carry the sequence number they were inserted with (`id`), which the
code does not store; only the properties about flushing read it.

### IrqDesc and IrqCore

`status` is the set of flags of `desc->status`; `masked` and `raised` are the
controller's mask and the device's request. `handler` is the controller, one of
`Controllers`: a level line whose `->ack()` masks (the SH controllers, `AckMasks`) or
an edge line that is only latched.
`walk[c]` is the `irqaction` whose handler CPU `c` is in: the walk along
`action->next` is not under the lock, so `Unlink` may change the list under it.
The action `DoIRQ` is `__do_IRQ` up to `handle_IRQ_event`, `HandlerReturn` one
step of its loop, `LastReturn` the rest under the lock with `note_interrupt`.
`IrqCore` adds drivers that pair their own calls; `RequestDuringFree` says whether
one may request the line while another one is inside `free_irq`.

A line that the kernel marks REPLAY is not resent: `hw_resend_irq` is empty on SH.

### Hp680Ts

One processor, as in the machine: threads and timers run only while no handler
does (`Thread`). The work is an instance of `DelayedWork`, which `wq_two_cpus` and
`wq_self_flush` show the real queue to implement. `owed` counts the runs the flush of `hp680_ts_exit` waits for. The board configures the sense of the external
lines in ICR1 (`setup_hd64461`), and `mask_and_ack_ipr` clears the latch of an
edge-sensed line; the model leaves open whether the pen's request stands while it
is down or is an edge, and lets a lifted pen take its request back or not.

### PcmCore and SndShDac

Frames are bytes (U8, mono). Pointers are offsets from `data_buffer`. What the
middle layer does under the stream lock, and the handler, are atomic (one
processor, interrupts off); `copy()` is three steps, and so is the writer's way
around it: `WriteLoop` cuts a piece, `CopyEnd`/`CopyTest`/`CopyKick` transfer it
without the lock, `WriteAck` stores the `appl_ptr` that was computed before.
In the kernel tree's driver TRIGGER_STOP does nothing, so `Drop` leaves the timer
running. In the driver of 2009 (`stop_resets`) it resets the buffer and stops the timer
(`TriggerStop`): whenever `snd_pcm_stop()` ends a running stream, be it by an ioctl, by
the writer's look at the position, or from inside the interrupt handler, which goes on
with the reset buffer. The rest of the two is the same. With
`OtherThread` a second thread issues ioctls, drain included, while the first one writes;
a drain that finds a writer at work changes the stream's state and goes to sleep, and the
model follows the writer.
`Wrap` is the handler's `buffer_begin == data_buffer + buffer_size - 1`.
Sizes written by `write()` are at most one buffer. `hw_params` and `hw_free` test
the state and set it under two separate holds of the lock in the code; the model
takes them as one step. `early` is a history variable: the stream runs, and when it was
started the handler, whose timer `copy()` starts before that, was still in the first
period of the buffer.

### TimerWheel

A bucket is a vector and an index (`slot`); the timers of a bucket are the ones whose
`base` is that CPU and whose `slot` is that bucket, so the order in a bucket is left
open. `Shift`, `Buckets` and `Index` are the layout of tv1, tv2, ...;
`InternalAddTimer` and `Cascade` are the functions of those names, one timer at a
time: cascading moves every timer of a bucket independently of the others.

`phase[c]` says where CPU `c` is in `__run_timers()`: "locked" with `base->lock`
held, "fn" inside the function of `running_timer[c]`, with the lock dropped. One turn
of the outer loop is `ExpireTick` (cascade, `++timer_jiffies`, splice the bucket to
`work`); one turn of the inner one is `CallTimer` and `TimerReturns`; `RunDone` clears
`running_timer`. While a function runs, or the softirq is idle, other code on the same
CPU may arm and delete timers (the function itself does, too): `ModTimer` when the
timer stays on its base, `ModTimerLeave` and `ModTimerArrive` when it is taken over,
with `base` = None and no lock held in between (interrupts are off, `Free`). `mod_timer()`'s
early return and a `del_timer()` that finds nothing change nothing and have no action;
`DelTimerSync` is the `try_to_del_timer_sync()` that succeeds, the ones before it
change nothing. `gone` is a history variable: `del_timer_sync()` has returned and nobody
armed the timer since ("callers must prevent restarting of the timer").

`running_timer` is kept, as in an SMP kernel: the machine's own configuration is a
uniprocessor one, where `del_timer_sync()` is `del_timer()`. `add_timer_on()` is left
out; it may not be used on a timer whose function may be running.

### PcmciaCard and PcmciaSocket

`slot` is the card in the slot, and everything else follows it late: `cdc` is the
change bit of CSCR, `events` is `thread_events`, `state` the flags of the socket, `cis`
the card whose CIS is cached, `dev` the card the devices on the bus were made for.
A card is known by its CIS; reading an empty or dead slot gives `Junk`, from which no
device is made.

Whoever holds `skt_mutex` carries out one `job` ("insert", "resume", "remove", "reset",
"suspend", or the look of `socket_detect_change`), for the thread, a user or the power management
(`job.who`). The code between two of its `msleep()` calls, or up to the next point at
which it reads the slot, is one step:
`SetupDetect` and `SetupPower` are the looks of `socket_setup()`, `ResetReady` and
`ResetFails` the ends of the loop of `socket_reset()`, `Tell` the INSERTION event,
`VerifySame`, `VerifyDiffers` and `TellAgain` the comparison of the CIS in
`socket_resume()`, `ShutdownDrivers` and `ShutdownSocket` the two halves of
`socket_shutdown()` around its delay, `SuspendCard` and `SuspendSocket` the devices' and
the socket's part of `pcmcia_suspend_card()`. The card may be pulled or pushed in, and the
interrupt taken, between any two.

`pc` walks through the loop of `pccardd()`: set the task state, take the events, lock,
look at `skt->thread`, sleep. `SystemSuspend`, `SystemResume` and `Thaw` are a sleep of
the machine: processes are frozen, the devices of the bus are suspended before the
socket and resumed after it, and `dpm_resume()` leaves alone what a user had suspended
(`devpm` = "off"). The `pm_state` file of a device takes no `skt_mutex`: `PmStateOff` and
`PmStateOn` may come between any two steps of a job, and the second one resumes devices
also when the socket has no power or its suspension is under way (`devpm` = "woken").
The bus driver can leave only where it is a module (the machine's configuration has it
built in), and its reference by the drivers of devices keeps it there; `UnregisterPcmcia`
assumes that it does not leave devices without a driver behind. `fresh` is a history variable: a card came in that no user ejected
and no setup gave up on.

`PcmciaCard` is what a card driver may rely on: devices appear only for a card with
power, the power goes only when there is no device or the devices are suspended, and it
is back before they are resumed. Devices that a user woke himself are excepted (`woken`)
until the core suspends or resumes them again: nothing in the code keeps them from running
without power. `ImplementsCard` checks it at every step of every job.

### ScanKeyb

A buffer is the set of keys it shows as pressed. `ScanGood` and `ScanFails` are the two
outcomes of `kbd->scan()` in `scan_kbd()`; `CheckKbd` is `check_kbd()` with what
`input_event()` does to `dev->key` and the autorepeat. The keyboards of the two machines
never fail a scan; the code that handles it is modelled all the same. `good` is a
history variable: the last good scan. There is one keyboard, as on the machine.

## 3. What is checked

Passing runs; every property has a mutant of the code that breaks it.

| Run | Shows |
|---|---|
| `wq_two_cpus` | two CPUs and an outside flush: a pending work has exactly one holder (`PendingHeld`, `OneHolder`), `wq_data` is what the worker expects (`WqDataOk`), no wake-up is lost (`NoLostWakeup`), the flush waits for all it must, with counters that wrap (`FlushReturns`), every step of the queue is a step of `DelayedWork` |
| `wq_self_flush` | a handler that flushes its own queue, so that `run_workqueue()` nests, next to an outside flush and an endless stream of works: the queue implements `DelayedWork` with its fairness, so every pending bit clears, and the outside flush ends (`FlushTerminates`) |
| `irq_shared` | a line, edge or level, of two drivers and two CPUs: handlers exclude one another, `disable_irq` and `free_irq` wait for them, disables nest, an idle enabled line is unmasked, an interrupt that arrives meanwhile is served, and the waits end |
| `ts_driver` | disables and enables pair up, a held pen is reported, unloading leaves nothing behind and ends |
| `snd_stream` | both versions of the driver, with a second thread's ioctls at any step of a write: no stall, no empty piece; the handler's position does not leave the buffer (`PositionKept`); the pointers of a stream that was started early do not overtake one another (`AvailBounded`); close() returns when the last piece ends before the last two positions of the buffer |
| `timer_wheel` | a timer armed, taken over and deleted by two CPUs while jiffies wrap: linked in one place (`Linked`), never taken out early nor left behind (`OnTime`), never run twice at once (`Serialized`), quiet after `del_timer_sync` (`DelSyncQuiet`) |
| `pcmcia_socket` | no event is lost on its way to the thread (`NoLostEvent`); between jobs power, flags and module reference agree (`Balanced`); once all is quiet the core is right about the slot (`Settled`); card drivers see what `PcmciaCard` promises, whatever users write to `pm_state`; a card that is pulled loses its devices and one that is pushed in is set up (`SlotFollowed`); unloading ends |
| `scan_keyb` | the input core knows the keys of the last good scan (`KeysMatchScan`), a key that stays down or up is reported, autorepeat ends, nothing runs after unloading |

Runs that TLC must refute. Each states what a comment or a document of the
repository says; `PROJECT.json` quotes the line.

| Run | The code does | The repository says |
|---|---|---|
| `wq_nested_flush` | a nested `run_workqueue()` counts completions while the handler below it still runs, so an outside flush returns before that handler has | "all works which were queued on entry have been handled" |
| `irq_free_race` | `setup_irq` clears IRQ_INPROGRESS under a handler that `free_irq` waits for | "does not return until any executing interrupts for this IRQ have completed" |
| `ts_freed_line` | `do_softint`, flushed after `free_irq`, enables the freed line | "if the interrupt line is no longer in use by any driver it is disabled" |
| `snd_smaller_buffer` | `prepare()` after a smaller buffer was chosen keeps `buffer_begin`; the handler, which compares with `==`, walks on beyond the buffer, and `pointer()` returns that | "ranged from 0 to buffer_size - 1" |

`CloseReturns` deserves a remark: a piece that ends at `buffer_size - 1` or at
`buffer_size` leaves `buffer_end` where the handler's pointer never comes, and
close() then spins in `dac_audio_sync`. No document speaks of this case, so the
property states the rest: everywhere else close() returns.

The models show more that no run is spent on, because it lies outside what the passing
runs assume, and no document of the repository speaks of it:

* two handlers on two CPUs that flush the same queue wait for one another for ever
  (`NCPU` = 2 with `SelfFlush`): `flush_workqueue()` runs only the queue of its own CPU
  by hand;
* a handler that flushes its own queue runs works until the list is empty, and an
  endless stream of works keeps it there (`FlushTerminates` with `Task` in place of
  `Flushers`); an outside flush samples `insert_sequence` once and ends;
* with CONFIG_BASE_SMALL the vectors of the timers cover 22 bits of the 32 of jiffies.
  A timer that is 2^22 ticks away or more when its bucket is cascaded is put back by
  `internal_add_timer()` on the list that `cascade()` is emptying, and is lost while it
  counts as pending (`Linked` with vectors narrower than the clock). The machine's
  configuration does not set it;
* a writer can sleep until its time-out while the handler runs dry. A sleeping writer has
  more queued than the buffer without a period, so the handler does report a period
  before it stops; but when `hw_ptr_interrupt` has stayed at 0, after a late start or a
  start at an old position, `snd_pcm_update_hw_ptr_interrupt()` takes that report for
  jitter and ignores it (`pcm_lib.c:204-214`), and no other one follows;
* a stream that is started late may take `hw_ptr` back (`AvailBounded` without `early`).
  `copy()` starts the timer before the stream runs; `snd_pcm_period_elapsed()` drops the
  periods that end before the start, so `hw_ptr_interrupt` stays at 0. When a write then
  moves `hw_ptr` to the end of the buffer and the handler wraps, the next report, which
  is later than the first period, is not taken for the next lap: `hw_ptr` falls back by
  almost a buffer, the writer's piece is longer than the room, and `appl_ptr` overtakes
  `hw_ptr`. Six bytes in three periods show it, and eight in two; with four bytes the
  property holds without `early`, too. The attempt to prove it found this;
* a lap of the handler is `buffer_size - 1` bytes, so from the second lap on the
  periods counted by `processed` end elsewhere than the application's;
* in both sound drivers `buffer_begin` = `buffer_end` means a full buffer or an empty
  one. When the handler has played a piece, or TRIGGER_STOP has reset the buffer,
  between copy()'s move of `buffer_end` and its test of `empty`, the timer is started
  for a lap of old bytes;
* a card that is exchanged before `pccardd` has looked at the slot is taken for the old
  one, whose devices stay (`Settled` with `FastSwap`): `socket_detect_change()` does not
  compare the CIS;
* a card reset that fails leaves the devices suspended, and the answer of
  `callback->suspend` is not looked at; a card that a user suspended before a sleep of
  the machine comes back powered with its devices off, and sysfs then refuses to resume
  the socket, which is not suspended any more;
* "on" in a device's `pm_state` resumes it, with `pcmcia_request_configuration()` and the
  driver's resume, in a socket that is suspended and has no power
  (`AwakeHasPower` without `woken`).

### Bounds

* `NCPU`, `Works`, `Flushers`: two CPUs (`wq_two_cpus`) are enough for a work to be
  handled on one while it is queued on another; one work is enough for that, as it
  can be queued again while it runs, behind or nested on its own earlier instance; the
  proofs have any number. A handler that another handler's flush runs by hand does not
  flush itself (`FlushBegin`): `run_workqueue()` nests to depth two, where the code only
  warns beyond three; `wq_nested_flush` needs no more. One flusher suffices, flushes do not interact.
* `LongMod`: the width of the counters. 8 with at most three outstanding instances
  keeps the signed comparison meaningful (8 / 2 > 3) and makes the counters wrap.
  `NoLap` excludes that half the range completes while one woken flush has not
  looked again; for a 32-bit `long` that is two thousand million works.
* `CountMax` = 2 and `UnhandledMax` = 1 stand for 100000 and 99900: a line is killed
  after two unhandled interrupts.
* `DoIRQ`: a CPU inside the handlers starts no second walk of the same line (the
  status already forbids it; the bound matters in `irq_free_race`, where it does not).
* `LongBits` = 5, `TVR_BITS` = 1, `TVN_BITS` = 2, `Vectors` = 2: three vectors that
  cover the width of jiffies exactly, as 8 + 4 * 6 = 32 do; the last vector is
  cascaded only when both others come round.
* `Delays`: the past, now, the next tick, and distances for each vector.
* `LagMax` = 1: the softirq of a CPU is at most one tick behind, so a timer can be
  armed for a tick that has not been processed, and a run can process two.
* One timer: timers meet only in `running_timer` and on a `work_list`, where
  `TimerWheelProof` has any number of them; two are beyond TLC with two CPUs.
* `Configs`: a buffer of six bytes in three periods, the smallest in which a late
  start takes `hw_ptr` back, so that `AvailBounded` is checked where it could fail; half
  of it, the jitter limit, is more than a period. `snd_smaller_buffer` has a second size of
  four bytes. The invariants are proved for every buffer and period.
* `BoundFactor` = 4: the boundary is four buffers, so the pointers wrap; the code's is
  the largest power of two that fits.
* `DataSize`, one byte more than the buffer: how far the handler may run past the buffer; the code as it is
  never does for one buffer size, and does in `snd_smaller_buffer`.
* `Versions`: both versions of the driver in `snd_stream`; the one of the kernel tree in
  `snd_smaller_buffer`.
* `Cards` = two, so that a suspended card can be exchanged for another one. `FastSwap` =
  FALSE: a card is pushed in only after the removal of the last one was dealt with, or
  while the socket is suspended.
* `Keys` = three: enough for one key to go down while another one goes up and a third
  one repeats.

### Fairness

Workers, timer functions and the callers inside `queue_work` or `cancel_delayed_work`
finish what they started (weak fairness: they are runnable tasks, or run with
interrupts off); handlers return, also one that flushes its queue now and then (strong
fairness of `FinishWork`: no handler flushes for ever). `DelayedWork` promises that
delays expire and that works which are due are started. Armed timers expire under strong fairness: a work
may be cancelled and delayed again for ever, but `__run_timers` runs every timer
whose time has come. Nobody is obliged to queue, cancel, flush, press, write or
close. For a line: CPUs take interrupts, handlers return, a driver inside
`disable_irq` or `free_irq` goes on. The touchscreen's worker is not starved by
interrupts because the handler itself keeps the line disabled until it has run.
The sound handler runs while its timer does.

For the socket: an enabled interrupt is taken (strong: the card may bounce), the thread
runs when it can, sleeps inside a job end, `mutex_lock()` hands the mutex out in turn
(strong: users may take it again and again, but the queue of a mutex is first in, first
out), and a loading, unloading or resume that was begun is carried on. The machine may
sleep for ever. For the keyboard: pending timers run, a scan does not fail for ever,
and an unloading goes on. Nobody has to push a card in or to type.

## 4. What is proved

Eight modules hold proofs that TLAPS checks to the last leaf. Each proves the safety
invariants that the runs check, for every value of the constants that satisfies the
module's named assumption (`WorkqueueAssumption`, `WheelAssumption`, ...), which TLC
evaluates in every run; what a theorem assumes beyond it is part of its statement. In
each, one lemma has one case per action of `Next`, and the temporal theorem follows from
it. `PROJECT.json` lists the theorems with the property each one states.

| Module | Theorems | Beyond the module's assumption |
|---|---|---|
| `WorkqueueProof` | `TypeCorrect`, `OneHolderAlways`, `PendingHeldAlways`, `WqDataAlways`, `NoLostWakeupAlways` | nothing: any number of CPUs, works, flushers, any width of the counters, handlers that flush or not |
| | `FlushReturnsAlways` | `FlushAssumption`: no handler flushes its own queue (`wq_nested_flush` refutes it otherwise), and the works number less than half the range of a `long` |
| `WorkqueueRefinesProof` | `DelayedWorkRefinement` | nothing |
| `TimerWheelProof` | `SerializedAlways`, `DelSyncAlways` | nothing: any layout of the vectors |
| | `LinkedAlways` | `Layout`: 32-bit jiffies, vectors of 8 and four times 6 bits, as `hp6xx_defconfig` builds them |
| | `OnTimeAlways` | `Layout`, and `Decided`: nobody sets a timer exactly half the range of jiffies away |
| `IrqCoreProof` | `IrqTypeCorrect` | nothing |
| | `ExclusiveAlways`, `DisabledQuietAlways`, `FreeWaitsAlways`, `DepthCountsAlways`, `UnmaskedAlways` | no driver requests the line during another one's `free_irq` (`irq_free_race` refutes it otherwise) |
| `Hp680TsProof` | `DisableHasEnableAlways`, `UnloadedIsQuietAlways` | nothing |
| `SndShDacProof` | `NoStallAlways`, `PositionKeptAlways` | nothing: also with buffer sizes that change |
| | `DacTypeCorrect`, `AvailBoundedAlways` | one buffer size, whatever it is (of two bytes or more for the second), with any periods |
| `PcmciaSocketProof` | `NoLostEventAlways`, `BalancedAlways`, `CardRefinement`, `AwakeHasPowerAlways` | nothing |
| | `SettledAlways` | a card is not exchanged before its removal is seen (`FastSwap` = FALSE) |
| `ScanKeybProof` | `KbdTypeCorrect`, `KeysMatchScanAlways` | nothing |

### Work queues

`OneHolder` is not inductive: that a step which hands a work from one
holder to the next creates no second one needs the pending bit to be set for every
holder (a part of `OneHolder`) and to be set only for a held work (`PendingHeld`);
that the worker finds its own queue in `wq_data` needs to know what is stored there
at *every* place that holds the work (`HeldData`): the workqueue while the timer or
its function has it, the CPU's queue on the list and after it. `HolderInv` is their
conjunction with the types. A nested `run_workqueue()` takes a work while a flush of
the same task is under way, so `NestInv` relates the flush of a worker to its stack.
The lemmas split along what a step does to the holders: it leaves them alone
(`HolderFrame`), creates one (`HolderQueueWork`, `HolderQueueDelayed`), passes a
work on (`HolderPass`, `HolderInsert`, `HolderTake`) or releases it
(`HolderRelease`).

`NoLostWakeup` needs that the worker is on the wait queue from before it looks at its list
until after `schedule()` (`WakeInv`). For `FlushReturns`, `SeqInv` says that the instances
on a queue are numbered in the order in which they will complete, from `remove_sequence`
to `insert_sequence`; `OneHolder` bounds their number by that of the works, so the signed
difference that `flush_cpu_workqueue()` looks at never overflows. `OwedInv` then says that
what a waiting flush is owed has numbers before its `sequence_needed`.

The refinement of `DelayedWork` rests on `HolderInv` (where a work is tells the abstract
`where`) and on the finite stack of nested runs, whose cardinality is the abstract
`running`.

### Timers

Neither `Serialized` nor `DelSyncQuiet` is inductive. The key is `FnOwner`: a timer stays
on the base of the CPU that runs its function (this is what the test of `running_timer` in
`__mod_timer()` is for), so two CPUs cannot both run it, and the one base that
`del_timer_sync()` asks is the right one. `CallTimer` keeps `FnOwner` because what is on
a `work_list` is on its own base and pending (`WorkOwner`), also after the lock was
dropped; a deleted timer is not run later because whatever is linked is pending
(`SlotPending`); and a timer between two bases is held by one CPU and does not count as
deleted (`MoveOwner`). `LockInv` is their conjunction. What the vectors compute does not
matter to it.

`Linked` and `OnTime` are about what they compute. `WheelInv` says of each linked timer
that it is in the bucket of its vector that its expiry time belongs to, within the reach
of that vector, and that the tick at which this bucket will be cascaded has not passed. A
tick that cascades a bucket moves each of its timers to a lower vector, and never into the
list being emptied, because the vectors cover all 32 bits. `TimeInv` adds that what is
taken to a `work_list` has expired, and that the ticks of a CPU lag by `LagMax` at most.

### Interrupt lines and the touchscreen

`IrqInv` has four parts besides the types. `ListInv`: the action list holds
exactly the drivers that have the line, in some order (an order rather than reachability,
because appending and unlinking keep it). `WalkInv`: all that a CPU in the handlers can still come
to is on the list, or in an action that `free_irq` waits for. `LineInv`: IRQ_INPROGRESS is set while a CPU is in
the handlers, and only one is; mask, IRQ_DISABLED and `depth` agree. `CallInv`: only
drivers that have the line disable it, and `depth` counts them. Only `setup_irq` on an empty list breaks `LineInv`, when a
freed handler still runs.

`TsInv` of the touchscreen says that a work is under way (delayed, queued, or in
`do_softint` before `enable_irq`) just while the line is disabled. It needs that the line
stays masked while the handler runs, so that `__do_IRQ` never calls it twice in a row.

### Sound

`StallInv`: `empty` and the timer agree except between the two steps of `copy()` that set
them. `DacInv` adds the sizes, the types of the pointers and the writer's piece, and
`WrapInv` that the handler wraps before the last byte; both are about one buffer size. When
sizes change only the step can be spoken of: `PositionKept` says that a position before
`chip_size - 1` stays before it unless `prepare()` makes the buffer smaller, which needs
nothing but the types (`PlaceTypes`). A buffer of one byte is left out: the
handler's wrap at `buffer_size - 1` is never met.

`AvailBounded` needs two more facts. The writer cuts its piece, copies it without the lock,
and then stores the `appl_ptr` it has computed: `FrameInv` says that there is still room for
the piece, because `hw_ptr` only moves on, unless `prepare()` has reset the pointers, and
then the stream does not run before `appl_ptr` has been stored. That `hw_ptr` only moves on
is what `snd_pcm_update_hw_ptr_interrupt()` must get right: it decides by the distance of
the reported position from `hw_ptr_interrupt` alone whether the handler has wrapped.
`DistInv` bounds the handler's distance from `hw_ptr_interrupt` (`Near`): less than a period
and the bytes played since the last report, or one more, because the handler leaves out a
byte per lap. A stream that is started in the first period has it; each byte, each report,
each ignored report and each write keeps it (`NearTick`, `NearMove`, `NearJitter`,
`NearUpdate`), and it makes a report that is due or late one that is not behind `hw_ptr`
(`NearAhead`). `RoomForward` and `RoomTaken` are the arithmetic of
`snd_pcm_playback_avail()` across the boundary.

### PCMCIA and the keyboard

`SocketInv` says where each job can be (`JobShape`), and for each of its places what power,
flags and module reference are (`PowerInv`) and what the bus and its devices are (`BusInv`),
with the thread's part in `ThreadInv` and `WakeInv`. It holds whatever cards are exchanged,
and implies `NoLostEvent`, `Balanced`, and that every step is one of `PcmciaCard` or a
stutter. `pm_state` may be written at each of these places, so `BusInv` cannot say that a
suspended socket has suspended devices, only that they are suspended or woken. That
devices which are awake have power (`AwakeHasPower`) then follows within `PcmciaCard`. `SlotInv` adds for each difference between the slot and what the core believes who
is going to look (`Attention`): a latched change, an event, the thread on its way to the
mutex, a job that has not looked yet; it implies `Settled`.

`KbdInv` says that the buffer which the next scan takes for the old one holds the last good
scan (`OldIsGood`), whichever of the two it is.

### Only model-checked

Liveness, which needs ENABLED: `FlushTerminates`, `KeepsDelayedWorkFair`, `PendingServed`,
`SyncReturns`, `PenReported`, `UnloadEnds`, `CloseReturns`, `SlotFollowed`, `KeyReported`,
`RepeatEnds`. All other properties of the passing runs are proved.

## 5. Plan

1. Work queues, with their proofs of ownership; the abstract `DelayedWork`. Done.
2. Interrupt lines, one line with its controller. Done.
3. Touchscreen on 1 and 2. Done.
4. Sound driver and middle layer, both versions of the driver. Done.
5. Timers, with the proofs of their locking. Done.
6. PCMCIA socket with its bridge; scanned keyboard. Done.
7. Next modules: the life cycle of a work queue (`create_workqueue`,
   `destroy_workqueue`, `kthread_stop`, `cancel_rearming_delayed_work`) on top of
   `Workqueue`; several keyboards on one list.
8. Theorems for every invariant of the passing runs, for `FlushReturns` and for both
   refinements. Done. Next: `FlushReturns` for the CPUs on which no handler flushes
   when handlers of others do; `AvailBounded` for applications that change the
   buffer size between streams; `FreeWaits` for a `request_irq()` that finds other
   drivers on the line, where `setup_irq()` leaves IRQ_INPROGRESS alone.

## 6. What is not modelled

Code for other machines; the IDE/libata, RTC and early-printk patches (a few lines
each against drivers that are not this machine's); APM and PM (register reads and one
sleep sequence); the OSS driver (the ALSA driver's predecessor, with the same
handler). In the modelled files: per-CPU interrupt lines, probing and affinity;
capture, mmap, linked streams, pause, suspend, the reset ioctl and parameter
refinement of the PCM layer; `add_timer_on`, `next_timer_interrupt`, time keeping and
system calls of `kernel/timer.c`; `silence()`, which the driver never sees because
`silence_size` stays 0; CPU hotplug; CardBus, memory and I/O windows, resource
management, tuple parsing, driver binding and the second slot of PCMCIA, the failure
of `class_device_register()` for a socket, and the `power/state` file that sysfs has for
every device (for those of a card it reaches the functions that `pm_state` does, for the
bridge the ones of a sleep of the machine); of `input.c` everything but key events and
autorepeat. The backlight is a few register writes under one lock.

## 7. Running it

    tlc -config wq_two_cpus.cfg WorkqueueRefines     # and so on, see PROJECT.json "runs"
    tlapm WorkqueueProof.tla                         # and so on for each *Proof.tla
