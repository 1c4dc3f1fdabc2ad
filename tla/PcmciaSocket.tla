---------------------------- MODULE PcmciaSocket ----------------------------
(***************************************************************************)
(* One PCMCIA socket: the HD64461 bridge (drivers/pcmcia/hd64461_ss.c),    *)
(* the socket core with its thread (cs.c), and of the bus driver (ds.c)    *)
(* what its callbacks do to the devices of the card.                       *)
(*                                                                         *)
(* Whoever holds skt_mutex carries out one job, which sleeps in several    *)
(* places: the card may come and go, and interrupts arrive, at each of     *)
(* them.  The thread, a user (sysfs or ioctl) and the power management     *)
(* compete for the mutex; the pm_state file of a device does without it.   *)
(*                                                                         *)
(* The bridge reports neither CardBus cards nor a pending voltage sense,   *)
(* and dead_socket asks for card detect interrupts only; the other events  *)
(* are handed on to the drivers without any change of the socket.  A card  *)
(* whose voltage the bridge cannot supply is read as an empty slot.        *)
(***************************************************************************)

CONSTANTS
  Cards,      \* cards, told apart by their CIS
  None,
  Junk,       \* what is read from a slot without a powered card
  FastSwap    \* BOOLEAN: a card may be exchanged before the removal is seen

ASSUME SocketAssumption ==
  /\ None \notin Cards /\ Junk \notin Cards /\ Junk # None
  /\ FastSwap \in BOOLEAN

VARIABLES
  (* the slot and the bridge *)
  slot,      \* the card in the slot, or None
  cdc,       \* CSCR: card detect has changed
  cde,       \* CSCIER: card detect interrupts are enabled
  cscier,    \* the value of cde saved over a sleep of the system
  vcc,       \* the socket supplies power (sp->state.Vcc)
  (* struct pcmcia_socket *)
  state,     \* subset of Flags
  cis,       \* the card whose CIS is in cis_cache, Junk, or None: empty
  events,    \* thread_events has SS_DETECT
  thread,    \* skt->thread is set
  cb,        \* skt->callback is set: the bus driver has the socket
  (* who runs *)
  pc,        \* place of pccardd
  tstate,    \* its task state
  job,       \* the job of the holder of skt_mutex
  (* the bus *)
  dev,       \* the card the devices on the bus were made for, or None
  devpm,     \* the devices are "on", "off" (for a user), "sleeping" with the
             \* system, or "woken": on, but by a user behind the core's back
  (* life cycle *)
  module,    \* of the bridge's driver
  system,    \* of the machine
  fresh      \* history: a card came in, which no user ejected and no setup
             \* gave up on since

hwVars  == <<slot, cdc, cde, cscier>>
evVars  == <<tstate, thread, events>>
thrVars == <<pc, evVars>>
busVars == <<dev, devpm>>
lifeVars == <<module, system>>
vars == <<hwVars, vcc, state, cis, cb, thrVars, job, busVars, lifeVars,
          fresh>>

Flags   == {"INUSE", "PRESENT", "SUSPEND"}
Present == "PRESENT" \in state
Suspended == "SUSPEND" \in state

NoJob == [who |-> "none", op |-> "none", at |-> "none"]
Job(w, o, a) == [who |-> w, op |-> o, at |-> a]

Init ==
  /\ slot \in Cards \cup {None} /\ cdc \in BOOLEAN /\ cde = FALSE
  /\ cscier = FALSE /\ vcc = FALSE
  /\ state = {} /\ cis = None
  /\ events = FALSE /\ thread = FALSE /\ cb = FALSE
  /\ pc = "none" /\ tstate = "RUNNING" /\ job = NoJob
  /\ dev = None /\ devpm = "on"
  /\ module = "out" /\ system = "on" /\ fresh = (slot # None)

-----------------------------------------------------------------------------
(* The slot, and the bridge's interrupt. *)

(* Without FastSwap a card is pushed in only when the removal of the last   *)
(* one has been dealt with, or while the socket is suspended and at rest.   *)
CardIn(c) ==
  /\ slot = None
  /\ FastSwap \/ ~Present \/ (Suspended /\ job = NoJob)
  /\ slot' = c /\ cdc' = TRUE /\ fresh' = TRUE
  /\ UNCHANGED <<cde, cscier, vcc, state, cis, cb, thrVars, job, busVars,
                 lifeVars>>

CardOut ==
  /\ slot # None
  /\ slot' = None /\ cdc' = TRUE /\ fresh' = FALSE
  /\ UNCHANGED <<cde, cscier, vcc, state, cis, cb, thrVars, job, busVars,
                 lifeVars>>

(* Mutant: no wake_up(&s->thread_wait). *)
ParseEvents_NoWake ==
  /\ events' = (events \/ thread)
  /\ UNCHANGED <<tstate, pc, thread>>

(* pcmcia_parse_events(SS_DETECT)                                           *)
ParseEvents ==
  /\ events' = (events \/ thread)
  /\ tstate' = IF thread THEN "RUNNING" ELSE tstate
  /\ UNCHANGED <<pc, thread>>

(* hd64461_interrupt()                                                      *)
Interrupt ==
  /\ cdc /\ cde
  /\ cdc' = FALSE
  /\ ParseEvents
  /\ UNCHANGED <<slot, cde, cscier, vcc, state, cis, cb, job, busVars,
                 lifeVars, fresh>>

-----------------------------------------------------------------------------
(* send_event() and the callbacks of ds.c. *)

(* CS_EVENT_CARD_REMOVAL: the devices are unregistered.                     *)
Removal ==
  IF cb THEN dev' = None /\ devpm' = "on" ELSE UNCHANGED busVars

(* read_cis_cache(): what is cached is not read again.                      *)
ReadCis == IF cis # None THEN cis
           ELSE IF vcc /\ slot # None THEN slot ELSE Junk

(* CS_EVENT_CARD_INSERTION, if it is sent: pcmcia_card_add() makes devices  *)
(* from the CIS.                                                            *)
Insertion(sent) ==
  IF sent THEN /\ cis' = ReadCis
               /\ IF ReadCis = Junk
                    THEN UNCHANGED busVars
                    ELSE dev' = ReadCis /\ devpm' = "on"
          ELSE UNCHANGED <<cis, busVars>>

(* callback->suspend and ->resume: dpm_runtime_suspend(), _resume().        *)
(* Devices that are on already are left alone by the latter.                *)
BusSuspend == devpm' = IF dev # None THEN "off" ELSE devpm
BusResume  == devpm' = IF devpm \in {"off", "woken"} THEN "on" ELSE devpm

-----------------------------------------------------------------------------
(* The jobs under skt_mutex. *)

At(a)  == job.at = a
Go(a)  == job' = [job EXCEPT !.at = a]

(* mutex_unlock(); the thread goes back to the head of its loop.            *)
Unlock ==
  /\ job' = NoJob
  /\ pc'  = IF job.who = "thread" THEN "top" ELSE pc

(* socket_insert() up to socket_setup(): cs_socket_get() needs the module.  *)
StartInsert(w, flags) ==
  /\ module # "going"
  /\ state' = flags \cup {"INUSE"}
  /\ job' = Job(w, "insert", "setup")

(* A setup or a reset that failed.                                          *)
Fail == IF job.op = "reset" THEN Unlock ELSE Go("down") /\ UNCHANGED pc

(* socket_detect_change(): the status is read 20 ms after the event if no   *)
(* card was present.                                                        *)
DetectChange ==
  /\ At("look")
  /\ \/ /\ Present /\ slot = None
        /\ job' = Job("thread", "remove", "down") /\ UNCHANGED <<pc, state>>
     \/ /\ ~Present /\ slot # None
        /\ StartInsert("thread", state) /\ UNCHANGED pc
     \/ /\ (Present <=> slot # None) \/ (~Present /\ module = "going")
        /\ Unlock /\ UNCHANGED state
  /\ UNCHANGED <<hwVars, vcc, cis, cb, evVars, busVars, lifeVars, fresh>>

(* socket_setup(): is there a card, is it still there after the delay?      *)
SetupDetect ==
  /\ At("setup") \/ At("settle")
  /\ IF slot = None THEN Fail /\ UNCHANGED vcc
     ELSE IF At("setup") THEN Go("settle") /\ UNCHANGED <<vcc, pc>>
     ELSE vcc' = TRUE /\ Go("powered") /\ UNCHANGED pc
  /\ UNCHANGED <<hwVars, state, cis, cb, evVars, busVars, lifeVars, fresh>>

(* ... did the power come up?  SS_POWERON is reported with a card only.     *)
SetupPower ==
  /\ At("powered")
  /\ IF slot = None THEN Fail ELSE Go("reset") /\ UNCHANGED pc
  /\ UNCHANGED <<hwVars, vcc, state, cis, cb, evVars, busVars, lifeVars,
                 fresh>>

(* socket_reset() polls until the card is ready ...                         *)
ResetReady ==
  /\ At("reset") /\ slot # None
  /\ CASE job.op = "insert" -> /\ state' = state \cup {"PRESENT"}
                               /\ Go("tell") /\ UNCHANGED <<pc, devpm>>
       [] job.op = "resume" -> Go("verify") /\ UNCHANGED <<pc, devpm, state>>
       [] job.op = "reset"  -> BusResume /\ Unlock /\ UNCHANGED state
  /\ UNCHANGED <<hwVars, vcc, cis, cb, evVars, dev, lifeVars, fresh>>

(* ... or gone, or the limit is reached.                                    *)
ResetFails ==
  /\ At("reset")
  /\ Fail
  /\ fresh' = (fresh /\ job.op = "reset")
  /\ UNCHANGED <<hwVars, vcc, state, cis, cb, evVars, busVars, lifeVars>>

(* socket_insert() tells the bus.                                           *)
Tell ==
  /\ At("tell")
  /\ Insertion(cb) /\ Unlock
  /\ UNCHANGED <<hwVars, vcc, state, cb, evVars, lifeVars, fresh>>

(* socket_resume() ends; pcmcia_resume_card() resumes the devices.          *)
EndResume ==
  /\ state' = state \ {"SUSPEND"}
  /\ Unlock

(* Mutant: the CIS is not compared. *)
VerifySame_Trust ==
  /\ At("verify")
  /\ IF job.who = "user" THEN BusResume ELSE UNCHANGED devpm
  /\ EndResume
  /\ UNCHANGED <<hwVars, vcc, cis, cb, evVars, dev, lifeVars, fresh>>

(* verify_cis_cache() finds the card it knows ...                           *)
VerifySame ==
  /\ At("verify") /\ cis \in {None, slot}
  /\ IF job.who = "user" THEN BusResume ELSE UNCHANGED devpm
  /\ EndResume
  /\ UNCHANGED <<hwVars, vcc, cis, cb, evVars, dev, lifeVars, fresh>>

(* ... or another one, or no memory to compare it.                          *)
VerifyDiffers ==
  /\ At("verify")
  /\ Removal
  /\ cis' = None
  /\ Go("again")
  /\ UNCHANGED <<hwVars, vcc, state, cb, thrVars, lifeVars, fresh>>

TellAgain ==
  /\ At("again")
  /\ Insertion(cb) /\ EndResume
  /\ UNCHANGED <<hwVars, vcc, cb, evVars, lifeVars, fresh>>

(* Mutant: the power goes before the drivers do. *)
ShutdownDrivers_PowerFirst ==
  /\ At("down")
  /\ vcc' = FALSE
  /\ state' = state \ {"SUSPEND"}
  /\ Go("off")
  /\ UNCHANGED <<hwVars, cis, cb, thrVars, busVars, lifeVars, fresh>>

(* socket_shutdown(): the drivers go first ...                              *)
ShutdownDrivers ==
  /\ At("down")
  /\ Removal
  /\ state' = state \ {"SUSPEND"}
  /\ Go("off")
  /\ UNCHANGED <<hwVars, vcc, cis, cb, thrVars, lifeVars, fresh>>

(* Mutant: no cs_socket_put(). *)
ShutdownSocket_NoPut ==
  /\ At("off")
  /\ vcc' = FALSE /\ cis' = None /\ state' = state \cap {"INUSE"}
  /\ Unlock
  /\ UNCHANGED <<hwVars, cb, evVars, busVars, lifeVars, fresh>>

(* ... then the power, the CIS cache and the module reference.              *)
ShutdownSocket ==
  /\ At("off")
  /\ vcc' = FALSE /\ cis' = None /\ state' = {}
  /\ Unlock
  /\ UNCHANGED <<hwVars, cb, evVars, busVars, lifeVars, fresh>>

(* socket_suspend()                                                         *)
SocketSuspend ==
  IF Suspended
    THEN UNCHANGED <<vcc, state>>
    ELSE vcc' = FALSE /\ state' = state \cup {"SUSPEND"}

(* pcmcia_suspend_card() once the devices are suspended.                    *)
SuspendSocket ==
  /\ At("sleep")
  /\ SocketSuspend /\ Unlock
  /\ UNCHANGED <<hwVars, cis, cb, evVars, busVars, lifeVars, fresh>>

JobStep ==
  \/ DetectChange \/ SetupDetect \/ SetupPower \/ ResetReady \/ ResetFails
  \/ Tell \/ VerifySame \/ VerifyDiffers \/ TellAgain
  \/ ShutdownDrivers \/ ShutdownSocket \/ SuspendSocket

-----------------------------------------------------------------------------
(* The thread, pccardd(). *)

Goto(from, to) == pc = from /\ pc' = to
NoThrChange == UNCHANGED <<hwVars, vcc, state, cis, cb, busVars, lifeVars,
                           fresh>>

(* Start: dead_socket, which enables the card detect interrupt.             *)
ThreadStart ==
  /\ Goto("start", "top")
  /\ thread' = TRUE /\ vcc' = FALSE /\ cde' = TRUE
  /\ UNCHANGED <<slot, cdc, cscier, state, cis, cb, tstate, events, job,
                 busVars, lifeVars, fresh>>

(* set_current_state(TASK_INTERRUPTIBLE)                                    *)
ThreadTop ==
  /\ Goto("top", "take") /\ tstate' = "INTERRUPTIBLE"
  /\ UNCHANGED <<thread, events, job>> /\ NoThrChange

(* Take the events under thread_lock.                                       *)
ThreadTake ==
  /\ Goto("take", IF events THEN "lock" ELSE "test") /\ events' = FALSE
  /\ UNCHANGED <<thread, tstate, job>> /\ NoThrChange

(* mutex_lock(); a suspended socket ignores the event.                      *)
ThreadLock ==
  /\ job = NoJob
  /\ Goto("lock", IF Suspended THEN "top" ELSE "busy")
  /\ job' = IF Suspended THEN NoJob ELSE Job("thread", "detect", "look")
  /\ UNCHANGED <<thread, tstate, events>> /\ NoThrChange

(* Mutant: the task state is set just before schedule(). *)
ThreadTest_SetState ==
  /\ Goto("test", IF thread THEN "sched" ELSE "done")
  /\ tstate' = "INTERRUPTIBLE"
  /\ UNCHANGED <<thread, events, job>> /\ NoThrChange

(* if (!skt->thread) break; schedule();                                     *)
ThreadTest ==
  /\ Goto("test", IF thread THEN "sched" ELSE "done")
  /\ UNCHANGED <<thread, tstate, events, job>> /\ NoThrChange

ThreadWake ==
  /\ tstate = "RUNNING" /\ Goto("sched", "top")
  /\ UNCHANGED <<thread, tstate, events, job>> /\ NoThrChange

ThreadStep ==
  \/ ThreadStart \/ ThreadTop \/ ThreadTake \/ ThreadTest \/ ThreadWake

-----------------------------------------------------------------------------
(* Users: the sysfs files of the socket and the ioctls take the mutex, the  *)
(* pm_state file of a device does not.  (The power/state file that sysfs    *)
(* has for every device, and which "Older apps" write to, is left out.)     *)

CanLock == job = NoJob /\ system = "on"

(* pcmcia_suspend_card(); a driver that refuses leaves all as it was.       *)
SuspendCard ==
  /\ CanLock /\ Present
  /\ BusSuspend
  /\ job' = Job("user", "suspend", "sleep")
  /\ UNCHANGED <<hwVars, vcc, state, cis, cb, thrVars, dev, lifeVars, fresh>>

(* pcmcia_resume_card(): socket_resume() starts from a dead socket.         *)
ResumeCard ==
  /\ CanLock /\ Present /\ Suspended
  /\ vcc' = FALSE
  /\ job' = Job("user", "resume", "setup")
  /\ UNCHANGED <<hwVars, state, cis, cb, thrVars, busVars, lifeVars, fresh>>

(* pcmcia_eject_card()                                                      *)
EjectCard ==
  /\ CanLock /\ Present
  /\ job' = Job("user", "remove", "down") /\ fresh' = FALSE
  /\ UNCHANGED <<hwVars, vcc, state, cis, cb, thrVars, busVars, lifeVars>>

(* pcmcia_insert_card()                                                     *)
InsertCard ==
  /\ CanLock /\ thread /\ ~Present
  /\ StartInsert("user", state)
  /\ UNCHANGED <<hwVars, vcc, cis, cb, thrVars, busVars, lifeVars, fresh>>

(* pccard_reset_card(): the answer of callback->suspend is not looked at.   *)
ResetCard ==
  /\ CanLock /\ Present /\ ~Suspended
  /\ BusSuspend \/ UNCHANGED devpm
  /\ job' = Job("user", "reset", "reset")
  /\ UNCHANGED <<hwVars, vcc, state, cis, cb, thrVars, dev, lifeVars, fresh>>

(* pccard_register_pcmcia(): a card that is present is announced.           *)
RegisterPcmcia ==
  /\ CanLock /\ thread /\ ~cb
  /\ cb' = TRUE
  /\ Insertion(Present)
  /\ UNCHANGED <<hwVars, vcc, state, thrVars, job, lifeVars, fresh>>

(* pccard_register_pcmcia(NULL), when the bus driver leaves.  It can where  *)
(* it is a module, and the drivers of the devices keep it there.  Assumed:  *)
(* it does not leave devices without a driver behind, as the code allows.   *)
UnregisterPcmcia ==
  /\ CanLock /\ cb /\ dev = None
  /\ cb' = FALSE
  /\ UNCHANGED <<hwVars, vcc, state, cis, thrVars, job, busVars, lifeVars,
                 fresh>>

(* pcmcia_store_pm_state() takes dpm_sem only: whatever the holder of the   *)
(* mutex is doing, the devices are suspended ...                            *)
PmStateOff ==
  /\ system = "on" /\ dev # None /\ devpm \in {"on", "woken"}
  /\ devpm' = "off"
  /\ UNCHANGED <<hwVars, vcc, state, cis, cb, thrVars, job, dev, lifeVars,
                 fresh>>

(* ... or resumed, even if the socket has no power, or is about to lose it. *)
PmStateOn ==
  /\ system = "on" /\ devpm = "off"
  /\ devpm' = IF vcc /\ job.op # "suspend" THEN "on" ELSE "woken"
  /\ UNCHANGED <<hwVars, vcc, state, cis, cb, thrVars, job, dev, lifeVars,
                 fresh>>

User ==
  \/ SuspendCard \/ ResumeCard \/ EjectCard \/ InsertCard \/ ResetCard
  \/ RegisterPcmcia \/ UnregisterPcmcia \/ PmStateOff \/ PmStateOn

-----------------------------------------------------------------------------
(* Sleep of the system: tasks are frozen, the devices of the bus first. *)

(* device_suspend(), hd64461_pcmcia_drv_suspend()                           *)
SystemSuspend ==
  /\ system = "on" /\ module = "in" /\ job = NoJob /\ pc = "sched"
  /\ system' = "asleep" /\ pc' = "frozen"
  /\ cscier' = cde /\ cde' = FALSE
  /\ devpm' = IF dev # None /\ devpm # "off" THEN "sleeping" ELSE devpm
  /\ SocketSuspend
  /\ UNCHANGED <<slot, cdc, cis, cb, evVars, job, dev, module, fresh>>

(* hd64461_pcmcia_drv_resume(): socket_resume() inserts a card that was not *)
(* present.                                                                 *)
SystemResume ==
  /\ system = "asleep"
  /\ system' = "waking"
  /\ cde' = cscier /\ vcc' = FALSE
  /\ IF Present THEN job' = Job("pm", "resume", "setup") /\ UNCHANGED state
                ELSE StartInsert("pm", state \ {"SUSPEND"})
  /\ UNCHANGED <<slot, cdc, cscier, cis, cb, thrVars, busVars, module, fresh>>

(* dpm_resume() goes on to the devices it put to sleep, and tasks thaw.     *)
Thaw ==
  /\ system = "waking" /\ job = NoJob
  /\ system' = "on" /\ pc' = "top"
  /\ devpm' = IF devpm = "sleeping" THEN "on" ELSE devpm
  /\ UNCHANGED <<hwVars, vcc, state, cis, cb, evVars, job, dev, module,
                 fresh>>

-----------------------------------------------------------------------------
(* The module. *)

(* init_hd64461_ss(): hd64461_init_socket(), pcmcia_register_socket() ...   *)
Load ==
  /\ module = "out"
  /\ module' = "loading" /\ pc' = "start"
  /\ cde' = FALSE /\ state' = {} /\ cis' = None /\ events' = FALSE
  /\ UNCHANGED <<slot, cdc, cscier, vcc, cb, tstate, thread, job, busVars,
                 system, fresh>>

(* Mutant: the slot is not looked at. *)
RegisterDone_NoLook ==
  /\ module = "loading" /\ thread
  /\ module' = "in"
  /\ UNCHANGED <<hwVars, thrVars, vcc, state, cis, cb, job, busVars, system,
                 fresh>>

(* ... which asks for a look at the slot once the thread runs.              *)
RegisterDone ==
  /\ module = "loading" /\ thread
  /\ module' = "in"
  /\ ParseEvents
  /\ UNCHANGED <<hwVars, vcc, state, cis, cb, job, busVars, system, fresh>>

(* Mutant: no wake_up(&socket->thread_wait). *)
Unload_NoWake ==
  /\ module = "in" /\ system = "on" /\ ~cb /\ "INUSE" \notin state
  /\ module' = "going"
  /\ thread' = FALSE
  /\ UNCHANGED <<hwVars, vcc, state, cis, cb, pc, tstate, events, job,
                 busVars, system, fresh>>

(* pcmcia_unregister_socket() once nobody refers to the module: stop the    *)
(* thread ...                                                               *)
Unload ==
  /\ module = "in" /\ system = "on" /\ ~cb /\ "INUSE" \notin state
  /\ module' = "going"
  /\ thread' = FALSE /\ tstate' = "RUNNING"
  /\ UNCHANGED <<hwVars, vcc, state, cis, cb, pc, events, job, busVars,
                 system, fresh>>

(* ... wait for it, and hd64461_exit_socket().                              *)
UnloadDone ==
  /\ module = "going" /\ pc = "done" /\ job = NoJob
  /\ module' = "out" /\ pc' = "none"
  /\ cde' = FALSE /\ vcc' = FALSE
  /\ UNCHANGED <<slot, cdc, cscier, state, cis, cb, evVars, job, busVars,
                 system, fresh>>

Next ==
  \/ \E c \in Cards : CardIn(c)
  \/ CardOut \/ Interrupt \/ ThreadStep \/ ThreadLock \/ JobStep \/ User
  \/ SystemSuspend \/ SystemResume \/ Thaw
  \/ Load \/ RegisterDone \/ Unload \/ UnloadDone

Spec == Init /\ [][Next]_vars

(* Fairness: an enabled interrupt is taken at once, tasks that can run do,  *)
(* sleeps inside a job end, mutex_lock() hands the mutex out in turn (SF),  *)
(* and what was begun is carried on.  Cards and users do as they please,    *)
(* and the system may sleep for ever.                                       *)
FairSpec ==
  /\ Spec
  /\ SF_vars(Interrupt) /\ WF_vars(ThreadStep) /\ SF_vars(ThreadLock)
  /\ WF_vars(JobStep) /\ WF_vars(Thaw) /\ WF_vars(RegisterDone)
  /\ WF_vars(UnloadDone)

-----------------------------------------------------------------------------
(* Properties. *)

(* No event is lost between the interrupt and the thread: when pccardd      *)
(* sleeps there is nothing for it to do.                                    *)
NoLostEvent ==
  pc = "sched" /\ tstate = "INTERRUPTIBLE" => ~events /\ thread

(* Between jobs the power, the flags and the reference to the module agree: *)
(* no sequence of failed setups, ejections and sleeps leaves a dead card    *)
(* powered, or WARN_ON(skt->state & SOCKET_INUSE) to fire at the next one.  *)
Balanced ==
  job = NoJob /\ system = "on" =>
    /\ vcc <=> Present /\ ~Suspended
    /\ "INUSE" \in state <=> Present

(* Once all is quiet the core is right about the slot: a card that left is  *)
(* gone from socket and bus, one that came in was set up, and the devices   *)
(* on the bus belong to the card in the slot.                               *)
Settled ==
  /\ ~cdc /\ job = NoJob /\ module = "in" /\ system = "on" /\ ~Suspended
  /\ pc = "sched" /\ tstate = "INTERRUPTIBLE"
  => /\ Present => slot # None
     /\ fresh => Present
     /\ dev \in {None, slot}

Card == INSTANCE PcmciaCard WITH power <- vcc,
                                 awake <- (devpm \in {"on", "woken"}),
                                 woken <- (devpm = "woken")

(* The drivers of the card see what PcmciaCard promises, in every state and *)
(* at each step of every job, with users who suspend and wake the devices   *)
(* through pm_state in the middle of it.                                    *)
ImplementsCard == Card!Spec

(* The core follows the slot: a card that is pulled loses its devices, and  *)
(* one that is pushed in is set up, unless it is pulled or ejected again or *)
(* its setup fails, whatever the thread, users and the power management are *)
(* doing meanwhile.                                                         *)
SlotFollowed ==
  /\ slot = None /\ dev # None ~> dev = None \/ slot # None \/ Suspended
  /\ fresh /\ module = "in" ~>
       ~fresh \/ Present \/ module # "in" \/ system = "asleep"

(* Unloading the bridge ends.                                               *)
UnloadEnds == module = "going" ~> module = "out"
=============================================================================
