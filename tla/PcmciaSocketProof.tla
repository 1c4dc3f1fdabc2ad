------------------------- MODULE PcmciaSocketProof -------------------------
(***************************************************************************)
(* Proofs about PcmciaSocket, for every set of cards.                      *)
(*                                                                         *)
(* SocketInv says where each job of the holder of skt_mutex can be, and    *)
(* what the flags, the power, the CIS cache and the bus are at each of its *)
(* steps.  It is preserved whatever cards are exchanged, and implies       *)
(* NoLostEvent and Balanced, and that every step is one that PcmciaCard    *)
(* allows.  SlotInv adds who will look at the slot; it needs that a card   *)
(* is not exchanged before its removal is seen (~FastSwap), and implies    *)
(* Settled.                                                                *)
(***************************************************************************)
EXTENDS PcmciaSocket, TLAPS

(* Places of pccardd(), and the parts of a job.                            *)
Places == {"none", "start", "top", "take", "lock", "busy", "test", "sched",
           "done", "frozen"}
Whos   == {"none", "thread", "user", "pm"}
Ops    == {"none", "detect", "insert", "remove", "resume", "reset",
           "suspend"}
Steps  == {"none", "look", "setup", "settle", "powered", "reset", "tell",
           "verify", "again", "down", "off", "sleep"}
JobRec == [who : Whos, op : Ops, at : Steps]

(* The types of the socket's variables.                                    *)
CardTypes ==
  /\ slot \in Cards \cup {None} /\ dev \in Cards \cup {None}
  /\ cis \in Cards \cup {None, Junk}
  /\ state \in SUBSET Flags
  /\ devpm \in {"on", "off", "sleeping", "woken"}
FlagTypes ==
  /\ cdc \in BOOLEAN /\ cde \in BOOLEAN /\ cscier \in BOOLEAN
  /\ vcc \in BOOLEAN /\ events \in BOOLEAN /\ thread \in BOOLEAN
  /\ cb \in BOOLEAN /\ fresh \in BOOLEAN
PlaceTypes ==
  /\ pc \in Places /\ tstate \in {"RUNNING", "INTERRUPTIBLE"}
  /\ module \in {"out", "loading", "in", "going"}
  /\ system \in {"on", "asleep", "waking"}
SocketTypes ==
  CardTypes /\ FlagTypes /\ PlaceTypes /\ job \in JobRec

(* Who may be where: the thread holds skt_mutex just while it is busy; it  *)
(* is frozen while the system sleeps, with the module loaded; the thread   *)
(* is there when the module is in.                                         *)
ThreadInv ==
  /\ job.who = "thread" <=> pc = "busy"
  /\ job.who = "pm" => system = "waking"
  /\ job.who = "user" => system = "on"
  /\ system = "asleep" => job.who = "none"
  /\ pc = "frozen" <=> system # "on"
  /\ system # "on" => module = "in"
  /\ module = "in" => thread
  /\ module \in {"out", "going"} => ~thread
  /\ module = "loading" => (thread <=> pc # "start")
  /\ pc = "start" => module = "loading"
  /\ pc = "none" <=> module = "out"
  /\ pc = "done" => module = "going"

(* A thread that is about to sleep has seen all events, and one that sleeps*)
(* has not been told to stop.                                              *)
WakeInv ==
  /\ pc \in {"test", "sched"} /\ tstate = "INTERRUPTIBLE" => ~events
  /\ pc = "sched" /\ tstate = "INTERRUPTIBLE" => thread

(* Which steps a job has.                                                  *)
JobShape ==
  /\ job.who = "none" <=> job.op = "none"
  /\ job.at = "none" <=> job.op = "none"
  /\ job.op = "detect" <=> job.at = "look"
  /\ job.op = "detect" => job.who = "thread"
  /\ job.op = "reset" => job.at = "reset"
  /\ job.op = "suspend" <=> job.at = "sleep"
  /\ job.op = "suspend" => job.who = "user"
  /\ job.at \in {"setup", "settle", "powered"}
       => job.op \in {"insert", "resume"}
  /\ job.at = "tell" => job.op = "insert"
  /\ job.at \in {"verify", "again"} => job.op = "resume"
  /\ job.at \in {"down", "off"} => job.op \in {"insert", "remove", "resume"}
  /\ job.op = "remove" => job.at \in {"down", "off"}
  /\ module \in {"out", "going"} \/ pc = "start"
       => job.op \in {"none", "detect"}

(* The flags and the power at each step of a job.                          *)
PowerInv ==
  /\ Present => "INUSE" \in state
  /\ "INUSE" \in state => Present \/ job.op = "insert"
  /\ job.op \in {"remove", "resume", "reset", "suspend"} => Present
  /\ job.op = "insert" => "INUSE" \in state /\ (Present <=> job.at = "tell")
  /\ job.op \in {"insert", "detect", "reset"} \/ job.at = "off" => ~Suspended
  /\ job.op = "resume" /\ job.at # "off" => Suspended
  /\ system = "asleep" => Suspended
  /\ system = "waking" /\ job.op = "none" => ~Suspended
  /\ system = "on" /\ Suspended => Present
  /\ job.op \in {"none", "detect", "suspend"}
       => (vcc <=> Present /\ ~Suspended)
  /\ job.at \in {"setup", "settle"} => ~vcc
  /\ job.at \in {"powered", "reset", "tell", "verify", "again"} => vcc
  /\ module \in {"out", "going"} \/ pc = "start" => state = {}

(* The devices on the bus are those of the card in the CIS cache; before   *)
(* the power goes they have been suspended, though a user may have woken   *)
(* them since.                                                             *)
BusInv ==
  /\ dev # None => cb /\ Present
  /\ dev = None => devpm = "on"
  /\ job.op = "suspend" /\ dev # None => devpm \in {"off", "woken"}
  /\ devpm = "sleeping" => system # "on"
  /\ job.at \in {"off", "tell", "again"} => dev = None
  /\ ~Present \/ job.at \in {"tell", "again"} => cis = None
  /\ job.at # "off" => IF dev = None THEN cis \notin Cards ELSE cis = dev

SocketInv ==
  /\ SocketTypes /\ ThreadInv /\ WakeInv /\ JobShape /\ PowerInv
  /\ BusInv

-----------------------------------------------------------------------------
(* The initial state, with a card in the slot or without one.              *)
LEMMA SocketInit == Init => SocketInv
<1> SUFFICES ASSUME Init PROVE SocketInv
  OBVIOUS
<1> USE SocketAssumption DEF Init, NoJob, Present, Suspended
<1>1. job \in JobRec
  BY DEF JobRec, Whos, Ops, Steps
<1>2. CardTypes /\ PlaceTypes
  BY DEF CardTypes, PlaceTypes, Places, Flags
<1>3. FlagTypes
  BY DEF FlagTypes
<1>4. ThreadInv /\ WakeInv /\ JobShape /\ PowerInv /\ BusInv
  BY DEF ThreadInv, WakeInv, JobShape, PowerInv, BusInv
<1> QED BY <1>1, <1>2, <1>3, <1>4 DEF SocketInv, SocketTypes

(* A card that is pushed in changes nothing the socket knows yet.          *)
LEMMA CardInStep ==
  ASSUME SocketInv, NEW c \in Cards, CardIn(c)
  PROVE  SocketInv'
<1> USE DEF SocketInv, SocketTypes, hwVars, evVars, thrVars, busVars,
        lifeVars, Present, Suspended
<1>1. job' \in JobRec /\ CardTypes' /\ PlaceTypes'
  BY DEF CardIn, CardTypes, PlaceTypes
<1>2. FlagTypes'
  BY DEF CardIn, FlagTypes
<1>3. ThreadInv' /\ WakeInv' /\ JobShape'
  BY DEF CardIn, ThreadInv, WakeInv, JobShape
<1>4. PowerInv' /\ BusInv'
  BY DEF CardIn, PowerInv, BusInv
<1> QED BY <1>1, <1>2, <1>3, <1>4

(* What socket_reset() does when the card is ready depends on the job: the *)
(* invariant leaves three of them.                                         *)
LEMMA ResetReadyCases ==
  ASSUME SocketInv, ResetReady
  PROVE  /\ job.at = "reset" /\ slot # None
         /\ UNCHANGED <<hwVars, vcc, cis, cb, evVars, dev, lifeVars, fresh>>
         /\ \/ /\ job.op = "insert" /\ state' = state \cup {"PRESENT"}
               /\ Go("tell") /\ UNCHANGED <<pc, devpm>>
            \/ /\ job.op = "resume" /\ Go("verify")
               /\ UNCHANGED <<pc, devpm, state>>
            \/ job.op = "reset" /\ BusResume /\ Unlock /\ UNCHANGED state
<1>1. job.op \in {"insert", "resume", "reset"}
  BY DEF ResetReady, At, SocketInv, SocketTypes, JobShape, JobRec, Ops
<1>2. /\ job.at = "reset" /\ slot # None
      /\ UNCHANGED <<hwVars, vcc, cis, cb, evVars, dev, lifeVars, fresh>>
  BY DEF ResetReady, At
<1> QED BY <1>1, <1>2 DEF ResetReady

(* A card leaves, or the bridge interrupts.                                *)
LEMMA SlotSteps ==
  ASSUME SocketInv,
         CardOut \/ Interrupt
  PROVE  SocketInv'
<1> USE SocketAssumption
    DEF SocketInv, SocketTypes, hwVars, evVars, thrVars, busVars,
        lifeVars, Present, Suspended, NoJob, Job, Go
<1>1. CASE CardOut
  <2>1. job' \in JobRec /\ PlaceTypes' /\ ThreadInv' /\ WakeInv' /\
        JobShape' /\ PowerInv' /\ BusInv'
    BY <1>1
    DEF CardOut, PlaceTypes, ThreadInv, WakeInv, JobShape, PowerInv, BusInv
  <2>2. CardTypes'
    BY <1>1 DEF CardOut, CardTypes, Flags
  <2>3. FlagTypes'
    BY <1>1 DEF CardOut, FlagTypes
  <2> QED BY <2>1, <2>2, <2>3
<1>2. CASE Interrupt
  <2>1. job' \in JobRec /\ CardTypes' /\ ThreadInv' /\ JobShape' /\
        PowerInv' /\ BusInv'
    BY <1>2
    DEF Interrupt, ParseEvents, CardTypes, ThreadInv, JobShape, PowerInv,
        BusInv
  <2>2. FlagTypes'
    BY <1>2 DEF Interrupt, ParseEvents, FlagTypes
  <2>3. PlaceTypes'
    BY <1>2 DEF Interrupt, ParseEvents, PlaceTypes, Places
  <2>4. WakeInv'
    BY <1>2 DEF Interrupt, ParseEvents, WakeInv, ThreadInv
  <2> QED BY <2>1, <2>2, <2>3, <2>4
<1> QED BY <1>1, <1>2

(* The steps of a job under skt_mutex keep the invariant.                  *)
LEMMA JobSteps ==
  ASSUME SocketInv,
         DetectChange \/ SetupDetect \/ SetupPower \/ ResetReady
         \/ ResetFails \/ Tell \/ VerifySame \/ VerifyDiffers
         \/ TellAgain \/ ShutdownDrivers \/ ShutdownSocket
         \/ SuspendSocket
  PROVE  SocketInv'
<1> USE SocketAssumption
    DEF SocketInv, SocketTypes, hwVars, evVars, thrVars, busVars,
        lifeVars, Present, Suspended, NoJob, Job, Go
<1>1. CASE DetectChange
  <2>1. FlagTypes'
    BY <1>1 DEF DetectChange, FlagTypes
  <2>2. job' \in JobRec
    BY <1>1
    DEF DetectChange, At, StartInsert, Unlock, JobRec, Whos, Ops, Steps
  <2>3. CardTypes'
    BY <1>1 DEF DetectChange, At, StartInsert, Unlock, CardTypes, Flags
  <2>4. PlaceTypes'
    BY <1>1 DEF DetectChange, At, StartInsert, Unlock, PlaceTypes, Places
  <2>5. ThreadInv'
    BY <1>1
    DEF DetectChange, At, StartInsert, Unlock, ThreadInv, JobShape, JobRec
  <2>6. WakeInv'
    BY <1>1 DEF DetectChange, At, StartInsert, Unlock, WakeInv, ThreadInv
  <2>7. JobShape'
    BY <1>1
    DEF DetectChange, At, StartInsert, Unlock, JobShape, ThreadInv,
        PowerInv, JobRec
  <2>8. PowerInv'
    BY <1>1
    DEF DetectChange, At, StartInsert, Unlock, PowerInv, JobShape,
        ThreadInv, JobRec
  <2>9. BusInv'
    BY <1>1
    DEF DetectChange, At, StartInsert, Unlock, BusInv, JobShape, PowerInv,
        ThreadInv, JobRec
  <2> QED BY <2>1, <2>2, <2>3, <2>4, <2>5, <2>6, <2>7, <2>8, <2>9
<1>2. CASE SetupDetect
  <2>1. CardTypes'
    BY <1>2 DEF SetupDetect, CardTypes
  <2>2. job' \in JobRec
    BY <1>2 DEF SetupDetect, At, Fail, Unlock, JobRec, Whos, Ops, Steps
  <2>3. FlagTypes'
    BY <1>2 DEF SetupDetect, At, Fail, Unlock, FlagTypes
  <2>4. PlaceTypes'
    BY <1>2 DEF SetupDetect, At, Fail, Unlock, PlaceTypes, Places
  <2>5. ThreadInv'
    BY <1>2 DEF SetupDetect, At, Fail, Unlock, ThreadInv, JobShape, JobRec
  <2>6. WakeInv'
    BY <1>2 DEF SetupDetect, At, Fail, Unlock, WakeInv, ThreadInv
  <2>7. JobShape'
    BY <1>2
    DEF SetupDetect, At, Fail, Unlock, JobShape, ThreadInv, PowerInv, JobRec
  <2>8. PowerInv'
    BY <1>2
    DEF SetupDetect, At, Fail, Unlock, PowerInv, JobShape, ThreadInv, JobRec
  <2>9. BusInv'
    BY <1>2
    DEF SetupDetect, At, Fail, Unlock, BusInv, JobShape, PowerInv,
        ThreadInv, JobRec
  <2> QED BY <2>1, <2>2, <2>3, <2>4, <2>5, <2>6, <2>7, <2>8, <2>9
<1>3. CASE SetupPower
  <2>1. CardTypes' /\ FlagTypes'
    BY <1>3 DEF SetupPower, CardTypes, FlagTypes
  <2>2. job' \in JobRec
    BY <1>3 DEF SetupPower, At, Fail, Unlock, JobRec, Whos, Ops, Steps
  <2>3. PlaceTypes'
    BY <1>3 DEF SetupPower, At, Fail, Unlock, PlaceTypes, Places
  <2>4. ThreadInv'
    BY <1>3 DEF SetupPower, At, Fail, Unlock, ThreadInv, JobShape, JobRec
  <2>5. WakeInv'
    BY <1>3 DEF SetupPower, At, Fail, Unlock, WakeInv, ThreadInv
  <2>6. JobShape'
    BY <1>3
    DEF SetupPower, At, Fail, Unlock, JobShape, ThreadInv, PowerInv, JobRec
  <2>7. PowerInv'
    BY <1>3
    DEF SetupPower, At, Fail, Unlock, PowerInv, JobShape, ThreadInv, JobRec
  <2>8. BusInv'
    BY <1>3
    DEF SetupPower, At, Fail, Unlock, BusInv, JobShape, PowerInv, ThreadInv,
        JobRec
  <2> QED BY <2>1, <2>2, <2>3, <2>4, <2>5, <2>6, <2>7, <2>8
<1>4. CASE ResetReady
  <2>1. FlagTypes'
    BY <1>4, ResetReadyCases DEF FlagTypes
  <2>2. job' \in JobRec
    BY <1>4, ResetReadyCases DEF BusResume, Unlock, JobRec, Whos, Ops, Steps
  <2>3. CardTypes'
    BY <1>4, ResetReadyCases DEF BusResume, Unlock, CardTypes, Flags
  <2>4. PlaceTypes'
    BY <1>4, ResetReadyCases DEF BusResume, Unlock, PlaceTypes, Places
  <2>5. ThreadInv'
    BY <1>4, ResetReadyCases
    DEF BusResume, Unlock, ThreadInv, JobShape, JobRec
  <2>6. WakeInv'
    BY <1>4, ResetReadyCases DEF BusResume, Unlock, WakeInv, ThreadInv
  <2>7. JobShape'
    BY <1>4, ResetReadyCases
    DEF BusResume, Unlock, JobShape, ThreadInv, PowerInv, JobRec
  <2>8. PowerInv'
    BY <1>4, ResetReadyCases
    DEF BusResume, Unlock, PowerInv, JobShape, ThreadInv, JobRec
  <2>9. BusInv'
    BY <1>4, ResetReadyCases
    DEF BusResume, Unlock, BusInv, JobShape, PowerInv, ThreadInv, JobRec
  <2> QED BY <2>1, <2>2, <2>3, <2>4, <2>5, <2>6, <2>7, <2>8, <2>9
<1>5. CASE ResetFails
  <2>1. CardTypes'
    BY <1>5 DEF ResetFails, CardTypes
  <2>2. job' \in JobRec
    BY <1>5 DEF ResetFails, At, Fail, Unlock, JobRec, Whos, Ops, Steps
  <2>3. FlagTypes'
    BY <1>5 DEF ResetFails, At, Fail, Unlock, FlagTypes
  <2>4. PlaceTypes'
    BY <1>5 DEF ResetFails, At, Fail, Unlock, PlaceTypes, Places
  <2>5. ThreadInv'
    BY <1>5 DEF ResetFails, At, Fail, Unlock, ThreadInv, JobShape, JobRec
  <2>6. WakeInv'
    BY <1>5 DEF ResetFails, At, Fail, Unlock, WakeInv, ThreadInv
  <2>7. JobShape'
    BY <1>5
    DEF ResetFails, At, Fail, Unlock, JobShape, ThreadInv, PowerInv, JobRec,
        Ops
  <2>8. PowerInv'
    BY <1>5
    DEF ResetFails, At, Fail, Unlock, PowerInv, JobShape, ThreadInv, JobRec
  <2>9. BusInv'
    BY <1>5
    DEF ResetFails, At, Fail, Unlock, BusInv, JobShape, PowerInv, ThreadInv,
        JobRec
  <2> QED BY <2>1, <2>2, <2>3, <2>4, <2>5, <2>6, <2>7, <2>8, <2>9
<1>6. CASE Tell
  <2>1. FlagTypes'
    BY <1>6 DEF Tell, FlagTypes
  <2>2. job' \in JobRec
    BY <1>6 DEF Tell, At, Insertion, Unlock, ReadCis, JobRec, Whos, Ops, Steps
  <2>3. CardTypes'
    BY <1>6 DEF Tell, At, Insertion, Unlock, ReadCis, CardTypes, Flags
  <2>4. PlaceTypes'
    BY <1>6 DEF Tell, At, Insertion, Unlock, ReadCis, PlaceTypes, Places
  <2>5. ThreadInv'
    BY <1>6
    DEF Tell, At, Insertion, Unlock, ReadCis, ThreadInv, JobShape, JobRec
  <2>6. WakeInv'
    BY <1>6 DEF Tell, At, Insertion, Unlock, ReadCis, WakeInv, ThreadInv
  <2>7. JobShape'
    BY <1>6
    DEF Tell, At, Insertion, Unlock, ReadCis, JobShape, ThreadInv, PowerInv,
        JobRec
  <2>8. PowerInv'
    BY <1>6
    DEF Tell, At, Insertion, Unlock, ReadCis, PowerInv, JobShape, ThreadInv,
        JobRec
  <2>9. BusInv'
    BY <1>6
    DEF Tell, At, Insertion, Unlock, ReadCis, BusInv, JobShape, PowerInv,
        ThreadInv, JobRec
  <2> QED BY <2>1, <2>2, <2>3, <2>4, <2>5, <2>6, <2>7, <2>8, <2>9
<1>7. CASE VerifySame
  <2>1. FlagTypes'
    BY <1>7 DEF VerifySame, FlagTypes
  <2>2. job' \in JobRec
    BY <1>7
    DEF VerifySame, At, BusResume, EndResume, Unlock, JobRec, Whos, Ops,
        Steps
  <2>3. CardTypes'
    BY <1>7 DEF VerifySame, At, BusResume, EndResume, Unlock, CardTypes, Flags
  <2>4. PlaceTypes'
    BY <1>7
    DEF VerifySame, At, BusResume, EndResume, Unlock, PlaceTypes, Places
  <2>5. ThreadInv'
    BY <1>7
    DEF VerifySame, At, BusResume, EndResume, Unlock, ThreadInv, JobShape,
        JobRec
  <2>6. WakeInv'
    BY <1>7
    DEF VerifySame, At, BusResume, EndResume, Unlock, WakeInv, ThreadInv
  <2>7. JobShape'
    BY <1>7
    DEF VerifySame, At, BusResume, EndResume, Unlock, JobShape, ThreadInv,
        PowerInv, JobRec
  <2>8. PowerInv'
    BY <1>7
    DEF VerifySame, At, BusResume, EndResume, Unlock, PowerInv, JobShape,
        ThreadInv, JobRec
  <2>9. BusInv'
    BY <1>7
    DEF VerifySame, At, BusResume, EndResume, Unlock, BusInv, JobShape,
        PowerInv, ThreadInv, JobRec
  <2> QED BY <2>1, <2>2, <2>3, <2>4, <2>5, <2>6, <2>7, <2>8, <2>9
<1>8. CASE VerifyDiffers
  <2>1. FlagTypes' /\ PlaceTypes' /\ WakeInv'
    BY <1>8 DEF VerifyDiffers, FlagTypes, PlaceTypes, WakeInv
  <2>2. job' \in JobRec
    BY <1>8 DEF VerifyDiffers, At, Removal, JobRec, Whos, Ops, Steps
  <2>3. CardTypes'
    BY <1>8 DEF VerifyDiffers, At, Removal, CardTypes, Flags
  <2>4. ThreadInv'
    BY <1>8 DEF VerifyDiffers, At, Removal, ThreadInv, JobShape, JobRec
  <2>5. JobShape'
    BY <1>8
    DEF VerifyDiffers, At, Removal, JobShape, ThreadInv, PowerInv, JobRec
  <2>6. PowerInv'
    BY <1>8
    DEF VerifyDiffers, At, Removal, PowerInv, JobShape, ThreadInv, JobRec
  <2>7. BusInv'
    BY <1>8
    DEF VerifyDiffers, At, Removal, BusInv, JobShape, PowerInv, ThreadInv,
        JobRec
  <2> QED BY <2>1, <2>2, <2>3, <2>4, <2>5, <2>6, <2>7
<1>9. CASE TellAgain
  <2>1. FlagTypes'
    BY <1>9 DEF TellAgain, FlagTypes
  <2>2. job' \in JobRec
    BY <1>9
    DEF TellAgain, At, Insertion, EndResume, ReadCis, Unlock, JobRec, Whos,
        Ops, Steps
  <2>3. CardTypes'
    BY <1>9
    DEF TellAgain, At, Insertion, EndResume, ReadCis, Unlock, CardTypes,
        Flags
  <2>4. PlaceTypes'
    BY <1>9
    DEF TellAgain, At, Insertion, EndResume, ReadCis, Unlock, PlaceTypes,
        Places
  <2>5. ThreadInv'
    BY <1>9
    DEF TellAgain, At, Insertion, EndResume, ReadCis, Unlock, ThreadInv,
        JobShape, JobRec
  <2>6. WakeInv'
    BY <1>9
    DEF TellAgain, At, Insertion, EndResume, ReadCis, Unlock, WakeInv,
        ThreadInv
  <2>7. JobShape'
    BY <1>9
    DEF TellAgain, At, Insertion, EndResume, ReadCis, Unlock, JobShape,
        ThreadInv, PowerInv, JobRec
  <2>8. PowerInv'
    BY <1>9
    DEF TellAgain, At, Insertion, EndResume, ReadCis, Unlock, PowerInv,
        JobShape, ThreadInv, JobRec
  <2>9. BusInv'
    BY <1>9
    DEF TellAgain, At, Insertion, EndResume, ReadCis, Unlock, BusInv,
        JobShape, PowerInv, ThreadInv, JobRec
  <2> QED BY <2>1, <2>2, <2>3, <2>4, <2>5, <2>6, <2>7, <2>8, <2>9
<1>10. CASE ShutdownDrivers
  <2>1. FlagTypes' /\ PlaceTypes' /\ WakeInv'
    BY <1>10 DEF ShutdownDrivers, FlagTypes, PlaceTypes, WakeInv
  <2>2. job' \in JobRec
    BY <1>10 DEF ShutdownDrivers, At, Removal, JobRec, Whos, Ops, Steps
  <2>3. CardTypes'
    BY <1>10 DEF ShutdownDrivers, At, Removal, CardTypes, Flags
  <2>4. ThreadInv'
    BY <1>10 DEF ShutdownDrivers, At, Removal, ThreadInv, JobShape, JobRec
  <2>5. JobShape'
    BY <1>10
    DEF ShutdownDrivers, At, Removal, JobShape, ThreadInv, PowerInv, JobRec
  <2>6. PowerInv'
    BY <1>10
    DEF ShutdownDrivers, At, Removal, PowerInv, JobShape, ThreadInv, JobRec
  <2>7. BusInv'
    BY <1>10
    DEF ShutdownDrivers, At, Removal, BusInv, JobShape, PowerInv, ThreadInv,
        JobRec
  <2> QED BY <2>1, <2>2, <2>3, <2>4, <2>5, <2>6, <2>7
<1>11. CASE ShutdownSocket
  <2>1. job' \in JobRec
    BY <1>11 DEF ShutdownSocket, At, Unlock, JobRec, Whos, Ops, Steps
  <2>2. CardTypes'
    BY <1>11 DEF ShutdownSocket, At, Unlock, CardTypes, Flags
  <2>3. FlagTypes'
    BY <1>11 DEF ShutdownSocket, At, Unlock, FlagTypes
  <2>4. PlaceTypes'
    BY <1>11 DEF ShutdownSocket, At, Unlock, PlaceTypes, Places
  <2>5. ThreadInv'
    BY <1>11 DEF ShutdownSocket, At, Unlock, ThreadInv, JobShape, JobRec
  <2>6. WakeInv'
    BY <1>11 DEF ShutdownSocket, At, Unlock, WakeInv, ThreadInv
  <2>7. JobShape'
    BY <1>11
    DEF ShutdownSocket, At, Unlock, JobShape, ThreadInv, PowerInv, JobRec
  <2>8. PowerInv'
    BY <1>11
    DEF ShutdownSocket, At, Unlock, PowerInv, JobShape, ThreadInv, JobRec
  <2>9. BusInv'
    BY <1>11
    DEF ShutdownSocket, At, Unlock, BusInv, JobShape, PowerInv, ThreadInv,
        JobRec
  <2> QED BY <2>1, <2>2, <2>3, <2>4, <2>5, <2>6, <2>7, <2>8, <2>9
<1>12. CASE SuspendSocket
  <2>1. job' \in JobRec
    BY <1>12 DEF SuspendSocket, At, Unlock, JobRec, Whos, Ops, Steps
  <2>2. CardTypes'
    BY <1>12 DEF SuspendSocket, SocketSuspend, CardTypes, Flags
  <2>3. FlagTypes'
    BY <1>12 DEF SuspendSocket, SocketSuspend, FlagTypes
  <2>4. PlaceTypes'
    BY <1>12 DEF SuspendSocket, At, Unlock, PlaceTypes, Places
  <2>5. ThreadInv'
    BY <1>12 DEF SuspendSocket, At, Unlock, ThreadInv, JobShape, JobRec
  <2>6. WakeInv'
    BY <1>12 DEF SuspendSocket, At, Unlock, WakeInv, JobShape
  <2>7. JobShape'
    BY <1>12
    DEF SuspendSocket, At, Unlock, JobShape, ThreadInv, PowerInv, JobRec
  <2>8. PowerInv'
    BY <1>12
    DEF SuspendSocket, At, Unlock, SocketSuspend, PowerInv, JobShape,
        ThreadInv, JobRec
  <2>9. BusInv'
    BY <1>12
    DEF SuspendSocket, At, Unlock, SocketSuspend, BusInv, JobShape,
        PowerInv, ThreadInv, JobRec
  <2> QED BY <2>1, <2>2, <2>3, <2>4, <2>5, <2>6, <2>7, <2>8, <2>9
<1> QED BY <1>1, <1>2, <1>3, <1>4, <1>5, <1>6, <1>7, <1>8, <1>9, <1>10,
           <1>11, <1>12

(* The steps of pccardd() keep the invariant.                              *)
LEMMA ThreadSteps ==
  ASSUME SocketInv,
         ThreadStart \/ ThreadTop \/ ThreadTake \/ ThreadTest
         \/ ThreadWake \/ ThreadLock
  PROVE  SocketInv'
<1> USE SocketAssumption
    DEF SocketInv, SocketTypes, hwVars, evVars, thrVars, busVars,
        lifeVars, Present, Suspended, NoJob, Job, Go
<1>1. CASE ThreadStart
  <2>1. job' \in JobRec /\ CardTypes' /\ BusInv'
    BY <1>1 DEF ThreadStart, CardTypes, BusInv
  <2>2. FlagTypes'
    BY <1>1 DEF ThreadStart, Goto, FlagTypes
  <2>3. PlaceTypes'
    BY <1>1 DEF ThreadStart, Goto, PlaceTypes, Places
  <2>4. ThreadInv'
    BY <1>1 DEF ThreadStart, Goto, ThreadInv, JobShape, JobRec
  <2>5. WakeInv'
    BY <1>1 DEF ThreadStart, Goto, WakeInv, ThreadInv
  <2>6. JobShape'
    BY <1>1 DEF ThreadStart, Goto, JobShape, ThreadInv, PowerInv, JobRec
  <2>7. PowerInv'
    BY <1>1 DEF ThreadStart, Goto, PowerInv, JobShape, ThreadInv, JobRec
  <2> QED BY <2>1, <2>2, <2>3, <2>4, <2>5, <2>6, <2>7
<1>2. CASE ThreadTop
  <2>1. job' \in JobRec /\ CardTypes' /\ FlagTypes' /\ BusInv'
    BY <1>2 DEF ThreadTop, NoThrChange, CardTypes, FlagTypes, BusInv
  <2>2. PlaceTypes'
    BY <1>2 DEF ThreadTop, Goto, NoThrChange, PlaceTypes, Places
  <2>3. ThreadInv'
    BY <1>2 DEF ThreadTop, Goto, NoThrChange, ThreadInv, JobShape, JobRec
  <2>4. WakeInv'
    BY <1>2 DEF ThreadTop, Goto, NoThrChange, WakeInv, ThreadInv
  <2>5. JobShape'
    BY <1>2
    DEF ThreadTop, Goto, NoThrChange, JobShape, ThreadInv, PowerInv, JobRec
  <2>6. PowerInv'
    BY <1>2
    DEF ThreadTop, Goto, NoThrChange, PowerInv, JobShape, ThreadInv, JobRec
  <2> QED BY <2>1, <2>2, <2>3, <2>4, <2>5, <2>6
<1>3. CASE ThreadTake
  <2>1. job' \in JobRec /\ CardTypes' /\ BusInv'
    BY <1>3 DEF ThreadTake, NoThrChange, CardTypes, BusInv
  <2>2. FlagTypes'
    BY <1>3 DEF ThreadTake, Goto, NoThrChange, FlagTypes
  <2>3. PlaceTypes'
    BY <1>3 DEF ThreadTake, Goto, NoThrChange, PlaceTypes, Places
  <2>4. ThreadInv'
    BY <1>3 DEF ThreadTake, Goto, NoThrChange, ThreadInv, JobShape, JobRec
  <2>5. WakeInv'
    BY <1>3 DEF ThreadTake, Goto, NoThrChange, WakeInv, ThreadInv
  <2>6. JobShape'
    BY <1>3
    DEF ThreadTake, Goto, NoThrChange, JobShape, ThreadInv, PowerInv, JobRec
  <2>7. PowerInv'
    BY <1>3
    DEF ThreadTake, Goto, NoThrChange, PowerInv, JobShape, ThreadInv, JobRec
  <2> QED BY <2>1, <2>2, <2>3, <2>4, <2>5, <2>6, <2>7
<1>4. CASE ThreadTest
  <2>1. job' \in JobRec /\ CardTypes' /\ FlagTypes' /\ BusInv'
    BY <1>4 DEF ThreadTest, NoThrChange, CardTypes, FlagTypes, BusInv
  <2>2. PlaceTypes'
    BY <1>4 DEF ThreadTest, Goto, NoThrChange, PlaceTypes, Places
  <2>3. ThreadInv'
    BY <1>4
    DEF ThreadTest, Goto, NoThrChange, ThreadInv, JobShape, JobRec,
        PlaceTypes
  <2>4. WakeInv'
    BY <1>4 DEF ThreadTest, Goto, NoThrChange, WakeInv, ThreadInv
  <2>5. JobShape'
    BY <1>4
    DEF ThreadTest, Goto, NoThrChange, JobShape, ThreadInv, PowerInv, JobRec
  <2>6. PowerInv'
    BY <1>4
    DEF ThreadTest, Goto, NoThrChange, PowerInv, JobShape, ThreadInv, JobRec
  <2> QED BY <2>1, <2>2, <2>3, <2>4, <2>5, <2>6
<1>5. CASE ThreadWake
  <2>1. job' \in JobRec /\ CardTypes' /\ FlagTypes' /\ BusInv'
    BY <1>5 DEF ThreadWake, NoThrChange, CardTypes, FlagTypes, BusInv
  <2>2. PlaceTypes'
    BY <1>5 DEF ThreadWake, Goto, NoThrChange, PlaceTypes, Places
  <2>3. ThreadInv'
    BY <1>5 DEF ThreadWake, Goto, NoThrChange, ThreadInv, JobShape, JobRec
  <2>4. WakeInv'
    BY <1>5 DEF ThreadWake, Goto, NoThrChange, WakeInv, ThreadInv
  <2>5. JobShape'
    BY <1>5
    DEF ThreadWake, Goto, NoThrChange, JobShape, ThreadInv, PowerInv, JobRec
  <2>6. PowerInv'
    BY <1>5
    DEF ThreadWake, Goto, NoThrChange, PowerInv, JobShape, ThreadInv, JobRec
  <2> QED BY <2>1, <2>2, <2>3, <2>4, <2>5, <2>6
<1>6. CASE ThreadLock
  <2>1. CardTypes' /\ FlagTypes'
    BY <1>6 DEF ThreadLock, NoThrChange, CardTypes, FlagTypes
  <2>2. job' \in JobRec
    BY <1>6 DEF ThreadLock, Goto, NoThrChange, JobRec, Whos, Ops, Steps
  <2>3. PlaceTypes'
    BY <1>6 DEF ThreadLock, Goto, NoThrChange, PlaceTypes, Places
  <2>4. ThreadInv'
    BY <1>6 DEF ThreadLock, Goto, NoThrChange, ThreadInv, JobShape, JobRec
  <2>5. WakeInv'
    BY <1>6 DEF ThreadLock, Goto, NoThrChange, WakeInv, ThreadInv
  <2>6. JobShape'
    BY <1>6
    DEF ThreadLock, Goto, NoThrChange, JobShape, ThreadInv, PowerInv, JobRec
  <2>7. PowerInv'
    BY <1>6
    DEF ThreadLock, Goto, NoThrChange, PowerInv, JobShape, ThreadInv, JobRec
  <2>8. BusInv'
    BY <1>6
    DEF ThreadLock, Goto, NoThrChange, BusInv, JobShape, PowerInv,
        ThreadInv, JobRec
  <2> QED BY <2>1, <2>2, <2>3, <2>4, <2>5, <2>6, <2>7, <2>8
<1> QED BY <1>1, <1>2, <1>3, <1>4, <1>5, <1>6

(* What users do through sysfs and ioctls keeps the invariant.             *)
LEMMA UserSteps ==
  ASSUME SocketInv,
         SuspendCard \/ ResumeCard \/ EjectCard \/ InsertCard
         \/ ResetCard \/ RegisterPcmcia \/ UnregisterPcmcia
         \/ PmStateOff \/ PmStateOn
  PROVE  SocketInv'
<1> USE SocketAssumption
    DEF SocketInv, SocketTypes, hwVars, evVars, thrVars, busVars,
        lifeVars, Present, Suspended, NoJob, Job, Go
<1>1. CASE SuspendCard
  <2>1. FlagTypes' /\ PlaceTypes' /\ WakeInv'
    BY <1>1 DEF SuspendCard, FlagTypes, PlaceTypes, WakeInv
  <2>2. job' \in JobRec
    BY <1>1 DEF SuspendCard, CanLock, JobRec, Whos, Ops, Steps
  <2>3. CardTypes'
    BY <1>1 DEF SuspendCard, BusSuspend, CardTypes, Flags
  <2>4. ThreadInv'
    BY <1>1 DEF SuspendCard, CanLock, ThreadInv, JobShape, JobRec
  <2>5. JobShape'
    BY <1>1 DEF SuspendCard, CanLock, JobShape, ThreadInv, PowerInv, JobRec
  <2>6. PowerInv'
    BY <1>1 DEF SuspendCard, CanLock, PowerInv, JobShape, ThreadInv, JobRec
  <2>7. BusInv'
    BY <1>1
    DEF SuspendCard, CanLock, BusSuspend, BusInv, JobShape, PowerInv,
        ThreadInv, JobRec
  <2> QED BY <2>1, <2>2, <2>3, <2>4, <2>5, <2>6, <2>7
<1>2. CASE ResumeCard
  <2>1. CardTypes' /\ PlaceTypes' /\ WakeInv'
    BY <1>2 DEF ResumeCard, CardTypes, PlaceTypes, WakeInv
  <2>2. job' \in JobRec
    BY <1>2 DEF ResumeCard, CanLock, JobRec, Whos, Ops, Steps
  <2>3. FlagTypes'
    BY <1>2 DEF ResumeCard, CanLock, FlagTypes
  <2>4. ThreadInv'
    BY <1>2 DEF ResumeCard, CanLock, ThreadInv, JobShape, JobRec
  <2>5. JobShape'
    BY <1>2 DEF ResumeCard, CanLock, JobShape, ThreadInv, PowerInv, JobRec
  <2>6. PowerInv'
    BY <1>2 DEF ResumeCard, CanLock, PowerInv, JobShape, ThreadInv, JobRec
  <2>7. BusInv'
    BY <1>2
    DEF ResumeCard, CanLock, BusInv, JobShape, PowerInv, ThreadInv, JobRec
  <2> QED BY <2>1, <2>2, <2>3, <2>4, <2>5, <2>6, <2>7
<1>3. CASE EjectCard
  <2>1. CardTypes' /\ PlaceTypes' /\ WakeInv'
    BY <1>3 DEF EjectCard, CardTypes, PlaceTypes, WakeInv
  <2>2. job' \in JobRec
    BY <1>3 DEF EjectCard, CanLock, JobRec, Whos, Ops, Steps
  <2>3. FlagTypes'
    BY <1>3 DEF EjectCard, CanLock, FlagTypes
  <2>4. ThreadInv'
    BY <1>3 DEF EjectCard, CanLock, ThreadInv, JobShape, JobRec
  <2>5. JobShape'
    BY <1>3 DEF EjectCard, CanLock, JobShape, ThreadInv, PowerInv, JobRec
  <2>6. PowerInv'
    BY <1>3 DEF EjectCard, CanLock, PowerInv, JobShape, ThreadInv, JobRec
  <2>7. BusInv'
    BY <1>3
    DEF EjectCard, CanLock, BusInv, JobShape, PowerInv, ThreadInv, JobRec
  <2> QED BY <2>1, <2>2, <2>3, <2>4, <2>5, <2>6, <2>7
<1>4. CASE InsertCard
  <2>1. FlagTypes' /\ PlaceTypes' /\ WakeInv'
    BY <1>4 DEF InsertCard, FlagTypes, PlaceTypes, WakeInv
  <2>2. job' \in JobRec
    BY <1>4 DEF InsertCard, CanLock, StartInsert, JobRec, Whos, Ops, Steps
  <2>3. CardTypes'
    BY <1>4 DEF InsertCard, CanLock, StartInsert, CardTypes, Flags
  <2>4. ThreadInv'
    BY <1>4 DEF InsertCard, CanLock, StartInsert, ThreadInv, JobShape, JobRec
  <2>5. JobShape'
    BY <1>4
    DEF InsertCard, CanLock, StartInsert, JobShape, ThreadInv, PowerInv,
        JobRec
  <2>6. PowerInv'
    BY <1>4
    DEF InsertCard, CanLock, StartInsert, PowerInv, JobShape, ThreadInv,
        JobRec
  <2>7. BusInv'
    BY <1>4
    DEF InsertCard, CanLock, StartInsert, BusInv, JobShape, PowerInv,
        ThreadInv, JobRec
  <2> QED BY <2>1, <2>2, <2>3, <2>4, <2>5, <2>6, <2>7
<1>5. CASE ResetCard
  <2>1. FlagTypes' /\ PlaceTypes' /\ WakeInv'
    BY <1>5 DEF ResetCard, FlagTypes, PlaceTypes, WakeInv
  <2>2. job' \in JobRec
    BY <1>5 DEF ResetCard, CanLock, BusSuspend, JobRec, Whos, Ops, Steps
  <2>3. CardTypes'
    BY <1>5 DEF ResetCard, CanLock, BusSuspend, CardTypes, Flags
  <2>4. ThreadInv'
    BY <1>5 DEF ResetCard, CanLock, BusSuspend, ThreadInv, JobShape, JobRec
  <2>5. JobShape'
    BY <1>5
    DEF ResetCard, CanLock, BusSuspend, JobShape, ThreadInv, PowerInv,
        JobRec
  <2>6. PowerInv'
    BY <1>5
    DEF ResetCard, CanLock, BusSuspend, PowerInv, JobShape, ThreadInv,
        JobRec
  <2>7. BusInv'
    BY <1>5
    DEF ResetCard, CanLock, BusSuspend, BusInv, JobShape, PowerInv,
        ThreadInv, JobRec
  <2> QED BY <2>1, <2>2, <2>3, <2>4, <2>5, <2>6, <2>7
<1>6. CASE RegisterPcmcia
  <2>1. job' \in JobRec /\ PlaceTypes' /\ ThreadInv' /\ WakeInv' /\
        JobShape' /\ PowerInv'
    BY <1>6
    DEF RegisterPcmcia, PlaceTypes, ThreadInv, WakeInv, JobShape, PowerInv
  <2>2. CardTypes'
    BY <1>6 DEF RegisterPcmcia, CanLock, Insertion, ReadCis, CardTypes, Flags
  <2>3. FlagTypes'
    BY <1>6 DEF RegisterPcmcia, CanLock, Insertion, ReadCis, FlagTypes
  <2>4. BusInv'
    BY <1>6
    DEF RegisterPcmcia, CanLock, Insertion, ReadCis, BusInv, JobShape,
        PowerInv, ThreadInv, JobRec
  <2> QED BY <2>1, <2>2, <2>3, <2>4
<1>7. CASE UnregisterPcmcia
  <2>1. job' \in JobRec /\ CardTypes' /\ PlaceTypes' /\ ThreadInv' /\
        WakeInv' /\ JobShape' /\ PowerInv'
    BY <1>7
    DEF UnregisterPcmcia, CardTypes, PlaceTypes, ThreadInv, WakeInv,
        JobShape, PowerInv
  <2>2. FlagTypes'
    BY <1>7 DEF UnregisterPcmcia, CanLock, FlagTypes
  <2>3. BusInv'
    BY <1>7
    DEF UnregisterPcmcia, CanLock, BusInv, JobShape, PowerInv, ThreadInv,
        JobRec
  <2> QED BY <2>1, <2>2, <2>3
<1>8. CASE PmStateOff \/ PmStateOn
  <2>1. job' \in JobRec /\ FlagTypes' /\ PlaceTypes' /\ ThreadInv' /\
        WakeInv' /\ JobShape' /\ PowerInv'
    BY <1>8
    DEF PmStateOff, PmStateOn, FlagTypes, PlaceTypes, ThreadInv, WakeInv,
        JobShape, PowerInv
  <2>2. CardTypes'
    BY <1>8 DEF PmStateOff, PmStateOn, CardTypes
  <2>3. BusInv'
    BY <1>8 DEF PmStateOff, PmStateOn, BusInv
  <2> QED BY <2>1, <2>2, <2>3
<1> QED BY <1>1, <1>2, <1>3, <1>4, <1>5, <1>6, <1>7, <1>8

(* Sleep and waking of the machine keep the invariant.                     *)
LEMMA SystemSteps ==
  ASSUME SocketInv,
         SystemSuspend \/ SystemResume \/ Thaw
  PROVE  SocketInv'
<1> USE SocketAssumption
    DEF SocketInv, SocketTypes, hwVars, evVars, thrVars, busVars,
        lifeVars, Present, Suspended, NoJob, Job, Go
<1>1. CASE SystemSuspend
  <2>1. job' \in JobRec
    BY <1>1 DEF SystemSuspend
  <2>2. CardTypes'
    BY <1>1 DEF SystemSuspend, SocketSuspend, CardTypes, Flags
  <2>3. FlagTypes'
    BY <1>1 DEF SystemSuspend, SocketSuspend, FlagTypes
  <2>4. PlaceTypes'
    BY <1>1 DEF SystemSuspend, SocketSuspend, PlaceTypes, Places
  <2>5. ThreadInv'
    BY <1>1 DEF SystemSuspend, SocketSuspend, ThreadInv, JobShape, JobRec
  <2>6. WakeInv'
    BY <1>1 DEF SystemSuspend, SocketSuspend, WakeInv, ThreadInv
  <2>7. JobShape'
    BY <1>1
    DEF SystemSuspend, SocketSuspend, JobShape, ThreadInv, PowerInv, JobRec
  <2>8. PowerInv'
    BY <1>1
    DEF SystemSuspend, SocketSuspend, PowerInv, JobShape, ThreadInv, JobRec
  <2>9. BusInv'
    BY <1>1
    DEF SystemSuspend, SocketSuspend, BusInv, JobShape, PowerInv, ThreadInv,
        JobRec
  <2> QED BY <2>1, <2>2, <2>3, <2>4, <2>5, <2>6, <2>7, <2>8, <2>9
<1>2. CASE SystemResume
  <2>1. WakeInv'
    BY <1>2 DEF SystemResume, WakeInv
  <2>2. job' \in JobRec
    BY <1>2 DEF SystemResume, StartInsert, JobRec, Whos, Ops, Steps
  <2>3. CardTypes'
    BY <1>2 DEF SystemResume, StartInsert, CardTypes, Flags
  <2>4. FlagTypes'
    BY <1>2 DEF SystemResume, StartInsert, FlagTypes
  <2>5. PlaceTypes'
    BY <1>2 DEF SystemResume, StartInsert, PlaceTypes, Places
  <2>6. ThreadInv'
    BY <1>2 DEF SystemResume, StartInsert, ThreadInv, JobShape, JobRec
  <2>7. JobShape'
    BY <1>2
    DEF SystemResume, StartInsert, JobShape, ThreadInv, PowerInv, JobRec
  <2>8. PowerInv'
    BY <1>2
    DEF SystemResume, StartInsert, PowerInv, JobShape, ThreadInv, JobRec
  <2>9. BusInv'
    BY <1>2
    DEF SystemResume, StartInsert, BusInv, JobShape, PowerInv, ThreadInv,
        JobRec
  <2> QED BY <2>1, <2>2, <2>3, <2>4, <2>5, <2>6, <2>7, <2>8, <2>9
<1>3. CASE Thaw
  <2>1. job' \in JobRec /\ FlagTypes'
    BY <1>3 DEF Thaw, FlagTypes
  <2>2. CardTypes'
    BY <1>3 DEF Thaw, CardTypes, Flags
  <2>3. PlaceTypes'
    BY <1>3 DEF Thaw, PlaceTypes, Places
  <2>4. ThreadInv'
    BY <1>3 DEF Thaw, ThreadInv, JobShape, JobRec
  <2>5. WakeInv'
    BY <1>3 DEF Thaw, WakeInv, ThreadInv
  <2>6. JobShape'
    BY <1>3 DEF Thaw, JobShape, ThreadInv, PowerInv, JobRec
  <2>7. PowerInv'
    BY <1>3 DEF Thaw, PowerInv, JobShape, ThreadInv, JobRec
  <2>8. BusInv'
    BY <1>3 DEF Thaw, BusInv, JobShape, PowerInv, ThreadInv, JobRec
  <2> QED BY <2>1, <2>2, <2>3, <2>4, <2>5, <2>6, <2>7, <2>8
<1> QED BY <1>1, <1>2, <1>3

(* Loading and unloading the bridge keep the invariant.                    *)
LEMMA ModuleSteps ==
  ASSUME SocketInv,
         Load \/ RegisterDone \/ Unload \/ UnloadDone
  PROVE  SocketInv'
<1> USE SocketAssumption
    DEF SocketInv, SocketTypes, hwVars, evVars, thrVars, busVars,
        lifeVars, Present, Suspended, NoJob, Job, Go
<1>1. CASE Load
  <2>1. job' \in JobRec
    BY <1>1 DEF Load
  <2>2. CardTypes'
    BY <1>1 DEF Load, CardTypes, Flags
  <2>3. FlagTypes'
    BY <1>1 DEF Load, FlagTypes
  <2>4. PlaceTypes'
    BY <1>1 DEF Load, PlaceTypes, Places
  <2>5. ThreadInv'
    BY <1>1 DEF Load, ThreadInv, JobShape, JobRec
  <2>6. WakeInv'
    BY <1>1 DEF Load, WakeInv, ThreadInv
  <2>7. JobShape'
    BY <1>1 DEF Load, JobShape, ThreadInv, PowerInv, JobRec
  <2>8. PowerInv'
    BY <1>1 DEF Load, PowerInv, JobShape, ThreadInv, JobRec
  <2>9. BusInv'
    BY <1>1 DEF Load, BusInv, JobShape, PowerInv, ThreadInv, JobRec
  <2> QED BY <2>1, <2>2, <2>3, <2>4, <2>5, <2>6, <2>7, <2>8, <2>9
<1>2. CASE RegisterDone
  <2>1. job' \in JobRec /\ CardTypes' /\ BusInv'
    BY <1>2 DEF RegisterDone, ParseEvents, CardTypes, BusInv
  <2>2. FlagTypes'
    BY <1>2 DEF RegisterDone, ParseEvents, FlagTypes
  <2>3. PlaceTypes'
    BY <1>2 DEF RegisterDone, ParseEvents, PlaceTypes, Places
  <2>4. ThreadInv'
    BY <1>2 DEF RegisterDone, ParseEvents, ThreadInv, JobShape, JobRec
  <2>5. WakeInv'
    BY <1>2 DEF RegisterDone, ParseEvents, WakeInv, ThreadInv
  <2>6. JobShape'
    BY <1>2
    DEF RegisterDone, ParseEvents, JobShape, ThreadInv, PowerInv, JobRec
  <2>7. PowerInv'
    BY <1>2
    DEF RegisterDone, ParseEvents, PowerInv, JobShape, ThreadInv, JobRec
  <2> QED BY <2>1, <2>2, <2>3, <2>4, <2>5, <2>6, <2>7
<1>3. CASE Unload
  <2>1. job' \in JobRec /\ CardTypes' /\ BusInv'
    BY <1>3 DEF Unload, CardTypes, BusInv
  <2>2. FlagTypes'
    BY <1>3 DEF Unload, FlagTypes
  <2>3. PlaceTypes'
    BY <1>3 DEF Unload, PlaceTypes, Places
  <2>4. ThreadInv'
    BY <1>3 DEF Unload, ThreadInv, JobShape, JobRec
  <2>5. WakeInv'
    BY <1>3 DEF Unload, WakeInv, ThreadInv
  <2>6. JobShape'
    BY <1>3 DEF Unload, JobShape, ThreadInv, PowerInv, JobRec, Ops
  <2>7. PowerInv'
    BY <1>3
    DEF Unload, PowerInv, JobShape, ThreadInv, JobRec, CardTypes, Flags,
        Ops, PlaceTypes
  <2> QED BY <2>1, <2>2, <2>3, <2>4, <2>5, <2>6, <2>7
<1>4. CASE UnloadDone
  <2>1. job' \in JobRec /\ CardTypes' /\ BusInv'
    BY <1>4 DEF UnloadDone, CardTypes, BusInv
  <2>2. FlagTypes'
    BY <1>4 DEF UnloadDone, FlagTypes
  <2>3. PlaceTypes'
    BY <1>4 DEF UnloadDone, PlaceTypes, Places
  <2>4. ThreadInv'
    BY <1>4 DEF UnloadDone, ThreadInv, JobShape, JobRec
  <2>5. WakeInv'
    BY <1>4 DEF UnloadDone, WakeInv, ThreadInv
  <2>6. JobShape'
    BY <1>4 DEF UnloadDone, JobShape, ThreadInv, PowerInv, JobRec
  <2>7. PowerInv'
    BY <1>4 DEF UnloadDone, PowerInv, JobShape, ThreadInv, JobRec
  <2> QED BY <2>1, <2>2, <2>3, <2>4, <2>5, <2>6, <2>7
<1> QED BY <1>1, <1>2, <1>3, <1>4

(* Every step keeps the invariant.                                         *)
LEMMA SocketNext == SocketInv /\ [Next]_vars => SocketInv'
<1> SUFFICES ASSUME SocketInv, [Next]_vars PROVE SocketInv'
  OBVIOUS
<1>1. CASE Next
  BY <1>1, CardInStep, SlotSteps, JobSteps, ThreadSteps, UserSteps,
     SystemSteps, ModuleSteps DEF Next, JobStep, ThreadStep, User
<1>2. CASE UNCHANGED vars
  <2>1. SocketTypes'
    BY <1>2
    DEF vars, hwVars, thrVars, evVars, busVars, lifeVars, SocketInv,
        SocketTypes, CardTypes, FlagTypes, PlaceTypes
  <2>2. ThreadInv' /\ WakeInv' /\ JobShape'
    BY <1>2
    DEF vars, hwVars, thrVars, evVars, busVars, lifeVars, SocketInv,
        ThreadInv, WakeInv, JobShape
  <2>3. PowerInv' /\ BusInv'
    BY <1>2
    DEF vars, hwVars, thrVars, evVars, busVars, lifeVars, SocketInv,
        PowerInv, BusInv, Present, Suspended
  <2> QED BY <2>1, <2>2, <2>3 DEF SocketInv
<1> QED BY <1>1, <1>2

(* SocketInv holds in every reachable state of the socket, its thread, the *)
(* users and the power management.                                         *)
THEOREM SocketCorrect == Spec => []SocketInv
BY SocketInit, SocketNext, PTL DEF Spec

(* No event is lost between hd64461_interrupt() or pcmcia_unregister_      *)
(* socket() and pccardd(): a thread that sleeps has no event to handle and *)
(* has not been told to stop.                                              *)
THEOREM NoLostEventAlways == Spec => []NoLostEvent
<1>1. SocketInv => NoLostEvent
  BY DEF SocketInv, WakeInv, NoLostEvent
<1> QED BY <1>1, SocketCorrect, PTL

(* Between jobs the socket has power just when a card is present and not   *)
(* suspended, and holds its module just while a card is present: each      *)
(* error path of socket_insert(), socket_resume() and socket_reset() undoes*)
(* what was done.                                                          *)
THEOREM BalancedAlways == Spec => []Balanced
<1>1. SocketInv => Balanced
  BY DEF SocketInv, JobShape, PowerInv, Balanced, NoJob
<1> QED BY <1>1, SocketCorrect, PTL

-----------------------------------------------------------------------------
(* The drivers of the card.                                                *)

(* What a step does to the power and the devices is a step of PcmciaCard,  *)
(* or nothing.                                                             *)
CardStep == [Card!Next]_(Card!cardVars)

(* Neither the slot nor the interrupt touches the drivers.                 *)
LEMMA SlotStepsCard ==
  ASSUME SocketInv,
         CardOut \/ Interrupt
  PROVE  CardStep
<1> USE DEF hwVars, busVars, CardStep, Card!cardVars
<1>1. CASE CardOut
  BY <1>1 DEF CardOut
<1>2. CASE Interrupt
  BY <1>2 DEF Interrupt, ParseEvents
<1> QED BY <1>1, <1>2

(* A job powers a socket without devices, makes devices with power, and    *)
(* switches power off when they are gone.                                  *)
LEMMA JobStepsCard ==
  ASSUME SocketInv,
         DetectChange \/ SetupDetect \/ SetupPower \/ ResetReady
         \/ ResetFails \/ Tell \/ VerifySame \/ VerifyDiffers
         \/ TellAgain \/ ShutdownDrivers \/ ShutdownSocket
         \/ SuspendSocket
  PROVE  CardStep
<1> USE SocketAssumption
    DEF SocketInv, SocketTypes, hwVars, evVars, thrVars, busVars, lifeVars,
        Present, Suspended, NoJob, Job, Go, CardStep, Card!Next,
        Card!PowerOn, Card!PowerOff, Card!Insert, Card!Remove, Card!Suspend,
        Card!Resume, Card!UserWakes, Card!cardVars, JobRec, JobShape, PowerInv, BusInv,
        CardTypes, FlagTypes, ThreadInv
<1>1. CASE DetectChange
  BY <1>1 DEF DetectChange, At, StartInsert, Unlock
<1>2. CASE SetupDetect
  BY <1>2 DEF SetupDetect, At, Fail, Unlock
<1>3. CASE SetupPower
  BY <1>3 DEF SetupPower, At, Fail, Unlock
<1>4. CASE ResetReady
  BY <1>4, ResetReadyCases DEF BusResume, Unlock
<1>5. CASE ResetFails
  BY <1>5 DEF ResetFails, At, Fail, Unlock
<1>6. CASE Tell
  BY <1>6 DEF Tell, At, Insertion, Unlock, ReadCis
<1>7. CASE VerifySame
  BY <1>7 DEF VerifySame, At, BusResume, EndResume, Unlock
<1>8. CASE VerifyDiffers
  BY <1>8 DEF VerifyDiffers, At, Removal
<1>9. CASE TellAgain
  BY <1>9 DEF TellAgain, At, Insertion, EndResume, ReadCis, Unlock
<1>10. CASE ShutdownDrivers
  BY <1>10 DEF ShutdownDrivers, At, Removal
<1>11. CASE ShutdownSocket
  BY <1>11 DEF ShutdownSocket, At, Unlock
<1>12. CASE SuspendSocket
  BY <1>12 DEF SuspendSocket, SocketSuspend, At, Unlock
<1> QED BY <1>1, <1>2, <1>3, <1>4, <1>5, <1>6, <1>7, <1>8, <1>9, <1>10,
           <1>11, <1>12

(* The thread finds an unpowered socket when it starts.                    *)
LEMMA ThreadStepsCard ==
  ASSUME SocketInv,
         ThreadStart \/ ThreadTop \/ ThreadTake \/ ThreadTest
         \/ ThreadWake \/ ThreadLock
  PROVE  CardStep
<1> USE DEF SocketInv, SocketTypes, FlagTypes, JobShape, PowerInv, Present,
        hwVars, busVars, NoJob, CardStep, Card!cardVars
<1>1. CASE ThreadStart
  BY <1>1 DEF ThreadStart, Goto
<1>2. CASE ThreadTop
  BY <1>2 DEF ThreadTop, Goto, NoThrChange
<1>3. CASE ThreadTake
  BY <1>3 DEF ThreadTake, Goto, NoThrChange
<1>4. CASE ThreadTest
  BY <1>4 DEF ThreadTest, Goto, NoThrChange
<1>5. CASE ThreadWake
  BY <1>5 DEF ThreadWake, Goto, NoThrChange
<1>6. CASE ThreadLock
  BY <1>6 DEF ThreadLock, Goto, NoThrChange
<1> QED BY <1>1, <1>2, <1>3, <1>4, <1>5, <1>6

(* Users suspend the devices before the power goes, register a bus driver  *)
(* that finds the CIS of a powered card or junk, and wake the devices      *)
(* themselves, with power or without it.                                   *)
LEMMA UserStepsCard ==
  ASSUME SocketInv,
         SuspendCard \/ ResumeCard \/ EjectCard \/ InsertCard
         \/ ResetCard \/ RegisterPcmcia \/ UnregisterPcmcia
         \/ PmStateOff \/ PmStateOn
  PROVE  CardStep
<1> USE SocketAssumption
    DEF SocketInv, SocketTypes, hwVars, evVars, thrVars, busVars, lifeVars,
        Present, Suspended, NoJob, Job, Go, CardStep, Card!Next,
        Card!PowerOn, Card!PowerOff, Card!Insert, Card!Remove, Card!Suspend,
        Card!Resume, Card!UserWakes, Card!cardVars, JobRec, JobShape, PowerInv, BusInv,
        CardTypes, FlagTypes, ThreadInv
<1>1. CASE SuspendCard
  BY <1>1 DEF SuspendCard, CanLock, BusSuspend
<1>2. CASE ResumeCard
  BY <1>2 DEF ResumeCard, CanLock
<1>3. CASE EjectCard
  BY <1>3 DEF EjectCard, CanLock
<1>4. CASE InsertCard
  BY <1>4 DEF InsertCard, CanLock, StartInsert
<1>5. CASE ResetCard
  BY <1>5 DEF ResetCard, CanLock, BusSuspend
<1>6. CASE RegisterPcmcia
  BY <1>6 DEF RegisterPcmcia, CanLock, Insertion, ReadCis
<1>7. CASE UnregisterPcmcia
  BY <1>7 DEF UnregisterPcmcia, CanLock
<1>8. CASE PmStateOff
  BY <1>8 DEF PmStateOff
<1>9. CASE PmStateOn
  BY <1>9 DEF PmStateOn
<1> QED BY <1>1, <1>2, <1>3, <1>4, <1>5, <1>6, <1>7, <1>8, <1>9

(* The devices sleep before the socket does, and wake after it has its     *)
(* power again.                                                            *)
LEMMA SystemStepsCard ==
  ASSUME SocketInv,
         SystemSuspend \/ SystemResume \/ Thaw
  PROVE  CardStep
<1> USE SocketAssumption
    DEF SocketInv, SocketTypes, hwVars, evVars, thrVars, busVars, lifeVars,
        Present, Suspended, NoJob, Job, Go, CardStep, Card!Next,
        Card!PowerOn, Card!PowerOff, Card!Insert, Card!Remove, Card!Suspend,
        Card!Resume, Card!UserWakes, Card!cardVars, JobRec, JobShape, PowerInv, BusInv,
        CardTypes, FlagTypes, ThreadInv
<1>1. CASE SystemSuspend
  <2>1. dev' = dev /\ (vcc' = vcc \/ vcc' = FALSE)
    BY <1>1 DEF SystemSuspend, SocketSuspend
  <2>2. CASE dev # None /\ devpm # "off"
    <3>1. devpm' = "sleeping"
      BY <1>1, <2>2 DEF SystemSuspend
    <3>2. vcc' \in {vcc, FALSE}
      BY <2>1, Zenon
    <3>3. (devpm' \in {"on", "woken"}) = FALSE /\ (devpm' = "woken") = FALSE
      BY <3>1
    <3>4. Card!Suspend
      BY <2>1, <2>2, <3>2, <3>3, Zenon
    <3> QED BY <3>4
  <2>3. CASE dev = None \/ devpm = "off"
    <3>1. devpm' = devpm
      BY <1>1, <2>3 DEF SystemSuspend
    <3> QED BY <2>1, <2>3, <3>1
  <2> QED BY <2>2, <2>3
<1>2. CASE SystemResume
  BY <1>2 DEF SystemResume, StartInsert
<1>3. CASE Thaw
  BY <1>3 DEF Thaw
<1> QED BY <1>1, <1>2, <1>3

(* The bridge comes and goes without power.                                *)
LEMMA ModuleStepsCard ==
  ASSUME SocketInv,
         Load \/ RegisterDone \/ Unload \/ UnloadDone
  PROVE  CardStep
<1> USE DEF SocketInv, SocketTypes, FlagTypes, JobShape, PowerInv, Present,
        hwVars, busVars, NoJob, CardStep, Card!cardVars
<1>1. CASE Load
  BY <1>1 DEF Load
<1>2. CASE RegisterDone
  BY <1>2 DEF RegisterDone, ParseEvents
<1>3. CASE Unload
  BY <1>3 DEF Unload
<1>4. CASE UnloadDone
  BY <1>4 DEF UnloadDone
<1> QED BY <1>1, <1>2, <1>3, <1>4

(* Under the invariant every step is a step of the drivers.                *)
LEMMA CardNext == SocketInv /\ [Next]_vars => CardStep
<1> SUFFICES ASSUME SocketInv, [Next]_vars PROVE CardStep
  OBVIOUS
<1>1. ASSUME NEW c \in Cards, CardIn(c) PROVE CardStep
  BY <1>1 DEF CardIn, CardStep, busVars, Card!cardVars
<1>2. CASE Next
  BY <1>1, <1>2, SlotStepsCard, JobStepsCard, ThreadStepsCard, UserStepsCard,
     SystemStepsCard, ModuleStepsCard DEF Next, JobStep, ThreadStep, User
<1>3. CASE UNCHANGED vars
  BY <1>3 DEF vars, busVars, CardStep, Card!cardVars
<1> QED BY <1>2, <1>3

(* The socket implements PcmciaCard: in every interleaving of the thread,  *)
(* users and power management, with cards exchanged at any time and writes *)
(* to pm_state in the middle of any job, devices appear for a card with    *)
(* power only, and lose it only when they are gone, suspended, or woken by *)
(* a user after the core had suspended them.                               *)
THEOREM CardRefinement == Spec => ImplementsCard
<1>1. Init => Card!Init
  BY DEF Init, Card!Init
<1>2. SocketInv /\ [Next]_vars => [Card!Next]_(Card!cardVars)
  BY CardNext DEF CardStep
<1> QED BY <1>1, <1>2, SocketCorrect, PTL DEF Spec, ImplementsCard, Card!Spec

(* A driver's device has power while it is awake, through every failing    *)
(* reset, sleep and exchange of cards, unless a user woke it through       *)
(* pm_state when the core had suspended it.                                *)
THEOREM AwakeHasPowerAlways == Spec => []Card!AwakeHasPower
<1> USE DEF Card!AwakeHasPower
<1>1. Card!Init => Card!AwakeHasPower
  BY DEF Card!Init
<1>2. Card!AwakeHasPower /\ [Card!Next]_(Card!cardVars)
        => Card!AwakeHasPower'
  BY DEF Card!Next, Card!PowerOn, Card!PowerOff, Card!Insert, Card!Remove,
         Card!Suspend, Card!Resume, Card!UserWakes, Card!cardVars
<1> QED BY <1>1, <1>2, CardRefinement, PTL DEF ImplementsCard, Card!Spec

-----------------------------------------------------------------------------
(* The slot.                                                               *)

(* Somebody has yet to look at the slot.                                   *)
Attention == cdc \/ events \/ pc = "lock" \/ job.at = "look"

(* While a card is not exchanged unseen: a card that left, or one that came*)
(* in, has somebody's attention, unless the running job deals with it; and *)
(* the devices are those of the card in the slot until the socket sleeps.  *)
SlotInv ==
  /\ fresh => slot # None
  /\ Present /\ slot = None /\ (~Suspended \/ job.at \in {"verify", "again"})
       => Attention \/ job.at \in {"down", "off"}
  /\ fresh /\ ~Present /\ module = "in"
       => \/ Attention
          \/ /\ job.op = "insert"
             /\ job.at \in {"setup", "settle", "powered", "reset"}
  /\ job.op = "remove" => ~fresh
  /\ job.op = "resume" /\ job.at \in {"down", "off"} => ~fresh
  /\ dev # None /\ ~Suspended => slot \in {None, dev}

(* A card that is pushed in sets cdc; the last one's removal is over, or   *)
(* the socket is suspended and at rest.                                    *)
LEMMA CardInSlot ==
  ASSUME SocketInv, SlotInv, ~FastSwap, NEW c \in Cards, CardIn(c)
  PROVE  SlotInv'
BY SocketAssumption
DEF SocketInv, SocketTypes, CardTypes, JobShape, PowerInv, BusInv, SlotInv,
    Attention, CardIn, hwVars, evVars, thrVars, busVars, lifeVars, Present,
    Suspended, NoJob

(* A card that leaves sets cdc, and an interrupt that takes cdc sets the   *)
(* event.                                                                  *)
LEMMA SlotStepsSlot ==
  ASSUME SocketInv, SlotInv,
         CardOut \/ Interrupt
  PROVE  SlotInv'
<1> USE SocketAssumption
    DEF SocketInv, SocketTypes, hwVars, evVars, thrVars, busVars, lifeVars,
        Present, Suspended, NoJob, Job, Go, SlotInv, Attention, JobRec,
        JobShape, PowerInv, BusInv, CardTypes, PlaceTypes, ThreadInv,
        WakeInv
<1>1. CASE CardOut
  BY <1>1 DEF CardOut
<1>2. CASE Interrupt
  BY <1>2 DEF Interrupt, ParseEvents
<1> QED BY <1>1, <1>2

(* A job that ends has looked at the slot before, or the change since      *)
(* then has somebody's attention.                                          *)
LEMMA JobStepsSlot ==
  ASSUME SocketInv, SlotInv,
         DetectChange \/ SetupDetect \/ SetupPower \/ ResetReady
         \/ ResetFails \/ Tell \/ VerifySame \/ VerifyDiffers
         \/ TellAgain \/ ShutdownDrivers \/ ShutdownSocket
         \/ SuspendSocket
  PROVE  SlotInv'
<1> USE SocketAssumption
    DEF SocketInv, SocketTypes, hwVars, evVars, thrVars, busVars, lifeVars,
        Present, Suspended, NoJob, Job, Go, SlotInv, Attention, JobRec,
        JobShape, PowerInv, BusInv, CardTypes, PlaceTypes, ThreadInv,
        WakeInv
<1>1. CASE DetectChange
  BY <1>1 DEF DetectChange, At, StartInsert, Unlock
<1>2. CASE SetupDetect
  BY <1>2 DEF SetupDetect, At, Fail, Unlock
<1>3. CASE SetupPower
  BY <1>3 DEF SetupPower, At, Fail, Unlock
<1>4. CASE ResetReady
  BY <1>4, ResetReadyCases DEF BusResume, Unlock
<1>5. CASE ResetFails
  <2>1. fresh' => fresh /\ job.op = "reset"
    BY <1>5 DEF ResetFails
  <2>2. /\ At("reset") /\ Fail
        /\ UNCHANGED <<hwVars, vcc, state, cis, cb, evVars, busVars, lifeVars>>
    BY <1>5 DEF ResetFails
  <2> QED BY <2>1, <2>2 DEF At, Fail, Unlock
<1>6. CASE Tell
  BY <1>6 DEF Tell, At, Insertion, Unlock, ReadCis
<1>7. CASE VerifySame
  BY <1>7 DEF VerifySame, At, BusResume, EndResume, Unlock
<1>8. CASE VerifyDiffers
  BY <1>8 DEF VerifyDiffers, At, Removal
<1>9. CASE TellAgain
  BY <1>9 DEF TellAgain, At, Insertion, EndResume, ReadCis, Unlock
<1>10. CASE ShutdownDrivers
  BY <1>10 DEF ShutdownDrivers, At, Removal
<1>11. CASE ShutdownSocket
  BY <1>11 DEF ShutdownSocket, At, Unlock
<1>12. CASE SuspendSocket
  BY <1>12 DEF SuspendSocket, SocketSuspend, At, Unlock
<1> QED BY <1>1, <1>2, <1>3, <1>4, <1>5, <1>6, <1>7, <1>8, <1>9, <1>10,
           <1>11, <1>12

(* The thread drops an event only when it goes on to look at the slot, or  *)
(* when the socket is suspended.                                           *)
LEMMA ThreadStepsSlot ==
  ASSUME SocketInv, SlotInv,
         ThreadStart \/ ThreadTop \/ ThreadTake \/ ThreadTest
         \/ ThreadWake \/ ThreadLock
  PROVE  SlotInv'
<1> USE SocketAssumption
    DEF SocketInv, SocketTypes, hwVars, evVars, thrVars, busVars, lifeVars,
        Present, Suspended, NoJob, Job, Go, SlotInv, Attention, JobRec,
        JobShape, PowerInv, BusInv, CardTypes, PlaceTypes, ThreadInv,
        WakeInv
<1>1. CASE ThreadStart
  BY <1>1 DEF ThreadStart, Goto
<1>2. CASE ThreadTop
  BY <1>2 DEF ThreadTop, Goto, NoThrChange
<1>3. CASE ThreadTake
  BY <1>3 DEF ThreadTake, Goto, NoThrChange
<1>4. CASE ThreadTest
  BY <1>4 DEF ThreadTest, Goto, NoThrChange
<1>5. CASE ThreadWake
  BY <1>5 DEF ThreadWake, Goto, NoThrChange
<1>6. CASE ThreadLock
  BY <1>6 DEF ThreadLock, Goto, NoThrChange
<1> QED BY <1>1, <1>2, <1>3, <1>4, <1>5, <1>6

(* Users start from a slot that has been dealt with.                       *)
LEMMA UserStepsSlot ==
  ASSUME SocketInv, SlotInv,
         SuspendCard \/ ResumeCard \/ EjectCard \/ InsertCard
         \/ ResetCard \/ RegisterPcmcia \/ UnregisterPcmcia
         \/ PmStateOff \/ PmStateOn
  PROVE  SlotInv'
<1> USE SocketAssumption
    DEF SocketInv, SocketTypes, hwVars, evVars, thrVars, busVars, lifeVars,
        Present, Suspended, NoJob, Job, Go, SlotInv, Attention, JobRec,
        JobShape, PowerInv, BusInv, CardTypes, PlaceTypes, ThreadInv,
        WakeInv
<1>1. CASE SuspendCard
  BY <1>1 DEF SuspendCard, CanLock, BusSuspend
<1>2. CASE ResumeCard
  BY <1>2 DEF ResumeCard, CanLock
<1>3. CASE EjectCard
  BY <1>3 DEF EjectCard, CanLock
<1>4. CASE InsertCard
  BY <1>4 DEF InsertCard, CanLock, StartInsert
<1>5. CASE ResetCard
  BY <1>5 DEF ResetCard, CanLock, BusSuspend
<1>6. CASE RegisterPcmcia
  BY <1>6 DEF RegisterPcmcia, CanLock, Insertion, ReadCis
<1>7. CASE UnregisterPcmcia
  BY <1>7 DEF UnregisterPcmcia, CanLock
<1>8. CASE PmStateOff
  BY <1>8 DEF PmStateOff
<1>9. CASE PmStateOn
  BY <1>9 DEF PmStateOn
<1> QED BY <1>1, <1>2, <1>3, <1>4, <1>5, <1>6, <1>7, <1>8, <1>9

(* A sleeping system looks at the slot when it wakes.                      *)
LEMMA SystemStepsSlot ==
  ASSUME SocketInv, SlotInv,
         SystemSuspend \/ SystemResume \/ Thaw
  PROVE  SlotInv'
<1> USE SocketAssumption
    DEF SocketInv, SocketTypes, hwVars, evVars, thrVars, busVars, lifeVars,
        Present, Suspended, NoJob, Job, Go, SlotInv, Attention, JobRec,
        JobShape, PowerInv, BusInv, CardTypes, PlaceTypes, ThreadInv,
        WakeInv
<1>1. CASE SystemSuspend
  BY <1>1 DEF SystemSuspend, SocketSuspend
<1>2. CASE SystemResume
  BY <1>2 DEF SystemResume, StartInsert
<1>3. CASE Thaw
  BY <1>3 DEF Thaw
<1> QED BY <1>1, <1>2, <1>3

(* The slot is looked at when the bridge has been registered.              *)
LEMMA ModuleStepsSlot ==
  ASSUME SocketInv, SlotInv,
         Load \/ RegisterDone \/ Unload \/ UnloadDone
  PROVE  SlotInv'
<1> USE SocketAssumption
    DEF SocketInv, SocketTypes, hwVars, evVars, thrVars, busVars, lifeVars,
        Present, Suspended, NoJob, Job, Go, SlotInv, Attention, JobRec,
        JobShape, PowerInv, BusInv, CardTypes, PlaceTypes, ThreadInv,
        WakeInv
<1>1. CASE Load
  BY <1>1 DEF Load
<1>2. CASE RegisterDone
  BY <1>2 DEF RegisterDone, ParseEvents
<1>3. CASE Unload
  BY <1>3 DEF Unload
<1>4. CASE UnloadDone
  BY <1>4 DEF UnloadDone
<1> QED BY <1>1, <1>2, <1>3, <1>4

(* Once all is quiet the core is right about the slot, if no card is       *)
(* exchanged before socket_detect_change() has seen the last one leave.    *)
THEOREM SettledAlways ==
  ASSUME ~FastSwap
  PROVE  Spec => []Settled
<1>1. Init => SlotInv
  BY SocketAssumption DEF Init, SlotInv, Attention, NoJob, Present, Suspended
<1>2. SocketInv /\ SlotInv /\ [Next]_vars => SlotInv'
  <2> SUFFICES ASSUME SocketInv, SlotInv, [Next]_vars PROVE SlotInv'
    OBVIOUS
  <2>1. CASE Next
    BY <2>1, CardInSlot, SlotStepsSlot, JobStepsSlot, ThreadStepsSlot,
       UserStepsSlot, SystemStepsSlot, ModuleStepsSlot
    DEF Next, JobStep, ThreadStep, User
  <2>2. CASE UNCHANGED vars
    BY <2>2
    DEF vars, hwVars, thrVars, evVars, busVars, lifeVars, SlotInv,
        Attention, Present, Suspended
  <2> QED BY <2>1, <2>2
<1>3. SocketInv /\ SlotInv => Settled
  BY SocketAssumption
  DEF SocketInv, SocketTypes, CardTypes, WakeInv, JobShape, PowerInv,
      BusInv, SlotInv, Attention, Settled, NoJob, Present, Suspended
<1> QED BY <1>1, <1>2, <1>3, SocketCorrect, PTL DEF Spec
=============================================================================
