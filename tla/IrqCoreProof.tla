---------------------------- MODULE IrqCoreProof ----------------------------
(***************************************************************************)
(* One interrupt line is right for every number of CPUs and drivers, level *)
(* or edge, provided no driver requests the line while another one frees   *)
(* it (the run irq_free_race shows what happens otherwise).                *)
(***************************************************************************)
EXTENDS IrqCore, FiniteSetTheorems, TLAPS

-----------------------------------------------------------------------------
(* Type correctness. *)

(* Every step of a CPU or a driver keeps every variable in its type.        *)
LEMMA TypeStep == TypeOK /\ [Next]_vars => TypeOK'
<1> SUFFICES ASSUME TypeOK, [Next]_vars PROVE TypeOK'
  OBVIOUS
<1> USE IrqAssumption DEF TypeOK, DescTypeOK, desc, Flags, DrvPc, DisSet
<1>1. CASE Raise /\ UNCHANGED <<drv, dis>>
  BY <1>1 DEF Raise
<1>2. ASSUME NEW c \in CPUs, DoIRQ(c), UNCHANGED <<drv, dis>> PROVE TypeOK'
  <2>1. raised' \in BOOLEAN
    BY <1>2 DEF DoIRQ
  <2>2. masked' \in BOOLEAN
    BY <1>2 DEF DoIRQ, EndMasked, AckMasked
  <2>3. status' \subseteq {"INPROGRESS", "DISABLED", "PENDING", "REPLAY"}
    BY <1>2 DEF DoIRQ
  <2>4. /\ walk' \in [CPUs -> Drivers \cup {None}]
        /\ first' \in [CPUs -> Drivers \cup {None}]
    BY <1>2 DEF DoIRQ
  <2>5. ret' \in [CPUs -> BOOLEAN]
    BY <1>2 DEF DoIRQ
  <2> QED BY <1>2, <2>1, <2>2, <2>3, <2>4, <2>5 DEF DoIRQ
<1>3. ASSUME NEW c \in CPUs, NEW handled \in BOOLEAN, HandlerReturn(c, handled),
             UNCHANGED <<drv, dis>>
      PROVE  TypeOK'
  <2>1. raised' \in BOOLEAN
    BY <1>3 DEF HandlerReturn
  <2>2. (ret[c] \/ handled) \in BOOLEAN
    OBVIOUS
  <2>3. ret' \in [CPUs -> BOOLEAN]
    BY <1>3, <2>2 DEF HandlerReturn
  <2>4. walk' \in [CPUs -> Drivers \cup {None}]
    BY <1>3 DEF HandlerReturn
  <2> QED BY <1>3, <2>1, <2>3, <2>4 DEF HandlerReturn
<1>4. ASSUME NEW c \in CPUs, NEW handled \in BOOLEAN, LastReturn(c, handled),
             UNCHANGED <<drv, dis>>
      PROVE  TypeOK'
  <2> DEFINE served == ret[c] \/ handled
  <2>1. raised' \in BOOLEAN
    BY <1>4 DEF LastReturn
  <2>2. irq_count' \in 0 .. CountMax - 1 /\ irqs_unhandled' \in Nat
    <3>1. NoteInterrupt(served)
      BY <1>4 DEF LastReturn
    <3> QED BY <3>1 DEF NoteInterrupt, CountDue, Unhandled
  <2>3. masked' \in BOOLEAN
    BY <1>4 DEF LastReturn, EndIrq, EndMasked
  <2>4. /\ status' \subseteq {"INPROGRESS", "DISABLED", "PENDING", "REPLAY"}
        /\ walk' \in [CPUs -> Drivers \cup {None}]
    BY <1>4 DEF LastReturn, EndIrq
  <2>5. ret' \in [CPUs -> BOOLEAN]
    BY <1>4 DEF LastReturn
  <2> QED BY <1>4, <2>1, <2>2, <2>3, <2>4, <2>5 DEF LastReturn
<1>5. ASSUME NEW d \in Drivers, Driver(d) PROVE TypeOK'
  <2>1. CASE DisableNosync(d)
    BY <2>1 DEF DisableNosync, Disable
  <2>2. CASE DisableIrq(d)
    BY <2>2 DEF DisableIrq, Disable
  <2>3. CASE DisableSynced(d)
    BY <2>3 DEF DisableSynced, descVars, hw
  <2>4. CASE EnableIrq(d)
    <3>1. depth' \in Nat
      BY <2>4 DEF EnableIrq, Enable
    <3>2. status' \subseteq {"INPROGRESS", "DISABLED", "PENDING", "REPLAY"}
      BY <2>4 DEF EnableIrq, Enable
    <3>3. masked' \in BOOLEAN
      BY <2>4 DEF EnableIrq, Enable
    <3> QED BY <2>4, <3>1, <3>2, <3>3 DEF EnableIrq, Enable
  <2>5. CASE RequestIrq(d)
    <3>1. next' \in [Drivers -> Drivers \cup {None}]
      BY <2>5 DEF RequestIrq, Setup
    <3>2. action' \in Drivers \cup {None} /\ depth' \in Nat
      BY <2>5 DEF RequestIrq, Setup
    <3>3. status' \subseteq {"INPROGRESS", "DISABLED", "PENDING", "REPLAY"}
      BY <2>5 DEF RequestIrq, Setup
    <3>4. masked' \in BOOLEAN
      BY <2>5 DEF RequestIrq, Setup
    <3>5. /\ UNCHANGED <<handler, irq_count, irqs_unhandled, raised, walk, first, ret,
                         dis>>
          /\ drv' = [drv EXCEPT ![d] = "live"]
      BY <2>5 DEF RequestIrq, Setup
    <3> QED BY <3>1, <3>2, <3>3, <3>4, <3>5
  <2>6. CASE FreeIrq(d)
    <3>1. next' \in [Drivers -> Drivers \cup {None}]
      BY <2>6 DEF FreeIrq, Unlink
    <3>2. masked' \in BOOLEAN
      BY <2>6 DEF FreeIrq, Unlink
    <3>3. action' \in Drivers \cup {None}
      BY <2>6 DEF FreeIrq, Unlink
    <3>4. status' \subseteq {"INPROGRESS", "DISABLED", "PENDING", "REPLAY"}
      BY <2>6 DEF FreeIrq, Unlink
    <3>5. /\ UNCHANGED <<handler, depth, irq_count, irqs_unhandled, raised, walk,
                         first, ret, dis>>
          /\ drv' = [drv EXCEPT ![d] = "freeing"]
      BY <2>6 DEF FreeIrq, Unlink
    <3> QED BY <3>1, <3>2, <3>3, <3>4, <3>5
  <2>7. CASE FreeSynced(d)
    BY <2>7 DEF FreeSynced, descVars, hw
  <2>8. CASE FreeDone(d)
    BY <2>8 DEF FreeDone, descVars, hw
  <2> QED BY <1>5, <2>1, <2>2, <2>3, <2>4, <2>5, <2>6, <2>7, <2>8 DEF Driver
<1>6. CASE UNCHANGED vars
  BY <1>6 DEF vars, descVars, hw
<1> QED BY <1>1, <1>2, <1>3, <1>4, <1>5, <1>6 DEF Next, Return

(* A line nobody has is well typed.                                         *)
LEMMA IrqTypeInit == Init => TypeOK
<1>1. 0 \in 0 .. CountMax - 1
  BY IrqAssumption
<1>2. ASSUME DescInit PROVE DescTypeOK
  <2>1. status \subseteq Flags /\ masked \in BOOLEAN /\ raised \in BOOLEAN
    BY <1>2 DEF DescInit, Flags
  <2>2. /\ walk \in [CPUs -> Drivers \cup {None}]
        /\ first \in [CPUs -> Drivers \cup {None}]
        /\ next \in [Drivers -> Drivers \cup {None}]
        /\ ret \in [CPUs -> BOOLEAN]
    BY <1>2 DEF DescInit
  <2>3. /\ handler \in Controllers /\ action \in Drivers \cup {None}
        /\ depth \in Nat /\ irq_count \in 0 .. CountMax - 1 /\ irqs_unhandled \in Nat
    BY <1>1, <1>2 DEF DescInit
  <2> QED BY <2>1, <2>2, <2>3 DEF DescTypeOK
<1>3. Init => drv \in [Drivers -> DrvPc] /\ dis \in [Drivers -> DisSet]
  BY DEF Init, DrvPc, DisSet
<1> QED BY <1>2, <1>3 DEF TypeOK, Init

(* The types of the line and of the drivers' calls, also when drivers       *)
(* request while others free.                                               *)
THEOREM IrqTypeCorrect == Spec => []TypeOK
  BY IrqTypeInit, TypeStep, PTL DEF Spec

-----------------------------------------------------------------------------
(* The invariant. *)

Quiet == \A c \in CPUs : walk[c] = None

(* The set L is a list from head along nx, in the order of the ranks r.  An *)
(* order, and not reachability, is what appending and unlinking keep.       *)
IsList(L, head, nx, r) ==
  /\ head = None => L = {}
  /\ head # None => head \in L /\ \A d \in L : r[head] <= r[d]
  /\ \A d, e \in L : r[d] = r[e] => d = e
  /\ \A d \in L : nx[d] = None => \A e \in L : r[e] <= r[d]
  /\ \A d \in L : nx[d] # None =>
       /\ nx[d] \in L /\ r[d] < r[nx[d]]
       /\ \A e \in L : r[e] <= r[d] \/ r[nx[d]] <= r[e]

(* desc->action is the list of exactly the drivers that have the line.      *)
ListInv ==
  \E n \in Nat, r \in [Drivers -> Nat] :
    IsList(Listed, action, next, r) /\ \A d \in Listed : r[d] < n

(* What the CPU in the handlers can still come to, by action->next or by    *)
(* starting over, is on the list or being freed: nothing of it is gone.     *)
WalkInv ==
  ~Quiet => \E R \in SUBSET Drivers :
    /\ Listed \subseteq R
    /\ \A d \in R : /\ drv[d] \in {"live", "disabling", "freeing"}
                    /\ next[d] \in R \cup {None}
    /\ \A c \in CPUs : walk[c] # None => walk[c] \in R /\ first[c] \in R

(* IRQ_INPROGRESS is set just while a CPU is in the handlers; a line is     *)
(* masked only while it is disabled or, on a level controller, in progress; *)
(* and the handlers of a line without actions are being waited for.         *)
LineInv ==
  /\ "INPROGRESS" \in status <=> ~Quiet
  /\ HandlersExclusive
  /\ action = None => "DISABLED" \in status
  /\ masked => "DISABLED" \in status \/ ("INPROGRESS" \in status /\ AckMasks)
  /\ ~Quiet /\ action = None => \E d \in Drivers : drv[d] = "freeing"

Disablers == {d \in Drivers : dis[d] # "no"}

(* Only drivers that have the line disable it, and depth counts them.       *)
CallInv ==
  /\ Disablers \subseteq Listed /\ IsFiniteSet(Disablers)
  /\ \A d \in Drivers : drv[d] = "disabling" => dis[d] = "nosync"
  /\ DepthCounts /\ DisabledIsQuiet

IrqInv == TypeOK /\ ListInv /\ WalkInv /\ LineInv /\ CallInv

-----------------------------------------------------------------------------
(* The list of actions. *)

(* setup_irq() puts a new action at the end of the list, or makes it the    *)
(* list.                                                                    *)
LEMMA ListAppend ==
  ASSUME NEW L \in SUBSET Drivers, NEW head \in Drivers \cup {None},
         NEW nx \in [Drivers -> Drivers \cup {None}], NEW n \in Nat,
         NEW r \in [Drivers -> Nat], IsList(L, head, nx, r),
         \A e \in L : r[e] < n,
         NEW d \in Drivers \ L, NEW h \in Drivers,
         NEW my \in [Drivers -> Drivers \cup {None}],
         h = IF head = None THEN d ELSE head,
         my[d] = None,
         \A e \in L : my[e] = IF nx[e] = None THEN d ELSE nx[e]
  PROVE  IsList(L \cup {d}, h, my, [r EXCEPT ![d] = n])
<1> DEFINE q == [r EXCEPT ![d] = n]
           M == L \cup {d}
<1>1. /\ q \in [Drivers -> Nat] /\ q[d] = n /\ n + 1 \in Nat
      /\ \A e \in L : q[e] = r[e] /\ q[e] < n /\ e # d
  OBVIOUS
<1>2. None \notin Drivers
  BY IrqAssumption
<1>3. h # None /\ h \in M /\ \A e \in M : q[h] <= q[e]
  <2>1. CASE head = None
    BY <1>1, <1>2, <2>1 DEF IsList
  <2>2. CASE head # None
    BY <1>1, <1>2, <2>2 DEF IsList
  <2> QED BY <2>1, <2>2
<1>4. \A e, f \in M : q[e] = q[f] => e = f
  BY <1>1 DEF IsList
<1>5. \A e \in M : my[e] = None => \A f \in M : q[f] <= q[e]
  <2>1. \A e \in L : my[e] # None
    BY <1>2
  <2> QED BY <1>1, <2>1
<1>6. ASSUME NEW e \in M, my[e] # None
      PROVE  /\ my[e] \in M /\ q[e] < q[my[e]]
             /\ \A f \in M : q[f] <= q[e] \/ q[my[e]] <= q[f]
  <2>1. e \in L
    BY <1>6
  <2>2. CASE nx[e] = None
    BY <1>1, <2>1, <2>2 DEF IsList
  <2>3. CASE nx[e] # None
    <3>1. my[e] = nx[e] /\ nx[e] \in L /\ r[e] < r[nx[e]]
          /\ \A f \in L : r[f] <= r[e] \/ r[nx[e]] <= r[f]
      BY <2>1, <2>3 DEF IsList
    <3> QED BY <1>1, <2>1, <3>1
  <2> QED BY <2>2, <2>3
<1> HIDE DEF M, q
<1>7. IsList(M, h, my, q)
  BY <1>3, <1>4, <1>5, <1>6 DEF IsList
<1> QED BY <1>7 DEF M, q

(* free_irq() takes an action out of the list, wherever it is: what pointed *)
(* to it points to its successor.                                           *)
LEMMA ListRemove ==
  ASSUME NEW L \in SUBSET Drivers, NEW head \in Drivers \cup {None},
         NEW nx \in [Drivers -> Drivers \cup {None}],
         NEW r \in [Drivers -> Nat], IsList(L, head, nx, r), NEW d \in L,
         NEW h, h = IF head = d THEN nx[d] ELSE head,
         NEW my,
         \A e \in L : my[e] = IF nx[e] = d THEN nx[d] ELSE nx[e]
  PROVE  IsList(L \ {d}, h, my, r)
<1> DEFINE M == L \ {d}
<1>1. None \notin Drivers /\ \A e \in L : r[e] \in Nat /\ e # None
  BY IrqAssumption
<1>2. head # None /\ head \in L /\ \A e \in L : r[head] <= r[e]
  BY DEF IsList
<1>3. \A e, f \in L : r[e] = r[f] => e = f
  BY DEF IsList
<1>4. \A e \in L : nx[e] = None => \A f \in L : r[f] <= r[e]
  BY DEF IsList
<1>5. \A e \in L : nx[e] # None =>
         /\ nx[e] \in L /\ r[e] < r[nx[e]]
         /\ \A f \in L : r[f] <= r[e] \/ r[nx[e]] <= r[f]
  BY DEF IsList
<1>6. h = None => M = {}
  <2> SUFFICES ASSUME h = None, NEW e \in M PROVE FALSE
    OBVIOUS
  <2>1. head = d /\ nx[d] = None
    BY <1>2, <1>1
  <2>2. r[e] <= r[d] /\ r[d] <= r[e]
    BY <1>2, <1>4, <2>1
  <2> QED BY <1>1, <1>3, <2>2
<1>7. h # None => h \in M /\ \A e \in M : r[h] <= r[e]
  <2>1. CASE head = d
    BY <1>1, <1>2, <1>3, <1>5, <2>1
  <2>2. CASE head # d
    BY <1>1, <1>2, <2>2
  <2> QED BY <2>1, <2>2
<1>8. ASSUME NEW e \in M, my[e] = None, NEW f \in M PROVE r[f] <= r[e]
  <2>1. CASE nx[e] = d
    <3>1. r[f] <= r[d] /\ r[f] # r[d] /\ (r[f] <= r[e] \/ r[d] <= r[f])
      BY <1>1, <1>3, <1>4, <1>5, <1>8, <2>1
    <3> QED BY <1>1, <3>1
  <2>2. CASE nx[e] # d
    BY <1>4, <1>8, <2>2
  <2> QED BY <2>1, <2>2
<1>9. ASSUME NEW e \in M, my[e] # None
      PROVE  /\ my[e] \in M /\ r[e] < r[my[e]]
             /\ \A f \in M : r[f] <= r[e] \/ r[my[e]] <= r[f]
  <2>1. CASE nx[e] = d
    <3>1. /\ my[e] = nx[d] /\ nx[d] \in L /\ r[e] < r[d] /\ r[d] < r[nx[d]]
          /\ \A f \in L : r[f] <= r[e] \/ r[d] <= r[f]
          /\ \A f \in L : r[f] <= r[d] \/ r[nx[d]] <= r[f]
      BY <1>1, <1>5, <1>9, <2>1
    <3>2. nx[d] \in M /\ r[e] < r[nx[d]]
      BY <1>1, <3>1
    <3>3. ASSUME NEW f \in M PROVE r[f] <= r[e] \/ r[nx[d]] <= r[f]
      <4>1. r[f] # r[d]
        BY <1>3
      <4> QED BY <1>1, <3>1, <4>1
    <3> QED BY <3>1, <3>2, <3>3
  <2>2. CASE nx[e] # d
    BY <1>5, <1>9, <2>2
  <2> QED BY <2>1, <2>2
<1> QED BY <1>3, <1>6, <1>7, <1>8, <1>9 DEF IsList

(* The list is what it was where neither it nor the set of drivers that     *)
(* have the line changes.                                                   *)
LEMMA ListFrame ==
  ASSUME ListInv, UNCHANGED <<action, next>>, Listed' = Listed
  PROVE  ListInv'
  BY DEF ListInv, IsList

(* The drivers that have the line when d moves on.                          *)
LEMMA ListedMove ==
  ASSUME TypeOK, NEW d \in Drivers, NEW v \in DrvPc,
         drv' = [drv EXCEPT ![d] = v]
  PROVE  Listed' = IF v \in {"live", "disabling"} THEN Listed \cup {d}
                                                  ELSE Listed \ {d}
<1>1. \A e \in Drivers : drv'[e] = IF e = d THEN v ELSE drv[e]
  BY DEF TypeOK
<1> QED BY <1>1 DEF Listed

(* Every step keeps the list.                                               *)
LEMMA ListStep == TypeOK /\ ListInv /\ [Next]_vars => ListInv'
<1> SUFFICES ASSUME TypeOK, ListInv, [Next]_vars PROVE ListInv'
  OBVIOUS
<1> USE DEF desc
<1>1. CASE (Raise \/ \E c \in CPUs : DoIRQ(c) \/ Return(c)) /\ UNCHANGED <<drv, dis>>
  <2>1. UNCHANGED <<action, next>>
    BY <1>1 DEF Raise, DoIRQ, Return, HandlerReturn, LastReturn
  <2>2. Listed' = Listed
    BY <1>1 DEF Listed
  <2> QED BY <2>1, <2>2, ListFrame
<1>2. ASSUME NEW d \in Drivers, Driver(d) PROVE ListInv'
  <2> USE DEF DrvPc
  <2>1. CASE DisableNosync(d) \/ EnableIrq(d)
    <3>1. UNCHANGED <<action, next, drv>>
      BY <2>1 DEF DisableNosync, EnableIrq, Disable, Enable
    <3>2. Listed' = Listed
      BY <3>1 DEF Listed
    <3> QED BY <3>1, <3>2, ListFrame
  <2>2. CASE DisableIrq(d) \/ DisableSynced(d)
    <3>1. /\ UNCHANGED <<action, next>> /\ d \in Listed
          /\ \E v \in {"live", "disabling"} : drv' = [drv EXCEPT ![d] = v]
      BY <2>2 DEF DisableIrq, DisableSynced, Disable, descVars, Listed
    <3>2. Listed' = Listed
      <4>1. PICK v \in {"live", "disabling"} : drv' = [drv EXCEPT ![d] = v]
        BY <3>1
      <4>2. Listed' = Listed \cup {d}
        BY <4>1, ListedMove
      <4> QED BY <3>1, <4>2
    <3> QED BY <3>1, <3>2, ListFrame
  <2>3. CASE FreeSynced(d) \/ FreeDone(d)
    <3>1. /\ UNCHANGED <<action, next>> /\ d \notin Listed
          /\ \E v \in {"kfree", "absent"} : drv' = [drv EXCEPT ![d] = v]
      BY <2>3 DEF FreeSynced, FreeDone, descVars, Listed
    <3>2. Listed' = Listed
      <4>1. PICK v \in {"kfree", "absent"} : drv' = [drv EXCEPT ![d] = v]
        BY <3>1
      <4>2. Listed' = Listed \ {d}
        BY <4>1, ListedMove
      <4> QED BY <3>1, <4>2
    <3> QED BY <3>1, <3>2, ListFrame
  <2>4. PICK n \in Nat, r \in [Drivers -> Nat] :
          IsList(Listed, action, next, r) /\ \A e \in Listed : r[e] < n
    BY DEF ListInv
  <2>5. /\ Listed \in SUBSET Drivers /\ action \in Drivers \cup {None}
        /\ next \in [Drivers -> Drivers \cup {None}]
        /\ None \notin Drivers
    BY IrqAssumption DEF TypeOK, DescTypeOK, Listed
  <2>6. TypeOK'
    BY TypeStep
  <2>7. next' \in [Drivers -> Drivers \cup {None}]
    BY <2>6 DEF TypeOK, DescTypeOK
  <2>8. CASE RequestIrq(d)
    <3>1. d \notin Listed /\ Listed' = Listed \cup {d}
      BY <2>8, ListedMove DEF RequestIrq, Listed
    <3>2. action' = (IF action = None THEN d ELSE action) /\ action' \in Drivers
      BY <2>5, <2>8 DEF RequestIrq, Setup
    <3>3. next'[d] = None
      BY <2>5, <2>8 DEF RequestIrq, Setup
    <3>4. \A e \in Listed : next'[e] = IF next[e] = None THEN d ELSE next[e]
      <4>1. CASE action = None
        BY <2>4, <4>1 DEF IsList
      <4>2. CASE action # None
        <5>1. next' = [e \in Drivers |-> IF e = d THEN None
                         ELSE IF e \in Listed /\ next[e] = None THEN d ELSE next[e]]
          BY <2>8, <4>2 DEF RequestIrq, Setup
        <5> QED BY <2>5, <3>1, <5>1
      <4> QED BY <4>1, <4>2
    <3> DEFINE q == [r EXCEPT ![d] = n]
    <3>5. IsList(Listed \cup {d}, action', next', q)
      <4>1. d \in Drivers \ Listed
        BY <3>1
      <4> QED BY <2>4, <2>5, <2>7, <3>2, <3>3, <3>4, <4>1, ListAppend
    <3>6. q \in [Drivers -> Nat] /\ \A e \in Listed' : q[e] < n + 1
      BY <2>4, <2>5, <3>1
    <3>7. \A e \in Drivers : q[e] \in Nat /\ n + 1 \in Nat
      BY <3>6
    <3> HIDE DEF q
    <3> QED BY <3>1, <3>5, <3>6, <3>7 DEF ListInv, IsList
  <2>9. CASE FreeIrq(d)
    <3>1. d \in Listed /\ Listed' = Listed \ {d}
      BY <2>9, ListedMove DEF FreeIrq, Listed
    <3>2. action' = IF action = d THEN next[d] ELSE action
      BY <2>9 DEF FreeIrq, Unlink
    <3>3. \A e \in Listed : next'[e] = IF next[e] = d THEN next[d] ELSE next[e]
      <4>1. next' = [e \in Drivers |-> IF e \in Listed /\ next[e] = d THEN next[d]
                                                                  ELSE next[e]]
        BY <2>9 DEF FreeIrq, Unlink
      <4> QED BY <2>5, <4>1
    <3>4. IsList(Listed \ {d}, action', next', r)
      BY <2>4, <2>5, <3>1, <3>2, <3>3, ListRemove
    <3>5. \A e \in Listed' : r[e] < n
      BY <2>4, <3>1
    <3> QED BY <2>4, <3>1, <3>4, <3>5 DEF ListInv, IsList
  <2> QED BY <1>2, <2>1, <2>2, <2>3, <2>8, <2>9 DEF Driver
<1>3. CASE UNCHANGED vars
  <2>1. Listed' = Listed /\ UNCHANGED <<action, next>>
    BY <1>3 DEF vars, descVars, Listed
  <2> QED BY <2>1, ListFrame
<1> QED BY <1>1, <1>2, <1>3 DEF Next

-----------------------------------------------------------------------------
(* The steps of a CPU. *)

(* An interrupt is left pending on a busy line, or starts the walk of the   *)
(* list on a line that is enabled and quiet.                                *)
LEMMA DoIRQCases ==
  ASSUME TypeOK, LineInv, NEW c \in CPUs, DoIRQ(c)
  PROVE  /\ ~masked
         /\ "DISABLED" \in status' <=> "DISABLED" \in status
         /\ \/ /\ UNCHANGED <<walk, first>>
               /\ "INPROGRESS" \in status' <=> "INPROGRESS" \in status
               /\ masked' => AckMasks /\ status \cap {"DISABLED", "INPROGRESS"} # {}
            \/ /\ Quiet /\ action # None /\ "DISABLED" \notin status
               /\ "INPROGRESS" \in status' /\ (masked' => AckMasks)
               /\ walk'  = [walk EXCEPT ![c] = action]
               /\ first' = [first EXCEPT ![c] = action]
<1> DEFINE st == (status \ {"REPLAY"}) \cup {"PENDING"}
<1>1. ~masked
  BY DEF DoIRQ
<1>2. CASE Busy(st)
  <2>1. /\ status' = st /\ masked' = EndMasked(st, AckMasked)
        /\ UNCHANGED <<walk, first, ret>>
    BY <1>2 DEF DoIRQ
  <2>2. masked' => AckMasks
    BY <1>1, <2>1 DEF EndMasked, AckMasked
  <2>3. status \cap {"DISABLED", "INPROGRESS"} # {}
    BY <1>2 DEF Busy
  <2> QED BY <1>1, <2>1, <2>2, <2>3
<1>3. CASE ~Busy(st)
  <2>1. "DISABLED" \notin status /\ "INPROGRESS" \notin status
    BY <1>3 DEF Busy
  <2>2. Quiet /\ action # None
    BY <2>1 DEF LineInv
  <2>3. /\ status' = (st \ {"PENDING"}) \cup {"INPROGRESS"}
        /\ walk'   = [walk EXCEPT ![c] = action]
        /\ first'  = [first EXCEPT ![c] = action]
        /\ masked' = AckMasked
    BY <1>3, <2>2 DEF DoIRQ
  <2>4. masked' => AckMasks
    BY <1>1, <2>3 DEF AckMasked
  <2> QED BY <1>1, <2>1, <2>2, <2>3, <2>4
<1> QED BY <1>2, <1>3

(* The last handler's return starts the walk over, or ends it with          *)
(* IRQ_INPROGRESS clear and the line unmasked unless it is disabled.        *)
LEMMA LastReturnCases ==
  ASSUME TypeOK, LineInv, NEW c \in CPUs, NEW handled \in BOOLEAN,
         LastReturn(c, handled)
  PROVE  /\ walk[c] # None /\ first' = first
         /\ "DISABLED" \in status => "DISABLED" \in status'
         /\ \/ /\ walk' = [walk EXCEPT ![c] = first[c]]
               /\ "INPROGRESS" \in status'
               /\ masked' => masked \/ "DISABLED" \in status'
            \/ /\ walk' = [walk EXCEPT ![c] = None]
               /\ "INPROGRESS" \notin status'
               /\ masked' => "DISABLED" \in status'
<1> DEFINE served == ret[c] \/ handled
           st == IF Stuck(served) THEN status \cup {"DISABLED"} ELSE status
           m  == masked \/ Stuck(served)
<1>1. walk[c] # None /\ first' = first
  BY DEF LastReturn
<1>2. /\ "INPROGRESS" \in status /\ "INPROGRESS" \in st
      /\ "DISABLED" \in status => "DISABLED" \in st
      /\ m => masked \/ "DISABLED" \in st
  BY <1>1 DEF LineInv, Quiet
<1>3. CASE Again(st)
  <2>1. status' = st \ {"PENDING"} /\ masked' = m
        /\ walk' = [walk EXCEPT ![c] = first[c]]
    BY <1>3 DEF LastReturn
  <2> HIDE DEF st, m
  <2> QED BY <1>1, <1>2, <2>1
<1>4. CASE ~Again(st)
  <2>1. EndIrq(st, m) /\ walk' = [walk EXCEPT ![c] = None]
    BY <1>4 DEF LastReturn
  <2> HIDE DEF st, m
  <2>2. status' = st \ {"INPROGRESS"} /\ masked' = EndMasked(status', m)
    BY <2>1 DEF EndIrq
  <2>3. masked' => m /\ (AckMasks => "DISABLED" \in status')
    BY <2>2 DEF EndMasked
  <2>4. masked => AckMasks \/ "DISABLED" \in st
    BY <1>2 DEF LineInv
  <2> QED BY <1>1, <1>2, <2>1, <2>2, <2>3, <2>4
<1> QED BY <1>3, <1>4

(* Every step of a CPU or the device keeps LineInv.                         *)
LEMMA LineCpu ==
  ASSUME TypeOK, TypeOK', WalkInv, LineInv, UNCHANGED <<drv, dis>>,
         Raise \/ \E c \in CPUs : DoIRQ(c) \/ Return(c)
  PROVE  LineInv'
<1> USE DEF desc
<1>0. UNCHANGED <<handler, action>>
  BY DEF Raise, DoIRQ, Return, HandlerReturn, LastReturn
<1>1. CASE Raise
  BY <1>1 DEF Raise, LineInv, Quiet, HandlersExclusive, AckMasks
<1>2. ASSUME NEW c \in CPUs, DoIRQ(c) PROVE LineInv'
  <2>1. CASE /\ UNCHANGED <<walk, first>>
             /\ "INPROGRESS" \in status' <=> "INPROGRESS" \in status
             /\ masked' => AckMasks /\ status \cap {"DISABLED", "INPROGRESS"} # {}
    BY <1>0, <1>2, <2>1, DoIRQCases DEF LineInv, Quiet, HandlersExclusive, AckMasks
  <2>2. CASE /\ Quiet /\ action # None /\ "DISABLED" \notin status
             /\ "INPROGRESS" \in status' /\ (masked' => AckMasks)
             /\ walk' = [walk EXCEPT ![c] = action]
    <3>1. \A e \in CPUs : walk'[e] = IF e = c THEN action ELSE None
      BY <2>2 DEF TypeOK, DescTypeOK, Quiet
    <3> QED BY <1>0, <1>2, <2>2, <3>1 DEF LineInv, Quiet, HandlersExclusive, AckMasks
  <2> QED BY <1>2, <2>1, <2>2, DoIRQCases
<1>3. ASSUME NEW c \in CPUs, NEW handled \in BOOLEAN, HandlerReturn(c, handled)
      PROVE  LineInv'
  <2>1. /\ UNCHANGED <<status, masked>> /\ walk[c] # None
        /\ \A e \in CPUs : walk'[e] = None <=> walk[e] = None
    BY <1>3 DEF HandlerReturn, TypeOK, DescTypeOK
  <2> QED BY <1>0, <2>1 DEF LineInv, Quiet, HandlersExclusive, AckMasks
<1>4. ASSUME NEW c \in CPUs, NEW handled \in BOOLEAN, LastReturn(c, handled)
      PROVE  LineInv'
  <2>1. /\ walk[c] # None /\ \A e \in CPUs : e # c => walk[e] = None
        /\ "DISABLED" \in status => "DISABLED" \in status'
        /\ "INPROGRESS" \in status
    BY <1>4, LastReturnCases DEF LineInv, HandlersExclusive, Quiet
  <2>2. CASE /\ walk' = [walk EXCEPT ![c] = first[c]]
             /\ "INPROGRESS" \in status' /\ (masked' => masked \/ "DISABLED" \in status')
    <3>1. first[c] # None
      BY <2>1, IrqAssumption DEF WalkInv, Quiet
    <3>2. \A e \in CPUs : walk'[e] = None <=> walk[e] = None
      BY <2>1, <2>2, <3>1 DEF TypeOK, DescTypeOK
    <3> QED BY <1>0, <2>1, <2>2, <3>2 DEF LineInv, Quiet, HandlersExclusive, AckMasks
  <2>3. CASE /\ walk' = [walk EXCEPT ![c] = None]
             /\ "INPROGRESS" \notin status' /\ (masked' => "DISABLED" \in status')
    <3>1. \A e \in CPUs : walk'[e] = None
      BY <2>1, <2>3 DEF TypeOK, DescTypeOK
    <3> QED BY <1>0, <2>1, <2>3, <3>1 DEF LineInv, Quiet, HandlersExclusive, AckMasks
  <2> QED BY <1>4, <2>2, <2>3, LastReturnCases
<1> QED BY <1>1, <1>2, <1>3, <1>4 DEF Return

-----------------------------------------------------------------------------
(* The calls of the drivers. *)

(* A driver that has the line is on its list, which is then not empty.      *)
LEMMA ListedAction ==
  ASSUME ListInv, NEW d \in Listed
  PROVE  action # None
  BY DEF ListInv, IsList

(* synchronize_irq() stops spinning when no CPU is in the handlers.         *)
LEMMA SynchronizedQuiet == LineInv /\ Synchronized => Quiet
  BY DEF LineInv, Synchronized

(* Every call of a driver keeps LineInv: the first action of a line may     *)
(* clear IRQ_INPROGRESS, because whoever freed the last one has waited.     *)
LEMMA LineDriver ==
  ASSUME TypeOK, ListInv, LineInv, ~RequestDuringFree,
         NEW d \in Drivers, Driver(d)
  PROVE  LineInv'
<1> USE DEF LineInv, Quiet, HandlersExclusive, AckMasks
<1>0. \A e \in Drivers : (drv'[e] = drv[e] \/ e = d)
  BY DEF Driver, DisableNosync, DisableIrq, DisableSynced, EnableIrq, RequestIrq,
         FreeIrq, FreeSynced, FreeDone, TypeOK
<1>1. CASE DisableNosync(d) \/ DisableIrq(d)
  <2>1. /\ UNCHANGED <<handler, action, walk>> /\ drv[d] = "live"
        /\ "INPROGRESS" \in status' <=> "INPROGRESS" \in status
        /\ "DISABLED" \in status => "DISABLED" \in status'
        /\ masked' => masked \/ "DISABLED" \in status'
    BY <1>1 DEF DisableNosync, DisableIrq, Disable
  <2> QED BY <1>0, <2>1
<1>2. CASE DisableSynced(d)
  BY <1>0, <1>2 DEF DisableSynced, descVars, desc, hw
<1>3. CASE EnableIrq(d)
  <2>1. /\ UNCHANGED <<handler, action, walk, drv>> /\ action # None
    BY <1>3, ListedAction DEF EnableIrq, Enable, Listed
  <2>2. CASE LastEnable
    <3>1. /\ "INPROGRESS" \in status' <=> "INPROGRESS" \in status
          /\ ~masked'
      BY <1>3, <2>2 DEF EnableIrq, Enable
    <3> QED BY <2>1, <3>1
  <2>3. CASE ~LastEnable
    BY <1>3, <2>1, <2>3 DEF EnableIrq, Enable
  <2> QED BY <2>2, <2>3
<1>4. CASE RequestIrq(d)
  <2>1. UNCHANGED <<handler, walk>> /\ \A e \in Drivers : drv[e] \notin {"freeing", "kfree"}
    BY <1>4 DEF RequestIrq, Setup
  <2>2. CASE action = None
    <3>1. /\ action' = d /\ "INPROGRESS" \notin status' /\ ~masked'
      BY <1>4, <2>2 DEF RequestIrq, Setup
    <3>2. \A c \in CPUs : walk[c] = None
      BY <2>1, <2>2
    <3> QED BY <2>1, <3>1, <3>2, IrqAssumption
  <2>3. CASE action # None
    BY <1>4, <2>1, <2>3 DEF RequestIrq, Setup
  <2> QED BY <2>2, <2>3
<1>5. CASE FreeIrq(d)
  <2>1. /\ UNCHANGED <<handler, walk>> /\ drv'[d] = "freeing"
        /\ "INPROGRESS" \in status' <=> "INPROGRESS" \in status
        /\ "DISABLED" \in status => "DISABLED" \in status'
        /\ masked' => masked \/ "DISABLED" \in status'
        /\ action' = None => "DISABLED" \in status'
    BY <1>5 DEF FreeIrq, Unlink, TypeOK
  <2> QED BY <2>1
<1>6. CASE FreeSynced(d)
  <2>1. UNCHANGED <<handler, action, status, masked, walk>>
    BY <1>6 DEF FreeSynced, descVars, desc, hw
  <2>2. \A c \in CPUs : walk[c] = None
    BY <1>6, SynchronizedQuiet DEF FreeSynced
  <2> QED BY <2>1, <2>2
<1>7. CASE FreeDone(d)
  <2>1. UNCHANGED <<handler, action, status, masked, walk>> /\ drv[d] = "kfree"
    BY <1>7 DEF FreeDone, descVars, desc, hw
  <2> QED BY <1>0, <2>1
<1> QED BY <1>1, <1>2, <1>3, <1>4, <1>5, <1>6, <1>7 DEF Driver

(* Every step keeps what the CPU in the handlers can reach: an action is    *)
(* taken off the list under its feet, but is not freed while it is there.   *)
LEMMA WalkStep ==
  TypeOK /\ ListInv /\ WalkInv /\ LineInv /\ [Next]_vars => WalkInv'
<1> SUFFICES ASSUME TypeOK, ListInv, WalkInv, LineInv, [Next]_vars, ~Quiet'
             PROVE  WalkInv'
  BY DEF WalkInv
<1> USE DEF desc
<1>0. TypeOK' /\ None \notin Drivers
  BY TypeStep, IrqAssumption
<1>1. CASE Quiet
  <2>1. PICK c \in CPUs : DoIRQ(c) /\ UNCHANGED drv
    BY <1>1 DEF Next, Driver, Raise, Return, HandlerReturn, LastReturn, DisableNosync,
         DisableIrq, DisableSynced, EnableIrq, RequestIrq, FreeIrq, FreeSynced,
         FreeDone, Disable, Enable, Setup, Unlink, vars, descVars, Quiet
  <2>2. /\ action # None /\ walk' = [walk EXCEPT ![c] = action]
        /\ first' = [first EXCEPT ![c] = action] /\ UNCHANGED next
    BY <1>1, <2>1, DoIRQCases DEF Quiet, DoIRQ
  <2>3. PICK n \in Nat, r \in [Drivers -> Nat] : IsList(Listed, action, next, r)
    BY DEF ListInv
  <2>4. action \in Listed /\ \A d \in Listed : next[d] \in Listed \cup {None}
    BY <2>2, <2>3 DEF IsList
  <2>5. \A d \in Listed : d \in Drivers /\ drv[d] \in {"live", "disabling"}
    BY DEF Listed
  <2>6. \A e \in CPUs : walk'[e] # None => walk'[e] = action /\ first'[e] = action
    BY <1>1, <2>2 DEF TypeOK, DescTypeOK, Quiet
  <2>7. Listed' = Listed
    BY <2>1 DEF Listed
  <2> QED BY <2>1, <2>2, <2>4, <2>5, <2>6, <2>7 DEF WalkInv
<1>2. CASE ~Quiet
  <2>1. PICK R \in SUBSET Drivers :
          /\ Listed \subseteq R
          /\ \A d \in R : /\ drv[d] \in {"live", "disabling", "freeing"}
                          /\ next[d] \in R \cup {None}
          /\ \A c \in CPUs : walk[c] # None => walk[c] \in R /\ first[c] \in R
    BY <1>2 DEF WalkInv
  <2>2. ASSUME UNCHANGED <<drv, next>>, NEW c \in CPUs,
               \A e \in CPUs : e # c => walk'[e] = walk[e] /\ first'[e] = first[e],
               walk'[c] # None => walk'[c] \in R /\ first'[c] \in R
        PROVE  WalkInv'
    <3>1. Listed' = Listed
      BY <2>2 DEF Listed
    <3> QED BY <2>1, <2>2, <3>1 DEF WalkInv
  <2>3. ASSUME UNCHANGED <<next, walk, first>>,
               NEW d \in Drivers, NEW v \in DrvPc, drv' = [drv EXCEPT ![d] = v],
               d \in R => v \in {"live", "disabling", "freeing"},
               v \in {"live", "disabling"} => d \in Listed
        PROVE  WalkInv'
    <3>1. Listed' \subseteq R
      BY <2>1, <2>3, ListedMove
    <3>2. \A e \in R : drv'[e] \in {"live", "disabling", "freeing"}
      BY <2>1, <2>3 DEF TypeOK
    <3> QED BY <2>1, <2>3, <3>1, <3>2 DEF WalkInv
  <2>4. CASE Raise /\ UNCHANGED <<drv, dis>>
    BY <2>1, <2>4 DEF Raise, WalkInv, Listed
  <2>5. ASSUME NEW c \in CPUs, DoIRQ(c), UNCHANGED <<drv, dis>> PROVE WalkInv'
    <3>1. UNCHANGED <<walk, first, next>>
      BY <1>2, <2>5, DoIRQCases DEF DoIRQ
    <3> QED BY <2>1, <2>2, <2>5, <3>1
  <2>6. ASSUME NEW c \in CPUs, NEW handled \in BOOLEAN, UNCHANGED <<drv, dis>>,
               HandlerReturn(c, handled) \/ LastReturn(c, handled)
        PROVE  WalkInv'
    <3>1. walk[c] \in R /\ first[c] \in R /\ UNCHANGED <<first, next>>
      BY <2>1, <2>6 DEF HandlerReturn, LastReturn
    <3>2. \E x \in R \cup {None} : walk' = [walk EXCEPT ![c] = x]
      <4>1. next[walk[c]] \in R \cup {None}
        BY <2>1, <3>1
      <4>2. CASE HandlerReturn(c, handled)
        BY <4>1, <4>2 DEF HandlerReturn
      <4>3. CASE LastReturn(c, handled)
        BY <3>1, <4>3, LastReturnCases
      <4> QED BY <2>6, <4>2, <4>3
    <3>3. /\ \A e \in CPUs : e # c => walk'[e] = walk[e]
          /\ walk'[c] # None => walk'[c] \in R
      BY <3>2 DEF TypeOK, DescTypeOK
    <3> QED BY <2>2, <2>6, <3>1, <3>3
  <2>7. ASSUME NEW d \in Drivers, Driver(d) PROVE WalkInv'
    <3> USE DEF DrvPc
    <3>1. CASE DisableNosync(d) \/ EnableIrq(d)
      <4>1. UNCHANGED <<drv, next, walk, first>>
        BY <3>1 DEF DisableNosync, EnableIrq, Disable, Enable
      <4> QED BY <2>1, <4>1 DEF WalkInv, Listed
    <3>2. CASE DisableIrq(d)
      BY <2>3, <3>2 DEF DisableIrq, Disable, Listed
    <3>3. CASE DisableSynced(d)
      BY <2>3, <3>3 DEF DisableSynced, descVars, Listed
    <3>4. CASE RequestIrq(d)
      <4>1. /\ drv' = [drv EXCEPT ![d] = "live"] /\ UNCHANGED <<walk, first>>
            /\ Listed' = Listed \cup {d}
        BY <3>4, ListedMove DEF RequestIrq, Setup
      <4>2. \A e \in R \cup {d} : next'[e] \in R \cup {d, None}
        <5>1. \A e \in Drivers : next'[e] \in {None, d, next[e]} /\ next'[d] = None
          BY <3>4 DEF RequestIrq, Setup, TypeOK, DescTypeOK
        <5> QED BY <2>1, <5>1
      <4>3. \A e \in R \cup {d} : drv'[e] \in {"live", "disabling", "freeing"}
        BY <2>1, <4>1 DEF TypeOK
      <4>4. R \cup {d} \in SUBSET Drivers
        OBVIOUS
      <4> QED BY <2>1, <4>1, <4>2, <4>3, <4>4 DEF WalkInv
    <3>5. CASE FreeIrq(d)
      <4>1. /\ drv' = [drv EXCEPT ![d] = "freeing"] /\ UNCHANGED <<walk, first>>
            /\ Listed' = Listed \ {d} /\ d \in Listed
        BY <3>5, ListedMove DEF FreeIrq, Unlink, Listed
      <4>2. \A e \in R : next'[e] \in R \cup {None}
        <5>1. \A e \in Drivers : next'[e] \in {next[d], next[e]}
          BY <3>5 DEF FreeIrq, Unlink
        <5> QED BY <2>1, <4>1, <5>1
      <4>3. \A e \in R : drv'[e] \in {"live", "disabling", "freeing"}
        BY <2>1, <4>1 DEF TypeOK
      <4> QED BY <2>1, <4>1, <4>2, <4>3 DEF WalkInv
    <3>6. CASE FreeSynced(d)
      BY <1>2, <3>6, SynchronizedQuiet DEF FreeSynced
    <3>7. CASE FreeDone(d)
      <4>1. d \notin R /\ UNCHANGED <<next, walk, first>>
            /\ drv' = [drv EXCEPT ![d] = "absent"]
        BY <2>1, <3>7 DEF FreeDone, descVars
      <4> QED BY <2>3, <4>1
    <3> QED BY <2>7, <3>1, <3>2, <3>3, <3>4, <3>5, <3>6, <3>7 DEF Driver
  <2>8. CASE UNCHANGED vars
    BY <2>1, <2>8 DEF vars, descVars, WalkInv, Listed
  <2> QED BY <2>4, <2>5, <2>6, <2>7, <2>8 DEF Next, Return
<1> QED BY <1>1, <1>2

-----------------------------------------------------------------------------
(* disable_irq() and enable_irq(). *)

(* A line that a driver has disabled is IRQ_DISABLED.                       *)
LEMMA DisablerDisables ==
  ASSUME TypeOK, ListInv, CallInv, NEW d \in Disablers
  PROVE  depth > 0 /\ "DISABLED" \in status
<1>1. action # None
  BY ListedAction DEF CallInv
<1>2. depth = Cardinality(Disablers)
  BY <1>1 DEF CallInv, DepthCounts, Disablers
<1>3. Cardinality(Disablers) \in Nat /\ Cardinality(Disablers) # 0
  BY FS_CardinalityType, FS_EmptySet DEF CallInv
<1> QED BY <1>1, <1>2, <1>3 DEF CallInv, DepthCounts

(* A step that leaves the callers alone keeps CallInv if it starts no       *)
(* handler on a line that is disabled, and enables none.                    *)
LEMMA CallFrame ==
  ASSUME TypeOK, ListInv, CallInv, UNCHANGED <<depth, dis>>,
         Disablers \subseteq Listed',
         action' # None => action # None,
         \A d \in Drivers : drv'[d] = "disabling" => drv[d] = "disabling",
         "DISABLED" \in status => "DISABLED" \in status',
         "DISABLED" \in status /\ Quiet => Quiet'
  PROVE  CallInv'
<1>1. Disablers' = Disablers
  BY DEF Disablers
<1>2. IsFiniteSet(Disablers')
  BY <1>1 DEF CallInv
<1>3. DepthCounts'
  BY <1>1 DEF CallInv, DepthCounts, Disablers
<1>4. DisabledIsQuiet'
  <2> SUFFICES ASSUME NEW d \in Drivers, dis[d] = "synced" PROVE Quiet'
    BY DEF DisabledIsQuiet, Quiet
  <2>1. Quiet
    BY DEF CallInv, DisabledIsQuiet, Quiet
  <2>2. d \in Disablers
    BY DEF Disablers
  <2> QED BY <2>1, <2>2, DisablerDisables
<1> QED BY <1>1, <1>2, <1>3, <1>4 DEF CallInv

(* Every step keeps CallInv.                                                *)
LEMMA CallStep ==
  TypeOK /\ ListInv /\ LineInv /\ CallInv /\ [Next]_vars => CallInv'
<1> SUFFICES ASSUME TypeOK, ListInv, LineInv, CallInv, [Next]_vars PROVE CallInv'
  OBVIOUS
<1> USE DEF desc
<1>0. TypeOK' /\ None \notin Drivers /\ Disablers \subseteq Listed
      /\ \A e \in Drivers : drv[e] = "disabling" => dis[e] = "nosync"
  BY TypeStep, IrqAssumption DEF CallInv
<1>1. CASE /\ Raise \/ \E c \in CPUs : DoIRQ(c) \/ Return(c)
           /\ UNCHANGED <<drv, dis>>
  <2>1. UNCHANGED <<depth, action, drv, dis>>
    BY <1>1 DEF Raise, DoIRQ, Return, HandlerReturn, LastReturn
  <2>2. Listed' = Listed
    BY <2>1 DEF Listed
  <2>3. "DISABLED" \in status => "DISABLED" \in status'
    <3>1. CASE Raise
      BY <3>1 DEF Raise
    <3>2. ASSUME NEW c \in CPUs, DoIRQ(c) PROVE "DISABLED" \in status => "DISABLED" \in status'
      BY <3>2, DoIRQCases
    <3>3. ASSUME NEW c \in CPUs, NEW h \in BOOLEAN, HandlerReturn(c, h)
          PROVE  "DISABLED" \in status => "DISABLED" \in status'
      BY <3>3 DEF HandlerReturn
    <3>4. ASSUME NEW c \in CPUs, NEW h \in BOOLEAN, LastReturn(c, h)
          PROVE  "DISABLED" \in status => "DISABLED" \in status'
      BY <3>4, LastReturnCases
    <3> QED BY <1>1, <3>1, <3>2, <3>3, <3>4 DEF Return
  <2>4. "DISABLED" \in status /\ Quiet => Quiet'
    <3>1. CASE Raise
      BY <3>1 DEF Raise, Quiet
    <3>2. ASSUME NEW c \in CPUs, DoIRQ(c), "DISABLED" \in status PROVE UNCHANGED walk
      BY <3>2, DoIRQCases
    <3>3. ASSUME NEW c \in CPUs, NEW h \in BOOLEAN, HandlerReturn(c, h) \/ LastReturn(c, h)
          PROVE  ~Quiet
      BY <3>3 DEF HandlerReturn, LastReturn, Quiet
    <3> QED BY <1>1, <3>1, <3>2, <3>3 DEF Return, Quiet
  <2> QED BY <1>0, <2>1, <2>2, <2>3, <2>4, CallFrame
<1>2. ASSUME NEW d \in Drivers, Driver(d) PROVE CallInv'
  <2> USE DEF DrvPc
  <2>1. CASE DisableNosync(d) \/ DisableIrq(d)
    <3>1. /\ dis[d] = "no" /\ drv[d] = "live"
          /\ dis' = [dis EXCEPT ![d] = "nosync"]
          /\ \E v \in {"live", "disabling"} : drv' = [drv EXCEPT ![d] = v]
          /\ UNCHANGED <<action, walk>> /\ depth' = depth + 1
          /\ status' = IF depth = 0 THEN status \cup {"DISABLED"} ELSE status
      <4>1. drv[d] = "live" => drv = [drv EXCEPT ![d] = "live"]
        BY DEF TypeOK
      <4> QED BY <2>1, <4>1 DEF DisableNosync, DisableIrq, Disable
    <3>2. Listed' = Listed /\ d \in Listed
      BY <3>1 DEF Listed, TypeOK
    <3>3. action # None
      BY <3>2, ListedAction
    <3>4. Disablers' = Disablers \cup {d} /\ d \notin Disablers
      BY <3>1 DEF Disablers, TypeOK
    <3>5. /\ IsFiniteSet(Disablers')
          /\ Cardinality(Disablers') = Cardinality(Disablers) + 1
      BY <3>4, FS_AddElement DEF CallInv
    <3>6. depth = Cardinality(Disablers) /\ (depth > 0 => "DISABLED" \in status)
      BY <3>3 DEF CallInv, DepthCounts, Disablers
    <3>7. DepthCounts'
      <4>1. depth' = Cardinality(Disablers') /\ "DISABLED" \in status'
        BY <3>1, <3>5, <3>6 DEF TypeOK, DescTypeOK
      <4> QED BY <4>1 DEF DepthCounts, Disablers
    <3>8. DisabledIsQuiet'
      BY <3>1 DEF CallInv, DisabledIsQuiet, TypeOK
    <3>9. \A e \in Drivers : drv'[e] = "disabling" => dis'[e] = "nosync"
      BY <1>0, <3>1 DEF TypeOK
    <3> QED BY <1>0, <3>2, <3>4, <3>5, <3>7, <3>8, <3>9 DEF CallInv
  <2>2. CASE DisableSynced(d)
    <3>1. /\ drv[d] = "disabling" /\ dis[d] = "nosync"
          /\ dis' = [dis EXCEPT ![d] = "synced"] /\ drv' = [drv EXCEPT ![d] = "live"]
          /\ UNCHANGED <<action, walk, depth, status>>
      BY <1>0, <2>2 DEF DisableSynced, descVars
    <3>2. Listed' = Listed /\ Disablers' = Disablers
      BY <3>1 DEF Listed, Disablers, TypeOK
    <3>3. DisabledIsQuiet'
      BY <2>2, <3>1, SynchronizedQuiet DEF DisabledIsQuiet, Quiet, DisableSynced
    <3>4. \A e \in Drivers : drv'[e] = "disabling" => dis'[e] = "nosync"
      BY <1>0, <3>1 DEF TypeOK
    <3> QED BY <3>1, <3>2, <3>3, <3>4 DEF CallInv, DepthCounts, Disablers
  <2>3. CASE EnableIrq(d)
    <3>1. /\ d \in Disablers /\ drv[d] = "live" /\ UNCHANGED <<action, walk, drv>>
          /\ dis' = [dis EXCEPT ![d] = "no"]
          /\ depth' = (IF depth = 0 THEN 0 ELSE depth - 1)
          /\ depth # 1 => status' = status
      BY <2>3 DEF EnableIrq, Enable, LastEnable, Disablers
    <3>2. action # None
      BY <1>0, <3>1, ListedAction
    <3>3. /\ depth = Cardinality(Disablers) /\ depth > 0 /\ "DISABLED" \in status
          /\ depth \in Nat
      BY <3>1, <3>2, DisablerDisables DEF CallInv, DepthCounts, Disablers, TypeOK, DescTypeOK
    <3>4. Listed' = Listed /\ Disablers' = Disablers \ {d}
      BY <3>1 DEF Listed, Disablers, TypeOK
    <3>5. /\ IsFiniteSet(Disablers')
          /\ Cardinality(Disablers') = Cardinality(Disablers) - 1
      BY <3>1, <3>4, FS_RemoveElement DEF CallInv
    <3>6. DepthCounts'
      <4>1. depth' = Cardinality(Disablers') /\ (depth' > 0 => "DISABLED" \in status')
        BY <3>1, <3>3, <3>5
      <4> QED BY <4>1 DEF DepthCounts, Disablers
    <3>7. DisabledIsQuiet'
      BY <3>1 DEF CallInv, DisabledIsQuiet, TypeOK
    <3>8. \A e \in Drivers : drv'[e] = "disabling" => dis'[e] = "nosync"
      BY <1>0, <3>1 DEF TypeOK
    <3> QED BY <1>0, <3>4, <3>5, <3>6, <3>7, <3>8 DEF CallInv
  <2>4. CASE RequestIrq(d)
    <3>1. /\ drv' = [drv EXCEPT ![d] = "live"] /\ UNCHANGED <<dis, walk>>
          /\ Listed \subseteq Listed'
      BY <2>4, ListedMove DEF RequestIrq, Setup
    <3>2. \A e \in Drivers : drv'[e] = "disabling" => drv[e] = "disabling"
      BY <3>1 DEF TypeOK
    <3>3. CASE action # None
      <4>1. UNCHANGED <<action, depth, status>>
        BY <2>4, <3>3 DEF RequestIrq, Setup
      <4> QED BY <1>0, <3>1, <3>2, <4>1, CallFrame DEF Quiet
    <3>4. CASE action = None
      <4>1. Listed = {} /\ Disablers = {}
        BY <1>0, <3>4 DEF ListInv, IsList
      <4>2. Disablers' = {} /\ IsFiniteSet(Disablers') /\ Cardinality(Disablers') = 0
        BY <3>1, <4>1, FS_EmptySet DEF Disablers
      <4>3. depth' = 0
        BY <2>4, <3>4 DEF RequestIrq, Setup
      <4>4. DepthCounts'
        BY <4>2, <4>3 DEF DepthCounts, Disablers
      <4>5. DisabledIsQuiet'
        BY <4>2 DEF DisabledIsQuiet, Disablers
      <4> QED BY <1>0, <3>1, <3>2, <4>2, <4>4, <4>5 DEF CallInv
    <3> QED BY <3>3, <3>4
  <2>5. CASE FreeIrq(d)
    <3>1. /\ drv' = [drv EXCEPT ![d] = "freeing"] /\ UNCHANGED <<dis, walk, depth>>
          /\ Listed' = Listed \ {d} /\ d \notin Disablers /\ d \in Listed
          /\ "DISABLED" \in status => "DISABLED" \in status'
      BY <2>5, ListedMove DEF FreeIrq, Unlink, Disablers, Listed
    <3>2. \A e \in Drivers : drv'[e] = "disabling" => drv[e] = "disabling"
      BY <3>1 DEF TypeOK
    <3>3. action # None
      BY <3>1, ListedAction
    <3> QED BY <1>0, <3>1, <3>2, <3>3, CallFrame DEF Quiet
  <2>6. CASE FreeSynced(d) \/ FreeDone(d)
    <3>1. /\ UNCHANGED <<dis, walk, depth, action, status>> /\ d \notin Listed
          /\ \E v \in {"kfree", "absent"} : drv' = [drv EXCEPT ![d] = v]
      BY <2>6 DEF FreeSynced, FreeDone, descVars, Listed
    <3>2. \A e \in Drivers : drv'[e] = "disabling" => drv[e] = "disabling"
      BY <3>1 DEF TypeOK
    <3>3. Listed' = Listed
      BY <3>1 DEF Listed, TypeOK
    <3> QED BY <1>0, <3>1, <3>2, <3>3, CallFrame DEF Quiet
  <2> QED BY <1>2, <2>1, <2>2, <2>3, <2>4, <2>5, <2>6 DEF Driver
<1>3. CASE UNCHANGED vars
  <2>1. UNCHANGED <<depth, dis, drv, action, status, walk>>
    BY <1>3 DEF vars, descVars
  <2>2. Listed' = Listed
    BY <2>1 DEF Listed
  <2> QED BY <1>0, <2>1, <2>2, CallFrame DEF Quiet
<1> QED BY <1>1, <1>2, <1>3 DEF Next

-----------------------------------------------------------------------------
(* The invariant holds of a line nobody has.                                *)
LEMMA IrqInit == Init => ListInv /\ WalkInv /\ LineInv /\ CallInv
<1> SUFFICES ASSUME Init PROVE ListInv /\ WalkInv /\ LineInv /\ CallInv
  OBVIOUS
<1>1. /\ \A d \in Drivers : drv[d] = "absent" /\ dis[d] = "no"
      /\ \A c \in CPUs : walk[c] = None
      /\ action = None /\ status = {"DISABLED"} /\ masked
  BY DEF Init, DescInit
<1>2. Listed = {} /\ Disablers = {}
  BY <1>1 DEF Listed, Disablers
<1>3. ListInv
  <2>1. [d \in Drivers |-> 0] \in [Drivers -> Nat] /\ 0 \in Nat
    OBVIOUS
  <2>2. \A r : IsList({}, None, next, r)
    BY DEF IsList
  <2> QED BY <1>1, <1>2, <2>1, <2>2 DEF ListInv
<1>4. WalkInv /\ LineInv
  BY <1>1 DEF WalkInv, LineInv, Quiet, HandlersExclusive
<1>5. CallInv
  BY <1>1, <1>2, FS_EmptySet DEF CallInv, DepthCounts, DisabledIsQuiet
<1> QED BY <1>3, <1>4, <1>5

(* The invariant of an interrupt line nobody requests while another driver  *)
(* frees it.                                                                *)
THEOREM IrqCorrect == ASSUME ~RequestDuringFree PROVE Spec => []IrqInv
<1>1. Init => IrqInv
  BY IrqInit, IrqTypeInit DEF IrqInv
<1>2. IrqInv /\ [Next]_vars => IrqInv'
  <2> SUFFICES ASSUME IrqInv, [Next]_vars PROVE IrqInv'
    OBVIOUS
  <2> USE DEF IrqInv
  <2>1. TypeOK' /\ ListInv' /\ WalkInv' /\ CallInv'
    BY TypeStep, ListStep, WalkStep, CallStep
  <2>2. LineInv'
    <3>1. CASE /\ Raise \/ \E c \in CPUs : DoIRQ(c) \/ Return(c)
               /\ UNCHANGED <<drv, dis>>
      BY <2>1, <3>1, LineCpu
    <3>2. ASSUME NEW d \in Drivers, Driver(d) PROVE LineInv'
      BY <3>2, LineDriver
    <3>3. CASE UNCHANGED vars
      BY <3>3 DEF vars, descVars, desc, hw, LineInv, Quiet, HandlersExclusive, AckMasks
    <3> QED BY <3>1, <3>2, <3>3 DEF Next
  <2> QED BY <2>1, <2>2
<1> QED BY <1>1, <1>2, PTL DEF Spec

(* A driver's handler need not be reentrant, on any number of CPUs.         *)
THEOREM ExclusiveAlways == ASSUME ~RequestDuringFree PROVE Spec => []HandlersExclusive
<1>1. IrqInv => HandlersExclusive
  BY DEF IrqInv, LineInv
<1> QED BY <1>1, IrqCorrect, PTL

(* After disable_irq() no handler of the line runs until the enable_irq().  *)
THEOREM DisabledQuietAlways == ASSUME ~RequestDuringFree PROVE Spec => []DisabledIsQuiet
<1>1. IrqInv => DisabledIsQuiet
  BY DEF IrqInv, CallInv
<1> QED BY <1>1, IrqCorrect, PTL

(* free_irq() never frees an action that a CPU is in or can come to.        *)
THEOREM FreeWaitsAlways == ASSUME ~RequestDuringFree PROVE Spec => []FreeWaits
<1>1. IrqInv => FreeWaits
  BY IrqAssumption DEF IrqInv, WalkInv, Quiet, FreeWaits
<1> QED BY <1>1, IrqCorrect, PTL

(* depth counts the drivers that have the line disabled.                    *)
THEOREM DepthCountsAlways == ASSUME ~RequestDuringFree PROVE Spec => []DepthCounts
<1>1. IrqInv => DepthCounts
  BY DEF IrqInv, CallInv
<1> QED BY <1>1, IrqCorrect, PTL

(* A line that is enabled and at rest can interrupt.                        *)
THEOREM UnmaskedAlways == ASSUME ~RequestDuringFree PROVE Spec => []EnabledIsUnmasked
<1>1. IrqInv => EnabledIsUnmasked
  BY DEF IrqInv, LineInv, Quiet, EnabledIsUnmasked
<1> QED BY <1>1, IrqCorrect, PTL
=============================================================================
