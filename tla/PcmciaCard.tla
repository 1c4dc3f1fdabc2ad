----------------------------- MODULE PcmciaCard -----------------------------
(***************************************************************************)
(* What the PCMCIA core promises the drivers of a card: devices appear for *)
(* a card that has power and disappear before the next ones appear, and    *)
(* power is switched off only when there is no device, or when the devices *)
(* have been suspended, and is back before they are resumed.  A user may   *)
(* wake suspended devices himself (pm_state): for those it promises nothing*)
(* until the core has suspended or resumed them.  PcmciaSocket implements  *)
(* this module.                                                            *)
(***************************************************************************)
CONSTANTS Cards, None

VARIABLES
  power,   \* the socket supplies Vcc
  dev,     \* the card the devices on the bus were made for, or None
  awake,   \* the devices are not suspended
  woken    \* a user woke them, out of turn

cardVars == <<power, dev, awake, woken>>

Init == power = FALSE /\ dev = None /\ awake = TRUE /\ woken = FALSE

PowerOn  == power' = TRUE /\ UNCHANGED <<dev, awake, woken>>
PowerOff == /\ dev = None \/ ~awake \/ woken
            /\ power' = FALSE /\ UNCHANGED <<dev, awake, woken>>

Insert(c) == /\ dev = None /\ power /\ dev' = c
             /\ UNCHANGED <<power, awake, woken>>
Remove    == /\ dev # None /\ dev' = None /\ awake' = TRUE /\ woken' = FALSE
             /\ UNCHANGED power

(* The devices are suspended, and the power may go with it.                 *)
Suspend == /\ dev # None /\ awake' = FALSE /\ power' \in {power, FALSE}
           /\ woken' = FALSE /\ UNCHANGED dev
Resume  == /\ power /\ awake' = TRUE /\ woken' = FALSE
           /\ UNCHANGED <<power, dev>>

(* A user writes "on" to pm_state.                                          *)
UserWakes == /\ dev # None /\ ~awake /\ awake' = TRUE /\ woken' = TRUE
             /\ UNCHANGED <<power, dev>>

Next == \/ PowerOn \/ PowerOff \/ Remove \/ Suspend \/ Resume \/ UserWakes
        \/ \E c \in Cards : Insert(c)

Spec == Init /\ [][Next]_cardVars

(* What follows for a driver: its device is not used without power, unless  *)
(* a user woke it.                                                          *)
AwakeHasPower == dev # None /\ awake /\ ~woken => power
=============================================================================
