--------------------------- MODULE ScanKeybProof ---------------------------
(***************************************************************************)
(* Whatever the matrix and however often scans fail, the input core knows  *)
(* the keys as the last good scan saw them.                                *)
(***************************************************************************)
EXTENDS ScanKeyb, TLAPS

(* The types, with the buffers as a function.                               *)
KbdTypes ==
  /\ pressed \subseteq Keys /\ key \subseteq Keys /\ good \subseteq Keys
  /\ buf \in [BOOLEAN -> SUBSET Keys] /\ odd \in BOOLEAN
  /\ scan_timer \in BOOLEAN /\ keyboards \in BOOLEAN
  /\ dev \in BOOLEAN /\ rep_timer \in BOOLEAN
  /\ repeat_key \in Keys \cup {NoKey}
  /\ pc \in {"out", "alloc", "listed", "in", "stopped", "unlisted"}

(* What the loading task has set up at each of its places.                  *)
LoadOrder ==
  /\ scan_timer => pc = "in"
  /\ keyboards <=> pc \in {"listed", "in", "stopped"}
  /\ rep_timer => pc # "out"

(* The buffer that the next scan will take for the old one holds the last   *)
(* good scan, whichever of the two it is.                                   *)
OldIsGood == buf[odd] = good

KbdInv == KbdTypes /\ LoadOrder /\ OldIsGood /\ KeysMatchScan

(* input_event() ends up with the keys of the new scan if it knew those of  *)
(* the old one.                                                             *)
LEMMA CheckKbdKeys ==
  ASSUME NEW new \in SUBSET Keys, NEW old \in SUBSET Keys, KbdTypes,
         CheckKbd(new, old)
  PROVE  /\ key' \in SUBSET Keys /\ (key = old => key' = new)
         /\ repeat_key' \in Keys \cup {NoKey} /\ rep_timer' \in BOOLEAN
         /\ dev' = dev
<1> DEFINE down == (new \ old) \ key
<1>1. key' = (key \ (old \ new)) \cup down /\ dev' = dev
  BY DEF CheckKbd
<1>2. key' \in SUBSET Keys /\ (key = old => key' = new)
  BY <1>1 DEF KbdTypes
<1>3. CASE down = {}
  BY <1>1, <1>2, <1>3 DEF CheckKbd, KbdTypes
<1>4. CASE down # {}
  BY <1>1, <1>2, <1>4 DEF CheckKbd, KbdTypes
<1> QED BY <1>3, <1>4

(* Before the keyboard is loaded both buffers are empty.                    *)
LEMMA KbdInit == Init => KbdInv
  BY DEF Init, KbdInv, KbdTypes, LoadOrder, OldIsGood, KeysMatchScan

(* The buffers change their roles at every scan: the new one is written     *)
(* and becomes the old one of the next scan.                                *)
LEMMA KbdScan == ASSUME KbdInv, ScanGood \/ ScanFails PROVE KbdInv'
<1> USE DEF KbdInv, KbdTypes
<1>1. /\ odd' = ~odd /\ odd' \in BOOLEAN /\ (~odd') = odd /\ scan_timer
      /\ pc = "in" /\ keyboards
  BY DEF ScanGood, ScanFails, ScanBegin, LoadOrder
<1>2. UNCHANGED <<pressed, scan_timer, keyboards, pc>>
  BY DEF ScanGood, ScanFails
<1>3. CASE ScanGood
  <2>1. /\ buf' = [buf EXCEPT ![odd'] = pressed]
        /\ CheckKbd(pressed, buf[odd]) /\ good' = pressed
    BY <1>1, <1>3 DEF ScanGood
  <2>2. buf' \in [BOOLEAN -> SUBSET Keys] /\ buf'[odd'] = pressed
    BY <1>1, <2>1
  <2>3. /\ key' \in SUBSET Keys /\ (key = buf[odd] => key' = pressed)
        /\ repeat_key' \in Keys \cup {NoKey} /\ rep_timer' \in BOOLEAN
        /\ dev' = dev
    BY <2>1, CheckKbdKeys
  <2> QED BY <1>1, <1>2, <2>1, <2>2, <2>3 DEF LoadOrder, OldIsGood, KeysMatchScan
<1>4. CASE ScanFails
  <2>1. buf' = [buf EXCEPT ![odd'] = buf[odd]] /\ UNCHANGED <<devVars, good>>
    BY <1>1, <1>4 DEF ScanFails
  <2>2. buf' \in [BOOLEAN -> SUBSET Keys] /\ buf'[odd'] = buf[odd]
    BY <1>1, <2>1
  <2> QED BY <1>1, <1>2, <2>1, <2>2 DEF LoadOrder, OldIsGood, KeysMatchScan, devVars
<1> QED BY <1>3, <1>4

(* Every step keeps the invariant.                                          *)
LEMMA KbdStep == KbdInv /\ [Next]_vars => KbdInv'
<1> SUFFICES ASSUME KbdInv, [Next]_vars PROVE KbdInv'
  OBVIOUS
<1> USE DEF KbdInv, KbdTypes, LoadOrder, OldIsGood, KeysMatchScan, kbdVars, devVars
<1>1. ASSUME NEW k \in Keys, Press(k) PROVE KbdInv'
  BY <1>1 DEF Press
<1>2. CASE ScanGood \/ ScanFails
  BY <1>2, KbdScan
<1>3. CASE InputRepeatKey
  BY <1>3 DEF InputRepeatKey
<1>4. CASE Load
  <2> USE DEF Goto
  <2>1. CASE RegisterAlloc BY <2>1 DEF RegisterAlloc
  <2>2. CASE RegisterList BY <2>2 DEF RegisterList
  <2>3. CASE RegisterTimer BY <2>3 DEF RegisterTimer
  <2>4. CASE UnregisterTimer BY <2>4 DEF UnregisterTimer
  <2>5. CASE UnregisterList BY <2>5 DEF UnregisterList
  <2>6. CASE UnregisterDev BY <2>6 DEF UnregisterDev
  <2> QED BY <1>4, <2>1, <2>2, <2>3, <2>4, <2>5, <2>6 DEF Load
<1>5. CASE UNCHANGED vars
  BY <1>5 DEF vars
<1> QED BY <1>1, <1>2, <1>3, <1>4, <1>5 DEF Next

(* The invariant of the scanned keyboard.                                   *)
THEOREM KbdCorrect == Spec => []KbdInv
  BY KbdInit, KbdStep, PTL DEF Spec

(* No key press is lost or reported twice, and no key hangs, however many   *)
(* keys the matrix has and whichever scans fail.                            *)
THEOREM KeysMatchScanAlways == Spec => []KeysMatchScan
  BY KbdCorrect, PTL DEF KbdInv

(* Types, and nothing outlives an unloaded driver.                          *)
THEOREM KbdTypeCorrect == Spec => []TypeOK
<1>1. KbdInv => TypeOK
  BY DEF KbdInv, KbdTypes, LoadOrder, TypeOK
<1> QED BY <1>1, KbdCorrect, PTL
=============================================================================
