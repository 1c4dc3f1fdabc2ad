------------------------------ MODULE ScanKeyb ------------------------------
(***************************************************************************)
(* The scanned keyboard of drivers/input/keyboard/scan_keyb.c, with the    *)
(* one keyboard that hp620_keyb.c or hp680_keyb.c registers, and what      *)
(* input_event() and the autorepeat timer of drivers/input/input.c make of *)
(* its reports.                                                            *)
(*                                                                         *)
(* The machine has one CPU: the timer functions run to their end between   *)
(* two steps of the task that loads or unloads the keyboard.  A buffer is  *)
(* the set of the keys it shows as pressed.  kbd->scan() may fail, as      *)
(* scan_kbd() allows; those of the two keyboards never do.                 *)
(***************************************************************************)
CONSTANTS
  Keys,      \* places of the matrix that have a key code
  NoKey

VARIABLES
  pressed,       \* the keys that are down
  odd,           \* scan_jiffies & 1
  buf,           \* buf[TRUE] is kbd->s0, buf[FALSE] is kbd->s1
  scan_timer,    \* scan_timer is pending
  keyboards,     \* the keyboard is on the list
  dev,           \* the input device exists
  key,           \* dev->key: keys the input core takes for pressed
  repeat_key,    \* dev->repeat_key
  rep_timer,     \* dev->timer is pending
  pc,            \* place of the task that loads or unloads
  good           \* history: the last scan that did not fail

kbdVars == <<odd, buf, scan_timer, keyboards>>
devVars == <<dev, key, repeat_key, rep_timer>>
vars == <<pressed, kbdVars, devVars, pc, good>>

Init ==
  /\ pressed \in SUBSET Keys /\ odd = FALSE
  /\ buf = [b \in BOOLEAN |-> {}] /\ scan_timer = FALSE /\ keyboards = FALSE
  /\ dev = FALSE /\ key = {} /\ repeat_key = NoKey /\ rep_timer = FALSE
  /\ pc = "out" /\ good = {}

(* Somebody presses or releases a key.                                      *)
Press(k) ==
  /\ pressed' = (pressed \ {k}) \cup ({k} \ pressed)
  /\ UNCHANGED <<kbdVars, devVars, pc, good>>

-----------------------------------------------------------------------------
(* check_kbd(): report the keys in which two scans differ.  input_event()   *)
(* ignores what it knows, and starts the autorepeat of a key that went      *)
(* down, the last one of the table if there are several.                    *)
CheckKbd(new, old) ==
  LET down == (new \ old) \ key
  IN /\ key' = (key \ (old \ new)) \cup down
     /\ IF down = {}
          THEN UNCHANGED <<repeat_key, rep_timer>>
          ELSE repeat_key' \in down /\ rep_timer' = TRUE
     /\ UNCHANGED dev

(* scan_kbd() begins: the buffers change their roles at every call.         *)
ScanBegin == scan_timer /\ odd' = ~odd

(* A scan that succeeds is compared with the last one.                      *)
ScanGood ==
  /\ ScanBegin
  /\ IF keyboards
       THEN /\ buf' = [buf EXCEPT ![odd'] = pressed]
            /\ CheckKbd(pressed, buf[~odd'])
            /\ good' = pressed
       ELSE UNCHANGED <<buf, devVars, good>>
  /\ UNCHANGED <<pressed, scan_timer, keyboards, pc>>

(* Mutant: the buffer is left as the failed scan wrote it. *)
ScanFails_NoCopy ==
  /\ ScanBegin /\ keyboards
  /\ \E junk \in SUBSET Keys : buf' = [buf EXCEPT ![odd'] = junk]
  /\ UNCHANGED <<pressed, scan_timer, keyboards, devVars, pc, good>>

(* Mutant: a failed scan returns before mod_timer(). *)
ScanFails_NoRearm ==
  /\ ScanBegin /\ keyboards
  /\ buf' = [buf EXCEPT ![odd'] = buf[~odd']] /\ scan_timer' = FALSE
  /\ UNCHANGED <<pressed, keyboards, devVars, pc, good>>

(* One that fails, whatever it wrote, is overwritten with the last one.     *)
ScanFails ==
  /\ ScanBegin /\ keyboards
  /\ buf' = [buf EXCEPT ![odd'] = buf[~odd']]
  /\ UNCHANGED <<pressed, scan_timer, keyboards, devVars, pc, good>>

(* Mutant: the timer is armed again whether or not the key is held. *)
InputRepeatKey_Always ==
  /\ rep_timer
  /\ UNCHANGED <<pressed, kbdVars, devVars, pc, good>>

(* input_repeat_key(): repeats as long as the key is down.                  *)
InputRepeatKey ==
  /\ rep_timer
  /\ rep_timer' = (repeat_key \in key)
  /\ UNCHANGED <<pressed, kbdVars, dev, key, repeat_key, pc, good>>

-----------------------------------------------------------------------------
(* register_scan_keyboard() and unregister_scan_keyboard(). *)

Goto(from, to) == pc = from /\ pc' = to

(* Buffers and device.  An allocation that fails leaves all as it was.      *)
RegisterAlloc ==
  /\ Goto("out", "alloc")
  /\ buf' = [b \in BOOLEAN |-> {}] /\ good' = {}
  /\ dev' = TRUE /\ key' = {} /\ repeat_key' = NoKey /\ rep_timer' = FALSE
  /\ UNCHANGED <<pressed, odd, scan_timer, keyboards>>

RegisterList ==
  /\ Goto("alloc", "listed") /\ keyboards' = TRUE
  /\ UNCHANGED <<pressed, odd, buf, scan_timer, devVars, good>>

RegisterTimer ==
  /\ Goto("listed", "in") /\ scan_timer' = TRUE
  /\ UNCHANGED <<pressed, odd, buf, keyboards, devVars, good>>

(* Mutant: the timer is left to run out. *)
UnregisterTimer_Keep ==
  /\ Goto("in", "stopped")
  /\ UNCHANGED <<pressed, kbdVars, devVars, good>>

(* del_timer_sync(&scan_timer)                                              *)
UnregisterTimer ==
  /\ Goto("in", "stopped") /\ scan_timer' = FALSE
  /\ UNCHANGED <<pressed, odd, buf, keyboards, devVars, good>>

(* keyboards = kbd->next                                                    *)
UnregisterList ==
  /\ Goto("stopped", "unlisted") /\ keyboards' = FALSE
  /\ UNCHANGED <<pressed, odd, buf, scan_timer, devVars, good>>

(* input_unregister_device() stops the autorepeat timer.                    *)
UnregisterDev ==
  /\ Goto("unlisted", "out") /\ dev' = FALSE /\ rep_timer' = FALSE
  /\ UNCHANGED <<pressed, kbdVars, key, repeat_key, good>>

Load ==
  \/ RegisterAlloc \/ RegisterList \/ RegisterTimer
  \/ UnregisterTimer \/ UnregisterList \/ UnregisterDev

Next ==
  \/ \E k \in Keys : Press(k)
  \/ ScanGood \/ ScanFails \/ InputRepeatKey \/ Load

Spec == Init /\ [][Next]_vars

(* Fairness: __run_timers() runs every timer that is pending, a scan does   *)
(* not fail for ever, and an unloading that was begun goes on.  Nobody has  *)
(* to type, load or unload.                                                 *)
FairSpec ==
  /\ Spec
  /\ SF_vars(ScanGood) /\ WF_vars(InputRepeatKey)
  /\ WF_vars(UnregisterList \/ UnregisterDev)

-----------------------------------------------------------------------------
(* Properties. *)

(* Every variable keeps its type, and nothing outlives an unloaded driver:  *)
(* no scan is pending, and no timer of a device that is gone.               *)
TypeOK ==
  /\ {pressed, key, good} \cup {buf[b] : b \in BOOLEAN} \subseteq SUBSET Keys
  /\ {odd, scan_timer, keyboards, dev, rep_timer} \subseteq BOOLEAN
  /\ repeat_key \in Keys \cup {NoKey}
  /\ pc \in {"out", "alloc", "listed", "in", "stopped", "unlisted"}
  /\ pc = "out" => ~scan_timer /\ ~keyboards /\ ~rep_timer

(* The input core knows the keys as the last good scan saw them, although   *)
(* the buffers change roles and scans fail in between: no key press is lost *)
(* or reported twice, and no key hangs.                                     *)
KeysMatchScan == dev => key = good

(* A key that stays down is reported, and so is one that stays up.          *)
KeyReported ==
  \A k \in Keys, down \in BOOLEAN :
    pc = "in" /\ (k \in pressed) = down ~>
      (k \in key) = down \/ (k \in pressed) # down \/ pc # "in"

(* When all keys are up autorepeat ends, also while the driver is being     *)
(* unloaded and nobody scans any more.                                      *)
RepeatEnds == rep_timer ~> ~rep_timer \/ pressed # {}
=============================================================================
