------------------------------ MODULE NutPower ------------------------------
(***************************************************************************)
(* The Nut processor's keyboard scanner, its sleep and wakeup (proc_nut.c) *)
(* and the refresh of the HP-41C's display (coconut_lcd.c).                *)
(*                                                                         *)
(* A step is a machine cycle or an event that the simulator thread handles *)
(* between two instructions.  In a cycle the chips get event_cycle first,  *)
(* also while the processor sleeps; an awake processor then executes a     *)
(* word of the firmware.  The firmware is external: only the order in      *)
(* which it tests, reads and resets the keyboard is fixed.                 *)
(***************************************************************************)
EXTENDS Integers

CONSTANTS Keys,         \* the keycodes that are pressed here
          ON,           \* keycode 0x18
          NoKey,
          Pictures,     \* the contents of the display registers
          Blank,        \* the picture of a display that is off
          KBD_RELEASE_DEBOUNCE_CYCLES,
          REFRESH_CYCLES    \* 15: what display->count is set to

ASSUME NutAssumption ==
  /\ ON \in Keys /\ NoKey \notin Keys
  /\ Blank \notin Pictures
  /\ KBD_RELEASE_DEBOUNCE_CYCLES \in Nat \ {0}
  /\ REFRESH_CYCLES \in Nat /\ REFRESH_CYCLES >= 2

VARIABLES kb,              \* [state, counter, down, buf]: kb_state, key_down, key_buf, ...
          awake, carry,
          at_zero,         \* is pc 0, where a sleeping processor continues?
          display_enable,  \* the processor's copy of the display's enable
          lcd,             \* [enable, count, content, shown]; shown is what the GUI was sent
          phase,           \* where the firmware is in its handling of a key
          held,            \* the key that is pressed, as the keyboard window tells it
          reads,           \* how often the firmware has read the key since it was pressed
          tapped,          \* was ever a key released before the firmware had read it?
          restored         \* was ever a state file read while the simulator ran?

firmware == <<phase, reads>>
cpu == <<awake, carry, at_zero>>
history == <<tapped, restored>>
nvars == <<kb, cpu, display_enable, lcd, firmware, held, history>>

KbStates == {"IDLE", "PRESSED", "RELEASED", "WAIT_CHK", "WAIT_CYC"}

NInit ==
  /\ kb = [state |-> "IDLE", counter |-> 0, down |-> FALSE, buf |-> NoKey]
  /\ awake = TRUE /\ carry = TRUE /\ at_zero = TRUE       \* after nut_reset
  /\ display_enable = FALSE
  /\ lcd \in [enable : {FALSE}, count : {0}, content : Pictures, shown : {Blank}]
  /\ phase = "idle" /\ reads = 0
  /\ held = NoKey
  /\ tapped = FALSE /\ restored = FALSE

-----------------------------------------------------------------------------
(* coconut_display_update and sim_send_display_update_to_gui *)
Picture(d) == IF d.enable THEN d.content ELSE Blank

Update(d) == [d EXCEPT !.shown = Picture(d), !.count = REFRESH_CYCLES]

(* coconut_display_event_fn: event_cycle *)
LcdCycle(d) == IF d.count = 0 THEN Update(d) ELSE [d EXCEPT !.count = @ - 1]

(* event_sleep *)
LcdSleep_Keeps(d) == d     \* mutant: no display update on going to sleep

LcdSleep(d) == Update(d)

(* When the debounce time is over the key that is down is a new press. *)
Settle(k) == [k EXCEPT !.state = IF k.down THEN "PRESSED" ELSE "IDLE"]

(* nut_kbd_scanner_cycle *)
ScanCycle(k) ==
  IF k.state # "WAIT_CYC" THEN k
  ELSE LET k1 == [k EXCEPT !.counter = @ - 1]
       IN  IF k1.counter = 0 THEN Settle(k1) ELSE k1

(* nut_kbd_scanner_sleep *)
ScanSleep_Ignores(k) == k  \* mutant: the debounce goes on in sleep

ScanSleep(k) == IF k.state = "WAIT_CYC" THEN Settle(k) ELSE k

-----------------------------------------------------------------------------
(* The instructions, executed after event_cycle has left the keyboard in k *)
(* and the display in d.                                                   *)
op_test_kb(k, d) ==
  /\ carry' = (k.state \in {"PRESSED", "RELEASED"})
  /\ kb' = IF k.state = "WAIT_CHK"
           THEN [k EXCEPT !.state = "WAIT_CYC", !.counter = KBD_RELEASE_DEBOUNCE_CYCLES]
           ELSE k
  /\ lcd' = d
  /\ awake' = TRUE /\ at_zero' = FALSE
  /\ UNCHANGED display_enable

op_reset_kb_Any(k, d) ==   \* mutant: a key that is still down is reset too
  /\ kb' = IF k.state \in {"PRESSED", "RELEASED"} THEN [k EXCEPT !.state = "WAIT_CHK"] ELSE k
  /\ lcd' = d
  /\ awake' = TRUE /\ carry' = FALSE /\ at_zero' = FALSE
  /\ UNCHANGED display_enable

op_reset_kb(k, d) ==
  /\ kb' = IF k.state = "RELEASED" THEN [k EXCEPT !.state = "WAIT_CHK"] ELSE k
  /\ lcd' = d
  /\ awake' = TRUE /\ carry' = FALSE /\ at_zero' = FALSE
  /\ UNCHANGED display_enable

(* op_keys_to_c, op_keys_to_rom_addr and everything that is not below *)
op_other(k, d) ==
  /\ kb' = k /\ lcd' = d
  /\ awake' = TRUE /\ carry' \in BOOLEAN /\ at_zero' = FALSE
  /\ UNCHANGED display_enable

op_display_write(k, d, v) ==
  /\ kb' = k
  /\ lcd' = [d EXCEPT !.content = v]
  /\ awake' = TRUE /\ carry' = FALSE /\ at_zero' = FALSE
  /\ UNCHANGED display_enable

op_display_off(k, d) ==
  /\ kb' = k
  /\ lcd' = [d EXCEPT !.enable = FALSE, !.count = 2]
  /\ display_enable' = FALSE
  /\ awake' = TRUE /\ carry' = FALSE /\ at_zero' = FALSE

op_display_toggle(k, d) ==
  /\ kb' = k
  /\ lcd' = [d EXCEPT !.enable = ~d.enable, !.count = 0]
  /\ display_enable' = ~d.enable
  /\ awake' = TRUE /\ carry' = FALSE /\ at_zero' = FALSE

(* op_powoff: every chip gets event_sleep, the keyboard scanner first *)
op_powoff_SleepsLast(k, d) ==  \* mutant: awake is cleared after event_sleep
  /\ kb' = ScanSleep(k)
  /\ awake' = FALSE
  /\ at_zero' = TRUE
  /\ lcd' = LcdSleep(d)
  /\ carry' = ~d.enable
  /\ UNCHANGED display_enable

op_powoff(k, d) ==
  /\ kb' = ScanSleep(k)
  /\ awake' = (kb'.state = "PRESSED")
  /\ at_zero' = TRUE
  /\ lcd' = LcdSleep(d)
  /\ carry' = ~d.enable
  /\ UNCHANGED display_enable

-----------------------------------------------------------------------------
(* The firmware: a test of the keyboard that fails lets it do other things *)
(* or sleep, one that succeeds makes it read the key, and reset and test   *)
(* the keyboard until the key has been released.                           *)
Execute(k, d) ==
  \/ /\ phase \in {"idle", "check"}
     /\ op_test_kb(k, d)
     /\ phase' = IF ~carry' THEN "free" ELSE IF phase = "idle" THEN "read" ELSE "reset"
     /\ UNCHANGED reads
  \/ /\ phase = "read"
     /\ op_other(k, d)
     /\ phase' = "reset"
     /\ reads' = IF held # NoKey /\ k.buf = held /\ reads < 2 THEN reads + 1 ELSE reads
  \/ /\ phase = "reset"
     /\ op_reset_kb(k, d)
     /\ phase' = "check" /\ UNCHANGED reads
  \/ /\ phase = "free"
     /\ \/ op_other(k, d) \/ op_powoff(k, d)
        \/ op_display_off(k, d) \/ op_display_toggle(k, d)
        \/ \E v \in Pictures : op_display_write(k, d, v)
     /\ phase' = "idle" /\ UNCHANGED reads

(* nut_execute_cycle *)
Cycle ==
  LET k == ScanCycle(kb)
      d == LcdCycle(lcd)
      woken == awake \/ (kb.state = "WAIT_CYC" /\ k.state = "PRESSED")
  IN  /\ \/ woken /\ Execute(k, d)
         \/ ~woken /\ kb' = k /\ lcd' = d /\ UNCHANGED <<cpu, display_enable, firmware>>
      /\ UNCHANGED <<held, history>>

-----------------------------------------------------------------------------
(* nut_press_key, with the event_wake that it sends to every chip *)
nut_press_key_AnyKey(key) ==   \* mutant: every key wakes from deep sleep
  /\ kb' = [kb EXCEPT !.buf = key, !.down = TRUE,
                      !.state = IF @ = "IDLE" THEN "PRESSED" ELSE @]
  /\ awake' = TRUE
  /\ lcd' = Update(lcd)
  /\ display_enable' = lcd.enable
  /\ UNCHANGED <<carry, at_zero>>

nut_press_key(key) ==
  IF ~awake /\ ~display_enable /\ key # ON
  THEN UNCHANGED <<kb, cpu, lcd, display_enable>>
  ELSE /\ kb' = [kb EXCEPT !.buf = key, !.down = TRUE,
                           !.state = IF @ = "IDLE" THEN "PRESSED" ELSE @]
       /\ awake' = TRUE
       /\ lcd' = Update(lcd)
       /\ display_enable' = lcd.enable
       /\ UNCHANGED <<carry, at_zero>>

PressKey(key) ==
  /\ held = NoKey
  /\ held' = key /\ reads' = 0
  /\ nut_press_key(key)
  /\ UNCHANGED <<phase, history>>

(* nut_release_key *)
nut_release_key ==
  /\ kb' = [kb EXCEPT !.down = FALSE, !.state = IF @ = "PRESSED" THEN "RELEASED" ELSE @]
  /\ UNCHANGED <<cpu, lcd, display_enable>>

ReleaseKey ==
  /\ held # NoKey
  /\ held' = NoKey
  /\ tapped' = (tapped \/ (reads = 0 /\ kb.state # "IDLE"))
  /\ nut_release_key
  /\ UNCHANGED <<firmware, restored>>

(* nut_reset, then coconut_display_reset *)
Reset ==
  /\ kb' = [kb EXCEPT !.state = "IDLE"]
  /\ awake' = TRUE /\ carry' = TRUE /\ at_zero' = TRUE
  /\ \E v \in Pictures : lcd' = [lcd EXCEPT !.enable = FALSE, !.count = 0, !.content = v]
  /\ display_enable' = FALSE
  /\ phase' = "idle"
  /\ UNCHANGED <<reads, held, history>>

(* phineas_update_ext_flags, helios_update_ext_flags: an alarm or a key of *)
(* the printer sets awake, without event_wake                              *)
DeviceWakes ==
  /\ awake' = TRUE
  /\ UNCHANGED <<kb, carry, at_zero, lcd, display_enable, firmware, held, history>>

(* state_read_xml: the file holds awake, carry, pc and the display, but    *)
(* nothing of the keyboard; the display handles event_restore_completed.   *)
Restore ==
  /\ restored' = TRUE
  /\ \E on \in BOOLEAN, v \in Pictures, asleep \in BOOLEAN :
       /\ awake' = ~asleep
       /\ IF asleep THEN carry' = ~on /\ at_zero' = TRUE
                    ELSE carry' \in BOOLEAN /\ at_zero' = FALSE
       /\ lcd' = Update([lcd EXCEPT !.enable = on, !.content = v])
       /\ display_enable' = on
  /\ phase' = "idle"
  /\ UNCHANGED <<kb, reads, held, tapped>>

NNext ==
  \/ Cycle
  \/ \E key \in Keys : PressKey(key)
  \/ ReleaseKey \/ Reset \/ DeviceWakes \/ Restore

NSpec == NInit /\ [][NNext]_nvars /\ WF_nvars(Cycle)

-----------------------------------------------------------------------------
NTypeOK ==
  /\ kb \in [state : KbStates, counter : 0..KBD_RELEASE_DEBOUNCE_CYCLES,
             down : BOOLEAN, buf : Keys \cup {NoKey}]
  /\ awake \in BOOLEAN /\ carry \in BOOLEAN /\ at_zero \in BOOLEAN
  /\ display_enable \in BOOLEAN
  /\ lcd \in [enable : BOOLEAN, count : 0..REFRESH_CYCLES,
              content : Pictures, shown : Pictures \cup {Blank}]
  /\ phase \in {"idle", "read", "reset", "check", "free"}
  /\ held \in Keys \cup {NoKey} /\ reads \in 0..2
  /\ tapped \in BOOLEAN /\ restored \in BOOLEAN

(* The scanner waits in WAIT_CYC only with time left on its counter; it    *)
(* offers a key as pressed only while one is down, and sees a key down     *)
(* only while one is held in the window: no key sticks.                    *)
ScannerConsistent ==
  /\ kb.state = "WAIT_CYC" => kb.counter > 0
  /\ kb.state = "PRESSED" => kb.down
  /\ kb.down => held # NoKey /\ kb.buf = held

(* A sleeping processor continues at 0, and the carry it finds there tells *)
(* whether the sleep was deep, that is, whether the display was off; the   *)
(* window shows the display as it was when the processor went to sleep.    *)
WakesLikeItSlept ==
  ~awake => /\ at_zero /\ carry = ~lcd.enable
            /\ display_enable = lcd.enable
            /\ lcd.shown = Picture(lcd)

(* The processor does not sleep over a key: no key is waiting to be taken  *)
(* and no debounce time is running while it sleeps, whatever came between  *)
(* the firmware's last test of the keyboard and its power off.  (A state   *)
(* file that is restored may put it to sleep, and leaves the keyboard.)    *)
NoKeyIsSleptOver == ~restored /\ ~awake => kb.state \notin {"PRESSED", "WAIT_CYC"}

(* "In deep sleep (display off), only the ON key can wake us"              *)
(* (nut_press_key): nothing but ON, a reset, a device or a state file.     *)
DeepSleepEndsWithON ==
  [][~restored /\ ~awake /\ ~lcd.enable /\ awake' =>
       PressKey(ON) \/ Reset \/ DeviceWakes \/ Restore]_nvars

(* For a user who holds every key until the firmware has read it: a key    *)
(* that the scanner took or still has to take is read.  (Only a reset      *)
(* makes the scanner idle with a key down.)                                *)
HeldKeyIsRead ==
  kb.down /\ kb.state # "IDLE" ~>
    (reads > 0 \/ ~kb.down \/ kb.state = "IDLE" \/ tapped \/ restored)

(* For the same user it is read once: holding it longer makes no repeat,   *)
(* and its release no bounce.                                              *)
ReadOnce == ~tapped /\ ~restored => reads <= 1
=============================================================================
