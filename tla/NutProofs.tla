----------------------------- MODULE NutProofs -----------------------------
(***************************************************************************)
(* The Nut.  First the scanner, the sleeping processor and its display,    *)
(* for every set of keys and pictures, every debounce time and every       *)
(* refresh period.  Then the data its instructions move, for registers of  *)
(* any length, any memory and any session.  Last, that the listing and the *)
(* trace show the way that it takes, for any firmware.                     *)
(***************************************************************************)
EXTENDS NutPower, NutData, NutFlow, IntegerLemmas, TLAPS

(* The shape of the records that the proofs take apart *)
KbType == [state : KbStates, counter : 0..KBD_RELEASE_DEBOUNCE_CYCLES,
           down : BOOLEAN, buf : Keys \cup {NoKey}]
LcdType == [enable : BOOLEAN, count : 0..REFRESH_CYCLES,
            content : Pictures, shown : Pictures \cup {Blank}]

(* The keyboard between two steps: all that the invariants say of kb.  It  *)
(* is kept by the scanner whatever it does first in a step.                *)
KbOK(k, h) ==
  /\ k \in KbType
  /\ k.state = "WAIT_CYC" => k.counter > 0
  /\ k.state = "PRESSED" => k.down
  /\ k.down => h # NoKey /\ k.buf = h

(* The screen of a sleeping processor *)
AsleepOK(asleep, c, z, d, e) ==
  asleep => z /\ c = ~d.enable /\ e = d.enable /\ d.shown = Picture(d)

(* The inductive invariant.  What a cycle does depends on the scanner, so  *)
(* the invariants about the keyboard and those about sleep go together.    *)
Inv ==
  /\ NTypeOK
  /\ KbOK(kb, held)
  /\ display_enable = lcd.enable
  /\ AsleepOK(~awake, carry, at_zero, lcd, display_enable)

(* As long as no state file was restored no key waits either. *)
QuietInv == Inv /\ NoKeyIsSleptOver

-----------------------------------------------------------------------------
(* The scanner's steps keep the keyboard in order. *)
LEMMA ScanCycleOK ==
  ASSUME NEW k, NEW h, KbOK(k, h)
  PROVE  /\ KbOK(ScanCycle(k), h)
         /\ ScanCycle(k).state = "PRESSED" => k.state \in {"PRESSED", "WAIT_CYC"}
         /\ ScanCycle(k).state = "WAIT_CYC" => k.state = "WAIT_CYC"
<1>1. CASE k.state # "WAIT_CYC"
  BY <1>1 DEF KbOK, ScanCycle
<1>2. CASE k.state = "WAIT_CYC"
  <2>1. k.counter - 1 \in 0..KBD_RELEASE_DEBOUNCE_CYCLES
    BY <1>2, NutAssumption DEF KbOK, KbType
  <2> DEFINE k1 == [k EXCEPT !.counter = @ - 1]
  <2>2. CASE k1.counter = 0
    BY <1>2, <2>1, <2>2 DEF KbOK, KbType, KbStates, ScanCycle, Settle
  <2>3. CASE k1.counter # 0
    BY <1>2, <2>1, <2>3 DEF KbOK, KbType, KbStates, ScanCycle
  <2> QED BY <2>2, <2>3
<1> QED BY <1>1, <1>2

LEMMA ScanSleepOK ==
  ASSUME NEW k, NEW h, KbOK(k, h)
  PROVE  KbOK(ScanSleep(k), h) /\ ScanSleep(k).state # "WAIT_CYC"
  BY NutAssumption DEF KbOK, KbType, KbStates, ScanSleep, Settle

LEMMA UpdateOK ==
  ASSUME NEW d \in LcdType
  PROVE  /\ Update(d) \in LcdType
         /\ Update(d).enable = d.enable /\ Update(d).content = d.content
         /\ Update(d).shown = Picture(Update(d))
<1>1. Picture(d) \in Pictures \cup {Blank}
  BY DEF LcdType, Picture
<1>2. REFRESH_CYCLES \in 0..REFRESH_CYCLES
  BY NutAssumption
<1>3. /\ Update(d) \in LcdType
      /\ Update(d).enable = d.enable /\ Update(d).content = d.content
      /\ Update(d).shown = Picture(d)
  BY <1>1, <1>2 DEF LcdType, Update
<1> QED BY <1>3 DEF Picture

LEMMA LcdCycleOK ==
  ASSUME NEW d \in LcdType
  PROVE  /\ LcdCycle(d) \in LcdType
         /\ LcdCycle(d).enable = d.enable
         /\ d.shown = Picture(d) => LcdCycle(d).shown = Picture(LcdCycle(d))
<1>1. CASE d.count = 0
  BY <1>1, UpdateOK DEF LcdCycle
<1>2. CASE d.count # 0
  <2>1. d.count - 1 \in 0..REFRESH_CYCLES
    BY <1>2, NutAssumption DEF LcdType
  <2> QED BY <1>2, <2>1 DEF LcdCycle, LcdType, Picture
<1> QED BY <1>1, <1>2

-----------------------------------------------------------------------------
LEMMA InvInit == NInit => QuietInv
<1> SUFFICES ASSUME NInit PROVE QuietInv
  OBVIOUS
<1>1. 0 \in 0..KBD_RELEASE_DEBOUNCE_CYCLES /\ 0 \in 0..REFRESH_CYCLES
  BY NutAssumption
<1>2. KbOK(kb, held)
  BY <1>1 DEF NInit, KbOK, KbType, KbStates
<1>3. lcd \in LcdType /\ display_enable = lcd.enable
  BY <1>1 DEF NInit, LcdType
<1>4. NTypeOK
  <2>1. tapped \in BOOLEAN /\ restored \in BOOLEAN /\ awake \in BOOLEAN /\ carry \in BOOLEAN
        /\ at_zero \in BOOLEAN /\ display_enable \in BOOLEAN
    BY DEF NInit
  <2>2. held = NoKey /\ phase = "idle" /\ reads = 0
    BY DEF NInit
  <2> QED BY <1>2, <1>3, <2>1, <2>2 DEF NTypeOK, KbOK, KbType, LcdType
<1> QED
  BY <1>2, <1>3, <1>4 DEF NInit, QuietInv, Inv, AsleepOK, NoKeyIsSleptOver

(* An instruction, from a keyboard and a display that are in order *)
LEMMA ExecuteInv ==
  ASSUME NTypeOK, UNCHANGED <<held, history>>,
         NEW k, KbOK(k, held), NEW d \in LcdType, display_enable = d.enable,
         Execute(k, d)
  PROVE  QuietInv'
<1>1. /\ k.state \in KbStates /\ k.counter \in 0..KBD_RELEASE_DEBOUNCE_CYCLES
      /\ k.down \in BOOLEAN /\ k.buf \in Keys \cup {NoKey}
      /\ d.enable \in BOOLEAN /\ d.content \in Pictures
  BY DEF KbOK, KbType, LcdType
<1>2. phase' \in {"idle", "read", "reset", "check", "free"} /\ reads' \in 0..2
  BY DEF Execute, NTypeOK
<1>3. /\ held' = held /\ held' \in Keys \cup {NoKey}
      /\ tapped' \in BOOLEAN /\ restored' \in BOOLEAN
  BY DEF NTypeOK, history
<1> DEFINE Rest == /\ KbOK(kb', held) /\ lcd' \in LcdType
                   /\ awake' \in BOOLEAN /\ carry' \in BOOLEAN /\ at_zero' \in BOOLEAN
                   /\ display_enable' = lcd'.enable
                   /\ ~awake' => /\ at_zero' /\ carry' = ~lcd'.enable
                                 /\ lcd'.shown = Picture(lcd')
                                 /\ kb'.state \notin {"PRESSED", "WAIT_CYC"}
<1>4. ASSUME op_test_kb(k, d) PROVE Rest
  <2>1. KBD_RELEASE_DEBOUNCE_CYCLES \in 0..KBD_RELEASE_DEBOUNCE_CYCLES
        /\ KBD_RELEASE_DEBOUNCE_CYCLES > 0
    BY NutAssumption
  <2>2. KbOK(kb', held)
    BY <1>4, <1>1, <2>1 DEF op_test_kb, KbOK, KbType, KbStates
  <2>3. (k.state \in {"PRESSED", "RELEASED"}) \in BOOLEAN
    BY SMT
  <2>4. carry' \in BOOLEAN
    BY <1>4, <2>3, Zenon DEF op_test_kb
  <2>5. /\ lcd' = d /\ awake' = TRUE /\ at_zero' = FALSE
        /\ display_enable' = display_enable
    BY <1>4, Zenon DEF op_test_kb
  <2> QED BY <2>2, <2>4, <2>5
<1>5. ASSUME op_other(k, d) PROVE Rest
  BY <1>5 DEF op_other
<1>6. ASSUME op_reset_kb(k, d) PROVE Rest
  <2>1. KbOK(kb', held)
    BY <1>6, <1>1 DEF op_reset_kb, KbOK, KbType, KbStates
  <2> QED BY <1>6, <2>1 DEF op_reset_kb
<1>7. ASSUME op_powoff(k, d) PROVE Rest
  <2>1. KbOK(kb', held) /\ kb'.state # "WAIT_CYC"
    BY <1>7, ScanSleepOK DEF op_powoff
  <2>2. /\ lcd' \in LcdType /\ lcd'.enable = d.enable
        /\ lcd'.shown = Picture(lcd')
    BY <1>7, UpdateOK DEF op_powoff, LcdSleep
  <2> QED BY <1>7, <1>1, <2>1, <2>2 DEF op_powoff
<1>8. ASSUME op_display_off(k, d) PROVE Rest
  <2>1. 2 \in 0..REFRESH_CYCLES
    BY NutAssumption
  <2>2. lcd' \in LcdType /\ lcd'.enable = FALSE
    BY <1>8, <2>1 DEF op_display_off, LcdType
  <2> QED BY <1>8, <2>2 DEF op_display_off
<1>9. ASSUME op_display_toggle(k, d) PROVE Rest
  <2>1. 0 \in 0..REFRESH_CYCLES
    BY NutAssumption
  <2>2. lcd' \in LcdType /\ lcd'.enable = ~d.enable
    BY <1>9, <1>1, <2>1 DEF op_display_toggle, LcdType
  <2> QED BY <1>9, <2>2 DEF op_display_toggle
<1>10. ASSUME NEW v \in Pictures, op_display_write(k, d, v)
       PROVE  Rest
  <2>1. lcd' \in LcdType /\ lcd'.enable = d.enable
    BY <1>10 DEF op_display_write, LcdType
  <2> QED BY <1>10, <2>1 DEF op_display_write
<1>11. Rest
  BY <1>4, <1>5, <1>6, <1>7, <1>8, <1>9, <1>10 DEF Execute
<1> QED
  BY <1>2, <1>3, <1>11
     DEF QuietInv, Inv, NTypeOK, KbOK, KbType, LcdType, AsleepOK, NoKeyIsSleptOver

-----------------------------------------------------------------------------
(* A cycle of the sleeping processor only moves the scanner; one of the    *)
(* processor that is awake, or is woken by the scanner, is an instruction. *)
LEMMA CycleInv ==
  Inv /\ Cycle => Inv' /\ (NoKeyIsSleptOver => NoKeyIsSleptOver')
<1> SUFFICES ASSUME Inv, Cycle PROVE Inv' /\ (NoKeyIsSleptOver => NoKeyIsSleptOver')
  OBVIOUS
<1> DEFINE k == ScanCycle(kb)
           d == LcdCycle(lcd)
<1>1. KbOK(k, held) /\ (k.state = "PRESSED" => kb.state \in {"PRESSED", "WAIT_CYC"})
      /\ (k.state = "WAIT_CYC" => kb.state = "WAIT_CYC")
  BY ScanCycleOK DEF Inv
<1>2. /\ d \in LcdType /\ d.enable = lcd.enable
      /\ lcd.shown = Picture(lcd) => d.shown = Picture(d)
  BY LcdCycleOK DEF Inv, NTypeOK, LcdType
<1>3. CASE Execute(k, d)
  BY <1>1, <1>2, <1>3, ExecuteInv DEF Inv, Cycle, QuietInv
<1>4. CASE kb' = k /\ lcd' = d /\ UNCHANGED <<cpu, display_enable, firmware, held, history>>
  BY <1>1, <1>2, <1>4
     DEF Inv, NTypeOK, KbOK, KbType, LcdType, AsleepOK, NoKeyIsSleptOver, cpu, firmware, history
<1> QED BY <1>3, <1>4 DEF Cycle

(* A key, an alarm and a reset *)
LEMMA PressKeyInv ==
  ASSUME Inv, NEW key \in Keys, PressKey(key)
  PROVE  Inv' /\ (NoKeyIsSleptOver => NoKeyIsSleptOver')
<1>1. /\ held' = key /\ key # NoKey /\ held = NoKey /\ reads' = 0 /\ phase' = phase
      /\ tapped' = tapped /\ restored' = restored
  BY NutAssumption DEF PressKey, history
<1>2. kb.down = FALSE /\ kb \in KbType
  BY <1>1 DEF Inv, KbOK, KbType
<1>3. CASE UNCHANGED <<kb, cpu, lcd, display_enable>>
  BY <1>1, <1>2, <1>3
     DEF Inv, NTypeOK, KbOK, KbType, AsleepOK, NoKeyIsSleptOver, cpu
<1>4. CASE ~UNCHANGED <<kb, cpu, lcd, display_enable>>
  <2>1. /\ kb' = [kb EXCEPT !.buf = key, !.down = TRUE,
                            !.state = IF @ = "IDLE" THEN "PRESSED" ELSE @]
        /\ awake' = TRUE /\ lcd' = Update(lcd) /\ display_enable' = lcd.enable
        /\ UNCHANGED <<carry, at_zero>>
    BY <1>4 DEF PressKey, nut_press_key
  <2>2. KbOK(kb', key)
    BY <1>1, <1>2, <2>1 DEF Inv, KbOK, KbType, KbStates
  <2>3. lcd' \in LcdType /\ lcd'.enable = lcd.enable
    BY <2>1, UpdateOK DEF Inv, NTypeOK, LcdType
  <2> QED
    BY <1>1, <2>1, <2>2, <2>3
       DEF Inv, NTypeOK, KbOK, KbType, LcdType, AsleepOK, NoKeyIsSleptOver
<1> QED BY <1>3, <1>4

LEMMA ReleaseKeyInv ==
  Inv /\ ReleaseKey => Inv' /\ (NoKeyIsSleptOver => NoKeyIsSleptOver')
<1> SUFFICES ASSUME Inv, ReleaseKey PROVE Inv' /\ (NoKeyIsSleptOver => NoKeyIsSleptOver')
  OBVIOUS
<1>1. /\ kb' = [kb EXCEPT !.down = FALSE,
                          !.state = IF @ = "PRESSED" THEN "RELEASED" ELSE @]
      /\ UNCHANGED <<cpu, lcd, display_enable, firmware, restored>> /\ held' = NoKey
      /\ tapped' \in BOOLEAN
  BY DEF ReleaseKey, nut_release_key
<1>2. KbOK(kb', NoKey) /\ (kb.state # "WAIT_CYC" => kb'.state # "WAIT_CYC")
      /\ kb'.state # "PRESSED"
  BY <1>1 DEF Inv, KbOK, KbType, KbStates
<1> QED
  BY <1>1, <1>2
     DEF Inv, NTypeOK, KbOK, KbType, AsleepOK, NoKeyIsSleptOver, cpu, firmware, history

LEMMA ResetInv == Inv /\ Reset => Inv' /\ NoKeyIsSleptOver'
<1> SUFFICES ASSUME Inv, Reset PROVE Inv' /\ NoKeyIsSleptOver'
  OBVIOUS
<1>1. kb' = [kb EXCEPT !.state = "IDLE"] /\ held' = held
      /\ awake' = TRUE /\ carry' = TRUE /\ at_zero' = TRUE
      /\ display_enable' = FALSE /\ phase' = "idle" /\ reads' = reads
      /\ tapped' = tapped /\ restored' = restored
  BY DEF Reset, history
<1>2. KbOK(kb', held')
  BY <1>1 DEF Inv, KbOK, KbType, KbStates
<1>3. 0 \in 0..REFRESH_CYCLES
  BY NutAssumption
<1>4. lcd' \in LcdType /\ lcd'.enable = FALSE
  BY <1>3 DEF Reset, Inv, NTypeOK, LcdType
<1> QED
  BY <1>1, <1>2, <1>4
     DEF Inv, NTypeOK, KbOK, KbType, LcdType, AsleepOK, NoKeyIsSleptOver

LEMMA DeviceWakesInv ==
  Inv /\ DeviceWakes => Inv' /\ (NoKeyIsSleptOver => NoKeyIsSleptOver')
BY DEF DeviceWakes, Inv, NTypeOK, KbOK, KbType, AsleepOK, NoKeyIsSleptOver, firmware,
       history

(* Restoring a state file keeps everything but NoKeyIsSleptOver. *)
LEMMA RestoreInv == Inv /\ Restore => Inv'
<1> SUFFICES ASSUME Inv, Restore PROVE Inv'
  OBVIOUS
<1>1. PICK on \in BOOLEAN, v \in Pictures, asleep \in BOOLEAN :
        /\ awake' = ~asleep
        /\ IF asleep THEN carry' = ~on /\ at_zero' = TRUE
                     ELSE carry' \in BOOLEAN /\ at_zero' = FALSE
        /\ lcd' = Update([lcd EXCEPT !.enable = on, !.content = v])
        /\ display_enable' = on
  BY DEF Restore
<1> DEFINE d == [lcd EXCEPT !.enable = on, !.content = v]
<1>2. d \in LcdType /\ d.enable = on
  BY DEF Inv, NTypeOK, LcdType
<1>3. lcd' \in LcdType /\ lcd'.enable = on /\ lcd'.shown = Picture(lcd')
  BY <1>1, <1>2, UpdateOK
<1>4. /\ phase' = "idle" /\ reads' = reads /\ held' = held /\ kb' = kb
      /\ tapped' = tapped /\ restored' = TRUE
  BY DEF Restore
<1>5. awake' \in BOOLEAN /\ carry' \in BOOLEAN /\ at_zero' \in BOOLEAN
  BY <1>1
<1>6. ~awake' => at_zero' /\ carry' = ~on
  BY <1>1
<1> QED
  BY <1>1, <1>3, <1>4, <1>5, <1>6 DEF Inv, NTypeOK, KbOK, KbType, LcdType, AsleepOK

LEMMA NextInv == Inv /\ [NNext]_nvars => Inv'
<1>1. Inv /\ UNCHANGED nvars => Inv'
  BY DEF nvars, cpu, firmware, history, Inv, NTypeOK, KbOK, KbType, AsleepOK
<1> QED
  BY <1>1, CycleInv, PressKeyInv, ReleaseKeyInv, ResetInv, DeviceWakesInv, RestoreInv
     DEF NNext

LEMMA NextQuiet == QuietInv /\ [NNext]_nvars => QuietInv'
<1>1. QuietInv /\ UNCHANGED nvars => NoKeyIsSleptOver'
  BY DEF nvars, cpu, history, QuietInv, NoKeyIsSleptOver
<1>2. Restore => NoKeyIsSleptOver'
  BY DEF Restore, NoKeyIsSleptOver
<1> QED
  BY <1>1, <1>2, NextInv, CycleInv, PressKeyInv, ReleaseKeyInv, ResetInv, DeviceWakesInv
     DEF NNext, QuietInv

LEMMA InvCorrect == NSpec => []Inv
BY InvInit, NextInv, PTL DEF NSpec, QuietInv

LEMMA QuietCorrect == NSpec => []QuietInv
BY InvInit, NextQuiet, PTL DEF NSpec

(* Only what DeepSleepEndsWithON names ends a deep sleep: a cycle has no   *)
(* debounce time to run out, and every key but ON is ignored.              *)
LEMMA NextKeepsDeepSleep ==
  QuietInv /\ [NNext]_nvars =>
    [~restored /\ ~awake /\ ~lcd.enable /\ awake' =>
       PressKey(ON) \/ Reset \/ DeviceWakes \/ Restore]_nvars
<1> SUFFICES ASSUME QuietInv, NNext, ~restored, ~awake, ~lcd.enable, awake'
             PROVE  PressKey(ON) \/ Reset \/ DeviceWakes \/ Restore
  OBVIOUS
<1>1. kb.state # "WAIT_CYC" /\ ~display_enable
  BY DEF QuietInv, NoKeyIsSleptOver, Inv, AsleepOK
<1>2. ~Cycle
  BY <1>1 DEF Cycle, cpu
<1>3. ASSUME NEW key \in Keys, PressKey(key) PROVE key = ON
  BY <1>1, <1>3 DEF PressKey, nut_press_key, cpu
<1>4. ~ReleaseKey
  BY DEF ReleaseKey, nut_release_key, cpu
<1> QED BY <1>2, <1>3, <1>4 DEF NNext

-----------------------------------------------------------------------------
(* Where the firmware is with a key that its user holds until it was read  *)
(* and the keyboard that the scanner shows it: a key that was read and is  *)
(* still held is being waited for, or was forgotten by a reset; what is    *)
(* read is a key that was not, and a key is released only while the        *)
(* firmware waits for that.                                                *)
HandlesOnce(k, r, p) ==
  /\ r <= 1
  /\ r = 1 /\ held # NoKey => k.state = "IDLE" \/ (k.state = "PRESSED" /\ p \in {"reset", "check"})
  /\ p = "read" => k.state = "PRESSED" /\ r = 0
  /\ k.state = "RELEASED" => p \in {"reset", "check"}
  /\ k.state = "WAIT_CHK" => p = "check"

OnceInv == ~tapped /\ ~restored => HandlesOnce(kb, reads, phase) /\ (~awake => phase = "idle")

(* The scanner's turn at the beginning of a cycle and at a power off *)
LEMMA ScannerHandlesOnce ==
  ASSUME NEW k, KbOK(k, held), NEW r, NEW p, HandlesOnce(k, r, p)
  PROVE  HandlesOnce(ScanCycle(k), r, p) /\ HandlesOnce(ScanSleep(k), r, p)
<1>1. k.state # "WAIT_CYC" \/ ~(r = 1 /\ held # NoKey)
  BY DEF HandlesOnce
<1>2. k.state # "WAIT_CYC" => ScanCycle(k) = k /\ ScanSleep(k) = k
  BY DEF ScanCycle, ScanSleep
<1>3. k.state = "WAIT_CYC" =>
        ScanCycle(k).state \in {"WAIT_CYC", "PRESSED", "IDLE"} /\ ScanSleep(k).state \in {"PRESSED", "IDLE"}
  BY DEF ScanCycle, ScanSleep, Settle, KbOK, KbType
<1> QED BY <1>1, <1>2, <1>3 DEF HandlesOnce

(* An instruction: the firmware reads a key that it has not read yet, and  *)
(* then waits for its release.                                             *)
LEMMA ExecuteHandlesOnce ==
  ASSUME NTypeOK, UNCHANGED held, NEW k, KbOK(k, held), HandlesOnce(k, reads, phase),
         NEW d, Execute(k, d)
  PROVE  HandlesOnce(kb, reads, phase)' /\ (~awake' => phase' = "idle")
<1>1. k \in KbType /\ (k.state = "PRESSED" => held # NoKey) /\ reads \in 0..2
  BY DEF KbOK, NTypeOK
<1>2. CASE /\ phase \in {"idle", "check"} /\ op_test_kb(k, d) /\ UNCHANGED reads
           /\ phase' = IF ~carry' THEN "free" ELSE IF phase = "idle" THEN "read" ELSE "reset"
  <2>1. CASE k.state \in {"PRESSED", "RELEASED"}
    <3>1. carry' /\ awake'
      <4>1. k.state \in {"PRESSED", "RELEASED"} /\ carry' = (k.state \in {"PRESSED", "RELEASED"})
        BY <1>2, <2>1, Zenon DEF op_test_kb
      <4> QED BY <1>2, <4>1, Zenon DEF op_test_kb
    <3>2. phase' = IF phase = "idle" THEN "read" ELSE "reset"
      BY <1>2, <3>1, Zenon
    <3>3. kb' = k /\ reads' = reads /\ held' = held
      BY <1>2, <2>1 DEF op_test_kb
    <3>4. phase = "idle" => k.state = "PRESSED" /\ reads = 0
      BY <1>1, <2>1 DEF HandlesOnce
    <3> QED BY <1>2, <2>1, <3>1, <3>2, <3>3, <3>4 DEF HandlesOnce
  <2>2. CASE k.state \notin {"PRESSED", "RELEASED"}
    <3>1. ~carry'
      <4>1. carry' = (k.state \in {"PRESSED", "RELEASED"})
        BY <1>2, Zenon DEF op_test_kb
      <4>2. carry' => k.state \in {"PRESSED", "RELEASED"}
        BY <4>1, Zenon
      <4> QED BY <2>2, <4>2, Zenon
    <3>2. phase' = "free" /\ awake'
      BY <1>2, <3>1, Zenon DEF op_test_kb
    <3>3. kb'.state \in {"IDLE", "WAIT_CYC"} /\ (k.state = "IDLE" => kb'.state = "IDLE")
      BY <1>1, <1>2, <2>2 DEF op_test_kb, KbType, KbStates
    <3> QED BY <1>2, <2>2, <3>2, <3>3 DEF HandlesOnce
  <2> QED BY <2>1, <2>2
<1>3. CASE /\ phase = "read" /\ op_other(k, d) /\ phase' = "reset"
           /\ reads' = IF held # NoKey /\ k.buf = held /\ reads < 2 THEN reads + 1 ELSE reads
  BY <1>1, <1>3 DEF op_other, HandlesOnce
<1>4. CASE phase = "reset" /\ op_reset_kb(k, d) /\ phase' = "check" /\ UNCHANGED reads
  <2>1. awake' /\ kb'.state = IF k.state = "RELEASED" THEN "WAIT_CHK" ELSE k.state
    BY <1>1, <1>4 DEF op_reset_kb, KbType
  <2> QED BY <1>1, <1>4, <2>1 DEF HandlesOnce
<1>5. CASE phase = "free" /\ kb' \in {k, ScanSleep(k)} /\ phase' = "idle" /\ UNCHANGED reads
  <2>1. HandlesOnce(kb', reads, "free")
    BY <1>5, ScannerHandlesOnce
  <2> QED BY <1>1, <1>5, <2>1 DEF HandlesOnce
<1>6. op_other(k, d) \/ op_powoff(k, d) \/ op_display_off(k, d) \/ op_display_toggle(k, d)
      \/ (\E v \in Pictures : op_display_write(k, d, v)) => kb' \in {k, ScanSleep(k)}
  BY DEF op_other, op_powoff, op_display_off, op_display_toggle, op_display_write
<1> QED BY <1>2, <1>3, <1>4, <1>5, <1>6 DEF Execute

LEMMA NextOnce == QuietInv /\ OnceInv /\ [NNext]_nvars => OnceInv'
<1> SUFFICES ASSUME QuietInv, OnceInv, [NNext]_nvars, ~tapped', ~restored'
             PROVE  HandlesOnce(kb, reads, phase)' /\ (~awake' => phase' = "idle")
  BY DEF OnceInv
<1>1. Inv /\ NTypeOK /\ KbOK(kb, held) /\ ~tapped /\ ~restored
  <2>1. tapped' = tapped \/ (tapped' = (tapped \/ (reads = 0 /\ kb.state # "IDLE")))
    BY DEF NNext, Cycle, PressKey, ReleaseKey, Reset, DeviceWakes, Restore, history, nvars
  <2>2. restored' = restored
    BY DEF NNext, Cycle, PressKey, ReleaseKey, Reset, DeviceWakes, Restore, history, nvars
  <2>3. ~tapped /\ ~restored
    <3>1. CASE tapped' = tapped
      BY <2>2, <3>1
    <3>2. CASE tapped' = (tapped \/ (reads = 0 /\ kb.state # "IDLE"))
      <4>1. tapped => tapped'
        BY <3>2, Zenon
      <4> QED BY <2>2, <4>1
    <3> QED BY <2>1, <3>1, <3>2
  <2> QED BY <2>3, Zenon DEF QuietInv, Inv
<1>2. HandlesOnce(kb, reads, phase) /\ (~awake => phase = "idle") /\ kb \in KbType /\ reads \in 0..2
  BY <1>1 DEF OnceInv, KbOK, NTypeOK
<1>3. CASE Cycle
  <2> DEFINE k == ScanCycle(kb)
             d == LcdCycle(lcd)
  <2>1. KbOK(k, held) /\ HandlesOnce(k, reads, phase)
    BY <1>1, <1>2, ScanCycleOK, ScannerHandlesOnce
  <2>2. CASE Execute(k, d)
    BY <1>1, <1>3, <2>1, <2>2, ExecuteHandlesOnce DEF Cycle
  <2>3. CASE kb' = k /\ UNCHANGED <<cpu, firmware, held>>
    BY <1>2, <2>1, <2>3 DEF HandlesOnce, cpu, firmware
  <2> QED BY <1>3, <2>2, <2>3 DEF Cycle
<1>4. ASSUME NEW key \in Keys, PressKey(key)
      PROVE  HandlesOnce(kb, reads, phase)' /\ (~awake' => phase' = "idle")
  <2>1. reads' = 0 /\ phase' = phase /\ held = NoKey /\ ~kb.down
    BY <1>1, <1>4 DEF PressKey, KbOK
  <2>2. awake' = TRUE \/ (UNCHANGED <<kb, cpu>>)
    BY <1>4 DEF PressKey, nut_press_key
  <2>3. kb'.state = kb.state \/ kb'.state = "PRESSED"
    BY <1>2, <1>4 DEF PressKey, nut_press_key, KbType
  <2>4. phase # "read"
    BY <1>1, <1>2, <2>1 DEF HandlesOnce, KbOK
  <2> QED BY <1>2, <2>1, <2>2, <2>3, <2>4 DEF HandlesOnce, cpu
<1>5. CASE ReleaseKey
  <2>1. UNCHANGED <<phase, reads, cpu>> /\ held' = NoKey
        /\ kb'.state = IF kb.state = "PRESSED" THEN "RELEASED" ELSE kb.state
    BY <1>2, <1>5 DEF ReleaseKey, nut_release_key, firmware, KbType
  <2>2. kb.state = "PRESSED" => reads = 1
    <3>1. (reads = 0 /\ kb.state # "IDLE") => tapped'
      BY <1>5, Zenon DEF ReleaseKey
    <3> QED BY <1>2, <3>1 DEF HandlesOnce
  <2>3. held # NoKey
    BY <1>5 DEF ReleaseKey
  <2> QED BY <1>2, <2>1, <2>2, <2>3 DEF HandlesOnce, cpu
<1>6. CASE Reset
  <2>1. kb'.state = "IDLE" /\ phase' = "idle" /\ reads' = reads
    BY <1>2, <1>6 DEF Reset, KbType
  <2> QED BY <1>2, <2>1 DEF HandlesOnce
<1>7. CASE DeviceWakes
  BY <1>2, <1>7 DEF DeviceWakes, HandlesOnce, firmware
<1>8. CASE UNCHANGED nvars
  BY <1>2, <1>8 DEF nvars, cpu, firmware, HandlesOnce
<1>9. ~Restore
  BY DEF Restore
<1> QED BY <1>3, <1>4, <1>5, <1>6, <1>7, <1>8, <1>9 DEF NNext

-----------------------------------------------------------------------------
(* The variables of the processor, the keyboard scanner and the display    *)
(* have their types, counters within their bounds.                         *)
THEOREM NTypeCorrect == NSpec => []NTypeOK
BY InvCorrect, PTL DEF Inv

(* The scanner waits only with time left, offers as pressed only a key     *)
(* that is down, and no key sticks, whatever state files are restored.     *)
THEOREM ScannerCorrect == NSpec => []ScannerConsistent
<1>1. Inv => ScannerConsistent
  BY DEF Inv, KbOK, ScannerConsistent
<1> QED BY <1>1, InvCorrect, PTL

(* A sleeping processor continues at 0 with the carry of its kind of       *)
(* sleep, and the window shows its display.                                *)
THEOREM WakesLikeItSleptCorrect == NSpec => []WakesLikeItSlept
<1>1. Inv => WakesLikeItSlept
  BY DEF Inv, AsleepOK, WakesLikeItSlept
<1> QED BY <1>1, InvCorrect, PTL

(* No key is slept over, as long as no state file was restored.            *)
THEOREM NoKeyIsSleptOverCorrect == NSpec => []NoKeyIsSleptOver
BY QuietCorrect, PTL DEF QuietInv

(* Deep sleep ends with ON, a reset or a device, as long as no state file  *)
(* was restored.                                                           *)
THEOREM DeepSleepEndsWithONCorrect == NSpec => DeepSleepEndsWithON
BY QuietCorrect, NextKeepsDeepSleep, PTL DEF NSpec, DeepSleepEndsWithON

(* A key is read once, as long as no state file was restored and no key    *)
(* was released before the firmware had read it.                           *)
THEOREM ReadOnceCorrect == NSpec => []ReadOnce
<1>1. NInit => OnceInv
  BY DEF NInit, OnceInv, HandlesOnce
<1>2. OnceInv => ReadOnce
  BY DEF OnceInv, HandlesOnce, ReadOnce
<1> QED BY <1>1, <1>2, NextOnce, QuietCorrect, PTL DEF NSpec

-----------------------------------------------------------------------------
(***************************************************************************)
(* The data: what one instruction moves, a later one finds.                *)
(***************************************************************************)
(* A digit as four bits, and back.                                         *)
Nibble == 0..15
Valued(S) == (IF 0 \in S THEN 1 ELSE 0) + (IF 1 \in S THEN 2 ELSE 0)
               + (IF 2 \in S THEN 4 ELSE 0) + (IF 3 \in S THEN 8 ELSE 0)

(* The bits of a digit, read off its value *)
LEMMA BitsAre ==
  ASSUME NEW x \in Nibble
  PROVE  /\ 0 \in BitsOf(x) <=> x % 2 = 1
         /\ 1 \in BitsOf(x) <=> (x \div 2) % 2 = 1
         /\ 2 \in BitsOf(x) <=> (x \div 4) % 2 = 1
         /\ 3 \in BitsOf(x) <=> (x \div 8) % 2 = 1
BY DEF Nibble, BitsOf

(* A digit is the sum of its bits. *)
LEMMA ValueOfBits ==
  ASSUME NEW x \in Nibble
  PROVE  Valued(BitsOf(x)) = x
<1>1. x = (x % 2) + 2 * ((x \div 2) % 2) + 4 * ((x \div 4) % 2) + 8 * ((x \div 8) % 2)
  BY DEF Nibble
<1>2. x % 2 \in {0, 1} /\ (x \div 2) % 2 \in {0, 1} /\ (x \div 4) % 2 \in {0, 1} /\ (x \div 8) % 2 \in {0, 1}
  BY DEF Nibble
<1> QED BY <1>1, <1>2, BitsAre DEF Valued

(* Four bits make a digit. *)
LEMMA ValueIsNibble ==
  ASSUME NEW S
  PROVE  Valued(S) \in Nibble
BY DEF Valued, Nibble

(* The bits of that sum are the bits summed. *)
LEMMA BitsOfValue ==
  ASSUME NEW S \in SUBSET (0..3)
  PROVE  BitsOf(Valued(S)) = S
<1> DEFINE x == Valued(S)
<1>1. x \in Nibble
  BY ValueIsNibble
<1>2. /\ x % 2 = 1 <=> 0 \in S
      /\ (x \div 2) % 2 = 1 <=> 1 \in S
      /\ (x \div 4) % 2 = 1 <=> 2 \in S
      /\ (x \div 8) % 2 = 1 <=> 3 \in S
  BY DEF Valued
<1>3. BitsOf(x) \subseteq 0..3
  BY DEF BitsOf
<1> HIDE DEF x
<1>4. \A b \in 0..3 : b \in BitsOf(x) <=> b \in S
  BY <1>1, <1>2, BitsAre
<1>5. BitsOf(x) = S
  BY <1>3, <1>4
<1> QED BY <1>5 DEF x

Four(s, first) == {b \in 0..3 : first + b \in s}

(* What the code collects from four status bits is their digit. *)
LEMMA StatusDigit ==
  ASSUME NEW d, NEW first
  PROVE  get_s_bits(d, first) = Valued(Four(d.s, first))
BY DEF get_s_bits, Valued, Four

(* The status bits from a pair of digits, and back.                        *)
Up(S) == {b + 4 : b \in S}
High(s) == {b \in s : b > 7}
SetBits(s, x, y) == High(s) \cup BitsOf(x) \cup Up(BitsOf(y))

(* The upper digit lies four bits higher. *)
LEMMA UpIs ==
  ASSUME NEW S \in SUBSET (0..3)
  PROVE  /\ Up(S) \in SUBSET Nat
         /\ \A b \in Nat : b \in Up(S) <=> b >= 4 /\ b - 4 \in S
<1>1. ASSUME NEW b \in Nat, b >= 4, b - 4 \in S PROVE b \in Up(S)
  <2>1. b = (b - 4) + 4
    OBVIOUS
  <2> QED BY <1>1, <2>1 DEF Up
<1>2. ASSUME NEW b \in Nat, b \in Up(S) PROVE b >= 4 /\ b - 4 \in S
  <2>1. PICK y \in S : b = y + 4
    BY <1>2 DEF Up
  <2>2. y \in Nat /\ b - 4 = y /\ b >= 4
    BY <2>1
  <2> QED BY <2>2
<1>3. Up(S) \in SUBSET Nat
  BY DEF Up
<1> QED BY <1>1, <1>2, <1>3

Composed(u, s, low, high) ==
  \A b \in Nat : b \in u <=> (b \in s /\ b > 7) \/ b \in low \/ (b >= 4 /\ b - 4 \in high)

(* Which bits are set after the lower eight were replaced *)
LEMMA InSetBits ==
  ASSUME NEW s \in SUBSET Nat, NEW x, NEW y
  PROVE  /\ SetBits(s, x, y) \in SUBSET Nat
         /\ Composed(SetBits(s, x, y), s, BitsOf(x), BitsOf(y))
<1> DEFINE low == BitsOf(x)
           high == BitsOf(y)
<1>1. low \in SUBSET (0..3) /\ high \in SUBSET (0..3)
  BY DEF BitsOf
<1>2. SetBits(s, x, y) = High(s) \cup low \cup Up(high)
  BY DEF SetBits
<1>6. High(s) \in SUBSET Nat /\ \A b \in Nat : b \in High(s) <=> b \in s /\ b > 7
  BY DEF High
<1> HIDE DEF low, high
<1>3. Up(high) \in SUBSET Nat /\ \A b \in Nat : b \in Up(high) <=> b >= 4 /\ b - 4 \in high
  BY <1>1, UpIs
<1>4. SetBits(s, x, y) \in SUBSET Nat
  <2>1. low \in SUBSET Nat
    BY <1>1
  <2> QED BY <1>2, <1>3, <1>6, <2>1
<1>5. Composed(SetBits(s, x, y), s, low, high)
  BY <1>2, <1>3, <1>6 DEF Composed
<1> QED BY <1>4, <1>5 DEF low, high

(* Replaced bits are read back as the pair they came from, and the upper bits stay. *)
LEMMA BitsOfPair ==
  ASSUME NEW s \in SUBSET Nat, NEW x \in Nibble, NEW y \in Nibble
  PROVE  /\ SetBits(s, x, y) \in SUBSET Nat
         /\ Four(SetBits(s, x, y), 0) = BitsOf(x)
         /\ Four(SetBits(s, x, y), 4) = BitsOf(y)
         /\ High(SetBits(s, x, y)) = High(s)
<1> DEFINE low == BitsOf(x)
           high == BitsOf(y)
           all == SetBits(s, x, y)
<1>1. low \in SUBSET (0..3) /\ high \in SUBSET (0..3)
  BY DEF BitsOf
<1>2. all \in SUBSET Nat
  BY InSetBits
<1>3. Composed(all, s, low, high)
  BY InSetBits
<1> HIDE DEF low, high, all
<1>4. Four(all, 0) = low
  <2>1. \A b \in 0..3 : b \in Nat /\ 0 + b = b /\ ~(b > 7) /\ ~(b >= 4)
    OBVIOUS
  <2>2. \A b \in 0..3 : 0 + b \in all <=> b \in low
    BY <1>3, <2>1 DEF Composed
  <2> QED BY <1>1, <2>2 DEF Four
<1>5. Four(all, 4) = high
  <2>1. \A b \in 0..3 : 4 + b \in Nat /\ 4 + b >= 4 /\ (4 + b) - 4 = b /\ ~(4 + b > 7) /\ 4 + b \notin low
    BY <1>1
  <2>2. \A b \in 0..3 : 4 + b \in all <=> b \in high
    BY <1>3, <2>1 DEF Composed
  <2> QED BY <1>1, <2>2 DEF Four
<1>6. High(all) = High(s)
  <2>1. \A b \in Nat : b \in all /\ b > 7 <=> b \in s /\ b > 7
    BY <1>1, <1>3 DEF Composed
  <2> QED BY <1>2, <2>1 DEF High
<1> QED BY <1>2, <1>4, <1>5, <1>6 DEF all, low, high

(* Bits replaced by what was once read from them are as they were. *)
LEMMA BitsComeBack ==
  ASSUME NEW s \in SUBSET Nat, NEW t \in SUBSET Nat, High(t) = High(s),
         NEW x, NEW y, x = Valued(Four(s, 0)), y = Valued(Four(s, 4))
  PROVE  SetBits(t, x, y) = s
<1>1. BitsOf(x) = Four(s, 0) /\ BitsOf(y) = Four(s, 4)
  <2>1. Four(s, 0) \in SUBSET (0..3) /\ Four(s, 4) \in SUBSET (0..3)
    BY DEF Four
  <2> QED BY <2>1, BitsOfValue
<1>2. SetBits(t, x, y) \in SUBSET Nat
  BY InSetBits
<1>3. Composed(SetBits(t, x, y), t, BitsOf(x), BitsOf(y))
  BY InSetBits
<1>4. \A b \in Nat : b \in t /\ b > 7 <=> b \in s /\ b > 7
  BY DEF High
<1>5. \A b \in Nat : b \in BitsOf(x) <=> b \in 0..3 /\ b \in s
  BY <1>1 DEF Four
<1>6. \A b \in Nat : b >= 4 /\ b - 4 \in BitsOf(y) <=> b \in 4..7 /\ b \in s
  <2>1. \A b \in Nat : b >= 4 => 4 + (b - 4) = b /\ (b - 4 \in 0..3 <=> b \in 4..7)
    OBVIOUS
  <2>2. \A b \in Nat : b - 4 \in BitsOf(y) <=> b - 4 \in 0..3 /\ 4 + (b - 4) \in s
    BY <1>1 DEF Four
  <2> QED BY <2>1, <2>2
<1>7. \A b \in Nat : b \in SetBits(t, x, y) <=> b \in s
  BY <1>3, <1>4, <1>5, <1>6 DEF Composed
<1> QED BY <1>2, <1>7

-----------------------------------------------------------------------------
(* The registers *)
Reg == [Digits -> Nibble]
Pairs == Nibble \X Nibble

NutDataRegs ==
  [a : Reg, c : Reg, m : Reg, n : Reg, g : Pairs, p : Digits, q : Digits, q_sel : BOOLEAN,
   s : SUBSET Nat, fo : Pairs, carry : BOOLEAN, ldi : BOOLEAN, ram_addr : Nat, pf_addr : Nat,
   ram : [ram_exists -> Reg], pf : [pf_exists -> Reg]]

WithC(d, r) == [d EXCEPT !.c = r]
WithG(d, r) == [d EXCEPT !.g = r]
WithS(d, r) == [d EXCEPT !.s = r]
WithFo(d, r) == [d EXCEPT !.fo = r]
WithCarryBit(d, r) == [d EXCEPT !.carry = r]
WithA(d, r) == [d EXCEPT !.a = r]
WithM(d, r) == [d EXCEPT !.m = r]
WithN(d, r) == [d EXCEPT !.n = r]

(* A register changed within its type leaves the state typed. *)
LEMMA RegistersChange ==
  ASSUME NEW d \in NutDataRegs
  PROVE  /\ \A r \in Reg : /\ WithC(d, r) \in NutDataRegs /\ WithA(d, r) \in NutDataRegs
                           /\ WithM(d, r) \in NutDataRegs /\ WithN(d, r) \in NutDataRegs
         /\ \A r \in Pairs : WithG(d, r) \in NutDataRegs /\ WithFo(d, r) \in NutDataRegs
         /\ \A r \in SUBSET Nat : WithS(d, r) \in NutDataRegs
         /\ \A r \in BOOLEAN : /\ WithCarryBit(d, r) \in NutDataRegs /\ [d EXCEPT !.ldi = r] \in NutDataRegs
                               /\ [d EXCEPT !.q_sel = r] \in NutDataRegs
         /\ \A r \in Digits : [d EXCEPT !.p = r] \in NutDataRegs /\ [d EXCEPT !.q = r] \in NutDataRegs
         /\ \A r \in Nat : [d EXCEPT !.ram_addr = r] \in NutDataRegs /\ [d EXCEPT !.pf_addr = r] \in NutDataRegs
         /\ \A r \in [ram_exists -> Reg] : [d EXCEPT !.ram = r] \in NutDataRegs
BY DEF NutDataRegs, WithC, WithG, WithS, WithFo, WithA, WithM, WithN, WithCarryBit

DataWord == 0..1023

(* The argument of a word, and what the map makes of it *)
LEMMA WordParts ==
  ASSUME NEW w \in DataWord
  PROVE  Arg4(w) \in 0..15 /\ (Mapped(w) = -1 \/ Mapped(w) \in 0..13)
BY DEF DataWord, Arg4, Mapped, nut_tmap

PointerOps == {"op_dec_pt", "op_inc_pt", "op_set_pt", "op_test_pt", "op_test_pq", "op_sel_p", "op_sel_q", "op_lc"}
GOps == {"op_c_to_g", "op_g_to_c", "op_c_exch_g"}
MNOps == {"op_c_to_m", "op_m_to_c", "op_c_exch_m", "op_c_to_n", "op_n_to_c", "op_c_exch_n"}
COps == {"op_rcr", "op_or", "op_and", "op_clear_abc", "op_keys_to_c", "op_ldi"}
BusOps == {"op_c_to_dadd", "op_c_to_pfad", "op_read_reg_n", "op_write_reg_n", "op_c_to_data"}
SOps == {"op_clr_s", "op_set_s", "op_test_s", "op_clear_all_s", "op_c_to_s", "op_s_to_c", "op_c_exch_s",
         "op_sb_to_f", "op_f_to_sb", "op_f_exch_sb"}
OfWord(w, op) ==
  op \in {"op_clr_s", "op_set_s", "op_test_s", "op_test_pt", "op_set_pt", "op_rcr"} => Mapped(w) \in Nat

(* The words of a mapped row that stand for something else *)
LEMMA NotMapped == Mapped(\h3c4) = -1 /\ Mapped(\h3d4) = -1 /\ Mapped(\h3dc) = -1
BY DEF Mapped, Arg4, nut_tmap

(* Every word decodes to one of these groups, a mapped row only with a mapped argument. *)
LEMMA DataOps ==
  ASSUME NEW w \in DataWord
  PROVE  /\ NutDataOp(w) \in PointerOps \cup GOps \cup MNOps \cup COps \cup BusOps \cup SOps \cup {"another"}
         /\ OfWord(w, NutDataOp(w))
<1> DEFINE row == w % 64
           op == NutDataOp(w)
<1>1. CASE row \in {\h04, \h08, \h0c, \h14, \h1c, \h3c} /\ Mapped(w) # -1
  <2>1. op \in {"op_clr_s", "op_set_s", "op_test_s", "op_test_pt", "op_set_pt", "op_rcr"}
    BY <1>1, NotMapped, SMTT(60) DEF DataWord, NutDataOp
  <2>2. Mapped(w) \in 0..13
    BY <1>1, WordParts
  <2>3. Mapped(w) \in Nat
    BY <2>2
  <2> HIDE DEF op, row
  <2>4. OfWord(w, op)
    BY <2>3 DEF OfWord
  <2>5. op \in PointerOps \cup SOps \cup COps
    BY <2>1 DEF PointerOps, SOps, COps
  <2> QED BY <2>4, <2>5 DEF op
<1>2. CASE ~(row \in {\h04, \h08, \h0c, \h14, \h1c, \h3c} /\ Mapped(w) # -1)
  <2>1. op \in {"op_lc", "op_write_reg_n", "op_read_reg_n",
                "op_clear_all_s", "op_dec_pt", "op_inc_pt", "op_c_to_g", "op_g_to_c",
                "op_c_exch_g", "op_c_to_m", "op_m_to_c", "op_c_exch_m", "op_sb_to_f",
                "op_f_to_sb", "op_f_exch_sb", "op_c_to_s", "op_s_to_c", "op_c_exch_s",
                "op_sel_p", "op_sel_q", "op_test_pq", "op_clear_abc", "op_keys_to_c",
                "op_ldi", "op_c_to_n", "op_n_to_c", "op_c_exch_n", "op_c_to_dadd",
                "op_c_to_pfad", "op_c_to_data", "op_or", "op_and", "another"}
    BY <1>2, SMTT(60) DEF DataWord, NutDataOp
  <2> QED BY <2>1 DEF OfWord, PointerOps, GOps, MNOps, COps, BusOps, SOps
<1> QED BY <1>1, <1>2

(* The pointer stays on a digit. *)
LEMMA PointersTyped ==
  ASSUME NEW d \in NutDataRegs
  PROVE  /\ pt(d) \in Digits
         /\ \A n \in Digits : SetPt(d, n) \in NutDataRegs /\ Less(n) \in Digits /\ More(n) \in Digits
<1>1. pt(d) \in Digits
  BY DEF pt, NutDataRegs
<1>2. \A n \in Digits : SetPt(d, n) \in NutDataRegs
  BY RegistersChange DEF SetPt
<1>3. \A n \in Digits : Less(n) \in Digits /\ More(n) \in Digits
  BY DigitAssumption DEF Less, More, Digits
<1> QED BY <1>1, <1>2, <1>3

(* The pointer instructions keep the types. *)
LEMMA PointerOpsTyped ==
  ASSUME NEW d \in NutDataRegs, NEW w \in DataWord, NEW op \in PointerOps,
         op = "op_set_pt" => Mapped(w) \in Digits
  PROVE  pointer_operations(d, w, op) \in NutDataRegs
<1>1. Arg4(w) \in Nibble
  BY WordParts DEF Nibble
<1>2. CASE op = "op_lc"
  <2> DEFINE r == [d.c EXCEPT ![pt(d)] = Arg4(w)]
             e == WithC(d, r)
  <2>1. d.c \in Reg
    BY DEF NutDataRegs
  <2>2. r \in Reg
    BY <1>1, <2>1, PointersTyped DEF Reg
  <2>3. pointer_operations(d, w, op) = SetPt(e, Less(pt(d)))
    BY <1>2 DEF pointer_operations, WithC
  <2> HIDE DEF r
  <2>4. e \in NutDataRegs
    BY <2>2, RegistersChange
  <2> HIDE DEF e
  <2> QED BY <2>3, <2>4, PointersTyped
<1>3. CASE op \in {"op_dec_pt", "op_inc_pt", "op_set_pt"}
  BY <1>3, PointersTyped DEF pointer_operations
<1>4. CASE op \in {"op_test_pt", "op_test_pq", "op_sel_p", "op_sel_q"}
  <2> DEFINE at == pt(d) = Mapped(w)
             same == d.p = d.q
  <2>1. /\ op = "op_test_pt" => pointer_operations(d, w, op) = WithCarryBit(d, at)
        /\ op = "op_test_pq" => pointer_operations(d, w, op) = WithCarryBit(d, same)
    BY DEF pointer_operations, WithCarryBit
  <2>2. /\ op = "op_sel_p" => pointer_operations(d, w, op) = [d EXCEPT !.q_sel = FALSE]
        /\ op = "op_sel_q" => pointer_operations(d, w, op) = [d EXCEPT !.q_sel = TRUE]
    BY DEF pointer_operations
  <2>3. at \in BOOLEAN /\ same \in BOOLEAN
    OBVIOUS
  <2> HIDE DEF at, same
  <2>4. WithCarryBit(d, at) \in NutDataRegs /\ WithCarryBit(d, same) \in NutDataRegs
    BY <2>3, RegistersChange
  <2>5. [d EXCEPT !.q_sel = FALSE] \in NutDataRegs /\ [d EXCEPT !.q_sel = TRUE] \in NutDataRegs
    BY DEF NutDataRegs
  <2>6. CASE op = "op_test_pt"
    BY <2>1, <2>4, <2>6
  <2>7. CASE op = "op_test_pq"
    BY <2>1, <2>4, <2>7
  <2>8. CASE op \in {"op_sel_p", "op_sel_q"}
    BY <2>2, <2>5, <2>8
  <2> QED BY <1>4, <2>6, <2>7, <2>8
<1> QED BY <1>2, <1>3, <1>4 DEF PointerOps

(* G, and the two digits of C that it goes to and comes from               *)
GLow(d) == IF pt(d) < WSIZE - 1 THEN pt(d) ELSE 0
GHigh(d) == IF pt(d) < WSIZE - 1 THEN pt(d) + 1 ELSE WSIZE - 1
GToC(d) == [d.c EXCEPT ![GLow(d)] = d.g[1], ![GHigh(d)] = d.g[2]]
CToG(d) == <<d.c[GLow(d)], d.c[GHigh(d)]>>

(* The three instructions of G *)
LEMMA GOperations ==
  ASSUME NEW d \in NutDataRegs
  PROVE  /\ g_operations(d, "op_c_to_g") = WithG(d, CToG(d))
         /\ g_operations(d, "op_g_to_c") = WithC(d, GToC(d))
         /\ g_operations(d, "op_c_exch_g") = WithG(WithC(d, GToC(d)), CToG(d))
BY DEF g_operations, WithG, WithC, GToC, CToG, GLow, GHigh, NutDataRegs

(* They move two different digits of C, at the left end too. *)
LEMMA GDigits ==
  ASSUME NEW d \in NutDataRegs
  PROVE  GLow(d) \in Digits /\ GHigh(d) \in Digits /\ GLow(d) # GHigh(d)
<1>1. pt(d) \in Digits
  BY PointersTyped
<1> QED BY <1>1, DigitAssumption DEF GLow, GHigh, Digits

(* What they move where *)
LEMMA GMoves ==
  ASSUME NEW d \in NutDataRegs
  PROVE  /\ GToC(d) \in Reg /\ CToG(d) \in Pairs
         /\ GToC(d)[GLow(d)] = d.g[1] /\ GToC(d)[GHigh(d)] = d.g[2]
         /\ \A i \in Digits : i # GLow(d) /\ i # GHigh(d) => GToC(d)[i] = d.c[i]
         /\ CToG(d)[1] = d.c[GLow(d)] /\ CToG(d)[2] = d.c[GHigh(d)]
<1>1. d.c \in Reg /\ d.g \in Pairs /\ d.g[1] \in Nibble /\ d.g[2] \in Nibble
  BY DEF NutDataRegs, Pairs
<1>2. GLow(d) \in Digits /\ GHigh(d) \in Digits /\ GLow(d) # GHigh(d)
  BY GDigits
<1>3. CToG(d) \in Pairs /\ CToG(d)[1] = d.c[GLow(d)] /\ CToG(d)[2] = d.c[GHigh(d)]
  BY <1>1, <1>2 DEF CToG, Reg, Pairs
<1>4. GToC(d) \in Reg
  BY <1>1, <1>2 DEF GToC, Reg
<1>5. GToC(d)[GLow(d)] = d.g[1] /\ GToC(d)[GHigh(d)] = d.g[2]
  BY <1>1, <1>2 DEF GToC, Reg
<1>6. \A i \in Digits : i # GLow(d) /\ i # GHigh(d) => GToC(d)[i] = d.c[i]
  BY <1>1, <1>2 DEF GToC, Reg
<1> QED BY <1>3, <1>4, <1>5, <1>6

(* They keep the types. *)
LEMMA GOpsTyped ==
  ASSUME NEW d \in NutDataRegs, NEW op \in GOps
  PROVE  g_operations(d, op) \in NutDataRegs
<1>1. WithG(d, CToG(d)) \in NutDataRegs /\ WithC(d, GToC(d)) \in NutDataRegs
  BY GMoves, RegistersChange
<1>2. WithG(WithC(d, GToC(d)), CToG(d)) \in NutDataRegs
  BY <1>1, GMoves, RegistersChange
<1> QED BY <1>1, <1>2, GOperations DEF GOps

(* So do those of M and N. *)
LEMMA MNOpsTyped ==
  ASSUME NEW d \in NutDataRegs, NEW op \in MNOps
  PROVE  m_n_operations(d, op) \in NutDataRegs
<1>1. d.c \in Reg /\ d.m \in Reg /\ d.n \in Reg
  BY DEF NutDataRegs
<1>2. m_n_operations(d, op) \in {WithM(d, d.c), WithC(d, d.m), WithM(WithC(d, d.m), d.c),
                                 WithN(d, d.c), WithC(d, d.n), WithN(WithC(d, d.n), d.c)}
  BY DEF MNOps, m_n_operations, WithM, WithC, WithN, NutDataRegs
<1>3. \A e \in NutDataRegs : \A r \in Reg : WithC(e, r) \in NutDataRegs /\ WithM(e, r) \in NutDataRegs /\ WithN(e, r) \in NutDataRegs
  BY RegistersChange
<1> QED BY <1>1, <1>2, <1>3

(* The status bits                                                         *)
LEMMA SBitsTyped ==
  ASSUME NEW d \in NutDataRegs
  PROVE  /\ SBits(d) \in Pairs
         /\ SBits(d)[1] = Valued(Four(d.s, 0))
         /\ SBits(d)[2] = Valued(Four(d.s, 4))
<1> DEFINE low == get_s_bits(d, 0)
           high == get_s_bits(d, 4)
<1>1. SBits(d) = <<low, high>>
  BY DEF SBits
<1>2. low = Valued(Four(d.s, 0)) /\ high = Valued(Four(d.s, 4))
  BY StatusDigit
<1> HIDE DEF low, high
<1>3. low \in Nibble /\ high \in Nibble
  BY <1>2, ValueIsNibble
<1> QED BY <1>1, <1>2, <1>3 DEF Pairs

(* Setting the lower eight status bits *)
LEMMA SetSBits ==
  ASSUME NEW d \in NutDataRegs, NEW pair \in Pairs
  PROVE  set_s_bits(d, pair) = WithS(d, SetBits(d.s, pair[1], pair[2])) /\ set_s_bits(d, pair) \in NutDataRegs
<1>1. set_s_bits(d, pair) = WithS(d, SetBits(d.s, pair[1], pair[2]))
  BY DEF set_s_bits, WithS, SetBits, High, Up
<1>2. d.s \in SUBSET Nat /\ SetBits(d.s, pair[1], pair[2]) \in SUBSET Nat
  BY InSetBits DEF NutDataRegs
<1> QED BY <1>1, <1>2, RegistersChange

(* C and two status digits in its first two                                *)
WithDigits(c, pair) == [c EXCEPT ![0] = pair[1], ![1] = pair[2]]

(* The pair is found where it was put, the other digits are those of C. *)
LEMMA DigitsPut ==
  ASSUME NEW c \in Reg, NEW pair \in Pairs
  PROVE  /\ WithDigits(c, pair) \in Reg /\ WithDigits(c, pair)[0] = pair[1] /\ WithDigits(c, pair)[1] = pair[2]
         /\ \A i \in Digits : i # 0 /\ i # 1 => WithDigits(c, pair)[i] = c[i]
         /\ <<c[0], c[1]>> \in Pairs
<1>1. 0 \in Digits /\ 1 \in Digits /\ pair[1] \in Nibble /\ pair[2] \in Nibble
  BY DigitAssumption DEF Digits, Pairs
<1> QED BY <1>1 DEF WithDigits, Reg, Pairs

(* The instructions that copy or exchange status bits *)
LEMMA SOperations ==
  ASSUME NEW d \in NutDataRegs, NEW w
  PROVE  /\ s_operations(d, w, "op_clear_all_s") = set_s_bits(d, <<0, 0>>)
         /\ s_operations(d, w, "op_c_to_s") = set_s_bits(d, <<d.c[0], d.c[1]>>)
         /\ s_operations(d, w, "op_s_to_c") = WithC(d, WithDigits(d.c, SBits(d)))
         /\ s_operations(d, w, "op_c_exch_s") =
              WithC(set_s_bits(d, <<d.c[0], d.c[1]>>), WithDigits(d.c, SBits(d)))
         /\ s_operations(d, w, "op_sb_to_f") = WithFo(d, SBits(d))
         /\ s_operations(d, w, "op_f_to_sb") = set_s_bits(d, d.fo)
         /\ s_operations(d, w, "op_f_exch_sb") = WithFo(set_s_bits(d, d.fo), SBits(d))
<1>1. \A pair : set_s_bits(d, pair).c = d.c
  BY DEF set_s_bits, NutDataRegs
<1>5. d = [d EXCEPT !.c = d.c]
  BY DEF NutDataRegs
<1>2. /\ s_operations(d, w, "op_clear_all_s") = set_s_bits(d, <<0, 0>>)
      /\ s_operations(d, w, "op_c_to_s") = set_s_bits(d, <<d.c[0], d.c[1]>>)
      /\ s_operations(d, w, "op_sb_to_f") = WithFo(d, SBits(d))
      /\ s_operations(d, w, "op_f_to_sb") = set_s_bits(d, d.fo)
      /\ s_operations(d, w, "op_f_exch_sb") = WithFo(set_s_bits(d, d.fo), SBits(d))
  BY DEF s_operations, WithFo
<1>3. s_operations(d, w, "op_s_to_c") = WithC(d, WithDigits(d.c, SBits(d)))
  BY DEF s_operations, WithC, WithDigits
<1>4. s_operations(d, w, "op_c_exch_s") =
        WithC(set_s_bits(d, <<d.c[0], d.c[1]>>), WithDigits(d.c, SBits(d)))
  BY <1>1 DEF s_operations, WithC, WithDigits
<1> QED BY <1>2, <1>3, <1>4

(* The status instructions keep the types. *)
LEMMA SOpsTyped ==
  ASSUME NEW d \in NutDataRegs, NEW w, NEW op \in SOps, OfWord(w, op)
  PROVE  s_operations(d, w, op) \in NutDataRegs
<1>1. d.s \in SUBSET Nat /\ d.c \in Reg /\ d.fo \in Pairs
  BY DEF NutDataRegs
<1>2. SBits(d) \in Pairs /\ <<0, 0>> \in Pairs /\ <<d.c[0], d.c[1]>> \in Pairs /\ WithDigits(d.c, SBits(d)) \in Reg
  <2>1. <<0, 0>> \in Pairs
    BY DEF Pairs, Nibble
  <2> QED BY <1>1, <2>1, SBitsTyped, DigitsPut
<1>3. \A pair \in Pairs : set_s_bits(d, pair) \in NutDataRegs
  BY SetSBits
<1>4. CASE op \in {"op_clear_all_s", "op_c_to_s", "op_s_to_c", "op_c_exch_s", "op_sb_to_f", "op_f_to_sb", "op_f_exch_sb"}
  <2>1. /\ \A e \in NutDataRegs : \A r \in Reg : WithC(e, r) \in NutDataRegs
        /\ \A e \in NutDataRegs : \A r \in Pairs : WithFo(e, r) \in NutDataRegs
    BY RegistersChange
  <2>2. s_operations(d, w, op) \in {set_s_bits(d, <<0, 0>>), set_s_bits(d, <<d.c[0], d.c[1]>>),
          WithC(d, WithDigits(d.c, SBits(d))), WithC(set_s_bits(d, <<d.c[0], d.c[1]>>), WithDigits(d.c, SBits(d))),
          WithFo(d, SBits(d)), set_s_bits(d, d.fo), WithFo(set_s_bits(d, d.fo), SBits(d))}
    BY <1>4, SOperations
  <2>3. /\ set_s_bits(d, <<0, 0>>) \in NutDataRegs /\ set_s_bits(d, <<d.c[0], d.c[1]>>) \in NutDataRegs
        /\ set_s_bits(d, d.fo) \in NutDataRegs
    BY <1>1, <1>2, <1>3
  <2> QED BY <1>2, <2>1, <2>2, <2>3
<1>5. CASE op = "op_test_s"
  <2> DEFINE b == Mapped(w) \in d.s
  <2>1. s_operations(d, w, op) = WithCarryBit(d, b)
    BY <1>5 DEF s_operations, WithCarryBit
  <2>2. b \in BOOLEAN
    OBVIOUS
  <2> HIDE DEF b
  <2> QED BY <2>1, <2>2, RegistersChange
<1>6. CASE op \in {"op_clr_s", "op_set_s"}
  <2>1. d.s \ {Mapped(w)} \in SUBSET Nat /\ d.s \cup {Mapped(w)} \in SUBSET Nat
    BY <1>1, <1>6 DEF OfWord
  <2>2. s_operations(d, w, op) \in {WithS(d, d.s \ {Mapped(w)}), WithS(d, d.s \cup {Mapped(w)})}
    BY <1>6 DEF s_operations, WithS
  <2>3. \A r \in SUBSET Nat : WithS(d, r) \in NutDataRegs
    BY RegistersChange
  <2> QED BY <2>1, <2>2, <2>3
<1> QED BY <1>4, <1>5, <1>6 DEF SOps

(* C                                                                       *)
LEMMA COpsTyped ==
  ASSUME NEW d \in NutDataRegs, NEW w, NEW op \in COps, OfWord(w, op)
  PROVE  c_operations(d, w, op) \in NutDataRegs
<1>0. \A e \in NutDataRegs : \A r \in Reg : WithC(e, r) \in NutDataRegs /\ WithA(e, r) \in NutDataRegs
  BY RegistersChange
<1>1. d.c \in Reg /\ d.a \in Reg /\ WSIZE \in Nat \ {0} /\ WSIZE > 2
  BY DigitAssumption DEF NutDataRegs
<1>2. CASE op = "op_rcr"
  <2> DEFINE r == [i \in Digits |-> d.c[(i + Mapped(w)) % WSIZE]]
  <2>1. c_operations(d, w, op) = WithC(d, r)
    BY <1>2 DEF c_operations, op_rcr, WithC
  <2>2. \A i \in Digits : (i + Mapped(w)) % WSIZE \in Digits
    <3>1. ASSUME NEW i \in Digits PROVE (i + Mapped(w)) % WSIZE \in Digits
      <4>1. i + Mapped(w) \in Int
        BY <1>2, <1>1 DEF OfWord, Digits
      <4> QED BY <4>1, <1>1, DivMod DEF Digits
    <3> QED BY <3>1
  <2>3. r \in Reg
    BY <1>1, <2>2 DEF Reg
  <2> QED BY <1>0, <2>1, <2>3
<1>3. CASE op \in {"op_or", "op_and"}
  <2> DEFINE either == [i \in Digits |-> Bitwise2(d.c[i], d.a[i], LAMBDA x, y : x \/ y)]
             both == [i \in Digits |-> Bitwise2(d.c[i], d.a[i], LAMBDA x, y : x /\ y)]
  <2>1. op = "op_or" => c_operations(d, w, op) = WithC(d, either)
    BY DEF c_operations, WithC
  <2>2. op = "op_and" => c_operations(d, w, op) = WithC(d, both)
    BY DEF c_operations, WithC
  <2>3. either \in Reg
    BY DEF Bitwise2, Reg, Nibble
  <2>4. both \in Reg
    BY DEF Bitwise2, Reg, Nibble
  <2> HIDE DEF either, both
  <2> QED BY <1>0, <1>3, <2>1, <2>2, <2>3, <2>4
<1>4. CASE op = "op_clear_abc"
  <2>1. NULL \in Reg
    BY DEF NULL, Reg, Nibble
  <2>2. c_operations(d, w, op) = WithC(WithA(d, NULL), NULL)
    BY <1>4 DEF c_operations, WithC, WithA
  <2> QED BY <1>0, <2>1, <2>2
<1>5. CASE op = "op_keys_to_c"
  <2> DEFINE r == [d.c EXCEPT ![KEY_DIGIT + 1] = KeyCode[1], ![KEY_DIGIT] = KeyCode[2]]
  <2>1. c_operations(d, w, op) = WithC(d, r)
    BY <1>5 DEF c_operations, WithC, NutDataRegs
  <2>2. KeyCode[1] \in Nibble /\ KeyCode[2] \in Nibble
    BY NutDataAssumption DEF Nibble
  <2>3. r \in Reg
    BY <1>1, <2>2 DEF Reg, Digits
  <2> HIDE DEF r
  <2> QED BY <1>0, <2>1, <2>3
<1>6. CASE op = "op_ldi"
  BY <1>6, RegistersChange DEF c_operations
<1> QED BY <1>2, <1>3, <1>4, <1>5, <1>6 DEF COps

(* The bus                                                                 *)
LEMMA SelectKeepsBlock ==
  ASSUME NEW d \in NutDataRegs, NEW n \in Nat
  PROVE  /\ Select(d, n) \in NutDataRegs /\ Select(d, n).ram = d.ram /\ Select(d, n).pf = d.pf
         /\ Select(d, n).pf_addr = d.pf_addr /\ Select(d, n).c = d.c
         /\ Select(d, n).ram_addr \div BLOCK = d.ram_addr \div BLOCK
         /\ Select(d, n).ram_addr % BLOCK = n % BLOCK
<1> DEFINE a == d.ram_addr - (d.ram_addr % BLOCK) + (n % BLOCK)
           p == d.ram_addr \div BLOCK
           q == n % BLOCK
<1>0. d.ram_addr \in Nat
  BY DEF NutDataRegs
<1>1. d.ram_addr \in Int /\ n \in Int /\ BLOCK \in Nat \ {0}
  BY <1>0, NutDataAssumption
<1>2. d.ram_addr = p * BLOCK + (d.ram_addr % BLOCK) /\ p \in Int /\ d.ram_addr % BLOCK \in 0..(BLOCK - 1)
  BY <1>1, DivMod
<1>3. q \in 0..(BLOCK - 1)
  BY <1>1, DivMod
<1>4. p * BLOCK \in Int /\ a = p * BLOCK + q
  <2> DEFINE above == p * BLOCK
             rest == d.ram_addr % BLOCK
  <2>1. above \in Int
    BY <1>1, <1>2
  <2>2. d.ram_addr = above + rest /\ rest \in 0..(BLOCK - 1) /\ a = d.ram_addr - rest + q
    BY <1>2
  <2> HIDE DEF above, rest, a, q
  <2>3. a = above + q
    BY <1>1, <1>3, <2>1, <2>2
  <2> QED BY <2>1, <2>3 DEF above
<1>5. a \div BLOCK = p /\ a % BLOCK = q
  <2> HIDE DEF p, q, a
  <2> QED BY <1>1, <1>2, <1>3, <1>4, DivModUnique
<1>6. a \in Nat
  <2> DEFINE rest == d.ram_addr % BLOCK
             above == p * BLOCK
  <2>1. d.ram_addr = above + rest /\ above \in Int /\ rest \in 0..(BLOCK - 1)
    BY <1>2, <1>4
  <2>2. p >= 0
    BY <1>0, <1>1
  <2>3. above >= 0
    BY <1>1, <1>2, <2>2
  <2>4. a = above + q
    BY <1>4
  <2> HIDE DEF a, q, above, rest
  <2> QED BY <1>3, <2>1, <2>3, <2>4
<1>7. Select(d, n) = [d EXCEPT !.ram_addr = a]
  BY DEF Select
<1> HIDE DEF a, p, q
<1>8. /\ Select(d, n) \in NutDataRegs /\ Select(d, n).ram = d.ram /\ Select(d, n).pf = d.pf
      /\ Select(d, n).pf_addr = d.pf_addr /\ Select(d, n).c = d.c /\ Select(d, n).ram_addr = a
  BY <1>6, <1>7 DEF NutDataRegs
<1> QED BY <1>5, <1>8 DEF p, q

(* A write reaches the register selected, and a peripheral if one is. *)
LEMMA WriteBusTyped ==
  ASSUME NEW d \in NutDataRegs
  PROVE  /\ WriteBus(d) \in NutDataRegs /\ WriteBus(d).ram_addr = d.ram_addr /\ WriteBus(d).pf_addr = d.pf_addr
         /\ WriteBus(d).c = d.c
         /\ \A r \in ram_exists : WriteBus(d).ram[r] = IF r = d.ram_addr THEN d.c ELSE d.ram[r]
         /\ \A r \in pf_exists : WriteBus(d).pf[r] = IF r = d.pf_addr THEN d.c ELSE d.pf[r]
<1> DEFINE x == [r \in ram_exists |-> IF r = d.ram_addr THEN d.c ELSE d.ram[r]]
           y == [r \in pf_exists |-> IF r = d.pf_addr THEN d.c ELSE d.pf[r]]
<1>1. WriteBus(d) = [d EXCEPT !.ram = x, !.pf = y]
  BY DEF WriteBus, NutDataRegs
<1>2. x \in [ram_exists -> Reg] /\ y \in [pf_exists -> Reg]
  BY DEF NutDataRegs
<1>3. /\ \A r \in ram_exists : x[r] = IF r = d.ram_addr THEN d.c ELSE d.ram[r]
      /\ \A r \in pf_exists : y[r] = IF r = d.pf_addr THEN d.c ELSE d.pf[r]
  OBVIOUS
<1> HIDE DEF x, y
<1>4. WriteBus(d) \in NutDataRegs
  BY <1>1, <1>2 DEF NutDataRegs
<1>5. WriteBus(d).ram_addr = d.ram_addr /\ WriteBus(d).pf_addr = d.pf_addr /\ WriteBus(d).c = d.c
  BY <1>1 DEF NutDataRegs
<1>6. WriteBus(d).ram = x /\ WriteBus(d).pf = y
  BY <1>1 DEF NutDataRegs
<1> QED BY <1>3, <1>4, <1>5, <1>6

(* A read finds a register, of zeros when none is selected. *)
LEMMA ReadBusTyped ==
  ASSUME NEW d \in NutDataRegs, NEW n
  PROVE  ReadBus(d, n) \in Reg
<1>1. NULL \in Reg
  BY DEF NULL, Reg, Nibble
<1> QED BY <1>1 DEF ReadBus, NutDataRegs

(* The instructions of the bus keep the types. *)
LEMMA BusOpsTyped ==
  ASSUME NEW d \in NutDataRegs, NEW w \in DataWord, NEW op \in BusOps
  PROVE  ram_operations(d, w, op) \in NutDataRegs
<1>1. Arg4(w) \in Nat
  <2>1. Arg4(w) \in 0..15
    BY WordParts
  <2> QED BY <2>1
<1>2. Select(d, Arg4(w)) \in NutDataRegs
  BY <1>1, SelectKeepsBlock
<1>3. CASE op \in {"op_write_reg_n", "op_c_to_data"}
  BY <1>2, <1>3, WriteBusTyped DEF ram_operations
<1>4. CASE op = "op_read_reg_n"
  <2> DEFINE e == IF Arg4(w) = 0 THEN d ELSE Select(d, Arg4(w))
  <2>1. e \in NutDataRegs
    BY <1>2
  <2>2. ram_operations(d, w, op) = WithC(e, ReadBus(e, Arg4(w)))
    BY <1>4 DEF ram_operations, WithC
  <2> HIDE DEF e
  <2> QED BY <2>1, <2>2, ReadBusTyped, RegistersChange
<1>5. CASE op \in {"op_c_to_dadd", "op_c_to_pfad"}
  <2>1. d.c[0] \in Nibble /\ d.c[1] \in Nibble /\ d.c[2] \in Nibble
    <3>1. 0 \in Digits /\ 1 \in Digits /\ 2 \in Digits
      BY DigitAssumption DEF Digits
    <3>2. d.c \in Reg
      BY DEF NutDataRegs
    <3> QED BY <3>1, <3>2 DEF Reg
  <2> DEFINE x == (d.c[2] * 256 + d.c[1] * 16 + d.c[0]) % 1024
             y == d.c[1] * 16 + d.c[0]
  <2>3. op = "op_c_to_dadd" => ram_operations(d, w, op) = [d EXCEPT !.ram_addr = x]
    BY DEF ram_operations
  <2>4. op = "op_c_to_pfad" => ram_operations(d, w, op) = [d EXCEPT !.pf_addr = y]
    BY DEF ram_operations
  <2>5. x \in Nat /\ y \in Nat
    <3> DEFINE n2 == d.c[2]
               n1 == d.c[1]
               n0 == d.c[0]
    <3>1. n2 \in 0..15 /\ n1 \in 0..15 /\ n0 \in 0..15
      BY <2>1 DEF Nibble
    <3> HIDE DEF n2, n1, n0
    <3>2. (n2 * 256 + n1 * 16 + n0) % 1024 \in Nat /\ n1 * 16 + n0 \in Nat
      BY <3>1
    <3> QED BY <3>2 DEF n2, n1, n0
  <2> HIDE DEF x, y
  <2>6. [d EXCEPT !.ram_addr = x] \in NutDataRegs /\ [d EXCEPT !.pf_addr = y] \in NutDataRegs
    BY <2>5, RegistersChange
  <2> QED BY <1>5, <2>3, <2>4, <2>6
<1> QED BY <1>3, <1>4, <1>5 DEF BusOps

-----------------------------------------------------------------------------
(* The registers stay registers.                                           *)
Settable(w) == NutDataOp(w) = "op_set_pt" => Mapped(w) < WSIZE

(* Every instruction keeps the types. *)
LEMMA DoTyped ==
  ASSUME NEW d \in NutDataRegs, NEW w \in DataWord, Settable(w)
  PROVE  NutDataDo(d, w) \in NutDataRegs
<1> DEFINE op == NutDataOp(w)
<1>1. op \in PointerOps \cup GOps \cup MNOps \cup COps \cup BusOps \cup SOps \cup {"another"} /\ OfWord(w, op)
  BY DataOps
<1>2. op = "op_set_pt" => Mapped(w) \in Digits
  <2>1. ASSUME op = "op_set_pt" PROVE Mapped(w) \in Digits
    <3>1. Mapped(w) \in Nat /\ Mapped(w) < WSIZE
      BY <1>1, <2>1 DEF OfWord, Settable
    <3> QED BY <3>1, DigitAssumption DEF Digits
  <2> QED BY <2>1
<1>3. NutDataDo(d, w) = NutDataBy(d, w, op)
  BY DEF NutDataDo
<1> HIDE DEF op
<1>4. CASE op \in PointerOps
  <2>1. NutDataBy(d, w, op) = pointer_operations(d, w, op)
    BY <1>4 DEF NutDataBy, PointerOps
  <2> QED BY <1>2, <1>3, <1>4, <2>1, PointerOpsTyped
<1>5. CASE op \in GOps
  <2>1. NutDataBy(d, w, op) = g_operations(d, op)
    BY <1>5 DEF NutDataBy, GOps
  <2> QED BY <1>3, <1>5, <2>1, GOpsTyped
<1>6. CASE op \in MNOps
  <2>1. NutDataBy(d, w, op) = m_n_operations(d, op)
    BY <1>6 DEF NutDataBy, MNOps
  <2> QED BY <1>3, <1>6, <2>1, MNOpsTyped
<1>7. CASE op \in COps
  <2>1. NutDataBy(d, w, op) = c_operations(d, w, op)
    BY <1>7 DEF NutDataBy, COps
  <2> QED BY <1>1, <1>3, <1>7, <2>1, COpsTyped
<1>8. CASE op \in BusOps
  <2>1. NutDataBy(d, w, op) = ram_operations(d, w, op)
    BY <1>8 DEF NutDataBy, BusOps
  <2> QED BY <1>3, <1>8, <2>1, BusOpsTyped
<1>9. CASE op \in SOps
  <2>1. NutDataBy(d, w, op) = s_operations(d, w, op)
    BY <1>9 DEF NutDataBy, SOps
  <2> QED BY <1>1, <1>3, <1>9, <2>1, SOpsTyped
<1>10. CASE op = "another"
  BY <1>3, <1>10 DEF NutDataBy
<1> QED BY <1>1, <1>4, <1>5, <1>6, <1>7, <1>8, <1>9, <1>10

(* So does the second word of an instruction of two. *)
LEMMA SecondTyped ==
  ASSUME NEW d \in NutDataRegs, NEW w \in DataWord
  PROVE  Second(d, w) \in NutDataRegs
<1> DEFINE x == w \div 256
           y == (w \div 16) % 16
           z == w % 16
           r == [d.c EXCEPT ![2] = x, ![1] = y, ![0] = z]
<1>1. x \in Nibble /\ y \in Nibble /\ z \in Nibble
  BY DEF Nibble, DataWord
<1>2. Second(d, w) = [d EXCEPT !.ldi = FALSE, !.c[2] = x, !.c[1] = y, !.c[0] = z]
  BY DEF Second
<1> HIDE DEF x, y, z
<1>3. d.c \in Reg /\ 0 \in Digits /\ 1 \in Digits /\ 2 \in Digits
  BY DigitAssumption DEF NutDataRegs, Digits
<1>4. r \in Reg
  BY <1>1, <1>3 DEF Reg
<1>5. Second(d, w) = [d EXCEPT !.ldi = FALSE, !.c = r]
  BY <1>2 DEF NutDataRegs
<1> HIDE DEF r
<1> QED BY <1>4, <1>5 DEF NutDataRegs

(* The inductive invariant                                                 *)
NutDataInv == program \in NutSessions /\ nd \in NutDataRegs

(* The words of a session are words, and set the pointer to a digit only. *)
LEMMA SessionWords ==
  ASSUME program \in NutSessions
  PROVE  program.words \subseteq DataWord /\ program.seconds \subseteq DataWord /\ \A w \in program.words : Settable(w)
BY NutDataAssumption, NutSessionsAssumption DEF Settable, DataWord

(* The registers start cleared, hence typed. *)
LEMMA NutDataInitially == NutDataInit => NutDataInv
<1> SUFFICES ASSUME NutDataInit PROVE NutDataInv
  OBVIOUS
<1>1. NULL \in Reg
  BY DEF NULL, Reg, Nibble
<1>2. <<0, 0>> \in Pairs /\ 0 \in Digits
  BY DigitAssumption DEF Pairs, Nibble, Digits
<1>3. [r \in ram_exists |-> NULL] \in [ram_exists -> Reg] /\ [p \in pf_exists |-> NULL] \in [pf_exists -> Reg]
  BY <1>1
<1> QED BY <1>1, <1>2, <1>3 DEF NutDataInit, NutDataInv, NutDataRegs

(* Every instruction, every arithmetic and the clearing of memory keeps the invariant. *)
LEMMA NutDataSteps == NutDataInv /\ [NutDataNext]_ndvars => NutDataInv'
<1> SUFFICES ASSUME NutDataInv, [NutDataNext]_ndvars PROVE NutDataInv'
  OBVIOUS
<1> USE DEF NutDataInv
<1>1. CASE NutDataInstruction
  <2>1. PICK w \in IF nd.ldi THEN program.seconds ELSE program.words : nd' = NutDataDone(nd, w)
    BY <1>1 DEF NutDataInstruction
  <2> DEFINE first == [nd EXCEPT !.carry = FALSE]
  <2>2. first \in NutDataRegs
    BY DEF NutDataRegs
  <2>3. w \in DataWord /\ (~nd.ldi => Settable(w))
    BY <2>1, SessionWords
  <2>4. nd' = IF nd.ldi THEN Second(first, w) ELSE NutDataDo(first, w)
    BY <2>1 DEF NutDataDone
  <2>5. program' = program
    BY <1>1 DEF NutDataInstruction
  <2> HIDE DEF first
  <2>6. nd' \in NutDataRegs
    <3>1. CASE nd.ldi
      BY <2>2, <2>3, <2>4, <3>1, SecondTyped
    <3>2. CASE ~nd.ldi
      BY <2>2, <2>3, <2>4, <3>2, DoTyped
    <3> QED BY <3>1, <3>2
  <2> QED BY <2>5, <2>6
<1>2. CASE NutArithmetic
  BY <1>2 DEF NutArithmetic, NutDataRegs
<1>3. CASE nut_clear_memory
  <2> DEFINE r == [x \in ram_exists |-> NULL]
  <2>1. r \in [ram_exists -> Reg]
    BY DEF NULL, Reg, Nibble
  <2>2. nd' = [nd EXCEPT !.ram = r] /\ program' = program
    BY <1>3 DEF nut_clear_memory
  <2> HIDE DEF r
  <2>3. nd' \in NutDataRegs
    BY <2>1, <2>2 DEF NutDataRegs
  <2> QED BY <2>2, <2>3
<1>4. CASE UNCHANGED ndvars
  BY <1>4 DEF ndvars
<1> QED BY <1>1, <1>2, <1>3, <1>4 DEF NutDataNext

-----------------------------------------------------------------------------
(* The pairs of instructions that undo each other                          *)
LEMMA OpsOfPairs ==
  /\ NutDataOp(\h0d8) = "op_c_exch_g" /\ NutDataOp(\h058) = "op_c_to_g" /\ NutDataOp(\h098) = "op_g_to_c"
  /\ NutDataOp(\h1d8) = "op_c_exch_m" /\ NutDataOp(\h158) = "op_c_to_m" /\ NutDataOp(\h198) = "op_m_to_c"
  /\ NutDataOp(\h0f0) = "op_c_exch_n" /\ NutDataOp(\h070) = "op_c_to_n" /\ NutDataOp(\h0b0) = "op_n_to_c"
  /\ NutDataOp(\h3d8) = "op_c_exch_s" /\ NutDataOp(\h398) = "op_s_to_c" /\ NutDataOp(\h358) = "op_c_to_s"
  /\ NutDataOp(\h2d8) = "op_f_exch_sb" /\ NutDataOp(\h258) = "op_sb_to_f" /\ NutDataOp(\h298) = "op_f_to_sb"
  /\ NutDataOp(\h3d4) = "op_dec_pt" /\ NutDataOp(\h3dc) = "op_inc_pt"
BY NotMapped DEF NutDataOp

(* What each of these instructions does *)
LEMMA DoPairs ==
  ASSUME NEW d
  PROVE  /\ NutDataDo(d, \h0d8) = g_operations(d, "op_c_exch_g") /\ NutDataDo(d, \h058) = g_operations(d, "op_c_to_g")
         /\ NutDataDo(d, \h098) = g_operations(d, "op_g_to_c")
         /\ NutDataDo(d, \h1d8) = m_n_operations(d, "op_c_exch_m") /\ NutDataDo(d, \h158) = m_n_operations(d, "op_c_to_m")
         /\ NutDataDo(d, \h198) = m_n_operations(d, "op_m_to_c")
         /\ NutDataDo(d, \h0f0) = m_n_operations(d, "op_c_exch_n") /\ NutDataDo(d, \h070) = m_n_operations(d, "op_c_to_n")
         /\ NutDataDo(d, \h0b0) = m_n_operations(d, "op_n_to_c")
         /\ NutDataDo(d, \h3d8) = s_operations(d, \h3d8, "op_c_exch_s")
         /\ NutDataDo(d, \h398) = s_operations(d, \h398, "op_s_to_c")
         /\ NutDataDo(d, \h358) = s_operations(d, \h358, "op_c_to_s")
         /\ NutDataDo(d, \h2d8) = s_operations(d, \h2d8, "op_f_exch_sb")
         /\ NutDataDo(d, \h258) = s_operations(d, \h258, "op_sb_to_f")
         /\ NutDataDo(d, \h298) = s_operations(d, \h298, "op_f_to_sb")
         /\ NutDataDo(d, \h3d4) = pointer_operations(d, \h3d4, "op_dec_pt")
         /\ NutDataDo(d, \h3dc) = pointer_operations(d, \h3dc, "op_inc_pt")
BY OpsOfPairs DEF NutDataDo, NutDataBy

(* C exchanged with the status bits *)
LEMMA DoCExchS ==
  ASSUME NEW d \in NutDataRegs
  PROVE  NutDataDo(d, \h3d8) = WithC(set_s_bits(d, <<d.c[0], d.c[1]>>), WithDigits(d.c, SBits(d)))
<1>1. NutDataDo(d, \h3d8) = s_operations(d, \h3d8, "op_c_exch_s")
  BY DoPairs
<1>2. \A w : s_operations(d, w, "op_c_exch_s") = WithC(set_s_bits(d, <<d.c[0], d.c[1]>>), WithDigits(d.c, SBits(d)))
  BY SOperations
<1> QED BY <1>1, <1>2

(* Status bits to C *)
LEMMA DoSToC ==
  ASSUME NEW d \in NutDataRegs
  PROVE  NutDataDo(d, \h398) = WithC(d, WithDigits(d.c, SBits(d)))
<1>1. NutDataDo(d, \h398) = s_operations(d, \h398, "op_s_to_c")
  BY DoPairs
<1>2. \A w : s_operations(d, w, "op_s_to_c") = WithC(d, WithDigits(d.c, SBits(d)))
  BY SOperations
<1> QED BY <1>1, <1>2

(* C to the status bits *)
LEMMA DoCToS ==
  ASSUME NEW d \in NutDataRegs
  PROVE  NutDataDo(d, \h358) = set_s_bits(d, <<d.c[0], d.c[1]>>)
<1>1. NutDataDo(d, \h358) = s_operations(d, \h358, "op_c_to_s")
  BY DoPairs
<1>2. \A w : s_operations(d, w, "op_c_to_s") = set_s_bits(d, <<d.c[0], d.c[1]>>)
  BY SOperations
<1> QED BY <1>1, <1>2

(* F exchanged with the status bits *)
LEMMA DoFExch ==
  ASSUME NEW d \in NutDataRegs
  PROVE  NutDataDo(d, \h2d8) = WithFo(set_s_bits(d, d.fo), SBits(d))
<1>1. NutDataDo(d, \h2d8) = s_operations(d, \h2d8, "op_f_exch_sb")
  BY DoPairs
<1>2. \A w : s_operations(d, w, "op_f_exch_sb") = WithFo(set_s_bits(d, d.fo), SBits(d))
  BY SOperations
<1> QED BY <1>1, <1>2

(* Status bits to F *)
LEMMA DoSbToF ==
  ASSUME NEW d \in NutDataRegs
  PROVE  NutDataDo(d, \h258) = WithFo(d, SBits(d))
<1>1. NutDataDo(d, \h258) = s_operations(d, \h258, "op_sb_to_f")
  BY DoPairs
<1>2. \A w : s_operations(d, w, "op_sb_to_f") = WithFo(d, SBits(d))
  BY SOperations
<1> QED BY <1>1, <1>2

(* F to the status bits *)
LEMMA DoFToSb ==
  ASSUME NEW d \in NutDataRegs
  PROVE  NutDataDo(d, \h298) = set_s_bits(d, d.fo)
<1>1. NutDataDo(d, \h298) = s_operations(d, \h298, "op_f_to_sb")
  BY DoPairs
<1>2. \A w : s_operations(d, w, "op_f_to_sb") = set_s_bits(d, d.fo)
  BY SOperations
<1> QED BY <1>1, <1>2

(* A register changed twice and put back is as it was.                     *)
LEMMA PutBack ==
  ASSUME NEW d \in NutDataRegs, NEW x, NEW y
  PROVE  /\ WithG(WithC(WithG(WithC(d, x), y), d.c), d.g) = d
         /\ WithM(WithC(WithM(WithC(d, x), y), d.c), d.m) = d
         /\ WithN(WithC(WithN(WithC(d, x), y), d.c), d.n) = d
         /\ WithC(WithS(WithC(WithS(d, y), x), d.s), d.c) = d
         /\ WithFo(WithS(WithFo(WithS(d, y), x), d.s), d.fo) = d
BY DEF NutDataRegs, WithG, WithC, WithM, WithN, WithS, WithFo

(* What is left of the others                                              *)
LEMMA OthersStay ==
  ASSUME NEW d \in NutDataRegs, NEW x
  PROVE  /\ WithC(d, x).c = x /\ WithC(d, x).g = d.g /\ WithC(d, x).m = d.m /\ WithC(d, x).n = d.n
         /\ WithC(d, x).s = d.s /\ WithC(d, x).fo = d.fo /\ pt(WithC(d, x)) = pt(d)
         /\ WithG(d, x).g = x /\ WithG(d, x).c = d.c /\ pt(WithG(d, x)) = pt(d)
         /\ WithM(d, x).m = x /\ WithM(d, x).c = d.c /\ WithN(d, x).n = x /\ WithN(d, x).c = d.c
         /\ WithS(d, x).s = x /\ WithS(d, x).c = d.c /\ WithS(d, x).fo = d.fo
         /\ WithFo(d, x).fo = x /\ WithFo(d, x).s = d.s /\ WithFo(d, x).c = d.c
BY DEF NutDataRegs, WithG, WithC, WithM, WithN, WithS, WithFo, pt

(* G: at the pointer, or at both ends of C                                 *)
LEMMA GDigitsStay ==
  ASSUME NEW d, NEW e, pt(e) = pt(d)
  PROVE  GLow(e) = GLow(d) /\ GHigh(e) = GHigh(d)
BY DEF GLow, GHigh

(* C gets its two digits back from G. *)
LEMMA GThereAndBack ==
  ASSUME NEW d \in NutDataRegs, NEW e \in NutDataRegs, pt(e) = pt(d), e.g = CToG(d),
         e.c = d.c \/ e.c = GToC(d)
  PROVE  GToC(e) = d.c
<1>1. GLow(e) = GLow(d) /\ GHigh(e) = GHigh(d)
  BY GDigitsStay
<1>2. e.g[1] = d.c[GLow(d)] /\ e.g[2] = d.c[GHigh(d)]
  BY GMoves
<1>3. GToC(e)[GLow(d)] = d.c[GLow(d)] /\ GToC(e)[GHigh(d)] = d.c[GHigh(d)]
  BY <1>1, <1>2, GMoves
<1>4. \A i \in Digits : i # GLow(d) /\ i # GHigh(d) => GToC(e)[i] = d.c[i]
  BY <1>1, GMoves
<1>5. GToC(e) \in Reg /\ d.c \in Reg
  BY GMoves DEF NutDataRegs
<1>6. \A i \in Digits : GToC(e)[i] = d.c[i]
  BY <1>3, <1>4
<1> QED BY <1>5, <1>6 DEF Reg

(* G gets its two digits back from C. *)
LEMMA GBackAndThere ==
  ASSUME NEW d \in NutDataRegs, NEW e \in NutDataRegs, pt(e) = pt(d), e.c = GToC(d)
  PROVE  CToG(e) = d.g
<1>1. GLow(e) = GLow(d) /\ GHigh(e) = GHigh(d)
  BY GDigitsStay
<1>2. CToG(e)[1] = d.g[1] /\ CToG(e)[2] = d.g[2]
  BY <1>1, GMoves
<1>3. CToG(e) \in Pairs /\ d.g \in Pairs
  BY GMoves DEF NutDataRegs
<1> QED BY <1>2, <1>3 DEF Pairs

(* The pairs of G *)
LEMMA GPairs ==
  ASSUME NEW d \in NutDataRegs
  PROVE  /\ Do2(d, \h0d8, \h0d8) = d
         /\ Do2(d, \h058, \h098).c = d.c
         /\ Do2(d, \h098, \h058).g = d.g
<1>1. Do2(d, \h0d8, \h0d8) = d
  <2> DEFINE e == WithG(WithC(d, GToC(d)), CToG(d))
  <2>1. NutDataDo(d, \h0d8) = e
    BY DoPairs, GOperations
  <2>2. WithC(d, GToC(d)) \in NutDataRegs /\ e \in NutDataRegs
    BY GMoves, RegistersChange
  <2>3. e.c = GToC(d) /\ e.g = CToG(d) /\ pt(e) = pt(d)
    BY <2>2, OthersStay
  <2>4. NutDataDo(e, \h0d8) = WithG(WithC(e, GToC(e)), CToG(e))
    BY <2>2, DoPairs, GOperations
  <2>5. GToC(e) = d.c /\ CToG(e) = d.g
    BY <2>2, <2>3, GThereAndBack, GBackAndThere
  <2> QED BY <2>1, <2>4, <2>5, PutBack DEF Do2
<1>2. Do2(d, \h058, \h098).c = d.c
  <2> DEFINE e == WithG(d, CToG(d))
  <2>1. NutDataDo(d, \h058) = e
    BY DoPairs, GOperations
  <2>2. e \in NutDataRegs
    BY GMoves, RegistersChange
  <2>3. e.c = d.c /\ e.g = CToG(d) /\ pt(e) = pt(d)
    BY OthersStay
  <2>4. NutDataDo(e, \h098) = WithC(e, GToC(e))
    BY <2>2, DoPairs, GOperations
  <2>5. GToC(e) = d.c
    BY <2>2, <2>3, GThereAndBack
  <2> HIDE DEF e
  <2> QED BY <2>1, <2>2, <2>4, <2>5, OthersStay DEF Do2
<1>3. Do2(d, \h098, \h058).g = d.g
  <2> DEFINE e == WithC(d, GToC(d))
  <2>1. NutDataDo(d, \h098) = e
    BY DoPairs, GOperations
  <2>2. e \in NutDataRegs
    BY GMoves, RegistersChange
  <2>3. e.c = GToC(d) /\ pt(e) = pt(d)
    BY OthersStay
  <2>4. NutDataDo(e, \h058) = WithG(e, CToG(e))
    BY <2>2, DoPairs, GOperations
  <2>5. CToG(e) = d.g
    BY <2>2, <2>3, GBackAndThere
  <2> HIDE DEF e
  <2> QED BY <2>1, <2>2, <2>4, <2>5, OthersStay DEF Do2
<1> QED BY <1>1, <1>2, <1>3

(* The pairs of M and N: whole registers *)
LEMMA MNPairs ==
  ASSUME NEW d \in NutDataRegs
  PROVE  /\ Do2(d, \h1d8, \h1d8) = d /\ Do2(d, \h0f0, \h0f0) = d
         /\ Do2(d, \h158, \h198).c = d.c /\ Do2(d, \h070, \h0b0).c = d.c
<1>0. d.c \in Reg /\ d.m \in Reg /\ d.n \in Reg
  BY DEF NutDataRegs
<1>1. \A e : /\ m_n_operations(e, "op_c_to_m") = WithM(e, e.c) /\ m_n_operations(e, "op_m_to_c") = WithC(e, e.m)
             /\ m_n_operations(e, "op_c_to_n") = WithN(e, e.c) /\ m_n_operations(e, "op_n_to_c") = WithC(e, e.n)
  BY DEF m_n_operations, WithM, WithN, WithC
<1>2. \A e \in NutDataRegs : /\ m_n_operations(e, "op_c_exch_m") = WithM(WithC(e, e.m), e.c)
                             /\ m_n_operations(e, "op_c_exch_n") = WithN(WithC(e, e.n), e.c)
  BY DEF m_n_operations, WithM, WithN, WithC, NutDataRegs
<1>3. \A e \in NutDataRegs, r \in Reg : WithC(e, r) \in NutDataRegs /\ WithM(e, r) \in NutDataRegs /\ WithN(e, r) \in NutDataRegs
  BY RegistersChange
<1>4. Do2(d, \h1d8, \h1d8) = d
  <2> DEFINE e == WithM(WithC(d, d.m), d.c)
  <2>1. NutDataDo(d, \h1d8) = e
    BY <1>2, DoPairs
  <2>2. WithC(d, d.m) \in NutDataRegs /\ e \in NutDataRegs
    BY <1>0, <1>3
  <2>3. e.c = d.m /\ e.m = d.c
    BY <2>2, OthersStay
  <2>4. NutDataDo(e, \h1d8) = WithM(WithC(e, e.m), e.c)
    BY <1>2, <2>2, DoPairs
  <2> QED BY <2>1, <2>3, <2>4, PutBack DEF Do2
<1>5. Do2(d, \h0f0, \h0f0) = d
  <2> DEFINE e == WithN(WithC(d, d.n), d.c)
  <2>1. NutDataDo(d, \h0f0) = e
    BY <1>2, DoPairs
  <2>2. WithC(d, d.n) \in NutDataRegs /\ e \in NutDataRegs
    BY <1>0, <1>3
  <2>3. e.c = d.n /\ e.n = d.c
    BY <2>2, OthersStay
  <2>4. NutDataDo(e, \h0f0) = WithN(WithC(e, e.n), e.c)
    BY <1>2, <2>2, DoPairs
  <2> QED BY <2>1, <2>3, <2>4, PutBack DEF Do2
<1>6. Do2(d, \h158, \h198).c = d.c
  <2> DEFINE e == WithM(d, d.c)
  <2>1. Do2(d, \h158, \h198) = WithC(e, e.m)
    BY <1>1, DoPairs DEF Do2
  <2>2. e \in NutDataRegs /\ e.m = d.c
    BY <1>0, <1>3, OthersStay
  <2> HIDE DEF e
  <2> QED BY <2>1, <2>2, OthersStay
<1>7. Do2(d, \h070, \h0b0).c = d.c
  <2> DEFINE e == WithN(d, d.c)
  <2>1. Do2(d, \h070, \h0b0) = WithC(e, e.n)
    BY <1>1, DoPairs DEF Do2
  <2>2. e \in NutDataRegs /\ e.n = d.c
    BY <1>0, <1>3, OthersStay
  <2> HIDE DEF e
  <2> QED BY <2>1, <2>2, OthersStay
<1> QED BY <1>4, <1>5, <1>6, <1>7

(* The status bits, F, and the two digits of C                             *)
LEMMA SThereAndBack ==
  ASSUME NEW d \in NutDataRegs
  PROVE  /\ SetBits(d.s, SBits(d)[1], SBits(d)[2]) = d.s
         /\ \A pair \in Pairs : SetBits(SetBits(d.s, pair[1], pair[2]), SBits(d)[1], SBits(d)[2]) = d.s
<1>1. d.s \in SUBSET Nat
  BY DEF NutDataRegs
<1>2. SetBits(d.s, SBits(d)[1], SBits(d)[2]) = d.s
  <2>1. High(d.s) = High(d.s) /\ SBits(d)[1] = Valued(Four(d.s, 0)) /\ SBits(d)[2] = Valued(Four(d.s, 4))
    BY SBitsTyped
  <2> QED BY <1>1, <2>1, BitsComeBack
<1>3. ASSUME NEW pair \in Pairs
      PROVE  SetBits(SetBits(d.s, pair[1], pair[2]), SBits(d)[1], SBits(d)[2]) = d.s
  <2> DEFINE t == SetBits(d.s, pair[1], pair[2])
  <2>1. pair[1] \in Nibble /\ pair[2] \in Nibble
    BY DEF Pairs
  <2>2. t \in SUBSET Nat /\ High(t) = High(d.s)
    BY <1>1, <2>1, BitsOfPair
  <2> HIDE DEF t
  <2>3. SetBits(t, SBits(d)[1], SBits(d)[2]) = d.s
    <3>1. SBits(d)[1] = Valued(Four(d.s, 0)) /\ SBits(d)[2] = Valued(Four(d.s, 4))
      BY SBitsTyped
    <3> QED BY <1>1, <2>2, <3>1, BitsComeBack
  <2> QED BY <2>3 DEF t
<1> QED BY <1>2, <1>3

(* The pair is read back from the bits it set. *)
LEMMA SBackAndThere ==
  ASSUME NEW d \in NutDataRegs, NEW e \in NutDataRegs, NEW pair \in Pairs, e.s = SetBits(d.s, pair[1], pair[2])
  PROVE  SBits(e) = pair
<1>1. d.s \in SUBSET Nat /\ pair[1] \in Nibble /\ pair[2] \in Nibble
  BY DEF NutDataRegs, Pairs
<1>2. /\ Four(e.s, 0) = BitsOf(pair[1])
      /\ Four(e.s, 4) = BitsOf(pair[2])
  <2> DEFINE x == pair[1]
             y == pair[2]
  <2>1. Four(SetBits(d.s, x, y), 0) = BitsOf(x) /\ Four(SetBits(d.s, x, y), 4) = BitsOf(y)
    <3> HIDE DEF x, y
    <3> QED BY <1>1, BitsOfPair DEF x, y
  <2> QED BY <2>1
<1>3. SBits(e)[1] = pair[1] /\ SBits(e)[2] = pair[2]
  BY <1>1, <1>2, SBitsTyped, ValueOfBits
<1>4. SBits(e) \in Pairs
  BY SBitsTyped
<1> QED BY <1>3, <1>4 DEF Pairs

(* C gets its two digits back. *)
LEMMA DigitsBack ==
  ASSUME NEW c \in Reg, NEW pair \in Pairs
  PROVE  WithDigits(WithDigits(c, pair), <<c[0], c[1]>>) = c
<1> DEFINE e == WithDigits(c, pair)
           own == <<c[0], c[1]>>
           f == WithDigits(e, own)
<1>1. e \in Reg /\ (\A i \in Digits : i # 0 /\ i # 1 => e[i] = c[i]) /\ own \in Pairs
  BY DigitsPut
<1>2. own[1] = c[0] /\ own[2] = c[1]
  OBVIOUS
<1> HIDE DEF e, own
<1>3. f \in Reg /\ f[0] = c[0] /\ f[1] = c[1] /\ \A i \in Digits : i # 0 /\ i # 1 => f[i] = e[i]
  BY <1>1, <1>2, DigitsPut
<1> HIDE DEF f
<1>4. \A i \in Digits : f[i] = c[i]
  BY <1>1, <1>3
<1>5. f = c
  BY <1>3, <1>4 DEF Reg
<1> QED BY <1>5 DEF f, e, own

(* The pairs of the status bits *)
LEMMA SPairs ==
  ASSUME NEW d \in NutDataRegs
  PROVE  /\ Do2(d, \h3d8, \h3d8) = d /\ Do2(d, \h2d8, \h2d8) = d
         /\ Do2(d, \h398, \h358).s = d.s /\ Do2(d, \h258, \h298).s = d.s
<1>1. d.c \in Reg /\ d.fo \in Pairs /\ d.s \in SUBSET Nat /\ SBits(d) \in Pairs
  BY SBitsTyped DEF NutDataRegs
<1>2. /\ \A e \in NutDataRegs : \A r \in Reg : WithC(e, r) \in NutDataRegs
      /\ \A e \in NutDataRegs : \A r \in Pairs : WithFo(e, r) \in NutDataRegs
      /\ \A e \in NutDataRegs : \A r \in SUBSET Nat : WithS(e, r) \in NutDataRegs
  BY RegistersChange
<1>3. Do2(d, \h3d8, \h3d8) = d
  <2> DEFINE own == <<d.c[0], d.c[1]>>
             t == SetBits(d.s, own[1], own[2])
             r == WithDigits(d.c, SBits(d))
             e == WithC(WithS(d, t), r)
  <2>1. own \in Pairs /\ r \in Reg /\ r[0] = SBits(d)[1] /\ r[1] = SBits(d)[2]
    BY <1>1, DigitsPut
  <2>2. t \in SUBSET Nat
    BY <1>1, InSetBits
  <2>3. NutDataDo(d, \h3d8) = e
    BY <2>1, DoCExchS, SetSBits
  <2>4. WithS(d, t) \in NutDataRegs /\ e \in NutDataRegs
    BY <1>2, <2>1, <2>2
  <2>5. e.c = r /\ e.s = t
    <3> HIDE DEF r, t
    <3> QED BY <2>4, OthersStay
  <2>6. SBits(e) = own
    <3> HIDE DEF e, own
    <3> QED BY <2>1, <2>4, <2>5, SBackAndThere DEF t
  <2> DEFINE pair == <<e.c[0], e.c[1]>>
  <2>7. pair = SBits(d)
    <3>1. pair = <<r[0], r[1]>>
      BY <2>5
    <3>2. pair = <<SBits(d)[1], SBits(d)[2]>>
      BY <2>1, <3>1
    <3> HIDE DEF pair
    <3> QED BY <1>1, <3>2 DEF Pairs
  <2>8. NutDataDo(e, \h3d8) = WithC(set_s_bits(e, pair), WithDigits(e.c, SBits(e)))
    <3> HIDE DEF e
    <3> QED BY <2>4, DoCExchS
  <2> HIDE DEF pair
  <2>9. set_s_bits(e, pair) = WithS(e, SetBits(e.s, pair[1], pair[2]))
    <3> HIDE DEF e
    <3> QED BY <1>1, <2>4, <2>7, SetSBits
  <2>10. SetBits(e.s, pair[1], pair[2]) = d.s
    <3> HIDE DEF e, own
    <3> QED BY <2>1, <2>5, <2>7, SThereAndBack DEF t
  <2>11. WithDigits(e.c, SBits(e)) = d.c
    <3> HIDE DEF e
    <3>1. WithDigits(e.c, SBits(e)) = WithDigits(WithDigits(d.c, SBits(d)), <<d.c[0], d.c[1]>>)
      BY <2>5, <2>6
    <3> QED BY <1>1, <3>1, DigitsBack
  <2>12. NutDataDo(e, \h3d8) = WithC(WithS(e, d.s), d.c)
    <3> HIDE DEF e
    <3> QED BY <2>8, <2>9, <2>10, <2>11
  <2> HIDE DEF t, r
  <2> QED BY <2>3, <2>12, PutBack DEF Do2
<1>4. Do2(d, \h2d8, \h2d8) = d
  <2> DEFINE t == SetBits(d.s, d.fo[1], d.fo[2])
             e == WithFo(WithS(d, t), SBits(d))
  <2>2. t \in SUBSET Nat
    BY <1>1, InSetBits
  <2>3. NutDataDo(d, \h2d8) = e
    BY <1>1, DoFExch, SetSBits
  <2>4. WithS(d, t) \in NutDataRegs /\ e \in NutDataRegs
    BY <1>1, <1>2, <2>2
  <2>5. e.fo = SBits(d) /\ e.s = t
    <3> HIDE DEF t
    <3> QED BY <2>4, OthersStay
  <2>6. SBits(e) = d.fo
    <3> HIDE DEF e
    <3> QED BY <1>1, <2>4, <2>5, SBackAndThere DEF t
  <2>7. NutDataDo(e, \h2d8) = WithFo(set_s_bits(e, e.fo), SBits(e))
    <3> HIDE DEF e
    <3> QED BY <2>4, DoFExch
  <2>8. set_s_bits(e, e.fo) = WithS(e, SetBits(e.s, e.fo[1], e.fo[2]))
    <3> HIDE DEF e
    <3> QED BY <1>1, <2>4, <2>5, SetSBits
  <2>9. SetBits(e.s, e.fo[1], e.fo[2]) = d.s
    <3> HIDE DEF e
    <3> QED BY <1>1, <2>5, SThereAndBack DEF t
  <2>10. NutDataDo(e, \h2d8) = WithFo(WithS(e, d.s), d.fo)
    <3> HIDE DEF e
    <3> QED BY <2>6, <2>7, <2>8, <2>9
  <2> HIDE DEF t
  <2> QED BY <2>3, <2>10, PutBack DEF Do2
<1>5. Do2(d, \h398, \h358).s = d.s
  <2> DEFINE r == WithDigits(d.c, SBits(d))
             e == WithC(d, r)
             pair == <<e.c[0], e.c[1]>>
  <2>1. r \in Reg /\ r[0] = SBits(d)[1] /\ r[1] = SBits(d)[2]
    BY <1>1, DigitsPut
  <2>2. NutDataDo(d, \h398) = e
    BY DoSToC
  <2>3. e \in NutDataRegs /\ e.c = r /\ e.s = d.s
    <3> HIDE DEF r
    <3> QED BY <1>2, <2>1, OthersStay
  <2>4. pair = SBits(d)
    <3>1. pair = <<SBits(d)[1], SBits(d)[2]>>
      <4> HIDE DEF e, r
      <4> QED BY <2>1, <2>3
    <3> HIDE DEF pair
    <3> QED BY <1>1, <3>1 DEF Pairs
  <2>5. NutDataDo(e, \h358) = set_s_bits(e, pair)
    <3> HIDE DEF e
    <3> QED BY <2>3, DoCToS
  <2> HIDE DEF pair
  <2>6. set_s_bits(e, pair) = WithS(e, SetBits(e.s, pair[1], pair[2]))
    <3> HIDE DEF e
    <3> QED BY <1>1, <2>3, <2>4, SetSBits
  <2>7. SetBits(e.s, pair[1], pair[2]) = d.s
    <3> HIDE DEF e
    <3> QED BY <2>3, <2>4, SThereAndBack
  <2> HIDE DEF e
  <2> QED BY <2>2, <2>3, <2>5, <2>6, <2>7, OthersStay DEF Do2
<1>6. Do2(d, \h258, \h298).s = d.s
  <2> DEFINE e == WithFo(d, SBits(d))
  <2>1. NutDataDo(d, \h258) = e
    BY DoSbToF
  <2>2. e \in NutDataRegs /\ e.fo = SBits(d) /\ e.s = d.s
    BY <1>1, <1>2, OthersStay
  <2> HIDE DEF e
  <2>3. NutDataDo(e, \h298) = set_s_bits(e, e.fo)
    BY <2>2, DoFToSb
  <2>4. set_s_bits(e, e.fo) = WithS(e, SetBits(e.s, e.fo[1], e.fo[2]))
    BY <1>1, <2>2, SetSBits
  <2>5. SetBits(e.s, e.fo[1], e.fo[2]) = d.s
    BY <2>2, SThereAndBack
  <2> QED BY <2>1, <2>2, <2>3, <2>4, <2>5, OthersStay DEF Do2
<1> QED BY <1>3, <1>4, <1>5, <1>6

(* The pointer, forth and back                                             *)
LEMMA PointerSet ==
  ASSUME NEW d \in NutDataRegs, NEW n \in Digits, NEW m \in Digits
  PROVE  pt(SetPt(d, n)) = n /\ SetPt(SetPt(d, n), m) = SetPt(d, m) /\ SetPt(d, pt(d)) = d
BY DEF pt, SetPt, NutDataRegs

(* One digit on and one back, around the ends too *)
LEMMA AroundTheDigits ==
  ASSUME NEW n \in Digits
  PROVE  More(Less(n)) = n /\ Less(More(n)) = n
BY DigitAssumption DEF More, Less, Digits

(* The pairs of the pointer *)
LEMMA PointerPairs ==
  ASSUME NEW d \in NutDataRegs
  PROVE  Do2(d, \h3d4, \h3dc) = d /\ Do2(d, \h3dc, \h3d4) = d
<1> DEFINE x == SetPt(d, Less(pt(d)))
           y == SetPt(d, More(pt(d)))
<1>1. pt(d) \in Digits /\ Less(pt(d)) \in Digits /\ More(pt(d)) \in Digits
  BY PointersTyped
<1>2. \A e : NutDataDo(e, \h3d4) = SetPt(e, Less(pt(e))) /\ NutDataDo(e, \h3dc) = SetPt(e, More(pt(e)))
  BY DoPairs DEF pointer_operations
<1>3. pt(x) = Less(pt(d)) /\ SetPt(x, pt(d)) = d /\ pt(y) = More(pt(d)) /\ SetPt(y, pt(d)) = d
  BY <1>1, PointerSet
<1>4. Do2(d, \h3d4, \h3dc) = SetPt(x, More(pt(x))) /\ Do2(d, \h3dc, \h3d4) = SetPt(y, Less(pt(y)))
  BY <1>2 DEF Do2
<1>5. More(Less(pt(d))) = pt(d) /\ Less(More(pt(d))) = pt(d)
  BY <1>1, AroundTheDigits
<1> HIDE DEF x, y
<1> QED BY <1>3, <1>4, <1>5

(* Two rotations that add up to the whole register                         *)
Rotations == {\h03c + 64 * x : x \in 0..15 \ {7, 15}}

(* The words that rotate C *)
LEMMA RotationWords ==
  ASSUME NEW w \in Rotations
  PROVE  NutDataOp(w) = "op_rcr" /\ Mapped(w) \in 0..13
<1>1. PICK x \in 0..15 \ {7, 15} : w = \h03c + 64 * x
  BY DEF Rotations
<1>2. w \in 0..1023 /\ w % 64 = \h3c /\ w \div 64 = x
  BY <1>1
<1>3. Mapped(w) \in 0..13
  BY <1>1, <1>2 DEF Mapped, Arg4, nut_tmap
<1>4. Mapped(w) # -1 /\ w \notin {\h3c4, \h3d4, \h3dc}
  BY <1>1, <1>3
<1> QED BY <1>2, <1>3, <1>4, SMTT(30) DEF NutDataOp

(* Two rotations that add up to whole turns bring a digit back. *)
LEMMA OnceAround ==
  ASSUME NEW a \in Int, NEW b \in Int, (a + b) % WSIZE = 0, NEW i \in Digits
  PROVE  (i + b) % WSIZE \in Digits /\ (((i + b) % WSIZE) + a) % WSIZE = i
<1> DEFINE W == WSIZE
           r == (i + b) % W
           q == (i + b) \div W
           k == (a + b) \div W
<1>1. W \in Nat \ {0} /\ i \in 0..(W - 1) /\ i \in Int
  BY DigitAssumption DEF Digits
<1>2. i + b \in Int /\ a + b \in Int
  BY <1>1
<1>3. i + b = q * W + r /\ q \in Int /\ r \in 0..(W - 1)
  BY <1>1, <1>2, DivMod
<1>4. a + b = k * W + 0 /\ k \in Int
  BY <1>1, <1>2, DivMod
<1>5. r \in Digits
  BY <1>3 DEF Digits
<1> HIDE DEF W, r, q, k
<1>6. q * W \in Int /\ k * W \in Int /\ k - q \in Int /\ (k - q) * W = k * W - q * W
  BY <1>1, <1>3, <1>4
<1>7. r + a = (k - q) * W + i
  <2> DEFINE kW == k * W
             qW == q * W
  <2>1. kW \in Int /\ qW \in Int /\ r \in Int /\ i + b = qW + r /\ a + b = kW
    BY <1>3, <1>4, <1>6
  <2>2. (k - q) * W = kW - qW
    BY <1>6
  <2> HIDE DEF kW, qW
  <2>3. r + a = (kW - qW) + i
    BY <1>1, <2>1
  <2> QED BY <2>2, <2>3
<1>8. Divided(r + a, k - q, W, i)
  BY <1>1, <1>6, <1>7 DEF Divided
<1>9. (r + a) % W = i
  BY <1>8, ModUnique
<1> QED BY <1>5, <1>9 DEF r, W

(* So they bring C back. *)
LEMMA RotationPairs ==
  ASSUME NEW d \in NutDataRegs, NEW w \in Rotations, NEW v \in Rotations, (Mapped(w) + Mapped(v)) % WSIZE = 0
  PROVE  Do2(d, w, v) = d
<1> DEFINE Turned(c, x) == [i \in Digits |-> c[(i + Mapped(x)) % WSIZE]]
<1>1. \A e, x : NutDataOp(x) = "op_rcr" => NutDataDo(e, x) = WithC(e, Turned(e.c, x))
  BY DEF NutDataDo, NutDataBy, c_operations, op_rcr, WithC
<1>2. NutDataOp(w) = "op_rcr" /\ NutDataOp(v) = "op_rcr" /\ Mapped(w) \in Int /\ Mapped(v) \in Int
  <2>1. NutDataOp(w) = "op_rcr" /\ NutDataOp(v) = "op_rcr" /\ Mapped(w) \in 0..13 /\ Mapped(v) \in 0..13
    BY RotationWords
  <2> QED BY <2>1
<1> DEFINE once == Turned(d.c, w)
           twice == Turned(once, v)
<1>3. \A i \in Digits : twice[i] = d.c[i]
  <2>1. ASSUME NEW i \in Digits PROVE twice[i] = d.c[i]
    <3> DEFINE j == (i + Mapped(v)) % WSIZE
    <3>1. j \in Digits /\ (j + Mapped(w)) % WSIZE = i
      BY <1>2, OnceAround
    <3>2. twice[i] = once[j]
      <4> HIDE DEF once
      <4> QED OBVIOUS
    <3> HIDE DEF j
    <3>3. once[j] = d.c[(j + Mapped(w)) % WSIZE]
      BY <3>1
    <3> HIDE DEF once, twice
    <3> QED BY <3>1, <3>2, <3>3
  <2> QED BY <2>1
<1>4. d.c \in Reg /\ twice = [i \in Digits |-> twice[i]]
  <2> HIDE DEF once
  <2> QED BY DEF NutDataRegs
<1>5. NutDataDo(d, w) = WithC(d, once) /\ NutDataDo(WithC(d, once), v) = WithC(WithC(d, once), Turned(WithC(d, once).c, v))
  BY <1>1, <1>2
<1>6. WithC(d, once).c = once
  <2> HIDE DEF once
  <2> QED BY OthersStay
<1> HIDE DEF Turned
<1>7. Do2(d, w, v) = WithC(WithC(d, once), twice)
  BY <1>5, <1>6 DEF Do2
<1> HIDE DEF once, twice
<1>8. twice = d.c
  BY <1>3, <1>4 DEF Reg
<1>9. WithC(WithC(d, once), d.c) = d
  BY DEF WithC, NutDataRegs
<1> QED BY <1>7, <1>8, <1>9

(* A register of the selected block, or of the peripheral, written and read *)
LEMMA BusWords ==
  ASSUME NEW n \in Nat \ {0}
  PROVE  /\ NutDataOp(\h028 + 64 * n) = "op_write_reg_n" /\ Arg4(\h028 + 64 * n) = n
         /\ NutDataOp(\h038 + 64 * n) = "op_read_reg_n" /\ Arg4(\h038 + 64 * n) = n
<1> DEFINE w == \h028 + 64 * n
           v == \h038 + 64 * n
<1>1. w \in Nat /\ v \in Nat /\ w % 64 = \h28 /\ w \div 64 = n /\ v % 64 = \h38 /\ v \div 64 = n
  OBVIOUS
<1> HIDE DEF w, v
<1>2. NutDataOp(w) = "op_write_reg_n" /\ NutDataOp(v) = "op_read_reg_n"
  BY <1>1, SMTT(30) DEF NutDataOp
<1> QED BY <1>1, <1>2 DEF Arg4, w, v

(* What was written to the register selected is what is read from it. *)
LEMMA BusPairs ==
  ASSUME NEW d \in NutDataRegs, NEW n \in Nat \ {0}
  PROVE  LET e == Do2(d, \h028 + 64 * n, \h038 + 64 * n)
         IN  e.ram_addr \in ram_exists \/ e.pf_addr \in pf_exists => e.c = d.c
<1> DEFINE first == Select(d, n)
           written == WriteBus(first)
           second == Select(written, n)
           e == WithC(second, ReadBus(second, n))
<1>1. first \in NutDataRegs /\ first.c = d.c
  BY SelectKeepsBlock
<1>2. /\ written \in NutDataRegs /\ written.ram_addr = first.ram_addr /\ written.pf_addr = first.pf_addr
      /\ \A r \in ram_exists : written.ram[r] = IF r = first.ram_addr THEN first.c ELSE first.ram[r]
      /\ \A r \in pf_exists : written.pf[r] = IF r = first.pf_addr THEN first.c ELSE first.pf[r]
  BY <1>1, WriteBusTyped
<1>3. /\ second \in NutDataRegs /\ second.ram = written.ram /\ second.pf = written.pf
      /\ second.pf_addr = written.pf_addr
      /\ second.ram_addr \div BLOCK = written.ram_addr \div BLOCK /\ second.ram_addr % BLOCK = n % BLOCK
  <2> HIDE DEF written
  <2> QED BY <1>2, SelectKeepsBlock
<1>4. first.ram_addr % BLOCK = n % BLOCK
  BY SelectKeepsBlock
<1>5. second.ram_addr = written.ram_addr
  <2> DEFINE x == second.ram_addr
             y == written.ram_addr
  <2>1. x \in Nat /\ y \in Nat
    BY <1>2, <1>3 DEF NutDataRegs
  <2>2. x \in Int /\ y \in Int /\ BLOCK \in Nat \ {0}
    BY <2>1, NutDataAssumption
  <2>3. x \div BLOCK = y \div BLOCK /\ x % BLOCK = y % BLOCK
    BY <1>2, <1>3, <1>4
  <2> HIDE DEF x, y
  <2>4. x = (x \div BLOCK) * BLOCK + (x % BLOCK) /\ y = (y \div BLOCK) * BLOCK + (y % BLOCK)
    BY <2>2, DivMod
  <2>5. x = y
    BY <2>3, <2>4
  <2> QED BY <2>5 DEF x, y
<1>6. Do2(d, \h028 + 64 * n, \h038 + 64 * n) = e
  <2> DEFINE w == \h028 + 64 * n
             v == \h038 + 64 * n
  <2>1. NutDataOp(w) = "op_write_reg_n" /\ Arg4(w) = n /\ NutDataOp(v) = "op_read_reg_n" /\ Arg4(v) = n
    BY BusWords
  <2> HIDE DEF w, v
  <2>2. NutDataDo(d, w) = written
    BY <2>1 DEF NutDataDo, NutDataBy, ram_operations
  <2> HIDE DEF written
  <2>3. n # 0
    OBVIOUS
  <2>4. NutDataDo(written, v) = e
    BY <2>1, <2>3 DEF NutDataDo, NutDataBy, ram_operations, WithC
  <2>5. Do2(d, w, v) = e
    BY <2>2, <2>4 DEF Do2
  <2> QED BY <2>5 DEF w, v
<1> HIDE DEF first, written, second
<1>7. e.c = ReadBus(second, n) /\ e.ram_addr = second.ram_addr /\ e.pf_addr = second.pf_addr
  BY <1>3 DEF WithC, NutDataRegs
<1>8. second.ram_addr \in ram_exists \/ second.pf_addr \in pf_exists => ReadBus(second, n) = d.c
  BY <1>1, <1>2, <1>3, <1>5 DEF ReadBus
<1> HIDE DEF e
<1>9. e.ram_addr \in ram_exists \/ e.pf_addr \in pf_exists => e.c = d.c
  BY <1>7, <1>8
<1> QED BY <1>6, <1>9

(* All the pairs together *)
LEMMA PairsUndo ==
  ASSUME nd \in NutDataRegs
  PROVE  PairsUndoEachOther
<1>1. /\ \A w \in {\h0d8, \h1d8, \h0f0, \h3d8, \h2d8} : Do2(nd, w, w) = nd
      /\ \A w \in {<<\h058, \h098>>, <<\h158, \h198>>, <<\h070, \h0b0>>} : Do2(nd, w[1], w[2]).c = nd.c
      /\ Do2(nd, \h098, \h058).g = nd.g /\ Do2(nd, \h398, \h358).s = nd.s /\ Do2(nd, \h258, \h298).s = nd.s
  BY GPairs, MNPairs, SPairs
<1>2. Do2(nd, \h3d4, \h3dc) = nd /\ Do2(nd, \h3dc, \h3d4) = nd
  BY PointerPairs
<1>3. \A w, v \in {\h03c + 64 * x : x \in 0..15 \ {7, 15}} :
         (Mapped(w) + Mapped(v)) % WSIZE = 0 => Do2(nd, w, v) = nd
  BY RotationPairs DEF Rotations
<1>4. \A n \in 1..(BLOCK - 1) :
         LET d == Do2(nd, \h028 + 64 * n, \h038 + 64 * n)
         IN  d.ram_addr \in ram_exists \/ d.pf_addr \in pf_exists => d.c = nd.c
  <2>1. ASSUME NEW n \in 1..(BLOCK - 1) PROVE n \in Nat \ {0}
    BY NutDataAssumption
  <2> QED BY <2>1, BusPairs
<1> QED BY <1>1, <1>2, <1>3, <1>4 DEF PairsUndoEachOther

-----------------------------------------------------------------------------
(* An instruction that is not one of the bus leaves the memory and what is *)
(* selected alone.                                                         *)
SameMemory(e, d) == e.ram = d.ram /\ e.ram_addr = d.ram_addr

(* The instructions between registers *)
LEMMA RegistersSpareTheMemory ==
  ASSUME NEW d \in NutDataRegs, NEW w
  PROVE  /\ \A op \in PointerOps : SameMemory(pointer_operations(d, w, op), d)
         /\ \A op \in GOps : SameMemory(g_operations(d, op), d)
         /\ \A op \in MNOps : SameMemory(m_n_operations(d, op), d)
         /\ \A op \in COps : SameMemory(c_operations(d, w, op), d)
         /\ \A op \in SOps : SameMemory(s_operations(d, w, op), d)
<1>1. \A op \in PointerOps : SameMemory(pointer_operations(d, w, op), d)
  BY DEF PointerOps, pointer_operations, SetPt, SameMemory, NutDataRegs
<1>2. \A op \in GOps : SameMemory(g_operations(d, op), d)
  BY DEF GOps, g_operations, SameMemory, NutDataRegs
<1>3. \A op \in MNOps : SameMemory(m_n_operations(d, op), d)
  BY DEF MNOps, m_n_operations, SameMemory, NutDataRegs
<1>4. \A op \in COps : SameMemory(c_operations(d, w, op), d)
  BY DEF COps, c_operations, op_rcr, SameMemory, NutDataRegs
<1>5. \A op \in SOps : SameMemory(s_operations(d, w, op), d)
  BY DEF SOps, s_operations, set_s_bits, SameMemory, NutDataRegs
<1> QED BY <1>1, <1>2, <1>3, <1>4, <1>5

(* Nor is there memory in a block that has none, whatever is selected.     *)
LEMMA EmptyOfBlock ==
  ASSUME NEW x, NEW y, x \div BLOCK = y \div BLOCK, Empty(y)
  PROVE  Empty(x)
BY DEF Empty

(* A write with such a block selected changes no memory. *)
LEMMA NothingIsWritten ==
  ASSUME NEW d \in NutDataRegs, Empty(d.ram_addr)
  PROVE  WriteBus(d).ram = d.ram
<1>1. d.ram_addr \notin ram_exists
  BY DEF Empty
<1>2. \A r \in ram_exists : WriteBus(d).ram[r] = d.ram[r]
  BY <1>1, WriteBusTyped
<1>3. WriteBus(d).ram \in [ram_exists -> Reg] /\ d.ram \in [ram_exists -> Reg]
  BY WriteBusTyped DEF NutDataRegs
<1> QED BY <1>2, <1>3

(* The instructions of the bus leave the memory alone and stay in the block. *)
LEMMA BusSparesTheMemory ==
  ASSUME NEW d \in NutDataRegs, Empty(d.ram_addr), NEW w \in DataWord, NEW op \in BusOps, op # "op_c_to_dadd"
  PROVE  ram_operations(d, w, op).ram = d.ram /\ Empty(ram_operations(d, w, op).ram_addr)
<1> DEFINE n == Arg4(w)
           e == Select(d, n)
<1>1. n \in Nat
  <2>1. n \in 0..15
    BY WordParts
  <2> QED BY <2>1
<1>2. e \in NutDataRegs /\ e.ram = d.ram /\ e.ram_addr \div BLOCK = d.ram_addr \div BLOCK
  <2> HIDE DEF n
  <2> QED BY <1>1, SelectKeepsBlock
<1>3. Empty(e.ram_addr)
  <2> HIDE DEF e
  <2> QED BY <1>2, EmptyOfBlock
<1>4. CASE op = "op_c_to_pfad"
  BY <1>4 DEF ram_operations, NutDataRegs
<1>5. CASE op = "op_read_reg_n"
  <2> DEFINE f == IF n = 0 THEN d ELSE e
  <2>1. ram_operations(d, w, op) = WithC(f, ReadBus(f, n))
    BY <1>5 DEF ram_operations, WithC
  <2>2. f \in NutDataRegs /\ f.ram = d.ram /\ Empty(f.ram_addr)
    <3> HIDE DEF e
    <3> QED BY <1>2, <1>3
  <2> HIDE DEF f
  <2>3. WithC(f, ReadBus(f, n)).ram = f.ram /\ WithC(f, ReadBus(f, n)).ram_addr = f.ram_addr
    BY <2>2 DEF WithC, NutDataRegs
  <2> QED BY <2>1, <2>2, <2>3
<1>6. CASE op = "op_write_reg_n"
  <2>1. ram_operations(d, w, op) = WriteBus(e)
    BY <1>6 DEF ram_operations
  <2> HIDE DEF e
  <2>2. WriteBus(e).ram = e.ram /\ WriteBus(e).ram_addr = e.ram_addr
    BY <1>2, <1>3, NothingIsWritten, WriteBusTyped
  <2> QED BY <1>2, <1>3, <2>1, <2>2
<1>7. CASE op = "op_c_to_data"
  <2>1. ram_operations(d, w, op) = WriteBus(d)
    BY <1>7 DEF ram_operations
  <2>2. WriteBus(d).ram = d.ram /\ WriteBus(d).ram_addr = d.ram_addr
    BY NothingIsWritten, WriteBusTyped
  <2> QED BY <2>1, <2>2
<1> QED BY <1>4, <1>5, <1>6, <1>7 DEF BusOps

(* So does every instruction but the one that selects another block. *)
LEMMA DoSparesTheMemory ==
  ASSUME NEW d \in NutDataRegs, Empty(d.ram_addr), NEW w \in DataWord, NutDataOp(w) # "op_c_to_dadd"
  PROVE  NutDataDo(d, w).ram = d.ram /\ Empty(NutDataDo(d, w).ram_addr)
<1> DEFINE op == NutDataOp(w)
<1>1. op \in PointerOps \cup GOps \cup MNOps \cup COps \cup BusOps \cup SOps \cup {"another"}
  BY DataOps
<1>2. NutDataDo(d, w) = NutDataBy(d, w, op)
  BY DEF NutDataDo
<1> HIDE DEF op
<1>3. CASE op \in BusOps
  <2>1. NutDataBy(d, w, op) = ram_operations(d, w, op)
    BY <1>3 DEF NutDataBy, BusOps
  <2> QED BY <1>2, <1>3, <2>1, BusSparesTheMemory DEF op
<1>4. CASE op \notin BusOps
  <2>1. SameMemory(NutDataBy(d, w, op), d)
    <3>1. CASE op \in PointerOps
      <4>1. NutDataBy(d, w, op) = pointer_operations(d, w, op)
        BY <3>1 DEF NutDataBy, PointerOps
      <4> QED BY <3>1, <4>1, RegistersSpareTheMemory
    <3>2. CASE op \in GOps
      <4>1. NutDataBy(d, w, op) = g_operations(d, op)
        BY <3>2 DEF NutDataBy, GOps
      <4> QED BY <3>2, <4>1, RegistersSpareTheMemory
    <3>3. CASE op \in MNOps
      <4>1. NutDataBy(d, w, op) = m_n_operations(d, op)
        BY <3>3 DEF NutDataBy, MNOps
      <4> QED BY <3>3, <4>1, RegistersSpareTheMemory
    <3>4. CASE op \in COps
      <4>1. NutDataBy(d, w, op) = c_operations(d, w, op)
        BY <3>4 DEF NutDataBy, COps
      <4> QED BY <3>4, <4>1, RegistersSpareTheMemory
    <3>5. CASE op \in SOps
      <4>1. NutDataBy(d, w, op) = s_operations(d, w, op)
        BY <3>5 DEF NutDataBy, SOps
      <4> QED BY <3>5, <4>1, RegistersSpareTheMemory
    <3>6. CASE op = "another"
      BY <3>6 DEF NutDataBy, SameMemory
    <3> QED BY <1>1, <1>4, <3>1, <3>2, <3>3, <3>4, <3>5, <3>6
  <2> QED BY <1>2, <2>1 DEF SameMemory
<1> QED BY <1>3, <1>4

(* The Nut's data: pairs of instructions undo each other, for registers of *)
(* any length, and a program that has selected a block without memory      *)
(* writes to peripherals only.                                             *)
THEOREM DataIsKeptCorrect == NutDataSpec => []DataIsKept
<1>1. NutDataInv => DataIsKept
  <2> SUFFICES ASSUME NutDataInv PROVE DataIsKept
    OBVIOUS
  <2>1. program \in NutSessions /\ nd \in NutDataRegs
    BY DEF NutDataInv
  <2>2. PairsUndoEachOther
    BY <2>1, PairsUndo
  <2>3. PeripheralsSpareTheMemory
    <3> SUFFICES ASSUME Empty(nd.ram_addr), NEW w \in program.words, NutDataOp(w) # "op_c_to_dadd"
                 PROVE  NutDataDo(nd, w).ram = nd.ram /\ Empty(NutDataDo(nd, w).ram_addr)
      BY DEF PeripheralsSpareTheMemory
    <3>1. w \in DataWord
      BY <2>1, SessionWords
    <3> QED BY <2>1, <3>1, DoSparesTheMemory
  <2> QED BY <2>2, <2>3 DEF DataIsKept
<1> QED BY <1>1, NutDataInitially, NutDataSteps, PTL DEF NutDataSpec

-----------------------------------------------------------------------------
(***************************************************************************)
(* The listing and the trace                                               *)
(***************************************************************************)
(* The Nut's registers *)
AWord == 0..1023
Stacks == {s \in Seq(NutAddresses) : Len(s) = STACK_DEPTH}
NutStates == {"normal", "long_branch", "selpf", "ldi", "cxisa"}
NutRegs ==
  [pc : NutAddresses, stack : Stacks, carry : BOOLEAN, awake : BOOLEAN, inst_state : NutStates, first_word : AWord]
DisRegs ==
  [inst_state : {"normal", "second", "selpf", "past"}, carry_known_clear : BOOLEAN, op1 : AWord, pfsft : BOOLEAN]

(* The disassembler d, when its walk comes to the word that the processor  *)
(* n fetches next, takes it for what the processor takes it for; where it  *)
(* knows the carry to be clear it is, but for the word after ?pfsft; and   *)
(* of a processor that sleeps, and may wake with a carry, it knows nothing.*)
(* Or it is past the third word of a jump, and knows nothing either.       *)
InStep(n, d) ==
  /\ n.inst_state \in {"normal", "cxisa"} => d.inst_state = "normal"
  /\ n.inst_state = "selpf" => d.inst_state = "selpf"
  /\ n.inst_state = "ldi" => d.inst_state = "second" /\ Kind(d.op1) # 1
  /\ n.inst_state = "long_branch" =>
       d.inst_state = "second" /\ d.op1 = n.first_word /\ Kind(d.op1) = 1

SameWord(n, d) ==
  /\ n.inst_state = "long_branch" => Kind(n.first_word) = 1
  /\ IF d.inst_state = "past" THEN d.carry_known_clear = FALSE ELSE InStep(n, d)

CarryKnown(n, d) == d.carry_known_clear = TRUE /\ d.pfsft = FALSE => n.carry = FALSE

Asleep(n, d) == n.awake = FALSE => n.inst_state = "normal" /\ d.carry_known_clear = FALSE

Agree(n, d) == n \in NutRegs /\ d \in DisRegs /\ SameWord(n, d) /\ CarryKnown(n, d) /\ Asleep(n, d)

NutFlowInv == Agree(nut, dis) /\ NutTextShowsTheFlow

-----------------------------------------------------------------------------
(* Addresses and the stack stay within the calculator's.                   *)
LEMMA AnAddress == ASSUME NEW x \in Int PROVE x % NutSize \in NutAddresses
BY NutFlowAssumption DEF NutAddresses

LEMMA NextIsAddress == ASSUME NEW a \in NutAddresses PROVE Next1(a) \in NutAddresses
BY NutFlowAssumption DEF NutAddresses, Next1

LEMMA StackOfZeros == [i \in 1..STACK_DEPTH |-> 0] \in Stacks
BY NutFlowAssumption DEF Stacks, NutAddresses

LEMMA TopIsAddress == ASSUME NEW s \in Stacks PROVE s[1] \in NutAddresses
BY NutFlowAssumption DEF Stacks

LEMMA Popped == ASSUME NEW s \in Stacks PROVE Append(Tail(s), 0) \in Stacks
<1>1. s \in Seq(NutAddresses) /\ Len(s) = STACK_DEPTH /\ s # <<>>
  BY NutFlowAssumption DEF Stacks
<1>2. Tail(s) \in Seq(NutAddresses) /\ Len(Tail(s)) = STACK_DEPTH - 1
  BY <1>1
<1>3. 0 \in NutAddresses
  BY NutFlowAssumption DEF NutAddresses
<1> QED BY <1>2, <1>3, NutFlowAssumption DEF Stacks

LEMMA Pushed ==
  ASSUME NEW s \in Stacks, NEW a \in NutAddresses
  PROVE  <<a>> \o SubSeq(s, 1, STACK_DEPTH - 1) \in Stacks
<1>1. s \in Seq(NutAddresses) /\ Len(s) = STACK_DEPTH
  BY DEF Stacks
<1>2. SubSeq(s, 1, STACK_DEPTH - 1) \in Seq(NutAddresses) /\ Len(SubSeq(s, 1, STACK_DEPTH - 1)) = STACK_DEPTH - 1
  BY <1>1, NutFlowAssumption
<1> QED BY <1>2, NutFlowAssumption DEF Stacks

-----------------------------------------------------------------------------
(* What the words are, for the processor and for the disassembler.         *)
LEMMA KindOfOp ==
  ASSUME NEW w \in AWord
  PROVE  /\ Kind(w) = 1 => NutOp(w) = "op_long_branch"
         /\ Kind(w) = 2 => NutOp(w) = "op_arith"
         /\ Kind(w) = 3 => NutOp(w) = "op_short_branch"
         /\ Kind(w) = 0 => NutOp(w) \notin {"op_long_branch", "op_arith", "op_short_branch"}
         /\ Kind(w) \in 0..3
BY DEF AWord, NutOp, Kind, RowOf, Column, InTmap

LEMMA MiscOps ==
  ASSUME NEW w \in AWord, Kind(w) = 0
  PROVE  /\ NutOp(w) = "op_selpf" <=> RowOf(w) = \h24
         /\ NutOp(w) = "op_ldi" <=> w = \h130
         /\ NutOp(w) = "op_powoff" <=> w = \h060
         /\ NutOp(w) \in {"op_goto_c", "op_return_if_carry", "op_return_if_no_carry", "op_return", "op_keys_to_rom_addr"}
              <=> w \in {\h1e0, \h360, \h3a0, \h3e0, \h230}
BY DEF AWord, NutOp, Kind, RowOf, Column, InTmap

CarryIsKnown(w) == can_set_carry_of(w) /\ NutOp(w) \in {"a test", "op_arith"}

LEMMA CarriesAreKnown ==
  ASSUME NEW w \in AWord, MaySetCarry(w)
  PROVE  CarryIsKnown(w) /\ Kind(w) \in {0, 2} /\ w # \h130 /\ w # \h060
BY DEF CarryIsKnown, AWord, NutOp, Kind, RowOf, Column, InTmap, MaySetCarry, can_set_carry_of

-----------------------------------------------------------------------------
(* The processor with some of its registers changed                        *)
WithPc(c, a) == [c EXCEPT !.pc = a]
WithStack(c, s) == [c EXCEPT !.stack = s]
WithCarry(c, b) == [c EXCEPT !.carry = b]
WithState(c, i) == [c EXCEPT !.inst_state = i]
WithCarryPc(c, b, a) == [c EXCEPT !.carry = b, !.pc = a]
WithAwakePc(c, b, a) == [c EXCEPT !.awake = b, !.pc = a]

LEMMA WithPcRegs ==
  ASSUME NEW c \in NutRegs, NEW a \in NutAddresses
  PROVE  LET d == WithPc(c, a) IN
             /\ d \in NutRegs /\ d.pc = a /\ d.stack = c.stack /\ d.carry = c.carry
             /\ d.awake = c.awake /\ d.inst_state = c.inst_state /\ d.first_word = c.first_word
BY DEF WithPc, NutRegs

LEMMA WithStackRegs ==
  ASSUME NEW c \in NutRegs, NEW s \in Stacks
  PROVE  LET d == WithStack(c, s) IN
             /\ d \in NutRegs /\ d.pc = c.pc /\ d.stack = s /\ d.carry = c.carry
             /\ d.awake = c.awake /\ d.inst_state = c.inst_state /\ d.first_word = c.first_word
BY DEF WithStack, NutRegs

LEMMA WithCarryRegs ==
  ASSUME NEW c \in NutRegs, NEW b \in BOOLEAN
  PROVE  LET d == WithCarry(c, b) IN
             /\ d \in NutRegs /\ d.pc = c.pc /\ d.stack = c.stack /\ d.carry = b
             /\ d.awake = c.awake /\ d.inst_state = c.inst_state /\ d.first_word = c.first_word
BY DEF WithCarry, NutRegs

LEMMA WithStateRegs ==
  ASSUME NEW c \in NutRegs, NEW i \in NutStates
  PROVE  LET d == WithState(c, i) IN
             /\ d \in NutRegs /\ d.pc = c.pc /\ d.stack = c.stack /\ d.carry = c.carry
             /\ d.awake = c.awake /\ d.inst_state = i /\ d.first_word = c.first_word
BY DEF WithState, NutRegs

LEMMA WithCarryPcRegs ==
  ASSUME NEW c \in NutRegs, NEW b \in BOOLEAN, NEW a \in NutAddresses
  PROVE  LET d == WithCarryPc(c, b, a) IN
             /\ d \in NutRegs /\ d.pc = a /\ d.stack = c.stack /\ d.carry = b
             /\ d.awake = c.awake /\ d.inst_state = c.inst_state /\ d.first_word = c.first_word
<1>1. WithCarryPc(c, b, a) = WithPc(WithCarry(c, b), a)
  BY DEF WithCarryPc, WithCarry, WithPc
<1> QED BY <1>1, WithCarryRegs, WithPcRegs

LEMMA WithAwakePcRegs ==
  ASSUME NEW c \in NutRegs, NEW b \in BOOLEAN, NEW a \in NutAddresses
  PROVE  LET d == WithAwakePc(c, b, a) IN
             /\ d \in NutRegs /\ d.pc = a /\ d.stack = c.stack /\ d.carry = c.carry
             /\ d.awake = b /\ d.inst_state = c.inst_state /\ d.first_word = c.first_word
<1> DEFINE e == [c EXCEPT !.awake = b]
<1>1. WithAwakePc(c, b, a) = WithPc(e, a)
  BY DEF WithAwakePc, WithPc
<1>2. /\ e \in NutRegs /\ e.stack = c.stack /\ e.carry = c.carry
      /\ e.awake = b /\ e.inst_state = c.inst_state /\ e.first_word = c.first_word
  BY DEF NutRegs
<1> HIDE DEF e
<1> QED BY <1>1, <1>2, WithPcRegs

-----------------------------------------------------------------------------
(* What an instruction makes of the processor, by the kind of word; f is   *)
(* the processor when it has fetched the word.                             *)
LEMMA ShortBranchOp ==
  ASSUME NEW f \in NutRegs, NEW w \in AWord, Kind(w) = 3, NEW prev_carry \in BOOLEAN, NEW any
  PROVE  LET d == NutOperation(f, prev_carry, w, any)
         IN  /\ d \in NutRegs /\ d.inst_state = f.inst_state /\ d.awake = f.awake /\ d.carry = f.carry
             /\ d.pc = IF ((w \div 4) % 2 = 1) = prev_carry THEN (f.pc + ShortOffset(w) - 1) % NutSize ELSE f.pc
<1>1. NutOperation(f, prev_carry, w, any) = op_short_branch(f, prev_carry, w)
  BY KindOfOp DEF NutOperation
<1>2. f.pc + ShortOffset(w) - 1 \in Int
  BY DEF AWord, ShortOffset, NutRegs, NutAddresses
<1> DEFINE a == (f.pc + ShortOffset(w) - 1) % NutSize
           taken == ((w \div 4) % 2 = 1) = prev_carry
<1>3. a \in NutAddresses
  BY <1>2, AnAddress
<1>4. op_short_branch(f, prev_carry, w) = IF taken THEN WithPc(f, a) ELSE f
  BY DEF op_short_branch, Goto, WithPc
<1> HIDE DEF a, taken
<1> SUFFICES LET d == NutOperation(f, prev_carry, w, any)
             IN  /\ d \in NutRegs /\ d.inst_state = f.inst_state /\ d.awake = f.awake /\ d.carry = f.carry
                 /\ d.pc = IF taken THEN a ELSE f.pc
  BY Zenon DEF a, taken
<1>5. CASE taken
  BY <1>1, <1>3, <1>4, <1>5, WithPcRegs
<1>6. CASE ~taken
  BY <1>1, <1>4, <1>6
<1> QED BY <1>5, <1>6

(* the first word of a long branch, and the other instructions that say    *)
(* what the next word is                                                   *)
LEMMA LongBranchOp ==
  ASSUME NEW f \in NutRegs, NEW w \in AWord, NEW prev_carry \in BOOLEAN, NEW any, NutOp(w) = "op_long_branch"
  PROVE  LET d == NutOperation(f, prev_carry, w, any)
         IN  /\ d \in NutRegs /\ d.awake = f.awake /\ d.pc = f.pc
             /\ d.inst_state = "long_branch" /\ d.first_word = w /\ d.carry = prev_carry
<1> DEFINE e == [f EXCEPT !.first_word = w]
<1>1. /\ e \in NutRegs /\ e.awake = f.awake /\ e.pc = f.pc /\ e.first_word = w
  BY DEF NutRegs
<1>2. NutOperation(f, prev_carry, w, any) = WithCarry(WithState(e, "long_branch"), prev_carry)
  BY DEF NutOperation, WithCarry, WithState, NutRegs
<1> HIDE DEF e
<1>3. "long_branch" \in NutStates
  BY DEF NutStates
<1> QED BY <1>1, <1>2, <1>3, WithStateRegs, WithCarryRegs

PrefixState(w) == IF NutOp(w) = "op_selpf" THEN "selpf" ELSE IF NutOp(w) = "op_ldi" THEN "ldi" ELSE "cxisa"

LEMMA PrefixOp ==
  ASSUME NEW f \in NutRegs, NEW w \in AWord, NEW prev_carry \in BOOLEAN, NEW any,
         NutOp(w) \in {"op_selpf", "op_ldi", "op_rom_to_c"}
  PROVE  LET d == NutOperation(f, prev_carry, w, any)
         IN  d \in NutRegs /\ d.awake = f.awake /\ d.pc = f.pc /\ d.inst_state = PrefixState(w) /\ d.carry = f.carry
<1>1. NutOperation(f, prev_carry, w, any) = WithState(f, PrefixState(w))
  BY DEF NutOperation, WithState, PrefixState
<1>2. PrefixState(w) \in NutStates
  BY DEF NutStates, PrefixState
<1> QED BY <1>1, <1>2, WithStateRegs

Jumps == {"op_goto_c", "op_return_if_carry", "op_return_if_no_carry", "op_return", "op_keys_to_rom_addr"}

LEMMA JumpOp ==
  ASSUME NEW f \in NutRegs, NEW w \in AWord, NEW prev_carry \in BOOLEAN, NEW any \in NutAddresses, NutOp(w) \in Jumps
  PROVE  LET d == NutOperation(f, prev_carry, w, any)
         IN  d \in NutRegs /\ d.awake = f.awake /\ d.inst_state = f.inst_state /\ d.carry = f.carry
<1> DEFINE k == (f.pc - (f.pc % NutPage) + (any % NutPage)) % NutSize
           g == any % NutSize
           s == Append(Tail(f.stack), 0)
           t == f.stack[1] % NutSize
<1>1. f.pc \in Int /\ any \in Int /\ f.stack \in Stacks
  BY DEF NutRegs, NutAddresses
<1>2. f.stack[1] \in Int
  BY <1>1, TopIsAddress DEF NutAddresses
<1>3. f.pc - (f.pc % NutPage) + (any % NutPage) \in Int
  BY <1>1, NutFlowAssumption
<1>4. k \in NutAddresses /\ g \in NutAddresses /\ t \in NutAddresses
  BY <1>1, <1>2, <1>3, AnAddress
<1>5. s \in Stacks
  BY <1>1, Popped
<1>6. NutOperation(f, prev_carry, w, any) \in {f, WithPc(f, k), WithPc(f, g), WithPc(WithStack(f, s), t)}
  BY DEF NutOperation, Goto, return, pop, Top, Jumps, WithPc, WithStack
<1> HIDE DEF k, g, s, t
<1>7. \A a \in NutAddresses : LET d == WithPc(f, a) IN
        d \in NutRegs /\ d.awake = f.awake /\ d.inst_state = f.inst_state /\ d.carry = f.carry
  BY WithPcRegs
<1>8. LET d == WithPc(WithStack(f, s), t) IN
        d \in NutRegs /\ d.awake = f.awake /\ d.inst_state = f.inst_state /\ d.carry = f.carry
  BY <1>4, <1>5, WithPcRegs, WithStackRegs
<1> QED BY <1>4, <1>6, <1>7, <1>8

SamePlace(d, f) == /\ d \in NutRegs /\ d.awake = f.awake /\ d.inst_state = f.inst_state
                   /\ d.carry = f.carry /\ d.pc = f.pc

LEMMA PlainOp ==
  ASSUME NEW f \in NutRegs, NEW w \in AWord, NEW prev_carry \in BOOLEAN, NEW any \in NutAddresses,
         NutOp(w) \in {"op_arith", "a test", "op_pop", "op_pop_c", "op_push_c", "another"}
  PROVE  SamePlace(NutOperation(f, prev_carry, w, any), f)
<1> DEFINE s == Append(Tail(f.stack), 0)
           u == <<any>> \o SubSeq(f.stack, 1, STACK_DEPTH - 1)
<1>1. f.stack \in Stacks
  BY DEF NutRegs
<1>2. s \in Stacks /\ u \in Stacks
  BY <1>1, Popped, Pushed
<1>3. NutOperation(f, prev_carry, w, any) \in {f, WithStack(f, s), WithStack(f, u)}
  BY DEF NutOperation, pop, push, WithStack
<1> HIDE DEF s, u
<1>4. \A x \in {s, u} : SamePlace(WithStack(f, x), f)
  BY <1>2, WithStackRegs DEF SamePlace
<1>5. SamePlace(f, f)
  BY DEF SamePlace
<1> QED BY <1>3, <1>4, <1>5

LongOutcome(n, w, c) ==
  /\ c \in NutRegs /\ c.inst_state = "normal" /\ c.awake = n.awake /\ c.carry = FALSE
  /\ c.pc \in {LongTarget(n.first_word, w) % NutSize, Next1(n.pc)}
  /\ (w % 2 = 1) = n.carry /\ (w \div 2) % 2 = 1 => c.pc = LongTarget(n.first_word, w) % NutSize
  /\ (w \div 2) % 2 # 1 => c.pc = Next1(n.pc) \/ Top(c) = Next1(n.pc)

LEMMA SecondWord ==
  ASSUME NEW c \in NutRegs, c.inst_state = "long_branch", NEW w \in AWord, NEW cy, NEW any
  PROVE  LongOutcome(c, w, NutCycled(c, w, cy, any))
<1> DEFINE f == WithState(WithCarryPc(c, FALSE, Next1(c.pc)), "normal")
           t == LongTarget(c.first_word, w) % NutSize
           s == <<f.pc>> \o SubSeq(f.stack, 1, STACK_DEPTH - 1)
<1>1. NutCycled(c, w, cy, any) = op_long_branch_word_2(f, c.carry, w, any = 1)
  BY DEF NutCycled, WithState, WithCarryPc
<1>2. Next1(c.pc) \in NutAddresses /\ "normal" \in NutStates /\ FALSE \in BOOLEAN
  BY NextIsAddress DEF NutRegs, NutStates
<1> DEFINE e == WithCarryPc(c, FALSE, Next1(c.pc))
<1>a. /\ e \in NutRegs /\ e.pc = Next1(c.pc) /\ e.awake = c.awake /\ e.carry = FALSE
      /\ e.first_word = c.first_word
  BY <1>2, WithCarryPcRegs
<1>3. f \in NutRegs /\ f.pc = Next1(c.pc) /\ f.inst_state = "normal" /\ f.awake = c.awake /\ f.carry = FALSE
      /\ f.first_word = c.first_word
  <2> HIDE DEF e
  <2>1. f = WithState(e, "normal")
    BY DEF e
  <2> HIDE DEF f
  <2> QED BY <1>2, <1>a, <2>1, WithStateRegs
<1>4. LongTarget(c.first_word, w) \in Int
  BY DEF AWord, LongTarget, NutRegs
<1>5. t \in NutAddresses
  BY <1>4, AnAddress
<1> HIDE DEF f
<1>6. f.stack \in Stacks /\ f.pc \in NutAddresses
  BY <1>3 DEF NutRegs
<1>7. s \in Stacks /\ s[1] = f.pc
  BY <1>6, Pushed, NutFlowAssumption DEF Stacks
<1>8. op_long_branch_word_2(f, c.carry, w, any = 1) =
        IF (w % 2 = 1) # c.carry THEN f
        ELSE IF (w \div 2) % 2 = 1 THEN WithPc(f, t)
        ELSE IF any = 1 THEN f ELSE WithPc(WithStack(f, s), t)
  BY <1>3 DEF op_long_branch_word_2, Goto, push, WithPc, WithStack
<1> HIDE DEF t, s
<1>9. \A d \in {WithPc(f, t), WithPc(WithStack(f, s), t)} :
        d \in NutRegs /\ d.inst_state = "normal" /\ d.awake = c.awake /\ d.carry = FALSE /\ d.pc = t
  BY <1>3, <1>5, <1>7, WithPcRegs, WithStackRegs
<1>10. Top(WithPc(WithStack(f, s), t)) = Next1(c.pc)
  BY <1>3, <1>5, <1>7, WithPcRegs, WithStackRegs DEF Top
<1> QED BY <1>1, <1>3, <1>8, <1>9, <1>10 DEF t, LongOutcome

-----------------------------------------------------------------------------
(* A cycle that begins an instruction: where the processor is after it,    *)
(* and what it takes the next word for.                                    *)
After(c, state) == c \in NutRegs /\ c.awake = TRUE /\ c.inst_state = state
Plain == {"op_arith", "a test", "op_pop", "op_pop_c", "op_push_c", "another"}

NormalOutcome(n, w, c) ==
  /\ Kind(w) = 3 => /\ After(c, "normal") /\ c.carry = FALSE
                    /\ c.pc = IF ((w \div 4) % 2 = 1) = n.carry
                              THEN (Next1(n.pc) + ShortOffset(w) - 1) % NutSize ELSE Next1(n.pc)
  /\ Kind(w) = 1 => /\ After(c, "long_branch") /\ c.first_word = w
                    /\ c.carry = n.carry /\ c.pc = Next1(n.pc)
  /\ NutOp(w) = "op_selpf" => After(c, "selpf") /\ c.carry = FALSE /\ c.pc = Next1(n.pc)
  /\ NutOp(w) = "op_ldi" => After(c, "ldi") /\ c.carry = FALSE /\ c.pc = Next1(n.pc)
  /\ NutOp(w) = "op_rom_to_c" => After(c, "cxisa") /\ c.carry = FALSE /\ c.pc = Next1(n.pc)
  /\ NutOp(w) = "op_powoff" => /\ c \in NutRegs /\ c.awake = FALSE /\ c.inst_state = "normal"
                               /\ c.carry = FALSE /\ c.pc = 0
  /\ NutOp(w) \in Jumps => After(c, "normal") /\ c.carry = FALSE
  /\ NutOp(w) \in Plain => /\ After(c, "normal") /\ c.pc = Next1(n.pc)
                           /\ c.carry = TRUE => can_set_carry_of(w)

LEMMA NormalCycle ==
  ASSUME NEW n \in NutRegs, n.inst_state = "normal", n.awake = TRUE, NEW w \in AWord,
         NEW cy \in CarriesLeft(n, w), NEW any \in NutAddresses
  PROVE  NormalOutcome(n, w, NutCycled(n, w, cy, any))
<1> DEFINE c == NutCycled(n, w, cy, any)
           f == WithCarryPc(n, cy, Next1(n.pc))
<1>1. c = NutOperation(f, n.carry, w, any)
  BY DEF NutCycled, WithCarryPc, NutRegs
<1>2. cy \in BOOLEAN /\ (cy = TRUE => MaySetCarry(w))
  BY DEF CarriesLeft
<1>3. Next1(n.pc) \in NutAddresses /\ n.carry \in BOOLEAN
  BY NextIsAddress DEF NutRegs
<1>4. f \in NutRegs /\ f.awake = TRUE /\ f.inst_state = "normal" /\ f.pc = Next1(n.pc) /\ f.carry = cy
  BY <1>2, <1>3, WithCarryPcRegs
<1> HIDE DEF c, f
<1>5. /\ NutOp(w) \in {"op_short_branch", "op_selpf", "op_ldi", "op_rom_to_c", "op_powoff"} \cup Jumps => cy = FALSE
      /\ cy = TRUE => can_set_carry_of(w)
  <2>1. CASE MaySetCarry(w)
    <3>1. CarryIsKnown(w)
      BY <2>1, CarriesAreKnown
    <3>2. NutOp(w) \notin {"op_short_branch", "op_selpf", "op_ldi", "op_rom_to_c", "op_powoff"} \cup Jumps
      BY <3>1 DEF CarryIsKnown, Jumps
    <3> QED BY <3>1, <3>2 DEF CarryIsKnown
  <2>2. CASE ~MaySetCarry(w)
    <3>1. cy = FALSE
      BY <1>2, <2>2
    <3> QED BY <3>1
  <2> QED BY <2>1, <2>2
<1>6. ASSUME Kind(w) = 3
      PROVE  /\ After(c, "normal") /\ c.carry = FALSE
             /\ c.pc = IF ((w \div 4) % 2 = 1) = n.carry
                       THEN (Next1(n.pc) + ShortOffset(w) - 1) % NutSize ELSE Next1(n.pc)
  <2>1. cy = FALSE
    BY <1>2, <1>5, <1>6, KindOfOp
  <2> QED BY <1>1, <1>3, <1>4, <1>6, <2>1, ShortBranchOp DEF After
<1>7. ASSUME Kind(w) = 1
      PROVE  After(c, "long_branch") /\ c.first_word = w /\ c.carry = n.carry /\ c.pc = Next1(n.pc)
  BY <1>1, <1>3, <1>4, <1>7, KindOfOp, LongBranchOp DEF After
<1>8. /\ NutOp(w) = "op_selpf" => After(c, "selpf") /\ c.carry = FALSE /\ c.pc = Next1(n.pc)
      /\ NutOp(w) = "op_ldi" => After(c, "ldi") /\ c.carry = FALSE /\ c.pc = Next1(n.pc)
      /\ NutOp(w) = "op_rom_to_c" => After(c, "cxisa") /\ c.carry = FALSE /\ c.pc = Next1(n.pc)
  <2>1. ASSUME NutOp(w) \in {"op_selpf", "op_ldi", "op_rom_to_c"}
        PROVE  After(c, PrefixState(w)) /\ c.carry = FALSE /\ c.pc = Next1(n.pc)
    BY <1>1, <1>3, <1>4, <1>5, <2>1, PrefixOp DEF After
  <2> QED BY <2>1 DEF PrefixState
<1>9. NutOp(w) = "op_powoff" => /\ c \in NutRegs /\ c.awake = FALSE /\ c.inst_state = "normal"
                                /\ c.carry = FALSE /\ c.pc = 0
  <2>1. ASSUME NutOp(w) = "op_powoff"
        PROVE  c \in NutRegs /\ c.awake = FALSE /\ c.pc = 0 /\ c.inst_state = f.inst_state /\ c.carry = f.carry
    <3> DEFINE e == WithAwakePc(f, FALSE, 0)
    <3>1. c = e
      BY <1>1, <2>1 DEF NutOperation, WithAwakePc
    <3>2. 0 \in NutAddresses
      BY NutFlowAssumption DEF NutAddresses
    <3>3. e \in NutRegs /\ e.awake = FALSE /\ e.pc = 0 /\ e.inst_state = f.inst_state /\ e.carry = f.carry
      BY <1>4, <3>2, WithAwakePcRegs
    <3> HIDE DEF e
    <3> QED BY <3>1, <3>3
  <2> QED BY <1>4, <1>5, <2>1
<1>10. NutOp(w) \in Jumps => After(c, "normal") /\ c.carry = FALSE
  BY <1>1, <1>3, <1>4, <1>5, JumpOp DEF After
<1>11. ASSUME NutOp(w) \in Plain
       PROVE  /\ After(c, "normal") /\ c.pc = Next1(n.pc)
              /\ c.carry = TRUE => can_set_carry_of(w)
  <2>1. c \in NutRegs /\ c.awake = f.awake /\ c.inst_state = f.inst_state /\ c.carry = f.carry /\ c.pc = f.pc
    <3>1. NutOp(w) \in {"op_arith", "a test", "op_pop", "op_pop_c", "op_push_c", "another"}
      BY <1>11 DEF Plain
    <3>2. SamePlace(c, f)
      BY <1>1, <1>3, <1>4, <3>1, PlainOp
    <3> QED BY <3>2 DEF SamePlace
  <2> QED BY <1>4, <1>5, <2>1 DEF After
<1> QED BY <1>6, <1>7, <1>8, <1>9, <1>10, <1>11 DEF NormalOutcome, c

(* The other cycles: a second word, and a word for a peripheral.           *)
LEMMA LdiCycle ==
  ASSUME NEW n \in NutRegs, n.inst_state \in {"ldi", "cxisa"}, NEW w, NEW cy, NEW any
  PROVE  LET c == NutCycled(n, w, cy, any)
         IN  /\ c \in NutRegs /\ c.awake = n.awake /\ c.inst_state = "normal" /\ c.carry = FALSE
             /\ n.inst_state = "ldi" => c.pc = Next1(n.pc)
<1> DEFINE a == IF n.inst_state = "cxisa" THEN n.pc ELSE Next1(n.pc)
           e == WithCarryPc(n, FALSE, a)
           c == NutCycled(n, w, cy, any)
<1>1. c = WithState(e, "normal")
  BY DEF NutCycled, WithState, WithCarryPc, NutRegs
<1>2. a \in NutAddresses /\ (n.inst_state = "ldi" => a = Next1(n.pc)) /\ "normal" \in NutStates
  BY NextIsAddress DEF NutRegs, NutStates
<1> HIDE DEF a
<1>3. e \in NutRegs /\ e.awake = n.awake /\ e.carry = FALSE /\ e.pc = a
  BY <1>2, WithCarryPcRegs
<1> HIDE DEF c, e
<1>4. c \in NutRegs /\ c.awake = e.awake /\ c.carry = e.carry /\ c.inst_state = "normal" /\ c.pc = e.pc
  BY <1>1, <1>2, <1>3, WithStateRegs
<1> QED BY <1>2, <1>3, <1>4 DEF c

LEMMA SelpfCycle ==
  ASSUME NEW n \in NutRegs, n.inst_state = "selpf", NEW w \in AWord, NEW cy \in CarriesLeft(n, w), NEW any
  PROVE  LET c == NutCycled(n, w, cy, any)
         IN  /\ c \in NutRegs /\ c.awake = n.awake /\ c.pc = Next1(n.pc)
             /\ c.inst_state = IF w % 2 = 1 THEN "normal" ELSE "selpf"
             /\ c.carry = TRUE => RowOf(w) = 3
<1> DEFINE e == WithCarryPc(n, FALSE, Next1(n.pc))
           i == IF w % 2 = 1 THEN "normal" ELSE "selpf"
           c == NutCycled(n, w, cy, any)
<1>1. c = WithCarry(WithState(e, i), cy)
  BY DEF NutCycled, WithState, WithCarryPc, WithCarry, NutRegs
<1>2. cy \in BOOLEAN /\ (cy = TRUE => RowOf(w) = 3) /\ i \in NutStates
  BY DEF CarriesLeft, NutStates
<1>3. Next1(n.pc) \in NutAddresses
  BY NextIsAddress DEF NutRegs
<1>4. e \in NutRegs /\ e.awake = n.awake /\ e.pc = Next1(n.pc)
  BY <1>3, WithCarryPcRegs
<1> HIDE DEF c, e, i
<1>5. c \in NutRegs /\ c.awake = e.awake /\ c.carry = cy /\ c.inst_state = i /\ c.pc = e.pc
  BY <1>1, <1>2, <1>4, WithStateRegs, WithCarryRegs
<1> QED BY <1>2, <1>4, <1>5 DEF c, i

-----------------------------------------------------------------------------
(* The disassembler's walk *)
LEMMA FreshDisRegs ==
  ASSUME NEW known \in BOOLEAN
  PROVE  LET e == FreshDis(known)
         IN  e \in DisRegs /\ e.inst_state = "normal" /\ e.carry_known_clear = known /\ e.pfsft = FALSE
BY DEF FreshDis, DisRegs, AWord

LEMMA WalkFirst ==
  ASSUME NEW d \in DisRegs, d.inst_state = "normal", NEW w \in AWord, nut_two_word_instruction(w)
  PROVE  LET e == DisWalk(d, w)
         IN  /\ e \in DisRegs /\ e.inst_state = "second" /\ e.op1 = w
             /\ e.carry_known_clear = d.carry_known_clear /\ e.pfsft = d.pfsft
<1> DEFINE s == [d EXCEPT !.inst_state = "second"]
           e == DisWalk(d, w)
<1>1. e = [s EXCEPT !.op1 = w]
  BY DEF DisWalk, DisRegs
<1>2. s \in DisRegs /\ s.inst_state = "second" /\ s.carry_known_clear = d.carry_known_clear /\ s.pfsft = d.pfsft
  BY DEF DisRegs
<1> HIDE DEF s, e
<1>3. /\ e \in DisRegs /\ e.inst_state = s.inst_state /\ e.op1 = w
      /\ e.carry_known_clear = s.carry_known_clear /\ e.pfsft = s.pfsft
  BY <1>1, <1>2 DEF DisRegs
<1> QED BY <1>2, <1>3 DEF e

LEMMA WalkOne ==
  ASSUME NEW d \in DisRegs, d.inst_state = "normal", NEW w \in AWord, ~nut_two_word_instruction(w)
  PROVE  LET e == DisWalk(d, w)
         IN  /\ e \in DisRegs /\ e.carry_known_clear = ~can_set_carry_of(w) /\ e.pfsft = FALSE
             /\ e.inst_state = IF Kind(w) = 0 /\ RowOf(w) = \h24 THEN "selpf" ELSE "normal"
<1> DEFINE k == ~can_set_carry_of(w)
           i == IF Kind(w) = 0 /\ RowOf(w) = \h24 THEN "selpf" ELSE "normal"
           e == DisWalk(d, w)
<1>1. e = [inst_state |-> i, carry_known_clear |-> k, op1 |-> 0, pfsft |-> FALSE]
  BY DEF DisWalk, FreshDis
<1>2. k \in BOOLEAN /\ i \in {"normal", "second", "selpf"} /\ 0 \in AWord
  BY DEF AWord, can_set_carry_of
<1> HIDE DEF k, i, e
<1>3. e \in DisRegs /\ e.carry_known_clear = k /\ e.pfsft = FALSE /\ e.inst_state = i
  BY <1>1, <1>2 DEF DisRegs
<1> QED BY <1>3, Zenon DEF k, i, e

LEMMA WalkSecond ==
  ASSUME NEW d \in DisRegs, d.inst_state = "second", NEW w
  PROVE  DisWalk(d, w) \in {FreshDis(TRUE), PastThirdWord}
<1> DEFINE three == Jumps41 /\ nut_three_word_instruction(d.op1, w)
<1>1. DisWalk(d, w) = IF three THEN PastThirdWord ELSE FreshDis(TRUE)
  BY DEF DisWalk
<1> HIDE DEF three
<1> QED BY <1>1

LEMMA PastRegs ==
  /\ PastThirdWord \in DisRegs /\ PastThirdWord.inst_state = "past"
  /\ PastThirdWord.carry_known_clear = FALSE
<1> DEFINE f == FreshDis(FALSE)
<1>1. f \in DisRegs /\ f.carry_known_clear = FALSE
  BY FreshDisRegs
<1>2. PastThirdWord = [f EXCEPT !.inst_state = "past"]
  BY DEF PastThirdWord
<1> HIDE DEF f
<1> QED BY <1>1, <1>2 DEF DisRegs

LEMMA WalkSelpf ==
  ASSUME NEW d \in DisRegs, d.inst_state = "selpf", NEW w \in AWord
  PROVE  LET e == DisWalk(d, w)
         IN  /\ e \in DisRegs /\ e.inst_state = IF w % 2 = 1 THEN "normal" ELSE "selpf"
             /\ RowOf(w) = 3 => e.pfsft = TRUE
<1> DEFINE p == RowOf(w) = 3
           i == IF w % 2 = 1 THEN "normal" ELSE "selpf"
           e == DisWalk(d, w)
<1>1. e = [inst_state |-> i, carry_known_clear |-> TRUE, op1 |-> 0, pfsft |-> p]
  BY DEF DisWalk, FreshDis
<1>2. p \in BOOLEAN /\ i \in {"normal", "second", "selpf"} /\ 0 \in AWord
  BY DEF AWord
<1> HIDE DEF p, i, e
<1>3. e \in DisRegs /\ e.pfsft = p /\ e.inst_state = i
  BY <1>1, <1>2 DEF DisRegs
<1> QED BY <1>3, Zenon DEF p, i, e

-----------------------------------------------------------------------------
(* A cycle keeps the two together, wherever the walk comes from.           *)
NextDis(n, d, w, c) ==
  IF n.inst_state = "cxisa" THEN {d}
  ELSE IF c.pc = Next1(n.pc) /\ c.awake THEN {DisWalk(d, w)}
  ELSE {FreshDis(c.awake), FreshDis(FALSE)}

LEMMA OpsAreAll ==
  ASSUME NEW w \in AWord
  PROVE  \/ Kind(w) \in {1, 3}
         \/ NutOp(w) \in {"op_selpf", "op_ldi", "op_rom_to_c", "op_powoff"} \cup Jumps \cup Plain
BY DEF AWord, NutOp, Kind, RowOf, Column, InTmap, Jumps, Plain

LEMMA NoPrefix ==
  ASSUME NEW w \in AWord, NutOp(w) \in {"op_rom_to_c", "op_powoff", "op_short_branch"} \cup Jumps \cup Plain
  PROVE  ~nut_two_word_instruction(w) /\ ~(Kind(w) = 0 /\ RowOf(w) = \h24)
         /\ (NutOp(w) \in {"op_rom_to_c"} => ~can_set_carry_of(w))
BY DEF AWord, NutOp, Kind, RowOf, Column, InTmap, Jumps, Plain, nut_two_word_instruction, can_set_carry_of

LEMMA Prefix ==
  ASSUME NEW w \in AWord
  PROVE  /\ NutOp(w) = "op_selpf" => /\ ~nut_two_word_instruction(w) /\ Kind(w) = 0 /\ RowOf(w) = \h24
                                     /\ ~can_set_carry_of(w)
         /\ NutOp(w) = "op_ldi" => nut_two_word_instruction(w) /\ Kind(w) # 1 /\ ~can_set_carry_of(w)
         /\ Kind(w) = 1 => nut_two_word_instruction(w)
BY DEF AWord, NutOp, Kind, RowOf, Column, InTmap, nut_two_word_instruction, can_set_carry_of

(* after an instruction of one word that is no prefix *)
LEMMA AgreeAfterPlain ==
  ASSUME NEW n \in NutRegs, NEW d \in DisRegs, n.inst_state = "normal", d.inst_state = "normal", NEW w \in AWord,
         ~nut_two_word_instruction(w), ~(Kind(w) = 0 /\ RowOf(w) = \h24),
         NEW c \in NutRegs, c.inst_state = "normal",
         c.carry = TRUE => can_set_carry_of(w) /\ c.pc = Next1(n.pc) /\ c.awake = TRUE,
         NEW e \in NextDis(n, d, w, c)
  PROVE  Agree(c, e)
<1>1. CASE c.pc = Next1(n.pc) /\ c.awake = TRUE
  <2>1. e = DisWalk(d, w)
    BY <1>1 DEF NextDis
  <2>2. e \in DisRegs /\ e.carry_known_clear = ~can_set_carry_of(w) /\ e.inst_state = "normal"
    BY <2>1, WalkOne
  <2>3. CarryKnown(c, e)
    BY <1>1, <2>2 DEF CarryKnown, NutRegs
  <2> QED BY <1>1, <2>2, <2>3 DEF Agree, SameWord, InStep, Asleep
<1>2. CASE ~(c.pc = Next1(n.pc) /\ c.awake = TRUE)
  <2>1. c.carry = FALSE /\ c.awake \in BOOLEAN
    BY <1>2 DEF NutRegs
  <2>2. e \in {FreshDis(c.awake), FreshDis(FALSE)}
    BY <1>2, <2>1 DEF NextDis
  <2>3. e \in DisRegs /\ e.inst_state = "normal" /\ (c.awake = FALSE => e.carry_known_clear = FALSE)
    BY <2>1, <2>2, FreshDisRegs
  <2> QED BY <2>1, <2>3 DEF Agree, SameWord, InStep, Asleep, CarryKnown
<1> QED BY <1>1, <1>2

(* while the listing is past the third word of a jump *)
WentOn(n, c) ==
  /\ c \in NutRegs /\ (c.awake = TRUE \/ c.inst_state = "normal")
  /\ c.inst_state = "long_branch" => Kind(c.first_word) = 1
  /\ \/ c.awake = TRUE /\ (c.pc = Next1(n.pc) \/ n.inst_state = "cxisa")
     \/ c.inst_state = "normal" /\ c.carry = FALSE

LEMMA AgreeWhilePast ==
  ASSUME NEW n, NEW d, Agree(n, d), d.inst_state = "past", NEW w, NEW c, WentOn(n, c), NEW e \in NextDis(n, d, w, c)
  PROVE  Agree(c, e)
<1>1. /\ d \in DisRegs /\ d.carry_known_clear = FALSE /\ DisWalk(d, w) = d
      /\ c \in NutRegs /\ c.awake \in BOOLEAN /\ (c.inst_state = "long_branch" => Kind(c.first_word) = 1)
  BY DEF Agree, SameWord, DisWalk, NutRegs, WentOn
<1>2. CASE e = d
  <2>1. c.awake = FALSE => c.inst_state = "normal"
    BY DEF WentOn
  <2> QED BY <1>1, <1>2, <2>1 DEF Agree, SameWord, CarryKnown, Asleep
<1>3. CASE e # d
  <2>1. e \in {FreshDis(c.awake), FreshDis(FALSE)} /\ c.inst_state = "normal" /\ c.carry = FALSE
    BY <1>1, <1>3 DEF NextDis, WentOn
  <2>2. e \in DisRegs /\ e.inst_state = "normal" /\ (c.awake = FALSE => e.carry_known_clear = FALSE)
    BY <1>1, <2>1, FreshDisRegs
  <2> QED BY <1>1, <2>1, <2>2 DEF Agree, SameWord, InStep, CarryKnown, Asleep
<1> QED BY <1>2, <1>3

LEMMA AgreeAfterNormal ==
  ASSUME NEW n, NEW d, Agree(n, d), d.inst_state # "past", n.inst_state = "normal", n.awake = TRUE, NEW w \in AWord,
         NEW c, NormalOutcome(n, w, c), NEW e \in NextDis(n, d, w, c)
  PROVE  Agree(c, e)
<1>1. n \in NutRegs /\ d \in DisRegs /\ d.inst_state = "normal" /\ CarryKnown(n, d)
  BY DEF Agree, SameWord, InStep
<1>2. CASE Kind(w) = 3
  <2>1. c \in NutRegs /\ c.inst_state = "normal" /\ c.carry = FALSE
    BY <1>2 DEF NormalOutcome, After
  <2>2. NutOp(w) = "op_short_branch"
    BY <1>2, KindOfOp
  <2> QED BY <1>1, <2>1, <2>2, NoPrefix, AgreeAfterPlain
<1>3. CASE Kind(w) = 1
  <2>1. /\ c \in NutRegs /\ c.awake = TRUE /\ c.inst_state = "long_branch" /\ c.first_word = w
        /\ c.carry = n.carry /\ c.pc = Next1(n.pc)
    BY <1>3 DEF NormalOutcome, After
  <2>2. e = DisWalk(d, w)
    BY <2>1 DEF NextDis
  <2>3. /\ e \in DisRegs /\ e.inst_state = "second" /\ e.op1 = w
        /\ e.carry_known_clear = d.carry_known_clear /\ e.pfsft = d.pfsft
    BY <1>1, <1>3, <2>2, Prefix, WalkFirst
  <2> QED BY <1>1, <1>3, <2>1, <2>3 DEF Agree, SameWord, InStep, CarryKnown, Asleep
<1>4. CASE NutOp(w) = "op_ldi"
  <2>1. /\ c \in NutRegs /\ c.awake = TRUE /\ c.inst_state = "ldi" /\ c.carry = FALSE /\ c.pc = Next1(n.pc)
    BY <1>4 DEF NormalOutcome, After
  <2>2. e = DisWalk(d, w)
    BY <1>1, <2>1 DEF NextDis
  <2>3. e \in DisRegs /\ e.inst_state = "second" /\ e.op1 = w /\ Kind(w) # 1
    BY <1>1, <1>4, <2>2, Prefix, WalkFirst
  <2> QED BY <1>1, <2>1, <2>3 DEF Agree, SameWord, InStep, CarryKnown, Asleep
<1>5. CASE NutOp(w) = "op_selpf"
  <2>1. /\ c \in NutRegs /\ c.awake = TRUE /\ c.inst_state = "selpf" /\ c.carry = FALSE /\ c.pc = Next1(n.pc)
    BY <1>5 DEF NormalOutcome, After
  <2>2. e = DisWalk(d, w)
    BY <1>1, <2>1 DEF NextDis
  <2>3. e \in DisRegs /\ e.inst_state = "selpf"
    BY <1>1, <1>5, <2>2, Prefix, WalkOne
  <2> QED BY <1>1, <2>1, <2>3 DEF Agree, SameWord, InStep, CarryKnown, Asleep
<1>6. CASE NutOp(w) = "op_rom_to_c"
  <2>1. /\ c \in NutRegs /\ c.awake = TRUE /\ c.inst_state = "cxisa" /\ c.carry = FALSE /\ c.pc = Next1(n.pc)
    BY <1>6 DEF NormalOutcome, After
  <2>2. e = DisWalk(d, w)
    BY <1>1, <2>1 DEF NextDis
  <2>3. e \in DisRegs /\ e.inst_state = "normal"
    BY <1>1, <1>6, <2>2, NoPrefix, WalkOne
  <2> QED BY <1>1, <2>1, <2>3 DEF Agree, SameWord, InStep, CarryKnown, Asleep
<1>7. CASE NutOp(w) \in {"op_powoff"} \cup Jumps
  <2>1. c \in NutRegs /\ c.inst_state = "normal" /\ c.carry = FALSE
    BY <1>7 DEF NormalOutcome, After
  <2> QED BY <1>1, <1>7, <2>1, NoPrefix, AgreeAfterPlain
<1>8. CASE NutOp(w) \in Plain
  <2>1. /\ c \in NutRegs /\ c.inst_state = "normal" /\ c.awake = TRUE /\ c.pc = Next1(n.pc)
        /\ c.carry = TRUE => can_set_carry_of(w)
    BY <1>8 DEF NormalOutcome, After
  <2> QED BY <1>1, <1>8, <2>1, NoPrefix, AgreeAfterPlain
<1> QED BY <1>2, <1>3, <1>4, <1>5, <1>6, <1>7, <1>8, OpsAreAll

(* after a second word, and after a word for a peripheral *)
LEMMA AgreeAfterSecond ==
  ASSUME NEW n, NEW d, Agree(n, d), d.inst_state # "past", n.inst_state \in {"ldi", "long_branch"}, NEW w,
         NEW c \in NutRegs, c.awake = n.awake, c.inst_state = "normal", c.carry = FALSE, NEW e \in NextDis(n, d, w, c)
  PROVE  Agree(c, e)
<1>1. c.awake = TRUE /\ d.inst_state = "second" /\ d \in DisRegs
  BY DEF Agree, SameWord, InStep, Asleep, NutRegs
<1>2. e \in {FreshDis(TRUE), FreshDis(FALSE), PastThirdWord}
  BY <1>1, WalkSecond DEF NextDis
<1>3. e \in DisRegs /\ (e.inst_state = "normal" \/ (e.inst_state = "past" /\ e.carry_known_clear = FALSE))
  BY <1>2, FreshDisRegs, PastRegs
<1> QED BY <1>1, <1>3 DEF Agree, SameWord, InStep, CarryKnown, Asleep

LEMMA AgreeAfterCxisa ==
  ASSUME NEW n, NEW d, Agree(n, d), d.inst_state # "past", n.inst_state = "cxisa", NEW w,
         NEW c \in NutRegs, c.awake = n.awake, c.inst_state = "normal", c.carry = FALSE, NEW e \in NextDis(n, d, w, c)
  PROVE  Agree(c, e)
<1>1. c.awake = TRUE /\ d.inst_state = "normal" /\ d \in DisRegs /\ e = d
  BY DEF Agree, SameWord, InStep, Asleep, NutRegs, NextDis
<1> QED BY <1>1 DEF Agree, SameWord, InStep, CarryKnown, Asleep

LEMMA AgreeAfterSelpf ==
  ASSUME NEW n, NEW d, Agree(n, d), d.inst_state # "past", n.inst_state = "selpf", NEW w \in AWord,
         NEW c \in NutRegs, c.awake = n.awake, c.pc = Next1(n.pc),
         c.inst_state = IF w % 2 = 1 THEN "normal" ELSE "selpf", c.carry = TRUE => RowOf(w) = 3,
         NEW e \in NextDis(n, d, w, c)
  PROVE  Agree(c, e)
<1>1. c.awake = TRUE /\ d.inst_state = "selpf" /\ d \in DisRegs /\ e = DisWalk(d, w)
  BY DEF Agree, SameWord, InStep, Asleep, NutRegs, NextDis
<1>2. e \in DisRegs /\ e.inst_state = c.inst_state /\ (RowOf(w) = 3 => e.pfsft = TRUE)
  BY <1>1, WalkSelpf
<1>3. c.carry \in BOOLEAN /\ c.inst_state \in {"normal", "selpf"}
  BY DEF NutRegs
<1> QED BY <1>1, <1>2, <1>3 DEF Agree, SameWord, InStep, CarryKnown, Asleep

-----------------------------------------------------------------------------
(* What is shown of an instruction by a disassembler l that takes it for   *)
(* one, and knows the carry to be clear only if it is.                     *)
LEMMA ShownOfNormal ==
  ASSUME NEW n \in NutRegs, NEW w \in AWord, NEW c, NormalOutcome(n, w, c),
         NEW l, l.inst_state = "normal", l.carry_known_clear = TRUE => n.carry = FALSE, l.carry_known_clear \in BOOLEAN,
         NEW begins \in BOOLEAN, NEW jumps41 \in BOOLEAN
  PROVE  "wrong" \notin NotShown(c, l, n.pc, w, begins, jumps41)
<1>1. Kind(w) = 0 \/ Kind(w) = 3 \/ Kind(w) \in {1, 2}
  BY DEF AWord, Kind
<1>2. CASE Kind(w) = 3
  <2>1. NutShown(l, n.pc, w, begins, jumps41) = short_branch_shown(l, n.pc, w, begins)
    BY <1>2 DEF NutShown
  <2> DEFINE x == (Next1(n.pc) + ShortOffset(w) - 1) % NutSize
             k == (w \div 4) % 2 = 1
             shown == NutShown(l, n.pc, w, begins, jumps41)
             three == jumps41 /\ l.inst_state = "second" /\ nut_three_word_instruction(l.op1, w)
  <2>2. n.carry \in BOOLEAN /\ k \in BOOLEAN
    BY DEF NutRegs
  <2>3. c.pc = IF k = n.carry THEN x ELSE Next1(n.pc)
    BY <1>2 DEF NormalOutcome
  <2>4. shown = {x} \cup (IF (~k /\ l.carry_known_clear) \/ begins THEN {} ELSE {Next1(n.pc)})
    BY <2>1 DEF short_branch_shown
  <2>5. NotShown(c, l, n.pc, w, begins, jumps41) = IF c.pc \in shown THEN {} ELSE {Why(c, l, n.pc, w, begins, three)}
    BY DEF NotShown
  <2>6. c.pc = Next1(n.pc) /\ begins => Why(c, l, n.pc, w, begins, three) = "no condition"
    BY <1>2 DEF Why
  <2> HIDE DEF x, k, shown, three
  <2>7. c.pc \notin shown => c.pc = Next1(n.pc) /\ begins
    BY <2>2, <2>3, <2>4
  <2>8. CASE c.pc \in shown
    BY <2>5, <2>8
  <2>9. CASE c.pc \notin shown
    <3>1. NotShown(c, l, n.pc, w, begins, jumps41) = {"no condition"}
      BY <2>5, <2>6, <2>7, <2>9
    <3> QED BY <3>1
  <2> QED BY <2>8, <2>9
<1> DEFINE shown == NutShown(l, n.pc, w, begins, jumps41)
<1>x. c.pc \in shown => "wrong" \notin NotShown(c, l, n.pc, w, begins, jumps41)
  BY DEF NotShown
<1>3. CASE Kind(w) \in {1, 2}
  <2>a. Kind(w) \in Int /\ Kind(w) # 3 /\ Kind(w) # 0
    BY <1>3 DEF AWord, Kind
  <2>1. shown = {Next1(n.pc)}
    BY <2>a DEF NutShown
  <2>2. Kind(w) = 2 => NutOp(w) \in Plain
    BY KindOfOp DEF Plain
  <2>3. c.pc = Next1(n.pc)
    BY <1>3, <2>2 DEF NormalOutcome
  <2> QED BY <1>x, <2>1, <2>3
<1>4. CASE Kind(w) = 0
  <2>1. shown = misc_shown(n.pc, w)
    BY <1>4 DEF NutShown
  <2> DEFINE jumps == w \in {\h1e0, \h360, \h3a0, \h3e0, \h230}
             off == w = \h060
  <2>2. CASE jumps
    <3>1. misc_shown(n.pc, w) = NutAddresses
      BY <2>2 DEF misc_shown
    <3>2. NutOp(w) \in Jumps
      BY <1>4, <2>2, MiscOps DEF Jumps
    <3> QED BY <1>x, <2>1, <3>1, <3>2 DEF NormalOutcome, After, NutRegs
  <2>3. CASE off
    <3>1. misc_shown(n.pc, w) = {0}
      BY <2>3 DEF misc_shown
    <3>2. NutOp(w) = "op_powoff"
      BY <1>4, <2>3, MiscOps
    <3>3. c.pc = 0
      BY <3>2 DEF NormalOutcome
    <3> QED BY <1>x, <2>1, <3>1, <3>3
  <2>4. CASE ~jumps /\ ~off
    <3>1. misc_shown(n.pc, w) = {Next1(n.pc)}
      BY <2>4 DEF misc_shown
    <3>2. NutOp(w) # "op_powoff"
      BY <1>4, <2>4, MiscOps
    <3>3. NutOp(w) \notin Jumps
      BY <1>4, <2>4, MiscOps DEF Jumps
    <3>4. NutOp(w) \in {"op_selpf", "op_ldi", "op_rom_to_c"} \cup Plain
      BY <1>4, <3>2, <3>3, OpsAreAll
    <3>5. c.pc = Next1(n.pc)
      BY <3>4 DEF NormalOutcome
    <3> QED BY <1>x, <2>1, <3>1, <3>5
  <2> HIDE DEF jumps, off, shown
  <2> QED BY <2>2, <2>3, <2>4
<1> QED BY <1>1, <1>2, <1>3, <1>4

LEMMA ShownOfSecond ==
  ASSUME NEW n \in NutRegs, NEW w \in AWord, NEW c, NEW l, l.inst_state = "second", l.carry_known_clear \in BOOLEAN,
         n.inst_state = "ldi" => Kind(l.op1) # 1 /\ c.pc = Next1(n.pc),
         n.inst_state = "long_branch" =>
           /\ l.op1 = n.first_word /\ Kind(l.op1) = 1 /\ (l.carry_known_clear = TRUE => n.carry = FALSE)
           /\ LongOutcome(n, w, c),
         n.inst_state \in {"ldi", "long_branch"}, NEW begins \in BOOLEAN, NEW jumps41 \in BOOLEAN
  PROVE  "wrong" \notin NotShown(c, l, n.pc, w, begins, jumps41)
<1> DEFINE shown == NutShown(l, n.pc, w, begins, jumps41)
           three == jumps41 /\ nut_three_word_instruction(l.op1, w)
<1>x. NotShown(c, l, n.pc, w, begins, jumps41) = IF c.pc \in shown THEN {} ELSE {Why(c, l, n.pc, w, begins, three)}
  BY DEF NotShown
<1>1. CASE n.inst_state = "ldi"
  <2>1. Kind(l.op1) # 1 /\ c.pc = Next1(n.pc)
    BY <1>1
  <2>2. shown = {Next1(n.pc)}
    BY <2>1 DEF NutShown
  <2> QED BY <1>x, <2>1, <2>2
<1>2. CASE n.inst_state = "long_branch"
  <2> DEFINE t == LongTarget(n.first_word, w) % NutSize
             odd == w % 2 = 1
             even == w % 2 = 0
             goto == (w \div 2) % 2 = 1
  <2>1. l.op1 = n.first_word /\ Kind(l.op1) = 1
    BY <1>2
  <2>2. shown = long_branch_shown(l, n.pc, w, jumps41)
    BY <2>1 DEF NutShown
  <2>5. odd \in BOOLEAN /\ even \in BOOLEAN /\ goto \in BOOLEAN /\ n.carry \in BOOLEAN
    BY DEF NutRegs
  <2>6. /\ l.carry_known_clear = TRUE => n.carry = FALSE
        /\ c.pc \in {t, Next1(n.pc)}
        /\ odd = n.carry /\ goto => c.pc = t
        /\ ~goto => c.pc = Next1(n.pc) \/ Top(c) = Next1(n.pc)
    BY <1>2 DEF LongOutcome
  <2>7. CASE three
    <3>1. ~goto
      BY <2>7 DEF nut_three_word_instruction
    <3>2. Why(c, l, n.pc, w, begins, three) = IF c.pc = Next1(n.pc) THEN "no condition"
                                              ELSE IF c.pc = t /\ Top(c) = Next1(n.pc) THEN "by a routine" ELSE "wrong"
      BY <2>1, <2>7 DEF Why
    <3> HIDE DEF t, goto, shown, three
    <3>3. Why(c, l, n.pc, w, begins, three) \in {"no condition", "by a routine"}
      BY <2>6, <3>1, <3>2
    <3>4. CASE c.pc \in shown
      BY <1>x, <3>4
    <3>5. CASE c.pc \notin shown
      <4>1. NotShown(c, l, n.pc, w, begins, jumps41) = {Why(c, l, n.pc, w, begins, three)}
        BY <1>x, <3>5
      <4> QED BY <3>3, <4>1
    <3> QED BY <3>4, <3>5
  <2>8. CASE ~three
    <3>1. shown = {t} \cup (IF even /\ l.carry_known_clear /\ goto THEN {} ELSE {Next1(n.pc)})
      BY <2>1, <2>2, <2>8 DEF long_branch_shown
    <3>2. even => ~odd
      BY DEF AWord
    <3> HIDE DEF t, odd, even, goto, shown
    <3>3. c.pc \in shown
      BY <2>5, <2>6, <3>1, <3>2
    <3> QED BY <1>x, <3>3
  <2> QED BY <2>7, <2>8
<1> QED BY <1>1, <1>2

(* What the trace is given of the processor.                               *)
LEMMA NutTraceStateIs ==
  ASSUME NEW n \in NutRegs, NEW d \in DisRegs
  PROVE  LET l == NutTraceState(n, d)
         IN  /\ l.carry_known_clear = ~n.carry
             /\ l.inst_state = IF n.inst_state \in {"long_branch", "ldi"} THEN "second" ELSE n.inst_state
             /\ l.op1 = IF n.inst_state = "long_branch" THEN n.first_word ELSE 0
BY DEF NutTraceState, DisRegs

-----------------------------------------------------------------------------
(* A cycle keeps the processor and the walk together, and both texts show  *)
(* where it goes.                                                          *)
LEMMA PastCycle ==
  ASSUME NEW n, NEW d, Agree(n, d), d.inst_state = "past", n.awake = TRUE, NEW w \in AWord,
         NEW cy \in CarriesLeft(n, w), NEW any, n.inst_state = "normal" => any \in NutAddresses,
         NEW c, c = NutCycled(n, w, cy, any), NEW e \in NextDis(n, d, w, c)
  PROVE  Agree(c, e)
<1> SUFFICES WentOn(n, c)
  BY AgreeWhilePast
<1>1. n \in NutRegs /\ n.inst_state \in NutStates
  BY DEF Agree, NutRegs
<1>2. CASE n.inst_state = "normal"
  <2>1. NormalOutcome(n, w, c)
    BY <1>1, <1>2, NormalCycle
  <2>2. CASE Kind(w) = 1
    BY <2>1, <2>2 DEF NormalOutcome, After, WentOn
  <2>3. CASE Kind(w) = 3
    BY <2>1, <2>3 DEF NormalOutcome, After, WentOn
  <2>4. CASE NutOp(w) \in {"op_selpf", "op_ldi", "op_rom_to_c", "op_powoff"} \cup Jumps \cup Plain
    BY <2>1, <2>4 DEF NormalOutcome, After, WentOn
  <2> QED BY <2>2, <2>3, <2>4, OpsAreAll
<1>3. CASE n.inst_state = "long_branch"
  <2>1. LongOutcome(n, w, c)
    BY <1>1, <1>3, SecondWord
  <2> QED BY <2>1 DEF LongOutcome, WentOn
<1>4. CASE n.inst_state \in {"ldi", "cxisa"}
  <2>1. c \in NutRegs /\ c.inst_state = "normal" /\ c.carry = FALSE
    BY <1>1, <1>4, LdiCycle
  <2> QED BY <2>1 DEF WentOn
<1>5. CASE n.inst_state = "selpf"
  <2>1. /\ c \in NutRegs /\ c.awake = TRUE /\ c.pc = Next1(n.pc)
        /\ c.inst_state = IF w % 2 = 1 THEN "normal" ELSE "selpf"
    BY <1>1, <1>5, SelpfCycle
  <2> QED BY <2>1 DEF WentOn
<1> QED BY <1>1, <1>2, <1>3, <1>4, <1>5 DEF NutStates

LEMMA CycleKeeps ==
  ASSUME NEW n, NEW d, Agree(n, d), n.awake = TRUE, NEW w \in AWord, NEW cy \in CarriesLeft(n, w), NEW any,
         n.inst_state = "normal" => any \in NutAddresses, NEW begins \in BOOLEAN,
         NEW c, c = NutCycled(n, w, cy, any), NEW e \in NextDis(n, d, w, c)
  PROVE  /\ Agree(c, e)
         /\ n.inst_state # "cxisa" =>
              /\ d.pfsft = FALSE /\ d.inst_state # "past" => "wrong" \notin NotShown(c, d, n.pc, w, begins, Jumps41)
              /\ "wrong" \notin NotShown(c, NutTraceState(n, d), n.pc, w, begins, FALSE)
<1> DEFINE l == NutTraceState(n, d)
<1>1. /\ n \in NutRegs /\ d \in DisRegs /\ SameWord(n, d) /\ Jumps41 \in BOOLEAN
      /\ d.carry_known_clear = TRUE /\ d.pfsft = FALSE => n.carry = FALSE
  BY NutFlowAssumption DEF Agree, CarryKnown
<1>2. /\ n.inst_state \in NutStates /\ n.carry \in BOOLEAN
      /\ d.carry_known_clear \in BOOLEAN /\ d.pfsft \in BOOLEAN
  BY <1>1 DEF NutRegs, DisRegs
<1>3. /\ l.carry_known_clear = ~n.carry
      /\ l.inst_state = IF n.inst_state \in {"long_branch", "ldi"} THEN "second" ELSE n.inst_state
      /\ l.op1 = IF n.inst_state = "long_branch" THEN n.first_word ELSE 0
  BY <1>1, NutTraceStateIs
<1> HIDE DEF l
<1>4. l.carry_known_clear \in BOOLEAN /\ (l.carry_known_clear = TRUE => n.carry = FALSE)
  BY <1>2, <1>3
<1>p. d.inst_state = "past" => Agree(c, e)
  BY PastCycle
<1>5. CASE n.inst_state = "normal"
  <2>1. NormalOutcome(n, w, c)
    BY <1>1, <1>5, NormalCycle
  <2>2. Agree(c, e)
    BY <1>5, <1>p, <2>1, AgreeAfterNormal
  <2>3. "wrong" \notin NotShown(c, l, n.pc, w, begins, FALSE)
    BY <1>1, <1>3, <1>4, <1>5, <2>1, ShownOfNormal
  <2>4. d.pfsft = FALSE /\ d.inst_state # "past" => "wrong" \notin NotShown(c, d, n.pc, w, begins, Jumps41)
    BY <1>1, <1>2, <1>5, <2>1, ShownOfNormal DEF SameWord, InStep
  <2> QED BY <2>2, <2>3, <2>4 DEF l
<1>6. CASE n.inst_state = "long_branch"
  <2>1. LongOutcome(n, w, c)
    BY <1>1, <1>6, SecondWord
  <2>2. Agree(c, e)
    BY <1>6, <1>p, <2>1, AgreeAfterSecond DEF LongOutcome
  <2>3. /\ Kind(n.first_word) = 1
        /\ d.inst_state # "past" => d.inst_state = "second" /\ d.op1 = n.first_word
    BY <1>1, <1>6 DEF SameWord, InStep
  <2>4. l.inst_state = "second" /\ l.op1 = n.first_word
    BY <1>3, <1>6
  <2>5. "wrong" \notin NotShown(c, l, n.pc, w, begins, FALSE)
    BY <1>1, <1>4, <1>6, <2>1, <2>3, <2>4, ShownOfSecond
  <2>6. d.pfsft = FALSE /\ d.inst_state # "past" => "wrong" \notin NotShown(c, d, n.pc, w, begins, Jumps41)
    BY <1>1, <1>2, <1>6, <2>1, <2>3, ShownOfSecond
  <2> QED BY <2>2, <2>5, <2>6 DEF l
<1>7. CASE n.inst_state = "ldi"
  <2>1. c \in NutRegs /\ c.awake = n.awake /\ c.inst_state = "normal" /\ c.carry = FALSE /\ c.pc = Next1(n.pc)
    BY <1>1, <1>7, LdiCycle
  <2>2. Agree(c, e)
    BY <1>7, <1>p, <2>1, AgreeAfterSecond
  <2>3. d.inst_state # "past" => d.inst_state = "second" /\ Kind(d.op1) # 1
    BY <1>1, <1>7 DEF SameWord, InStep
  <2>4. l.inst_state = "second" /\ l.op1 = 0
    BY <1>3, <1>7
  <2>5. Kind(l.op1) # 1
    BY <2>4 DEF Kind
  <2>6. "wrong" \notin NotShown(c, l, n.pc, w, begins, FALSE)
    BY <1>1, <1>4, <1>7, <2>1, <2>4, <2>5, ShownOfSecond
  <2>7. d.pfsft = FALSE /\ d.inst_state # "past" => "wrong" \notin NotShown(c, d, n.pc, w, begins, Jumps41)
    BY <1>1, <1>2, <1>7, <2>1, <2>3, ShownOfSecond
  <2> QED BY <2>2, <2>6, <2>7 DEF l
<1>8. CASE n.inst_state = "selpf"
  <2>1. /\ c \in NutRegs /\ c.awake = n.awake /\ c.pc = Next1(n.pc)
        /\ c.inst_state = IF w % 2 = 1 THEN "normal" ELSE "selpf"
        /\ c.carry = TRUE => RowOf(w) = 3
    BY <1>1, <1>8, SelpfCycle
  <2>2. Agree(c, e)
    BY <1>8, <1>p, <2>1, AgreeAfterSelpf
  <2>3. l.inst_state = "selpf" /\ (d.inst_state # "past" => d.inst_state = "selpf")
    BY <1>1, <1>3, <1>8 DEF SameWord, InStep
  <2>4. ASSUME NEW x, x.inst_state = "selpf", NEW j
        PROVE  "wrong" \notin NotShown(c, x, n.pc, w, begins, j)
    <3>1. NutShown(x, n.pc, w, begins, j) = {Next1(n.pc)}
      BY <2>4 DEF NutShown
    <3> QED BY <2>1, <3>1 DEF NotShown
  <2> QED BY <2>2, <2>3, <2>4 DEF l
<1>9. CASE n.inst_state = "cxisa"
  <2>1. c \in NutRegs /\ c.awake = n.awake /\ c.inst_state = "normal" /\ c.carry = FALSE
    BY <1>1, <1>9, LdiCycle
  <2> QED BY <1>9, <1>p, <2>1, AgreeAfterCxisa
<1> QED BY <1>2, <1>5, <1>6, <1>7, <1>8, <1>9 DEF NutStates

-----------------------------------------------------------------------------
(* The steps *)
LEMMA CycleStep == ASSUME NutFlowInv, NutCycle PROVE NutFlowInv'
<1>a. PICK w \in (IF nut.inst_state = "normal" THEN NutWords ELSE NutSeconds) :
        \E cy \in CarriesLeft(nut, w), any \in Inputs(nut, w) \cup {x \in {1} : nut.inst_state = "long_branch"},
           begins \in Beginnings(w) :
          LET c == NutCycled(nut, w, cy, any)
          IN  /\ nut.awake
              /\ nut' = c
              /\ unshown' = Unshown(c, w, begins)
              /\ dis' \in NextDis(nut, dis, w, c)
  BY ZenonT(30) DEF NutCycle, NextDis
<1>1. PICK cy \in CarriesLeft(nut, w), any \in Inputs(nut, w) \cup {x \in {1} : nut.inst_state = "long_branch"},
           begins \in Beginnings(w) :
        LET c == NutCycled(nut, w, cy, any)
        IN  /\ nut.awake
            /\ nut' = c
            /\ unshown' = Unshown(c, w, begins)
            /\ dis' \in NextDis(nut, dis, w, c)
  BY <1>a
<1> DEFINE c == NutCycled(nut, w, cy, any)
<1>2. Agree(nut, dis) /\ "wrong" \notin unshown
  BY DEF NutFlowInv, NutTextShowsTheFlow
<1>3. nut.awake = TRUE /\ dis.pfsft \in BOOLEAN
  BY <1>1, <1>2 DEF Agree, NutRegs, DisRegs
<1>4. w \in AWord /\ begins \in BOOLEAN
  <2>1. Beginnings(w) \in {Uninitialized, {FALSE}} /\ Uninitialized \in SUBSET BOOLEAN
    BY NutFlowAssumption DEF Beginnings
  <2>2. begins \in BOOLEAN
    BY <2>1
  <2> QED BY <1>a, <2>2, NutFlowAssumption DEF AWord
<1>5. nut.inst_state = "normal" => any \in NutAddresses
  BY <1>1, NutFlowAssumption DEF Inputs, NutAddresses
<1>6. c = NutCycled(nut, w, cy, any) /\ nut' = c /\ dis' \in NextDis(nut, dis, w, c)
  BY <1>1
<1>b. unshown' = Unshown(c, w, begins)
  BY <1>1
<1> HIDE DEF c
<1>7. /\ Agree(c, dis')
      /\ nut.inst_state # "cxisa" =>
           /\ dis.pfsft = FALSE /\ dis.inst_state # "past" =>
                "wrong" \notin NotShown(c, dis, nut.pc, w, begins, Jumps41)
           /\ "wrong" \notin NotShown(c, NutTraceState(nut, dis), nut.pc, w, begins, FALSE)
  BY <1>2, <1>3, <1>4, <1>5, <1>6, CycleKeeps
<1>8. "wrong" \notin Unshown(c, w, begins)
  BY <1>3, <1>7 DEF Unshown
<1>9. "wrong" \notin unshown'
  BY <1>2, <1>8, <1>b
<1> QED BY <1>6, <1>7, <1>9 DEF NutFlowInv, NutTextShowsTheFlow, Agree, SameWord, InStep, CarryKnown, Asleep

LEMMA ResetStep == ASSUME NutFlowInv, NutReset PROVE NutFlowInv'
<1> DEFINE f == [nut EXCEPT !.awake = TRUE]
           e == WithPc(f, 0)
<1>1. Agree(nut, dis) /\ nut.inst_state = "normal" /\ unshown' = unshown /\ "wrong" \notin unshown
  BY DEF NutFlowInv, NutTextShowsTheFlow, NutReset
<1>2. nut \in NutRegs /\ 0 \in NutAddresses
  BY <1>1, NutFlowAssumption DEF Agree, NutAddresses
<1>3. nut' = WithCarry(e, TRUE)
  BY DEF NutReset, WithCarry, WithPc, NutRegs
<1>4. f \in NutRegs /\ f.inst_state = nut.inst_state /\ f.awake = TRUE
  BY <1>2 DEF NutRegs
<1> HIDE DEF f
<1>5. e \in NutRegs /\ e.inst_state = f.inst_state /\ e.awake = f.awake
  BY <1>2, <1>4, WithPcRegs
<1> HIDE DEF e
<1>6. nut' \in NutRegs /\ nut'.inst_state = "normal" /\ nut'.awake = TRUE
  BY <1>1, <1>3, <1>4, <1>5, WithCarryRegs
<1>7. dis' \in DisRegs /\ dis'.inst_state = "normal" /\ dis'.carry_known_clear = FALSE
  BY FreshDisRegs DEF NutReset
<1> QED BY <1>1, <1>6, <1>7 DEF NutFlowInv, NutTextShowsTheFlow, Agree, SameWord, InStep, CarryKnown, Asleep

LEMMA WakesStep == ASSUME NutFlowInv, NutWakes PROVE NutFlowInv'
<1>1. Agree(nut, dis) /\ unshown' = unshown /\ "wrong" \notin unshown /\ dis' = dis
  BY DEF NutFlowInv, NutTextShowsTheFlow, NutWakes
<1>2. nut \in NutRegs /\ nut.awake = FALSE /\ nut.inst_state = "normal" /\ dis.carry_known_clear = FALSE
  BY <1>1 DEF Agree, Asleep, NutRegs, NutWakes
<1>3. PICK cy \in BOOLEAN : nut' = [nut EXCEPT !.awake = TRUE, !.carry = cy]
  BY DEF NutWakes
<1>4. nut' \in NutRegs /\ nut'.inst_state = "normal" /\ nut'.awake = TRUE
  BY <1>2, <1>3 DEF NutRegs
<1>5. dis \in DisRegs /\ dis.inst_state \in {"normal", "past"}
  BY <1>1, <1>2 DEF Agree, SameWord, InStep
<1> QED BY <1>1, <1>2, <1>4, <1>5 DEF NutFlowInv, NutTextShowsTheFlow, Agree, SameWord, InStep, CarryKnown, Asleep

LEMMA FlowInit == NutFlowInit => NutFlowInv
<1> SUFFICES ASSUME NutFlowInit PROVE NutFlowInv
  OBVIOUS
<1>1. nut.stack \in Stacks
  BY StackOfZeros DEF NutFlowInit
<1>2. 0 \in NutAddresses /\ 0 \in AWord
  BY NutFlowAssumption DEF NutAddresses, AWord
<1>3. nut \in NutRegs /\ nut.inst_state = "normal" /\ nut.awake = TRUE
  BY <1>1, <1>2 DEF NutFlowInit, NutRegs, NutStates
<1>4. dis \in DisRegs /\ dis.inst_state = "normal" /\ dis.carry_known_clear = FALSE
  BY FreshDisRegs DEF NutFlowInit
<1> QED BY <1>3, <1>4 DEF NutFlowInit, NutFlowInv, NutTextShowsTheFlow, Agree, SameWord, InStep, CarryKnown, Asleep

-----------------------------------------------------------------------------
(* For any firmware, any memory and any depth of the stack, whatever an    *)
(* uninitialized variable begins with, and with and without the jumps of   *)
(* the HP-41: the listing and the trace of a Nut program show the way the  *)
(* processor takes, but for a condition that such a variable or jump leaves*)
(* out, and the routine that such a jump goes by (nut_disassemble against  *)
(* nut_execute_cycle).                                                     *)
THEOREM NutTextShowsTheFlowCorrect == NutFlowSpec => []NutTextShowsTheFlow
<1>1. NutFlowInit => NutFlowInv
  BY FlowInit
<1>2. NutFlowInv /\ [NutFlowNext]_nfvars => NutFlowInv'
  <2> SUFFICES ASSUME NutFlowInv, [NutFlowNext]_nfvars PROVE NutFlowInv'
    OBVIOUS
  <2>1. CASE NutCycle
    BY <2>1, CycleStep
  <2>2. CASE NutReset
    BY <2>2, ResetStep
  <2>3. CASE NutWakes
    BY <2>3, WakesStep
  <2>4. CASE UNCHANGED nfvars
    BY <2>4 DEF nfvars, NutFlowInv, NutTextShowsTheFlow, Agree, SameWord, InStep, CarryKnown, Asleep
  <2> QED BY <2>1, <2>2, <2>3, <2>4 DEF NutFlowNext
<1>3. NutFlowInv => NutTextShowsTheFlow
  BY DEF NutFlowInv
<1> QED BY <1>1, <1>2, <1>3, PTL DEF NutFlowSpec
=============================================================================
