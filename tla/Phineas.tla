------------------------------- MODULE Phineas -------------------------------
(***************************************************************************)
(* The timer chip of the Nut machines (phineas.c): two clocks, each with   *)
(* an alarm, and an interval timer.  Its time is the word times of the     *)
(* processor: event_cycle counts PHINEAS_UPDATE_CYCLES of them down,       *)
(* whether the processor is awake or not.  What passes is recorded in the  *)
(* status register, from where it asks for service and wakes the           *)
(* processor, until the program clears it.                                 *)
(***************************************************************************)
EXTENDS Integers

CONSTANTS PHINEAS_UPDATE_CYCLES,  \* 67
          CLOCKS,                 \* how many values a clock has: 10^14
          ClockVals, CountVals,   \* what the program writes to clocks and alarms, to the interval timer
          Used                    \* the timers that the program points to

ASSUME PhineasAssumption ==
  /\ PHINEAS_UPDATE_CYCLES \in Nat \ {0}
  /\ CLOCKS \in Nat \ {0} /\ ClockVals \subseteq 0..(CLOCKS - 1) /\ CountVals \subseteq Nat
  /\ Used \subseteq {"A", "B"}

VARIABLES phineas,   \* phineas_reg_t
          nut_reg,   \* of nut_reg_t: awake, and the external flags
          owed       \* history: what has passed and the program has not cleared

phvars == <<phineas, nut_reg, owed>>

Timers == {"A", "B"}
ALM == [A |-> "ALMA", B |-> "ALMB"]          \* the bits of the status register
DTZ == [A |-> "DTZA", B |-> "DTZB"]
CKEN == [A |-> "CKAEN", B |-> "CKBEN"]
ALEN == [A |-> "ALAEN", B |-> "ALBEN"]
Passings == {"ALMA", "ALMB", "DTZA", "DTZB", "DTZIT"}
LowBits == Passings \cup {"PUS"}             \* 0..5: those that the program can only clear

Has(p, bit) == bit \in p.status
Put(p, bit, val) == [p EXCEPT !.status = IF val THEN @ \cup {bit} ELSE @ \ {bit}]

PhineasInit ==
  /\ phineas = [timer_sel |-> "A", status |-> {},
                clock |-> [t \in Timers |-> 0], alarm |-> [t \in Timers |-> 0],
                interval_timer |-> 0, it_terminal_count |-> 0,
                selected |-> FALSE, update_counter |-> 0]
  /\ nut_reg = [awake |-> TRUE, ext_flag |-> {}]
  /\ owed = {}

-----------------------------------------------------------------------------
(* phineas_update_ext_flags *)
Pending(p) == ~Has(p, "PUS") /\ p.status \cap Passings # {}

phineas_update_ext_flags_IfSelected(n, p) ==     \* mutant: only the selected chip asks for service
  IF Pending(p) /\ p.selected
  THEN [awake |-> TRUE, ext_flag |-> n.ext_flag \cup {"SERVICE_REQUEST", "TIMER"}]
  ELSE n

phineas_update_ext_flags(n, p) ==
  IF Pending(p)
  THEN [awake |-> TRUE,
        ext_flag |-> n.ext_flag \cup {"SERVICE_REQUEST"} \cup (IF p.selected THEN {"TIMER"} ELSE {})]
  ELSE n

(* phineas_increment_clock, by one tick *)
phineas_increment_clock(p, t) ==
  IF ~Has(p, CKEN[t]) THEN p
  ELSE LET old == p.clock[t]
           overflow == old + 1 > CLOCKS - 1
           new == IF overflow THEN old + 1 - CLOCKS ELSE old + 1
           p1 == [p EXCEPT !.clock[t] = new]
           p2 == IF overflow THEN Put(p1, DTZ[t], TRUE) ELSE p1
           passed == IF overflow THEN p.alarm[t] > old \/ p.alarm[t] <= new
                                 ELSE p.alarm[t] > old /\ p.alarm[t] <= new
       IN  IF Has(p, ALEN[t]) /\ passed THEN Put(p2, ALM[t], TRUE) ELSE p2

(* phineas_increment_interval_timer *)
phineas_increment_interval_timer(p) ==
  IF ~Has(p, "ITEN") THEN p
  ELSE IF p.interval_timer + 1 >= p.it_terminal_count
       THEN Put([p EXCEPT !.interval_timer = 0], "DTZIT", TRUE)
       ELSE [p EXCEPT !.interval_timer = @ + 1]

(* phineas_update: what it makes of the registers *)
Ticked(p) ==
  phineas_increment_interval_timer(phineas_increment_clock(phineas_increment_clock(p, "A"), "B"))

(* What a tick must record, said of the clocks alone. *)
Passes(p) ==
  {ALM[t] : t \in {u \in Timers : /\ {CKEN[u], ALEN[u]} \subseteq p.status
                                  /\ p.alarm[u] = (p.clock[u] + 1) % CLOCKS}}
  \cup {DTZ[t] : t \in {u \in Timers : Has(p, CKEN[u]) /\ p.clock[u] = CLOCKS - 1}}
  \cup (IF Has(p, "ITEN") /\ p.interval_timer + 1 >= p.it_terminal_count THEN {"DTZIT"} ELSE {})

phineas_update(n, p) ==
  /\ phineas' = [Ticked(p) EXCEPT !.update_counter = PHINEAS_UPDATE_CYCLES]
  /\ nut_reg' = phineas_update_ext_flags(n, Ticked(p))
  /\ owed' = owed \cup Passes(p)

-----------------------------------------------------------------------------
(* phineas_event_fn, with what the processor does when it sends the event. *)
(* The counter that starts at 0 goes below it and never comes back to it.  *)
Counted(p) == IF p.update_counter <= 0 THEN -1 ELSE p.update_counter - 1

EventCycle ==
  IF Counted(phineas) = 0
  THEN phineas_update(nut_reg, phineas)
  ELSE /\ phineas' = [phineas EXCEPT !.update_counter = Counted(phineas)]
       /\ UNCHANGED <<nut_reg, owed>>

EventSleep ==                        \* op_powoff
  /\ nut_reg.awake
  /\ nut_reg' = [nut_reg EXCEPT !.awake = FALSE]
  /\ phineas' = [phineas EXCEPT !.update_counter = PHINEAS_UPDATE_CYCLES]
  /\ UNCHANGED owed

EventWake ==                         \* nut_press_key
  phineas_update([nut_reg EXCEPT !.awake = TRUE], phineas)

EventReset ==                        \* nut_reset wakes the processor; the counter goes on
  /\ phineas' = Put(phineas, "PUS", TRUE)
  /\ nut_reg' = [nut_reg EXCEPT !.awake = TRUE]
  /\ UNCHANGED owed

EventRestore ==                      \* a file of this state: selected is that of the process it is read in
  \E sel \in BOOLEAN : phineas_update(nut_reg, [phineas EXCEPT !.selected = sel])

EventSelect ==                       \* event_periph_select and event_ram_select
  /\ nut_reg.awake
  /\ \E sel \in BOOLEAN : /\ phineas' = [phineas EXCEPT !.selected = sel]
                          /\ nut_reg' = phineas_update_ext_flags(nut_reg, phineas')
  /\ UNCHANGED owed

-----------------------------------------------------------------------------
(* phineas_wr_n: what is written stands in C of the processor *)
Written(p) == /\ phineas' = p /\ UNCHANGED <<nut_reg, owed>>

WriteTime ==                         \* clock and alarm, 0 to 2
  \E v \in ClockVals : \/ Written([phineas EXCEPT !.clock[phineas.timer_sel] = v])
                       \/ Written([phineas EXCEPT !.alarm[phineas.timer_sel] = v])

WriteStatus ==                       \* 3: can only turn off bits 0-5
  \E keep \in {Passings, {"PUS"}} \cup {LowBits \ {b} : b \in LowBits} :
     /\ phineas.timer_sel = "A"      \* it is the accuracy factor otherwise
     /\ phineas' = [phineas EXCEPT !.status = @ \ (LowBits \ keep)]
     /\ nut_reg' = phineas_update_ext_flags(nut_reg, phineas')
     /\ owed' = owed \cap keep

WriteInterval ==                     \* 5 and 7
  \/ \E v \in CountVals :
        Written(Put([phineas EXCEPT !.interval_timer = 0, !.it_terminal_count = v], "ITEN", TRUE))
  \/ Written(Put(phineas, "ITEN", FALSE))

WriteEnables ==                      \* 10 to 13; the test mode, 8 and 9, has no effect
  \E val \in BOOLEAN, bits \in {ALEN, CKEN} :
     Written(Put(phineas, bits[phineas.timer_sel], val))

WritePointer ==                      \* 14 and 15
  \E t \in Used : Written([phineas EXCEPT !.timer_sel = t])

Write ==
  /\ phineas.selected /\ nut_reg.awake
  /\ WriteTime \/ WriteStatus \/ WriteInterval \/ WriteEnables \/ WritePointer

PhineasNext ==
  EventCycle \/ EventSleep \/ EventWake \/ EventReset \/ EventRestore \/ EventSelect \/ Write

PhineasSpec == PhineasInit /\ [][PhineasNext]_phvars /\ WF_phvars(EventCycle)

-----------------------------------------------------------------------------
(* An alarm or the end of an interval that has passed stays recorded until *)
(* the program clears it, and while one is recorded a processor that       *)
(* sleeps is woken by the chip: whatever the program selects and writes    *)
(* meanwhile, and over resets and restores.                                *)
PassingsAreKept == owed \subseteq phineas.status
Unserved == owed # {} /\ "PUS" \notin phineas.status
ServiceWakes == []PassingsAreKept /\ (Unserved ~> (nut_reg.awake \/ ~Unserved))
=============================================================================
