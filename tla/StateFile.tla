----------------------------- MODULE StateFile -----------------------------
(***************************************************************************)
(* The contents of a state file: what state_write.c puts into it, register *)
(* by register through the accessors of proc.c, and what state_read.c      *)
(* makes of each of its elements, in a calculator that may have been       *)
(* started just now or have gone on since.  (Jobs has the requests to the  *)
(* simulator's thread, and that a save is a snapshot.)                     *)
(***************************************************************************)
EXTENDS Integers, Sequences, FiniteSets, SequencesExt

CONSTANTS HEX,         \* 16
          Chips,       \* of the mainframe and of modules, in the order of the list
          Registers,   \* [Chips -> Seq([name, kind, n, count])]: the reg_detail tables
          Fits,        \* the numbers that a variable of an integer type holds: 0 .. Fits - 1
          Modules,     \* each in a port of its own
          ChipOf,      \* [Modules -> Chips, or NoChip]
          HasRam,      \* the modules with writable pages
          NoChip, RamAddresses, REGISTER_DIGITS,
          CONTENTS     \* the contents that a running program may give to things: 0 .. CONTENTS - 1

Kinds == [name : STRING, kind : {"digits", "bools", "int"}, n : Nat, count : Nat]

ASSUME StateFileAssumption ==
  /\ Chips \in Seq(DOMAIN Registers) /\ \A chip \in ToSet(Chips) : Registers[chip] \in Seq(Kinds)
  /\ IsFiniteSet(Modules) /\ "ram" \notin Modules      \* the name of the memory in the file
  /\ RamAddresses \in Seq(Nat)
  /\ \A i, j \in DOMAIN RamAddresses : i < j => RamAddresses[i] < RamAddresses[j]
  /\ HEX \in Nat /\ HEX >= 2 /\ Fits \in Nat \ {0} /\ REGISTER_DIGITS \in Nat \ {0} /\ CONTENTS \in Nat \ {0}
  /\ NoChip \notin ToSet(Chips) /\ HasRam \subseteq Modules

VARIABLES calc,       \* the running calculator: plugged, regs, ram, words, protect
          elements,   \* the elements of the state file
          complete,   \* has its end been written?
          gone,       \* modules whose MOD1 files are no longer where they were
          pos,        \* where state_read_xml is in the file, 0 if it is not running
          sax,        \* sax_data_t: chip, mem_rom
          saved       \* history: the calculator when the file was begun

sfvars == <<calc, elements, complete, gone, pos, sax, saved>>

(* The chips of the list that are there, by name. *)
Present(c) == {chip \in ToSet(Chips) : \A m \in Modules : ChipOf[m] = chip => m \in c.plugged}
Fields(chip) == UNION {{<<r, i>> : i \in 0..(Registers[chip][r].count - 1)} : r \in DOMAIN Registers[chip]}

-----------------------------------------------------------------------------
(* proc.c: the accessors between a variable of the program and a number    *)
Shifts(v, n, base) ==
  LET val[i \in 0..n] == IF i = 0 THEN v ELSE val[i - 1] \div base
  IN  val

Packed(d, n, base) ==
  LET val[i \in 0..n] == IF i = 0 THEN 0 ELSE val[i - 1] * base + d[n - i]
  IN  val[n]

set_digits(v, n) == [i \in 0..(n - 1) |-> Shifts(v, n, HEX)[i] % HEX]
get_digits(d, n) == Packed(d, n, HEX)
set_bools(v, n) == [i \in 0..(n - 1) |-> Shifts(v, n, 2)[i] % 2 = 1]
get_bools(d, n) == Packed([i \in 0..(n - 1) |-> IF d[i] THEN 1 ELSE 0], n, 2)

Get(reg, x) ==
  CASE reg.kind = "digits" -> get_digits(x, reg.n)
    [] reg.kind = "bools"  -> get_bools(x, reg.n)
    [] reg.kind = "int"    -> x                       \* get_reg
Set(reg, v) ==
  CASE reg.kind = "digits" -> set_digits(v, reg.n)
    [] reg.kind = "bools"  -> set_bools(v, reg.n)
    [] reg.kind = "int"    -> v % Fits                 \* set_reg

(* nut_write_ram and its likes go to one digit past the register, which is *)
(* the next one's first.                                                   *)
write_ram(ram, addr, v) ==
  [a \in DOMAIN ram |->
     IF a = addr THEN set_digits(v, REGISTER_DIGITS)
     ELSE IF a = addr + 1 THEN [ram[a] EXCEPT ![0] = Shifts(v, REGISTER_DIGITS, HEX)[REGISTER_DIGITS] % HEX] ELSE ram[a]]

-----------------------------------------------------------------------------
(* state_write.c *)
El(name, what, data) == [el |-> name, what |-> what, data |-> data]

write_registers(c, chip) ==
  FlattenSeq([r \in DOMAIN Registers[chip] |->
    [k \in 1..Registers[chip][r].count |-> El("reg", <<r, k - 1>>, Get(Registers[chip][r], c.regs[chip][<<r, k - 1>>]))]])

write_chips(c, owned) ==
  FlattenSeq([k \in DOMAIN Chips |->
    IF Chips[k] \in Present(c) /\ Chips[k] \in owned
    THEN <<El("chip", Chips[k], 0)>> \o write_registers(c, Chips[k]) ELSE <<>>])

write_ram_Down(c) ==      \* mutant: from the highest address down
  <<El("memory", "ram", 0)>> \o
  [k \in 1..Len(RamAddresses) |-> LET a == RamAddresses[Len(RamAddresses) + 1 - k]
                                  IN El("loc", a, get_digits(c.ram[a], REGISTER_DIGITS))]

write_ram_elements(c) ==
  <<El("memory", "ram", 0)>> \o
  [k \in 1..Len(RamAddresses) |-> El("loc", RamAddresses[k], get_digits(c.ram[RamAddresses[k]], REGISTER_DIGITS))]

write_rom(c, m) ==
  IF m \in HasRam THEN <<El("memory", m, c.protect[m]), El("loc", m, c.words[m])>> ELSE <<>>

write_module(c, m) == <<El("module", m, 0)>> \o write_chips(c, {ChipOf[m]}) \o write_rom(c, m)

write_modules(c) ==
  LET list == SetToSeq(c.plugged)
  IN  FlattenSeq([k \in 1..Len(list) |-> write_module(c, list[k])])

Mainframe == ToSet(Chips) \ {ChipOf[m] : m \in Modules}
state_write_xml(c) ==
  <<El("state", "version", 0)>> \o write_chips(c, Mainframe) \o write_ram_elements(c) \o write_modules(c)

-----------------------------------------------------------------------------
(* state_read.c: the calculator and the reader's variables after the       *)
(* element e.  fatal ends the program.                                     *)
FatalEnd == [fatal |-> TRUE]
Goes(c, s) == [fatal |-> FALSE, calc |-> c, sax |-> s]

(* sim_install_module: the file has to be there, and the port free *)
parse_module(c, s, e) ==
  Goes(IF e.what \in gone \cup c.plugged THEN c ELSE [c EXCEPT !.plugged = @ \cup {e.what}], s)

parse_chip(c, s, e) == Goes(c, [s EXCEPT !.chip = IF e.what \in Present(c) THEN e.what ELSE NoChip])

parse_reg(c, s, e) ==
  Goes(IF s.chip = NoChip THEN c
       ELSE [c EXCEPT !.regs[s.chip][e.what] = Set(Registers[s.chip][e.what[1]], e.data)], s)

parse_memory(c, s, e) ==
  IF e.what = "ram" THEN Goes(c, [s EXCEPT !.mem_rom = FALSE])
  ELSE IF e.what \notin c.plugged THEN FatalEnd
  ELSE Goes([c EXCEPT !.protect[e.what] = e.data], [s EXCEPT !.mem_rom = TRUE])

parse_loc(c, s, e) ==
  Goes(IF s.mem_rom THEN [c EXCEPT !.words[e.what] = e.data] ELSE [c EXCEPT !.ram = write_ram(@, e.what, e.data)], s)

sax_start_element(c, s, e) ==
  CASE e.el = "module" -> parse_module(c, s, e)
    [] e.el = "chip"   -> parse_chip(c, s, e)
    [] e.el = "reg"    -> parse_reg(c, s, e)
    [] e.el = "memory" -> parse_memory(c, s, e)
    [] e.el = "loc"    -> parse_loc(c, s, e)
    [] OTHER           -> Goes(c, s)            \* the version; of an unknown one a warning

-----------------------------------------------------------------------------
(* a calculator with v everywhere: 0 is that of reset and a cleared memory *)
Filled(v, plugged) ==
  [plugged |-> plugged,
   regs    |-> [chip \in ToSet(Chips) |-> [f \in Fields(chip) |-> Set(Registers[chip][f[1]], v + f[2])]],
   ram     |-> [a \in ToSet(RamAddresses) |-> set_digits(v + a, REGISTER_DIGITS)],
   words   |-> [m \in Modules |-> v], protect |-> [m \in Modules |-> v % 2]]

NoProcess == [plugged |-> {}, off |-> TRUE]
Runs == calc # NoProcess
NotReading == [chip |-> NoChip, mem_rom |-> FALSE]

SFInit ==
  /\ calc = Filled(0, {}) /\ saved = calc
  /\ elements = state_write_xml(calc) /\ complete = TRUE
  /\ gone = {} /\ pos = 0 /\ sax = NotReading

Works == Runs /\ pos = 0

(* the program of the calculator, and the user's modules *)
Work ==
  /\ Works
  /\ calc' \in {Filled(v, plugged) : v \in 0..(CONTENTS - 1), plugged \in SUBSET (Modules \ gone)}
  /\ UNCHANGED <<elements, complete, gone, pos, sax, saved>>

Save ==
  /\ Works
  /\ elements' = state_write_xml(calc) /\ complete' = TRUE /\ saved' = calc
  /\ UNCHANGED <<calc, gone, pos, sax>>

(* The program is killed, or a write fails (fatal in xmlutil.c), when k    *)
(* elements have been written over the old file.                           *)
SaveFails ==
  /\ Works
  /\ \E k \in 0..Len(state_write_xml(calc)) : elements' = SubSeq(state_write_xml(calc), 1, k)
  /\ complete' = FALSE /\ saved' = calc /\ calc' = NoProcess
  /\ UNCHANGED <<gone, pos, sax>>

End ==
  /\ Works /\ calc' = NoProcess
  /\ UNCHANGED <<elements, complete, gone, pos, sax, saved>>

FileGoes ==
  /\ pos = 0
  /\ \E m \in Modules \ gone : gone' = gone \cup {m}
  /\ UNCHANGED <<calc, elements, complete, pos, sax, saved>>

(* nonpareil is started, or a file is opened: state_read_xml begins *)
Begin ==
  /\ pos = 0
  /\ calc' = IF Runs THEN calc ELSE Filled(0, {})
  /\ pos' = 1 /\ sax' = NotReading
  /\ UNCHANGED <<elements, complete, gone, saved>>

Read ==
  /\ pos \in DOMAIN elements
  /\ LET x == sax_start_element(calc, sax, elements[pos])
     IN  IF x.fatal THEN calc' = NoProcess /\ pos' = 0 /\ sax' = NotReading
         ELSE calc' = x.calc /\ sax' = x.sax /\ pos' = pos + 1
  /\ UNCHANGED <<elements, complete, gone, saved>>

(* The end of the file, or where it breaks off: sax_fatal_error prints a   *)
(* message, and the calculator goes on with what has been read.            *)
ReadEnds ==
  /\ pos = Len(elements) + 1
  /\ pos' = 0 /\ sax' = NotReading
  /\ UNCHANGED <<calc, elements, complete, gone, saved>>

SFNext == Work \/ Save \/ SaveFails \/ End \/ FileGoes \/ Begin \/ Read \/ ReadEnds
SFSpec == SFInit /\ [][SFNext]_sfvars
-----------------------------------------------------------------------------
(* A calculator that goes on after a whole state file was read has what    *)
(* was saved: every register of every chip, the memory, and the modules    *)
(* with their memory, whatever it held before, half of another file among  *)
(* it, and when MOD1 files are gone; only a module without memory whose    *)
(* file is gone may be missing (state_read_xml against state_write_xml).   *)
FileRestored ==
  [][ReadEnds /\ complete =>
       /\ saved.plugged \ calc'.plugged \subseteq gone \ HasRam
       /\ calc'.ram = saved.ram
       /\ \A chip \in Present(saved) \cap Present(calc') : calc'.regs[chip] = saved.regs[chip]
       /\ \A m \in saved.plugged \cap HasRam :
            calc'.words[m] = saved.words[m] /\ calc'.protect[m] = saved.protect[m]]_sfvars
=============================================================================
