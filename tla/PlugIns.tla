------------------------------ MODULE PlugIns ------------------------------
(***************************************************************************)
(* The program memory of the HP-41 and its plug-in modules: the loader of  *)
(* MOD1 files (proc.c, GUI thread), the map of banks and pages that the    *)
(* processor fetches from, with its bank switching (proc_nut.c), and the   *)
(* HEPAX, whose ROM the firmware moves from page to page (hepax.c).        *)
(*                                                                         *)
(* The loader looks at the map and creates pages in it from the GUI        *)
(* thread, while the calculator runs; only the words, the bank groups and  *)
(* the write protection go through the simulator thread's queue.           *)
(***************************************************************************)
EXTENDS Naturals, Sequences, FiniteSets

CONSTANTS Pages,      \* of 4096 words, a subset of 0 .. 15
          MAX_BANK,   \* banks of a page, the hidden one included
          Ports,      \* page 8 + 2 * (port - 1) and the next
          Modules,    \* the MOD1 files, each loaded once
          File,       \* [Modules -> [page : Seq(...), hardware]]
          NoPage, Nobody,
          MAX_BANK_GROUP,
          PAGE_WORDS  \* words of a page that are told apart

Banks == 0..(MAX_BANK - 1)
HIDDEN_BANK == MAX_BANK - 1
POSITION_ANY == 31
POSITION_EVEN == 79       \* POSITION_LOWER too
POSITION_ODD == 95        \* POSITION_UPPER too
RomBanks == 0..(MAX_BANK - 2)
Words == 1..PAGE_WORDS
Home(port) == 8 + 2 * (port - 1)

ASSUME PlugInAssumption ==
  /\ Pages \subseteq 0..15 /\ Ports \subseteq 1..4
  /\ \A port \in Ports : {Home(port), Home(port) + 1} \subseteq Pages
  /\ MAX_BANK \in Nat /\ MAX_BANK >= 2
  /\ MAX_BANK_GROUP \in Nat /\ PAGE_WORDS \in Nat \ {0}
  /\ Nobody \notin Modules

(* Where a page of a file goes: to the lower or the upper page of a port,  *)
(* to whichever of them is free, or to a page of the system's ROMs.        *)
Half(at) ==
  IF at = POSITION_ANY THEN "any"
  ELSE IF at = POSITION_EVEN \/ (at \in 8..15 /\ at % 2 = 0) THEN "lower"
  ELSE IF at = POSITION_ODD \/ at \in 8..15 THEN "upper"
  ELSE "system"

FilePages ==
  [at : Pages \cup {POSITION_ANY, POSITION_EVEN, POSITION_ODD}, bank : RomBanks, group : 0..MAX_BANK_GROUP,
   ram : BOOLEAN, protect : BOOLEAN, valid : BOOLEAN]

(* One HEPAX is on the bus (hepax.c); its file begins with its ROM, which  *)
(* all goes to the lower page.  RAM goes to a port, and a file has RAM in  *)
(* a page that it has put something else in only under the HEPAX ROM.      *)
IsHepax(m) == File[m].hardware = "hepax"

ASSUME PlugInFileAssumption ==
  /\ \A m \in Modules : File[m].page \in Seq(FilePages)
  /\ \A m, n \in Modules : IsHepax(m) /\ IsHepax(n) => m = n
  /\ \A m \in Modules : IsHepax(m) =>
       /\ MAX_BANK - 1 <= Len(File[m].page)
       /\ \A b \in RomBanks :
            LET page == File[m].page[b + 1] IN page.bank = b /\ ~page.ram /\ Half(page.at) = "lower"
  /\ \A m \in Modules : \A j \in 1..Len(File[m].page) :
       File[m].page[j].ram /\ File[m].page[j].bank = 0 =>
         /\ Half(File[m].page[j].at) # "system"
         /\ \A i \in 1..(j - 1) :
              File[m].page[i].bank = 0 /\ ~(IsHepax(m) /\ i < MAX_BANK) =>
                /\ Half(File[m].page[i].at) # Half(File[m].page[j].at)
                /\ "any" \notin {Half(File[m].page[i].at), Half(File[m].page[j].at)}

VARIABLES mem,          \* prog_mem_page[bank][page]
          active_bank, bank_group,
          hepax,        \* the HEPAX chip: [module, port, rom_page]
          moving,       \* the page hepax_move_rom_to_page is moving to, past its checks
          awake, deep,  \* deep: the display is off
          modules,      \* the module list, by port
          load,         \* where sim_install_module is
          last_group,   \* sim_create_bank_group
          created,      \* history: the images for which a page was created
          upset         \* history: the orders of events that the code does not provide for

map == <<mem, active_bank, bank_group>>
chip == <<hepax, moving>>
cpu == <<awake, deep>>
loader == <<modules, load, last_group>>
history == <<created, upset>>
mvars == <<map, chip, cpu, loader, history>>

NoHepax == [module |-> Nobody, port |-> 0, rom_page |-> 0]
NotMoving == 16
NoGroups == [g \in 1..MAX_BANK_GROUP |-> 0]
Idle(groups) == [step |-> "idle", module |-> Nobody, port |-> 0, i |-> 1,
                 bank |-> 0, page |-> 8, k |-> 1, group |-> groups]

Zero == <<Nobody, 0>>                 \* a word nobody wrote
Program == <<Nobody, 1>>              \* a word the calculator wrote
Image(m, i) == <<m, i>>               \* a word of the i-th page of file m

(* Plug-in memory is empty at first; the mainframe's pages are never moved *)
(* or switched by a module and are left out.                               *)
MInit ==
  /\ mem = [b \in Banks |-> [p \in Pages |-> NoPage]]
  /\ active_bank = [p \in Pages |-> 0] /\ bank_group = [p \in Pages |-> 0]
  /\ hepax = NoHepax /\ moving = NotMoving
  /\ awake = TRUE /\ deep = FALSE
  /\ modules = [port \in Ports |-> Nobody] /\ load = Idle(NoGroups) /\ last_group = 0
  /\ created = {} /\ upset = {}

At(step) == load.step = step

-----------------------------------------------------------------------------
(* The HEPAX *)

(* nut_move_rom_page, for each bank of a set: nothing is moved from a page *)
(* that is not there or to one that is taken.                              *)
nut_move_rom_page(m, banks, from, to) ==
  [b \in Banks |-> IF b \in banks /\ m[b][from] # NoPage /\ m[b][to] = NoPage
                   THEN [m[b] EXCEPT ![to] = m[b][from], ![from] = NoPage] ELSE m[b]]

(* the same, between bank 0 and the hidden bank of a page *)
Rebank(m, p, from, to) ==
  IF m[from][p] # NoPage /\ m[to][p] = NoPage
  THEN [m EXCEPT ![to][p] = m[from][p], ![from][p] = NoPage] ELSE m

Preflight(to) == \A b \in RomBanks : mem[b][hepax.rom_page] # NoPage /\ mem[b][to] = NoPage

(* hepax_move_rom_to_page, up to the checks *)
hepax_move_rom_to_page(to) ==
  IF to = hepax.rom_page \/ (to # Home(hepax.port) /\ ~Preflight(to))
  THEN UNCHANGED <<mem, moving>>
  ELSE /\ moving' = to
       /\ mem' = IF to = Home(hepax.port) THEN Rebank(mem, to, 0, HIDDEN_BANK) ELSE mem

(* ... and what follows, unhiding the RAM under the old page *)
Unhide_Not(m, p) == m          \* mutant

Unhide(m, p) == Rebank(m, p, HIDDEN_BANK, 0)

FinishMove ==
  /\ moving # NotMoving
  /\ mem' = Unhide(nut_move_rom_page(mem, RomBanks, hepax.rom_page, moving), hepax.rom_page)
  /\ hepax' = [hepax EXCEPT !.rom_page = moving]
  /\ moving' = NotMoving
  /\ upset' = IF load.step \in {"group", "words", "protect"} /\ load.bank = HIDDEN_BANK
                 /\ load.page = hepax.rom_page
              THEN upset \cup {"load"} ELSE upset
  /\ UNCHANGED <<active_bank, bank_group, cpu, loader, created>>

hepax_reset ==
  IF hepax = NoHepax THEN UNCHANGED <<mem, moving>> ELSE hepax_move_rom_to_page(Home(hepax.port))

Runs == awake /\ moving = NotMoving

(* hepax_op_move_hepax_rom: ROMBLK with the digit d in C *)
Romblk(d) ==
  /\ Runs /\ hepax # NoHepax
  /\ hepax_move_rom_to_page(d)
  /\ UNCHANGED <<active_bank, bank_group, hepax, cpu, loader, history>>

(* hepax_op_write_protect_toggle: WPTOG, for the RAM of page d *)
RamOf(d) ==
  LET b == IF d = hepax.rom_page THEN HIDDEN_BANK ELSE 0
  IN  {x \in {b} : mem[x][d] # NoPage /\ mem[x][d].ram}

Wptog(d) ==
  /\ Runs /\ hepax # NoHepax
  /\ \E b \in RamOf(d) : mem' = [mem EXCEPT ![b][d].write_enable = ~@]
  /\ UNCHANGED <<active_bank, bank_group, chip, cpu, loader, history>>

(* hepax_restore_rom_page: the loader has put the ROM in its port, and the *)
(* state file, saved with the display on, says where it was.  The          *)
(* calculator is paused.                                                   *)
Restore(p) ==
  /\ hepax # NoHepax /\ moving = NotMoving /\ At("idle")
  /\ LET home == Home(hepax.port)
         there == hepax.rom_page = home
         fits == \A b \in RomBanks : mem[b][home] # NoPage /\ mem[b][p] = NoPage
     IN  /\ hepax' = [hepax EXCEPT !.rom_page = home]
         /\ moving' = IF p # home /\ fits THEN p ELSE NotMoving
         /\ upset' = IF there THEN upset ELSE upset \cup {"restore"}
  /\ awake' \in BOOLEAN /\ deep' = FALSE
  /\ UNCHANGED <<map, loader, created>>

-----------------------------------------------------------------------------
(* The processor *)

(* op_enbank, executed in page p: select_bank *)
Enbank(p, new_bank) ==
  /\ Runs /\ mem[active_bank[p]][p] # NoPage
  /\ LET switched == IF bank_group[p] = 0 THEN {p} ELSE {q \in Pages : bank_group[q] = bank_group[p]}
     IN  active_bank' = [q \in Pages |-> IF q \in switched /\ mem[new_bank][q] # NoPage
                                         THEN new_bank ELSE active_bank[q]]
  /\ UNCHANGED <<mem, bank_group, chip, cpu, loader, history>>

(* nut_set_ucode: the calculator writes into program memory *)
nut_set_ucode(p, k) ==
  /\ Runs
  /\ LET b == active_bank[p]
     IN  /\ mem[b][p] # NoPage
         /\ mem[b][p].ram
         /\ mem[b][p].write_enable
         /\ mem' = [mem EXCEPT ![b][p].word[k] = Program]
  /\ UNCHANGED <<active_bank, bank_group, chip, cpu, loader, history>>

(* op_powoff, with the display on or off; nut_press_key wakes; reset *)
Sleep(display_off) ==
  /\ Runs
  /\ awake' = FALSE /\ deep' = display_off
  /\ active_bank' = [p \in Pages |-> 0]
  /\ IF display_off THEN hepax_reset ELSE UNCHANGED <<mem, moving>>
  /\ UNCHANGED <<bank_group, hepax, loader, history>>

Wake ==
  /\ ~awake /\ moving = NotMoving
  /\ awake' = TRUE /\ deep' = FALSE
  /\ IF deep THEN hepax_reset ELSE UNCHANGED <<mem, moving>>
  /\ UNCHANGED <<active_bank, bank_group, hepax, loader, history>>

Reset ==
  /\ moving = NotMoving /\ At("idle")
  /\ awake' = TRUE /\ deep' = FALSE
  /\ active_bank' = [p \in Pages |-> 0]
  /\ hepax_reset
  /\ UNCHANGED <<bank_group, hepax, loader, history>>

-----------------------------------------------------------------------------
(* The loader *)
Here == File[load.module].page[load.i]
PageExists(b, p) == mem[b][p] # NoPage       \* sim_get_page_info
Fail == load' = Idle(load.group)

(* sim_read_mod1_file forgets the bank groups of the last file *)
NewGroups_OfLastFile(groups) == groups      \* mutant: it does not

NewGroups(groups) == NoGroups

(* configure_load_module, for a port that is free *)
StartLoad(m, port) ==
  /\ At("idle") /\ modules[port] = Nobody
  /\ \A j \in 1..Len(File[m].page) : Image(m, j) \notin created
  /\ load' = [Idle(NewGroups(load.group)) EXCEPT !.step = "read", !.module = m, !.port = port]
  /\ UNCHANGED <<map, chip, cpu, modules, last_group, history>>

(* sim_read_mod1_page: the page is checked and given its place, from what  *)
(* the map holds now; RAM where there is a ROM goes under it               *)
ReadPage ==
  /\ At("read") /\ load.i <= Len(File[load.module].page)
  /\ LET first == Home(load.port)
         page == CASE Here.at = POSITION_ANY  -> IF PageExists(Here.bank, first) THEN first + 1 ELSE first
                   [] Here.at = POSITION_EVEN -> first
                   [] Here.at = POSITION_ODD  -> first + 1
                   [] OTHER                   -> Here.at
         other_port == page >= 8 /\ page \notin {first, first + 1}
         bank == IF Here.bank = 0 /\ Here.ram /\ PageExists(0, page) THEN HIDDEN_BANK ELSE Here.bank
     IN  IF ~Here.valid \/ other_port THEN Fail
         ELSE load' = [load EXCEPT !.step = "create", !.page = page, !.bank = bank, !.k = 1]
  /\ UNCHANGED <<map, chip, cpu, modules, last_group, history>>

(* image: its module, and which page of the file it was made for *)
NewPage(image, ram) == [image |-> image, ram |-> ram, write_enable |-> FALSE, word |-> [k \in Words |-> Zero]]

(* sim_create_page, called in the GUI thread, even while the HEPAX moves *)
CreatePage ==
  /\ At("create")
  /\ IF PageExists(load.bank, load.page)
     THEN Fail /\ UNCHANGED <<mem, history>>
     ELSE /\ mem' = [mem EXCEPT ![load.bank][load.page] = NewPage(Image(load.module, load.i), Here.ram)]
          /\ load' = [load EXCEPT !.step = "group"]
          /\ created' = created \cup {Image(load.module, load.i)}
          /\ upset' = IF load.page = moving \/ (load.bank = HIDDEN_BANK /\ ~PageExists(0, load.page))
                      THEN upset \cup {"load"} ELSE upset
  /\ UNCHANGED <<active_bank, bank_group, chip, cpu, modules, last_group>>

(* What follows goes through the simulator thread, one command at a time. *)
ByQueue == moving = NotMoving

SetGroup ==
  /\ At("group") /\ ByQueue
  /\ IF Here.group = 0
     THEN load' = [load EXCEPT !.step = "words"] /\ UNCHANGED <<bank_group, last_group>>
     ELSE LET g == IF load.group[Here.group] = 0 THEN last_group + 1 ELSE load.group[Here.group]
          IN  /\ load' = [load EXCEPT !.step = "words", !.group[Here.group] = g]
              /\ bank_group' = [bank_group EXCEPT ![load.page] = g]
              /\ last_group' = IF g > last_group THEN g ELSE last_group
  /\ UNCHANGED <<mem, active_bank, chip, cpu, modules, history>>

(* nut_write_rom: a word for a page that is not there makes one *)
LoadWord ==
  /\ At("words") /\ ByQueue
  /\ LET b == load.bank  p == load.page
         old == IF PageExists(b, p) THEN mem[b][p] ELSE NewPage(Zero, FALSE)
     IN  mem' = [mem EXCEPT ![b][p] = [old EXCEPT !.word[load.k] = Image(load.module, load.i)]]
  /\ load' = IF load.k = PAGE_WORDS THEN [load EXCEPT !.step = "protect"] ELSE [load EXCEPT !.k = @ + 1]
  /\ UNCHANGED <<active_bank, bank_group, chip, cpu, modules, last_group, history>>

(* nut_set_rom_write_enable *)
WriteEnabled(page, enable) == IF ~page.ram /\ enable THEN page ELSE [page EXCEPT !.write_enable = enable]

WriteEnable ==
  /\ At("protect") /\ ByQueue
  /\ LET b == load.bank  p == load.page
     IN  mem' = IF PageExists(b, p)
                THEN [mem EXCEPT ![b][p] = WriteEnabled(@, Here.ram /\ ~Here.protect)] ELSE mem
  /\ load' = [load EXCEPT !.step = "read", !.i = @ + 1]
  /\ UNCHANGED <<active_bank, bank_group, chip, cpu, modules, last_group, history>>

(* the end of sim_read_mod1_file, sim_add_chip (hepax_install) and of      *)
(* sim_install_module                                                      *)
EndLoad ==
  /\ At("read") /\ load.i > Len(File[load.module].page) /\ ByQueue
  /\ modules' = [modules EXCEPT ![load.port] = load.module]
  /\ hepax' = IF IsHepax(load.module)
              THEN [module |-> load.module, port |-> load.port, rom_page |-> Home(load.port)]
              ELSE hepax
  /\ load' = Idle(load.group)
  /\ UNCHANGED <<map, moving, cpu, last_group, history>>

GuiThread ==
  \/ \E m \in Modules, port \in Ports : StartLoad(m, port)
  \/ ReadPage \/ CreatePage \/ SetGroup \/ LoadWord \/ WriteEnable \/ EndLoad
  \/ \E p \in Pages : Restore(p)

SimThread ==
  \/ \E d \in Pages : Romblk(d) \/ Wptog(d)
  \/ \E p \in Pages, b \in RomBanks : Enbank(p, b)
  \/ \E p \in Pages, k \in Words : nut_set_ucode(p, k)
  \/ FinishMove \/ Wake \/ Reset
  \/ \E display_off \in BOOLEAN : Sleep(display_off)

MNext == GuiThread \/ SimThread
MSpec == MInit /\ [][MNext]_mvars
-----------------------------------------------------------------------------
Images == Modules \X (Nat \ {0})
PageType ==
  [image : Images \cup {Zero}, ram : BOOLEAN, write_enable : BOOLEAN,
   word : [Words -> Images \cup {Zero, Program}]]

ASSUME NoPageAssumption == NoPage \notin PageType

(* The types, and that a page that can be written is RAM.                  *)
MTypeOK ==
  /\ \A b \in Banks, p \in Pages :
       mem[b][p] # NoPage => mem[b][p] \in PageType /\ (mem[b][p].write_enable => mem[b][p].ram)
  /\ active_bank \in [Pages -> RomBanks] /\ bank_group \in [Pages -> Nat]
  /\ hepax \in [module : Modules \cup {Nobody}, port : 0..4, rom_page : Pages \cup {0}]
  /\ moving \in Pages \cup {NotMoving}
  /\ awake \in BOOLEAN /\ deep \in BOOLEAN
  /\ modules \in [Ports -> Modules \cup {Nobody}] /\ last_group \in Nat
  /\ load.bank \in Banks /\ load.page \in Pages \cup {8} /\ load.k \in Words
  /\ upset \subseteq {"load", "restore"}

Slots == Banks \X Pages
SlotsOf(image) == {s \in Slots : PageExists(s[1], s[2]) /\ mem[s[1]][s[2]].image = image}

(* No page is lost or doubled, whatever the HEPAX moves and whatever is    *)
(* loaded meanwhile; and a module in the list is in memory as its file has *)
(* it, hidden RAM included, but for what the calculator wrote into RAM and *)
(* for a load into a page that the HEPAX ROM was entering or leaving.      *)
ModulesAreWhole ==
  /\ \A image \in created : Cardinality(SlotsOf(image)) = 1
  /\ "load" \notin upset =>
       \A port \in Ports : modules[port] # Nobody =>
         \A i \in 1..Len(File[modules[port]].page) :
           \E s \in SlotsOf(Image(modules[port], i)) :
             LET page == mem[s[1]][s[2]]
             IN  /\ page.ram = File[modules[port]].page[i].ram
                 /\ \A k \in Words : page.word[k] = Image(modules[port], i) \/ (page.ram /\ page.word[k] = Program)

(* A page that a failed load left behind. *)
LeftOver(p) == PageExists(0, p) /\ \A port \in Ports : modules[port] # mem[0][p].image[1]

(* The HEPAX ROM is where its register says, all of its banks; only the    *)
(* RAM under it is hidden, and RAM loaded over a page that a failed load   *)
(* left behind; and with the calculator off the ROM is in its port.        *)
HepaxIsWhole ==
  hepax # NoHepax /\ moving = NotMoving /\ upset = {} =>
    /\ \A b \in RomBanks : SlotsOf(Image(hepax.module, b + 1)) = {<<b, hepax.rom_page>>}
    /\ \A p \in Pages : PageExists(HIDDEN_BANK, p) => p = hepax.rom_page \/ LeftOver(p)
    /\ deep => hepax.rom_page = Home(hepax.port)

(* What is in memory: the modules and, with its moves, the HEPAX.          *)
MemoryIsWhole == MTypeOK /\ ModulesAreWhole /\ HepaxIsWhole

(* A module that switches banks switches its own pages only.               *)
BanksStayInModule ==
  [][\A p \in Pages, b \in RomBanks : Enbank(p, b) /\ upset = {} =>
       \A q \in Pages : active_bank'[q] # active_bank[q] =>
         mem[b][q].image[1] = mem[active_bank[p]][p].image[1]]_mvars
=============================================================================
