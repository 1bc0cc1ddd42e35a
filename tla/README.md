# A verification of Nonpareil

Nonpareil simulates the microcode of HP calculators. It is one process with
two threads that matter (a third when it is built with the command line
debugger, and SDL's audio thread): the **GUI thread**, which runs the GTK main
loop, and the **simulator thread**, which executes the calculator's firmware in
bursts. This directory holds TLA+ models of its parts, the TLC configurations
that check them, and TLAPS proofs about them. Source paths below are relative
to `src/`.

## 1. The system

| Component | Where | State | Operations | What makes it hard |
|---|---|---|---|---|
| Simulator thread | `proc.c` | run, pause, step and quit flags; two queues; the time of the last burst | the `sim_*` calls, bursts, single steps | two threads, a call is answered between bursts only; elapsed time |
| Message path to the GUI | `proc.c`, `glib_async_queue_source.c` | message queue, free queue, pending wakeup | send, prepare, check, dispatch, recycle | lock-free hand-over of blocks, lost wakeups |
| State files | `state_write.c`, `state_read.c` | the file, the processor | save, restore, word by word | the simulator is running; partial failure |
| Menus, debugger | `csim.c`, `debugger_gui.c`, `debugger_cli.c` | - | reset, run, stop, step, go, halt | check-then-act on the run flag; a thread of its own |
| Keyboard window | `keyboard.c` | pressed buttons, their count, the first key | press, release, rollover | two input devices, order of events |
| Nut processor and its disassembler | `proc_nut.c`, `dis_nut.c` | keyboard scanner, sleep; pc, carry, stack; registers, pointers, RAM and peripheral selection | instructions, key events, sleep, reset | a key at any moment of the firmware's work; restore; one bus for memory and peripherals; two decoders |
| Woodstock processor and its disassembler | `proc_woodstock.c`, `dis_woodstock.c` | pc, carry, delayed ROM, bank, stack; registers, pointer, flags, RAM | instructions, display scan, reset, listing, trace | what lives for one cycle only; a display that is scanned while the program writes it; two decoders |
| Classic processor | `proc_classic.c` | registers, ROM and group, keys, flags, scan position | instructions, display scan, reset | delayed selections, the same scan |
| Digit arithmetic | `digit_ops.c`, `op_arith` of the three processors | - | sums, differences, shifts and tests of fields | carries of two bases, field limits, aliased operands |
| Displays of the Nut machines | `coconut_lcd.c`, `voyager_lcd.c` | enable, rows, annunciators, refresh and blink counters | shifting reads and writes, sleep, wake, blink | what a sleeping calculator shows |
| Card reader | `card_reader.c`, `crc.c` | the card's image, shared; flags; head position | insert, read, write, return | ownership across threads, resets half way |
| Program memory, plug-ins, HEPAX | `proc.c`, `mod1_file.c`, `proc_nut.c`, `hepax.c` | pages by bank, bank groups, write protection; where the HEPAX ROM is | load a module, switch banks, move ROM, write, protect | the loader works in the GUI thread while the calculator runs; loads that fail half way |
| Timer chip | `phineas.c` | clocks, alarms, interval, status | read, write, tick, sleep, wake | passings between two instructions |
| Printers | `helios.c`, `pick.c` | line buffer, modes, key ring, timers | write, print, keys, reset | buffers at their limits, modes across lines |
| Sound | `sound.c`, `goose.c`, `proc_nut.c` | the table of sounds, the bender's reference | play, synthesize, stop, callback | three threads, a reference kept across instructions |
| Tools | `asm.c`, `*_y.y`, `modutil.c`, ... | symbol table, pass | two-pass assembly, conversion | sequential |
| Toolkit glue | `kml*.c`, `cbutton.c`, `display.c`, ... | widgets | drawing, parsing | none for a model |

How they interact. The GUI thread calls `sim_*` functions, which put a message
on `cmd_q` and block on `reply_q`; the simulator thread handles it between two
bursts. What the simulator thread has to tell the GUI (display segments, chip
messages, trace lines) goes through `gui_cmd_q` to the main loop. Keys,
inserted cards, resets and the start and end of a save or restore are *events*:
`CMD_EVENT` messages that the simulator thread hands to every chip. Chips call
each other in the simulator thread only (`event_sleep`, `event_wake`,
`event_cycle`). The table of sounds is shared with SDL's audio thread under its
lock, most of the time.

What correct means, part by part: a queued call of the GUI takes effect once,
between bursts, and returns with its own answer; nothing runs while it is stopped,
paused or freed; what the simulator sends arrives once, in order, unaltered; a
state file is a snapshot, and a file that was written to its end is restored as
a whole; a key is read once and never slept over, none sticks; a card has one
owner, and its file is never half written; no page of program memory is lost or
doubled; the disassembler says what the processor does; an arithmetic
instruction does what its name says; a frame of the display shows the registers;
an alarm wakes the calculator; a printer loses nothing; a tone ends with its
pulses. `PROJECT.json` lists, under `hazards`, where in the code each of these
could go wrong, and which property would show it.

## 2. Modules

| Module | Models | Checked with |
|---|---|---|
| `Fifo` | abstract: messages arrive once, in order, unaltered | `GuiChannel` (INSTANCE) |
| `GuiChannel` | the message path to the GUI | `MCGuiChannel`; `ThreadProofs` |
| `SimService` | abstract: what the `sim_*` functions promise | `SimThread` (INSTANCE) |
| `SimThread` | the simulator thread, its queues and its clock | itself; `SimThreadProofs` |
| `Jobs` | sequences of `sim_*` calls by one or two threads against the running simulator | `MCJobs`; `ThreadProofs` |
| `StateFile` | the contents of a state file, element by element | `MCAccessories`; `SimThreadProofs` |
| `Rollover` | the keyboard window | `MCRollover`, `MCAccessories`; `AccessoryProofs` |
| `NutPower` | keyboard scanner, sleep and display of the HP-41C | `MCNutPower`; `NutProofs` |
| `NutFlow` | the Nut's flow of control next to its disassembler | `MCNutPages`; `NutProofs` |
| `NutData` | the Nut's pointers, flags, G, M, N, RAM and peripherals | `MCProcessors`; `NutProofs` |
| `Woodstock` | the Woodstock's flow of control next to its disassembler | `MCProcessors`; `ProcessorProofs` |
| `ActData` | the Woodstock's registers, flags, keys, RAM and display scan | `MCProcessors`; `ProcessorProofs` |
| `Classic` | the Classic processor, whole | `MCProcessors`; `ProcessorProofs` |
| `DigitProcessor` | what `ActData` and `Classic` share | both |
| `DigitOps` | `digit_ops.c` | `Arithmetic` and the processors |
| `Arithmetic` | `op_arith` of the three processors, and what their assemblers' mnemonics mean | `MCNutPages`; `ArithmeticProofs` |
| `PlugIns` | program memory: the loader of module files, bank switching, the HEPAX | `MCNutPages`; `PlugInProofs` |
| `Displays` | the rows of the HP-41C's display, and the Voyagers' display | `MCAccessories` |
| `CardReader` | card window, controller and firmware protocol | `MCAccessories`; `AccessoryProofs` |
| `Phineas` | the timer chip | `MCAccessories`; `AccessoryProofs` |
| `Pick` | the printer control chip | `MCAccessories`; `AccessoryProofs` |
| `Helios` | the HP 82143A printer | `MCAccessories`, `MCHelios`; `AccessoryProofs` |
| `Sound` | the table of sounds, the callback, the bender, the goose | `MCAccessories`, `MCSound.cfg`; `AccessoryProofs` |

`IntegerLemmas` has what the proofs need of the integers: induction over a
range, functions defined by recursion over one, division with remainder.

`MCAccessories`, `MCNutPages` and `MCProcessors` hold several components that
share no state in the code either, or share it only through what each module
already leaves open. A variable `part` says which of them a behaviour is about,
and the others rest, so that the state spaces add up and do not multiply.

**SimThread.** `cmd_q` and `reply_q` are the two GAsyncQueues; `spc` is where
`sim_thread_func` is: at its pop (`loop`), past a pop that timed out (`body`),
or in the loop of `sim_run` (`burst`). A push or a pop is one step, and so is
`handle_sim_cmd`, since the only other thread is blocked in its call meanwhile.
Registers, RAM and ROM are one function `state`; instructions and events change
it in any way. A ROM word is read in the caller's own thread (`ReadRom`), which
no pop or burst waits for. `now` is the time in instruction times. `credit`, an
auxiliary variable, is the time spent running minus the instructions executed.
`SimService` is the same system as its callers should see it: one pending call,
performed at one moment.

**GuiChannel.** A `gui_msg_t` is an address with a content. `spc`/`gpc` say
where the two threads are in a send and in the main loop; the wakeup of the
main context is one sticky bit. The refinement mapping reads the queue's
contents through the addresses, so a block used again too early shows as an
altered message.

**Jobs.** A menu item, a button of the debugger window or a command is a script
of `sim_*` calls; `Continue` is what it does after `sim_running` has answered.
The simulator thread is reduced to what `SimThread` shows of it. `Menu` says
which thread starts what: in the build without the command line only the GUI
thread exists.

**StateFile.** `calc` is the calculator, `elements` the file, `pos` the place of
the parser in it. Every element has its conversion (the accessors of `proc.c`
and their inverses, with the widths of the variables); a save can be
interrupted, and a module's own file can be gone when the state is read. The end
of a file, or the place where it breaks off, ends the reading and the calculator
goes on with what it has (`ReadEnds`). Only a module that has memory in the file
and cannot be installed ends the program (`NoProcess`).

**Rollover.** `pressed` are the flags of the buttons, `count` and `first` the
fields of `csim_t`. `calls` are the `sim_key` calls a handler still has to make;
`down` is what the processor has been told.

**NutPower.** A step is one machine cycle (the chips' `event_cycle` first, then
an instruction if the processor is awake) or one event. The firmware is
external; `phase` fixes only that it tests the keyboard, reads the key, and
resets and tests until the key is up. `held` is the key of the window.

**NutFlow, Woodstock.** `nut` and `act` are the part of the processor that
decides where it goes next, `dis` and `listing` the disassembler's state when
its walk comes to the same word. A word is chosen when it is fetched, with its
real code, so that every well formed firmware is covered; registers are left
out, and a test or a sum leaves any carry that the operation allows. `missed`
records by which of the two decodings of the Woodstock, of a listing and of a
trace, the next address could not be told. `unshown` is why those of the Nut did
not name the place where the processor went from the last word (`Why`): the text
leaves out a condition, the jump goes by a routine of the firmware first, or the
text is wrong.

**NutData, ActData, Classic.** One record (`nd`, `ad`, `cl`) is the register
structure of the processor, and one operator per instruction its effect. The
firmware is a set of words of which any comes next, a *session* (`program`,
`setup`, `session`) that the run chooses from a list: the words of one session
are those that act on each other. The display scan is part of the cycle, and
`segments` the frame that it fills. `ToFile` and `FromFile` are the tables that
say which registers a state file holds.

**DigitOps, Arithmetic.** Registers are functions of digits. `Says` gives each
of the 32 operations the statement that the assembler's mnemonic makes;
`Meaning` evaluates it on the number that the field holds. `Execute` does what
`op_arith` does, with the calls of `digit_ops.c` and their aliases.

**PlugIns.** `mem` is `prog_mem_page` (a page with its words, whether it is RAM,
its write enable, and which page of a file it was made for), `active_bank` and
`bank_group` the processor's tables, `hepax` the chip. `load` says where
`sim_install_module` is: a page is read and placed, created *in the GUI thread*,
and then given its bank group, its words and its protection by commands of the
queue. `FinishMove` is the second half of `hepax_move_rom_to_page`: the
simulator thread is between its checks and its moves meanwhile, and only the
GUI thread's own steps can come between. `created` and `upset` are history:
the pages made, and the two orders of events that the code does not provide
for. `PlugInFileAssumption` says which module files are meant: the calculator
has one HEPAX, whose ROM comes first in its file and goes to the lower page of
its port; RAM goes to a port, and no file has RAM in a page that it has put
something else in, but for the RAM under the HEPAX ROM. The loader checks none
of this.

**CardReader.** `side`, `image` and `buttons` belong to the window, `card_side`,
`head` and `flag` to the chip; they share `image`. `phase` follows the card
routines of the firmware (`ncd/67-97/6797cr.asm`). `died` is the message of
`fatal`.

**Sound.** `sounds` is the table. The simulator thread (the bender), the GUI
thread (the goose) and the callback each have a program counter, with a step for
each place at which another thread can see the table in between; the lock of the
audio device is a guard where the code takes it, in `stop_sound` and around the
callback. The two threads look for a free entry and fill it without it, one
entry after the other (`Look`, `Clear`, `Fill`, `Run`), at any time. `bender` is
`bender_sound_ref` and the cycles of `nut_reg_t`. `spoilt` is history: the
entries that both threads have found open at once, and those of tones that a
reset has forgotten.

**Phineas, Pick, Helios, Displays.** One record is the chip's structure, one
action a register of it that the program reads or writes, a machine cycle, or an
event of the chip; histories (`owed`, `keys`, `paper`, `sent`, `lines`) keep
what the outside was promised, and `overrun` that a byte was written behind the
end of the Helios' buffer, after which nothing is defined.

Every mutant operator (`X_Y` beside `X`) is a plausible wrong version of `X`
that the run of the property it names must refute; none is part of a next-state
relation.

## 3. What the runs check

| Run | Bounds | Shows |
|---|---|---|
| `gui_channel` | 3 blocks, 1 of them on the free list, 2 contents | a block is in one place (`OnePlace`), the pop in dispatch never blocks (`DispatchNeverBlocks`), `NoLostWakeup`; refines `Fifo`, with its liveness (`ImplementsFifo`) |
| `sim_thread` | one word, two values, bursts of 2, time to 3, all calls | the one message under way is its caller's (`OneOutstanding`), pauses are not paid back (`NoCatchUp`), `ExecutesOnlyWhenAllowed`; refines `SimService`, with its liveness (`ImplementsService`) |
| `sim_step` | start, stop, single step | *violation* of `SingleInstIsExecuted` |
| `jobs` | all jobs, with and without the command line thread, 2 words | `StateFilesAreSnapshots`, `PauseIsReleased`, `ResetIsUndisturbed`, `JobsEnd` |
| `jobs_reply` | the same | *violation* of `RepliesMatch` |
| `rollover_last` | 3 buttons of the HP-35 | *violation* of `LastKeyIsRecognisedOnce` |
| `nut_power` | keys ON and A, debounce 3, refresh 3, restores | `WakesLikeItSlept`, `NoKeyIsSleptOver`, `DeepSleepEndsWithON`, `ReadOnce`, `HeldKeyIsRead` |
| `accessories` | see section 4 | card: `CardIsHandedOver`, `ReadsTheCard`, `FilesAreWhole`, `TransferEnds`; keys: `NoRolloverError`, `NoStuckKey`; sound: `TheToneIsTheBenders`, `MixesWhatItLookedAt`, `NoToneWithoutPulses`; state file: `FileRestored`; timer: `ServiceWakes`; printers: `PickKeepsOrder`, `NothingIsLost`; displays: `DisplaysFollow` |
| `nut_pages` | see section 4 | program memory: `MemoryIsWhole`, `BanksStayInModule`; flow: `NutTextShowsTheFlow`; arithmetic of all three processors: `DoesWhatItSays` |
| `processors` | see section 4 | Woodstock's flow: `TextShowsTheFlow`, `RestoreResumes`; data of ACT, Classic and Nut: `RestoredGoOn`, `FramesShowTheRegisters`, `DataIsKept` |
| `bender_reset` | a reset at any time | *violation* of `NoReferenceNoTone` |
| `helios_mode` | a buffer of 4, 5 bytes | *violation* of `ModeIsThatOfTheStart` |

`CardIsHandedOver`, `MemoryIsWhole` and `TextShowsTheFlow` contain the type
invariant of their module. Those of the modules with theorems are part of the
proofs. The other modules have none of their own.

### The disagreements the violation runs show

- `sim_step`: a single step asked for while stopped only sets a flag. The
  thread blocks in its pop and, after each command, goes back to it, so that
  the step is executed after the next start and not before (`proc.c:1024`;
  `proc.h:180` says "executes one instruction").
- `jobs_reply`: with the command line debugger two threads call `sim_*` and pop
  the same reply queue; one gets the other's message and the process ends with
  "async reply != msg" (`proc.c:682`).
- `rollover_last`: a button number is compared with a keycode
  (`keyboard.c:129`); so the first key is recognised again, or the last one
  never, against the comment at `keyboard.c:63`.
- `bender_reset`: `nut_reset` forgets the entry of the tone without stopping it
  (`proc_nut.c:2135`, "no sound playing"); it goes on sounding, and the entry is
  lost.
- `helios_mode`: `helios_eol` follows the modes in a local variable and never
  stores it back, so that what is left in the buffer is printed in the mode of
  the line before (`helios.c:439`, against `helios.c:125`).

### What was met while modelling, and how the properties allow for it

Threads and files:

- `sim_quit` frees `sim` while the thread has still to look at `quit_flag`:
  `ExitAfterFree` leads to the state `undefined`, of which nothing is claimed.
- `sim_read_rom` (`proc.c:1544-1565`) reads in the thread of its caller
  ("potentially lost atomicity"), and `CMD_READ_ROM`, which `handle_sim_cmd` still
  handles, is never sent. The interface says otherwise: "The following functions
  all send messages from the GUI thread to the simulator thread, and wait for a
  reply" (`proc.h:161-164`). It is called by `state_write.c:267`, by the debugger's windows (`debugger_gui.c:572`) and by the disassemblers.
  `SimService` promises only what the code gives: a word of some moment of the
  call. `sim_get_page_info` and `sim_create_page` are direct, too; `PlugIns` has
  them so.
- A state file is written over in place. Of one that was not written to its end
  the parser's errors are only printed (`xmlutil.c:176-199`), and
  `state_read_xml` goes on without looking at its result
  (`state_read.c:433-443`): what was in the file is restored, the rest of the
  calculator stays as it was, and the earlier state is gone. The model does the
  same; `FileRestored` is a promise about files that were written to their end,
  whatever half restored calculator reads them.
- `write_ram` goes one digit past the register (`i <= WSIZE`) and clears the
  first digit of the next one. The order of addresses in a whole file makes it
  harmless; the mutant of `FileRestored` writes them downwards. When a file breaks
  off, the register after the last one in it has lost its first digit.
- `state_read.c:364` tests a port that was not read.
  Every file that the program writes has one, so that the model does too.
- Neither `play_sound` nor `synth_sound` holds the lock while it looks for a free
  entry and fills it (`sound.c:384-411`, `508-562`): the bender and the goose of
  the easter egg can find the same one, and then the tone is lost, or goes on
  without a reference. The model lets them, and resets come at any time. The
  properties of `Sound` say that nothing else goes wrong, of the entries that are
  not `spoilt`: for all others the search without the lock is harmless. The
  reset is what `bender_reset` is about. Of a recorded sound whose data the other
  thread has freed the callback mixes undefined samples; only a spoilt entry can
  be one. `stop_sound` admits one entry too many (`id > MAX_SOUNDS`), which no
  caller passes.

Nut:

- A state file does not hold the keyboard scanner. Restored while a key is
  debounced, it can put the Nut to sleep with a key waiting; `NoKeyIsSleptOver`,
  `DeepSleepEndsWithON`, `ReadOnce` and `HeldKeyIsRead` are stated up to the
  first restore (`restored`). A key tapped before it was read (`tapped`) ends
  the promise of the last two.
- `dis_nut.c:78` leaves `uncond` of a short branch uninitialised unless the
  branch is known to be unconditional. It begins with either value at every
  branch (`Uninitialized`); with TRUE an untaken branch is shown as a "goto".
  That is one of the two ways in which the text "leaves out a condition".
- The listing of a Coconut shows the calls of twelve routines of the HP-41's
  firmware with the word after them, as one jump (`DIS_FLAG_NUT_41_JUMPS`,
  `dis.c:794`, `dis_nut.c:127-189`, `496-522`, `570-576`); a trace does not
  (`proc_nut.c:1887`). The text shows where the routine is to jump to, and leaves
  out the condition of the call. The processor goes to the routine, with the
  address of the third word on its stack; when the call is not taken it executes
  the third word, which the listing has passed: they have nothing in common
  up to the next jump (`past`). So `NutTextShowsTheFlow` says that the next
  address is in the text, or that one of these two things is why it is not; it is
  never another one. The routines 0fd9 and 0fda of `ncd/41c` take the block to
  jump in from the address of the third word, the text from the address after it.
  The two differ when the third word is the last one of a block; the routines are
  firmware, which the model does not have.
- `?pfsft` can leave a carry that the disassembler takes for clear, so that the
  listing of a branch right after it is not looked at. "goto c" and "goto keys"
  are marked as if they had no branch; where they go is in C, and no text says
  it.
- Both a register of the RAM and a peripheral may be selected by one address;
  the RAM answers. `NutData` has the order of the code.
- Two digits at a time written to and read from the HP-41C's display come back
  in the opposite order; `ReadBack` states for which pairs of accesses a write
  restores what a read shifted out.
- A Voyager that was saved while blinking comes back with `blink_state` and
  `blink_count` of the process that reads it. In one where it has never blinked
  the count is 0, goes down from there and does not come to 0 again
  (`voyager_lcd.c:210-218`): it stays dark until the program switches it.
  `DisplaysFollow` promises blinking once an instruction has let it blink in
  this process (`blinked`), restores included. Display-off repeated without end
  postpones the picture, so the instructions to the display are bounded
  (`MAX_LCD_OPS`).
- A sleeping processor does not come to `bender_off`, and `cycle_count` stands
  still: a tone that sounds when it goes to sleep goes on until it wakes.
  `NoToneWithoutPulses` counts the word times of an awake processor.

Woodstock and Classic:

- The file of a Woodstock has the stack but not the stack pointer;
  `RestoreResumes` promises the returns only when that is the same. In a trace
  the mask of a delayed selection has three bits of four, so
  `TraceShowsTheFlow` compares addresses within half of the ROM.
- `woodstock_reset` keeps the carry, so that the HP-25's first "go to"
  (`ncd/25-25c/25.asm`) is not taken after an instruction that left one.
  `proc_woodstock.c:1593`, which is only reached while keys are traced, assigns
  to `sim->platform` where it means to compare; the model has no key trace.
- The Classic's file lacks the RAM address, the last key and the scan position;
  the ACT's lacks the last key and what the word before did to P. `RestoredGoOn`
  names the instructions that look at these. `classic_write_rom` is off by one
  at the end of the ROM.

Modules and peripherals:

- Two assertions of the card reader can fail: the window lets a card in before
  the firmware has stopped the motor, and nothing tells the firmware that a card
  is protected. `NoOtherFatal` excludes all others.
- A load that fails leaves its first pages in the map (`proc.c:601-609`). RAM
  that is loaded over such a page is hidden for good (`LeftOver`). A load into
  the page that the HEPAX ROM is entering or leaving, and a restore that does
  not find the ROM in its port, split it (`upset`).
- The timer chip raises external flags that nobody lowers, and the processor is
  woken by them again at every service. A key press lets the clocks tick once
  more, and so does a state file that was read (`EventRestore`). A reset sets
  PUS, wakes the processor and leaves the counter of cycles alone
  (`EventReset`).
- A column is as wide on the Helios' line as the mode of the status says, not
  that of the buffer. A line has room for 12 double-wide blanks. When a run of
  13 or more of them is at the front of a buffer that gets full, the line takes
  12 and the run stays: no byte has left the buffer, and the next one is written
  behind its end (`buffer[count++]`, `helios.c:515`). The model has it
  (`Overruns`), the run reaches it, and `NothingIsLost` says that a buffer is
  full after a byte in this case only. `reset` leaves the buffer's mode as it
  was, clears the mode bits of the status while the switch of the window stays
  where it is, and wakes the processor, as `nut_reset` does (`proc_nut.c:2126`).
  The bytes 0x80-0x9f and 0xc0-0xcf change the mode of the line and not the
  status (`LineMode`).
- `pick_reset` runs at wake and restore, too, and drops what is in the ring and
  in the line; a read of the empty ring returns an old entry. `PickKeepsOrder`
  speaks of keys and characters since then.

## 4. Bounds

- `gui_channel`: the third block exists so that the free list can run empty and
  the heap be used while the GUI thread holds a block; with two contents a
  message that is overwritten differs from the one that was sent. The heap
  bounds the model: when it is used up the simulator thread waits for a
  recycled block, which only happens with every block queued or held.
- `sim_thread`: `MaxBurst` 2 separates "the last instruction of a burst" from
  the others; `MaxTime` 3 exceeds it, so that the cap of a burst is reached.
  Real time stops at `MaxTime`; the theorems do without that bound's value.
- `jobs`: two words are the fewest between which something can happen. The
  image that is restored has different values in them. The theorems are for any
  number of words.
- `nut_power`: the debounce time (32 cycles in the code) and the refresh time
  (15) are 3: the first cycle, the last one and one between. The proofs are for
  any value, which is what the small ones rest on.
- `accessories`:
  - *card*: 2 cards, one of them protected, of 3 words (34 in the code): a first,
    a middle and a last one. The unprotected card begins blank; it is written.
  - *keys*: 3 buttons reach every branch, with the numbers and keycodes of the
    HP-35, where a button number is another button's keycode.
  - *sound*: 2 entries (4), pulses of at most 2 word times (20), cries of one
    chunk, which the callback mixes whenever it comes: the bender and the goose
    fill the table, find the same entry, and a sound can end during another
    thread's step. The theorems are for cries of any length. It ends when both entries are
    spoilt (`spoilt # Ids`), since nothing is claimed then.
  - *state*: two chips, one of a module, with a register of every accessor; RAM
    at addresses 0, 1 and 3, since what a register does to its neighbour
    matters; a module with and one without RAM; two contents. A calculator that
    has half a file in it is saved, or reads a whole one again, while all files
    of modules are there, or ends; it does not work on (`HalfIsSaved`), which
    would multiply the contents.
  - *phineas*: clocks that overflow after 3 ticks, an update every 2 cycles,
    and one of the two clocks in use, as they do not share a register but the
    status.
  - *pick*: a ring of 2 keys, 2 columns, `MAX_USES` 4 keys and characters since a
    reset: both are filled, and used again.
  - *helios*: a buffer of 3 bytes, lines of 9 columns with characters of 2, so
    that a line takes part of a run of blanks, and two of three double-wide
    ones; `MAX_BYTES` 4, which is enough to overrun the buffer.
  - *display*: 6 digits for the HP-41C (12), which is the longest access, and
    `MAX_LCD_OPS` 3 of them; blinking divides by 2 (150).
- `nut_pages`:
  - *pages*: 4 pages, 3 banks, two ports of two pages, and the hidden bank. The
    two files have two banks, a bank group, RAM under ROM and a page that
    conflicts. One word tells pages apart; where the words of a page are written
    one by one the order does not matter to the properties.
  - *flow*: 4 words in pages of 2, a stack of 2, every kind of word: all
    arithmetic, all rows of the other instructions, jumps over all distances;
    the HP-41's jumps are in the listing, in blocks of one word (`JumpBlock`,
    1024), and the uninitialised byte has both values.
  - *arithmetic*: registers of 3 digits (14) with an exponent of 1, which keeps
    all the fields apart; decimal digits 0 and 1 with 2 as the digit past them,
    and hexadecimal ones of base 3; every operation, every field, and every content
    of the registers that matter: all for decimal machines, two for the others.
- `processors`:
  - *woodstock*: 2 words to a page, 2 pages to a ROM, 2 ROMs keep apart the
    three kinds of address arithmetic (page, ROM, whole memory), stack of 2. All
    32 arithmetic operations and all rows of the miscellaneous table occur.
  - *act*, *classic*, *nut*: 4 digits, with the keycode of the Nut in C at digit
    2 (`KEY_DIGIT`, 3 in the code); each session has the words that act on
    the same registers, and the state files with which the interesting contents
    (signs, points, blanks) come in. Each instruction is in a session.

## 5. Fairness

- Threads: the simulator thread and a GUI thread that waits for a reply are
  scheduled (`FairSpec`, `JSpec`); a thread that makes no call need not make
  one. No fairness is assumed of instructions against commands: that commands
  are answered follows from the order of `sim_thread_func`.
- `ChSpec`: the main loop runs (weak fairness of its steps, not of user input);
  a send that was begun is ended.
- `NSpec`: machine cycles go on: `nut_execute_cycle` is called in every burst,
  asleep or not. Keys, resets and restores are never fair.
- `MCSpec` of `MCAccessories`: the card reader's instructions and the main loop's
  handling of its messages (`TransferEnds`); the timer chip's cycles
  (`ServiceWakes`), by the same call; the Voyager's cycles and its time
  (`DisplaysFollow`). The user need not insert cards, nor the program stop
  selecting chips.
- Everything else claims safety only, and assumes no fairness.

## 6. What is proved

All proofs are from the named assumptions on the constants in the modules, and
what is said here.

- `ThreadProofs`, the message path, for any number of blocks and messages: the types,
  `OnePlace`, `DispatchNeverBlocks` and `NoLostWakeup`. The inductive invariant
  adds `HoldsBlock`: a thread that is inside a send or a dispatch holds a block.
  Without it a push or a recycling could put the mark for "no block" on a
  queue. `ImplementsFifoSafe`: every step of the channel is, through the
  refinement mapping, a step or a stutter of `Fifo`.
- `SimThreadProofs`, for any calls, memories, burst limit and time bound:
  the types, `OneOutstanding`, `NoCatchUp`, `ExecutesOnlyWhenAllowed`, and that
  every step of `Spec` is a step or a stutter of `SimService` (`SSafe`). The
  inductive invariant has four parts: the clock is not behind the times read
  from it (`ClockInv`); the message under way is nowhere, on the command queue,
  or on the reply queue (`CallInv`); past the pop the flags are those that made
  it time out, since nothing else is handled meanwhile (`FlagInv`); the running
  time not yet made use of covers the time since the last burst or what the
  burst has left (`CreditInv`).
- `SimThreadProofs`, the state file: `FileRestored`, for any chips, registers,
  memory and modules, whatever the calculator was before, half of another file
  included. The assumptions (`StateFileAssumption`) are those of the chip
  definitions and of `state_write`: finitely many modules, none named like the
  memory, and memory that is written in ascending order of addresses, without
  which `write_ram`, which goes one digit too far, would undo what is already
  restored. `Leads` says that a reader in a state ends in another after a
  sequence of elements; reading a file is reading its parts one after the other
  (`ConcatLeads`, `FlattenLeads`, by induction over the number of parts, which
  `FlattenSeq`, a recursive function, allows), and a module that is missing with
  its memory ends the program (`FatalLeads`). What is written of a number is
  what is read of it (`RoundTrip`, `RegisterReturns`, `RamRead`, `RomRead`);
  what is restored is left alone by the parts that follow, and a chip whose
  modules are all plugged in has its registers (`ModulesSoFar`, `OneModule`). So
  `FileRead`: a whole file leads to the saved calculator or to the end of the
  program. The invariant (`SFInv`) is that what is left of a whole file does,
  from the calculator as it is (`Promised`).
- `ThreadProofs`, the jobs, for any number of words and values:
  - `PauseIsReleased`, for any jobs of the two threads. A script that pauses
    ends with the call that takes the pause back (`Scripts`), a message on a
    queue is its thread's next step and its only one (`Own`, `Only`), and so a
    thread owes that call until it has been answered (`Owed`).
  - `StateFilesAreSnapshots`, if the command line has only go, halt and step, as
    in the code. How far the GUI thread's script has come, with the step that is
    performed and not yet answered counted in (`Performed`), fixes the pause,
    the words in the buffer and those of the processor (`Paused`, `Saved`,
    `Restored`).
  - `ResetIsUndisturbed`: what is left of a reset's script tells whether the
    simulator is running (`Resetting`).
- `NutProofs`:
  - for any keys, debounce and refresh times: the types, the scanner's
    consistency, `WakesLikeItSlept`, `NoKeyIsSleptOver`, `DeepSleepEndsWithON`
    and `ReadOnce`. The invariant ties the processor's copy of the display flag
    to the display's own, and is preserved by a restore; `NoKeyIsSleptOver` is
    proved on top of it, since it is not. That of `ReadOnce` (`OnceInv`) follows
    the phase of the firmware.
  - `DataIsKept`, for registers of any length, any memory, peripherals and
    sessions, from the types of the registers (`NutDataInv`): digits of four
    bits, pointers on a digit. The sessions are assumed to set the pointer to a
    digit only (`NutSessionsAssumption`): it says something of registers shorter
    than the code's 14 digits, and nothing of those, since `nut_tmap` stays
    below 14. The argument goes pair by pair: a status byte is the sum of its
    bits (`BitsComeBack`), two rotations that add up to whole turns are none
    (`OnceAround`), a select stays in its block (`SelectKeepsBlock`).
  - `NutTextShowsTheFlow`, for any program, addresses and blocks, whatever the
    byte is that the code leaves uninitialised, with and without the HP-41's
    jumps. The invariant `NutFlowInv` ties what the disassembler carries from one
    word to the next to the phase that the processor is in, unless the listing
    is past a third word that the processor executes.
- `ProcessorProofs`, the Woodstock's ACT and the Classic:
  - `TextShowsTheFlow` and `RestoreResumes` of the Woodstock, for any program
    and page size, from one invariant (`WInv`): where a listing begins an
    instruction, and what of an instruction a state file keeps.
  - `RestoredGoOn`, for registers of any length, any memory and any program. Two
    processors that have the same in every register of a file (`SameKept`,
    `ActSame`; for the ACT also the keys and the lines of its scanner) have it
    after each part of an instruction, and so after the whole. The only
    invariants needed are that a processor keeps its fields and that a key is
    held or not; so nothing that happened to the two before matters.
  - `FramesShowTheRegisters`, for registers and rows of any length. The invariant
    (`ScanInv`, `ActScan`): as long as A, B and the switch of the display are as
    they were when the scan began, the positions that it has drawn are those of
    the frame. For the Classic these are as many as the digits have characters,
    which is a sequence that grows digit by digit (`CharsAre`). For the ACT the
    position follows from the digit (`ContinuedScan`: an instruction leaves the
    scan alone or begins it anew), but the sign of the mantissa is drawn into
    position 0 when the scan comes to the sign of the exponent (`SignsAt`), and
    the frame counts on it only from then on. That digits are digits, which the
    segments of a sign need, is proved through the whole arithmetic
    (`ExecuteTyped`).
  - Both assume of the state files in a session that they have the fields that
    the code writes (`ClassicFileAssumption`, `ActFileAssumption`), and of the
    ACT that its digits have four bits and a P that is set is a number
    (`ActAssumption`).
- `ArithmeticProofs`, for registers of any length, every field of them and every
  base: `DoesWhatItSays`. The loops over digits are recursive functions; what
  they compute, carries and borrows included, is proved by induction over the
  digits, from the well-founded order of the natural numbers (`IntegerLemmas`),
  as a value of the number in the field. Then the tables of the three families
  are gone through instruction by instruction (`NutDoes`, `ClassicDoes`,
  `WoodstockDoes`). The proof showed that the model of the two shifts had
  guards that overlapped at the end of the field, where TLC took the first:
  they are now the `if` of the code.
- `AccessoryProofs`, what is around the processors:
  - The keyboard window, for any keyboard: `NoRolloverError` and `NoStuckKey`.
    The invariant adds what the calls that a handler still has to make lead to
    (`CallsEndSettled`): to the key that the processor is to know as down, if
    any.
  - The sounds, for tables, sounds and delays of any size, with the goose and
    resets at any time: `TheToneIsTheBenders`, `MixesWhatItLookedAt`,
    `NoToneWithoutPulses`, of the entries that are not `spoilt`. The invariant
    (`SInv`): of those, an entry that runs is whole (`Entries`), a thread fills
    only one that does not run (`Filling`) and that the other one has not
    (`Exclusive`), and `Tone` and `Pulses` say where the tone's entry is while
    the simulator's thread replaces it.
  - The card reader, for any cards and any length of a card:
    `CardIsHandedOver`, `ReadsTheCard` and `FilesAreWhole`. The invariant adds
    the firmware's protocol (`Protocol`: flags, head position and the words
    passed in each phase) and what was written so far (`WrittenSoFar`).
  - The timer chip, for clocks of any size: `PassingsAreKept`, the safety that
    `ServiceWakes` rests on. What has passed and was not cleared since is in
    the status word (`PhInv`).
  - The printer chip, for a ring and a line of any size: `PickKeepsOrder`. The
    invariant says where in the ring the tail is, and that the printer is away
    as long as there is a line; a row of characters is an induction over them.
  - The printer HP 82143A, for a buffer and a paper of any size and the bytes of
    `HeliosBytesAssumption`: `NothingIsLost`. The invariant (`HeliosInv`): what
    was sent is what the lines show, followed by what waits in the buffer, and
    the status says whether any does. `helios_eol` goes over the buffer in
    rounds (`FillOne`), each of which takes a byte from the buffer or a column
    from the line; `LineIsFilled` proves, by induction over the rounds, that none
    loses anything and that after `Rounds` of them another one changes nothing,
    so that the model's bound on the loop is none. That a buffer stays full only
    behind a run of blanks is proved with it.
- `PlugInProofs`, for any files within `PlugInFileAssumption`, and any banks,
  ports, words and size of a page: `MemoryIsWhole`. The inductive invariant
  (`MInv`) has three layers.
  - What always holds (`Always`): the types, what the load is about
    (`LoadIs`), where the HEPAX can be and be moving to (`ChipPlaces`), that a
    deep sleep is a sleep, that each page created is in one slot (`Fits`) and
    which ones are created (`CreatedIs`). Moves, restores and bank switches
    permute the slots (`Moves`), and a permutation keeps `Fits`.
  - As long as no load was upset: a page whose commands have all been handled is
    as its file has it (`PagesAreGood`), and the page under way stays in its
    slot until they have (`LoadStays`).
  - As long as neither a load nor a restore was upset: the pages of a module are
    at its port (`InPlace`), the HEPAX ROM at its register's page (`RomIsThere`),
    the ROM's home is free while it is away (`HomeIsFree`), and a page is hidden
    only under the ROM or where it is moving to (`RamIsHidden`). It is this layer
    that shows that a HEPAX that goes home finds its place.

Only model-checked: liveness (`TransferEnds`, `ServiceWakes`, `DisplaysFollow`,
`HeldKeyIsRead`, `JobsEnd` and the liveness of the two refinements), which is
beyond the prover, and with it the safety part of `DisplaysFollow` (that a
character read from the HP-41C's display and written back leaves it as it was),
which would need an induction over the display's shifts. And
`BanksStayInModule`, which the code does not promise for all files and loads: it
fails with two modules that have bank 0 and bank 1 of one page of the system,
with RAM that is loaded under the ROM of the HEPAX and puts the page of the ROM
into its own group, and with a module loaded into a port that holds half of
another one. The loader checks none of these; the two files of `nut_pages`, in
all orders of loads and moves, are what the run says it for. Every other
property of the passing runs is stated by a theorem.

## 7. What is not modelled

- Drawing, GTK widgets, file dialogs, the parsing of KML, XML and assembler
  text, conversions between file formats (`modutil.c`), the start-up tables
  (`calcdef.c`, `chip.c`), the build tools: sequential code without a state that
  others share. The debugger's windows beyond run, stop and step only read.
- The assemblers, but for what the mnemonics of arithmetic mean: two passes over
  a text, checked by assembling the firmware.
- The TMC1500 processor (`proc_tmc1500.c`): `SConstruct` does not build it, and
  it does not fit the present interface of a processor, so that what it would do
  in it cannot be said.
- The parsing of object and listing files by the processors, slide switches, the
  table of scan codes, the character generators, the samples of the sounds, the
  scratch registers and the accuracy factor of the timer chip: values that are
  stored or looked up.
- `NUT_BUGS`, which no build defines; `sim_remove_module`, which has no caller.
- The firmware is data; where its protocol matters (card routines, keyboard) it
  is an external part of a module.

Registers and their contents are left out of `Woodstock` and `NutFlow`, and are
single values in `NutPower`; the data modules have them, without the flow. What
falls between the two is an instruction whose flow depends on a value that
another one computes, which the flow modules cover by taking any value.

## 8. How to go on

What would be worth most, in this order: the Nut's and the ACT's data composed
with their flow in one module; the two passes of the assemblers (local labels,
conditional assembly); the table of calculator definitions, whose errors are
found at start only.
