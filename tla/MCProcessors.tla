---------------------------- MODULE MCProcessors ----------------------------
(* The instructions of the Woodstock (their flow, and their data), of the  *)
(* Classic, and of the Nut (their data).  One of these at a time is        *)
(* checked, the others rest.                                               *)
(*                                                                         *)
(* The Woodstock's ROM has 8 words: 2 pages of 2 words to a ROM, 2 ROMs.   *)
(* The jumps and calls to both words of a page; every arithmetic           *)
(* operation; every miscellaneous one, selections of pages in both halves  *)
(* included.                                                               *)
EXTENDS Woodstock, ActData, Classic, NutData

VARIABLE part

MCWords ==
  {1, 5, 3, 7}
  \cup {32 * op + \o16 : op \in 0..31}
  \cup {64 * arg + 4 * row : arg \in {0, 1, 3}, row \in 0..15}
  \cup {\o220, \o1020, \o1060, \o1460}

MCTargets == {0, 3}

-----------------------------------------------------------------------------
(* The Classic's sessions: the display with files that have decimal points *)
(* and signs; selections; status bits, keys and flags; the registers; the  *)
(* pointer.                                                                *)
Word(s) == [i \in Digits |-> s[WSIZE - i]]
FileOf(a, b, c) ==
  ToFile([FreshClassic EXCEPT !.reg["a"] = Word(a), !.reg["b"] = Word(b), !.reg["c"] = Word(c), !.display_enable = TRUE])
Zero == <<0, 0, 0, 0>>

MCSessions ==
  { [words |-> {\h028, \h228, \h000}, keys |-> {}, flags |-> {},
     files |-> {FileOf(<<9, 1, 9, 5>>, <<0, 2, 0, 0>>, Zero), FileOf(<<0, 7, 0, 3>>, <<2, 0, 9, 2>>, Zero),
                FileOf(<<9, 1, 2, 3>>, <<2, 2, 2, 2>>, Zero)}],
    [words |-> {\h001, \h007, \h010, \h090, \h074, \h0f4, \h234, \h2b4}, keys |-> {}, flags |-> {}, files |-> {}],
    [words |-> {\h001, \h007, \h030, \h0d0, \h004, \h014, \h024, \h034}, keys |-> {1}, flags |-> {3}, files |-> {}],
    [words |-> {\h270, \h2f0, \h2f8, \h0a8, \h128, \h1a8, \h2a8, \h328, \h3a8},
     keys |-> {}, flags |-> {}, files |-> {FileOf(Zero, Zero, <<0, 1, 0, 0>>)}],
    [words |-> {\h01c, \h03c, \h00c, \h02c, \h058, \h007}, keys |-> {}, flags |-> {}, files |-> {}] }

-----------------------------------------------------------------------------
(* The Nut's programs *)
MCKeyCode == <<1, 8>>
Uses(words, seconds, copies, clears) == [words |-> words, seconds |-> seconds, copies |-> copies, clears |-> clears]

MCNutSessions ==
  { \* pointers, G and the rotation
    Uses({\h3d4, \h3dc, \h01c, \h014, \h120, \h0a0, \h0e0, \h010, \h050, \h098, \h0d8, \h03c}, {}, FALSE, FALSE),
    Uses({\h058, \h098, \h0d8, \h3d4, \h130}, {18}, FALSE, FALSE),
    \* status bits and F
    Uses({\h004, \h008, \h00c, \h3c4, \h358, \h398, \h3d8, \h258, \h298, \h2d8, \h130, \h220}, {26}, FALSE, FALSE),
    \* M, N, and A
    Uses({\h158, \h198, \h1d8, \h070, \h0b0, \h0f0, \h370, \h3b0, \h1a0, \h130}, {3, 6}, TRUE, FALSE),
    \* the bus
    Uses({\h270, \h3f0, \h2f0, \h028, \h068, \h038, \h078, \h130}, {0, 1, 16, 33}, FALSE, TRUE) }

-----------------------------------------------------------------------------
(* The ACT's programs: the display of the three kinds, with registers that *)
(* have points and signs; the pointer, also where labels are searched; the *)
(* registers; the RAM; status bits, keys and flags; keys wired as flags.   *)
MCPSetMap == <<4, 4, 7, 8, 11, 2, 10, 12, 1, 3, 13, 6, 0, 9, 5, 4>>     \* 4 for 14, past the register
MCPTestMap == <<4, 8, 12, 2, 9, 1, 6, 3, 1, 13, 5, 0, 11, 10, 7, 4>>

ActProgram(words) ==
  [words |-> words, keys |-> {}, flags |-> {}, lines |-> {}, pulses |-> {}, files |-> {}, platform |-> "woodstock",
   key_scanner_as_flags |-> FALSE, label_search |-> FALSE]

ActFile(a, b, twf) ==
  [reg |-> [x \in ActRegs |-> CASE x = "a" -> Word(a) [] x = "b" -> Word(b) [] OTHER -> NULL],
   p |-> 0, f |-> 0, decimal |-> TRUE, carry |-> FALSE, s |-> {}, ext_flag |-> {}, display_enable |-> TRUE,
   display_14_digit |-> twf, ram_addr |-> 0, ram |-> [x \in ActRam |-> NULL]]

ActFiles ==
  {ActFile(<<9, 1, 9, 5>>, <<2, 1, 2, 0>>, FALSE), ActFile(<<2, 8, 6, 3>>, <<0, 4, 0, 1>>, TRUE),
   ActFile(<<9, 8, 1, 3>>, <<6, 2, 0, 2>>, TRUE), ActFile(<<9, 9, 1, 3>>, <<6, 6, 3, 2>>, FALSE)}

(* registers that differ, for the words that move them *)
ActValues(value) ==
  [ActFile(Zero, Zero, FALSE) EXCEPT !.reg = [x \in DOMAIN value |-> [NULL EXCEPT ![0] = value[x]]] @@ @]

(* The Spice shows one digit of the four here: its scan is always at the   *)
(* same position, which keeps the other programs small.                    *)
SpiceProgram(words) == [ActProgram(words) EXCEPT !.platform = "spice"]

MCActSessions ==
  { [ActProgram({\o210, \o320, 0}) EXCEPT !.files = ActFiles, !.platform = platform] :
      platform \in {"woodstock", "clyde", "spice"} }
  \cup
  { [SpiceProgram({\o720, \o620, \o74, \o1474, \o44, \o1344, \o1354, \o230, \o406}) EXCEPT !.label_search = search] :
      search \in BOOLEAN }
  \cup
  { [SpiceProgram({\o1310, \o1110, \o1010, \o1210, \o410, \o510, \o610, \o710, \o10, \o310}) EXCEPT
       !.files = {ActValues([c |-> 1, y |-> 2])}],
    [SpiceProgram({\o1610, \o1710, \o520, \o742, \o420, \o1410}) EXCEPT !.files = {ActValues([a |-> 1])}],
    [SpiceProgram({\o1160, \o1360, \o70, \o150, \o170, \o1260, \o120, \o1714}) EXCEPT
       !.keys = {18}, !.files = {ActValues([c |-> 1])}],
    [ActProgram({\o4, \o14, \o34, \o124, \o110}) EXCEPT
       !.flags = {"F1_COND_S0", "F2"}, !.pulses = {"F1_PULSE", "F2_PULSE"}],
    [SpiceProgram({\o4, \o14, \o1714, \o120}) EXCEPT !.lines = {"KB", "KC"}, !.key_scanner_as_flags = TRUE] }

-----------------------------------------------------------------------------
(* Of the processors that rest no word is executed.                        *)
Rests == [words |-> {}, keys |-> {}, flags |-> {}, files |-> {}, seconds |-> {}, copies |-> FALSE, clears |-> FALSE,
          then_goto |-> FALSE]

MCInit ==
  /\ part \in {"woodstock", "act", "classic", "nut"}
  /\ WInit /\ (part # "woodstock" => listing = FreshListing(FALSE))
  /\ IF part = "act" THEN ActInit ELSE setup = Rests /\ ad = Rests /\ act_segments = {} /\ act_steady = TRUE
  /\ IF part = "classic" THEN ClassicInit ELSE session = Rests /\ cl = Rests /\ segments = {} /\ steady = TRUE
  /\ IF part = "nut" THEN NutDataInit ELSE program = Rests /\ nd = Rests

WoodstockStep == part = "woodstock" /\ WNext /\ UNCHANGED <<part, advars, clvars, ndvars>>
ActStep == part = "act" /\ ActNext /\ UNCHANGED <<part, wvars, clvars, ndvars>>
ClassicStep == part = "classic" /\ ClassicNext /\ UNCHANGED <<part, wvars, advars, ndvars>>
NutStep == part = "nut" /\ NutDataNext /\ UNCHANGED <<part, wvars, advars, clvars>>

MCNext == WoodstockStep \/ ActStep \/ ClassicStep \/ NutStep
MCSpec == MCInit /\ [][MCNext]_<<part, wvars, advars, clvars, ndvars>>

-----------------------------------------------------------------------------
(* A Classic, or a Woodstock's ACT, goes on from a state file as the one   *)
(* that wrote it would.                                                    *)
RestoredGoOn == (part = "classic" => RestoredGoesOn) /\ (part = "act" => ActGoesOn)

(* The frames that the two send to the GUI are those of their registers.   *)
FramesShowTheRegisters == FrameShowsTheRegisters /\ ActFrameShowsTheRegisters
=============================================================================
