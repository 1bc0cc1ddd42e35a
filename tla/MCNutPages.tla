----------------------------- MODULE MCNutPages -----------------------------
(* The program memory of the HP-41 with its modules; the flow of control   *)
(* of the Nut, with its disassembler; and the arithmetic that it shares    *)
(* with the other processors.  One of them at a time is checked.           *)
(*                                                                         *)
(* Two files: a HEPAX with two banks of ROM, in one group, and a page of   *)
(* RAM under it; and a module with a page of ROM and a second bank in the  *)
(* upper page.                                                             *)
EXTENDS PlugIns, NutFlow, Arithmetic

VARIABLE part

Page(at, bank, group, ram, valid) ==
  [at |-> at, bank |-> bank, group |-> group, ram |-> ram, protect |-> FALSE, valid |-> valid]

MCFile ==
  [hepaxmod |-> [hardware |-> "hepax",
                 page |-> <<Page(8, 0, 1, FALSE, TRUE), Page(POSITION_EVEN, 1, 1, FALSE, TRUE),
                            Page(POSITION_EVEN, 0, 0, TRUE, TRUE)>>],
   advantage |-> [hardware |-> "none",
                 page |-> <<Page(POSITION_ANY, 0, 1, FALSE, TRUE), Page(POSITION_ODD, 1, 1, FALSE, TRUE)>>]]

MCModules == DOMAIN MCFile

-----------------------------------------------------------------------------
(* Of the jumps those that can be told apart in 4 words of ROM, with two   *)
(* that take a third word, all of the arithmetic, every row of the others. *)
MCNutWords ==
  {3 + 4 * c + 8 * o + (IF o > 31 THEN 512 ELSE 0) : c \in {0, 1}, o \in {0, 2, 3, 63}}
  \cup {1 + 4 * x : x \in 0..3 \cup {\hd9, \hdb}}
  \cup {2 + 32 * op : op \in 0..31}
  \cup {4 * row + 64 * col : row \in 0..15, col \in {0, 3, 15}}
  \cup {\h120, \h160, \h060, \h1e0, \h360, \h3a0, \h3e0, \h130, \h170, \h1b0, \h230, \h330, \h3d4, \h3dc}
MCNutSeconds == {0, 1, 2, 3, 4, \h3c, \h3d, \h8c}

-----------------------------------------------------------------------------
(* The decimal machines use all registers, and the hexadecimal ones two.   *)
Machine(a, d, u) == [arch |-> a, decimal |-> d, uses |-> u]
MCMachines ==
  {Machine(a, TRUE, Regs) : a \in {"nut", "classic", "woodstock"}}
  \cup {Machine("nut", FALSE, {"a", "c"}), Machine("woodstock", FALSE, {"a", "b"})}

-----------------------------------------------------------------------------
NoMachine == Machine("none", TRUE, {})

MCInit ==
  /\ MInit /\ NutFlowInit
  /\ \/ part = "arithmetic" /\ AInit
     \/ part \in {"pages", "flow"} /\ machine = NoMachine /\ r = [x \in Regs |-> NULL]

PagesStep == part = "pages" /\ MNext /\ UNCHANGED <<part, nfvars, avars>>
FlowStep == part = "flow" /\ NutFlowNext /\ UNCHANGED <<part, mvars, avars>>
ArithmeticStep == part = "arithmetic" /\ ANext /\ UNCHANGED <<part, mvars, nfvars>>

MCNext == PagesStep \/ FlowStep \/ ArithmeticStep
MCSpec == MCInit /\ [][MCNext]_<<part, mvars, nfvars, avars>>

=============================================================================
