--------------------------- MODULE MCAccessories ---------------------------
(* What is around the processors: the card reader, the sounds, the state   *)
(* file, the timer chip, the two printers, the displays of the Nut         *)
(* machines and the rollover of the keys.  They share nothing here, so     *)
(* that one of them at a time is checked, the others resting.              *)
EXTENDS CardReader, Sound, StateFile, Phineas, Pick, Helios, Displays, MCRollover

VARIABLE part

Card == <<cvars>>
Rest == <<svars, sfvars, phvars, pkvars, hevars, dsvars, rvars>>

MCInit ==
  /\ part \in {"card", "sound", "state", "phineas", "pick", "helios", "display", "keys"}
  /\ CInit /\ SInit /\ SFInit /\ PhineasInit /\ PickInit /\ HeliosInit /\ DisplaysInit /\ RInit
  /\ \A c \in Cards, i \in Words :                     \* the unprotected card is a blank one
       c \notin Protected \/ part # "card" => file[c].word[i] = BlankWord
  /\ part # "sound" => enable
  /\ part # "display" => lcd_chip = "voyager"
  /\ part # "helios" => helios_get_mode(helios) = {}

CardStep(A) == part = "card" /\ A /\ UNCHANGED <<part, Rest>>
PhineasStep(A) ==
  /\ part = "phineas" /\ A
  /\ UNCHANGED <<part, Card, svars, sfvars, pkvars, hevars, dsvars, rvars>>
DisplaysStep(A) ==
  /\ part = "display" /\ A
  /\ UNCHANGED <<part, Card, svars, sfvars, phvars, pkvars, hevars, rvars>>

(* Bound: a calculator that has half a file in it ends or is saved, and    *)
(* read again while all MOD1 files are there.                              *)
Half(c) == c \notin {NoProcess} \cup {Filled(v, plugged) : v \in 0..(CONTENTS - 1), plugged \in SUBSET Modules}
HalfIsSaved ==
  pos = 0 /\ (Half(calc) \/ Half(saved)) => End \/ (gone = {} /\ (Save \/ (complete /\ Begin)))

MCNext ==
  \/ CardStep(CNext) \/ PhineasStep(PhineasNext) \/ DisplaysStep(DisplaysNext)
  \/ /\ part = "sound" /\ spoilt # Ids /\ SNext         \* nothing is claimed of spoilt entries
     /\ UNCHANGED <<part, Card, sfvars, phvars, pkvars, hevars, dsvars, rvars>>
  \/ /\ part = "state" /\ SFNext /\ HalfIsSaved
     /\ UNCHANGED <<part, Card, svars, phvars, pkvars, hevars, dsvars, rvars>>
  \/ /\ part = "pick" /\ PickNext
     /\ UNCHANGED <<part, Card, svars, sfvars, phvars, hevars, dsvars, rvars>>
  \/ /\ part = "helios" /\ HeliosNext
     /\ UNCHANGED <<part, Card, svars, sfvars, phvars, pkvars, dsvars, rvars>>
  \/ /\ part = "keys" /\ RNext
     /\ UNCHANGED <<part, Card, svars, sfvars, phvars, pkvars, hevars, dsvars>>

(* The fairness of the components that have a liveness property.           *)
MCSpec ==
  /\ MCInit /\ [][MCNext]_<<part, Card, Rest>>
  /\ WF_cvars(CardStep(Instruction)) /\ WF_cvars(CardStep(gui_card_reader_update))
  /\ WF_phvars(PhineasStep(EventCycle))
  /\ WF_dsvars(DisplaysStep(VoyagerTime))

-----------------------------------------------------------------------------
MCChips == <<"cpu", "timer">>
Register(name, kind, n, c) == [name |-> name, kind |-> kind, n |-> n, count |-> c]
MCRegisters ==
  [cpu   |-> <<Register("a", "digits", 2, 1), Register("s", "bools", 2, 1), Register("stack", "int", 0, 2)>>,
   timer |-> <<Register("clock", "digits", 2, 2)>>]
MCModules == {"time", "memory"}
MCChipOf == [time |-> "timer", memory |-> "none"]
MCHasRam == {"memory"}
MCRamAddresses == <<0, 1, 3>>

MCBytes == {Data, BlankRun("blank", 3), BlankRun("column", 2), Mode({}), Mode({"DOUBLE_WIDE"}),
            LineMode({"DOUBLE_WIDE"}), Eol(FALSE), Eol(TRUE), IgnoreAdv(TRUE)}
MCLcdWords == {<<1, 2, 3, 4, 5, 6>>, <<3, 3, 0, 1, 2, 2>>}
=============================================================================
