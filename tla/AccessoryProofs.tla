--------------------------- MODULE AccessoryProofs ---------------------------
(***************************************************************************)
(* What is around the processors, for every size of it.                    *)
(*                                                                         *)
(* The card reader: the hand-over of a card between the window and the     *)
(* chip, and what the firmware reads from it and writes to it, for any set *)
(* of card files, any contents and any length of a card.                   *)
(*                                                                         *)
(* The keyboard window: its rollover never meets its fatal error and never *)
(* leaves a key stuck in the processor, for every set of buttons and every *)
(* assignment of keycodes, unique or not.                                  *)
(*                                                                         *)
(* The sounds: the tone of the bender and the table of sounds, for a table *)
(* of any size, any width of the pulses, any length of the cry and every   *)
(* interleaving of the three threads; what is not claimed is of the        *)
(* entries that both searching threads got at once, and of a tone that a   *)
(* reset forgot (spoilt; MCSound shows what happens then).                 *)
(*                                                                         *)
(* The timer chip: what passes stays recorded, for clocks of any size and  *)
(* whatever the program writes.                                            *)
(*                                                                         *)
(* The printer chip: keys and characters keep their order, for a ring and  *)
(* a line of any size.                                                     *)
(*                                                                         *)
(* The printer HP 82143A: what the program writes is printed, for a buffer *)
(* and a paper of any size.                                                *)
(***************************************************************************)
EXTENDS CardReader, Rollover, Sound, Phineas, Pick, Helios, FiniteSetTheorems, SequenceTheorems, IntegerLemmas,
        TLAPS

-----------------------------------------------------------------------------
(* The phases in which the motor runs *)
Running == {"reading", "read", "written", "write", "wait_no_card", "motor_off"}

ReadSoFar == payload = [w \in 1..passed |-> image.word[w]]

(* Where the card is in each phase of the firmware: at its start until the *)
(* motor runs, under the head at the word that the firmware expects, and   *)
(* out of the chip after the last one.  A card that a reset left in the    *)
(* chip has no CARD_INSERTED any more.                                     *)
Protocol ==
  /\ flag["MOTOR_ENABLE"] <=> phase \in Running
  /\ card_side = NoCard => head = 0
  /\ flag["CARD_INSERTED"] => card_side # NoCard /\ (phase \notin Running => head = 0)
  /\ phase \in {"clear_mode", "write_mode", "motor"} => card_side # NoCard /\ head = 0
  /\ phase \in {"reading", "read", "write"} => card_side # NoCard /\ passed < CRC_MAX_WORD
  /\ phase \in {"reading", "read"} => ~flag["WRITE_MODE"] /\ ReadSoFar
  /\ phase \in {"write", "written"} => flag["WRITE_MODE"]
  /\ phase = "written" => (passed = CRC_MAX_WORD <=> card_side = NoCard)
  /\ phase \in Running /\ card_side # NoCard => head = passed
  /\ phase \in {"wait_no_card", "motor_off"} => card_side = NoCard
  /\ phase = "wait_no_card" /\ ~flag["WRITE_MODE"] => ReadSoFar

(* What has been written to the image: nothing before a write, then the    *)
(* words of one pass up to the head, and all of them when it comes back.   *)
Whole(words) == \E v \in Contents : words = [w \in Words |-> v]
Pass(v) == payload = [w \in Words |-> v] /\ \A w \in 1..passed : image.word[w] = v
Writing == {"written", "write"}
Before == {"clear_mode", "write_mode", "motor", "reading", "read"}
WrittenSoFar ==
  /\ (flag["CARD_INSERTED"] /\ phase \notin Writing) \/ phase \in Before => ~image.dirty
  /\ phase \in Writing => \E v \in Contents : Pass(v)
  /\ gui_q # <<>> /\ image.dirty => Whole(image.word)

CInv == CTypeOK /\ OneOwner /\ NoOtherFatal /\ Protocol /\ WrittenSoFar

Images == [word : [Words -> Contents], protect : BOOLEAN, dirty : BOOLEAN]

-----------------------------------------------------------------------------
LEMMA OneMessage ==
  ASSUME NEW c
  PROVE  Append(<<>>, c) = <<c>> /\ Head(<<c>>) = c /\ Tail(<<c>>) = <<>> /\ <<c>> # <<>>
OBVIOUS

LEMMA Messages == <<>> \in Seq(Cards) /\ \A c \in Cards : <<c>> \in Seq(Cards)
OBVIOUS

LEMMA NothingInTheQueue ==
  ASSUME CTypeOK, OneOwner, side = NoCard \/ card_side # NoCard
  PROVE  gui_q = <<>>
<1> SUFFICES ASSUME gui_q # <<>>, side = NoCard PROVE FALSE
  BY DEF OneOwner
<1>1. gui_q = <<NoCard>> /\ gui_q \in Seq(Cards)
  BY DEF OneOwner, CTypeOK
<1>2. gui_q[1] \in Cards
  BY <1>1
<1> QED BY <1>1, <1>2, CardAssumption

LEMMA NewCardType == NewCard \in Images
BY CardAssumption DEF NewCard, Images

(* crc_update_flags: the card leaves the chip when its last word has       *)
(* passed, and nothing else moves it.                                      *)
LEMMA FlagsUpdated ==
  ASSUME NEW c \in Cards \cup {NoCard}, NEW h \in 0..CRC_MAX_WORD, NEW f \in [Flags -> BOOLEAN],
         c # NoCard => gui_q = <<>>, crc_update_flags(c, h, f)
  PROVE  /\ flag' \in [Flags -> BOOLEAN]
         /\ flag'["MOTOR_ENABLE"] = f["MOTOR_ENABLE"] /\ flag'["WRITE_MODE"] = f["WRITE_MODE"]
         /\ IF c # NoCard /\ h = CRC_MAX_WORD
            THEN gui_q' = <<c>> /\ card_side' = NoCard /\ head' = 0 /\ ~flag'["CARD_INSERTED"]
            ELSE /\ gui_q' = gui_q /\ card_side' = c /\ head' = h
                 /\ flag'["CARD_INSERTED"] = f["CARD_INSERTED"]
<1>1. EndOfCard(h) <=> h = CRC_MAX_WORD
  BY CardAssumption DEF EndOfCard
<1>2. "BUFFER_READY" \in Flags /\ "MOTOR_ENABLE" \in Flags /\ "CARD_INSERTED" \in Flags /\ "WRITE_MODE" \in Flags
  BY DEF Flags
<1>3. CASE c # NoCard /\ h = CRC_MAX_WORD
  <2>1. gui_q' = Append(gui_q, c) /\ card_side' = NoCard /\ head' = 0
    BY <1>1, <1>3 DEF crc_update_flags
  <2>2. flag' = [f EXCEPT !["BUFFER_READY"] = c # NoCard /\ f["MOTOR_ENABLE"],
                          !["CARD_INSERTED"] = IF c # NoCard /\ EndOfCard(h) THEN FALSE ELSE @]
    BY DEF crc_update_flags
  <2>3. flag' \in [Flags -> BOOLEAN] /\ ~flag'["CARD_INSERTED"]
        /\ flag'["MOTOR_ENABLE"] = f["MOTOR_ENABLE"] /\ flag'["WRITE_MODE"] = f["WRITE_MODE"]
    BY <1>1, <1>2, <1>3, <2>2
  <2> QED BY <1>3, <2>1, <2>3, OneMessage
<1>4. CASE ~(c # NoCard /\ h = CRC_MAX_WORD)
  <2>1. gui_q' = gui_q /\ card_side' = c /\ head' = h
    BY <1>1, <1>4 DEF crc_update_flags
  <2>2. flag' = [f EXCEPT !["BUFFER_READY"] = c # NoCard /\ f["MOTOR_ENABLE"],
                          !["CARD_INSERTED"] = f["CARD_INSERTED"]]
    BY <1>1, <1>4 DEF crc_update_flags
  <2>3. (c # NoCard /\ f["MOTOR_ENABLE"]) \in BOOLEAN /\ f["CARD_INSERTED"] \in BOOLEAN
    BY <1>2
  <2> QED BY <1>2, <1>4, <2>1, <2>2, <2>3
<1> QED BY <1>3, <1>4

(* A test or a set of a flag moves no card.                                *)
LEMMA FlagStep ==
  ASSUME CInv, NEW f \in Flags, NEW b \in BOOLEAN,
         crc_update_flags(card_side, head, [flag EXCEPT ![f] = b])
  PROVE  /\ UNCHANGED <<card_side, head, gui_q>> /\ flag' \in [Flags -> BOOLEAN]
         /\ \A g \in Flags \ {"BUFFER_READY"} : flag'[g] = IF g = f THEN b ELSE flag[g]
<1>1. card_side \in Cards \cup {NoCard} /\ head \in 0..CRC_MAX_WORD /\ head # CRC_MAX_WORD
      /\ flag \in [Flags -> BOOLEAN]
  BY CardAssumption DEF CInv, CTypeOK
<1>2. card_side # NoCard => gui_q = <<>>
  BY DEF CInv, OneOwner
<1>3. [flag EXCEPT ![f] = b] \in [Flags -> BOOLEAN]
  BY <1>1
<1> QED BY <1>1, <1>2, <1>3, FlagsUpdated, ZenonT(30) DEF Flags

-----------------------------------------------------------------------------
LEMMA InitCInv == CInit => CInv
<1> SUFFICES ASSUME CInit PROVE CInv
  OBVIOUS
<1>1. file \in [Cards -> [word : [Words -> Contents], protect : BOOLEAN]]
  BY DEF CInit
<1>2. CTypeOK
  <2>1. gui_q \in Seq(Cards) /\ payload \in Seq(Contents)
    BY DEF CInit
  <2>2. flag \in [Flags -> BOOLEAN]
    BY DEF CInit, Off
  <2>3. image \in Images /\ 0 \in 0..(CRC_MAX_WORD - 1) /\ 0 \in 0..CRC_MAX_WORD
    BY NewCardType, CardAssumption DEF CInit
  <2>4. side = NoCard /\ buttons = TRUE /\ card_side = NoCard /\ head = 0 /\ phase = "main" /\ passed = 0
        /\ was_reset = FALSE /\ died = "none"
    BY DEF CInit
  <2>5. side \in Cards \cup {NoCard} /\ card_side \in Cards \cup {NoCard} /\ head \in 0..(CRC_MAX_WORD - 1)
        /\ passed \in 0..CRC_MAX_WORD /\ phase \in Phases
    BY <2>3, <2>4 DEF Phases
  <2>6. buttons \in BOOLEAN /\ was_reset \in BOOLEAN
    BY <2>4
  <2> QED BY <1>1, <2>1, <2>2, <2>3, <2>5, <2>6 DEF CTypeOK, Images
<1>3. ~flag["MOTOR_ENABLE"] /\ ~flag["CARD_INSERTED"]
  BY DEF CInit, Off, Flags
<1>4. OneOwner /\ NoOtherFatal /\ Protocol /\ WrittenSoFar
  BY <1>3 DEF CInit, OneOwner, NoOtherFatal, Protocol, WrittenSoFar, Running, Writing, Before
<1> QED BY <1>2, <1>4 DEF CInv

-----------------------------------------------------------------------------
(* A step that leaves the window, the card in the chip and the messages    *)
(* alone, with the flags and the firmware as given                         *)
LEMMA PhaseStep ==
  ASSUME CInv, UNCHANGED <<window, was_reset, died, card_side, head, gui_q>>,
         flag' \in [Flags -> BOOLEAN], phase' \in Phases, passed' \in 0..CRC_MAX_WORD,
         payload' \in Seq(Contents), Protocol', WrittenSoFar'
  PROVE  CInv'
BY DEF CInv, CTypeOK, OneOwner, NoOtherFatal, window

(* The steps between the motor's runs                                      *)
LEMMA MotorOffSteps ==
  ASSUME CInv, NEW f \in Flags, NEW b \in BOOLEAN,
         crc_update_flags(card_side, head, [flag EXCEPT ![f] = b]), ChipOnly,
         UNCHANGED <<passed, payload>>,
         phase \in {"main", "prompt", "clear_mode", "write_mode"},
         f \in {"CARD_INSERTED", "WRITE_MODE"}, f = "CARD_INSERTED" => ~b,
         phase' \in {"main", "prompt", "clear_mode", "write_mode", "motor"},
         phase' \in {"clear_mode", "write_mode", "motor"} =>
           phase \in {"clear_mode", "write_mode"} \/ (f = "CARD_INSERTED" /\ flag["CARD_INSERTED"])
  PROVE  CInv'
<1>1. /\ UNCHANGED <<card_side, head, gui_q>> /\ flag' \in [Flags -> BOOLEAN]
      /\ \A g \in Flags \ {"BUFFER_READY"} : flag'[g] = IF g = f THEN b ELSE flag[g]
  BY FlagStep
<1>2. /\ flag'["MOTOR_ENABLE"] = flag["MOTOR_ENABLE"]
      /\ flag'["CARD_INSERTED"] => flag["CARD_INSERTED"]
  BY <1>1 DEF Flags
<1>3. Protocol'
  BY <1>1, <1>2 DEF CInv, Protocol, Running, ReadSoFar, ChipOnly, window
<1>4. WrittenSoFar'
  BY <1>1, <1>2 DEF CInv, Protocol, WrittenSoFar, Whole, Running, Writing, Before, ChipOnly, window
<1> QED
  BY <1>1, <1>3, <1>4, PhaseStep DEF CInv, CTypeOK, ChipOnly, Phases

(* The steps while the motor runs that do not move the card                *)
LEMMA MotorOnSteps ==
  ASSUME CInv, NEW f \in Flags, crc_update_flags(card_side, head, [flag EXCEPT ![f] = FALSE]), ChipOnly,
         UNCHANGED <<passed, payload>>, phase \in Running, f \in {"BUFFER_READY", "CARD_INSERTED"},
         \/ phase' = phase
         \/ phase = "reading" /\ phase' = "read"
         \/ phase = "written" /\ phase' = (IF passed = CRC_MAX_WORD THEN "wait_no_card" ELSE "write")
         \/ phase = "wait_no_card" /\ phase' = "motor_off"
  PROVE  CInv'
<1>1. /\ UNCHANGED <<card_side, head, gui_q>> /\ flag' \in [Flags -> BOOLEAN]
      /\ \A g \in Flags \ {"BUFFER_READY"} : flag'[g] = IF g = f THEN FALSE ELSE flag[g]
  BY FlagStep
<1>2. /\ flag'["MOTOR_ENABLE"] = flag["MOTOR_ENABLE"] /\ flag'["WRITE_MODE"] = flag["WRITE_MODE"]
      /\ flag'["CARD_INSERTED"] => flag["CARD_INSERTED"]
  BY <1>1 DEF Flags
<1>3. passed \in 0..CRC_MAX_WORD /\ (phase = "written" => (passed = CRC_MAX_WORD <=> card_side = NoCard))
  BY DEF CInv, CTypeOK, Protocol
<1>4. Protocol'
  BY <1>1, <1>2, <1>3, CardAssumption DEF CInv, Protocol, Running, ReadSoFar, ChipOnly, window
<1>5. WrittenSoFar'
  <2>1. phase = "written" /\ phase' = "wait_no_card" => ~flag'["CARD_INSERTED"]
    BY <1>2, <1>3, CardAssumption DEF CInv, Protocol
  <2> QED BY <1>1, <1>2, <2>1 DEF CInv, Protocol, WrittenSoFar, Whole, Pass, Running, Writing, Before, ChipOnly, window
<1> QED
  BY <1>1, <1>4, <1>5, PhaseStep DEF CInv, CTypeOK, ChipOnly, Phases, Running

(* The motor starts, with the whole payload of a write, and stops.         *)
LEMMA MotorSteps ==
  ASSUME CInv, NEW b \in BOOLEAN, crc_update_flags(card_side, head, [flag EXCEPT !["MOTOR_ENABLE"] = b]), ChipOnly,
         \/ /\ phase = "motor" /\ b /\ passed' = 0
            /\ IF flag["WRITE_MODE"]
               THEN phase' = "written" /\ \E v \in Contents : payload' = [w \in Words |-> v]
               ELSE phase' = "reading" /\ payload' = <<>>
         \/ phase = "motor_off" /\ ~b /\ phase' \in {"main", "prompt"} /\ UNCHANGED <<passed, payload>>
  PROVE  CInv'
<1>1. /\ UNCHANGED <<card_side, head, gui_q>> /\ flag' \in [Flags -> BOOLEAN]
      /\ \A g \in Flags \ {"BUFFER_READY"} : flag'[g] = IF g = "MOTOR_ENABLE" THEN b ELSE flag[g]
  BY FlagStep DEF Flags
<1>2. /\ flag'["MOTOR_ENABLE"] = b /\ flag'["WRITE_MODE"] = flag["WRITE_MODE"]
      /\ flag'["CARD_INSERTED"] = flag["CARD_INSERTED"]
  BY <1>1 DEF Flags
<1>3. CASE phase = "motor"
  <2>1. passed' = 0 /\ 0 \in 0..CRC_MAX_WORD /\ 0 < CRC_MAX_WORD /\ b /\ card_side # NoCard /\ head = 0 /\ ~image.dirty
    BY <1>3, CardAssumption DEF CInv, Protocol, WrittenSoFar, Before
  <2>2. CASE flag["WRITE_MODE"]
    <3>1. PICK v \in Contents : payload' = [w \in Words |-> v]
      BY <1>3, <2>2
    <3>2. payload' \in Seq(Contents)
      BY <3>1, CardAssumption DEF Words
    <3>3. phase' = "written"
      BY <1>3, <2>2
    <3>4. Protocol'
      BY <1>1, <1>2, <2>1, <2>2, <3>3, CardAssumption DEF Protocol, Running
    <3>5. WrittenSoFar'
      BY <1>1, <1>2, <2>1, <3>1, <3>3 DEF WrittenSoFar, Writing, Before, Pass, ChipOnly, window
    <3> QED BY <1>1, <2>1, <3>2, <3>3, <3>4, <3>5, PhaseStep DEF ChipOnly, Phases
  <2>3. CASE ~flag["WRITE_MODE"]
    <3>1. phase' = "reading" /\ payload' = <<>>
      BY <1>3, <2>3
    <3>2. payload' = [w \in 1..0 |-> image'.word[w]] /\ payload' \in Seq(Contents)
      BY <3>1
    <3>3. Protocol'
      BY <1>1, <1>2, <2>1, <2>3, <3>1, <3>2 DEF Protocol, Running, ReadSoFar
    <3>4. WrittenSoFar'
      BY <1>1, <1>2, <2>1, <3>1 DEF WrittenSoFar, Writing, Before, ChipOnly, window
    <3> QED BY <1>1, <2>1, <3>1, <3>2, <3>3, <3>4, PhaseStep DEF ChipOnly, Phases
  <2> QED BY <2>2, <2>3
<1>4. CASE phase = "motor_off"
  <2>1. card_side = NoCard /\ head = 0 /\ ~flag["CARD_INSERTED"] /\ ~b
        /\ phase' \in {"main", "prompt"} /\ UNCHANGED <<passed, payload>>
    BY <1>4 DEF CInv, Protocol
  <2>2. Protocol'
    BY <1>1, <1>2, <2>1 DEF Protocol, Running
  <2>3. WrittenSoFar'
    BY <1>1, <1>2, <2>1 DEF CInv, WrittenSoFar, Whole, Writing, Before, ChipOnly, window
  <2> QED BY <1>1, <2>1, <2>2, <2>3, PhaseStep DEF CInv, CTypeOK, ChipOnly, Phases
<1> QED BY <1>3, <1>4

-----------------------------------------------------------------------------
(* A word passes the head: the next one is expected where it is, and the   *)
(* last one takes the card back to the window.                             *)
LEMMA WordStep ==
  ASSUME CInv, phase \in {"read", "write"}, passed' = passed + 1,
         crc_update_flags(card_side, head + 1, flag)
  PROVE  /\ flag' \in [Flags -> BOOLEAN] /\ passed' \in 1..CRC_MAX_WORD /\ head = passed
         /\ flag'["MOTOR_ENABLE"] /\ flag'["WRITE_MODE"] = flag["WRITE_MODE"]
         /\ card_side # NoCard /\ side = card_side
         /\ IF passed' = CRC_MAX_WORD
            THEN gui_q' = <<side>> /\ card_side' = NoCard /\ head' = 0 /\ ~flag'["CARD_INSERTED"]
            ELSE /\ gui_q' = <<>> /\ card_side' = card_side /\ head' = passed'
                 /\ head' \in 0..(CRC_MAX_WORD - 1) /\ flag'["CARD_INSERTED"] = flag["CARD_INSERTED"]
<1>1. /\ card_side \in Cards \cup {NoCard} /\ flag \in [Flags -> BOOLEAN] /\ passed \in 0..CRC_MAX_WORD
      /\ card_side # NoCard /\ head = passed /\ passed < CRC_MAX_WORD /\ flag["MOTOR_ENABLE"]
      /\ side = card_side /\ gui_q = <<>>
  BY DEF CInv, CTypeOK, OneOwner, Protocol, Running
<1>2. passed + 1 \in 1..CRC_MAX_WORD /\ head + 1 \in 0..CRC_MAX_WORD
  BY <1>1, CardAssumption
<1>3. passed + 1 # CRC_MAX_WORD => passed + 1 \in 0..(CRC_MAX_WORD - 1)
  BY <1>2, CardAssumption
<1> QED BY <1>1, <1>2, <1>3, FlagsUpdated

LEMMA NoFatalOfTheHead ==
  ASSUME CInv, phase \in {"read", "write"}
  PROVE  card_side # NoCard /\ flag["MOTOR_ENABLE"] /\ ~EndOfCard(head)
         /\ (flag["WRITE_MODE"] <=> phase = "write")
BY CardAssumption DEF CInv, CTypeOK, Protocol, Running, EndOfCard

(* What the invariant does not depend on: how the program ended, with one  *)
(* of the two messages, and whether it was reset                           *)
LEMMA StandStill ==
  ASSUME CInv, UNCHANGED <<window, crc, gui_q, firmware, was_reset>>, NoOtherFatal'
  PROVE  CInv'
<1>1. UNCHANGED <<file, side, image, buttons, card_side, head, flag, gui_q, phase, passed, payload, was_reset>>
  BY DEF window, crc, firmware
<1>2. CTypeOK' /\ OneOwner'
  BY <1>1 DEF CInv, CTypeOK, OneOwner
<1>3. Protocol'
  BY <1>1 DEF CInv, Protocol, ReadSoFar
<1>4. WrittenSoFar'
  BY <1>1 DEF CInv, WrittenSoFar, Pass, Whole
<1> QED BY <1>2, <1>3, <1>4 DEF CInv

LEMMA ReadStep == CInv /\ phase = "read" /\ crc_read => CInv'
<1> SUFFICES ASSUME CInv, phase = "read", crc_read PROVE CInv'
  OBVIOUS
<1>1. /\ payload' = Append(payload, image.word[head + 1]) /\ passed' = passed + 1
      /\ crc_update_flags(card_side, head + 1, flag)
      /\ phase' = IF passed' = CRC_MAX_WORD THEN "wait_no_card" ELSE "reading"
      /\ UNCHANGED <<window, was_reset, died>>
  BY NoFatalOfTheHead DEF crc_read
<1>2. /\ flag' \in [Flags -> BOOLEAN] /\ passed' \in 1..CRC_MAX_WORD /\ head = passed
      /\ flag'["MOTOR_ENABLE"] /\ flag'["WRITE_MODE"] = flag["WRITE_MODE"]
      /\ card_side # NoCard /\ side = card_side
      /\ IF passed' = CRC_MAX_WORD
         THEN gui_q' = <<side>> /\ card_side' = NoCard /\ head' = 0 /\ ~flag'["CARD_INSERTED"]
         ELSE /\ gui_q' = <<>> /\ card_side' = card_side /\ head' = passed'
              /\ head' \in 0..(CRC_MAX_WORD - 1) /\ flag'["CARD_INSERTED"] = flag["CARD_INSERTED"]
  BY <1>1, WordStep
<1>3. /\ image \in Images /\ ~flag["WRITE_MODE"] /\ ReadSoFar /\ ~image.dirty /\ passed \in Nat
      /\ UNCHANGED <<file, side, image, buttons>>
  BY <1>1 DEF CInv, CTypeOK, Protocol, WrittenSoFar, Before, Images, window
<1>4. payload' = [w \in 1..(passed + 1) |-> image.word[w]]
  <2> DEFINE word == image.word
  <2> HIDE DEF word
  <2>1. payload = [w \in 1..passed |-> word[w]] /\ payload' = Append(payload, word[passed + 1])
    BY <1>1, <1>2, <1>3 DEF ReadSoFar, word
  <2>2. payload' = [w \in 1..(passed + 1) |-> word[w]]
    BY <1>3, <2>1
  <2> QED BY <2>2 DEF word
<1>5. payload' \in Seq(Contents)
  <2>1. \A w \in 1..(passed + 1) : image.word[w] \in Contents
    BY <1>1, <1>2, <1>3, CardAssumption DEF Images, Words
  <2> QED BY <1>3, <1>4, <2>1
<1>6. phase' \in {"wait_no_card", "reading"} /\ (phase' = "wait_no_card" <=> passed' = CRC_MAX_WORD)
  BY <1>1
<1>7. CTypeOK'
  <2>1. side \in Cards /\ 0 \in 0..(CRC_MAX_WORD - 1) /\ passed' \in 0..CRC_MAX_WORD
    BY <1>2, CardAssumption DEF CInv, CTypeOK
  <2>2. gui_q' \in Seq(Cards) /\ card_side' \in Cards \cup {NoCard} /\ head' \in 0..(CRC_MAX_WORD - 1)
    BY <1>2, <2>1, Messages
  <2> QED BY <1>1, <1>2, <1>3, <1>5, <1>6, <2>1, <2>2 DEF CInv, CTypeOK, Phases
<1>8. OneOwner' /\ NoOtherFatal'
  BY <1>1, <1>2, <1>3 DEF CInv, OneOwner, NoOtherFatal
<1>9. Protocol'
  BY <1>1, <1>2, <1>3, <1>4, <1>6, CardAssumption DEF Protocol, Running, ReadSoFar
<1>10. WrittenSoFar'
  BY <1>2, <1>3, <1>6 DEF WrittenSoFar, Writing, Before
<1> QED BY <1>7, <1>8, <1>9, <1>10 DEF CInv

LEMMA WriteStep == CInv /\ phase = "write" /\ crc_write => CInv'
<1> SUFFICES ASSUME CInv, phase = "write", crc_write PROVE CInv'
  OBVIOUS
<1>1. CASE Fatal("write to write-protected card")
  BY <1>1, StandStill DEF Fatal, NoOtherFatal
<1>2. CASE /\ image' = [image EXCEPT !.word[head + 1] = payload[passed + 1], !.dirty = TRUE]
           /\ passed' = passed + 1
           /\ crc_update_flags(card_side, head + 1, flag)
           /\ phase' = "written"
           /\ UNCHANGED <<file, side, buttons, payload, was_reset, died>>
  <2>1. /\ flag' \in [Flags -> BOOLEAN] /\ passed' \in 1..CRC_MAX_WORD /\ head = passed
        /\ flag'["MOTOR_ENABLE"] /\ flag'["WRITE_MODE"] = flag["WRITE_MODE"]
        /\ card_side # NoCard /\ side = card_side
        /\ IF passed' = CRC_MAX_WORD
           THEN gui_q' = <<side>> /\ card_side' = NoCard /\ head' = 0 /\ ~flag'["CARD_INSERTED"]
           ELSE /\ gui_q' = <<>> /\ card_side' = card_side /\ head' = passed'
                /\ head' \in 0..(CRC_MAX_WORD - 1) /\ flag'["CARD_INSERTED"] = flag["CARD_INSERTED"]
    BY <1>2, WordStep
  <2>2. PICK v \in Contents : Pass(v)
    BY DEF CInv, WrittenSoFar, Writing
  <2>3. passed + 1 \in Words /\ payload[passed + 1] = v /\ passed \in Nat /\ image \in Images
    BY <1>2, <2>1, <2>2, CardAssumption DEF Pass, Words, CInv, CTypeOK, Images
  <2>4. /\ image' \in Images /\ image'.word = [image.word EXCEPT ![passed + 1] = v]
    BY <1>2, <2>1, <2>3 DEF Images
  <2>5. \A w \in 1..(passed + 1) : image'.word[w] = v
    <3>1. image.word \in [Words -> Contents] /\ passed + 1 \in 1..CRC_MAX_WORD
      BY <1>2, <2>1, <2>3 DEF Images
    <3>2. \A w \in 1..(passed + 1) : w \in Words /\ (w = passed + 1 \/ w \in 1..passed)
      BY <2>3, <3>1, CardAssumption DEF Words
    <3> QED BY <2>2, <2>4, <3>1, <3>2 DEF Pass
  <2>6. passed' = CRC_MAX_WORD => image'.word = [w \in Words |-> v]
    BY <1>2, <2>4, <2>5 DEF Words, Images
  <2>7. CTypeOK'
    <3>1. side \in Cards /\ 0 \in 0..(CRC_MAX_WORD - 1) /\ passed' \in 0..CRC_MAX_WORD
      BY <2>1, CardAssumption DEF CInv, CTypeOK
    <3>2. gui_q' \in Seq(Cards) /\ card_side' \in Cards \cup {NoCard} /\ head' \in 0..(CRC_MAX_WORD - 1)
      BY <2>1, <3>1, Messages
    <3> QED BY <1>2, <2>1, <2>4, <3>1, <3>2 DEF CInv, CTypeOK, Phases, Images
  <2>8. OneOwner' /\ NoOtherFatal'
    BY <1>2, <2>1 DEF CInv, OneOwner, NoOtherFatal
  <2>9. Protocol'
    BY <1>2, <2>1, CardAssumption DEF CInv, Protocol, Running
  <2>10. WrittenSoFar'
    <3>1. Pass(v)'
      BY <1>2, <2>2, <2>5 DEF Pass
    <3>2. gui_q' # <<>> => Whole(image'.word)
      BY <2>1, <2>6 DEF Whole
    <3> QED BY <1>2, <3>1, <3>2 DEF WrittenSoFar, Whole, Writing, Before
  <2> QED BY <2>7, <2>8, <2>9, <2>10 DEF CInv
<1> QED BY <1>1, <1>2, NoFatalOfTheHead DEF crc_write

-----------------------------------------------------------------------------
(* The window                                                              *)
LEMMA InsertStep ==
  ASSUME CInv, NEW c \in Cards, NEW new \in BOOLEAN, InsertCard(c, new)
  PROVE  CInv'
<1>1. side = NoCard /\ card_side = NoCard /\ gui_q = <<>> /\ head = 0
  <2>1. side = NoCard
    BY DEF InsertCard, CInv, OneOwner
  <2> QED BY <2>1, NothingInTheQueue, CardAssumption DEF CInv, CTypeOK, OneOwner, Protocol
<1>2. CASE flag["MOTOR_ENABLE"]
  <2>1. Fatal("card inserted while motor running")
    BY <1>1, <1>2 DEF InsertCard
  <2> QED BY <2>1, StandStill DEF Fatal, NoOtherFatal
<1>3. CASE ~flag["MOTOR_ENABLE"]
  <2> DEFINE f == [flag EXCEPT !["CARD_INSERTED"] = TRUE]
  <2>1. /\ buttons' = FALSE /\ side' = c
        /\ image' = IF new THEN NewCard
                    ELSE [word |-> file[c].word, protect |-> file[c].protect, dirty |-> FALSE]
        /\ crc_update_flags(c, 0, f)
        /\ UNCHANGED <<file, firmware, was_reset, died>>
    BY <1>1, <1>3 DEF InsertCard
  <2>2. /\ f \in [Flags -> BOOLEAN] /\ f["MOTOR_ENABLE"] = flag["MOTOR_ENABLE"] /\ f["CARD_INSERTED"]
        /\ f["WRITE_MODE"] = flag["WRITE_MODE"] /\ c # NoCard /\ 0 \in 0..CRC_MAX_WORD /\ 0 # CRC_MAX_WORD
    BY CardAssumption DEF CInv, CTypeOK, Flags
  <2>3. /\ flag' \in [Flags -> BOOLEAN] /\ ~flag'["MOTOR_ENABLE"] /\ flag'["WRITE_MODE"] = flag["WRITE_MODE"]
        /\ gui_q' = <<>> /\ card_side' = c /\ head' = 0 /\ flag'["CARD_INSERTED"]
    <3> HIDE DEF f
    <3> QED BY <1>1, <1>3, <2>1, <2>2, FlagsUpdated
  <2>4. image' \in Images /\ ~image'.dirty
    <3>1. ~NewCard.dirty
      BY DEF NewCard
    <3> QED BY <2>1, <3>1, NewCardType DEF CInv, CTypeOK, Images
  <2>5. UNCHANGED <<file, phase, passed, payload, was_reset, died>>
    BY <2>1 DEF firmware
  <2>6. CTypeOK'
    BY <1>1, <2>1, <2>3, <2>4, <2>5 DEF CInv, CTypeOK, Images
  <2>7. OneOwner' /\ NoOtherFatal'
    BY <2>1, <2>3, <2>5 DEF CInv, OneOwner, NoOtherFatal
  <2>8. phase \notin Running
    BY <1>3 DEF CInv, Protocol
  <2>9. Protocol' /\ WrittenSoFar'
    BY <2>2, <2>3, <2>4, <2>5, <2>8 DEF Protocol, WrittenSoFar, Running, Writing, Before
  <2> QED BY <2>6, <2>7, <2>9 DEF CInv
<1> QED BY <1>2, <1>3

LEMMA UpdateStep ==
  ASSUME CInv, gui_card_reader_update
  PROVE  CInv' /\ \A c \in Cards : file'[c].word # file[c].word => Whole(file'[c].word)
<1>1. gui_q = <<side>> /\ side \in Cards /\ card_side = NoCard
  <2>1. gui_q # <<>> /\ gui_q = <<side>> /\ card_side = NoCard
    BY DEF gui_card_reader_update, CInv, OneOwner
  <2>2. side # NoCard
    BY <2>1, NothingInTheQueue DEF CInv
  <2> QED BY <2>1, <2>2 DEF CInv, CTypeOK
<1>2. Head(gui_q) = side /\ Tail(gui_q) = <<>>
  BY <1>1, OneMessage
<1>3. /\ file' = IF image.dirty THEN [file EXCEPT ![side] = SavedCard] ELSE file
      /\ side' = NoCard /\ buttons' = TRUE /\ gui_q' = <<>>
      /\ UNCHANGED <<image, crc, firmware, was_reset, died>>
  BY <1>2 DEF gui_card_reader_update
<1>4. image.dirty => Whole(image.word)
  BY <1>1, OneMessage DEF CInv, WrittenSoFar
<1>5. SavedCard \in [word : [Words -> Contents], protect : BOOLEAN] /\ SavedCard.word = image.word
  BY DEF SavedCard, CInv, CTypeOK
<1>6. file' \in [Cards -> [word : [Words -> Contents], protect : BOOLEAN]]
  BY <1>1, <1>3, <1>5 DEF CInv, CTypeOK
<1>7. CInv'
  <2>1. UNCHANGED <<image, card_side, head, flag, phase, passed, payload, was_reset, died>>
    BY <1>3 DEF crc, firmware
  <2>2. CTypeOK' /\ OneOwner' /\ NoOtherFatal'
    <3>1. gui_q' \in Seq(Cards) /\ side' = NoCard /\ buttons' = TRUE /\ card_side' = NoCard
      BY <1>1, <1>3, <2>1, Messages
    <3>2. gui_q' = <<>>
      BY <1>3
    <3>3. CTypeOK'
      BY <1>6, <2>1, <3>1 DEF CInv, CTypeOK
    <3>4. OneOwner' /\ NoOtherFatal'
      BY <2>1, <3>1, <3>2 DEF CInv, OneOwner, NoOtherFatal
    <3> QED BY <3>3, <3>4
  <2>3. Protocol'
    BY <2>1 DEF CInv, Protocol, ReadSoFar
  <2>4. WrittenSoFar'
    BY <1>3, <2>1 DEF CInv, WrittenSoFar, Pass
  <2> QED BY <2>2, <2>3, <2>4 DEF CInv
<1>8. ASSUME NEW c \in Cards, file'[c].word # file[c].word PROVE Whole(file'[c].word)
  <2>1. image.dirty /\ c = side /\ file'[c] = SavedCard
    BY <1>1, <1>3, <1>8 DEF CInv, CTypeOK
  <2> QED BY <1>4, <1>5, <2>1
<1> QED BY <1>7, <1>8

LEMMA ResetStep == CInv /\ Reset => CInv'
<1> SUFFICES ASSUME CInv, Reset PROVE CInv'
  OBVIOUS
<1>1. flag' = Off /\ phase' = "main" /\ passed' = 0 /\ payload' = <<>> /\ was_reset' = TRUE
      /\ UNCHANGED <<file, side, image, buttons, card_side, head, gui_q, died>>
  BY DEF Reset, window
<1>2. Off \in [Flags -> BOOLEAN] /\ \A f \in Flags : ~Off[f]
  BY DEF Off
<1>3. CTypeOK'
  BY <1>1, <1>2, CardAssumption DEF CInv, CTypeOK, Phases
<1>4. Protocol'
  BY <1>1, <1>2 DEF CInv, Protocol, Running, Flags
<1>5. WrittenSoFar'
  BY <1>1, <1>2 DEF CInv, WrittenSoFar, Whole, Writing, Before, Flags
<1> QED BY <1>1, <1>3, <1>4, <1>5 DEF CInv, OneOwner, NoOtherFatal

LEMMA FirmwareStep == CInv /\ Firmware => CInv'
<1> SUFFICES ASSUME CInv, Firmware PROVE CInv'
  OBVIOUS
<1>1. "CARD_INSERTED" \in Flags /\ "WRITE_MODE" \in Flags /\ "MOTOR_ENABLE" \in Flags /\ "BUFFER_READY" \in Flags
  BY DEF Flags
<1>2. phase \in {"main", "prompt"} /\ crc_op_test_flag_and_clear("CARD_INSERTED") /\ ChipOnly
      /\ (IF ~flag["CARD_INSERTED"] THEN Goto(phase)
          ELSE IF phase = "prompt" THEN Goto("motor")
          ELSE Goto("clear_mode") \/ Goto("write_mode")) => CInv'
  BY <1>1, MotorOffSteps DEF crc_op_test_flag_and_clear, Goto
<1>3. phase = "main" /\ crc_op_set_flag("WRITE_MODE") /\ Goto("prompt") /\ ChipOnly => CInv'
  BY <1>1, MotorOffSteps DEF crc_op_set_flag, Goto
<1>4. phase = "prompt" /\ ~flag["CARD_INSERTED"] /\ Goto("main") /\ UNCHANGED <<crc, gui_q>> /\ ChipOnly => CInv'
  <2> SUFFICES ASSUME phase = "prompt", Goto("main"), UNCHANGED <<crc, gui_q>>, ChipOnly PROVE CInv'
    OBVIOUS
  <2>1. Protocol' /\ WrittenSoFar'
    BY DEF CInv, Protocol, WrittenSoFar, Whole, Running, Writing, Before, Goto, crc, ChipOnly, window
  <2> QED BY <2>1, PhaseStep DEF CInv, CTypeOK, Goto, crc, ChipOnly, Phases
<1>5. phase = "clear_mode" /\ crc_op_test_flag_and_clear("WRITE_MODE") /\ Goto("motor") /\ ChipOnly => CInv'
  BY <1>1, MotorOffSteps DEF crc_op_test_flag_and_clear, Goto
<1>6. phase = "write_mode" /\ crc_op_set_flag("WRITE_MODE") /\ Goto("motor") /\ ChipOnly => CInv'
  BY <1>1, MotorOffSteps DEF crc_op_set_flag, Goto
<1>7. /\ phase = "motor" /\ crc_op_set_flag("MOTOR_ENABLE") /\ passed' = 0 /\ ChipOnly
      /\ IF flag["WRITE_MODE"]
         THEN phase' = "written" /\ \E v \in Contents : payload' = [w \in Words |-> v]
         ELSE phase' = "reading" /\ payload' = <<>>
      => CInv'
  BY MotorSteps DEF crc_op_set_flag
<1>8. phase = "reading" /\ crc_op_test_flag_and_clear("BUFFER_READY")
      /\ Goto(IF flag["BUFFER_READY"] THEN "read" ELSE phase) /\ ChipOnly => CInv'
  BY <1>1, MotorOnSteps DEF crc_op_test_flag_and_clear, Goto, Running
<1>9. phase = "written" /\ crc_op_test_flag_and_clear("BUFFER_READY")
      /\ Goto(IF ~flag["BUFFER_READY"] THEN "written"
              ELSE IF passed = CRC_MAX_WORD THEN "wait_no_card" ELSE "write") /\ ChipOnly => CInv'
  BY <1>1, MotorOnSteps DEF crc_op_test_flag_and_clear, Goto, Running
<1>10. phase = "wait_no_card" /\ crc_op_test_flag_and_clear("CARD_INSERTED")
       /\ Goto(IF flag["CARD_INSERTED"] THEN "wait_no_card" ELSE "motor_off") /\ ChipOnly => CInv'
  BY <1>1, MotorOnSteps DEF crc_op_test_flag_and_clear, Goto, Running
<1>11. phase = "motor_off" /\ crc_op_test_flag_and_clear("MOTOR_ENABLE")
       /\ (Goto("main") \/ Goto("prompt")) /\ ChipOnly => CInv'
  BY MotorSteps DEF crc_op_test_flag_and_clear, Goto
<1> QED
  BY <1>2, <1>3, <1>4, <1>5, <1>6, <1>7, <1>8, <1>9, <1>10, <1>11, ReadStep, WriteStep DEF Firmware

-----------------------------------------------------------------------------
LEMMA StepKeepsCInv == CInv /\ [CNext]_cvars => CInv'
<1>1. CInv /\ UNCHANGED cvars => CInv'
  BY StandStill DEF cvars, CInv, NoOtherFatal
<1> QED
  BY <1>1, InsertStep, UpdateStep, ResetStep, FirmwareStep DEF CNext, Instruction

LEMMA CInvCorrect == CSpec => []CInv
BY InitCInv, StepKeepsCInv, PTL DEF CSpec

(* The image of a card has one owner at a time, and of the assertions of   *)
(* the window and the chip only the two that the firmware's protocol does  *)
(* not keep clear of can fail.                                             *)
THEOREM CardIsHandedOverCorrect == CSpec => []CardIsHandedOver
<1>1. CInv => CardIsHandedOver
  BY DEF CInv, CardIsHandedOver
<1> QED BY <1>1, CInvCorrect, PTL

(* What the firmware has read is the card, word for word from its start.   *)
THEOREM ReadsTheCardCorrect == CSpec => []ReadsTheCard
<1>1. CInv => ReadsTheCard
  BY DEF CInv, Protocol, ReadSoFar, ReadsTheCard
<1> QED BY <1>1, CInvCorrect, PTL

(* A card file that changes gets all the words of one pass of the          *)
(* firmware, also with resets in the middle of a write.                    *)
THEOREM FilesAreWholeCorrect == CSpec => FilesAreWhole
<1>1. CInv /\ [CNext]_cvars =>
        [\A c \in Cards : file'[c].word # file[c].word =>
           \E v \in Contents : file'[c].word = [w \in Words |-> v]]_cvars
  <2> SUFFICES ASSUME CInv, CNext, NEW c \in Cards, file'[c].word # file[c].word
               PROVE  Whole(file'[c].word)
    BY DEF Whole
  <2>1. ASSUME NEW d \in Cards, NEW new \in BOOLEAN, InsertCard(d, new) PROVE file' = file
    BY <2>1 DEF InsertCard, Fatal, window
  <2>2. Instruction \/ Reset => file' = file
    BY DEF Instruction, Firmware, Reset, crc_read, crc_write, Fatal, ChipOnly, window
  <2> QED BY <2>1, <2>2, UpdateStep DEF CNext
<1> QED BY <1>1, CInvCorrect, PTL DEF CSpec, FilesAreWhole

-----------------------------------------------------------------------------
(* What the processor and the calls that the handler has still to make     *)
(* come to: the one key in first while a button is pressed, or none.       *)
Settled == calls = <<>> /\ down = IF pressed = {} THEN {} ELSE {first}
FirstPress == calls = <<Call(first, TRUE)>> /\ pressed # {} /\ down = {}
LastRelease == calls = <<Call(first, FALSE)>> /\ pressed = {} /\ down = {first}
Rolling(k) == calls = <<Call(k, FALSE), Call(first, TRUE)>> /\ pressed # {} /\ down = {k}
CallsEndSettled == Settled \/ FirstPress \/ LastRelease \/ \E k \in Int : Rolling(k)

RTypes ==
  /\ pressed \in SUBSET Buttons
  /\ first \in Int
  /\ recognised \in [Buttons -> 0..2]

RInv == RTypes /\ NoRolloverError /\ CallsEndSettled

-----------------------------------------------------------------------------
(* A button more, a button less (FiniteSets of pressed buttons)            *)
LEMMA PressedIsFinite ==
  ASSUME NEW S \in SUBSET Buttons
  PROVE  IsFiniteSet(S) /\ Cardinality(S) \in Nat /\ (Cardinality(S) = 0 <=> S = {})
BY RolloverAssumption, FS_Subset, FS_CardinalityType, FS_EmptySet

LEMMA OneMore ==
  ASSUME NEW S \in SUBSET Buttons, NEW b \in Buttons, b \notin S
  PROVE  S \cup {b} \in SUBSET Buttons /\ Cardinality(S \cup {b}) = Cardinality(S) + 1
BY PressedIsFinite, FS_AddElement

LEMMA OneLess ==
  ASSUME NEW S \in SUBSET Buttons, NEW b \in S
  PROVE  S \ {b} \in SUBSET Buttons /\ Cardinality(S \ {b}) = Cardinality(S) - 1
BY PressedIsFinite, FS_RemoveElement

(* find_pressed_button finds a button that is pressed *)
LEMMA FindsAPressedButton ==
  ASSUME NEW S \in SUBSET Buttons, Cardinality(S) = 1
  PROVE  FindPressedButton(S) \in S
<1>1. PICK b \in S : S = {b}
  <2>1. PICK b : b \in S
    BY PressedIsFinite
  <2>2. Cardinality(S \ {b}) = 0 /\ S \ {b} \in SUBSET Buttons
    BY <2>1, OneLess
  <2>3. S \ {b} = {}
    BY <2>2, PressedIsFinite
  <2> QED BY <2>1, <2>3
<1>2. b \in Nat
  BY <1>1, RolloverAssumption
<1>3. \E x \in S : \A y \in S : y >= x
  BY <1>1, <1>2
<1> QED BY <1>1, <1>3 DEF FindPressedButton, Min

(* The first of the calls that are left, and the rest                      *)
LEMMA OneCall ==
  ASSUME NEW k, NEW state
  PROVE  /\ Head(<<Call(k, state)>>).key = k /\ Head(<<Call(k, state)>>).state = state
         /\ Tail(<<Call(k, state)>>) = <<>>
BY DEF Call

LEMMA TwoCalls ==
  ASSUME NEW k, NEW l
  PROVE  /\ Head(<<Call(k, FALSE), Call(l, TRUE)>>).key = k /\ ~Head(<<Call(k, FALSE), Call(l, TRUE)>>).state
         /\ Tail(<<Call(k, FALSE), Call(l, TRUE)>>) = <<Call(l, TRUE)>>
<1> DEFINE c == Call(k, FALSE)
           d == Call(l, TRUE)
<1>1. Head(<<c, d>>) = c /\ Tail(<<c, d>>) = <<d>>
  <2> HIDE DEF c, d
  <2> QED OBVIOUS
<1> QED BY <1>1 DEF Call

-----------------------------------------------------------------------------
LEMMA InitRInv == RInit => RInv
BY FS_EmptySet DEF RInit, RInv, RTypes, NoRolloverError, CallsEndSettled, Settled

(* Press and Release begin when the last handler is through, and then the  *)
(* processor is settled.                                                   *)
LEMMA Through == ASSUME RInv, calls = <<>> PROVE Settled
BY DEF RInv, CallsEndSettled, Settled, FirstPress, LastRelease, Rolling, Call

LEMMA PressKeepsRInv == ASSUME RInv, NEW b \in Buttons, Press(b) PROVE RInv'
<1> USE DEF RInv, RTypes, NoRolloverError
<1>1. Settled
  BY Through DEF Press
<1>2. pressed' \in SUBSET Buttons /\ count' = Cardinality(pressed') /\ ~exited' /\ pressed' # {}
  BY OneMore DEF Press
<1>3. recognised' \in [Buttons -> 0..2]
  BY DEF Press
<1>4. CASE count' = 1
  <2>1. pressed = {} /\ down = {}
    BY <1>1, <1>4, PressedIsFinite DEF Press, Settled
  <2>2. first' = Keycode[b] /\ first' \in Int /\ FirstPress'
    BY <1>2, <1>4, <2>1, RolloverAssumption DEF Press, FirstPress
  <2> QED BY <1>2, <1>3, <2>2 DEF CallsEndSettled
<1>5. CASE count' # 1
  <2>1. pressed # {}
    BY <1>5, PressedIsFinite DEF Press
  <2>2. first' \in Int /\ Settled'
    BY <1>1, <1>2, <1>5, <2>1 DEF Press, Settled
  <2> QED BY <1>2, <1>3, <2>2 DEF CallsEndSettled
<1> QED BY <1>4, <1>5

LEMMA ReleaseKeepsRInv == ASSUME RInv, NEW b \in Buttons, Release(b) PROVE RInv'
<1> USE DEF RInv, RTypes, NoRolloverError
<1>1. Settled /\ down = {first} /\ pressed # {}
  BY Through DEF Release, Settled
<1>2. pressed' \in SUBSET Buttons /\ count' = Cardinality(pressed')
  BY OneLess DEF Release
<1>3. count' \in Nat /\ (count' = 0 <=> pressed' = {})
  BY <1>2, PressedIsFinite
<1>4. CASE count' = 0
  <2>1. calls' = <<Call(first, FALSE)>> /\ UNCHANGED <<first, recognised, exited, down>>
    BY <1>4 DEF Release
  <2>2. LastRelease'
    BY <1>1, <1>3, <1>4, <2>1 DEF LastRelease, Call
  <2> QED BY <1>2, <2>1, <2>2 DEF CallsEndSettled
<1>5. CASE count' = 1
  <2>1. pressed' # {} /\ RollOver(pressed') /\ UNCHANGED <<exited, down>>
    <3>1. pressed' # {} /\ count' # 0
      BY <1>3, <1>5
    <3> HIDE DEF RInv, RTypes, NoRolloverError
    <3> QED BY <1>5, <3>1, Zenon DEF Release
  <2> DEFINE i == FindPressedButton(pressed')
  <2>2. i \in Buttons /\ Keycode[i] \in Int
    BY <1>2, <1>5, FindsAPressedButton, RolloverAssumption
  <2>3. CASE i # first
    <3>1. /\ calls' = <<Call(first, FALSE), Call(Keycode[i], TRUE)>>
          /\ first' = Keycode[i]
          /\ recognised' = [recognised EXCEPT ![i] = Often(@)]
      BY <2>1, <2>3 DEF RollOver
    <3>2. recognised' \in [Buttons -> 0..2]
      BY <2>2, <3>1 DEF Often
    <3>3. \E k \in Int : Rolling(k)'
      BY <1>1, <2>1, <3>1 DEF Rolling, Call
    <3> QED BY <1>2, <2>1, <2>2, <3>1, <3>2, <3>3 DEF CallsEndSettled
  <2>4. CASE i = first
    <3>1. UNCHANGED <<first, calls, recognised>>
      BY <2>1, <2>4 DEF RollOver
    <3>2. Settled'
      BY <1>1, <2>1, <3>1 DEF Settled
    <3> QED BY <1>2, <2>1, <3>1, <3>2 DEF CallsEndSettled
  <2> QED BY <2>3, <2>4
<1>6. CASE count' \notin {0, 1}
  <2>1. UNCHANGED <<calls, first, recognised, down>> /\ ~exited' /\ pressed' # {}
    BY <1>3, <1>6 DEF Release
  <2>2. Settled'
    BY <1>1, <2>1 DEF Settled
  <2> QED BY <1>2, <2>1, <2>2 DEF CallsEndSettled
<1> QED BY <1>4, <1>5, <1>6

LEMMA SimKeyKeepsRInv == ASSUME RInv, SimKey PROVE RInv'
<1> USE DEF RInv, RTypes, NoRolloverError
<1>1. RTypes' /\ NoRolloverError'
  BY DEF SimKey, gui
<1>2. CASE Settled
  BY <1>2 DEF SimKey, Settled
<1>3. CASE FirstPress
  <2>1. down' = down \cup {first} /\ calls' = <<>>
    BY <1>3, OneCall DEF FirstPress, SimKey
  <2>2. Settled'
    BY <1>3, <2>1 DEF FirstPress, Settled, SimKey, gui
  <2> QED BY <1>1, <2>2 DEF CallsEndSettled
<1>4. CASE LastRelease
  <2>1. down' = down \ {first} /\ calls' = <<>>
    BY <1>4, OneCall DEF LastRelease, SimKey
  <2>2. Settled'
    BY <1>4, <2>1 DEF LastRelease, Settled, SimKey, gui
  <2> QED BY <1>1, <2>2 DEF CallsEndSettled
<1>5. CASE \E k \in Int : Rolling(k)
  <2>1. PICK k \in Int : Rolling(k)
    BY <1>5
  <2>2. down' = down \ {k} /\ calls' = <<Call(first, TRUE)>>
    BY <2>1, TwoCalls DEF Rolling, SimKey
  <2>3. first' = first /\ pressed' = pressed
    BY DEF SimKey, gui
  <2>4. FirstPress'
    BY <2>1, <2>2, <2>3 DEF Rolling, FirstPress, Call
  <2> QED BY <1>1, <2>4 DEF CallsEndSettled
<1> QED BY <1>2, <1>3, <1>4, <1>5 DEF CallsEndSettled

LEMMA StutterKeepsRInv == ASSUME RInv, UNCHANGED rvars PROVE RInv'
BY DEF RInv, RTypes, NoRolloverError, CallsEndSettled, Settled, FirstPress, LastRelease, Rolling, rvars, gui

LEMMA StepKeepsRInv == RInv /\ [RNext]_rvars => RInv'
BY PressKeepsRInv, ReleaseKeepsRInv, SimKeyKeepsRInv, StutterKeepsRInv DEF RNext

LEMMA RInvCorrect == RSpec => []RInv
BY InitRInv, StepKeepsRInv, PTL DEF RSpec

-----------------------------------------------------------------------------
(* The count of the pressed buttons is right and "keyboard rollover error" *)
(* is unreachable, for any buttons (keyboard.c: button_widget_pressed,     *)
(* button_widget_released, find_pressed_button).                           *)
THEOREM NoRolloverErrorCorrect == RSpec => []NoRolloverError
<1>1. RInv => NoRolloverError
  BY DEF RInv
<1> QED BY <1>1, RInvCorrect, PTL

(* Between two handlers the processor has the key in button_pressed_first  *)
(* down while a button is pressed and none otherwise, whatever keycodes    *)
(* the KML file gives to the buttons (keyboard.c, sim_key).                *)
THEOREM NoStuckKeyCorrect == RSpec => []NoStuckKey
<1>1. RInv => NoStuckKey
  <2>1. RInv /\ calls = <<>> => Settled
    BY Through
  <2> QED BY <2>1 DEF NoStuckKey, Settled
<1> QED BY <1>1, RInvCorrect, PTL

-----------------------------------------------------------------------------
Threads == {"sim", "gui"}
SoundPlaces == {"outside", "stop", "stopped", "find", "clear", "fill", "run", "return"}
SoundEntry == [run : BOOLEAN, type : {"none", "synth", "recorded"}, data : BOOLEAN,
               left : Int, of : {"none", "bender", "goose"}]
CallType == [at : SoundPlaces, id : Ids \cup {NoRef, MAX_SOUNDS}]
BenderType == [ago : Nat, width : Nat, ref : Ids \cup {NoRef}]
CpuType == [awake : BOOLEAN, first : BOOLEAN]

SoundTypes ==
  /\ sounds \in [Ids -> SoundEntry]
  /\ enable \in BOOLEAN
  /\ bender \in BenderType
  /\ cpu \in CpuType
  /\ call \in [Threads -> CallType]
  /\ cb \in [id : 0..MAX_SOUNDS, found : BOOLEAN]

(* What runs is whole: a tone without an end, or a cry with its data.      *)
WholeSound(s, of) ==
  /\ s.of = of
  /\ s.type = (IF of = "bender" THEN "synth" ELSE "recorded")
  /\ of = "goose" => s.data
Entries ==
  \A i \in Ids \ spoilt : sounds[i].run => WholeSound(sounds[i], "bender") \/ WholeSound(sounds[i], "goose")

(* An entry that a thread has does not run, and is whole when it is about  *)
(* to; only a spoilt one can be had by both.                               *)
Filling(t, of) ==
  /\ call[t].at \in {"stop", "clear", "fill", "run"} => call[t].id \in Ids
  /\ call[t].at \in {"stopped", "return"} => call[t].id \in Ids \cup {NoRef}
  /\ EntryOf(t) \in Ids \ spoilt => ~sounds[EntryOf(t)].run
  /\ At(t, "run") /\ EntryOf(t) \notin spoilt => WholeSound(sounds[EntryOf(t)], of)
Exclusive == EntryOf("sim") \in Ids \ spoilt => EntryOf("gui") # EntryOf("sim")
GuiPlaces == call["gui"].at \notin {"stop", "stopped"}

Mixing == cb.found => cb.id \in Ids /\ (cb.id \notin spoilt => sounds[cb.id].run)

(* The tone, also while the simulator's thread replaces it *)
ToneOf(id) == Tones \ spoilt = ({id} \cap Ids) \ spoilt
Tone ==
  /\ IsOutside("sim") => ToneOf(bender.ref)
  /\ call["sim"].at \in {"stop", "return"} => ToneOf(call["sim"].id)
  /\ call["sim"].at \in {"stopped", "find", "clear", "fill", "run"} => ToneOf(NoRef)
  /\ ~IsOutside("sim") => bender.ref = NoRef
  /\ ~enable => /\ bender.ref = NoRef
                /\ call["sim"].at \in {"outside", "stopped", "find", "return"}
                /\ At("sim", "return") => call["sim"].id = NoRef

(* How long ago the last transition was while there is a tone *)
Pulses ==
  /\ ~IsOutside("sim") => \/ bender.ago = 1
                          \/ bender.width = LongAgo /\ call["sim"].at \in {"stop", "stopped"}
  /\ bender.ref # NoRef => bender.ago \in 1..(MAX_PULSE_WIDTH + 1)
  /\ cpu.first => bender.ref = NoRef /\ bender.ago = LongAgo

SInv == /\ SoundTypes /\ Entries /\ Filling("sim", "bender") /\ Filling("gui", "goose")
        /\ Exclusive /\ GuiPlaces /\ Mixing /\ Tone /\ Pulses

-----------------------------------------------------------------------------
LEMMA IdsAreNumbers ==
  /\ Ids \subseteq Nat /\ NoRef \notin Ids /\ MAX_SOUNDS \in Nat /\ MAX_SOUNDS \notin Ids /\ NoRef # MAX_SOUNDS
  /\ 0 \in Ids /\ \A i \in Ids : i + 1 \in Ids \cup {MAX_SOUNDS}
BY SoundAssumption DEF Ids, NoRef

LEMMA Goes ==
  ASSUME SoundTypes, NEW t \in Threads, NEW at \in SoundPlaces, NEW id \in Ids \cup {NoRef, MAX_SOUNDS}, GoTo(t, at, id)
  PROVE  /\ call' \in [Threads -> CallType]
         /\ call'[t].at = at /\ call'[t].id = id
         /\ \A u \in Threads : u # t => call'[u] = call[u]
BY DEF SoundTypes, GoTo, CallType

LEMMA Updates ==
  ASSUME SoundTypes, NEW id \in Ids, NEW e \in SoundEntry, sounds' = [sounds EXCEPT ![id] = e]
  PROVE  /\ sounds' \in [Ids -> SoundEntry] /\ sounds'[id] = e
         /\ \A j \in Ids : j # id => sounds'[j] = sounds[j]
BY DEF SoundTypes

LEMMA EntryUpdates ==
  ASSUME NEW s \in SoundEntry, NEW b \in BOOLEAN
  PROVE  /\ [s EXCEPT !.run = b] \in SoundEntry /\ [s EXCEPT !.run = b].run = b
         /\ [s EXCEPT !.run = b].of = s.of /\ [s EXCEPT !.run = b].type = s.type /\ [s EXCEPT !.run = b].data = s.data
         /\ [s EXCEPT !.data = b] \in SoundEntry
         /\ [s EXCEPT !.data = b].run = s.run /\ [s EXCEPT !.data = b].of = s.of
<1>1. [s EXCEPT !.run = b] \in SoundEntry
  BY DEF SoundEntry
<1>2. [s EXCEPT !.data = b] \in SoundEntry
  BY DEF SoundEntry
<1>3. /\ [s EXCEPT !.run = b].run = b /\ [s EXCEPT !.data = b].run = s.run /\ [s EXCEPT !.data = b].of = s.of
      /\ [s EXCEPT !.run = b].of = s.of /\ [s EXCEPT !.run = b].type = s.type /\ [s EXCEPT !.run = b].data = s.data
  BY DEF SoundEntry
<1> QED BY <1>1, <1>2, <1>3

LEMMA InitSInv == SInit => SInv
<1> SUFFICES ASSUME SInit PROVE SInv
  OBVIOUS
<1>1. SoundTypes
  BY IdsAreNumbers
     DEF SInit, SoundTypes, SoundEntry, Threads, SoundPlaces, CallType, BenderType, CpuType, Outside, CallbackIdle, Callback, LongAgo
<1>2. (\A i \in Ids : ~sounds[i].run) /\ Tones = {} /\ spoilt = {}
  BY DEF SInit, Tones
<1>3. \A t \in Threads : call[t].at = "outside" /\ call[t].id = NoRef
  BY DEF SInit, Threads, Outside
<1>4. \A t \in Threads : EntryOf(t) = NoRef
  BY <1>3 DEF EntryOf
<1> QED
  BY <1>1, <1>2, <1>3, <1>4, IdsAreNumbers
     DEF SInv, SInit, Entries, Filling, Exclusive, GuiPlaces, Mixing, Tone, ToneOf, Pulses, At, IsOutside, Threads,
         CallbackIdle, Callback, LongAgo

-----------------------------------------------------------------------------
(* The callback ends nothing but a cry.                                    *)
LEMMA CallbackKeepsSInv == SInv /\ sound_callback => SInv'
<1> SUFFICES ASSUME SInv, sound_callback PROVE SInv'
  OBVIOUS
<1>1. SoundTypes /\ Entries /\ Mixing /\ UNCHANGED <<enable, bender, cpu, call, spoilt>>
  BY DEF SInv, sound_callback
<1>2. CASE UNCHANGED sounds /\ cb' \in [id : 0..MAX_SOUNDS, found : BOOLEAN] /\ Mixing'
  <2>1. Tones' = Tones /\ \A t \in Threads : EntryOf(t)' = EntryOf(t)
    BY <1>1, <1>2 DEF Tones, EntryOf
  <2> QED
    BY <1>1, <1>2, <2>1
       DEF SInv, SoundTypes, Entries, WholeSound, Filling, Exclusive, GuiPlaces, Tone, ToneOf, Pulses, At, IsOutside, Threads
<1>3. CASE CallbackBegins
  <2>1. cb' \in [id : 0..MAX_SOUNDS, found : BOOLEAN] /\ Mixing'
    BY <1>3, IdsAreNumbers DEF CallbackBegins, Callback, Mixing
  <2> QED BY <1>2, <1>3, <2>1 DEF CallbackBegins
<1>4. CASE CallbackLooks
  <2>1. cb.id \in Ids
    BY <1>1, <1>4, SoundAssumption DEF CallbackLooks, Locked, CallbackIdle, Callback, SoundTypes, Ids
  <2>2. cb.id + 1 \in 0..MAX_SOUNDS /\ cb.id \in 0..MAX_SOUNDS
    BY <1>1, <2>1, SoundAssumption DEF Ids
  <2>3. cb' \in [id : 0..MAX_SOUNDS, found : BOOLEAN] /\ Mixing'
    BY <1>1, <1>4, <2>1, <2>2 DEF CallbackLooks, Callback, Mixing
  <2> QED BY <1>2, <1>4, <2>3 DEF CallbackLooks
<1>5. CASE CallbackMixes
  <2> DEFINE id == cb.id
  <2>1. id \in Ids /\ id + 1 \in 0..MAX_SOUNDS /\ (id \notin spoilt => sounds[id].run)
    BY <1>1, <1>5, SoundAssumption DEF CallbackMixes, Mixing, Ids
  <2>2. cb' \in [id : 0..MAX_SOUNDS, found : BOOLEAN] /\ Mixing'
    BY <1>5, <2>1 DEF CallbackMixes, Callback, Mixing
  <2>3. CASE sounds[id].type = "synth"
    BY <1>2, <1>5, <2>2, <2>3 DEF CallbackMixes
  <2>4. CASE sounds[id].type # "synth"
    <3>0. sounds[id] \in SoundEntry
      BY <1>1, <2>1 DEF SoundTypes
    <3>1. id \notin spoilt => sounds[id].run /\ WholeSound(sounds[id], "goose")
      BY <1>1, <2>1, <2>4 DEF Entries, WholeSound
    <3> DEFINE s == sounds[id]
               n == IF s.left > 0 THEN s.left - 1 ELSE 0
               e == [s EXCEPT !.left = n, !.run = s.left > 1]
    <3>2. sounds' = [sounds EXCEPT ![id] = e]
      BY <1>5, <2>4 DEF CallbackMixes
    <3>3. /\ e \in SoundEntry
          /\ e.of = s.of /\ e.type = s.type /\ e.data = s.data
      <4>1. (s.left > 1) \in BOOLEAN /\ n \in Int
        BY <3>0 DEF SoundEntry
      <4> HIDE DEF s, n
      <4>2. s \in SoundEntry
        BY <3>0 DEF s
      <4> QED BY <4>1, <4>2 DEF SoundEntry
    <3>4. /\ sounds' \in [Ids -> SoundEntry]
          /\ \A j \in Ids : j # id => sounds'[j] = sounds[j]
          /\ sounds'[id].of = s.of /\ sounds'[id].type = s.type /\ sounds'[id].data = s.data
      <4> HIDE DEF e
      <4> QED BY <1>1, <2>1, <3>2, <3>3, Updates
    <3> HIDE DEF e
    <3>5. SoundTypes' /\ Entries'
      <4>1. id \notin spoilt => WholeSound(sounds'[id], "goose")
        BY <3>1, <3>4 DEF WholeSound
      <4>2. Entries'
        BY <1>1, <3>4, <4>1 DEF Entries
      <4>3. SoundTypes'
        BY <1>1, <2>2, <3>4 DEF SoundTypes
      <4> QED BY <4>2, <4>3
    <3>6. Tones' \ spoilt = Tones \ spoilt
      BY <3>1, <3>4 DEF Tones, WholeSound
    <3>7. \A t \in Threads : EntryOf(t)' = EntryOf(t)
      BY <1>1 DEF EntryOf
    <3>8. \A i \in Ids \ spoilt : ~sounds[i].run => sounds'[i] = sounds[i]
      BY <2>1, <3>4
    <3>9. Filling("sim", "bender")' /\ Filling("gui", "goose")' /\ Exclusive' /\ GuiPlaces' /\ Pulses'
      BY <1>1, <3>7, <3>8 DEF SInv, Filling, WholeSound, Exclusive, GuiPlaces, Pulses, At, IsOutside, Threads, EntryOf
    <3>10. Tone'
      BY <1>1, <3>6 DEF SInv, Tone, ToneOf, At, IsOutside
    <3> QED BY <2>2, <3>5, <3>9, <3>10 DEF SInv
  <2> QED BY <2>3, <2>4
<1> QED BY <1>3, <1>4, <1>5 DEF sound_callback

-----------------------------------------------------------------------------
(* A thread that changes the entry it has leaves what runs, and what the   *)
(* other thread has, as it is, but for the spoilt ones.                    *)
LEMMA ChangesItsEntry ==
  ASSUME SInv, NEW t \in Threads, EntryOf(t) \in Ids, UNCHANGED <<cb, spoilt>>,
         \A j \in Ids : j # EntryOf(t) => sounds'[j] = sounds[j]
  PROVE  /\ EntryOf(t) \notin spoilt => ~sounds[EntryOf(t)].run
         /\ \A j \in Ids \ spoilt : sounds[j].run => sounds'[j] = sounds[j]
         /\ \A u \in Threads : u # t /\ EntryOf(u) \in Ids \ spoilt => EntryOf(u) # EntryOf(t) /\ sounds'[EntryOf(u)] = sounds[EntryOf(u)]
         /\ Mixing'
<1>1. Filling("sim", "bender") /\ Filling("gui", "goose") /\ Exclusive /\ Mixing
  BY DEF SInv
<1>2. EntryOf(t) \notin spoilt => ~sounds[EntryOf(t)].run
  BY <1>1 DEF Filling, Threads
<1>3. \A j \in Ids \ spoilt : sounds[j].run => sounds'[j] = sounds[j]
  BY <1>2
<1>4. \A u \in Threads : u # t /\ EntryOf(u) \in Ids \ spoilt => EntryOf(u) # EntryOf(t)
  BY <1>1 DEF Exclusive, Threads
<1>5. Mixing'
  BY <1>1, <1>3 DEF Mixing
<1> QED BY <1>2, <1>3, <1>4, <1>5

(* What the other thread has is untouched by a step that goes elsewhere.   *)
LEMMA OtherKeepsFilling ==
  ASSUME SInv, NEW u \in Threads, NEW of, Filling(u, of), UNCHANGED <<spoilt>>, call'[u] = call[u],
         EntryOf(u) \in Ids \ spoilt => sounds'[EntryOf(u)] = sounds[EntryOf(u)]
  PROVE  Filling(u, of)' /\ EntryOf(u)' = EntryOf(u)
<1>1. EntryOf(u)' = EntryOf(u)
  BY DEF EntryOf
<1>2. At(u, "run") => EntryOf(u) = call[u].id
  BY DEF At, EntryOf
<1> QED BY <1>1, <1>2 DEF Filling, At, WholeSound

-----------------------------------------------------------------------------
(* The steps of a thread in sound.c                                        *)
LEMMA StopKeepsSInv ==
  ASSUME SInv, NEW t \in Threads, stop_sound(t), UNCHANGED <<enable, bender, cpu, cb, spoilt>>
  PROVE  SInv'
<1>1. SoundTypes /\ Entries /\ Mixing /\ Exclusive /\ GuiPlaces /\ Tone /\ Filling("sim", "bender") /\ Filling("gui", "goose")
  BY DEF SInv
<1>2. t = "sim" /\ At("sim", "stop")
  BY <1>1 DEF stop_sound, GuiPlaces, At, Threads
<1> DEFINE id == call["sim"].id
<1>3. id \in Ids /\ ToneOf(id)
  BY <1>1, <1>2 DEF Filling, Tone, At
<1>4. ~cb.found
  BY <1>2 DEF stop_sound, Locked, CallbackIdle, Callback
<1>5. sounds' = [sounds EXCEPT ![id].run = FALSE] /\ GoTo("sim", "stopped", id)
  BY <1>2 DEF stop_sound
<1>6. /\ sounds' \in [Ids -> SoundEntry] /\ ~sounds'[id].run
      /\ sounds'[id].of = sounds[id].of /\ sounds'[id].type = sounds[id].type /\ sounds'[id].data = sounds[id].data
      /\ \A j \in Ids : j # id => sounds'[j] = sounds[j]
  <2> DEFINE e == [sounds[id] EXCEPT !.run = FALSE]
  <2>0. sounds[id] \in SoundEntry
    BY <1>1, <1>3 DEF SoundTypes
  <2>1. e \in SoundEntry /\ ~e.run /\ e.of = sounds[id].of /\ e.type = sounds[id].type /\ e.data = sounds[id].data
    BY <2>0, EntryUpdates
  <2>2. sounds' = [sounds EXCEPT ![id] = e]
    BY <1>5
  <2> HIDE DEF e, id
  <2> QED BY <1>1, <1>3, <2>1, <2>2, Updates
<1>7. /\ call' \in [Threads -> CallType]
      /\ call'["sim"].at = "stopped" /\ call'["sim"].id = id /\ call'["gui"] = call["gui"]
  BY <1>1, <1>3, <1>5, Goes DEF Threads, SoundPlaces
<1>8. SoundTypes' /\ Entries' /\ Mixing'
  BY <1>1, <1>4, <1>6, <1>7 DEF SoundTypes, Entries, Mixing
<1>9. Tones' \ spoilt = {}
  BY <1>3, <1>6 DEF Tones, ToneOf
<1>10. EntryOf("sim")' = id /\ EntryOf("gui")' = EntryOf("gui")
  BY <1>7 DEF EntryOf
<1>11. Exclusive' /\ GuiPlaces'
  <2>1. id \notin spoilt => sounds[id].run
    BY <1>3 DEF ToneOf, Tones
  <2>2. id \notin spoilt => EntryOf("gui") # id
    BY <1>1, <1>3, <2>1 DEF Filling
  <2> QED BY <1>1, <1>7, <1>10, <2>2 DEF Exclusive, GuiPlaces
<1>12. Filling("sim", "bender")'
  BY <1>3, <1>6, <1>7, <1>10 DEF Filling, At
<1>13. Filling("gui", "goose")'
  <2>1. \A j \in Ids : ~sounds[j].run => ~sounds'[j].run
    BY <1>6
  <2>2. \A j \in Ids : WholeSound(sounds[j], "goose") => WholeSound(sounds'[j], "goose")
    BY <1>6 DEF WholeSound
  <2>3. At("gui", "run") => EntryOf("gui") = call["gui"].id
    BY DEF At, EntryOf
  <2> QED BY <1>1, <1>7, <1>10, <2>1, <2>2, <2>3 DEF Filling, At
<1>14. Tone'
  <2>1. enable /\ bender.ref = NoRef
    BY <1>1, <1>2 DEF Tone, At, IsOutside
  <2> QED BY <1>7, <1>9, <2>1, IdsAreNumbers DEF Tone, ToneOf, At, IsOutside
<1>15. Pulses'
  BY <1>2, <1>7 DEF SInv, Pulses, At, IsOutside
<1> QED BY <1>8, <1>11, <1>12, <1>13, <1>14, <1>15 DEF SInv

(* A step of the search that changes no entry                              *)
LEMMA SearchKeepsSInv ==
  ASSUME SInv, NEW t \in Threads, At(t, "find"), NEW at \in {"return", "find"}, NEW id \in Ids \cup {NoRef, MAX_SOUNDS},
         GoTo(t, at, id), at = "return" => id = NoRef, UNCHANGED <<sounds, enable, bender, cpu, cb, spoilt>>
  PROVE  SInv'
<1>1. SoundTypes /\ Entries /\ Mixing /\ Exclusive /\ GuiPlaces /\ Tone /\ Filling("sim", "bender") /\ Filling("gui", "goose")
  BY DEF SInv
<1>2. /\ call' \in [Threads -> CallType] /\ call'[t].at = at /\ call'[t].id = id
      /\ \A u \in Threads : u # t => call'[u] = call[u]
  BY <1>1, Goes DEF SoundPlaces
<1>3. Tones' = Tones /\ EntryOf(t)' = NoRef /\ EntryOf(t) = NoRef
  BY <1>2 DEF Tones, EntryOf, At
<1>4. \A u \in Threads : EntryOf(u)' = EntryOf(u)
  BY <1>2, <1>3 DEF EntryOf
<1>5. SoundTypes' /\ Entries' /\ Mixing' /\ Exclusive' /\ GuiPlaces'
  BY <1>1, <1>2, <1>4 DEF SoundTypes, Entries, WholeSound, Mixing, Exclusive, GuiPlaces, Threads, At
<1>6. Filling("sim", "bender")' /\ Filling("gui", "goose")'
  BY <1>1, <1>2, <1>4, IdsAreNumbers DEF Filling, WholeSound, At, Threads
<1>7. Tone' /\ Pulses'
  <2>1. CASE t = "sim"
    BY <1>1, <1>2, <1>3, <2>1, IdsAreNumbers DEF SInv, Tone, ToneOf, Pulses, At, IsOutside, Threads
  <2>2. CASE t = "gui"
    BY <1>1, <1>2, <1>3, <2>2 DEF SInv, Tone, ToneOf, Pulses, At, IsOutside, Threads
  <2> QED BY <2>1, <2>2 DEF Threads
<1> QED BY <1>5, <1>6, <1>7 DEF SInv

(* The one that finds an entry, which the other thread may have, too       *)
LEMMA FoundKeepsSInv ==
  ASSUME SInv, NEW t \in Threads, NEW id \in Ids, Look(t, id), ~sounds[id].run,
         UNCHANGED <<enable, bender, cpu, cb>>
  PROVE  SInv'
<1>1. SoundTypes /\ Entries /\ Mixing /\ Exclusive /\ GuiPlaces /\ Tone /\ Filling("sim", "bender") /\ Filling("gui", "goose")
  BY DEF SInv
<1>2. /\ GoTo(t, "clear", id) /\ At(t, "find") /\ enable /\ sounds' = sounds
      /\ spoilt' = spoilt \cup {i \in {id} : \E u \in {"sim", "gui"} \ {t} : EntryOf(u) = i}
  BY DEF Look
<1>3. /\ call' \in [Threads -> CallType] /\ call'[t].at = "clear" /\ call'[t].id = id
      /\ \A u \in Threads : u # t => call'[u] = call[u]
  BY <1>1, <1>2, Goes DEF SoundPlaces
<1>4. /\ Tones' = Tones /\ spoilt \subseteq spoilt' /\ EntryOf(t)' = id /\ \A u \in Threads : u # t => EntryOf(u)' = EntryOf(u)
  BY <1>2, <1>3 DEF Tones, EntryOf
<1>5. \A u \in Threads : u # t /\ EntryOf(u) = id => id \in spoilt'
  BY <1>2 DEF Threads
<1>6. SoundTypes' /\ Entries' /\ Mixing'
  BY <1>1, <1>2, <1>3, <1>4 DEF SoundTypes, Entries, WholeSound, Mixing
<1>7. Exclusive'
  BY <1>4, <1>5 DEF Exclusive, Threads
<1>8. GuiPlaces'
  BY <1>1, <1>3 DEF GuiPlaces, Threads
<1>9. \A u \in Threads, of \in {"bender", "goose"} : Filling(u, of) => Filling(u, of)'
  BY <1>2, <1>3, <1>4 DEF Filling, At, WholeSound
<1>10. \A x : ToneOf(x) => ToneOf(x)'
  BY <1>4 DEF ToneOf
<1>11. Tone' /\ Pulses'
  <2>1. CASE t = "sim"
    <3>1. ToneOf(NoRef)' /\ bender.ref = NoRef /\ bender.ago = 1
      BY <1>1, <1>2, <1>10, <2>1 DEF SInv, Tone, Pulses, At, IsOutside
    <3> QED BY <1>2, <1>3, <2>1, <3>1 DEF SInv, Tone, Pulses, At, IsOutside
  <2>2. CASE t = "gui"
    <3>1. call'["sim"] = call["sim"]
      BY <1>3, <2>2 DEF Threads
    <3>2. \A x : ToneOf(x) => Tones' \ spoilt' = ({x} \cap Ids) \ spoilt'
      BY <1>10 DEF ToneOf
    <3> QED BY <1>1, <1>2, <3>1, <3>2 DEF SInv, Tone, ToneOf, Pulses, At, IsOutside
  <2> QED BY <2>1, <2>2 DEF Threads
<1> QED BY <1>1, <1>6, <1>7, <1>8, <1>9, <1>11 DEF SInv, Threads

LEMMA ClearKeepsSInv ==
  ASSUME SInv, NEW t \in Threads, NEW id \in Ids, Clear(t, id), UNCHANGED <<enable, bender, cpu, cb>>
  PROVE  SInv'
<1>1. SoundTypes /\ Entries /\ Exclusive /\ GuiPlaces /\ Tone /\ Filling("sim", "bender") /\ Filling("gui", "goose")
  BY DEF SInv
<1>2. At(t, "clear") /\ call[t].id = id /\ GoTo(t, "fill", id) /\ spoilt' = spoilt
      /\ sounds' = [sounds EXCEPT ![id].data = FALSE]
  BY DEF Clear
<1>3. /\ call' \in [Threads -> CallType] /\ call'[t].at = "fill" /\ call'[t].id = id
      /\ \A u \in Threads : u # t => call'[u] = call[u]
  BY <1>1, <1>2, Goes DEF SoundPlaces
<1>4. EntryOf(t) = id /\ EntryOf(t)' = id
  BY <1>2, <1>3 DEF EntryOf, At
<1>5. /\ sounds' \in [Ids -> SoundEntry] /\ sounds'[id].run = sounds[id].run /\ sounds'[id].of = sounds[id].of
      /\ \A j \in Ids : j # id => sounds'[j] = sounds[j]
  <2> DEFINE e == [sounds[id] EXCEPT !.data = FALSE]
  <2>0. sounds[id] \in SoundEntry
    BY <1>1 DEF SoundTypes
  <2>1. e \in SoundEntry /\ e.run = sounds[id].run /\ e.of = sounds[id].of
    BY <2>0, EntryUpdates
  <2>2. sounds' = [sounds EXCEPT ![id] = e]
    BY <1>2
  <2> HIDE DEF e
  <2> QED BY <1>1, <2>1, <2>2, Updates
<1>6. /\ id \notin spoilt => ~sounds[id].run
      /\ \A j \in Ids \ spoilt : sounds[j].run => sounds'[j] = sounds[j]
      /\ \A u \in Threads : u # t /\ EntryOf(u) \in Ids \ spoilt => EntryOf(u) # id /\ sounds'[EntryOf(u)] = sounds[EntryOf(u)]
      /\ Mixing'
  BY <1>2, <1>4, <1>5, ChangesItsEntry
<1>7. SoundTypes' /\ Entries'
  BY <1>1, <1>2, <1>3, <1>5, <1>6 DEF SoundTypes, Entries
<1>8. Tones' = Tones
  BY <1>5 DEF Tones
<1>9. \A u \in Threads, of \in {"bender", "goose"} : u # t /\ Filling(u, of) => Filling(u, of)' /\ EntryOf(u)' = EntryOf(u)
  BY <1>2, <1>3, <1>6, OtherKeepsFilling
<1>10. \A of \in {"bender", "goose"} : Filling(t, of)'
  BY <1>2, <1>3, <1>4, <1>5, <1>6 DEF Filling, At
<1>11. \A u \in Threads : EntryOf(u)' = EntryOf(u)
  BY <1>3, <1>4 DEF EntryOf
<1>12. Exclusive' /\ GuiPlaces'
  BY <1>1, <1>2, <1>3, <1>11 DEF Exclusive, GuiPlaces, Threads
<1>13. Tone' /\ Pulses'
  <2>1. CASE t = "sim"
    BY <1>1, <1>2, <1>3, <1>8, <2>1 DEF SInv, Tone, ToneOf, Pulses, At, IsOutside, Threads
  <2>2. CASE t = "gui"
    BY <1>1, <1>2, <1>3, <1>8, <2>2 DEF SInv, Tone, ToneOf, Pulses, At, IsOutside, Threads
  <2> QED BY <2>1, <2>2 DEF Threads
<1> QED BY <1>1, <1>6, <1>7, <1>9, <1>10, <1>12, <1>13 DEF SInv, Threads

LEMMA FillKeepsSInv ==
  ASSUME SInv, NEW t \in Threads, NEW id \in Ids, Fill(t, id), UNCHANGED <<enable, bender, cpu, cb, spoilt>>
  PROVE  SInv'
<1> DEFINE of == IF t = "gui" THEN "goose" ELSE "bender"
           e == IF t = "gui"
                THEN [sounds[id] EXCEPT !.type = "recorded", !.data = TRUE, !.left = LENGTH, !.of = "goose"]
                ELSE [sounds[id] EXCEPT !.type = "synth", !.of = "bender"]
<1>1. SoundTypes /\ Entries /\ Exclusive /\ GuiPlaces /\ Tone /\ Filling("sim", "bender") /\ Filling("gui", "goose")
  BY DEF SInv
<1>2. At(t, "fill") /\ call[t].id = id /\ GoTo(t, "run", id) /\ sounds' = [sounds EXCEPT ![id] = e]
  BY DEF Fill
<1>3. /\ call' \in [Threads -> CallType] /\ call'[t].at = "run" /\ call'[t].id = id
      /\ \A u \in Threads : u # t => call'[u] = call[u]
  BY <1>1, <1>2, Goes DEF SoundPlaces
<1>4. EntryOf(t) = id /\ EntryOf(t)' = id
  BY <1>2, <1>3 DEF EntryOf, At
<1>5. /\ sounds' \in [Ids -> SoundEntry] /\ sounds'[id].run = sounds[id].run /\ WholeSound(sounds'[id], of)
      /\ \A j \in Ids : j # id => sounds'[j] = sounds[j]
  <2>1. sounds[id] \in SoundEntry /\ LENGTH \in Int
    BY <1>1, SoundAssumption DEF SoundTypes
  <2>2. e \in SoundEntry /\ e.run = sounds[id].run /\ WholeSound(e, of)
    <3>1. CASE t = "gui"
      BY <2>1, <3>1 DEF SoundEntry, WholeSound
    <3>2. CASE t = "sim"
      BY <2>1, <3>2 DEF SoundEntry, WholeSound
    <3> QED BY <3>1, <3>2 DEF Threads
  <2> HIDE DEF e, of
  <2> QED BY <1>1, <1>2, <2>2, Updates
<1>6. /\ id \notin spoilt => ~sounds[id].run
      /\ \A j \in Ids \ spoilt : sounds[j].run => sounds'[j] = sounds[j]
      /\ \A u \in Threads : u # t /\ EntryOf(u) \in Ids \ spoilt => EntryOf(u) # id /\ sounds'[EntryOf(u)] = sounds[EntryOf(u)]
      /\ Mixing'
  BY <1>2, <1>4, <1>5, ChangesItsEntry
<1>7. SoundTypes' /\ Entries'
  BY <1>1, <1>2, <1>3, <1>5, <1>6 DEF SoundTypes, Entries
<1>8. Tones' \ spoilt = Tones \ spoilt
  BY <1>5, <1>6 DEF Tones
<1>9. \A u \in Threads, o \in {"bender", "goose"} : u # t /\ Filling(u, o) => Filling(u, o)' /\ EntryOf(u)' = EntryOf(u)
  BY <1>2, <1>3, <1>6, OtherKeepsFilling
<1>10. Filling(t, of)'
  BY <1>2, <1>3, <1>4, <1>5, <1>6 DEF Filling, At
<1>11. \A u \in Threads : EntryOf(u)' = EntryOf(u)
  BY <1>3, <1>4 DEF EntryOf
<1>12. Exclusive' /\ GuiPlaces'
  BY <1>1, <1>2, <1>3, <1>11 DEF Exclusive, GuiPlaces, Threads
<1>13. Tone' /\ Pulses'
  <2>1. CASE t = "sim"
    BY <1>1, <1>2, <1>3, <1>8, <2>1 DEF SInv, Tone, ToneOf, Pulses, At, IsOutside, Threads
  <2>2. CASE t = "gui"
    BY <1>1, <1>2, <1>3, <1>8, <2>2 DEF SInv, Tone, ToneOf, Pulses, At, IsOutside, Threads
  <2> QED BY <2>1, <2>2 DEF Threads
<1>14. Filling("sim", "bender")' /\ Filling("gui", "goose")'
  BY <1>1, <1>9, <1>10 DEF Threads
<1> QED BY <1>6, <1>7, <1>12, <1>13, <1>14 DEF SInv

LEMMA RunKeepsSInv ==
  ASSUME SInv, NEW t \in Threads, NEW id \in Ids, Run(t, id), UNCHANGED <<enable, bender, cpu, cb, spoilt>>
  PROVE  SInv'
<1> DEFINE of == IF t = "gui" THEN "goose" ELSE "bender"
           e == [sounds[id] EXCEPT !.run = TRUE]
<1>1. SoundTypes /\ Entries /\ Exclusive /\ GuiPlaces /\ Tone /\ Filling("sim", "bender") /\ Filling("gui", "goose")
  BY DEF SInv
<1>2. At(t, "run") /\ call[t].id = id /\ GoTo(t, "return", id) /\ sounds' = [sounds EXCEPT ![id] = e]
  BY DEF Run
<1>3. /\ call' \in [Threads -> CallType] /\ call'[t].at = "return" /\ call'[t].id = id
      /\ \A u \in Threads : u # t => call'[u] = call[u]
  BY <1>1, <1>2, Goes DEF SoundPlaces
<1>4. EntryOf(t) = id /\ EntryOf(t)' = NoRef
  BY <1>2, <1>3 DEF EntryOf, At
<1>5. id \notin spoilt => WholeSound(sounds[id], of)
  BY <1>1, <1>2, <1>4 DEF Filling, Threads
<1>6. /\ sounds' \in [Ids -> SoundEntry] /\ sounds'[id].run
      /\ sounds'[id].of = sounds[id].of /\ sounds'[id].type = sounds[id].type /\ sounds'[id].data = sounds[id].data
      /\ \A j \in Ids : j # id => sounds'[j] = sounds[j]
  <2>1. sounds[id] \in SoundEntry
    BY <1>1 DEF SoundTypes
  <2>2. e \in SoundEntry /\ e.run /\ e.of = sounds[id].of /\ e.type = sounds[id].type /\ e.data = sounds[id].data
    BY <2>1, EntryUpdates
  <2> HIDE DEF e, of
  <2> QED BY <1>1, <1>2, <2>2, Updates
<1>7. /\ id \notin spoilt => ~sounds[id].run
      /\ \A j \in Ids \ spoilt : sounds[j].run => sounds'[j] = sounds[j]
      /\ \A u \in Threads : u # t /\ EntryOf(u) \in Ids \ spoilt => EntryOf(u) # id /\ sounds'[EntryOf(u)] = sounds[EntryOf(u)]
      /\ Mixing'
  BY <1>2, <1>4, <1>6, ChangesItsEntry
<1>8. id \notin spoilt => WholeSound(sounds'[id], of)
  BY <1>5, <1>6 DEF WholeSound
<1>9. SoundTypes' /\ Entries'
  <2>1. SoundTypes'
    BY <1>1, <1>3, <1>6 DEF SoundTypes
  <2>2. of \in {"bender", "goose"}
    OBVIOUS
  <2> HIDE DEF of
  <2>3. Entries'
    BY <1>1, <1>6, <1>8, <2>2 DEF Entries
  <2> QED BY <2>1, <2>3
<1>10. \A u \in Threads, o \in {"bender", "goose"} : u # t /\ Filling(u, o) => Filling(u, o)' /\ EntryOf(u)' = EntryOf(u)
  BY <1>2, <1>3, <1>7, OtherKeepsFilling
<1>11. \A o \in {"bender", "goose"} : Filling(t, o)'
  BY <1>3, <1>4, IdsAreNumbers DEF Filling, At
<1>12. Exclusive' /\ GuiPlaces'
  <2>1. \A u \in Threads : u # t => EntryOf(u)' = EntryOf(u)
    BY <1>3 DEF EntryOf
  <2> QED BY <1>1, <1>3, <1>4, <2>1, IdsAreNumbers DEF Exclusive, GuiPlaces, Threads
<1>13. Tones' \ spoilt = IF t = "sim" THEN (Tones \cup {id}) \ spoilt ELSE Tones \ spoilt
  BY <1>5, <1>6, <1>7 DEF Tones, WholeSound, Threads
<1>14. Tone' /\ Pulses'
  <2>1. CASE t = "sim"
    <3>1. ToneOf(NoRef) /\ enable
      BY <1>1, <1>2, <2>1 DEF Tone, At
    <3>2. ToneOf(id)'
      BY <1>13, <2>1, <3>1, IdsAreNumbers DEF ToneOf
    <3> QED BY <1>1, <1>2, <1>3, <2>1, <3>1, <3>2 DEF SInv, Tone, Pulses, At, IsOutside, Threads
  <2>2. CASE t = "gui"
    <3>1. Tones' \ spoilt = Tones \ spoilt /\ call'["sim"] = call["sim"]
      BY <1>3, <1>13, <2>2 DEF Threads
    <3> QED BY <1>1, <3>1 DEF SInv, Tone, ToneOf, Pulses, At, IsOutside
  <2> QED BY <2>1, <2>2 DEF Threads
<1> QED BY <1>1, <1>7, <1>9, <1>10, <1>11, <1>12, <1>14 DEF SInv, Threads

LEMMA ReturnKeepsSInv ==
  ASSUME SInv, NEW t \in Threads, Return(t)
  PROVE  SInv'
<1>1. SoundTypes /\ Entries /\ Mixing /\ Exclusive /\ GuiPlaces /\ Tone /\ Pulses /\ call[t].at = "return"
      /\ Filling("sim", "bender") /\ Filling("gui", "goose")
  BY DEF SInv, Return, At
<1>2. /\ call' \in [Threads -> CallType] /\ call'[t].at = "outside" /\ call'[t].id = NoRef
      /\ \A u \in Threads : u # t => call'[u] = call[u]
  BY <1>1, Goes DEF Return, SoundPlaces
<1>3. UNCHANGED <<sounds, enable, cpu, cb, spoilt>> /\ Tones' = Tones
  BY DEF Return, Tones
<1>4. \A u \in Threads : EntryOf(u)' = EntryOf(u)
  BY <1>1, <1>2 DEF EntryOf
<1>5. Entries' /\ Mixing' /\ Exclusive' /\ GuiPlaces' /\ Filling("sim", "bender")' /\ Filling("gui", "goose")'
  BY <1>1, <1>2, <1>3, <1>4, IdsAreNumbers DEF Entries, Mixing, Filling, WholeSound, Exclusive, GuiPlaces, At, Threads
<1>6. CASE t = "gui"
  <2>1. bender' = bender
    BY <1>6 DEF Return
  <2> QED
    BY <1>1, <1>2, <1>3, <1>5, <1>6, <2>1 DEF SInv, SoundTypes, Tone, ToneOf, Pulses, At, IsOutside, Threads
<1>7. CASE t = "sim"
  <2>1. call["sim"].id \in Ids \cup {NoRef} /\ bender' = [bender EXCEPT !.ref = call["sim"].id]
    BY <1>1, <1>7 DEF Return, Filling
  <2>2. bender' \in BenderType /\ bender'.ref = call["sim"].id /\ bender'.ago = bender.ago
    BY <1>1, <2>1 DEF SoundTypes, BenderType
  <2>3. SoundTypes'
    BY <1>1, <1>2, <1>3, <2>2 DEF SoundTypes
  <2>4. bender.ago = 1 /\ 1 \in 1..(MAX_PULSE_WIDTH + 1)
    BY <1>1, <1>7, SoundAssumption DEF Pulses, At, IsOutside
  <2>5. Tone' /\ Pulses'
    BY <1>1, <1>2, <1>3, <1>7, <2>2, <2>4 DEF Tone, ToneOf, Pulses, At, IsOutside, Threads, LongAgo
  <2> QED BY <1>5, <2>3, <2>5 DEF SInv
<1> QED BY <1>6, <1>7 DEF Threads

-----------------------------------------------------------------------------
(* The simulator's thread between two instructions, and the goose          *)
LEMMA StoppingGoes ==
  ASSUME SInv, IsOutside("sim"), Stopping("sim", bender.ref)
  PROVE  /\ call' \in [Threads -> CallType]
         /\ call'["gui"] = call["gui"]
         /\ \/ call'["sim"].at = "stop" /\ call'["sim"].id = bender.ref /\ bender.ref \in Ids /\ ToneOf(bender.ref) /\ enable
            \/ call'["sim"].at = "stopped" /\ call'["sim"].id = NoRef /\ ToneOf(NoRef)
<1>1. SoundTypes /\ Tone /\ bender.ref \in Ids \cup {NoRef} /\ ToneOf(bender.ref)
  BY DEF SInv, SoundTypes, BenderType, Tone
<1>2. CASE enable /\ bender.ref \in Ids /\ sounds[bender.ref].run
  <2>1. GoTo("sim", "stop", bender.ref)
    BY <1>2 DEF Stopping
  <2> QED BY <1>1, <1>2, <2>1, Goes DEF Threads, SoundPlaces
<1>3. CASE ~(enable /\ bender.ref \in Ids /\ sounds[bender.ref].run)
  <2>1. GoTo("sim", "stopped", NoRef)
    BY <1>3 DEF Stopping
  <2>2. bender.ref = NoRef \/ bender.ref \in spoilt
    BY <1>1, <1>3 DEF Tone, ToneOf, Tones
  <2>3. ToneOf(NoRef)
    BY <1>1, <2>2, IdsAreNumbers DEF ToneOf
  <2> QED BY <1>1, <2>1, <2>3, Goes DEF Threads, SoundPlaces
<1> QED BY <1>2, <1>3

(* A step of the simulator's thread that changes no entry and leaves it    *)
(* outside of sound.c, with the reference that it had, or none whose entry *)
(* it then has spoilt                                                      *)
LEMMA OutsideKeepsSInv ==
  ASSUME SInv, IsOutside("sim"), UNCHANGED <<sounds, enable, call, cb>>,
         bender' \in BenderType, cpu' \in CpuType, spoilt \subseteq spoilt',
         \/ bender'.ref = bender.ref
         \/ bender'.ref = NoRef /\ {bender.ref} \cap Ids \subseteq spoilt',
         Pulses'
  PROVE  SInv'
<1>1. Tones' = Tones /\ \A u \in Threads : EntryOf(u)' = EntryOf(u)
  BY DEF Tones, EntryOf
<1>2. SoundTypes /\ Entries /\ Mixing /\ Exclusive /\ GuiPlaces /\ Tone /\ Filling("sim", "bender") /\ Filling("gui", "goose")
  BY DEF SInv
<1>3. SoundTypes' /\ Entries' /\ Mixing' /\ Exclusive' /\ GuiPlaces'
  BY <1>1, <1>2 DEF SoundTypes, Entries, WholeSound, Exclusive, GuiPlaces, Mixing, Threads
<1>4. Filling("sim", "bender")' /\ Filling("gui", "goose")'
  BY <1>1, <1>2 DEF Filling, WholeSound, At, Threads
<1>5. Tone'
  <2>1. ToneOf(bender.ref) /\ call["sim"].at = "outside"
    BY <1>2 DEF Tone, IsOutside, At
  <2>2. Tones' \ spoilt' = ({bender'.ref} \cap Ids) \ spoilt'
    <3>1. CASE bender'.ref = bender.ref
      BY <1>1, <2>1, <3>1 DEF ToneOf
    <3>2. CASE bender'.ref = NoRef /\ {bender.ref} \cap Ids \subseteq spoilt'
      BY <1>1, <2>1, <3>2, IdsAreNumbers DEF ToneOf
    <3> QED BY <3>1, <3>2
  <2> QED BY <1>2, <2>1, <2>2 DEF Tone, ToneOf, At, IsOutside
<1> QED BY <1>3, <1>4, <1>5 DEF SInv

(* One that begins to stop the tone                                        *)
LEMMA StoppingKeepsSInv ==
  ASSUME SInv, IsOutside("sim"), Stopping("sim", bender.ref), UNCHANGED <<sounds, enable, cb, spoilt>>,
         bender' \in BenderType, cpu' \in CpuType,
         bender'.ref = NoRef, bender'.ago = 1 \/ bender'.width = LongAgo, ~cpu'.first
  PROVE  SInv'
<1>1. Tones' = Tones /\ \A u \in Threads : EntryOf(u)' = EntryOf(u)
  <2>1. EntryOf("sim") = NoRef /\ EntryOf("sim")' = NoRef
    BY StoppingGoes, IdsAreNumbers DEF EntryOf, IsOutside, At
  <2> QED BY <2>1, StoppingGoes DEF Tones, EntryOf, Threads
<1>2. SoundTypes /\ Entries /\ Mixing /\ Exclusive /\ GuiPlaces /\ Tone /\ Filling("sim", "bender") /\ Filling("gui", "goose")
  BY DEF SInv
<1>3. SoundTypes' /\ Entries' /\ Mixing' /\ Exclusive' /\ GuiPlaces'
  BY <1>1, <1>2, StoppingGoes DEF SoundTypes, Entries, WholeSound, Exclusive, GuiPlaces, Mixing, Threads
<1>4. Filling("sim", "bender")' /\ Filling("gui", "goose")'
  BY <1>1, <1>2, StoppingGoes, IdsAreNumbers DEF Filling, WholeSound, At, Threads, IsOutside
<1>5. Tone'
  <2>1. CASE call'["sim"].at = "stop" /\ call'["sim"].id = bender.ref /\ ToneOf(bender.ref) /\ enable
    BY <1>1, <2>1 DEF Tone, ToneOf, At, IsOutside
  <2>2. CASE call'["sim"].at = "stopped" /\ call'["sim"].id = NoRef /\ ToneOf(NoRef)
    BY <1>1, <2>2 DEF Tone, ToneOf, At, IsOutside
  <2> QED BY <2>1, <2>2, StoppingGoes
<1>6. Pulses'
  BY StoppingGoes DEF Pulses, At, IsOutside
<1> QED BY <1>3, <1>4, <1>5, <1>6 DEF SInv

LEMMA BetweenInstructionsKeepsSInv ==
  ASSUME SInv
  PROVE  bender_off \/ OtherInstruction \/ set_fo \/ SleepOrWake \/ nut_reset => SInv'
<1>1. bender \in BenderType /\ cpu \in CpuType /\ Pulses /\ MAX_PULSE_WIDTH \in Nat \ {0}
  BY SoundAssumption DEF SInv, SoundTypes
<1>2. ASSUME bender_off PROVE SInv'
  <2>1. bender' = [bender EXCEPT !.ago = LongAgo, !.width = LongAgo, !.ref = NoRef]
        /\ bender.ago # LongAgo /\ cpu' = cpu
    BY <1>2 DEF bender_off, Overdue
  <2>2. ~cpu'.first
    BY <1>1, <2>1 DEF Pulses
  <2>3. bender' \in BenderType /\ bender'.ref = NoRef /\ bender'.width = LongAgo
    BY <1>1, <2>1 DEF LongAgo, BenderType
  <2>4. IsOutside("sim") /\ Stopping("sim", bender.ref) /\ UNCHANGED <<sounds, enable, cb, spoilt>>
    BY <1>2 DEF bender_off
  <2> QED BY <1>1, <2>1, <2>2, <2>3, <2>4, StoppingKeepsSInv
<1>3. ASSUME OtherInstruction PROVE SInv'
  <2>1. bender' = [bender EXCEPT !.ago = Later(bender.ago)] /\ cpu' = [cpu EXCEPT !.first = FALSE]
        /\ ~(bender.ago # LongAgo /\ bender.ago > MAX_PULSE_WIDTH) /\ IsOutside("sim")
        /\ UNCHANGED <<sounds, enable, call, cb, spoilt>>
    BY <1>3 DEF OtherInstruction, Overdue
  <2>2. Later(bender.ago) \in Nat
    BY <1>1 DEF Later, LongAgo, BenderType
  <2>3. bender.ref # NoRef => Later(bender.ago) \in 1..(MAX_PULSE_WIDTH + 1)
    BY <1>1, <2>1 DEF Pulses, Later, LongAgo, BenderType
  <2>4. /\ bender' \in BenderType /\ cpu' \in CpuType /\ bender'.ref = bender.ref
        /\ bender'.ago = Later(bender.ago) /\ ~cpu'.first
    BY <1>1, <2>1, <2>2 DEF BenderType, CpuType
  <2>5. Pulses'
    BY <2>1, <2>3, <2>4 DEF Pulses, At, IsOutside
  <2> QED BY <2>1, <2>4, <2>5, OutsideKeepsSInv
<1>4. ASSUME set_fo PROVE SInv'
  <2> DEFINE pulse == bender.ago # LongAgo /\ bender.ago # bender.width
  <2>1. /\ IsOutside("sim") /\ UNCHANGED <<sounds, enable, cb, spoilt>>
        /\ cpu' = [cpu EXCEPT !.first = FALSE]
        /\ IF pulse THEN Stopping("sim", bender.ref) ELSE UNCHANGED call
        /\ bender' = [ago |-> IF cpu.first THEN LongAgo ELSE 1,
                      width |-> IF pulse THEN bender.ago ELSE bender.width,
                      ref |-> IF pulse THEN NoRef ELSE bender.ref]
    BY <1>4 DEF set_fo
  <2>2. bender' \in BenderType /\ cpu' \in CpuType /\ ~cpu'.first
    <3>1. cpu' \in CpuType /\ ~cpu'.first
      BY <1>1, <2>1 DEF CpuType
    <3>2. /\ (IF cpu.first THEN LongAgo ELSE 1) \in Nat
          /\ (IF pulse THEN bender.ago ELSE bender.width) \in Nat
          /\ (IF pulse THEN NoRef ELSE bender.ref) \in Ids \cup {NoRef}
      BY <1>1 DEF LongAgo, BenderType
    <3> HIDE DEF pulse
    <3> QED BY <2>1, <3>1, <3>2 DEF BenderType
  <2>3. CASE pulse
    <3>1. bender'.ref = NoRef /\ bender'.ago = 1
      BY <1>1, <2>1, <2>3 DEF Pulses
    <3> QED BY <2>1, <2>2, <2>3, <3>1, StoppingKeepsSInv
  <2>4. CASE ~pulse
    <3>1. bender'.ref = bender.ref /\ (bender.ref # NoRef => bender'.ago = 1)
      BY <1>1, <2>1, <2>4 DEF Pulses
    <3>2. UNCHANGED call
      BY <2>1, <2>4
    <3>3. Pulses'
      BY <1>1, <2>1, <2>2, <3>1, <3>2 DEF Pulses, At, IsOutside
    <3> QED BY <2>1, <2>2, <3>1, <3>2, <3>3, OutsideKeepsSInv
  <2> QED BY <2>3, <2>4
<1>5. ASSUME SleepOrWake PROVE SInv'
  <2>1. bender' = bender /\ cpu' = [cpu EXCEPT !.awake = ~@] /\ UNCHANGED call
    BY <1>5 DEF SleepOrWake
  <2>2. cpu' \in CpuType /\ cpu'.first = cpu.first
    BY <1>1, <2>1 DEF CpuType
  <2>3. Pulses'
    BY <1>1, <2>1, <2>2 DEF Pulses, At, IsOutside
  <2> QED BY <1>1, <1>5, <2>1, <2>2, <2>3, OutsideKeepsSInv DEF SleepOrWake
<1>6. ASSUME nut_reset PROVE SInv'
  <2>1. /\ IsOutside("sim") /\ cpu' = [awake |-> TRUE, first |-> TRUE]
        /\ bender' = [bender EXCEPT !.ago = LongAgo, !.ref = NoRef] /\ UNCHANGED <<sounds, enable, call, cb>>
        /\ spoilt' = spoilt \cup ({bender.ref} \cap Ids)
    BY <1>6 DEF nut_reset
  <2>2. bender' \in BenderType /\ bender'.ref = NoRef /\ bender'.ago = LongAgo
    BY <1>1, <2>1 DEF LongAgo, BenderType
  <2>3. cpu' \in CpuType /\ Pulses'
    BY <2>1, <2>2 DEF Pulses, At, IsOutside, CpuType
  <2> QED BY <2>1, <2>2, <2>3, OutsideKeepsSInv
<1> QED BY <1>2, <1>3, <1>4, <1>5, <1>6

LEMMA StoppedKeepsSInv ==
  ASSUME SInv, Stopped
  PROVE  SInv'
<1>1. SoundTypes /\ Entries /\ Mixing /\ Exclusive /\ GuiPlaces /\ Tone /\ Pulses /\ At("sim", "stopped")
      /\ Filling("sim", "bender") /\ Filling("gui", "goose")
  BY DEF SInv, Stopped
<1> DEFINE id == call["sim"].id
           next == IF bender.width = LongAgo THEN "outside" ELSE "find"
           to == IF bender.width = LongAgo THEN NoRef ELSE 0
<1>2. GoTo("sim", next, to) /\ UNCHANGED <<enable, bender, cpu, cb, spoilt>>
      /\ sounds' = IF id \in Ids THEN [sounds EXCEPT ![id].data = FALSE] ELSE sounds
  BY DEF Stopped
<1>3. /\ call' \in [Threads -> CallType] /\ call'["sim"].at = next /\ call'["sim"].id = to /\ call'["gui"] = call["gui"]
  <2>1. next \in SoundPlaces /\ to \in Ids \cup {NoRef, MAX_SOUNDS}
    BY IdsAreNumbers DEF SoundPlaces
  <2> HIDE DEF next, to
  <2> QED BY <1>1, <1>2, <2>1, Goes DEF Threads
<1>4. EntryOf("sim") = id /\ EntryOf("sim")' = NoRef /\ EntryOf("gui")' = EntryOf("gui")
  BY <1>1, <1>3 DEF EntryOf, At
<1>5. /\ sounds' \in [Ids -> SoundEntry]
      /\ \A j \in Ids : sounds'[j].run = sounds[j].run /\ sounds'[j].of = sounds[j].of
      /\ \A j \in Ids : j # id => sounds'[j] = sounds[j]
  <2>1. CASE id \in Ids
    <3> DEFINE e == [sounds[id] EXCEPT !.data = FALSE]
    <3>1. sounds[id] \in SoundEntry
      BY <1>1, <2>1 DEF SoundTypes
    <3>2. e \in SoundEntry /\ e.run = sounds[id].run /\ e.of = sounds[id].of
      BY <3>1, EntryUpdates
    <3>3. sounds' = [sounds EXCEPT ![id] = e]
      BY <1>2, <2>1
    <3> HIDE DEF e, id
    <3> QED BY <1>1, <2>1, <3>2, <3>3, Updates
  <2>2. CASE id \notin Ids
    BY <1>1, <1>2, <2>2 DEF SoundTypes
  <2> QED BY <2>1, <2>2
<1>6. /\ \A j \in Ids \ spoilt : sounds[j].run => sounds'[j] = sounds[j]
      /\ EntryOf("gui") \in Ids \ spoilt => sounds'[EntryOf("gui")] = sounds[EntryOf("gui")]
      /\ Mixing'
  <2>1. CASE id \in Ids
    BY <1>2, <1>4, <1>5, <2>1, ChangesItsEntry DEF Threads
  <2>2. CASE id \notin Ids
    <3>1. sounds' = sounds
      BY <1>2, <2>2
    <3> QED BY <1>1, <1>2, <3>1 DEF Mixing
  <2> QED BY <2>1, <2>2
<1>7. SoundTypes' /\ Entries'
  BY <1>1, <1>2, <1>3, <1>5, <1>6 DEF SoundTypes, Entries
<1>8. Tones' = Tones /\ ToneOf(NoRef) /\ bender.ref = NoRef
  BY <1>1, <1>5 DEF Tones, Tone, At, IsOutside
<1>9. Filling("gui", "goose")'
  BY <1>1, <1>2, <1>3, <1>6, OtherKeepsFilling DEF Threads
<1>10. Filling("sim", "bender")' /\ Exclusive' /\ GuiPlaces'
  BY <1>1, <1>3, <1>4, IdsAreNumbers DEF Filling, Exclusive, GuiPlaces, At
<1>11. Tone'
  BY <1>1, <1>2, <1>3, <1>8, IdsAreNumbers DEF Tone, ToneOf, At, IsOutside
<1>12. Pulses'
  BY <1>1, <1>2, <1>3 DEF Pulses, At, IsOutside
<1> QED BY <1>6, <1>7, <1>9, <1>10, <1>11, <1>12 DEF SInv

LEMMA GooseKeepsSInv ==
  ASSUME SInv, goose_click
  PROVE  SInv'
<1>1. IsOutside("gui") /\ GoTo("gui", "find", 0) /\ UNCHANGED <<sounds, enable, bender, cpu, cb, spoilt>>
  BY DEF goose_click
<1>2. /\ call' \in [Threads -> CallType]
      /\ call'["gui"].at = "find" /\ call'["gui"].id = 0 /\ call'["sim"] = call["sim"]
  BY <1>1, Goes, IdsAreNumbers DEF SInv, Threads, SoundPlaces
<1>3. Tones' = Tones /\ \A u \in Threads : EntryOf(u)' = EntryOf(u)
  BY <1>1, <1>2 DEF Tones, EntryOf, Threads, IsOutside, At
<1>4. SoundTypes' /\ Entries' /\ Mixing' /\ Exclusive' /\ GuiPlaces'
  BY <1>1, <1>2, <1>3 DEF SInv, SoundTypes, Entries, WholeSound, Exclusive, GuiPlaces, Mixing, Threads
<1>5. Filling("sim", "bender")' /\ Filling("gui", "goose")'
  BY <1>1, <1>2, <1>3, IdsAreNumbers DEF SInv, Filling, WholeSound, At, Threads
<1>6. Tone' /\ Pulses'
  BY <1>1, <1>2, <1>3 DEF SInv, Tone, ToneOf, Pulses, At, IsOutside
<1> QED BY <1>4, <1>5, <1>6 DEF SInv

LEMMA InCallKeepsSInv ==
  ASSUME SInv, NEW t \in Threads, InCall(t)
  PROVE  SInv'
<1>1. UNCHANGED <<enable, bender, cpu, cb>>
  BY DEF InCall
<1>2. ASSUME NotFound(t) PROVE SInv'
  BY <1>1, <1>2, SearchKeepsSInv DEF NotFound
<1>3. ASSUME NEW id \in Ids, Look(t, id) PROVE SInv'
  <2>1. CASE sounds[id].run
    <3>1. At(t, "find") /\ GoTo(t, "find", id + 1) /\ UNCHANGED <<sounds, spoilt>>
      BY <1>3, <2>1 DEF Look
    <3>2. id + 1 \in Ids \cup {NoRef, MAX_SOUNDS}
      BY IdsAreNumbers
    <3> QED BY <1>1, <3>1, <3>2, SearchKeepsSInv
  <2> QED BY <1>1, <1>3, <2>1, FoundKeepsSInv
<1>4. ASSUME NEW id \in Ids, Clear(t, id) PROVE SInv'
  BY <1>1, <1>4, ClearKeepsSInv
<1>5. ASSUME stop_sound(t) \/ \E id \in Ids : Fill(t, id) \/ Run(t, id), UNCHANGED spoilt PROVE SInv'
  BY <1>1, <1>5, StopKeepsSInv, FillKeepsSInv, RunKeepsSInv
<1> QED BY <1>2, <1>3, <1>4, <1>5 DEF InCall, find_open_sound_slot

LEMMA StepKeepsSInv ==
  ASSUME SInv, [SNext]_svars
  PROVE  SInv'
<1>1. CASE Sim
  BY <1>1, BetweenInstructionsKeepsSInv, StoppedKeepsSInv DEF Sim
<1>2. ASSUME NEW t \in Threads, InCall(t) \/ Return(t) PROVE SInv'
  BY <1>2, InCallKeepsSInv, ReturnKeepsSInv
<1>3. CASE UNCHANGED svars
  <2>1. UNCHANGED <<sounds, enable, bender, cpu, call, cb, spoilt>>
    BY <1>3 DEF svars
  <2>2. Tones' = Tones /\ \A u \in Threads : EntryOf(u)' = EntryOf(u)
    BY <2>1 DEF Tones, EntryOf
  <2>3. SoundTypes' /\ Entries' /\ Mixing' /\ Exclusive' /\ GuiPlaces'
    BY <2>1, <2>2 DEF SInv, SoundTypes, Entries, WholeSound, Exclusive, GuiPlaces, Mixing, Threads
  <2>4. Filling("sim", "bender")' /\ Filling("gui", "goose")'
    BY <2>1, <2>2 DEF SInv, Filling, WholeSound, At, Threads
  <2>5. Tone' /\ Pulses'
    BY <2>1, <2>2 DEF SInv, Tone, ToneOf, Pulses, At, IsOutside
  <2> QED BY <2>3, <2>4, <2>5 DEF SInv
<1> QED
  BY <1>1, <1>2, <1>3, GooseKeepsSInv, CallbackKeepsSInv DEF SNext, Threads

LEMMA SInvCorrect == SSpec => []SInv
BY InitSInv, StepKeepsSInv, PTL DEF SSpec

-----------------------------------------------------------------------------
(* Between two instructions the entry that sounds for the bender is the    *)
(* one that it will stop, whatever the goose and the callback do meanwhile *)
(* without a lock, but for the entries that both threads found open at     *)
(* once and the tone that a reset forgot.  (bender_off, bender_pulse,      *)
(* stop_sound, find_open_sound_slot)                                       *)
THEOREM TheToneIsTheBendersCorrect == SSpec => []TheToneIsTheBenders
<1>1. SInv => TheToneIsTheBenders
  BY DEF SInv, Tone, ToneOf, TheToneIsTheBenders
<1> QED BY <1>1, SInvCorrect, PTL

(* The callback mixes only what ran and was complete when it looked, but   *)
(* for the entries that both threads had.                                  *)
THEOREM MixesWhatItLookedAtCorrect == SSpec => []MixesWhatItLookedAt
<1>1. SInv => MixesWhatItLookedAt
  BY DEF SInv, Mixing, Entries, WholeSound, MixesWhatItLookedAt
<1> QED BY <1>1, SInvCorrect, PTL

(* No tone outlives its pulses by more than the longest width of a pulse,  *)
(* but for those two kinds.                                                *)
THEOREM NoToneWithoutPulsesCorrect == SSpec => []NoToneWithoutPulses
<1>1. SInv => NoToneWithoutPulses
  <2> SUFFICES ASSUME SInv, IsOutside("sim"), Tones \ spoilt # {}
               PROVE  bender.ago # LongAgo /\ bender.ago <= MAX_PULSE_WIDTH + 1
    BY DEF NoToneWithoutPulses
  <2>1. bender.ref \in Ids /\ Pulses
    BY DEF SInv, Tone, ToneOf
  <2>2. bender.ago \in 1..(MAX_PULSE_WIDTH + 1) /\ MAX_PULSE_WIDTH \in Nat
    BY <2>1, IdsAreNumbers, SoundAssumption DEF Pulses
  <2> QED BY <2>2 DEF LongAgo
<1> QED BY <1>1, SInvCorrect, PTL

-----------------------------------------------------------------------------
(* The timer chip: its registers, with the bits of its status              *)
StatusBits == LowBits \cup {"CKAEN", "CKBEN", "ALAEN", "ALBEN", "ITEN"}
ClockValue == 0..(CLOCKS - 1)
PhineasRegs ==
  [timer_sel : Timers, status : SUBSET StatusBits, clock : [Timers -> ClockValue], alarm : [Timers -> ClockValue],
   interval_timer : Nat, it_terminal_count : Nat, selected : BOOLEAN, update_counter : Int]

PhInv == phineas \in PhineasRegs /\ owed \subseteq Passings /\ PassingsAreKept

(* What a tick of the clock t makes of p: nothing is cleared, and what     *)
(* passes is recorded.                                                     *)
AlarmPasses(p, t) == {CKEN[t], ALEN[t]} \subseteq p.status /\ p.alarm[t] = (p.clock[t] + 1) % CLOCKS
Overflows(p, t) == CKEN[t] \in p.status /\ p.clock[t] = CLOCKS - 1

ClockTicked(p, q, t) ==
  /\ q \in PhineasRegs
  /\ p.status \subseteq q.status /\ q.status \subseteq p.status \cup Passings
  /\ q.alarm = p.alarm /\ \A u \in Timers : u # t => q.clock[u] = p.clock[u]
  /\ q.interval_timer = p.interval_timer /\ q.it_terminal_count = p.it_terminal_count
  /\ AlarmPasses(p, t) => ALM[t] \in q.status
  /\ Overflows(p, t) => DTZ[t] \in q.status

SameTimes(p, q) ==
  /\ q \in PhineasRegs /\ q.clock = p.clock /\ q.alarm = p.alarm
  /\ q.interval_timer = p.interval_timer /\ q.it_terminal_count = p.it_terminal_count

LEMMA PutStatus ==
  ASSUME NEW p \in PhineasRegs, NEW bits \in SUBSET StatusBits
  PROVE  SameTimes(p, [p EXCEPT !.status = bits]) /\ [p EXCEPT !.status = bits].status = bits
BY DEF PhineasRegs, SameTimes

LEMMA TimerBits ==
  ASSUME NEW t \in Timers
  PROVE  /\ ALM[t] \in Passings /\ DTZ[t] \in Passings /\ ALM[t] \in StatusBits /\ DTZ[t] \in StatusBits
         /\ CKEN[t] \in StatusBits \ LowBits /\ ALEN[t] \in StatusBits \ LowBits
BY DEF Timers, ALM, DTZ, CKEN, ALEN, Passings, StatusBits, LowBits

LEMMA NextTime ==
  ASSUME NEW old \in ClockValue
  PROVE  /\ old + 1 > CLOCKS - 1 => old = CLOCKS - 1 /\ old + 1 - CLOCKS = 0 /\ (old + 1) % CLOCKS = 0
         /\ ~(old + 1 > CLOCKS - 1) => old # CLOCKS - 1 /\ old + 1 \in ClockValue /\ (old + 1) % CLOCKS = old + 1
         /\ 0 \in ClockValue
BY PhineasAssumption DEF ClockValue

LEMMA ClockTicks ==
  ASSUME NEW p \in PhineasRegs, NEW t \in Timers
  PROVE  ClockTicked(p, phineas_increment_clock(p, t), t)
<1> DEFINE q == phineas_increment_clock(p, t)
<1> SUFFICES ClockTicked(p, q, t)
  OBVIOUS
<1>1. CASE CKEN[t] \notin p.status
  <2>1. q = p
    BY <1>1 DEF phineas_increment_clock, Has
  <2> HIDE DEF q
  <2> QED BY <1>1, <2>1 DEF ClockTicked, AlarmPasses, Overflows
<1>2. CASE CKEN[t] \in p.status
  <2> DEFINE old == p.clock[t]
             over == old + 1 > CLOCKS - 1
             new == IF over THEN old + 1 - CLOCKS ELSE old + 1
             p1 == [p EXCEPT !.clock[t] = new]
             p2 == IF over THEN Put(p1, DTZ[t], TRUE) ELSE p1
             due == IF over THEN p.alarm[t] > old \/ p.alarm[t] <= new
                               ELSE p.alarm[t] > old /\ p.alarm[t] <= new
  <2>1. q = IF ALEN[t] \in p.status /\ due THEN Put(p2, ALM[t], TRUE) ELSE p2
    BY <1>2 DEF phineas_increment_clock, Has
  <2>2. old \in ClockValue /\ p.alarm[t] \in ClockValue
    BY DEF PhineasRegs
  <2>3. new \in ClockValue /\ new = (old + 1) % CLOCKS /\ (over <=> old = CLOCKS - 1)
    BY <2>2, NextTime
  <2>4. p.alarm[t] = (old + 1) % CLOCKS => due
    BY <2>2, <2>3, PhineasAssumption DEF ClockValue
  <2> HIDE DEF due, over, new
  <2>5. p1 \in PhineasRegs /\ p1.status = p.status /\ p1.alarm = p.alarm /\ (\A u \in Timers : u # t => p1.clock[u] = p.clock[u])
        /\ p1.interval_timer = p.interval_timer /\ p1.it_terminal_count = p.it_terminal_count
    BY <2>3 DEF PhineasRegs
  <2> HIDE DEF p1
  <2>6. p2 \in PhineasRegs /\ p2.alarm = p.alarm /\ (\A u \in Timers : u # t => p2.clock[u] = p.clock[u])
        /\ p2.interval_timer = p.interval_timer /\ p2.it_terminal_count = p.it_terminal_count
        /\ p2.status = IF over THEN p.status \cup {DTZ[t]} ELSE p.status
    <3>1. CASE over
      <4>1. p2 = [p1 EXCEPT !.status = p.status \cup {DTZ[t]}]
        BY <2>5, <3>1 DEF Put
      <4>2. p.status \cup {DTZ[t]} \in SUBSET StatusBits
        BY TimerBits DEF PhineasRegs
      <4> HIDE DEF p2
      <4> QED BY <2>5, <3>1, <4>1, <4>2, PutStatus DEF SameTimes
    <3>2. CASE ~over
      BY <2>5, <3>2
    <3> QED BY <3>1, <3>2
  <2> HIDE DEF p2
  <2>7. q \in PhineasRegs /\ q.alarm = p.alarm /\ (\A u \in Timers : u # t => q.clock[u] = p.clock[u])
        /\ q.interval_timer = p.interval_timer /\ q.it_terminal_count = p.it_terminal_count
        /\ q.status = IF ALEN[t] \in p.status /\ due THEN p2.status \cup {ALM[t]} ELSE p2.status
    <3>1. CASE ALEN[t] \in p.status /\ due
      <4>1. q = [p2 EXCEPT !.status = p2.status \cup {ALM[t]}]
        BY <2>1, <3>1 DEF Put
      <4>2. p2.status \cup {ALM[t]} \in SUBSET StatusBits
        BY <2>6, TimerBits DEF PhineasRegs
      <4> HIDE DEF q
      <4> QED BY <2>6, <3>1, <4>1, <4>2, PutStatus DEF SameTimes
    <3>2. CASE ~(ALEN[t] \in p.status /\ due)
      BY <2>1, <2>6, <3>2
    <3> QED BY <3>1, <3>2
  <2> HIDE DEF q, old
  <2>8. ALM[t] \in Passings /\ DTZ[t] \in Passings
    BY TimerBits
  <2>9. p.status \subseteq q.status /\ q.status \subseteq p.status \cup Passings
    BY <2>6, <2>7, <2>8
  <2>10. AlarmPasses(p, t) => ALM[t] \in q.status
    BY <2>4, <2>7 DEF AlarmPasses, old
  <2>11. Overflows(p, t) => DTZ[t] \in q.status
    BY <2>3, <2>6, <2>7 DEF Overflows, old
  <2> QED BY <2>7, <2>9, <2>10, <2>11 DEF ClockTicked
<1> HIDE DEF q
<1> QED BY <1>1, <1>2

(* A tick clears nothing and records all that passes.                      *)
LEMMA TickRecords ==
  ASSUME NEW p \in PhineasRegs
  PROVE  /\ Ticked(p) \in PhineasRegs
         /\ p.status \subseteq Ticked(p).status
         /\ Passes(p) \subseteq Ticked(p).status /\ Passes(p) \subseteq Passings
<1> DEFINE one == phineas_increment_clock(p, "A")
           both == phineas_increment_clock(one, "B")
           q == phineas_increment_interval_timer(both)
           it == p.interval_timer + 1 >= p.it_terminal_count
<1>0. q = Ticked(p)
  BY DEF Ticked
<1>1. ClockTicked(p, one, "A")
  BY ClockTicks DEF Timers
<1>2. one \in PhineasRegs
  BY <1>1 DEF ClockTicked
<1>3. ClockTicked(one, both, "B")
  BY <1>2, ClockTicks DEF Timers
<1>4. both \in PhineasRegs
  BY <1>3 DEF ClockTicked
<1> HIDE DEF both, one
<1>5. both.interval_timer = p.interval_timer /\ both.it_terminal_count = p.it_terminal_count
  BY <1>1, <1>3 DEF ClockTicked
<1>6. "ITEN" \in both.status <=> "ITEN" \in p.status
  <2>1. "ITEN" \notin Passings
    BY DEF Passings
  <2> QED BY <1>1, <1>3, <2>1 DEF ClockTicked
<1>7. /\ q \in PhineasRegs /\ both.status \subseteq q.status
      /\ "ITEN" \in p.status /\ it => "DTZIT" \in q.status
  <2>1. CASE "ITEN" \notin both.status
    BY <1>4, <1>6, <2>1 DEF phineas_increment_interval_timer, Has
  <2>2. CASE "ITEN" \in both.status /\ it
    <3>1. [both EXCEPT !.interval_timer = 0] \in PhineasRegs /\ [both EXCEPT !.interval_timer = 0].status = both.status
      BY <1>4 DEF PhineasRegs
    <3>2. "DTZIT" \in StatusBits
      BY DEF StatusBits, LowBits, Passings
    <3> DEFINE reset == [both EXCEPT !.interval_timer = 0]
    <3>3. q = [reset EXCEPT !.status = reset.status \cup {"DTZIT"}]
      BY <1>5, <2>2 DEF phineas_increment_interval_timer, Has, Put
    <3>4. reset.status \cup {"DTZIT"} \in SUBSET StatusBits
      BY <1>4, <3>1, <3>2 DEF PhineasRegs
    <3>5. reset \in PhineasRegs /\ reset.status = both.status
      BY <3>1
    <3> HIDE DEF q, reset
    <3>6. q \in PhineasRegs /\ q.status = both.status \cup {"DTZIT"}
      BY <3>3, <3>4, <3>5, PutStatus DEF SameTimes
    <3> QED BY <1>6, <2>2, <3>6
  <2>3. CASE "ITEN" \in both.status /\ ~it
    <3>1. q = [both EXCEPT !.interval_timer = @ + 1]
      BY <1>5, <2>3 DEF phineas_increment_interval_timer, Has
    <3> HIDE DEF q
    <3> QED BY <1>4, <2>3, <3>1 DEF PhineasRegs
  <2> QED BY <2>1, <2>2, <2>3
<1> HIDE DEF q
<1>9. p.status \subseteq q.status
  BY <1>1, <1>3, <1>7 DEF ClockTicked
<1>10. AlarmPasses(p, "B") => AlarmPasses(one, "B")
  <2>1. one.clock["B"] = p.clock["B"] /\ one.alarm = p.alarm /\ p.status \subseteq one.status
    BY <1>1 DEF ClockTicked, Timers
  <2> QED BY <2>1 DEF AlarmPasses
<1>11. Overflows(p, "B") => Overflows(one, "B")
  <2>1. one.clock["B"] = p.clock["B"] /\ p.status \subseteq one.status
    BY <1>1 DEF ClockTicked, Timers
  <2> QED BY <2>1 DEF Overflows
<1>12. \A t \in Timers : (AlarmPasses(p, t) => ALM[t] \in q.status) /\ (Overflows(p, t) => DTZ[t] \in q.status)
  BY <1>1, <1>3, <1>7, <1>10, <1>11 DEF ClockTicked, Timers
<1>13. Passes(p) = {ALM[t] : t \in {u \in Timers : AlarmPasses(p, u)}}
                   \cup {DTZ[t] : t \in {u \in Timers : Overflows(p, u)}}
                   \cup (IF "ITEN" \in p.status /\ it THEN {"DTZIT"} ELSE {})
  BY DEF Passes, AlarmPasses, Overflows, Has
<1>14. "DTZIT" \in Passings
  BY DEF Passings
<1> HIDE DEF it
<1> QED BY <1>7, <1>0, <1>9, <1>12, <1>13, <1>14, TimerBits

-----------------------------------------------------------------------------
LEMMA InitPhInv == PhineasInit => PhInv
BY PhineasAssumption DEF PhineasInit, PhInv, PhineasRegs, PassingsAreKept, Timers, ClockValue, Passings

LEMMA UpdateKeepsPhInv ==
  ASSUME PhInv, NEW n, NEW p \in PhineasRegs, p.status = phineas.status, phineas_update(n, p)
  PROVE  PhInv'
<1>1. owed \subseteq Passings /\ owed \subseteq p.status
  BY DEF PhInv, PassingsAreKept
<1> DEFINE q == Ticked(p)
<1>2. /\ q \in PhineasRegs /\ p.status \subseteq q.status
      /\ Passes(p) \subseteq q.status /\ Passes(p) \subseteq Passings
  BY TickRecords
<1>3. phineas' = [q EXCEPT !.update_counter = PHINEAS_UPDATE_CYCLES] /\ owed' = owed \cup Passes(p)
  BY DEF phineas_update
<1> HIDE DEF q
<1>4. phineas' \in PhineasRegs /\ phineas'.status = q.status
  BY <1>2, <1>3, PhineasAssumption DEF PhineasRegs
<1>5. owed' \subseteq Passings /\ owed' \subseteq phineas'.status
  BY <1>1, <1>2, <1>3, <1>4
<1> QED BY <1>4, <1>5 DEF PhInv, PassingsAreKept, PhineasRegs, StatusBits, ClockValue, Passings, LowBits, Timers

LEMMA WriteKeepsPhInv == ASSUME PhInv, Write PROVE PhInv'
<1>1. phineas \in PhineasRegs /\ owed \subseteq Passings /\ owed \subseteq phineas.status
  BY DEF PhInv, PassingsAreKept
<1>2. phineas.timer_sel \in Timers
  BY <1>1 DEF PhineasRegs
<1>5. ASSUME phineas' \in PhineasRegs, owed' \subseteq Passings, owed' \subseteq phineas'.status
      PROVE  PhInv'
  BY <1>5 DEF PhInv, PassingsAreKept, PhineasRegs, StatusBits, ClockValue, Passings, LowBits, Timers
<1>3. ASSUME NEW p \in PhineasRegs, p.status = phineas.status, NEW bit \in StatusBits \ LowBits, NEW val \in BOOLEAN,
             phineas' = Put(p, bit, val), owed' = owed
      PROVE  PhInv'
  <2> DEFINE bits == IF val THEN p.status \cup {bit} ELSE p.status \ {bit}
  <2>1. Passings \subseteq LowBits
    BY DEF LowBits
  <2>2. bits \in SUBSET StatusBits /\ owed \subseteq bits
    BY <1>1, <1>3, <2>1 DEF PhineasRegs
  <2>3. phineas' = [p EXCEPT !.status = bits]
    BY <1>3 DEF Put
  <2> HIDE DEF bits
  <2>4. phineas' \in PhineasRegs /\ phineas'.status = bits
    BY <2>2, <2>3, PutStatus DEF SameTimes
  <2> QED BY <1>1, <1>3, <1>5, <2>2, <2>4
<1>4. "ITEN" \in StatusBits \ LowBits
  BY DEF StatusBits, LowBits, Passings
<1>6. CASE WriteTime
  <2>1. PICK v \in ClockValue : \/ Written([phineas EXCEPT !.clock[phineas.timer_sel] = v])
                                \/ Written([phineas EXCEPT !.alarm[phineas.timer_sel] = v])
    BY <1>6, PhineasAssumption DEF WriteTime, ClockValue
  <2>2. phineas' \in PhineasRegs /\ phineas'.status = phineas.status
    BY <1>1, <1>2, <2>1 DEF Written, PhineasRegs
  <2>3. owed' = owed
    BY <2>1 DEF Written
  <2> QED BY <1>1, <1>5, <2>2, <2>3
<1>7. CASE WriteStatus
  <2>1. PICK keep \in {Passings, {"PUS"}} \cup {LowBits \ {b} : b \in LowBits} :
          phineas' = [phineas EXCEPT !.status = @ \ (LowBits \ keep)] /\ owed' = owed \cap keep
    BY <1>7 DEF WriteStatus
  <2>2. phineas' \in PhineasRegs /\ phineas'.status = phineas.status \ (LowBits \ keep)
    BY <1>1, <2>1 DEF PhineasRegs
  <2> QED BY <1>1, <1>5, <2>1, <2>2
<1>8. CASE WriteInterval
  <2>1. CASE Written(Put(phineas, "ITEN", FALSE))
    BY <1>1, <1>3, <1>4, <2>1 DEF Written
  <2>2. CASE \E v \in CountVals :
               Written(Put([phineas EXCEPT !.interval_timer = 0, !.it_terminal_count = v], "ITEN", TRUE))
    <3>1. PICK v \in Nat :
            Written(Put([phineas EXCEPT !.interval_timer = 0, !.it_terminal_count = v], "ITEN", TRUE))
      BY <2>2, PhineasAssumption
    <3> DEFINE p == [phineas EXCEPT !.interval_timer = 0, !.it_terminal_count = v]
    <3>2. p \in PhineasRegs /\ p.status = phineas.status
      BY <1>1 DEF PhineasRegs
    <3>3. phineas' = Put(p, "ITEN", TRUE) /\ owed' = owed
      BY <3>1 DEF Written
    <3> HIDE DEF p
    <3> QED BY <1>3, <1>4, <3>2, <3>3
  <2> QED BY <1>8, <2>1, <2>2 DEF WriteInterval
<1>9. CASE WriteEnables
  <2>1. PICK val \in BOOLEAN, bits \in {ALEN, CKEN} : Written(Put(phineas, bits[phineas.timer_sel], val))
    BY <1>9 DEF WriteEnables
  <2>2. bits[phineas.timer_sel] \in StatusBits \ LowBits
    BY <1>2, <2>1, TimerBits
  <2> QED BY <1>1, <1>3, <2>1, <2>2 DEF Written
<1>10. CASE WritePointer
  <2>1. PICK t \in Timers : Written([phineas EXCEPT !.timer_sel = t])
    BY <1>10, PhineasAssumption DEF WritePointer, Timers
  <2>2. phineas' \in PhineasRegs /\ phineas'.status = phineas.status /\ owed' = owed
    BY <1>1, <2>1 DEF Written, PhineasRegs
  <2> QED BY <1>1, <1>5, <2>2
<1> QED BY <1>6, <1>7, <1>8, <1>9, <1>10 DEF Write

LEMMA StepKeepsPhInv == PhInv /\ [PhineasNext]_phvars => PhInv'
<1> SUFFICES ASSUME PhInv, [PhineasNext]_phvars PROVE PhInv'
  OBVIOUS
<1>1. phineas \in PhineasRegs /\ owed \subseteq Passings /\ owed \subseteq phineas.status
  BY DEF PhInv, PassingsAreKept
<1>2. ASSUME phineas' \in PhineasRegs, owed' \subseteq Passings, owed' \subseteq phineas'.status
      PROVE  PhInv'
  BY <1>2 DEF PhInv, PassingsAreKept, PhineasRegs, StatusBits, ClockValue, Passings, LowBits, Timers
<1>3. CASE EventCycle
  <2>1. CASE Counted(phineas) = 0
    BY <1>1, <1>3, <2>1, UpdateKeepsPhInv DEF EventCycle
  <2>2. CASE Counted(phineas) # 0
    <3>1. phineas' = [phineas EXCEPT !.update_counter = Counted(phineas)] /\ owed' = owed
      BY <1>3, <2>2 DEF EventCycle
    <3>2. Counted(phineas) \in Int
      BY <1>1 DEF Counted, PhineasRegs
    <3> QED BY <1>1, <1>2, <3>1, <3>2 DEF PhineasRegs
  <2> QED BY <2>1, <2>2
<1>4. CASE EventSleep
  BY <1>1, <1>2, <1>4, PhineasAssumption DEF EventSleep, PhineasRegs
<1>5. CASE EventWake
  BY <1>1, <1>5, UpdateKeepsPhInv DEF EventWake
<1>6. CASE EventReset
  <2>1. phineas' = [phineas EXCEPT !.status = phineas.status \cup {"PUS"}] /\ owed' = owed
    BY <1>6 DEF EventReset, Put
  <2>2. phineas.status \cup {"PUS"} \in SUBSET StatusBits
    BY <1>1 DEF StatusBits, LowBits, PhineasRegs
  <2>3. phineas' \in PhineasRegs /\ phineas'.status = phineas.status \cup {"PUS"}
    BY <1>1, <2>1, <2>2, PutStatus DEF SameTimes
  <2> QED BY <1>1, <1>2, <2>1, <2>3
<1>10. CASE EventRestore
  <2>1. PICK sel \in BOOLEAN : phineas_update(nut_reg, [phineas EXCEPT !.selected = sel])
    BY <1>10 DEF EventRestore
  <2> DEFINE p == [phineas EXCEPT !.selected = sel]
  <2>2. p \in PhineasRegs /\ p.status = phineas.status
    BY <1>1 DEF PhineasRegs
  <2> QED BY <2>1, <2>2, UpdateKeepsPhInv
<1>7. CASE EventSelect
  <2>1. PICK sel \in BOOLEAN : phineas' = [phineas EXCEPT !.selected = sel] /\ owed' = owed
    BY <1>7 DEF EventSelect
  <2> QED BY <1>1, <1>2, <2>1 DEF PhineasRegs
<1>8. CASE Write
  BY <1>8, WriteKeepsPhInv
<1>9. CASE UNCHANGED phvars
  BY <1>1, <1>2, <1>9 DEF phvars
<1> QED BY <1>3, <1>4, <1>5, <1>6, <1>7, <1>8, <1>9, <1>10 DEF PhineasNext

(* An alarm, an overflow of a clock or the end of an interval that has     *)
(* passed stays recorded until the program clears it.                      *)
THEOREM PassingsAreKeptCorrect == PhineasSpec => []PassingsAreKept
<1>1. PhineasInit => PhInv
  BY InitPhInv
<1>2. PhInv /\ [PhineasNext]_phvars => PhInv'
  BY StepKeepsPhInv
<1>3. PhInv => PassingsAreKept
  BY DEF PhInv
<1> QED BY <1>1, <1>2, <1>3, PTL DEF PhineasSpec

-----------------------------------------------------------------------------
KeyPlaces == 0..(PICK_KEY_BUFFER_SIZE - 1)
Codes == PickKeys \cup {NoKeycode}
Glyphs == Chars \cup {NoKeycode}
Rings == [count : 0..PICK_KEY_BUFFER_SIZE, head : KeyPlaces, tail : KeyPlaces, keycode : [KeyPlaces -> Codes]]
Printers == [left_ptr : 0..PRINTER_COLUMNS, cr_seen_timer : Nat, home_timer : Nat,
             buffer : [0..(PRINTER_COLUMNS - 1) -> Glyphs]]

(* A ring whose keys end at its tail, and the keys in it *)
SoundRing(b) == b \in Rings /\ b.tail = (b.head + b.count) % PICK_KEY_BUFFER_SIZE
KeysIn(b) == [i \in 1..b.count |-> b.keycode[(b.head + i - 1) % PICK_KEY_BUFFER_SIZE]]

(* A printer that is away while there is something in its line *)
Away(p) == p \in Printers /\ (p.left_ptr < PRINTER_COLUMNS <=> p.home_timer > 0)

PickInv ==
  /\ SoundRing(key_buffer)
  /\ keys \in [pressed : Seq(Codes), read : Seq(Codes)]
  /\ keys.read \o KeysIn(key_buffer) = keys.pressed
  /\ Away(printer)
  /\ paper \in [chars : Seq(Glyphs), window : Seq(Glyphs)]
  /\ paper.window \o Line(printer) = paper.chars

-----------------------------------------------------------------------------
(* The printer chip: around the ring *)
LEMMA RingSize == PICK_KEY_BUFFER_SIZE \in Nat \ {0} /\ 0 \in KeyPlaces
BY PickAssumption DEF KeyPlaces

LEMMA InTheRing ==
  ASSUME NEW x \in Int
  PROVE  x % PICK_KEY_BUFFER_SIZE \in KeyPlaces
BY RingSize, DivMod DEF KeyPlaces

LEMMA NextIsAround ==
  ASSUME NEW x \in Int
  PROVE  RingNext(x % PICK_KEY_BUFFER_SIZE) = (x + 1) % PICK_KEY_BUFFER_SIZE
<1> DEFINE B == PICK_KEY_BUFFER_SIZE
           q == x \div B
           m == x % B
           up == IF m + 1 >= B THEN q + 1 ELSE q
           rest == IF m + 1 >= B THEN 0 ELSE m + 1
<1>1. B \in Nat \ {0}
  BY RingSize
<1>2. x = q * B + m /\ q \in Int /\ m \in 0..(B - 1)
  BY <1>1, DivMod
<1>3. RingNext(m) = rest
  BY DEF RingNext
<1> HIDE DEF B, q, m
<1>4. (q + 1) * B = q * B + B /\ q * B \in Int
  BY <1>1, <1>2
<1>5. Divided(x + 1, up, B, rest)
  BY <1>1, <1>2, <1>4 DEF Divided
<1> HIDE DEF up, rest
<1>6. (x + 1) % B = rest
  BY <1>5, ModUnique
<1> QED BY <1>3, <1>6 DEF B, m

(* Less than one turn apart is at different places; a whole turn is not.   *)
LEMMA Apart ==
  ASSUME NEW x \in Int, NEW y \in Int, x < y, y < x + PICK_KEY_BUFFER_SIZE
  PROVE  x % PICK_KEY_BUFFER_SIZE # y % PICK_KEY_BUFFER_SIZE
<1> DEFINE B == PICK_KEY_BUFFER_SIZE
           p == x \div B
           q == y \div B
<1> SUFFICES ASSUME x % B = y % B PROVE FALSE
  OBVIOUS
<1>1. B \in Nat \ {0} /\ y < x + B
  BY RingSize
<1>2. x = p * B + (x % B) /\ p \in Int /\ y = q * B + (y % B) /\ q \in Int /\ x % B \in Int
  BY <1>1, DivMod
<1> HIDE DEF B, p, q
<1>3. p * B \in Int /\ q * B \in Int /\ q * B - p * B = y - x
  BY <1>1, <1>2
<1>4. CASE p < q
  <2>1. p * B + B <= q * B
    BY <1>1, <1>2, <1>4, LessByBlocks
  <2> QED BY <1>1, <1>3, <2>1
<1>5. CASE q <= p
  <2>1. q = p \/ q * B + B <= p * B
    BY <1>1, <1>2, <1>5, LessByBlocks
  <2> QED BY <1>1, <1>3, <2>1
<1> QED BY <1>2, <1>4, <1>5

(* Sequences *)
LEMMA ConcatIsAssociative ==
  ASSUME NEW S
  PROVE  \A s \in Seq(S), t \in Seq(S), u \in Seq(S) : s \o (t \o u) = (s \o t) \o u
<1> SUFFICES ASSUME NEW s \in Seq(S), NEW t \in Seq(S), NEW u \in Seq(S)
             PROVE  s \o (t \o u) = (s \o t) \o u
  OBVIOUS
<1> QED BY ConcatAssociative, SMTT(30)

LEMMA AppendThenConcat ==
  ASSUME NEW S, NEW s \in Seq(S), NEW t \in Seq(S), NEW e \in S
  PROVE  /\ s \o Append(t, e) = Append(s \o t, e)
         /\ Append(s, e) \o t = s \o (<<e>> \o t)
<1>1. <<e>> \in Seq(S) /\ s \o t \in Seq(S)
  BY ConcatProperties
<1>2. Append(t, e) = t \o <<e>> /\ Append(s, e) = s \o <<e>> /\ Append(s \o t, e) = (s \o t) \o <<e>>
  BY <1>1, AppendIsConcat
<1>3. s \o (t \o <<e>>) = (s \o t) \o <<e>> /\ (s \o <<e>>) \o t = s \o (<<e>> \o t)
  BY <1>1, ConcatAssociative
<1> QED BY <1>2, <1>3

-----------------------------------------------------------------------------
(* The keys of a ring are a sequence *)
LEMMA KeysAre ==
  ASSUME NEW b, SoundRing(b)
  PROVE  /\ KeysIn(b) \in Seq(Codes) /\ Len(KeysIn(b)) = b.count
         /\ \A i \in 1..b.count : KeysIn(b)[i] = b.keycode[(b.head + i - 1) % PICK_KEY_BUFFER_SIZE]
<1>1. b.count \in Nat /\ b.head \in Int /\ b.keycode \in [KeyPlaces -> Codes]
  BY PickAssumption DEF SoundRing, Rings, KeyPlaces
<1>2. \A i \in 1..b.count : b.keycode[(b.head + i - 1) % PICK_KEY_BUFFER_SIZE] \in Codes
  BY <1>1, InTheRing
<1>3. KeysIn(b) \in [1..b.count -> Codes]
  BY <1>2 DEF KeysIn
<1>4. KeysIn(b) \in Seq(Codes) /\ Len(KeysIn(b)) = b.count
  BY <1>1, <1>3
<1> QED BY <1>4 DEF KeysIn

(* A key that finds room comes last *)
LEMMA PressIsLast ==
  ASSUME NEW b, SoundRing(b), b.count < PICK_KEY_BUFFER_SIZE, NEW key \in Codes, NEW c,
         c = [b EXCEPT !.keycode[b.tail] = key, !.count = @ + 1, !.tail = RingNext(@)]
  PROVE  SoundRing(c) /\ KeysIn(c) = Append(KeysIn(b), key)
<1> DEFINE B == PICK_KEY_BUFFER_SIZE
<1>1. /\ B \in Nat \ {0} /\ b \in Rings /\ b.count \in 0..(B - 1) /\ b.head \in Int /\ b.tail \in KeyPlaces
      /\ b.keycode \in [KeyPlaces -> Codes] /\ b.tail = (b.head + b.count) % B
  BY RingSize DEF SoundRing, Rings, KeyPlaces
<1>2. /\ c.head = b.head /\ c.count = b.count + 1 /\ c.tail = RingNext(b.tail)
      /\ c.keycode = [b.keycode EXCEPT ![b.tail] = key]
  BY <1>1 DEF Rings
<1>3. c.tail = (c.head + c.count) % B
  BY <1>1, <1>2, NextIsAround
<1>4. c.tail \in KeyPlaces /\ c.keycode \in [KeyPlaces -> Codes] /\ c.count \in 0..B
  BY <1>1, <1>2, <1>3, InTheRing
<1>5. SoundRing(c)
  <2>1. c = [b EXCEPT !.keycode = c.keycode, !.count = c.count, !.tail = c.tail]
    BY <1>1, <1>2 DEF Rings
  <2>2. c \in Rings
    BY <1>1, <1>4, <2>1 DEF Rings
  <2> QED BY <1>3, <2>2 DEF SoundRing
<1> DEFINE ks == KeysIn(c)
           ls == KeysIn(b)
<1>6. ks \in Seq(Codes) /\ Len(ks) = b.count + 1 /\ ls \in Seq(Codes) /\ Len(ls) = b.count
  BY <1>2, <1>5, KeysAre
<1>7. ASSUME NEW i \in 1..b.count PROVE ks[i] = ls[i]
  <2> DEFINE x == b.head + i - 1
  <2>1. x \in Int /\ x < b.head + b.count /\ b.head + b.count < x + B /\ b.head + b.count \in Int
    BY <1>1
  <2>2. x % B # b.tail /\ x % B \in KeyPlaces
    BY <1>1, <2>1, Apart, InTheRing
  <2>3. ks[i] = c.keycode[x % B] /\ ls[i] = b.keycode[x % B]
    <3>1. i \in 1..c.count /\ c.head + i - 1 = x
      BY <1>1, <1>2
    <3>2. ks[i] = c.keycode[(c.head + i - 1) % B]
      BY <1>5, <3>1, KeysAre
    <3>3. ls[i] = b.keycode[x % B]
      BY KeysAre
    <3> QED BY <3>1, <3>2, <3>3
  <2> QED BY <1>1, <1>2, <2>2, <2>3
<1>8. ks[b.count + 1] = key
  <2>1. b.count + 1 \in 1..c.count /\ c.head + (b.count + 1) - 1 = b.head + b.count
    BY <1>1, <1>2
  <2>2. ks[b.count + 1] = c.keycode[(c.head + (b.count + 1) - 1) % B]
    BY <1>5, <2>1, KeysAre
  <2>3. ks[b.count + 1] = c.keycode[b.tail]
    BY <1>1, <2>1, <2>2
  <2> QED BY <1>1, <1>2, <2>3
<1> HIDE DEF ks, ls
<1>9. ks = Append(ls, key)
  <2>1. /\ Append(ls, key) \in Seq(Codes) /\ Len(Append(ls, key)) = Len(ls) + 1
        /\ \A i \in 1..Len(ls) : Append(ls, key)[i] = ls[i]
        /\ Append(ls, key)[Len(ls) + 1] = key
    BY <1>6, AppendProperties
  <2>2. \A i \in 1..Len(ks) : ks[i] = Append(ls, key)[i]
    BY <1>1, <1>6, <1>7, <1>8, <2>1
  <2>3. Len(ks) = Len(Append(ls, key))
    BY <1>6, <2>1
  <2> QED BY <1>6, <2>1, <2>2, <2>3, SeqEqual
<1> QED BY <1>5, <1>9 DEF ks, ls

(* The key that is read was the first *)
LEMMA ReadIsFirst ==
  ASSUME NEW b, SoundRing(b), b.count # 0, NEW c,
         c = [b EXCEPT !.count = @ - 1, !.head = RingNext(@)]
  PROVE  /\ SoundRing(c) /\ b.keycode[b.head] \in Codes
         /\ KeysIn(b) = <<b.keycode[b.head]>> \o KeysIn(c)
<1> DEFINE B == PICK_KEY_BUFFER_SIZE
           key == b.keycode[b.head]
<1>1. /\ B \in Nat \ {0} /\ b \in Rings /\ b.count \in 1..B /\ b.head \in 0..(B - 1) /\ b.tail \in KeyPlaces
      /\ b.keycode \in [KeyPlaces -> Codes] /\ b.tail = (b.head + b.count) % B
  BY RingSize DEF SoundRing, Rings, KeyPlaces
<1>2. c.head = RingNext(b.head) /\ c.count = b.count - 1 /\ c.tail = b.tail /\ c.keycode = b.keycode
  BY <1>1 DEF Rings
<1>3. b.head % B = b.head
  <2>1. Divided(b.head, 0, B, b.head)
    BY <1>1 DEF Divided
  <2> QED BY <2>1, ModUnique
<1>4. c.head = (b.head + 1) % B
  BY <1>1, <1>2, <1>3, NextIsAround
<1>5. ASSUME NEW d \in Nat PROVE (c.head + d) % B = (b.head + 1 + d) % B
  <2> DEFINE x == b.head + 1
             q == x \div B
             r == (x + d) \div B
  <2>0. x \in Int /\ x + d \in Int
    BY <1>1
  <2>1. x = q * B + c.head /\ q \in Int /\ c.head \in 0..(B - 1)
    BY <1>1, <1>4, <2>0, DivMod
  <2>2. x + d = r * B + ((x + d) % B) /\ r \in Int /\ (x + d) % B \in 0..(B - 1)
    BY <1>1, <2>0, DivMod
  <2> HIDE DEF x, q, r, B
  <2>3. (r - q) * B = r * B - q * B /\ r * B \in Int /\ q * B \in Int
    BY <1>1, <2>1, <2>2
  <2>4. Divided(c.head + d, r - q, B, (x + d) % B)
    <3>1. c.head + d = (r - q) * B + ((x + d) % B)
      BY <1>1, <2>1, <2>2, <2>3
    <3>2. r - q \in Int
      BY <2>1, <2>2
    <3> QED BY <1>1, <2>2, <3>1, <3>2 DEF Divided
  <2>5. (c.head + d) % B = (x + d) % B
    BY <2>4, ModUnique
  <2> QED BY <2>5 DEF x
<1>6. c.tail = (c.head + c.count) % B
  <2>1. c.count \in Nat /\ b.head + 1 + c.count = b.head + b.count
    BY <1>1, <1>2
  <2> QED BY <1>1, <1>2, <1>5, <2>1
<1>7. SoundRing(c)
  <2>1. c.head \in KeyPlaces /\ c.count \in 0..B
    BY <1>1, <1>2, <1>4, InTheRing
  <2>2. c = [b EXCEPT !.count = c.count, !.head = c.head]
    BY <1>1, <1>2 DEF Rings
  <2>3. c \in Rings
    BY <1>1, <2>1, <2>2 DEF Rings
  <2> QED BY <1>6, <2>3 DEF SoundRing
<1> DEFINE ks == KeysIn(c)
           ls == KeysIn(b)
<1>8. key \in Codes /\ <<key>> \in Seq(Codes) /\ Len(<<key>>) = 1 /\ <<key>>[1] = key
  BY <1>1 DEF KeyPlaces
<1>9. ks \in Seq(Codes) /\ Len(ks) = b.count - 1 /\ ls \in Seq(Codes) /\ Len(ls) = b.count
  BY <1>2, <1>7, KeysAre
<1>10. ls[1] = key
  <2>1. 1 \in 1..b.count /\ b.head + 1 - 1 = b.head
    BY <1>1
  <2> QED BY <1>3, <2>1, KeysAre
<1>11. ASSUME NEW i \in 1..(b.count - 1) PROVE ks[i] = ls[i + 1]
  <2>0. c.head \in Int /\ b.head \in Int /\ b.count \in Int
    <3>1. c.head \in KeyPlaces
      BY <1>7 DEF SoundRing, Rings
    <3> QED BY <1>1, <3>1 DEF KeyPlaces
  <2>1. i - 1 \in Nat /\ b.head + 1 + (i - 1) = b.head + (i + 1) - 1 /\ i \in 1..c.count /\ i + 1 \in 1..b.count
        /\ c.head + (i - 1) = c.head + i - 1
    BY <1>2, <2>0
  <2>2. ks[i] = c.keycode[(c.head + i - 1) % B]
    BY <1>7, <2>1, KeysAre, ZenonT(30)
  <2>3. ls[i + 1] = b.keycode[(b.head + (i + 1) - 1) % B]
    BY <2>1, KeysAre
  <2>4. (c.head + i - 1) % B = (b.head + (i + 1) - 1) % B
    BY <1>5, <2>1
  <2> QED BY <1>2, <2>2, <2>3, <2>4
<1> HIDE DEF ks, ls, key
<1>12. ls = <<key>> \o ks
  <2>1. /\ <<key>> \o ks \in Seq(Codes) /\ Len(<<key>> \o ks) = 1 + Len(ks)
        /\ \A i \in 1..(1 + Len(ks)) : (<<key>> \o ks)[i] = IF i <= 1 THEN <<key>>[i] ELSE ks[i - 1]
    BY <1>8, <1>9, ConcatProperties
  <2>2. ASSUME NEW i \in 1..Len(ls) PROVE ls[i] = (<<key>> \o ks)[i]
    <3>1. CASE i = 1
      BY <1>1, <1>8, <1>9, <1>10, <2>1, <3>1
    <3>2. CASE i # 1
      <4>1. i - 1 \in 1..(b.count - 1) /\ (i - 1) + 1 = i /\ i \in 1..(1 + Len(ks)) /\ ~(i <= 1)
        BY <1>1, <1>9, <3>2, SMTT(30)
      <4>2. ks[i - 1] = ls[i]
        BY <1>11, <4>1
      <4> QED BY <2>1, <4>1, <4>2
    <3> QED BY <3>1, <3>2
  <2>3. Len(ls) = Len(<<key>> \o ks)
    BY <1>1, <1>9, <2>1
  <2> QED BY <1>9, <2>1, <2>2, <2>3, SeqEqual
<1> QED BY <1>7, <1>8, <1>12 DEF ks, ls, key
-----------------------------------------------------------------------------
(* The printer's line is a sequence *)
LEMMA LineIs ==
  ASSUME NEW p \in Printers
  PROVE  /\ Line(p) \in Seq(Glyphs) /\ Len(Line(p)) = PRINTER_COLUMNS - p.left_ptr
         /\ \A j \in 1..(PRINTER_COLUMNS - p.left_ptr) : Line(p)[j] = p.buffer[PRINTER_COLUMNS - j]
<1>1. PRINTER_COLUMNS \in Nat /\ p.left_ptr \in 0..PRINTER_COLUMNS /\ p.buffer \in [0..(PRINTER_COLUMNS - 1) -> Glyphs]
  BY PickAssumption DEF Printers
<1>2. \A j \in 1..(PRINTER_COLUMNS - p.left_ptr) : PRINTER_COLUMNS - j \in 0..(PRINTER_COLUMNS - 1)
  BY <1>1
<1>3. Line(p) \in [1..(PRINTER_COLUMNS - p.left_ptr) -> Glyphs]
  BY <1>1, <1>2 DEF Line
<1>4. PRINTER_COLUMNS - p.left_ptr \in Nat
  BY <1>1
<1>5. Line(p) \in Seq(Glyphs) /\ Len(Line(p)) = PRINTER_COLUMNS - p.left_ptr
  BY <1>3, <1>4
<1> QED BY <1>5 DEF Line

(* A character that finds room comes last in the line and sends the        *)
(* printer away; one that does not changes nothing.                        *)
LEMMA PrintedIsLast ==
  ASSUME NEW p, Away(p), NEW ch \in Glyphs, p.left_ptr # 0
  PROVE  /\ Away(PrintChar(p, ch)) /\ PrintChar(p, ch).left_ptr = p.left_ptr - 1
         /\ Line(PrintChar(p, ch)) = Append(Line(p), ch)
<1> DEFINE q == PrintChar(p, ch)
<1>1. /\ PRINTER_COLUMNS \in Nat /\ p \in Printers /\ p.left_ptr \in 1..PRINTER_COLUMNS
      /\ p.cr_seen_timer \in Nat /\ p.home_timer \in Nat /\ p.buffer \in [0..(PRINTER_COLUMNS - 1) -> Glyphs]
  BY PickAssumption DEF Away, Printers
<1>2. q = [left_ptr |-> p.left_ptr - 1, buffer |-> [p.buffer EXCEPT ![p.left_ptr - 1] = ch],
           cr_seen_timer |-> p.cr_seen_timer + PICK_DELAY_CR_SEEN,
           home_timer |-> p.home_timer + PICK_DELAY_HOME]
  BY DEF PrintChar
<1>3. PICK_DELAY_CR_SEEN \in Nat \ {0} /\ PICK_DELAY_HOME \in Nat \ {0}
  BY PickAssumption
<1>4. /\ q.left_ptr = p.left_ptr - 1 /\ q.home_timer = p.home_timer + PICK_DELAY_HOME
      /\ q.buffer = [p.buffer EXCEPT ![p.left_ptr - 1] = ch]
  BY <1>2
<1>5. q \in Printers
  <2>1. [p.buffer EXCEPT ![p.left_ptr - 1] = ch] \in [0..(PRINTER_COLUMNS - 1) -> Glyphs]
    BY <1>1
  <2>2. /\ p.left_ptr - 1 \in 0..PRINTER_COLUMNS /\ p.cr_seen_timer + PICK_DELAY_CR_SEEN \in Nat
        /\ p.home_timer + PICK_DELAY_HOME \in Nat
    BY <1>1, <1>3, SMTT(30)
  <2> QED BY <1>2, <2>1, <2>2 DEF Printers
<1> HIDE DEF q
<1>6. Away(q)
  BY <1>1, <1>3, <1>4, <1>5 DEF Away
<1> DEFINE ls == Line(p)
           ms == Line(q)
           n == PRINTER_COLUMNS - p.left_ptr
<1>7. n \in Nat /\ PRINTER_COLUMNS - q.left_ptr = n + 1 /\ PRINTER_COLUMNS - (n + 1) = p.left_ptr - 1
  BY <1>1, <1>4
<1>8. ls \in Seq(Glyphs) /\ Len(ls) = n /\ \A j \in 1..n : ls[j] = p.buffer[PRINTER_COLUMNS - j]
  BY <1>1, LineIs
<1>9. ms \in Seq(Glyphs) /\ Len(ms) = n + 1 /\ \A j \in 1..(n + 1) : ms[j] = q.buffer[PRINTER_COLUMNS - j]
  <2>1. /\ ms \in Seq(Glyphs) /\ Len(ms) = PRINTER_COLUMNS - q.left_ptr
        /\ \A j \in 1..(PRINTER_COLUMNS - q.left_ptr) : ms[j] = q.buffer[PRINTER_COLUMNS - j]
    BY <1>5, LineIs
  <2> QED BY <1>7, <2>1
<1>10. \A j \in 1..n : PRINTER_COLUMNS - j \in 0..(PRINTER_COLUMNS - 1) /\ PRINTER_COLUMNS - j # p.left_ptr - 1
  BY <1>1
<1>11. p.left_ptr - 1 \in 0..(PRINTER_COLUMNS - 1)
  BY <1>1
<1> HIDE DEF ls, ms, n
<1>12. ASSUME NEW j \in 1..n PROVE ms[j] = ls[j]
  <2>1. j \in 1..(n + 1)
    BY <1>7
  <2>2. ms[j] = q.buffer[PRINTER_COLUMNS - j] /\ ls[j] = p.buffer[PRINTER_COLUMNS - j]
    BY <1>8, <1>9, <2>1
  <2>3. q.buffer[PRINTER_COLUMNS - j] = p.buffer[PRINTER_COLUMNS - j]
    BY <1>1, <1>4, <1>10
  <2> QED BY <2>2, <2>3
<1>13. ms[n + 1] = ch
  <2>1. n + 1 \in 1..(n + 1)
    BY <1>7
  <2> QED BY <1>1, <1>4, <1>7, <1>9, <1>11, <2>1
<1>14. ms = Append(ls, ch)
  <2>1. /\ Append(ls, ch) \in Seq(Glyphs) /\ Len(Append(ls, ch)) = Len(ls) + 1
        /\ \A i \in 1..Len(ls) : Append(ls, ch)[i] = ls[i]
        /\ Append(ls, ch)[Len(ls) + 1] = ch
    BY <1>8, AppendProperties
  <2>2. \A i \in 1..Len(ms) : ms[i] = Append(ls, ch)[i]
    BY <1>7, <1>8, <1>9, <1>12, <1>13, <2>1
  <2> QED BY <1>8, <1>9, <2>1, <2>2, SeqEqual
<1> QED BY <1>4, <1>6, <1>14 DEF q, ls, ms

(* A row of characters: as many as there is room for are in the line.      *)
Fitting(chs, room) == IF Len(chs) < room THEN Len(chs) ELSE room
PrintedFrom(start, chs) ==
  LET p[i \in 0..Len(chs)] == IF i = 0 THEN start ELSE PrintChar(p[i - 1], chs[i])
  IN  p

LEMMA CharStaysAway ==
  ASSUME NEW p, Away(p), NEW ch \in Glyphs
  PROVE  Away(PrintChar(p, ch))
<1>1. CASE p.left_ptr = 0
  BY <1>1 DEF PrintChar
<1>2. CASE p.left_ptr # 0
  BY <1>2, PrintedIsLast
<1> QED BY <1>1, <1>2

LEMMA PrintedFromIs ==
  ASSUME NEW start, Away(start), NEW chs \in Seq(Glyphs)
  PROVE  /\ PrintedFrom(start, chs)[0] = start
         /\ \A i \in 0..Len(chs) : i # 0 => PrintedFrom(start, chs)[i] = PrintChar(PrintedFrom(start, chs)[i - 1], chs[i])
<1> DEFINE n == Len(chs)
           V == {p \in Printers : Away(p)}
           Step == [i \in 0..n |-> [p \in V |-> IF i = 0 THEN p ELSE PrintChar(p, chs[i])]]
           P == PrintedFrom(start, chs)
<1>1. n \in Nat /\ 0 \in Int /\ n \in Int /\ 0 <= n /\ \A i \in 0..n : i # 0 => chs[i] \in Glyphs
  BY LenProperties, ElementOfSeq
<1>2. start \in V
  BY DEF Away
<1>3. ASSUME NEW i \in 0..n, i # 0, NEW p \in V PROVE PrintChar(p, chs[i]) \in V
  <2>1. Away(PrintChar(p, chs[i]))
    BY <1>1, <1>3, CharStaysAway
  <2> QED BY <2>1 DEF Away
<1>4. \A i \in 0..n : i # 0 => \A p \in V : PrintChar(p, chs[i]) \in V
  BY <1>3
<1> HIDE DEF V
<1>5. Step \in [0..n -> [V -> V]] /\ \A i \in 0..n, p \in V : i # 0 => Step[i][p] = PrintChar(p, chs[i])
  BY <1>4
<1> HIDE DEF Step, n
<1>6. PICK g : ByRecursion(g, 0, n, V, start, Step)
  BY <1>1, <1>2, <1>5, FunctionByRecursion
<1>7. ASSUME NEW i \in 0..n, i # 0 PROVE g[i] = PrintChar(g[i - 1], chs[i])
  <2>1. i - 1 \in 0..n
    BY <1>1, <1>7
  <2>2. g[i - 1] \in V /\ g[i] = Step[i][g[i - 1]]
    BY <1>6, <1>7, <2>1 DEF ByRecursion
  <2> QED BY <1>5, <1>7, <2>2
<1>8. g = [i \in 0..n |-> IF i = 0 THEN start ELSE PrintChar(g[i - 1], chs[i])]
  BY <1>6, <1>7 DEF ByRecursion
<1>9. P = [i \in 0..n |-> IF i = 0 THEN start ELSE PrintChar(P[i - 1], chs[i])]
  BY <1>8 DEF PrintedFrom, n
<1> HIDE DEF P
<1>10. P[0] = start /\ \A i \in 0..n : i # 0 => P[i] = PrintChar(P[i - 1], chs[i])
  BY <1>1, <1>9
<1> QED BY <1>10 DEF P, n

(* What the row leaves after its first i characters *)
RowSoFar(p, start, chs, i) ==
  /\ Away(p) /\ p.left_ptr = start.left_ptr - Fitting(SubSeq(chs, 1, i), start.left_ptr)
  /\ Line(p) = Line(start) \o SubSeq(chs, 1, Fitting(SubSeq(chs, 1, i), start.left_ptr))

LEMMA FittingSoFar ==
  ASSUME NEW chs \in Seq(Glyphs), NEW i \in 0..Len(chs), NEW room \in Nat
  PROVE  Fitting(SubSeq(chs, 1, i), room) = (IF i < room THEN i ELSE room)
<1>1. i \in Int /\ 1 \in Int /\ \A j \in 1..i : chs[j] \in Glyphs
  BY LenProperties, ElementOfSeq
<1>2. Len(SubSeq(chs, 1, i)) = IF 1 <= i THEN i - 1 + 1 ELSE 0
  BY <1>1, SubSeqProperties
<1>3. Len(SubSeq(chs, 1, i)) = i
  BY <1>1, <1>2
<1> QED BY <1>3 DEF Fitting

LEMMA RowIs ==
  ASSUME NEW start, Away(start), NEW chs \in Seq(Glyphs)
  PROVE  RowSoFar(PrintedFrom(start, chs)[Len(chs)], start, chs, Len(chs))
<1> DEFINE n == Len(chs)
           P == PrintedFrom(start, chs)
           room == start.left_ptr
           fit(i) == IF i < room THEN i ELSE room
           ls == Line(start)
           S == {i \in 0..n : RowSoFar(P[i], start, chs, i)}
<1>1. n \in Nat /\ n \in Int /\ 0 \in Int /\ 0 <= n /\ room \in Nat /\ ls \in Seq(Glyphs) /\ start \in Printers
  BY PickAssumption, LenProperties, LineIs DEF Away, Printers
<1>2. \A i \in 0..n : Fitting(SubSeq(chs, 1, i), room) = fit(i)
  BY <1>1, FittingSoFar
<1>3. P[0] = start /\ \A i \in 0..n : i # 0 => P[i] = PrintChar(P[i - 1], chs[i])
  BY PrintedFromIs
<1> HIDE DEF n, P, room, ls
<1>4. 0 \in S
  <2>1. 0 \in 0..n /\ fit(0) = 0 /\ SubSeq(chs, 1, 0) = <<>>
    BY <1>1, SubSeqEmpty
  <2>2. ls \o <<>> = ls
    BY <1>1, ConcatEmptySeq
  <2>3. room \in Int /\ room - 0 = room
    BY <1>1
  <2> QED BY <1>2, <1>3, <2>1, <2>2, <2>3 DEF RowSoFar, room, ls
<1>5. ASSUME NEW i \in 0..(n - 1), i \in S PROVE i + 1 \in S
  <2>1. i \in 0..n /\ i + 1 \in 0..n /\ i + 1 # 0 /\ (i + 1) - 1 = i /\ i + 1 \in 1..n
    BY <1>1
  <2>2. P[i + 1] = PrintChar(P[i], chs[i + 1])
    BY <1>3, <2>1
  <2>3. chs[i + 1] \in Glyphs
    BY <2>1, ElementOfSeq DEF n
  <2>4. Away(P[i]) /\ P[i].left_ptr = room - fit(i) /\ Line(P[i]) = ls \o SubSeq(chs, 1, fit(i))
    BY <1>2, <1>5, <2>1 DEF RowSoFar, room, ls
  <2>5. /\ Away(P[i + 1]) /\ P[i + 1].left_ptr = room - fit(i + 1)
        /\ Line(P[i + 1]) = ls \o SubSeq(chs, 1, fit(i + 1))
    <3>1. CASE i < room
      <4>1. fit(i) = i /\ fit(i + 1) = i + 1 /\ room - fit(i) # 0 /\ (room - fit(i)) - 1 = room - fit(i + 1)
        BY <1>1, <2>1, <3>1
      <4>2. /\ Away(P[i + 1]) /\ P[i + 1].left_ptr = P[i].left_ptr - 1
            /\ Line(P[i + 1]) = Append(Line(P[i]), chs[i + 1])
        BY <2>2, <2>3, <2>4, <4>1, PrintedIsLast
      <4>3. SubSeq(chs, 1, i) \in Seq(Glyphs)
        <5>1. i \in Int /\ 1 \in Int /\ \A j \in 1..i : chs[j] \in Glyphs
          BY <1>1, <2>1, ElementOfSeq DEF n
        <5> QED BY <5>1, SubSeqProperties
      <4>4. SubSeq(chs, 1, i + 1) = SubSeq(chs, 1, i) \o <<chs[i + 1]>>
        <5>1. 1 \in 1..Len(chs) /\ i + 1 \in 1..Len(chs)
          BY <1>1, <2>1 DEF n
        <5>2. SubSeq(chs, 1, i + 1) = SubSeq(chs, 1, (i + 1) - 1) \o <<chs[i + 1]>>
          BY <5>1, SubSeqRecursiveSecond
        <5> QED BY <2>1, <5>2
      <4>5. Append(SubSeq(chs, 1, i), chs[i + 1]) = SubSeq(chs, 1, i) \o <<chs[i + 1]>>
        BY <2>3, <4>3, AppendIsConcat
      <4>6. ls \o Append(SubSeq(chs, 1, i), chs[i + 1]) = Append(ls \o SubSeq(chs, 1, i), chs[i + 1])
        BY <1>1, <2>3, <4>3, AppendThenConcat
      <4> QED BY <2>4, <4>1, <4>2, <4>4, <4>5, <4>6
    <3>2. CASE ~(i < room)
      <4>1. fit(i) = room /\ fit(i + 1) = room /\ room - fit(i) = 0
        BY <1>1, <2>1, <3>2
      <4>2. P[i + 1] = P[i]
        BY <2>2, <2>4, <4>1 DEF PrintChar
      <4> QED BY <2>4, <4>1, <4>2
    <3> QED BY <3>1, <3>2
  <2>6. RowSoFar(P[i + 1], start, chs, i + 1)
    BY <1>2, <2>1, <2>5 DEF RowSoFar, room, ls
  <2> QED BY <2>1, <2>6
<1> HIDE DEF S
<1>6. n \in S
  <2>1. \A i \in 0..n : i \in S
    BY <1>1, <1>4, <1>5, Upwards
  <2> QED BY <1>1, <2>1
<1> QED BY <1>6 DEF S, n, P
-----------------------------------------------------------------------------
LEMMA InitPickInv == PickInit => PickInv
<1> SUFFICES ASSUME PickInit PROVE PickInv
  OBVIOUS
<1>1. /\ PICK_KEY_BUFFER_SIZE \in Nat \ {0} /\ PRINTER_COLUMNS \in Nat \ {0} /\ 0 \in KeyPlaces
  BY PickAssumption, RingSize
<1>2. key_buffer \in Rings /\ key_buffer.head = 0 /\ key_buffer.count = 0 /\ key_buffer.tail = 0
  BY <1>1 DEF PickInit, Rings, KeyPlaces, Codes
<1>3. SoundRing(key_buffer)
  <2>1. Divided(0, 0, PICK_KEY_BUFFER_SIZE, 0)
    BY <1>1 DEF Divided
  <2>2. 0 % PICK_KEY_BUFFER_SIZE = 0
    BY <2>1, ModUnique
  <2>3. 0 + 0 = 0
    OBVIOUS
  <2> QED BY <1>2, <2>2, <2>3 DEF SoundRing
<1>4. KeysIn(key_buffer) = <<>>
  <2>1. KeysIn(key_buffer) \in Seq(Codes) /\ Len(KeysIn(key_buffer)) = 0
    BY <1>2, <1>3, KeysAre
  <2> QED BY <2>1, EmptySeq
<1>5. Away(printer)
  BY <1>1 DEF PickInit, Away, Printers, Glyphs
<1>6. Line(printer) = <<>>
  <2>1. Line(printer) \in Seq(Glyphs) /\ Len(Line(printer)) = PRINTER_COLUMNS - printer.left_ptr
    BY <1>5, LineIs DEF Away
  <2>2. PRINTER_COLUMNS - printer.left_ptr = 0
    BY <1>1 DEF PickInit
  <2> QED BY <2>1, <2>2, EmptySeq
<1>7. <<>> \in Seq(Codes) /\ <<>> \in Seq(Glyphs) /\ <<>> \o <<>> = <<>>
  BY EmptySeq, ConcatEmptySeq
<1> QED BY <1>3, <1>4, <1>5, <1>6, <1>7 DEF PickInit, PickInv

LEMMA PressKeepsPickInv ==
  ASSUME PickInv, NEW key \in PickKeys, pick_press_key(key)
  PROVE  PickInv'
<1>1. printer' = printer /\ paper' = paper
  BY DEF pick_press_key
<1>2. /\ SoundRing(key_buffer) /\ keys \in [pressed : Seq(Codes), read : Seq(Codes)]
      /\ keys.read \o KeysIn(key_buffer) = keys.pressed /\ key \in Codes
  BY DEF PickInv, Codes
<1>3. SoundRing(key_buffer)' /\ (keys \in [pressed : Seq(Codes), read : Seq(Codes)])' /\ (keys.read \o KeysIn(key_buffer) = keys.pressed)'
  <2>1. CASE ~(key_buffer.count < PICK_KEY_BUFFER_SIZE)
    <3>1. key_buffer' = key_buffer /\ keys' = keys
      BY <2>1 DEF pick_press_key
    <3> QED BY <1>2, <3>1 DEF KeysIn, SoundRing
  <2>2. CASE key_buffer.count < PICK_KEY_BUFFER_SIZE
    <3>1. /\ key_buffer' = [key_buffer EXCEPT !.keycode[key_buffer.tail] = key, !.count = @ + 1, !.tail = RingNext(@)]
          /\ keys' = [keys EXCEPT !.pressed = Append(@, key)]
      BY <2>2 DEF pick_press_key
    <3>2. SoundRing(key_buffer') /\ KeysIn(key_buffer') = Append(KeysIn(key_buffer), key)
      BY <1>2, <2>2, <3>1, PressIsLast
    <3>3. keys'.read = keys.read /\ keys'.pressed = Append(keys.pressed, key)
      BY <1>2, <3>1
    <3>4. KeysIn(key_buffer) \in Seq(Codes) /\ Append(keys.pressed, key) \in Seq(Codes)
      BY <1>2, KeysAre, AppendProperties
    <3>5. keys.read \o Append(KeysIn(key_buffer), key) = Append(keys.read \o KeysIn(key_buffer), key)
      <4>1. keys.read \in Seq(Codes) /\ key \in Codes
        BY <1>2
      <4>2. \A s \in Seq(Codes), t \in Seq(Codes) : s \o Append(t, key) = Append(s \o t, key)
        BY <4>1, AppendThenConcat
      <4> QED BY <3>4, <4>1, <4>2
    <3>6. (keys.read \o KeysIn(key_buffer) = keys.pressed)'
      BY <1>2, <3>2, <3>3, <3>5 DEF KeysIn
    <3>7. keys' \in [pressed : Seq(Codes), read : Seq(Codes)]
      BY <1>2, <3>1, <3>4
    <3> QED BY <3>2, <3>6, <3>7 DEF SoundRing
  <2> QED BY <2>1, <2>2
<1>4. Away(printer)' /\ (paper \in [chars : Seq(Glyphs), window : Seq(Glyphs)])' /\ (paper.window \o Line(printer) = paper.chars)'
  BY <1>1 DEF PickInv, Away, Line
<1> QED BY <1>3, <1>4 DEF PickInv

LEMMA ReadKeepsPickInv == ASSUME PickInv, pick_read PROVE PickInv'
<1>1. printer' = printer /\ paper' = paper
  BY DEF pick_read
<1>2. /\ SoundRing(key_buffer) /\ keys \in [pressed : Seq(Codes), read : Seq(Codes)]
      /\ keys.read \o KeysIn(key_buffer) = keys.pressed
  BY DEF PickInv
<1>3. SoundRing(key_buffer)' /\ (keys \in [pressed : Seq(Codes), read : Seq(Codes)])' /\ (keys.read \o KeysIn(key_buffer) = keys.pressed)'
  <2>1. CASE key_buffer.count = 0
    <3>1. key_buffer' = key_buffer /\ keys' = keys
      BY <2>1 DEF pick_read
    <3> QED BY <1>2, <3>1 DEF KeysIn, SoundRing
  <2>2. CASE key_buffer.count # 0
    <3> DEFINE key == key_buffer.keycode[key_buffer.head]
    <3>1. /\ key_buffer' = [key_buffer EXCEPT !.count = @ - 1, !.head = RingNext(@)]
          /\ keys' = [keys EXCEPT !.read = Append(@, key)]
      BY <2>2 DEF pick_read
    <3>2. SoundRing(key_buffer') /\ key \in Codes /\ KeysIn(key_buffer) = <<key>> \o KeysIn(key_buffer')
      BY <1>2, <2>2, <3>1, ReadIsFirst
    <3> HIDE DEF key
    <3>3. keys'.read = Append(keys.read, key) /\ keys'.pressed = keys.pressed
      BY <1>2, <3>1
    <3>4. KeysIn(key_buffer') \in Seq(Codes) /\ Append(keys.read, key) \in Seq(Codes)
      BY <1>2, <3>2, KeysAre, AppendProperties
    <3>5. Append(keys.read, key) \o KeysIn(key_buffer') = keys.read \o (<<key>> \o KeysIn(key_buffer'))
      BY <1>2, <3>2, <3>4, AppendThenConcat
    <3>6. (keys.read \o KeysIn(key_buffer) = keys.pressed)'
      BY <1>2, <3>2, <3>3, <3>5 DEF KeysIn
    <3>7. keys' \in [pressed : Seq(Codes), read : Seq(Codes)]
      BY <1>2, <3>1, <3>4
    <3> QED BY <3>2, <3>6, <3>7 DEF SoundRing
  <2> QED BY <2>1, <2>2
<1>4. Away(printer)' /\ (paper \in [chars : Seq(Glyphs), window : Seq(Glyphs)])' /\ (paper.window \o Line(printer) = paper.chars)'
  BY <1>1 DEF PickInv, Away, Line
<1> QED BY <1>3, <1>4 DEF PickInv

LEMMA PrintKeepsPickInv ==
  ASSUME PickInv, NEW chs \in Seq(Chars), pick_op_print(chs)
  PROVE  PickInv'
<1>1. key_buffer' = key_buffer /\ keys' = keys
  BY DEF pick_op_print
<1>2. /\ Away(printer) /\ paper \in [chars : Seq(Glyphs), window : Seq(Glyphs)]
      /\ paper.window \o Line(printer) = paper.chars /\ printer \in Printers
  BY DEF PickInv, Away
<1>3. chs \in Seq(Glyphs)
  BY SeqMonotonic DEF Glyphs
<1> DEFINE n == Len(chs)
           room == Fitting(chs, printer.left_ptr)
           q == PrintedFrom(printer, chs)[n]
           row == SubSeq(chs, 1, room)
<1>4. printer' = q /\ paper' = [paper EXCEPT !.chars = @ \o row]
  BY DEF pick_op_print, PrintedFrom, Fitting
<1>5. Away(q) /\ Line(q) = Line(printer) \o row
  <2>1. RowSoFar(q, printer, chs, n)
    BY <1>2, <1>3, RowIs
  <2>2. SubSeq(chs, 1, n) = chs
    BY SubSeqFull
  <2> QED BY <2>1, <2>2 DEF RowSoFar
<1>6. row \in Seq(Glyphs)
  <2>1. n \in Nat /\ printer.left_ptr \in Nat
    BY <1>2, LenProperties, PickAssumption DEF Printers
  <2>2. room \in Int /\ 1 \in Int /\ room <= n
    BY <2>1 DEF Fitting
  <2>3. \A i \in 1..room : i \in 1..n
    BY <2>1, <2>2
  <2>4. \A i \in 1..room : chs[i] \in Glyphs
    BY <1>3, <2>3, ElementOfSeq
  <2> QED BY <2>2, <2>4, SubSeqProperties
<1> HIDE DEF n, room, q, row
<1>7. paper'.window = paper.window /\ paper'.chars = paper.chars \o row
  BY <1>2, <1>4
<1>8. Line(printer) \in Seq(Glyphs)
  BY <1>2, LineIs
<1>9. paper.window \o (Line(printer) \o row) = (paper.window \o Line(printer)) \o row
  <2>1. paper.window \in Seq(Glyphs)
    BY <1>2
  <2>2. \A s \in Seq(Glyphs), t \in Seq(Glyphs), u \in Seq(Glyphs) : s \o (t \o u) = (s \o t) \o u
    BY ConcatIsAssociative, SMTT(30)
  <2> QED BY <1>6, <1>8, <2>1, <2>2
<1>10. (paper.window \o Line(printer) = paper.chars)'
  BY <1>2, <1>4, <1>5, <1>7, <1>9 DEF Line
<1>11. paper' \in [chars : Seq(Glyphs), window : Seq(Glyphs)]
  <2>1. paper.chars \o row \in Seq(Glyphs)
    BY <1>2, <1>6, ConcatProperties
  <2> QED BY <1>2, <1>4, <2>1
<1>12. SoundRing(key_buffer)' /\ (keys \in [pressed : Seq(Codes), read : Seq(Codes)])' /\ (keys.read \o KeysIn(key_buffer) = keys.pressed)'
  BY <1>1 DEF PickInv, SoundRing, KeysIn
<1>13. Away(printer)'
  BY <1>4, <1>5 DEF Away
<1> QED BY <1>10, <1>11, <1>12, <1>13 DEF PickInv

LEMMA CycleKeepsPickInv == ASSUME PickInv, pick_cycle PROVE PickInv'
<1>1. key_buffer' = key_buffer /\ keys' = keys
  BY DEF pick_cycle
<1>2. /\ Away(printer) /\ paper \in [chars : Seq(Glyphs), window : Seq(Glyphs)]
      /\ paper.window \o Line(printer) = paper.chars /\ printer \in Printers
  BY DEF PickInv, Away
<1> DEFINE cr == IF printer.cr_seen_timer # 0 THEN printer.cr_seen_timer - 1 ELSE 0
           home == IF printer.home_timer # 0 THEN printer.home_timer - 1 ELSE 0
           prints == printer.home_timer = 1
<1>3. /\ printer' = [printer EXCEPT !.cr_seen_timer = cr, !.home_timer = home,
                                    !.left_ptr = IF prints THEN PRINTER_COLUMNS ELSE @]
      /\ paper' = IF prints THEN [paper EXCEPT !.window = @ \o Line(printer)] ELSE paper
  BY DEF pick_cycle
<1>4. cr \in Nat /\ home \in Nat /\ PRINTER_COLUMNS \in Nat /\ printer.home_timer \in Nat
  BY <1>2, PickAssumption, SMTT(30) DEF Printers
<1>5. /\ printer'.home_timer = home /\ printer'.buffer = printer.buffer
      /\ printer'.left_ptr = IF prints THEN PRINTER_COLUMNS ELSE printer.left_ptr
  BY <1>2, <1>3 DEF Printers
<1>6. printer' \in Printers
  <2>1. (IF prints THEN PRINTER_COLUMNS ELSE printer.left_ptr) \in 0..PRINTER_COLUMNS
    BY <1>2, <1>4 DEF Printers
  <2> HIDE DEF cr, home
  <2> QED BY <1>2, <1>3, <1>4, <2>1 DEF Printers
<1>7. Away(printer)'
  <2>1. CASE prints
    BY <1>4, <1>5, <1>6, <2>1 DEF Away
  <2>2. CASE ~prints
    <3>1. home > 0 <=> printer.home_timer > 0
      BY <1>4, <2>2
    <3> HIDE DEF home
    <3> QED BY <1>2, <1>5, <1>6, <2>2, <3>1 DEF Away
  <2> QED BY <2>1, <2>2
<1>8. (paper \in [chars : Seq(Glyphs), window : Seq(Glyphs)])' /\ (paper.window \o Line(printer) = paper.chars)'
  <2>1. Line(printer) \in Seq(Glyphs)
    BY <1>2, LineIs
  <2>2. CASE ~prints
    <3>1. Line(printer') = Line(printer) /\ paper' = paper
      BY <1>3, <1>5, <2>2 DEF Line
    <3> QED BY <1>2, <3>1 DEF Line
  <2>3. CASE prints
    <3>1. paper'.window = paper.window \o Line(printer) /\ paper'.chars = paper.chars
      BY <1>2, <1>3, <2>3
    <3>2. paper.window \o Line(printer) \in Seq(Glyphs)
      BY <1>2, <2>1, ConcatProperties
    <3>3. Line(printer') = <<>>
      <4>1. PRINTER_COLUMNS - printer'.left_ptr = 0
        BY <1>4, <1>5, <2>3
      <4>2. Line(printer') \in Seq(Glyphs) /\ Len(Line(printer')) = 0
        BY <1>6, <4>1, LineIs
      <4> QED BY <4>2, EmptySeq
    <3>4. (paper.window \o Line(printer)) \o <<>> = paper.window \o Line(printer)
      BY <3>2, ConcatEmptySeq
    <3>5. (paper.window \o Line(printer) = paper.chars)'
      BY <1>2, <3>1, <3>3, <3>4 DEF Line
    <3>6. paper' \in [chars : Seq(Glyphs), window : Seq(Glyphs)]
      BY <1>2, <1>3, <2>3, <3>2
    <3> QED BY <3>5, <3>6
  <2> QED BY <2>2, <2>3
<1>9. SoundRing(key_buffer)' /\ (keys \in [pressed : Seq(Codes), read : Seq(Codes)])' /\ (keys.read \o KeysIn(key_buffer) = keys.pressed)'
  BY <1>1 DEF PickInv, SoundRing, KeysIn
<1> QED BY <1>7, <1>8, <1>9 DEF PickInv

LEMMA ResetKeepsPickInv == ASSUME PickInv, pick_reset PROVE PickInv'
<1>1. /\ PICK_KEY_BUFFER_SIZE \in Nat \ {0} /\ PRINTER_COLUMNS \in Nat \ {0} /\ 0 \in KeyPlaces
  BY PickAssumption, RingSize
<1>2. key_buffer \in Rings /\ printer \in Printers
  BY DEF PickInv, SoundRing, Away
<1>3. key_buffer' \in Rings /\ key_buffer'.head = 0 /\ key_buffer'.count = 0 /\ key_buffer'.tail = 0
  <2>1. key_buffer' = [key_buffer EXCEPT !.count = 0, !.head = 0, !.tail = 0]
    BY DEF pick_reset
  <2>2. 0 \in 0..PICK_KEY_BUFFER_SIZE
    BY <1>1
  <2> QED BY <1>1, <1>2, <2>1, <2>2 DEF Rings
<1>4. SoundRing(key_buffer')
  <2>1. Divided(0, 0, PICK_KEY_BUFFER_SIZE, 0)
    BY <1>1 DEF Divided
  <2>2. 0 % PICK_KEY_BUFFER_SIZE = 0
    BY <2>1, ModUnique
  <2>3. 0 + 0 = 0
    OBVIOUS
  <2> QED BY <1>3, <2>2, <2>3 DEF SoundRing
<1>5. KeysIn(key_buffer') = <<>>
  <2>1. KeysIn(key_buffer') \in Seq(Codes) /\ Len(KeysIn(key_buffer')) = 0
    BY <1>3, <1>4, KeysAre
  <2> QED BY <2>1, EmptySeq
<1>6. Away(printer') /\ printer'.left_ptr = PRINTER_COLUMNS
  <2>1. printer' = [printer EXCEPT !.left_ptr = PRINTER_COLUMNS, !.cr_seen_timer = 0, !.home_timer = 0]
    BY DEF pick_reset
  <2>2. PRINTER_COLUMNS \in 0..PRINTER_COLUMNS /\ 0 \in Nat
    BY <1>1
  <2>3. /\ printer' \in Printers /\ printer'.left_ptr = PRINTER_COLUMNS /\ printer'.home_timer = 0
    BY <1>2, <2>1, <2>2 DEF Printers
  <2> QED BY <1>1, <2>3 DEF Away
<1>7. Line(printer') = <<>>
  <2>1. Line(printer') \in Seq(Glyphs) /\ Len(Line(printer')) = PRINTER_COLUMNS - printer'.left_ptr
    BY <1>6, LineIs DEF Away
  <2>2. PRINTER_COLUMNS - printer'.left_ptr = 0
    BY <1>1, <1>6
  <2> QED BY <2>1, <2>2, EmptySeq
<1>8. <<>> \in Seq(Codes) /\ <<>> \in Seq(Glyphs) /\ <<>> \o <<>> = <<>>
  BY EmptySeq, ConcatEmptySeq
<1>9. keys' = [pressed |-> <<>>, read |-> <<>>] /\ paper' = [chars |-> <<>>, window |-> <<>>]
  BY DEF pick_reset
<1>10. SoundRing(key_buffer)' /\ (keys.read \o KeysIn(key_buffer) = keys.pressed)'
  BY <1>4, <1>5, <1>8, <1>9 DEF SoundRing, KeysIn
<1>11. Away(printer)' /\ (paper.window \o Line(printer) = paper.chars)'
  BY <1>6, <1>7, <1>8, <1>9 DEF Away, Line
<1> QED BY <1>8, <1>9, <1>10, <1>11 DEF PickInv

LEMMA StepKeepsPickInv == PickInv /\ [PickNext]_pkvars => PickInv'
<1> SUFFICES ASSUME PickInv, [PickNext]_pkvars PROVE PickInv'
  OBVIOUS
<1>1. CASE Uses < MAX_USES /\ \E key \in PickKeys : pick_press_key(key)
  BY <1>1, PressKeepsPickInv
<1>2. CASE pick_read
  BY <1>2, ReadKeepsPickInv
<1>3. CASE PickTest
  BY <1>3 DEF PickTest, PickInv, SoundRing, KeysIn, Away, Line
<1>4. CASE pick_cycle
  BY <1>4, CycleKeepsPickInv
<1>5. CASE pick_reset
  BY <1>5, ResetKeepsPickInv
<1>6. CASE \E n \in 1..(MAX_USES - Uses) : \E chs \in [1..n -> Chars] : pick_op_print(chs)
  <2>1. Uses \in Int /\ MAX_USES \in Int
    <3>1. keys.pressed \in Seq(Codes) /\ paper.chars \in Seq(Glyphs)
      BY DEF PickInv
    <3> QED BY <3>1, LenProperties, PickAssumption DEF Uses
  <2>2. PICK n \in 1..(MAX_USES - Uses) : \E chs \in [1..n -> Chars] : pick_op_print(chs)
    BY <1>6
  <2>5. PICK chs \in [1..n -> Chars] : pick_op_print(chs)
    BY <2>2
  <2>3. n \in Nat
    BY <2>1
  <2>4. chs \in Seq(Chars)
    BY <2>3
  <2> QED BY <2>4, <2>5, PrintKeepsPickInv
<1>7. CASE UNCHANGED pkvars
  BY <1>7 DEF pkvars, PickInv, SoundRing, KeysIn, Away, Line
<1> QED BY <1>1, <1>2, <1>3, <1>4, <1>5, <1>6, <1>7 DEF PickNext

(* The program reads the keys that found room in the ring in the order in  *)
(* which they were pressed, and every character that found room in the     *)
(* line comes to the window once and in its place, for a ring and a line   *)
(* of any size and any times of the printer's way back (pick.c).           *)
THEOREM PickKeepsOrderCorrect == PickSpec => []PickKeepsOrder
<1>1. PickInv => PickKeepsOrder
  BY DEF PickInv, Away, PickKeepsOrder, Ring, KeysIn
<1>2. PickInit => PickInv
  BY InitPickInv
<1>3. PickInv /\ [PickNext]_pkvars => PickInv'
  BY StepKeepsPickInv
<1> QED BY <1>1, <1>2, <1>3, PTL DEF PickSpec

-----------------------------------------------------------------------------
(* Sequences one after another.                                            *)
LEMMA ConcatRegroups ==
  ASSUME NEW V, NEW x \in Seq(V), NEW y \in Seq(V), NEW z \in Seq(V)
  PROVE  (x \o y) \o z = x \o (y \o z)
BY ConcatAssociative

(* The two places after one that is not the last                           *)
LEMMA NextTwo ==
  ASSUME NEW m \in Nat \ {0}, NEW n, m + 1 = n, NEW i \in 1..(m - 1)
  PROVE  i \in 1..m /\ i + 1 \in 1..m /\ i + 1 # 1 /\ (i + 1) - 1 = i /\ (i + 1) + 1 \in 1..n /\ (i + 1) + 1 # 1
         /\ ((i + 1) + 1) - 1 = i + 1
OBVIOUS

(* The flattened beginnings of a sequence of sequences                     *)
Flattened(s) == LET flatten[i \in 1..Len(s)] == IF i = 1 THEN s[i] ELSE flatten[i-1] \o s[i] IN flatten

LEMMA FlattenedIs ==
  ASSUME NEW V, NEW s \in Seq(Seq(V)), s # <<>>
  PROVE  /\ \A i \in 1..Len(s) : Flattened(s)[i] \in Seq(V)
         /\ Flattened(s)[1] = s[1]
         /\ \A i \in 1..Len(s) : i # 1 => Flattened(s)[i] = Flattened(s)[i - 1] \o s[i]
         /\ FlattenSeq(s) = Flattened(s)[Len(s)]
<1> DEFINE n == Len(s)
           P == Flattened(s)
           W == Seq(V)
           Step == [i \in 1..n |-> [p \in W |-> p \o s[i]]]
<1>1. n \in Int /\ 1 \in Int /\ 1 <= n /\ n # 0 /\ \A i \in 1..n : s[i] \in W
  BY LenProperties, ElementOfSeq, EmptySeq
<1>2. \A i \in 1..n, p \in W : p \o s[i] \in W
  BY <1>1, ConcatProperties
<1>3. FlattenSeq(s) = P[n]
  BY <1>1 DEF FlattenSeq, Flattened
<1> HIDE DEF W
<1>4. Step \in [1..n -> [W -> W]] /\ \A i \in 1..n, p \in W : Step[i][p] = p \o s[i]
  BY <1>2
<1>5. s[1] \in W
  BY <1>1
<1> HIDE DEF Step, n
<1>6. PICK g : ByRecursion(g, 1, n, W, s[1], Step)
  BY <1>1, <1>4, <1>5, FunctionByRecursion
<1>7. ASSUME NEW i \in 1..n, i # 1 PROVE g[i] = g[i - 1] \o s[i]
  <2>1. i - 1 \in 1..n
    BY <1>1, <1>7
  <2>2. g[i - 1] \in W /\ g[i] = Step[i][g[i - 1]]
    BY <1>6, <1>7, <2>1 DEF ByRecursion
  <2> QED BY <1>4, <2>2
<1>8. g = [i \in 1..n |-> IF i = 1 THEN s[i] ELSE g[i - 1] \o s[i]]
  BY <1>6, <1>7 DEF ByRecursion
<1>9. P = [i \in 1..n |-> IF i = 1 THEN s[i] ELSE P[i - 1] \o s[i]]
  BY <1>8 DEF Flattened, n
<1> HIDE DEF P
<1>10. P[1] = s[1] /\ \A i \in 1..n : i # 1 => P[i] = P[i - 1] \o s[i]
  <2>1. 1 \in 1..n
    BY <1>1
  <2>2. P[1] = s[1]
    BY <1>9, <2>1
  <2>3. ASSUME NEW i \in 1..n, i # 1 PROVE P[i] = P[i - 1] \o s[i]
    BY <1>9, <2>3
  <2> QED BY <2>2, <2>3
<1> DEFINE S == {i \in 1..n : P[i] \in W}
<1>11. 1 \in S
  BY <1>1, <1>5, <1>10
<1>12. ASSUME NEW i \in 1..(n - 1), i \in S PROVE i + 1 \in S
  <2>1. i \in 1..n /\ i + 1 \in 1..n /\ i + 1 # 1 /\ (i + 1) - 1 = i
    BY <1>1
  <2>2. P[i + 1] = P[i] \o s[i + 1] /\ P[i] \in W
    BY <1>10, <1>12, <2>1
  <2>3. P[i + 1] \in W
    BY <1>2, <2>1, <2>2
  <2> QED BY <2>1, <2>3
<1> HIDE DEF S
<1>13. \A i \in 1..n : i \in S
  BY <1>1, <1>11, <1>12, Upwards
<1>14. \A i \in 1..n : P[i] \in W
  BY <1>13 DEF S
<1> QED BY <1>3, <1>10, <1>14 DEF n, P, W

(* One more sequence at the end                                            *)
LEMMA FlattenAppend ==
  ASSUME NEW V, NEW s \in Seq(Seq(V)), NEW x \in Seq(V)
  PROVE  FlattenSeq(s) \in Seq(V) /\ FlattenSeq(Append(s, x)) = FlattenSeq(s) \o x
<1> DEFINE n == Len(s)
           t == Append(s, x)
<1>1. /\ t \in Seq(Seq(V)) /\ Len(t) = n + 1 /\ t # <<>> /\ n \in Nat
      /\ \A i \in 1..n : t[i] = s[i]
      /\ t[n + 1] = x
  BY AppendProperties, LenProperties
<1>2. CASE s = <<>>
  <2>1. n = 0 /\ FlattenSeq(s) = <<>>
    BY <1>2, EmptySeq DEF FlattenSeq
  <2>2. FlattenSeq(t) = Flattened(t)[1] /\ Flattened(t)[1] = t[1] /\ t[1] = x
    <3>1. Len(t) = 1 /\ t[1] = x
      BY <1>1, <2>1
    <3> HIDE DEF t
    <3>2. FlattenSeq(t) = Flattened(t)[Len(t)] /\ Flattened(t)[1] = t[1]
      BY <1>1, FlattenedIs
    <3> QED BY <3>1, <3>2
  <2>3. <<>> \o x = x /\ <<>> \in Seq(V)
    BY ConcatEmptySeq, EmptySeq
  <2> QED BY <2>1, <2>2, <2>3
<1>3. CASE s # <<>>
  <2>1. n \in Nat \ {0} /\ 1 \in 1..n /\ n \in 1..n /\ n + 1 \in 1..(n + 1) /\ n + 1 # 1 /\ (n + 1) - 1 = n
    BY <1>1, <1>3, EmptySeq
  <2> DEFINE P == Flattened(s)
             Q == Flattened(t)
             S == {i \in 1..n : Q[i] = P[i]}
  <2>2. /\ P[1] = s[1] /\ P[n] \in Seq(V)
        /\ \A i \in 1..n : i # 1 => P[i] = P[i - 1] \o s[i]
        /\ FlattenSeq(s) = P[n]
    BY <1>3, <2>1, FlattenedIs
  <2>3. /\ Q[1] = t[1]
        /\ \A i \in 1..(n + 1) : i # 1 => Q[i] = Q[i - 1] \o t[i]
        /\ FlattenSeq(t) = Q[n + 1]
    BY <1>1, FlattenedIs
  <2> HIDE DEF P, Q, t, n
  <2>4. 1 \in S
    BY <1>1, <2>1, <2>2, <2>3
  <2>5. ASSUME NEW i \in 1..(n - 1), i \in S PROVE i + 1 \in S
    <3>1. i \in 1..n /\ i + 1 \in 1..n /\ i + 1 \in 1..(n + 1) /\ i + 1 # 1 /\ (i + 1) - 1 = i
      BY <1>1
    <3>2. P[i + 1] = P[i] \o s[i + 1] /\ Q[i + 1] = Q[i] \o t[i + 1] /\ t[i + 1] = s[i + 1] /\ Q[i] = P[i]
      BY <1>1, <2>2, <2>3, <2>5, <3>1
    <3> QED BY <3>1, <3>2
  <2> HIDE DEF S
  <2>6. \A i \in 1..n : i \in S
    <3>1. 1 \in Int /\ n \in Int /\ 1 <= n
      BY <2>1
    <3> QED BY <3>1, <2>4, <2>5, Upwards
  <2>7. Q[n] = P[n]
    BY <2>1, <2>6 DEF S
  <2>8. Q[n + 1] = Q[n] \o x
    BY <1>1, <2>1, <2>3
  <2> QED BY <2>2, <2>3, <2>7, <2>8 DEF t
<1> QED BY <1>2, <1>3

(* One more at the beginning                                               *)
LEMMA FlattenFirst ==
  ASSUME NEW V, NEW s \in Seq(Seq(V)), s # <<>>
  PROVE  Tail(s) \in Seq(Seq(V)) /\ FlattenSeq(s) = s[1] \o FlattenSeq(Tail(s))
<1> DEFINE n == Len(s)
           t == Tail(s)
<1>1. t \in Seq(Seq(V)) /\ Len(t) = n - 1 /\ n \in Nat \ {0} /\ \A i \in 1..(n - 1) : t[i] = s[i + 1]
  BY HeadTailProperties, LenProperties, EmptySeq
<1>2. s[1] \in Seq(V)
  BY <1>1, ElementOfSeq
<1>3. CASE n = 1
  <2>1. FlattenSeq(s) = s[1]
    BY <1>3, FlattenedIs
  <2>2. FlattenSeq(t) = <<>>
    <3>1. Len(t) = 0
      BY <1>1, <1>3
    <3>2. t = <<>>
      BY <1>1, <3>1, EmptySeq
    <3> QED BY <3>1, <3>2 DEF FlattenSeq
  <2>3. s[1] \o <<>> = s[1]
    BY <1>2, ConcatEmptySeq
  <2> QED BY <1>1, <2>1, <2>2, <2>3
<1>4. CASE n # 1
  <2> DEFINE m == n - 1
             P == Flattened(s)
             Q == Flattened(t)
             a == s[1]
             S == {i \in 1..m : P[i + 1] = a \o Q[i]}
  <2>1. m \in Nat \ {0} /\ m + 1 = n /\ 1 \in 1..m /\ m \in 1..m /\ m \in Int /\ 1 \in Int /\ 1 <= m
    BY <1>1, <1>4
  <2>2. t # <<>> /\ Len(t) = m
    BY <1>1, <2>1, EmptySeq
  <2>3. /\ P[1] = a
        /\ \A i \in 1..n : i # 1 => P[i] = P[i - 1] \o s[i]
        /\ FlattenSeq(s) = P[n]
    BY FlattenedIs
  <2>4. /\ \A i \in 1..m : Q[i] \in Seq(V)
        /\ Q[1] = t[1]
        /\ \A i \in 1..m : i # 1 => Q[i] = Q[i - 1] \o t[i]
        /\ FlattenSeq(t) = Q[m]
    BY <1>1, <2>2, FlattenedIs
  <2>5. \A i \in 1..m : t[i] = s[i + 1] /\ t[i] \in Seq(V)
    BY <1>1, <2>2, ElementOfSeq
  <2> HIDE DEF P, Q, t, a
  <2>6. 1 \in S
    <3>1. 2 \in 1..n /\ 2 - 1 = 1 /\ 1 + 1 = 2 /\ 2 # 1
      BY <1>1, <2>1
    <3>2. P[2] = P[1] \o s[2] /\ t[1] = s[2]
      BY <2>1, <2>3, <2>5, <3>1
    <3> QED BY <2>1, <2>3, <2>4, <3>1, <3>2
  <2>7. ASSUME NEW i \in 1..(m - 1), i \in S PROVE i + 1 \in S
    <3>1. i \in 1..m /\ i + 1 \in 1..m /\ i + 1 # 1 /\ (i + 1) - 1 = i /\ (i + 1) + 1 \in 1..n /\ (i + 1) + 1 # 1
          /\ ((i + 1) + 1) - 1 = i + 1
      <4>1. m \in Nat \ {0} /\ m + 1 = n /\ i \in 1..(m - 1)
        BY <2>1
      <4> HIDE DEF m, n
      <4> QED BY <4>1, NextTwo
    <3>2. P[(i + 1) + 1] = P[i + 1] \o s[(i + 1) + 1]
      BY <2>3, <3>1
    <3>3. Q[i + 1] = Q[i] \o t[i + 1] /\ t[i + 1] = s[(i + 1) + 1]
      BY <2>4, <2>5, <3>1
    <3>4. P[i + 1] = a \o Q[i]
      BY <2>7
    <3>5. (a \o Q[i]) \o t[i + 1] = a \o (Q[i] \o t[i + 1])
      <4>1. a \in Seq(V) /\ Q[i] \in Seq(V) /\ t[i + 1] \in Seq(V)
        BY <1>2, <2>4, <2>5, <3>1 DEF a
      <4> DEFINE x == a
                 y == Q[i]
                 z == t[i + 1]
      <4>2. x \in Seq(V) /\ y \in Seq(V) /\ z \in Seq(V)
        BY <4>1
      <4> HIDE DEF m, n, x, y, z
      <4>3. (x \o y) \o z = x \o (y \o z)
        BY ONLY <4>2, ConcatRegroups
      <4> QED BY ONLY <4>3 DEF x, y, z
    <3>6. P[(i + 1) + 1] = a \o Q[i + 1]
      BY <3>2, <3>3, <3>4, <3>5
    <3> QED BY <3>1, <3>6
  <2> HIDE DEF S
  <2>8. \A i \in 1..m : i \in S
    BY <2>1, <2>6, <2>7, Upwards
  <2>9. P[m + 1] = a \o Q[m]
    BY <2>1, <2>8 DEF S
  <2> QED BY <1>1, <2>1, <2>3, <2>4, <2>9 DEF a, t
<1> QED BY <1>3, <1>4

-----------------------------------------------------------------------------
(* What stands for a byte on paper, and the bytes that wait                *)
PrinterItems == {"data", "blank", "column"} \X Nat
PrinterBytes ==
  [kind : {"data"}, no : Nat] \cup [kind : {"run"}, of : {"blank", "column"}, n : Nat]
    \cup [kind : {"mode"}, m : SUBSET Modes]

ItemsOf(buffer) == [i \in DOMAIN buffer |-> Items(buffer[i])]
Waiting(buffer) == FlattenSeq(ItemsOf(buffer))

(* An element before a sequence *)
LEMMA ConsIs ==
  ASSUME NEW S, NEW e \in S, NEW s \in Seq(S)
  PROVE  /\ <<e>> \o s \in Seq(S) /\ <<e>> \o s # <<>> /\ Len(<<e>> \o s) = Len(s) + 1
         /\ Head(<<e>> \o s) = e /\ Tail(<<e>> \o s) = s
<1> DEFINE y == <<e>>
           r == y \o s
           n == Len(s)
<1>1. y \in Seq(S) /\ Len(y) = 1 /\ y[1] = e /\ n \in Nat
  BY LenProperties
<1> HIDE DEF y
<1>2. /\ r \in Seq(S) /\ Len(r) = 1 + n
      /\ \A i \in 1..(1 + n) : r[i] = IF i <= 1 THEN y[i] ELSE s[i - 1]
  <2>1. /\ r \in Seq(S) /\ Len(r) = Len(y) + n
        /\ \A i \in 1..(Len(y) + n) : r[i] = IF i <= Len(y) THEN y[i] ELSE s[i - Len(y)]
    BY <1>1, ConcatProperties
  <2> HIDE DEF r, n
  <2> QED BY <1>1, <2>1
<1> HIDE DEF r, n
<1>3. Len(r) = n + 1 /\ r # <<>>
  BY <1>1, <1>2, EmptySeq
<1>4. r[1] = e
  <2>1. 1 \in 1..(1 + n) /\ 1 <= 1
    BY <1>1
  <2> QED BY <1>1, <1>2, <2>1
<1>5. /\ Head(r) = r[1] /\ Tail(r) \in Seq(S) /\ Len(Tail(r)) = n
      /\ \A i \in 1..n : Tail(r)[i] = r[i + 1]
  <2>1. /\ Tail(r) \in Seq(S) /\ Len(Tail(r)) = Len(r) - 1
        /\ \A i \in 1..Len(Tail(r)) : Tail(r)[i] = r[i + 1]
    BY <1>2, <1>3, HeadTailProperties
  <2>2. Len(r) - 1 = n
    BY <1>1, <1>3
  <2> QED BY <2>1, <2>2
<1>6. ASSUME NEW i \in 1..n PROVE Tail(r)[i] = s[i]
  <2>1. i + 1 \in 1..(1 + n) /\ ~(i + 1 <= 1) /\ (i + 1) - 1 = i
    BY <1>1
  <2> QED BY <1>2, <1>5, <2>1
<1>7. Tail(r) = s
  BY <1>5, <1>6, SeqEqual DEF n
<1> QED BY <1>2, <1>3, <1>4, <1>5, <1>7 DEF r, y, n

(* The items of a byte; a run is its first blank and a shorter run.        *)
LEMMA ItemsAre ==
  ASSUME NEW b \in PrinterBytes
  PROVE  /\ Items(b) \in Seq(PrinterItems)
         /\ b.kind = "mode" => Items(b) = <<>>
         /\ b.kind = "data" => Items(b) = << <<"data", b.no>> >> /\ <<"data", b.no>> \in PrinterItems
         /\ b.kind = "run" /\ b.n = 0 => Items(b) = <<>>
<1>1. CASE b \in [kind : {"data"}, no : Nat]
  <2>1. b.kind = "data" /\ b.no \in Nat
    BY <1>1
  <2>2. Items(b) = << <<"data", b.no>> >>
    BY <2>1 DEF Items
  <2>3. <<"data", b.no>> \in PrinterItems
    BY <2>1 DEF PrinterItems
  <2> DEFINE x == <<"data", b.no>>
  <2> HIDE DEF x
  <2>4. <<x>> \in Seq(PrinterItems)
    BY <2>3 DEF x
  <2> QED BY <2>1, <2>2, <2>3, <2>4 DEF x
<1>2. CASE b \in [kind : {"run"}, of : {"blank", "column"}, n : Nat]
  <2>1. b.kind = "run" /\ b.n \in Nat /\ b.of \in {"blank", "column"}
    BY <1>2
  <2> DEFINE x == <<b.of, 0>>
             n == b.n
  <2>2. Items(b) = [i \in 1..n |-> x]
    BY <2>1 DEF Items
  <2>3. x \in PrinterItems
    BY <2>1 DEF PrinterItems
  <2> HIDE DEF x, n
  <2>4. [i \in 1..n |-> x] \in Seq(PrinterItems)
    BY <2>1, <2>3 DEF n
  <2>5. n = 0 => [i \in 1..n |-> x] = <<>>
    BY <2>1 DEF n
  <2> QED BY <2>1, <2>2, <2>4, <2>5 DEF n
<1>3. CASE b \in [kind : {"mode"}, m : SUBSET Modes]
  <2>1. b.kind = "mode" /\ Items(b) = <<>>
    BY <1>3 DEF Items
  <2> QED BY <2>1, EmptySeq
<1> QED BY <1>1, <1>2, <1>3 DEF PrinterBytes

LEMMA RunIs ==
  ASSUME NEW b \in PrinterBytes, b.kind = "run", b.n # 0
  PROVE  LET rest == [b EXCEPT !.n = @ - 1]
         IN  /\ rest \in PrinterBytes /\ <<b.of, 0>> \in PrinterItems
             /\ Items(b) = << <<b.of, 0>> >> \o Items(rest)
<1> DEFINE rest == [b EXCEPT !.n = @ - 1]
           x == <<b.of, 0>>
           n == b.n
           s == [i \in 1..n |-> x]
           t == [i \in 1..(n - 1) |-> x]
<1>1. b \in [kind : {"run"}, of : {"blank", "column"}, n : Nat]
  BY DEF PrinterBytes
<1>2. n \in Nat \ {0} /\ b.of \in {"blank", "column"} /\ n - 1 \in Nat
  BY <1>1
<1>3. rest \in [kind : {"run"}, of : {"blank", "column"}, n : Nat] /\ rest.kind = "run" /\ rest.of = b.of /\ rest.n = n - 1
  BY <1>1, <1>2
<1>4. x \in PrinterItems
  BY <1>2 DEF PrinterItems
<1>5. Items(b) = s /\ Items(rest) = t
  BY <1>3 DEF Items
<1> HIDE DEF x, n
<1>6. s \in Seq(PrinterItems) /\ t \in Seq(PrinterItems) /\ Len(s) = n /\ Len(t) = n - 1
  BY <1>2, <1>4
<1>7. <<x>> \in Seq(PrinterItems) /\ Len(<<x>>) = 1 /\ <<x>>[1] = x
  BY <1>4
<1>8. /\ <<x>> \o t \in Seq(PrinterItems) /\ Len(<<x>> \o t) = 1 + (n - 1)
      /\ \A i \in 1..(1 + (n - 1)) : (<<x>> \o t)[i] = IF i <= 1 THEN <<x>>[i] ELSE t[i - 1]
  <2> DEFINE y == <<x>>
  <2>1. y \in Seq(PrinterItems) /\ Len(y) = 1
    BY <1>7
  <2> HIDE DEF y, t
  <2>2. /\ y \o t \in Seq(PrinterItems) /\ Len(y \o t) = Len(y) + Len(t)
        /\ \A i \in 1..(Len(y) + Len(t)) : (y \o t)[i] = IF i <= Len(y) THEN y[i] ELSE t[i - Len(y)]
    BY <1>6, <2>1, ConcatProperties
  <2> QED BY <1>6, <2>1, <2>2 DEF y
<1>9. ASSUME NEW i \in 1..n PROVE (<<x>> \o t)[i] = s[i]
  <2>1. i \in 1..(1 + (n - 1)) /\ s[i] = x
    BY <1>2
  <2>2. CASE i = 1
    BY <1>7, <1>8, <2>1, <2>2
  <2>3. CASE i # 1
    <3>1. i - 1 \in 1..(n - 1) /\ ~(i <= 1)
      BY <1>2, <2>3
    <3>2. t[i - 1] = x
      BY <3>1
    <3> QED BY <1>8, <2>1, <3>1, <3>2
  <2> QED BY <2>2, <2>3
<1> HIDE DEF s, t
<1>10. s = <<x>> \o t
  <2>1. Len(s) = Len(<<x>> \o t)
    BY <1>2, <1>6, <1>8
  <2>2. \A i \in 1..Len(s) : s[i] = (<<x>> \o t)[i]
    BY <1>6, <1>9
  <2> QED BY <1>6, <1>8, <2>1, <2>2, SeqEqual
<1> QED BY <1>3, <1>4, <1>5, <1>10 DEF x, PrinterBytes

(* The bytes that wait, from the first, and with one more                  *)
LEMMA ItemsOfAre ==
  ASSUME NEW buffer \in Seq(PrinterBytes)
  PROVE  /\ ItemsOf(buffer) \in Seq(Seq(PrinterItems)) /\ Len(ItemsOf(buffer)) = Len(buffer)
         /\ \A i \in 1..Len(buffer) : ItemsOf(buffer)[i] = Items(buffer[i])
<1> DEFINE n == Len(buffer)
<1>1. n \in Nat /\ DOMAIN buffer = 1..n /\ \A i \in 1..n : buffer[i] \in PrinterBytes
  BY LenProperties, ElementOfSeq
<1>2. ItemsOf(buffer) = [i \in 1..n |-> Items(buffer[i])]
  BY <1>1 DEF ItemsOf
<1>3. \A i \in 1..n : Items(buffer[i]) \in Seq(PrinterItems)
  BY <1>1, ItemsAre
<1> DEFINE W == Seq(PrinterItems)
<1> HIDE DEF n, W
<1>4. ItemsOf(buffer) \in Seq(W) /\ Len(ItemsOf(buffer)) = n
  BY <1>1, <1>2, <1>3 DEF W
<1> QED BY <1>2, <1>4 DEF n, W

LEMMA WaitingIs ==
  ASSUME NEW buffer \in Seq(PrinterBytes)
  PROVE  /\ Waiting(buffer) \in Seq(PrinterItems)
         /\ buffer = <<>> => Waiting(buffer) = <<>>
<1>1. ItemsOf(buffer) \in Seq(Seq(PrinterItems)) /\ Len(ItemsOf(buffer)) = Len(buffer)
  BY ItemsOfAre
<1>2. <<>> \in Seq(PrinterItems)
  BY EmptySeq
<1>3. Waiting(buffer) \in Seq(PrinterItems)
  BY <1>1, <1>2, FlattenAppend DEF Waiting
<1>4. ASSUME buffer = <<>> PROVE Waiting(buffer) = <<>>
  <2>1. ItemsOf(buffer) = <<>> /\ Len(ItemsOf(buffer)) = 0
    BY <1>1, <1>4, EmptySeq
  <2> QED BY <2>1 DEF Waiting, FlattenSeq
<1> QED BY <1>3, <1>4

LEMMA WaitingFirst ==
  ASSUME NEW buffer \in Seq(PrinterBytes), buffer # <<>>
  PROVE  Waiting(buffer) = Items(Head(buffer)) \o Waiting(Tail(buffer))
<1> DEFINE s == ItemsOf(buffer)
           rest == Tail(buffer)
           t == ItemsOf(rest)
<1>1. /\ Len(buffer) \in Nat \ {0} /\ rest \in Seq(PrinterBytes) /\ Len(rest) = Len(buffer) - 1
      /\ \A i \in 1..Len(rest) : rest[i] = buffer[i + 1]
      /\ Head(buffer) = buffer[1]
  BY EmptySeq, HeadTailProperties
<1>2. /\ s \in Seq(Seq(PrinterItems)) /\ Len(s) = Len(buffer)
      /\ \A i \in 1..Len(buffer) : s[i] = Items(buffer[i])
  BY ItemsOfAre
<1>3. /\ t \in Seq(Seq(PrinterItems)) /\ Len(t) = Len(rest)
      /\ \A i \in 1..Len(rest) : t[i] = Items(rest[i])
  BY <1>1, ItemsOfAre
<1> HIDE DEF s, rest, t
<1>4. s # <<>>
  BY <1>1, <1>2, EmptySeq
<1>5. /\ Tail(s) \in Seq(Seq(PrinterItems)) /\ Len(Tail(s)) = Len(s) - 1
      /\ \A i \in 1..Len(Tail(s)) : Tail(s)[i] = s[i + 1]
  BY <1>2, <1>4, HeadTailProperties
<1>6. Tail(s) = t
  <2>1. Len(Tail(s)) = Len(t)
    BY <1>1, <1>2, <1>3, <1>5
  <2>2. ASSUME NEW i \in 1..Len(t) PROVE Tail(s)[i] = t[i]
    <3> DEFINE m == Len(rest)
    <3>0. m \in Nat /\ Len(buffer) = m + 1 /\ Len(t) = m /\ Len(Tail(s)) = m
      BY <1>1, <1>3, <2>1
    <3> HIDE DEF m
    <3>1. i \in 1..m /\ i + 1 \in 1..Len(buffer) /\ i \in 1..Len(Tail(s))
      BY <3>0
    <3>2. Tail(s)[i] = s[i + 1]
      BY <1>5, <3>1
    <3>3. s[i + 1] = Items(buffer[i + 1]) /\ t[i] = Items(rest[i]) /\ rest[i] = buffer[i + 1]
      BY <1>1, <1>2, <1>3, <3>1 DEF m
    <3> QED BY <3>2, <3>3
  <2> QED BY <1>3, <1>5, <2>1, <2>2, SeqEqual
<1>7. FlattenSeq(s) = s[1] \o FlattenSeq(Tail(s))
  BY <1>2, <1>4, FlattenFirst
<1>8. s[1] = Items(Head(buffer))
  BY <1>1, <1>2
<1> QED BY <1>6, <1>7, <1>8 DEF Waiting, s, t, rest

LEMMA WaitingAppend ==
  ASSUME NEW buffer \in Seq(PrinterBytes), NEW b \in PrinterBytes
  PROVE  Waiting(Append(buffer, b)) = Waiting(buffer) \o Items(b)
<1> DEFINE s == ItemsOf(buffer)
           more == Append(buffer, b)
           t == ItemsOf(more)
           x == Items(b)
           n == Len(buffer)
<1>1. /\ more \in Seq(PrinterBytes) /\ Len(more) = n + 1 /\ n \in Nat
      /\ \A i \in 1..n : more[i] = buffer[i]
      /\ more[n + 1] = b
  BY AppendProperties, LenProperties
<1>2. /\ s \in Seq(Seq(PrinterItems)) /\ Len(s) = n
      /\ \A i \in 1..n : s[i] = Items(buffer[i])
  BY ItemsOfAre
<1>3. /\ t \in Seq(Seq(PrinterItems)) /\ Len(t) = n + 1
      /\ \A i \in 1..(n + 1) : t[i] = Items(more[i])
  BY <1>1, ItemsOfAre
<1>4. x \in Seq(PrinterItems)
  BY ItemsAre
<1>5. /\ Append(s, x) \in Seq(Seq(PrinterItems)) /\ Len(Append(s, x)) = n + 1
      /\ \A i \in 1..n : Append(s, x)[i] = s[i]
      /\ Append(s, x)[n + 1] = x
  <2> DEFINE W == Seq(PrinterItems)
  <2>1. s \in Seq(W) /\ x \in W /\ Len(s) = n
    BY <1>2, <1>4
  <2> HIDE DEF W, s, x, n
  <2> QED BY <2>1, AppendProperties DEF W
<1>6. t[n + 1] = x
  BY <1>1, <1>3
<1> HIDE DEF s, more, t, x, n
<1>7. ASSUME NEW i \in 1..(n + 1) PROVE t[i] = Append(s, x)[i]
  <2>1. i = n + 1 \/ i \in 1..n
    BY <1>1
  <2>2. ASSUME i \in 1..n PROVE t[i] = s[i]
    BY <1>1, <1>2, <1>3, <2>2
  <2> QED BY <1>5, <1>6, <2>1, <2>2
<1>8. t = Append(s, x)
  BY <1>3, <1>5, <1>7, SeqEqual
<1>9. FlattenSeq(Append(s, x)) = FlattenSeq(s) \o x
  BY <1>2, <1>4, FlattenAppend
<1> QED BY <1>8, <1>9 DEF Waiting, s, t, more, x

-----------------------------------------------------------------------------
(* The lines in the window                                                 *)
WindowLines == [items : Seq(PrinterItems), right : BOOLEAN]
LinesOf(ls) == [i \in DOMAIN ls |-> ls[i].items]
Printed(ls) == FlattenSeq(LinesOf(ls))

LEMMA LinesOfAre ==
  ASSUME NEW ls \in Seq(WindowLines)
  PROVE  /\ LinesOf(ls) \in Seq(Seq(PrinterItems)) /\ Len(LinesOf(ls)) = Len(ls)
         /\ \A i \in 1..Len(ls) : LinesOf(ls)[i] = ls[i].items
<1> DEFINE n == Len(ls)
<1>1. n \in Nat /\ DOMAIN ls = 1..n /\ \A i \in 1..n : ls[i] \in WindowLines
  BY LenProperties, ElementOfSeq
<1>2. LinesOf(ls) = [i \in 1..n |-> ls[i].items]
  BY <1>1 DEF LinesOf
<1>3. \A i \in 1..n : ls[i].items \in Seq(PrinterItems)
  BY <1>1 DEF WindowLines
<1> DEFINE W == Seq(PrinterItems)
<1> HIDE DEF n, W
<1>4. LinesOf(ls) \in Seq(W) /\ Len(LinesOf(ls)) = n
  BY <1>1, <1>2, <1>3 DEF W
<1> QED BY <1>2, <1>4 DEF n, W

LEMMA PrintedAppend ==
  ASSUME NEW ls \in Seq(WindowLines), NEW l \in WindowLines
  PROVE  /\ Append(ls, l) \in Seq(WindowLines)
         /\ Printed(ls) \in Seq(PrinterItems)
         /\ Printed(Append(ls, l)) = Printed(ls) \o l.items
<1> DEFINE s == LinesOf(ls)
           more == Append(ls, l)
           t == LinesOf(more)
           x == l.items
           n == Len(ls)
<1>1. /\ more \in Seq(WindowLines) /\ Len(more) = n + 1 /\ n \in Nat
      /\ \A i \in 1..n : more[i] = ls[i]
      /\ more[n + 1] = l
  BY AppendProperties, LenProperties
<1>2. /\ s \in Seq(Seq(PrinterItems)) /\ Len(s) = n
      /\ \A i \in 1..n : s[i] = ls[i].items
  BY LinesOfAre
<1>3. /\ t \in Seq(Seq(PrinterItems)) /\ Len(t) = n + 1
      /\ \A i \in 1..(n + 1) : t[i] = more[i].items
  BY <1>1, LinesOfAre
<1>4. x \in Seq(PrinterItems)
  BY DEF WindowLines
<1>5. /\ Append(s, x) \in Seq(Seq(PrinterItems)) /\ Len(Append(s, x)) = n + 1
      /\ \A i \in 1..n : Append(s, x)[i] = s[i]
      /\ Append(s, x)[n + 1] = x
  <2> DEFINE W == Seq(PrinterItems)
  <2>1. s \in Seq(W) /\ x \in W /\ Len(s) = n
    BY <1>2, <1>4
  <2> HIDE DEF W, s, x, n
  <2> QED BY <2>1, AppendProperties DEF W
<1>6. t[n + 1] = x
  BY <1>1, <1>3
<1> HIDE DEF s, more, t, x, n
<1>7. ASSUME NEW i \in 1..(n + 1) PROVE t[i] = Append(s, x)[i]
  <2>1. i = n + 1 \/ i \in 1..n
    BY <1>1
  <2>2. ASSUME i \in 1..n PROVE t[i] = s[i]
    BY <1>1, <1>2, <1>3, <2>2
  <2> QED BY <1>5, <1>6, <2>1, <2>2
<1>8. t = Append(s, x)
  BY <1>3, <1>5, <1>7, SeqEqual
<1>9. FlattenSeq(s) \in Seq(PrinterItems) /\ FlattenSeq(Append(s, x)) = FlattenSeq(s) \o x
  BY <1>2, <1>4, FlattenAppend
<1> QED BY <1>1, <1>8, <1>9 DEF Printed, s, t, more, x

LEMMA PrintedIs ==
  ASSUME NEW ls \in Seq(WindowLines)
  PROVE  Printed(ls) \in Seq(PrinterItems)
<1>1. LinesOf(ls) \in Seq(Seq(PrinterItems)) /\ <<>> \in Seq(PrinterItems)
  BY LinesOfAre, EmptySeq
<1> QED BY <1>1, FlattenAppend DEF Printed

-----------------------------------------------------------------------------
(* A round of the loop: what it takes from the buffer it adds to the line. *)
LineBuffers == [buffer : Seq(PrinterBytes), mode : SUBSET Modes, col_idx : Nat, items : Seq(PrinterItems)]
AllOf(l) == l.items \o Waiting(l.buffer)

(* Rounds that are left: columns and bytes                                 *)
Columns(l) == IF l.col_idx < HELIOS_PRINTER_WIDTH_PIXELS THEN HELIOS_PRINTER_WIDTH_PIXELS - l.col_idx ELSE 0
RoundsLeft(l) == Columns(l) + Len(l.buffer)

LEMMA TakesColumns ==
  ASSUME NEW h, NEW isColumn, NEW m
  PROVE  Takes(h, isColumn, m) \in Nat \ {0}
<1>1. \A x : Wide(x) \in {1, 2}
  BY DEF Wide
<1>2. Wide(m) \in {1, 2} /\ Wide(helios_get_mode(h)) \in {1, 2}
  BY <1>1
<1>3. CHAR_COLUMNS * Wide(m) \in Nat \ {0}
  BY <1>2, HeliosAssumption
<1> QED BY <1>2, <1>3 DEF Takes

LEMMA RoomLeft ==
  ASSUME NEW c \in Nat, NEW isColumn, NEW m, HasRoom(c, isColumn, m)
  PROVE  c < HELIOS_PRINTER_WIDTH_PIXELS
<1>1. Wide(m) \in {1, 2}
  BY DEF Wide
<1>2. CHAR_COLUMNS * Wide(m) \in Nat \ {0}
  BY <1>1, HeliosAssumption
<1> QED BY <1>2, HeliosAssumption DEF HasRoom

(* A line that prints one item and has the buffer rest left                *)
PrintedOne(l, cols, item, rest) == [l EXCEPT !.col_idx = @ + cols, !.items = Append(@, item), !.buffer = rest]

LEMMA PrintsOne ==
  ASSUME NEW l \in LineBuffers, NEW cols \in Nat \ {0}, NEW item \in PrinterItems, NEW rest \in Seq(PrinterBytes),
         l.col_idx < HELIOS_PRINTER_WIDTH_PIXELS, Len(rest) <= Len(l.buffer),
         Waiting(l.buffer) = <<item>> \o Waiting(rest)
  PROVE  /\ PrintedOne(l, cols, item, rest) \in LineBuffers
         /\ AllOf(PrintedOne(l, cols, item, rest)) = AllOf(l)
         /\ RoundsLeft(PrintedOne(l, cols, item, rest)) < RoundsLeft(l)
<1> DEFINE r == PrintedOne(l, cols, item, rest)
<1>1. /\ l.col_idx \in Nat /\ l.items \in Seq(PrinterItems) /\ l.buffer \in Seq(PrinterBytes)
      /\ l.col_idx + cols \in Nat
  BY DEF LineBuffers
<1>2. Append(l.items, item) \in Seq(PrinterItems)
  BY <1>1, AppendProperties
<1>3. r.col_idx = l.col_idx + cols /\ r.items = Append(l.items, item) /\ r.buffer = rest
  BY DEF PrintedOne, LineBuffers
<1>4. r \in LineBuffers
  BY <1>1, <1>2 DEF PrintedOne, LineBuffers
<1> HIDE DEF r
<1>5. AllOf(r) = AllOf(l)
  <2>1. Waiting(rest) \in Seq(PrinterItems)
    BY WaitingIs
  <2>2. Append(l.items, item) \o Waiting(rest) = l.items \o (<<item>> \o Waiting(rest))
    <3> DEFINE x == l.items
               y == Waiting(rest)
               W == PrinterItems
    <3>1. x \in Seq(W) /\ y \in Seq(W) /\ item \in W
      BY <1>1, <2>1
    <3> HIDE DEF x, y, W
    <3>2. Append(x, item) \o y = x \o (<<item>> \o y)
      BY <3>1, AppendThenConcat
    <3> QED BY <3>2 DEF x, y
  <2> QED BY <1>3, <2>2 DEF AllOf
<1>6. RoundsLeft(r) < RoundsLeft(l)
  <2>1. Len(rest) \in Nat /\ Len(l.buffer) \in Nat
    BY <1>1, LenProperties
  <2>2. Columns(r) \in Nat /\ Columns(l) \in Nat /\ Columns(r) < Columns(l)
    <3> DEFINE w == HELIOS_PRINTER_WIDTH_PIXELS
    <3>1. w \in Nat /\ l.col_idx < w
      BY HeliosAssumption
    <3>2. Columns(r) = (IF r.col_idx < w THEN w - r.col_idx ELSE 0) /\ Columns(l) = w - l.col_idx
      BY <3>1 DEF Columns
    <3> HIDE DEF w
    <3>3. l.col_idx \in Nat /\ r.col_idx \in Nat /\ l.col_idx < r.col_idx
      BY <1>1, <1>3
    <3>4. w - l.col_idx \in Nat \ {0} /\ w - r.col_idx < w - l.col_idx
      BY <3>1, <3>3
    <3> QED BY <3>1, <3>2, <3>3, <3>4
  <2>3. Len(rest) <= Len(l.buffer)
    OBVIOUS
  <2> QED BY <1>3, <2>1, <2>2, <2>3 DEF RoundsLeft
<1> QED BY <1>4, <1>5, <1>6 DEF r

(* A line whose buffer loses a byte that prints nothing                    *)
LEMMA DropsOne ==
  ASSUME NEW l \in LineBuffers, NEW r \in LineBuffers, l.buffer # <<>>, Items(Head(l.buffer)) = <<>>,
         r.buffer = Tail(l.buffer), r.items = l.items, r.col_idx = l.col_idx
  PROVE  AllOf(r) = AllOf(l) /\ RoundsLeft(r) < RoundsLeft(l)
<1>1. l.buffer \in Seq(PrinterBytes) /\ r.buffer \in Seq(PrinterBytes) /\ l.col_idx \in Nat
  BY DEF LineBuffers
<1>2. Waiting(l.buffer) = <<>> \o Waiting(r.buffer) /\ Waiting(r.buffer) \in Seq(PrinterItems)
  BY <1>1, WaitingFirst, WaitingIs
<1>3. Waiting(l.buffer) = Waiting(r.buffer)
  BY <1>2, ConcatEmptySeq
<1>4. Len(l.buffer) \in Nat \ {0} /\ Len(r.buffer) = Len(l.buffer) - 1
  BY <1>1, EmptySeq, HeadTailProperties
<1>5. Columns(r) = Columns(l) /\ Columns(l) \in Nat
  BY <1>1, HeliosAssumption DEF Columns
<1> QED BY <1>3, <1>4, <1>5 DEF AllOf, RoundsLeft

(* What a round does, and that it does something unless the loop has ended *)
LEMMA RoundKeeps ==
  ASSUME NEW h, NEW l \in LineBuffers
  PROVE  /\ FillOne(h, l) \in LineBuffers
         /\ AllOf(FillOne(h, l)) = AllOf(l)
         /\ FillOne(h, l) = l \/ RoundsLeft(FillOne(h, l)) < RoundsLeft(l)
         /\ l.buffer = <<>> => FillOne(h, l) = l
<1> DEFINE b == Head(l.buffer)
           isColumn == IF b.kind = "run" THEN b.of = "column" ELSE "GRAPHICS" \in l.mode
           cols == Takes(h, isColumn, l.mode)
           r == FillOne(h, l)
<1>1. CASE l.buffer = <<>>
  BY <1>1 DEF FillOne
<1>2. CASE l.buffer # <<>>
  <2>1. /\ l.buffer \in Seq(PrinterBytes) /\ b \in PrinterBytes /\ Tail(l.buffer) \in Seq(PrinterBytes)
        /\ Len(Tail(l.buffer)) = Len(l.buffer) - 1 /\ Len(l.buffer) \in Nat \ {0} /\ l.col_idx \in Nat
    BY <1>2, HeadTailProperties, EmptySeq DEF LineBuffers
  <2>2. Waiting(l.buffer) = Items(b) \o Waiting(Tail(l.buffer))
    BY <1>2, <2>1, WaitingFirst
  <2>3. cols \in Nat \ {0}
    BY TakesColumns
  <2>4. CASE b.kind = "mode"
    <3>1. r = [l EXCEPT !.mode = b.m, !.buffer = Tail(l.buffer)]
      BY <1>2, <2>4 DEF FillOne
    <3>2. b.m \in SUBSET Modes /\ Items(b) = <<>>
      BY <2>1, <2>4, ItemsAre DEF PrinterBytes
    <3>3. r \in LineBuffers /\ r.buffer = Tail(l.buffer) /\ r.items = l.items /\ r.col_idx = l.col_idx
      BY <2>1, <3>1, <3>2 DEF LineBuffers
    <3> QED BY <1>2, <3>2, <3>3, DropsOne
  <2>5. CASE b.kind = "run" /\ b.n = 0
    <3>1. r = [l EXCEPT !.buffer = Tail(l.buffer)]
      BY <1>2, <2>5 DEF FillOne
    <3>2. Items(b) = <<>>
      BY <2>1, <2>5, ItemsAre
    <3>3. r \in LineBuffers /\ r.buffer = Tail(l.buffer) /\ r.items = l.items /\ r.col_idx = l.col_idx
      BY <2>1, <3>1 DEF LineBuffers
    <3> QED BY <1>2, <3>2, <3>3, DropsOne
  <2>6. CASE b.kind # "mode" /\ ~(b.kind = "run" /\ b.n = 0) /\ ~HasRoom(l.col_idx, isColumn, l.mode)
    BY <1>2, <2>6 DEF FillOne
  <2>7. CASE b.kind = "run" /\ b.n # 0 /\ HasRoom(l.col_idx, isColumn, l.mode)
    <3> DEFINE shorter == [b EXCEPT !.n = @ - 1]
               rest == <<shorter>> \o Tail(l.buffer)
               item == <<b.of, 0>>
    <3>1. r = PrintedOne(l, cols, item, rest)
      BY <1>2, <2>7 DEF FillOne, PrintedOne
    <3>2. shorter \in PrinterBytes /\ item \in PrinterItems /\ Items(b) = <<item>> \o Items(shorter)
      BY <2>1, <2>7, RunIs
    <3>3. l.col_idx < HELIOS_PRINTER_WIDTH_PIXELS
      BY <2>1, <2>7, RoomLeft
    <3> HIDE DEF b, r, cols, item, shorter
    <3>4. /\ rest \in Seq(PrinterBytes) /\ rest # <<>> /\ Len(rest) = Len(l.buffer)
          /\ Head(rest) = shorter /\ Tail(rest) = Tail(l.buffer)
      BY <2>1, <3>2, ConsIs
    <3>5. Waiting(rest) = Items(shorter) \o Waiting(Tail(l.buffer))
      BY <3>4, WaitingFirst
    <3>6. Waiting(l.buffer) = <<item>> \o Waiting(rest)
      <4>3. Items(shorter) \in Seq(PrinterItems)
        BY <3>2, ItemsAre
      <4>4. Waiting(Tail(l.buffer)) \in Seq(PrinterItems)
        BY <2>1, WaitingIs
      <4>5. <<item>> \in Seq(PrinterItems)
        BY <3>2
      <4>1. /\ Items(shorter) \in Seq(PrinterItems) /\ Waiting(Tail(l.buffer)) \in Seq(PrinterItems)
            /\ <<item>> \in Seq(PrinterItems)
        BY <4>3, <4>4, <4>5
      <4>2. (<<item>> \o Items(shorter)) \o Waiting(Tail(l.buffer)) = <<item>> \o (Items(shorter) \o Waiting(Tail(l.buffer)))
        BY <4>1, ConcatAssociative
      <4> QED BY <2>2, <3>2, <3>5, <4>2
    <3>7. Len(rest) <= Len(l.buffer)
      BY <2>1, <3>4
    <3> HIDE DEF rest
    <3>8. r \in LineBuffers /\ AllOf(r) = AllOf(l) /\ RoundsLeft(r) < RoundsLeft(l)
      BY <2>3, <3>1, <3>2, <3>3, <3>4, <3>6, <3>7, PrintsOne
    <3> QED BY <1>2, <3>8 DEF r
  <2>8. CASE b.kind # "mode" /\ b.kind # "run" /\ HasRoom(l.col_idx, isColumn, l.mode)
    <3> DEFINE rest == Tail(l.buffer)
               item == <<"data", b.no>>
    <3>1. r = PrintedOne(l, cols, item, rest)
      BY <1>2, <2>8 DEF FillOne, PrintedOne
    <3>2. b.kind = "data"
      BY <2>1, <2>8 DEF PrinterBytes
    <3>3. Items(b) = <<item>> /\ item \in PrinterItems
      BY <2>1, <3>2, ItemsAre
    <3>4. l.col_idx < HELIOS_PRINTER_WIDTH_PIXELS
      BY <2>1, <2>8, RoomLeft
    <3>5. Waiting(l.buffer) = <<item>> \o Waiting(rest)
      BY <2>2, <3>3
    <3>6. Len(rest) <= Len(l.buffer)
      BY <2>1
    <3> HIDE DEF b, r, cols, item, rest
    <3>7. r \in LineBuffers /\ AllOf(r) = AllOf(l) /\ RoundsLeft(r) < RoundsLeft(l)
      BY <2>1, <2>3, <3>1, <3>3, <3>4, <3>5, <3>6, PrintsOne DEF rest
    <3> QED BY <1>2, <3>7 DEF r
  <2> QED BY <2>4, <2>5, <2>6, <2>7, <2>8
<1> QED BY <1>1, <1>2

(* A round takes a byte from the buffer, a blank from the run at its       *)
(* front, or nothing when the line is full.                                *)
LEMMA RoundTakes ==
  ASSUME NEW h, NEW l \in LineBuffers, l.buffer # <<>>
  PROVE  /\ \/ Len(FillOne(h, l).buffer) < Len(l.buffer)
            \/ FillOne(h, l) = l
            \/ Len(FillOne(h, l).buffer) = Len(l.buffer) /\ Head(FillOne(h, l).buffer).kind = "run"
         /\ FillOne(h, l) = l => l.col_idx # 0
         /\ FillOne(h, l) = l /\ Head(l.buffer).kind = "run" => Head(l.buffer).n > 0
<1> DEFINE b == Head(l.buffer)
           isColumn == IF b.kind = "run" THEN b.of = "column" ELSE "GRAPHICS" \in l.mode
           cols == Takes(h, isColumn, l.mode)
           r == FillOne(h, l)
<1>1. /\ l.buffer \in Seq(PrinterBytes) /\ b \in PrinterBytes /\ Tail(l.buffer) \in Seq(PrinterBytes)
      /\ Len(Tail(l.buffer)) = Len(l.buffer) - 1 /\ Len(l.buffer) \in Nat \ {0} /\ l.col_idx \in Nat
  BY HeadTailProperties, EmptySeq DEF LineBuffers
<1>2. b.kind = "run" => b.n \in Nat
  BY <1>1 DEF PrinterBytes
<1>3. ASSUME r.buffer = Tail(l.buffer)
      PROVE  Len(r.buffer) < Len(l.buffer) /\ r # l
  <2> HIDE DEF b, isColumn, cols, r
  <2>1. Len(r.buffer) = Len(l.buffer) - 1
    BY <1>1, <1>3
  <2>2. r = l => Len(r.buffer) = Len(l.buffer)
    OBVIOUS
  <2> QED BY <1>1, <2>1, <2>2
<1>4. CASE b.kind = "mode"
  <2>1. r = [l EXCEPT !.mode = b.m, !.buffer = Tail(l.buffer)]
    BY <1>4 DEF FillOne
  <2>2. r.buffer = Tail(l.buffer)
    BY <2>1 DEF LineBuffers
  <2> QED BY <1>3, <2>2
<1>5. CASE b.kind = "run" /\ b.n = 0
  <2>1. r = [l EXCEPT !.buffer = Tail(l.buffer)]
    BY <1>5 DEF FillOne
  <2>2. r.buffer = Tail(l.buffer)
    BY <2>1 DEF LineBuffers
  <2> QED BY <1>3, <2>2
<1>6. CASE b.kind # "mode" /\ ~(b.kind = "run" /\ b.n = 0) /\ ~HasRoom(l.col_idx, isColumn, l.mode)
  <2>1. r = l
    BY <1>6 DEF FillOne
  <2>2. HasRoom(0, isColumn, l.mode)
    <3>1. Wide(l.mode) \in {1, 2}
      BY DEF Wide
    <3>2. CHAR_COLUMNS \in Nat \ {0} /\ HELIOS_PRINTER_WIDTH_PIXELS \in Nat /\ 2 * CHAR_COLUMNS <= HELIOS_PRINTER_WIDTH_PIXELS
      BY HeliosAssumption
    <3>3. CHAR_COLUMNS * Wide(l.mode) \in Nat /\ CHAR_COLUMNS * Wide(l.mode) <= HELIOS_PRINTER_WIDTH_PIXELS
      BY <3>1, <3>2
    <3> QED BY <3>2, <3>3 DEF HasRoom
  <2>3. l.col_idx # 0
    BY <1>6, <2>2
  <2> QED BY <1>2, <1>6, <2>1, <2>3
<1>7. CASE b.kind = "run" /\ b.n # 0 /\ HasRoom(l.col_idx, isColumn, l.mode)
  <2> DEFINE shorter == [b EXCEPT !.n = @ - 1]
             rest == <<shorter>> \o Tail(l.buffer)
  <2>1. r = PrintedOne(l, cols, <<b.of, 0>>, rest)
    BY <1>7 DEF FillOne, PrintedOne
  <2>2. shorter \in PrinterBytes /\ shorter.kind = "run"
    <3>1. shorter \in PrinterBytes
      BY <1>1, <1>7, RunIs
    <3> QED BY <1>1, <1>7, <3>1 DEF PrinterBytes
  <2>3. cols \in Nat \ {0} /\ l.col_idx \in Nat
    BY <1>1, TakesColumns
  <2> HIDE DEF b, cols, shorter, r
  <2>4. rest \in Seq(PrinterBytes) /\ Len(rest) = Len(l.buffer) /\ Head(rest) = shorter
    BY <1>1, <2>2, ConsIs
  <2> HIDE DEF rest
  <2>5. r.buffer = rest /\ r.col_idx = l.col_idx + cols
    BY <2>1 DEF PrintedOne, LineBuffers
  <2>6. r # l
    BY <2>3, <2>5
  <2> QED BY <2>2, <2>4, <2>5, <2>6 DEF r
<1>8. CASE b.kind # "mode" /\ b.kind # "run" /\ HasRoom(l.col_idx, isColumn, l.mode)
  <2> DEFINE item == <<"data", b.no>>
             rest == Tail(l.buffer)
  <2>1. r = PrintedOne(l, cols, item, rest)
    BY <1>8 DEF FillOne, PrintedOne
  <2> HIDE DEF item, cols, rest, r
  <2>2. r.buffer = Tail(l.buffer)
    BY <2>1 DEF PrintedOne, LineBuffers, rest
  <2> QED BY <1>3, <2>2 DEF r
<1> QED BY <1>4, <1>5, <1>6, <1>7, <1>8

-----------------------------------------------------------------------------
(* The rounds of a line *)
Filled(h, start) ==
  LET after[i \in 0..Rounds(start)] == IF i = 0 THEN start ELSE FillOne(h, after[i - 1])
  IN  after

LEMMA FilledIs ==
  ASSUME NEW h, NEW start \in LineBuffers
  PROVE  /\ Rounds(start) \in Nat
         /\ Filled(h, start)[0] = start
         /\ \A i \in 0..Rounds(start) : i # 0 => Filled(h, start)[i] = FillOne(h, Filled(h, start)[i - 1])
<1> DEFINE n == Rounds(start)
           V == LineBuffers
           Step == [i \in 0..n |-> [l \in V |-> FillOne(h, l)]]
           P == Filled(h, start)
<1>1. n \in Nat /\ 0 \in Int /\ n \in Int /\ 0 <= n
  <2>1. Len(start.buffer) \in Nat
    BY LenProperties DEF LineBuffers
  <2> QED BY <2>1, HeliosAssumption DEF Rounds
<1>2. \A l \in V : FillOne(h, l) \in V
  BY RoundKeeps
<1>3. start \in V
  OBVIOUS
<1> HIDE DEF V
<1>4. Step \in [0..n -> [V -> V]] /\ \A i \in 0..n, l \in V : Step[i][l] = FillOne(h, l)
  BY <1>2
<1> HIDE DEF Step, n
<1>5. PICK g : ByRecursion(g, 0, n, V, start, Step)
  BY <1>1, <1>3, <1>4, FunctionByRecursion
<1>6. ASSUME NEW i \in 0..n, i # 0 PROVE g[i] = FillOne(h, g[i - 1])
  <2>1. i - 1 \in 0..n
    BY <1>1, <1>6
  <2>2. g[i - 1] \in V /\ g[i] = Step[i][g[i - 1]]
    BY <1>5, <1>6, <2>1 DEF ByRecursion
  <2> QED BY <1>4, <1>6, <2>2
<1>7. g = [i \in 0..n |-> IF i = 0 THEN start ELSE FillOne(h, g[i - 1])]
  BY <1>5, <1>6 DEF ByRecursion
<1>8. P = [i \in 0..n |-> IF i = 0 THEN start ELSE FillOne(h, P[i - 1])]
  BY <1>7 DEF Filled, n
<1> HIDE DEF P
<1>9. P[0] = start /\ \A i \in 0..n : i # 0 => P[i] = FillOne(h, P[i - 1])
  BY <1>1, <1>8
<1> QED BY <1>1, <1>9 DEF P, n

(* What a line leaves of the buffer start has a byte less, or the blanks   *)
(* at its front were too many for the line.                                *)
Left(l, start) ==
  /\ Len(l.buffer) <= Len(start.buffer)
  /\ Len(l.buffer) = Len(start.buffer) => l = start \/ Head(l.buffer).kind = "run"

(* A line prints what it takes from the buffer, and the rounds are enough: *)
(* another one would change nothing.                                       *)
LEMMA LineIsFilled ==
  ASSUME NEW h, NEW start \in LineBuffers
  PROVE  /\ FillLine(h, start) \in LineBuffers
         /\ AllOf(FillLine(h, start)) = AllOf(start)
         /\ FillOne(h, FillLine(h, start)) = FillLine(h, start)
         /\ start.buffer = <<>> => FillLine(h, start).buffer = <<>>
         /\ Left(FillLine(h, start), start)
<1> DEFINE n == Rounds(start)
           P == Filled(h, start)
           ended(l) == FillOne(h, l) = l
           empty == start.buffer = <<>>
           S == {i \in 0..n : /\ P[i] \in LineBuffers /\ AllOf(P[i]) = AllOf(start)
                              /\ ended(P[i]) \/ RoundsLeft(P[i]) <= n - i
                              /\ empty => P[i].buffer = <<>>
                              /\ Left(P[i], start)}
<1>1. n \in Nat /\ n \in Int /\ 0 \in Int /\ 0 <= n /\ P[0] = start /\ \A i \in 0..n : i # 0 => P[i] = FillOne(h, P[i - 1])
  BY FilledIs
<1>2. FillLine(h, start) = P[n]
  BY DEF FillLine, Filled
<1>3. \A l \in LineBuffers : RoundsLeft(l) \in Nat /\ Len(l.buffer) \in Nat /\ Len(l.buffer) <= RoundsLeft(l)
  <2> SUFFICES ASSUME NEW l \in LineBuffers
               PROVE  RoundsLeft(l) \in Nat /\ Len(l.buffer) \in Nat /\ Len(l.buffer) <= RoundsLeft(l)
    OBVIOUS
  <2>1. l.col_idx \in Nat /\ Len(l.buffer) \in Nat
    BY LenProperties DEF LineBuffers
  <2>2. Columns(l) \in Nat
    BY <2>1, HeliosAssumption DEF Columns
  <2> QED BY <2>1, <2>2 DEF RoundsLeft
<1>4. RoundsLeft(start) <= n
  <2>1. start.col_idx \in Nat /\ Len(start.buffer) \in Nat
    BY LenProperties DEF LineBuffers
  <2>2. Columns(start) \in Nat /\ Columns(start) <= HELIOS_PRINTER_WIDTH_PIXELS
    BY <2>1, HeliosAssumption DEF Columns
  <2> QED BY <2>1, <2>2, HeliosAssumption DEF RoundsLeft, Rounds
<1> HIDE DEF n, P, empty
<1>5. 0 \in S
  <2>1. 0 \in 0..n /\ n - 0 = n
    BY <1>1
  <2>2. Left(start, start)
    BY LenProperties DEF Left, LineBuffers
  <2> QED BY <1>1, <1>4, <2>1, <2>2 DEF empty
<1>6. ASSUME NEW i \in 0..(n - 1), i \in S PROVE i + 1 \in S
  <2> DEFINE l == P[i]
             r == P[i + 1]
  <2>1. i \in 0..n /\ i + 1 \in 0..n /\ i + 1 # 0 /\ (i + 1) - 1 = i
    BY <1>1
  <2>2. r = FillOne(h, l)
    BY <1>1, <2>1
  <2>3. /\ l \in LineBuffers /\ AllOf(l) = AllOf(start) /\ (empty => l.buffer = <<>>)
        /\ ended(l) \/ RoundsLeft(l) <= n - i
        /\ Left(l, start)
    BY <1>6
  <2> HIDE DEF l, r
  <2>4. /\ r \in LineBuffers /\ AllOf(r) = AllOf(l) /\ (r = l \/ RoundsLeft(r) < RoundsLeft(l))
        /\ l.buffer = <<>> => r = l
    BY <2>2, <2>3, RoundKeeps
  <2>5. ended(r) \/ RoundsLeft(r) <= n - (i + 1)
    <3>1. CASE r = l
      BY <2>2, <3>1
    <3>2. CASE r # l
      <4>1. RoundsLeft(r) < RoundsLeft(l) /\ RoundsLeft(l) <= n - i
        BY <2>2, <2>3, <2>4, <3>2
      <4>2. RoundsLeft(r) \in Nat /\ RoundsLeft(l) \in Nat
        BY <1>3, <2>3, <2>4
      <4> QED BY <1>1, <4>1, <4>2
    <3> QED BY <3>1, <3>2
  <2>6. empty => r.buffer = <<>>
    BY <2>3, <2>4
  <2>7. Left(r, start)
    <3>1. CASE r = l
      BY <2>3, <3>1
    <3>2. CASE r # l
      <4>1. \/ Len(r.buffer) < Len(l.buffer)
            \/ Len(r.buffer) = Len(l.buffer) /\ Head(r.buffer).kind = "run"
        BY <2>2, <2>3, <2>4, <3>2, RoundTakes
      <4>2. Len(r.buffer) \in Nat /\ Len(l.buffer) \in Nat /\ Len(start.buffer) \in Nat
        BY <1>3, <2>3, <2>4
      <4> QED BY <2>3, <4>1, <4>2 DEF Left
    <3> QED BY <3>1, <3>2
  <2> QED BY <2>1, <2>3, <2>4, <2>5, <2>6, <2>7 DEF r
<1> HIDE DEF S
<1>7. n \in S
  <2>1. \A i \in 0..n : i \in S
    BY <1>1, <1>5, <1>6, Upwards
  <2> QED BY <1>1, <2>1
<1>8. /\ P[n] \in LineBuffers /\ AllOf(P[n]) = AllOf(start) /\ (empty => P[n].buffer = <<>>)
      /\ ended(P[n]) \/ RoundsLeft(P[n]) <= n - n
      /\ Left(P[n], start)
  BY <1>7 DEF S
<1>9. ended(P[n])
  <2>1. ASSUME RoundsLeft(P[n]) <= n - n PROVE ended(P[n])
    <3>1. Len(P[n].buffer) = 0
      BY <1>1, <1>3, <1>8, <2>1
    <3>2. P[n].buffer = <<>>
      BY <1>8, <3>1, EmptySeq DEF LineBuffers
    <3> QED BY <1>8, <3>2, RoundKeeps
  <2> QED BY <1>8, <2>1
<1> QED BY <1>2, <1>8, <1>9 DEF empty

-----------------------------------------------------------------------------
(* The inductive invariant: the types, that nothing is lost, and that a    *)
(* full buffer has blanks at its front.                                    *)
PrinterStatus == {"IDLE", "BUF_EMPTY", "LAST_BYTE_EOL", "IGNORE_ADV", "RIGHT_JUST", "MODE_TRACE", "MODE_NORM",
                  "PRT_KEY", "ADV_KEY"} \cup Modes
Printers82143 == [status : SUBSET PrinterStatus, mode : SUBSET Modes, buffer : Seq(PrinterBytes)]
IsSent(s) == s = [items |-> s.items, modes |-> s.modes, count |-> s.count] /\ s.count \in Nat

(* What is known of the printer h, of what was sent, s, and of the lines   *)
Accounted(h, s, ls) ==
  /\ s.items = Printed(ls) \o Waiting(h.buffer)
  /\ "BUF_EMPTY" \in h.status <=> h.buffer = <<>>

Room(buffer) ==
  \/ Len(buffer) < HELIOS_BUF_MAX
  \/ Len(buffer) = HELIOS_BUF_MAX /\ Head(buffer).kind = "run" /\ Head(buffer).n > 0

HeliosInv ==
  /\ helios \in Printers82143 /\ IsSent(sent) /\ lines \in Seq(WindowLines)
  /\ Accounted(helios, sent, lines) /\ Room(helios.buffer)

LEMMA HeliosInvIs == HeliosInv => NothingIsLost
BY DEF HeliosInv, Accounted, Room, NothingIsLost, Printed, LinesOf, Waiting, ItemsOf

(* Initially, and after a reset *)
LEMMA FromTheStart ==
  ASSUME NEW h \in Printers82143, h.buffer = <<>>, "BUF_EMPTY" \in h.status
  PROVE  /\ <<>> \in Seq(WindowLines) /\ IsSent(NothingSent)
         /\ Accounted(h, NothingSent, <<>>) /\ Room(h.buffer)
<1>1. <<>> \in Seq(WindowLines) /\ <<>> \in Seq(PrinterBytes) /\ <<>> \in Seq(PrinterItems)
  BY EmptySeq
<1>2. Printed(<<>>) = <<>>
  <2>1. LinesOf(<<>>) \in Seq(Seq(PrinterItems)) /\ Len(LinesOf(<<>>)) = 0
    BY <1>1, LinesOfAre, EmptySeq
  <2>2. LinesOf(<<>>) = <<>>
    BY <2>1, EmptySeq
  <2> QED BY <2>1, <2>2 DEF Printed, FlattenSeq
<1>3. Waiting(<<>>) = <<>>
  BY <1>1, WaitingIs
<1>4. <<>> \o <<>> = <<>>
  BY <1>1, ConcatEmptySeq
<1>5. Room(h.buffer)
  BY HeliosAssumption, EmptySeq DEF Room
<1> QED BY <1>1, <1>2, <1>3, <1>4, <1>5 DEF IsSent, Accounted, NothingSent

LEMMA ResetIs ==
  ASSUME NEW mode \in SUBSET Modes, NEW m \in SUBSET Modes
  PROVE  \A h \in {HeliosReset(mode), helios_set_mode(HeliosReset(mode), m)} :
           h \in Printers82143 /\ h.buffer = <<>> /\ "BUF_EMPTY" \in h.status
<1> DEFINE status == ({"IDLE", "BUF_EMPTY"} \ Modes) \cup m
<1>1. status \in SUBSET PrinterStatus /\ "BUF_EMPTY" \in status /\ {"IDLE", "BUF_EMPTY"} \in SUBSET PrinterStatus
  BY DEF PrinterStatus, Modes
<1>2. <<>> \in Seq(PrinterBytes)
  BY EmptySeq
<1>3. helios_set_mode(HeliosReset(mode), m) = [status |-> status, mode |-> mode, buffer |-> <<>>]
  <2>1. HeliosReset(mode).status = {"IDLE", "BUF_EMPTY"}
    BY DEF HeliosReset
  <2>2. helios_set_mode(HeliosReset(mode), m) = [HeliosReset(mode) EXCEPT !.status = status]
    BY <2>1 DEF helios_set_mode
  <2> HIDE DEF status
  <2> QED BY <2>2 DEF HeliosReset
<1> DEFINE start == HeliosReset(mode)
           other == helios_set_mode(HeliosReset(mode), m)
<1>4. start \in Printers82143 /\ start.buffer = <<>> /\ "BUF_EMPTY" \in start.status
  BY <1>1, <1>2 DEF Printers82143, HeliosReset
<1>5. other \in Printers82143 /\ other.buffer = <<>> /\ "BUF_EMPTY" \in other.status
  <2> HIDE DEF status, other
  <2>1. other = [status |-> status, mode |-> mode, buffer |-> <<>>]
    BY <1>3 DEF other
  <2> QED BY <1>1, <1>2, <2>1 DEF Printers82143
<1> QED BY <1>4, <1>5

LEMMA HeliosInitially == HeliosInit => HeliosInv
<1> SUFFICES ASSUME HeliosInit PROVE HeliosInv
  OBVIOUS
<1>1. PICK m \in {{}} \cup {b.m : b \in {b \in Bytes : b.kind = "mode"}} : helios = helios_set_mode(HeliosReset({}), m)
  BY DEF HeliosInit
<1>2. m \in SUBSET Modes
  <2>1. CASE m = {}
    BY <2>1
  <2>2. ASSUME NEW b \in Bytes, b.kind = "mode", m = b.m PROVE m \in SUBSET Modes
    BY <2>2, HeliosBytesAssumption DEF Data, BlankRun, Mode, LineMode, Eol, IgnoreAdv
  <2> QED BY <2>1, <2>2
<1>3. helios \in Printers82143 /\ helios.buffer = <<>> /\ "BUF_EMPTY" \in helios.status
  BY <1>1, <1>2, ResetIs
<1> QED BY <1>3, FromTheStart DEF HeliosInv, HeliosInit

(* The end of a line *)
LEMMA EolKeeps ==
  ASSUME NEW h \in Printers82143, NEW right, NEW s, IsSent(s), lines \in Seq(WindowLines),
         Accounted(h, s, lines), Len(h.buffer) <= HELIOS_BUF_MAX, helios_eol(h, right, s)
  PROVE  HeliosInv'
<1> DEFINE start == [buffer |-> h.buffer, mode |-> h.mode, col_idx |-> 0, items |-> <<>>]
           l == FillLine(h, start)
           kept == Kept(h, l)
           shift == right /\ l.col_idx < HELIOS_PRINTER_WIDTH_PIXELS
           line == [items |-> l.items, right |-> shift]
<1>1. h.buffer \in Seq(PrinterBytes) /\ h.mode \in SUBSET Modes /\ h.status \in SUBSET PrinterStatus
  BY DEF Printers82143
<1>2. start \in LineBuffers
  BY <1>1, EmptySeq DEF LineBuffers
<1>3. Eol_of(h) = l
  BY DEF Eol_of
<1>4. shift \in BOOLEAN
  OBVIOUS
<1>5. /\ helios' = IF l.buffer = <<>> THEN Bit(kept, "BUF_EMPTY", TRUE) ELSE kept
      /\ lines' = Append(lines, line)
      /\ sent' = [s EXCEPT !.modes = SubSeq(@, Len(@) - Len(l.buffer) + 1, Len(@))]
  BY <1>3 DEF helios_eol
<1>6. start.buffer = h.buffer /\ start.items = <<>> /\ start.col_idx = 0
  OBVIOUS
<1> HIDE DEF start, shift
<1>7. /\ l \in LineBuffers /\ AllOf(l) = AllOf(start) /\ (start.buffer = <<>> => l.buffer = <<>>)
      /\ FillOne(h, l) = l /\ Left(l, start)
  BY <1>2, LineIsFilled
<1> HIDE DEF l
<1>16. Room(l.buffer)
  <2>1. Len(l.buffer) \in Nat /\ Len(h.buffer) \in Nat /\ HELIOS_BUF_MAX \in Nat \ {0}
    BY <1>1, <1>7, LenProperties, HeliosAssumption DEF LineBuffers
  <2>2. CASE Len(l.buffer) < Len(h.buffer)
    BY <2>1, <2>2 DEF Room
  <2>3. CASE Len(l.buffer) = Len(h.buffer) /\ l.buffer # <<>>
    <3>1. l.col_idx # 0 /\ (Head(l.buffer).kind = "run" => Head(l.buffer).n > 0)
      BY <1>7, <2>3, RoundTakes
    <3>2. Head(l.buffer).kind = "run"
      BY <1>6, <1>7, <2>3, <3>1 DEF Left
    <3> QED BY <2>1, <2>3, <3>1, <3>2 DEF Room
  <2>4. CASE l.buffer = <<>>
    BY <2>1, <2>4, EmptySeq DEF Room
  <2> QED BY <1>6, <1>7, <2>1, <2>2, <2>3, <2>4 DEF Left
<1>8. kept = [h EXCEPT !.buffer = l.buffer]
  BY DEF Kept
<1> HIDE DEF kept
<1>9. l.items \in Seq(PrinterItems) /\ l.buffer \in Seq(PrinterBytes)
  BY <1>7 DEF LineBuffers
<1>10. line \in WindowLines /\ line.items = l.items
  BY <1>4, <1>9 DEF WindowLines
<1>11. /\ helios' \in Printers82143 /\ helios'.buffer = l.buffer
       /\ "BUF_EMPTY" \in helios'.status <=> l.buffer = <<>> \/ "BUF_EMPTY" \in h.status
  <2>1. kept \in Printers82143 /\ kept.buffer = l.buffer /\ kept.status = h.status
    BY <1>8, <1>9 DEF Printers82143
  <2>2. CASE l.buffer = <<>>
    <3>1. helios' = [kept EXCEPT !.status = @ \cup {"BUF_EMPTY"}]
      BY <1>5, <2>2 DEF Bit
    <3> QED BY <2>1, <2>2, <3>1 DEF Printers82143, PrinterStatus
  <2>3. CASE l.buffer # <<>>
    BY <1>5, <2>1, <2>3
  <2> QED BY <2>2, <2>3
<1>12. "BUF_EMPTY" \in helios'.status <=> helios'.buffer = <<>>
  BY <1>6, <1>7, <1>11 DEF Accounted
<1> HIDE DEF line
<1>13. /\ lines' \in Seq(WindowLines) /\ Printed(lines') = Printed(lines) \o l.items
       /\ Printed(lines) \in Seq(PrinterItems)
  BY <1>5, <1>10, PrintedAppend
<1>14. IsSent(sent') /\ sent'.items = s.items
  <2> DEFINE modes == SubSeq(s.modes, Len(s.modes) - Len(l.buffer) + 1, Len(s.modes))
  <2>1. sent' = [s EXCEPT !.modes = modes]
    BY <1>5
  <2> HIDE DEF modes
  <2>2. sent' = [items |-> s.items, modes |-> modes, count |-> s.count]
    BY <2>1 DEF IsSent
  <2> QED BY <2>2 DEF IsSent
<1>15. s.items = Printed(lines') \o Waiting(l.buffer)
  <2> DEFINE a == Printed(lines)
             b == l.items
             c == Waiting(l.buffer)
  <2>1. a \in Seq(PrinterItems) /\ b \in Seq(PrinterItems) /\ c \in Seq(PrinterItems)
    BY <1>9, <1>13, WaitingIs
  <2>2. Waiting(h.buffer) = b \o c
    <3>1. <<>> \o Waiting(h.buffer) = Waiting(h.buffer)
      BY <1>1, WaitingIs, ConcatEmptySeq
    <3> QED BY <1>6, <1>7, <3>1 DEF AllOf
  <2>3. s.items = a \o (b \o c)
    BY <2>2 DEF Accounted
  <2>4. (a \o b) \o c = a \o (b \o c)
    <3> HIDE DEF a, b, c
    <3> QED BY <2>1, ConcatAssociative
  <2> QED BY <1>13, <2>3, <2>4
<1> QED BY <1>11, <1>12, <1>13, <1>14, <1>15, <1>16 DEF HeliosInv, Accounted

(* A bit of the status, set or cleared                                     *)
LEMMA BitKeeps ==
  ASSUME NEW h \in Printers82143, NEW b \in PrinterStatus \ {"BUF_EMPTY"}, NEW on
  PROVE  /\ Bit(h, b, on) \in Printers82143 /\ Bit(h, b, on).buffer = h.buffer
         /\ \A s, ls : Accounted(h, s, ls) => Accounted(Bit(h, b, on), s, ls)
<1> DEFINE status == IF on THEN h.status \cup {b} ELSE h.status \ {b}
<1>1. Bit(h, b, on) = [h EXCEPT !.status = status]
  BY DEF Bit
<1>2. status \in SUBSET PrinterStatus /\ ("BUF_EMPTY" \in status <=> "BUF_EMPTY" \in h.status)
  BY DEF Printers82143
<1> HIDE DEF status
<1>3. Bit(h, b, on) \in Printers82143 /\ Bit(h, b, on).buffer = h.buffer /\ Bit(h, b, on).status = status
  BY <1>1, <1>2 DEF Printers82143
<1> QED BY <1>2, <1>3 DEF Accounted

(* A byte that goes to the buffer                                          *)
Buffers(b) ==
  \/ b = Data
  \/ \E of \in {"blank", "column"}, n \in 0..23 : b = BlankRun(of, n)
  \/ \E m \in SUBSET Modes : b \in {Mode(m), LineMode(m)}

LEMMA StoredIs ==
  ASSUME NEW b, Buffers(b), sent.count \in Nat
  PROVE  /\ Stored(b) \in PrinterBytes /\ b.kind \notin {"eol", "ignore_adv"}
         /\ b.kind = "mode" => b.m \in SUBSET Modes
<1>1. CASE b = Data
  <2>1. b.kind = "data"
    BY <1>1 DEF Data
  <2>2. Stored(b) = [kind |-> "data", no |-> sent.count]
    BY <2>1 DEF Stored
  <2> QED BY <2>1, <2>2 DEF PrinterBytes
<1>2. ASSUME NEW of \in {"blank", "column"}, NEW n \in 0..23, b = BlankRun(of, n)
      PROVE  Stored(b) \in PrinterBytes /\ b.kind = "run"
  <2>1. b = [kind |-> "run", of |-> of, n |-> n] /\ b.kind = "run"
    BY <1>2 DEF BlankRun
  <2>2. Stored(b) = b /\ n \in Nat
    BY <2>1 DEF Stored
  <2> QED BY <2>1, <2>2 DEF PrinterBytes
<1>3. ASSUME NEW m \in SUBSET Modes, b = Mode(m)
      PROVE  Stored(b) \in PrinterBytes /\ b.kind = "mode" /\ b.m \in SUBSET Modes
  <2>1. b = [kind |-> "mode", m |-> m] /\ b.kind = "mode" /\ b.m = m
    BY <1>3 DEF Mode
  <2>2. Stored(b) = b
    BY <2>1 DEF Stored
  <2> QED BY <2>1, <2>2 DEF PrinterBytes
<1>4. ASSUME NEW m \in SUBSET Modes, b = LineMode(m)
      PROVE  Stored(b) \in PrinterBytes /\ b.kind = "line_mode"
  <2>1. b.kind = "line_mode" /\ b.m = m
    BY <1>4 DEF LineMode
  <2>2. Stored(b) = [kind |-> "mode", m |-> m]
    BY <2>1 DEF Stored, Mode
  <2> QED BY <2>1, <2>2 DEF PrinterBytes
<1> QED BY <1>1, <1>2, <1>3, <1>4 DEF Buffers, Data

LEMMA BufferedIs ==
  ASSUME NEW h \in Printers82143, NEW b, Buffers(b), sent.count \in Nat
  PROVE  /\ Buffered(h, b) \in Printers82143
         /\ Buffered(h, b).buffer = Append(h.buffer, Stored(b))
         /\ "BUF_EMPTY" \notin Buffered(h, b).status \/ ("BUF_EMPTY" \in h.status /\ h.buffer # <<>>)
<1> DEFINE h1 == IF h.buffer = <<>> THEN Bit([h EXCEPT !.mode = helios_get_mode(h)], "BUF_EMPTY", FALSE) ELSE h
           more == Append(h.buffer, Stored(b))
           h2 == [h1 EXCEPT !.buffer = more]
<1>1. Stored(b) \in PrinterBytes /\ (b.kind = "mode" => b.m \in SUBSET Modes)
  BY StoredIs
<1>2. h.buffer \in Seq(PrinterBytes) /\ more \in Seq(PrinterBytes)
  BY <1>1, AppendProperties DEF Printers82143
<1>3. /\ h1 \in Printers82143 /\ h1.buffer = h.buffer
      /\ "BUF_EMPTY" \notin h1.status \/ ("BUF_EMPTY" \in h.status /\ h.buffer # <<>>)
  <2>1. CASE h.buffer = <<>>
    <3> DEFINE begun == [h EXCEPT !.mode = helios_get_mode(h)]
    <3>1. helios_get_mode(h) \in SUBSET Modes
      BY DEF helios_get_mode
    <3>2. begun \in Printers82143 /\ begun.buffer = h.buffer /\ begun.status = h.status
      BY <3>1 DEF Printers82143
    <3>3. h1 = Bit(begun, "BUF_EMPTY", FALSE)
      BY <2>1
    <3> HIDE DEF begun, h1
    <3>4. h1 = [begun EXCEPT !.status = begun.status \ {"BUF_EMPTY"}]
      BY <3>3 DEF Bit
    <3> DEFINE status == begun.status \ {"BUF_EMPTY"}
    <3>5. status \in SUBSET PrinterStatus /\ "BUF_EMPTY" \notin status
      BY <3>2 DEF Printers82143
    <3> HIDE DEF status
    <3>6. h1 \in Printers82143 /\ h1.buffer = begun.buffer /\ h1.status = status
      BY <3>2, <3>4, <3>5 DEF Printers82143, status
    <3> QED BY <3>2, <3>5, <3>6
  <2>2. CASE h.buffer # <<>>
    BY <2>2
  <2> QED BY <2>1, <2>2
<1>4. Buffered(h, b) = IF b.kind = "mode" THEN helios_set_mode(h2, b.m) ELSE h2
  BY <1>3 DEF Buffered, Printers82143
<1> HIDE DEF h1, more
<1>5. h2 \in Printers82143 /\ h2.buffer = more /\ h2.status = h1.status
  BY <1>2, <1>3 DEF Printers82143
<1> HIDE DEF h2
<1>6. CASE b.kind = "mode"
  <2>1. b.m \in SUBSET Modes /\ "BUF_EMPTY" \notin Modes
    BY <1>1, <1>6 DEF Modes
  <2> DEFINE status == (h2.status \ Modes) \cup b.m
  <2>2. Buffered(h, b) = [h2 EXCEPT !.status = status]
    BY <1>4, <1>6 DEF helios_set_mode
  <2>3. status \in SUBSET PrinterStatus /\ ("BUF_EMPTY" \in status <=> "BUF_EMPTY" \in h2.status)
    BY <1>5, <2>1 DEF Printers82143, PrinterStatus
  <2> HIDE DEF status
  <2>4. Buffered(h, b) \in Printers82143 /\ Buffered(h, b).buffer = h2.buffer /\ Buffered(h, b).status = status
    BY <1>5, <2>2, <2>3 DEF Printers82143
  <2> QED BY <1>3, <1>5, <2>3, <2>4 DEF more
<1>7. CASE b.kind # "mode"
  <2>1. Buffered(h, b) = h2
    BY <1>4, <1>7
  <2> QED BY <1>3, <1>5, <2>1 DEF more
<1> QED BY <1>6, <1>7

(* helios_npic_write *)
LEMMA WriteKeeps ==
  ASSUME HeliosInv, NEW b \in Bytes, helios_npic_write(b)
  PROVE  HeliosInv'
<1> DEFINE h == Bit(helios, "LAST_BYTE_EOL", b.kind = "eol")
           once == [sent EXCEPT !.count = @ + 1]
           item == Items(Stored(b))
           s == [items |-> sent.items \o item, modes |-> Append(sent.modes, helios_get_mode(h)), count |-> sent.count + 1]
<1>1. /\ helios \in Printers82143 /\ IsSent(sent) /\ lines \in Seq(WindowLines)
      /\ Accounted(helios, sent, lines) /\ sent.count \in Nat
  BY DEF HeliosInv, IsSent
<1>2. h \in Printers82143 /\ h.buffer = helios.buffer /\ Accounted(h, sent, lines)
  <2>1. "LAST_BYTE_EOL" \in PrinterStatus \ {"BUF_EMPTY"}
    BY DEF PrinterStatus
  <2> QED BY <1>1, <2>1, BitKeeps
<1>3. IsSent(once) /\ once.items = sent.items
  <2>1. once = [items |-> sent.items, modes |-> sent.modes, count |-> sent.count + 1]
    BY <1>1 DEF IsSent
  <2> HIDE DEF once
  <2> QED BY <1>1, <2>1 DEF IsSent
<1>4. Accounted(h, once, lines)
  BY <1>2, <1>3 DEF Accounted
<1>5. IsSent(s) /\ s.items = sent.items \o item
  BY <1>1 DEF IsSent
<1>6. /\ b.kind = "eol" => helios_eol(h, b.right, once)
      /\ b.kind = "ignore_adv" =>
           /\ helios' = Bit(h, "IGNORE_ADV", b.on) /\ sent' = once
           /\ UNCHANGED lines
      /\ b.kind \notin {"eol", "ignore_adv"} =>
           IF Len(Buffered(h, b).buffer) = HELIOS_BUF_MAX
           THEN helios_eol(Buffered(h, b), "RIGHT_JUST" \in h.status, s)
           ELSE helios' = Buffered(h, b) /\ sent' = s /\ UNCHANGED lines
      /\ b.kind \notin {"eol", "ignore_adv"} => Len(helios.buffer) < HELIOS_BUF_MAX
  BY DEF helios_npic_write
<1>11. Len(h.buffer) <= HELIOS_BUF_MAX /\ HELIOS_BUF_MAX \in Nat /\ Room(helios.buffer)
  <2>1. Len(helios.buffer) \in Nat
    BY <1>1, LenProperties DEF Printers82143
  <2> QED BY <1>2, <2>1, HeliosAssumption DEF HeliosInv, Room
<1> HIDE DEF h, once, item, s
<1>7. CASE \E on \in BOOLEAN : b = Eol(on)
  <2>1. b.kind = "eol"
    BY <1>7 DEF Eol
  <2> QED BY <1>1, <1>2, <1>3, <1>4, <1>6, <1>11, <2>1, EolKeeps
<1>8. CASE \E on \in BOOLEAN : b = IgnoreAdv(on)
  <2>1. b.kind = "ignore_adv"
    BY <1>8 DEF IgnoreAdv
  <2>2. helios' = Bit(h, "IGNORE_ADV", b.on) /\ sent' = once /\ lines' = lines
    BY <1>6, <2>1
  <2>3. "IGNORE_ADV" \in PrinterStatus \ {"BUF_EMPTY"}
    BY DEF PrinterStatus
  <2>4. helios' \in Printers82143 /\ helios'.buffer = helios.buffer /\ Accounted(helios', once, lines)
    BY <1>2, <1>4, <2>2, <2>3, BitKeeps
  <2> QED BY <1>1, <1>3, <1>11, <2>2, <2>4 DEF HeliosInv
<1>9. CASE Buffers(b)
  <2> DEFINE hb == Buffered(h, b)
             a == Printed(lines)
             w == Waiting(h.buffer)
  <2>1. b.kind \notin {"eol", "ignore_adv"} /\ Stored(b) \in PrinterBytes
    BY <1>1, <1>9, StoredIs
  <2>2. /\ hb \in Printers82143 /\ hb.buffer = Append(h.buffer, Stored(b))
        /\ "BUF_EMPTY" \notin hb.status \/ ("BUF_EMPTY" \in h.status /\ h.buffer # <<>>)
    BY <1>1, <1>2, <1>9, BufferedIs
  <2>3. h.buffer \in Seq(PrinterBytes) /\ hb.buffer # <<>>
    BY <1>2, <2>1, <2>2, AppendProperties DEF Printers82143
  <2>4. "BUF_EMPTY" \notin hb.status
    BY <1>2, <2>2 DEF Accounted
  <2>5. Waiting(hb.buffer) = w \o item
    BY <2>1, <2>2, <2>3, WaitingAppend DEF item
  <2>6. a \in Seq(PrinterItems) /\ w \in Seq(PrinterItems) /\ item \in Seq(PrinterItems)
    BY <1>1, <2>1, <2>3, PrintedIs, WaitingIs, ItemsAre DEF item
  <2>7. s.items = a \o Waiting(hb.buffer)
    <3>1. s.items = (a \o w) \o item
      BY <1>2, <1>5 DEF Accounted
    <3> HIDE DEF a, w
    <3>2. (a \o w) \o item = a \o (w \o item)
      BY <2>6, ConcatAssociative
    <3> QED BY <2>5, <3>1, <3>2
  <2>8. Accounted(hb, s, lines)
    BY <2>3, <2>4, <2>7 DEF Accounted
  <2>11. Len(hb.buffer) = Len(helios.buffer) + 1 /\ Len(helios.buffer) \in Nat /\ Len(helios.buffer) < HELIOS_BUF_MAX
    BY <1>2, <1>6, <2>1, <2>2, <2>3, LenProperties, AppendProperties
  <2> HIDE DEF hb
  <2>12. Len(hb.buffer) <= HELIOS_BUF_MAX
    BY <1>11, <2>11
  <2>9. CASE Len(hb.buffer) = HELIOS_BUF_MAX
    <3>1. helios_eol(hb, "RIGHT_JUST" \in h.status, s)
      BY <1>6, <2>1, <2>9 DEF hb
    <3> QED BY <1>1, <1>5, <2>2, <2>8, <2>12, <3>1, EolKeeps
  <2>10. CASE Len(hb.buffer) # HELIOS_BUF_MAX
    <3>1. helios' = hb /\ sent' = s /\ lines' = lines
      BY <1>6, <2>1, <2>10 DEF hb
    <3>2. Room(hb.buffer)
      BY <1>11, <2>10, <2>11, <2>12 DEF Room
    <3> QED BY <1>1, <1>5, <2>2, <2>8, <3>1, <3>2 DEF HeliosInv
  <2> QED BY <2>9, <2>10
<1>10. Buffers(b) \/ (\E on \in BOOLEAN : b = Eol(on)) \/ (\E on \in BOOLEAN : b = IgnoreAdv(on))
  BY HeliosBytesAssumption DEF Buffers
<1> QED BY <1>7, <1>8, <1>9, <1>10

(* Every step *)
LEMMA HeliosSteps == HeliosInv /\ [HeliosNext]_hevars => HeliosInv'
<1> SUFFICES ASSUME HeliosInv, [HeliosNext]_hevars PROVE HeliosInv'
  OBVIOUS
<1>1. /\ helios \in Printers82143 /\ IsSent(sent) /\ lines \in Seq(WindowLines)
      /\ Accounted(helios, sent, lines) /\ Room(helios.buffer)
  BY DEF HeliosInv
<1>2. CASE \E b \in Bytes : helios_npic_write(b)
  BY <1>2, WriteKeeps
<1>3. ASSUME NEW b \in WindowButtons, NEW on \in BOOLEAN, HeliosButton(b, on) PROVE HeliosInv'
  <2>1. helios' = Bit(helios, b, on) /\ sent' = sent /\ lines' = lines
    BY <1>3 DEF HeliosButton
  <2>2. b \in PrinterStatus \ {"BUF_EMPTY"}
    BY HeliosAssumption DEF PrinterStatus
  <2>3. helios' \in Printers82143 /\ helios'.buffer = helios.buffer /\ Accounted(helios', sent, lines)
    BY <1>1, <2>1, <2>2, BitKeeps
  <2> QED BY <1>1, <2>1, <2>3 DEF HeliosInv
<1>4. ASSUME NEW m \in SwitchModes, HeliosMode(m) PROVE HeliosInv'
  <2> DEFINE status == (helios.status \ {"MODE_TRACE", "MODE_NORM"}) \cup m
  <2>1. helios' = [helios EXCEPT !.status = status] /\ sent' = sent /\ lines' = lines
    BY <1>4 DEF HeliosMode
  <2>2. m \subseteq {"MODE_TRACE", "MODE_NORM"}
    BY HeliosAssumption
  <2>3. status \in SUBSET PrinterStatus /\ ("BUF_EMPTY" \in status <=> "BUF_EMPTY" \in helios.status)
    BY <1>1, <2>2 DEF Printers82143, PrinterStatus
  <2> HIDE DEF status
  <2>4. helios' \in Printers82143 /\ helios'.buffer = helios.buffer /\ helios'.status = status
    BY <1>1, <2>1, <2>3 DEF Printers82143
  <2>5. Accounted(helios', sent, lines)
    BY <1>1, <2>3, <2>4 DEF Accounted
  <2> QED BY <1>1, <2>1, <2>4, <2>5 DEF HeliosInv
<1>5. CASE helios_reset
  <2>1. helios' = HeliosReset(helios.mode) /\ sent' = NothingSent /\ lines' = <<>>
    BY <1>5 DEF helios_reset
  <2>2. helios.mode \in SUBSET Modes
    BY <1>1 DEF Printers82143
  <2>3. helios' \in Printers82143 /\ helios'.buffer = <<>> /\ "BUF_EMPTY" \in helios'.status
    BY <2>1, <2>2, ResetIs
  <2>4. /\ <<>> \in Seq(WindowLines) /\ IsSent(NothingSent)
        /\ Accounted(helios', NothingSent, <<>>) /\ Room(helios'.buffer)
    BY <2>3, FromTheStart
  <2> QED BY <2>1, <2>3, <2>4 DEF HeliosInv
<1>6. CASE (\E b \in Bytes : Overruns(b)) \/ op_powoff \/ UNCHANGED hevars
  <2>1. helios' = helios /\ sent' = sent /\ lines' = lines
    BY <1>6 DEF Overruns, op_powoff, hevars
  <2> QED BY <1>1, <2>1 DEF HeliosInv
<1> QED BY <1>2, <1>3, <1>4, <1>5, <1>6 DEF HeliosNext

(* The printer HP 82143A: everything the program wrote is in its order on  *)
(* a line in the window or still in the buffer, for a buffer and a paper   *)
(* of any size, however lines are cut; and the buffer has room for the     *)
(* next byte unless blanks too many for a line are at its front.           *)
THEOREM NothingIsLostCorrect == HeliosSpec => []NothingIsLost
BY HeliosInitially, HeliosSteps, HeliosInvIs, PTL DEF HeliosSpec
==============================================================================
