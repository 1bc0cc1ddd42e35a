----------------------------- MODULE CardReader -----------------------------
(***************************************************************************)
(* The magnetic card reader of the HP-67 and HP-97: the window in which    *)
(* the user inserts a card file (card_reader.c, GUI thread), the card      *)
(* reader controller (crc.c, simulator thread) and, external, the          *)
(* firmware's card routines (ncd/67-97/6797cr.asm).                        *)
(*                                                                         *)
(* The GUI allocates the image of a card side and hands it to the chip in  *)
(* an event; the chip hands it back in a message when the last word has    *)
(* passed the head, and only then is the window open for the next card.    *)
(***************************************************************************)
EXTENDS Naturals, Sequences

CONSTANTS Cards,         \* the card files
          NoCard,
          Protected,     \* those whose file says write-protect="1" at first
          Contents,      \* what a word of a card holds
          BlankWord,     \* the words of a new card
          CRC_MAX_WORD   \* words on a card side

ASSUME CardAssumption ==
  /\ NoCard \notin Cards /\ Protected \subseteq Cards
  /\ BlankWord \in Contents
  /\ CRC_MAX_WORD \in Nat /\ CRC_MAX_WORD >= 2

Words == 1..CRC_MAX_WORD

VARIABLES file,       \* the card files on disk
          side,       \* cr->side: the card in the GUI's window
          image,      \* [word, protect, dirty]: the memory side points to, shared with the chip
          buttons,    \* are the insert buttons sensitive?
          card_side,  \* crc_reg->card_side
          head,       \* crc_reg->head_position, the words that have passed
          flag,       \* crc_reg->flag[CRC_FLAG_...]
          gui_q,      \* chip messages to the GUI (GuiChannel)
          phase,      \* where the firmware is
          passed,     \* how many words the firmware has read or written
          payload,    \* what it is writing or has read
          was_reset,  \* was the calculator ever reset?
          died        \* the message of fatal()

window == <<file, side, image, buttons>>
crc == <<card_side, head, flag>>
firmware == <<phase, passed, payload>>
cvars == <<window, crc, gui_q, firmware, was_reset, died>>

Flags == {"BUFFER_READY", "MOTOR_ENABLE", "CARD_INSERTED", "WRITE_MODE"}
Off == [f \in Flags |-> FALSE]

NewCard == [word |-> [w \in Words |-> BlankWord], protect |-> FALSE, dirty |-> FALSE]

CInit ==
  /\ \E v \in [Cards -> [Words -> Contents]] :
       file = [c \in Cards |-> [word |-> v[c], protect |-> c \in Protected]]
  /\ side = NoCard /\ image = NewCard
  /\ buttons = TRUE
  /\ card_side = NoCard /\ head = 0 /\ flag = Off
  /\ gui_q = <<>>
  /\ phase = "main" /\ passed = 0 /\ payload = <<>>
  /\ was_reset = FALSE /\ died = "none"

Fatal(message) ==
  /\ died' = message
  /\ UNCHANGED <<window, crc, gui_q, firmware, was_reset>>

-----------------------------------------------------------------------------
EndOfCard_WordEarly(h) == h >= CRC_MAX_WORD - 1    \* mutant
EndOfCard(h) == h >= CRC_MAX_WORD

(* crc_update_flags, for the card c at the head position h and the flags f *)
(* that the caller has set: BUFFER_READY is computed before the test for   *)
(* the end of the card, so it stays set after the last word.               *)
crc_update_flags_LastWordNotReady(c, h, f) ==  \* mutant: computed after the test
  /\ flag' = [f EXCEPT !["BUFFER_READY"] = c # NoCard /\ f["MOTOR_ENABLE"] /\ ~EndOfCard(h),
                       !["CARD_INSERTED"] = IF c # NoCard /\ EndOfCard(h) THEN FALSE ELSE @]
  /\ IF c # NoCard /\ EndOfCard(h)
     THEN gui_q' = Append(gui_q, c) /\ card_side' = NoCard /\ head' = 0
     ELSE card_side' = c /\ head' = h /\ UNCHANGED gui_q

crc_update_flags_KeepsCard(c, h, f) ==  \* mutant: the chip keeps its pointer
  /\ flag' = [f EXCEPT !["BUFFER_READY"] = c # NoCard /\ f["MOTOR_ENABLE"],
                       !["CARD_INSERTED"] = IF c # NoCard /\ EndOfCard(h) THEN FALSE ELSE @]
  /\ IF c # NoCard /\ EndOfCard(h)
     THEN gui_q' = Append(gui_q, c) /\ card_side' = c /\ head' = 0
     ELSE card_side' = c /\ head' = h /\ UNCHANGED gui_q

crc_update_flags(c, h, f) ==
  /\ flag' = [f EXCEPT !["BUFFER_READY"] = c # NoCard /\ f["MOTOR_ENABLE"],
                       !["CARD_INSERTED"] = IF c # NoCard /\ EndOfCard(h) THEN FALSE ELSE @]
  /\ IF c # NoCard /\ EndOfCard(h)
     THEN gui_q' = Append(gui_q, c) /\ card_side' = NoCard /\ head' = 0
     ELSE card_side' = c /\ head' = h /\ UNCHANGED gui_q

(* crc_op_set_flag and crc_op_test_flag_and_clear *)
crc_op_set_flag(f) == crc_update_flags(card_side, head, [flag EXCEPT ![f] = TRUE])

crc_op_test_flag_and_clear(f) ==
  crc_update_flags(card_side, head, [flag EXCEPT ![f] = FALSE])

(* gui_card_reader_insert_card and gui_card_reader_insert_new_card once    *)
(* the file is chosen, with crc_insert_card, which the simulator thread    *)
(* executes before sim_event returns                                       *)
InsertCard(c, new) ==
  /\ died = "none" /\ buttons
  /\ IF side # NoCard THEN Fatal("card inserted while card reader busy")
     ELSE IF card_side # NoCard THEN Fatal("card already inserted")
     ELSE IF flag["MOTOR_ENABLE"] THEN Fatal("card inserted while motor running")
     ELSE /\ buttons' = FALSE
          /\ side' = c
          /\ image' = IF new THEN NewCard
                      ELSE [word |-> file[c].word, protect |-> file[c].protect, dirty |-> FALSE]
          /\ crc_update_flags(c, 0, [flag EXCEPT !["CARD_INSERTED"] = TRUE])
          /\ UNCHANGED <<file, firmware, was_reset, died>>

SavedCard == [word |-> image.word, protect |-> image.protect]     \* write_card

(* gui_card_reader_update: the callback of the chip message *)
gui_card_reader_update ==
  /\ died = "none" /\ gui_q # <<>>
  /\ IF Head(gui_q) # side THEN Fatal("card reader returned different card side")
     ELSE /\ file' = IF image.dirty THEN [file EXCEPT ![side] = SavedCard] ELSE file
          /\ side' = NoCard
          /\ buttons' = TRUE
          /\ gui_q' = Tail(gui_q)
          /\ UNCHANGED <<image, crc, firmware, was_reset, died>>

(* crc_read *)
crc_read_Stays ==        \* mutant: the head does not move with the first word
  IF card_side = NoCard THEN Fatal("read with no card")
  ELSE IF flag["WRITE_MODE"] THEN Fatal("read when in write mode")
  ELSE IF ~flag["MOTOR_ENABLE"] THEN Fatal("read with motor off")
  ELSE IF EndOfCard(head) THEN Fatal("read past end of card")
  ELSE
    /\ payload' = Append(payload, image.word[head + 1])
    /\ passed' = passed + 1
    /\ crc_update_flags(card_side, IF passed = 0 THEN head ELSE head + 1, flag)
    /\ phase' = IF passed' = CRC_MAX_WORD THEN "wait_no_card" ELSE "reading"
    /\ UNCHANGED <<window, was_reset, died>>

crc_read ==
  IF card_side = NoCard THEN Fatal("read with no card")
  ELSE IF flag["WRITE_MODE"] THEN Fatal("read when in write mode")
  ELSE IF ~flag["MOTOR_ENABLE"] THEN Fatal("read with motor off")
  ELSE IF EndOfCard(head) THEN Fatal("read past end of card")
  ELSE
    /\ payload' = Append(payload, image.word[head + 1])
    /\ passed' = passed + 1
    /\ crc_update_flags(card_side, head + 1, flag)
    /\ phase' = IF passed' = CRC_MAX_WORD THEN "wait_no_card" ELSE "reading"
    /\ UNCHANGED <<window, was_reset, died>>

(* crc_write *)
crc_write ==
  IF card_side = NoCard THEN Fatal("write with no card")
  ELSE IF ~flag["WRITE_MODE"] THEN Fatal("write when in read mode")
  ELSE IF image.protect THEN Fatal("write to write-protected card")
  ELSE IF ~flag["MOTOR_ENABLE"] THEN Fatal("write with motor off")
  ELSE IF EndOfCard(head) THEN Fatal("write past end of card")
  ELSE
    /\ image' = [image EXCEPT !.word[head + 1] = payload[passed + 1], !.dirty = TRUE]
    /\ passed' = passed + 1
    /\ crc_update_flags(card_side, head + 1, flag)
    /\ phase' = "written"
    /\ UNCHANGED <<file, side, buttons, payload, was_reset, died>>

(* crc_reset, on event_reset, event_wake and event_restore_completed: the  *)
(* flags, not the card; the firmware starts again.                         *)
Reset ==
  /\ died = "none"
  /\ flag' = Off /\ was_reset' = TRUE
  /\ phase' = "main" /\ passed' = 0 /\ payload' = <<>>
  /\ UNCHANGED <<window, card_side, head, gui_q, died>>

-----------------------------------------------------------------------------
(* The firmware.  Each test of a flag also clears it.  It writes a card of *)
(* which every word is the same v: what tells a whole card from a mixed    *)
(* one.                                                                    *)
Goto(next) == phase' = next /\ UNCHANGED <<passed, payload>>
ChipOnly == UNCHANGED <<window, was_reset, died>>

Firmware ==
  \/ /\ phase \in {"main", "prompt"}       \* L0204, card_prompt
     /\ crc_op_test_flag_and_clear("CARD_INSERTED")
     /\ IF ~flag["CARD_INSERTED"] THEN Goto(phase)
        ELSE IF phase = "prompt" THEN Goto("motor")
        ELSE Goto("clear_mode") \/ Goto("write_mode")
     /\ ChipOnly
  \/ /\ phase = "main"                     \* wdata
     /\ crc_op_set_flag("WRITE_MODE")
     /\ Goto("prompt") /\ ChipOnly
  \/ /\ phase = "prompt" /\ ~flag["CARD_INSERTED"]   \* a key: card_done
     /\ Goto("main")
     /\ UNCHANGED <<crc, gui_q>> /\ ChipOnly
  \/ /\ phase = "clear_mode"               \* card_inserted
     /\ crc_op_test_flag_and_clear("WRITE_MODE")
     /\ Goto("motor") /\ ChipOnly
  \/ /\ phase = "write_mode"               \* wprgm
     /\ crc_op_set_flag("WRITE_MODE")
     /\ Goto("motor") /\ ChipOnly
  \/ /\ phase = "motor"                    \* Scr3341
     /\ crc_op_set_flag("MOTOR_ENABLE")
     /\ passed' = 0
     /\ IF flag["WRITE_MODE"]
        THEN phase' = "written" /\ \E v \in Contents : payload' = [w \in Words |-> v]
        ELSE phase' = "reading" /\ payload' = <<>>
     /\ ChipOnly
  \/ /\ phase = "reading"                  \* Scr3167, then crc_read_56
     /\ crc_op_test_flag_and_clear("BUFFER_READY")
     /\ Goto(IF flag["BUFFER_READY"] THEN "read" ELSE phase)
     /\ ChipOnly
  \/ phase = "read" /\ crc_read
  \/ /\ phase = "written"                  \* Scr3201
     /\ crc_op_test_flag_and_clear("BUFFER_READY")
     /\ Goto(IF ~flag["BUFFER_READY"] THEN "written"
             ELSE IF passed = CRC_MAX_WORD THEN "wait_no_card" ELSE "write")
     /\ ChipOnly
  \/ phase = "write" /\ crc_write
  \/ /\ phase = "wait_no_card"
     /\ crc_op_test_flag_and_clear("CARD_INSERTED")
     /\ Goto(IF flag["CARD_INSERTED"] THEN "wait_no_card" ELSE "motor_off")
     /\ ChipOnly
  \/ /\ phase = "motor_off"
     /\ crc_op_test_flag_and_clear("MOTOR_ENABLE")
     /\ Goto("main") \/ Goto("prompt")     \* one card, or more to come
     /\ ChipOnly

Instruction == died = "none" /\ Firmware

CNext ==
  \/ \E c \in Cards, new \in BOOLEAN : InsertCard(c, new)
  \/ gui_card_reader_update
  \/ Instruction
  \/ Reset

CSpec == CInit /\ [][CNext]_cvars /\ WF_cvars(Instruction) /\ WF_cvars(gui_card_reader_update)

-----------------------------------------------------------------------------
Phases == {"main", "prompt", "clear_mode", "write_mode", "motor", "reading", "read",
           "written", "write", "wait_no_card", "motor_off"}

CTypeOK ==
  /\ file \in [Cards -> [word : [Words -> Contents], protect : BOOLEAN]]
  /\ side \in Cards \cup {NoCard}
  /\ image \in [word : [Words -> Contents], protect : BOOLEAN, dirty : BOOLEAN]
  /\ buttons \in BOOLEAN
  /\ card_side \in Cards \cup {NoCard} /\ head \in 0..(CRC_MAX_WORD - 1)
  /\ flag \in [Flags -> BOOLEAN]
  /\ gui_q \in Seq(Cards)
  /\ phase \in Phases /\ passed \in 0..CRC_MAX_WORD /\ payload \in Seq(Contents)
  /\ was_reset \in BOOLEAN

(* The image of a card has one owner at a time: while the chip holds it or *)
(* its message is on the way, it is the card of the window, which frees it *)
(* only on the message, and nothing else can be inserted.                  *)
OneOwner ==
  /\ card_side # NoCard => side = card_side /\ gui_q = <<>>
  /\ gui_q # <<>> => gui_q = <<side>> /\ card_side = NoCard
  /\ side # NoCard => ~buttons

(* No assertion of the window or of the chip fails, but for two that the   *)
(* firmware's protocol does not keep clear of: the window lets a card in   *)
(* before the firmware has stopped the motor, and the firmware cannot see  *)
(* that a card is write-protected.                                         *)
NoOtherFatal ==
  died \in {"none", "card inserted while motor running", "write to write-protected card"}

(* The hand-over of a card as a whole.                                     *)
CardIsHandedOver == CTypeOK /\ OneOwner /\ NoOtherFatal

(* A card file is written as a whole or not at all, even if the calculator *)
(* is reset while the firmware writes to the card: a file that changes is  *)
(* blank or has the words of one pass of the firmware.                     *)
FilesAreWhole ==
  [][\A c \in Cards : file'[c].word # file[c].word =>
       \E v \in Contents : file'[c].word = [w \in Words |-> v]]_cvars

(* What the firmware has read is the card, word for word from its start.   *)
ReadsTheCard ==
  phase \in {"read", "reading", "wait_no_card"} /\ ~flag["WRITE_MODE"] =>
    payload = [w \in 1..passed |-> image.word[w]]

(* An inserted card comes back to the window and the motor stops: the      *)
(* firmware, which waits for the buffer after every word it writes, the    *)
(* last one too, is not left waiting.  (A reset leaves the card in the     *)
(* chip until the firmware runs the motor again.)                          *)
TransferEnds ==
  side # NoCard \/ flag["MOTOR_ENABLE"] ~>
    ((side = NoCard /\ ~flag["MOTOR_ENABLE"]) \/ was_reset \/ died # "none")
=============================================================================
