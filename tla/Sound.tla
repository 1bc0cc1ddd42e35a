-------------------------------- MODULE Sound --------------------------------
(***************************************************************************)
(* The table of sounds (sound.c) and its three users: the bender of the    *)
(* Nut, by which the simulator's thread turns the transitions of the flag  *)
(* output FO into a tone (proc_nut.c), the goose in the About window, which*)
(* the GUI's thread lets cry (goose.c), and the callback of SDL's audio    *)
(* thread, which mixes what runs.  Only the callback and the end of a      *)
(* sound by stop_sound hold the audio lock; looking for an entry and       *)
(* filling it do not, so that the two threads can have the same one        *)
(* (spoilt).                                                               *)
(***************************************************************************)
EXTENDS Integers

CONSTANTS MAX_SOUNDS,             \* 4
          MAX_PULSE_WIDTH,        \* 20: BENDER_MAX_PULSE_WIDTH, in word times
          LENGTH                  \* of the goose's cry, in rounds of the callback

ASSUME SoundAssumption ==
  MAX_SOUNDS \in Nat \ {0} /\ MAX_PULSE_WIDTH \in Nat \ {0} /\ LENGTH \in Nat \ {0}

VARIABLES sounds,    \* sound_v.sounds
          enable,    \* sound_v.enable
          bender,    \* bender_last_transition_cycle as word times ago, last_pulse_width, sound_ref
          cpu,       \* "awake", and whether it is at the first cycle after a reset
          call,      \* where the threads "sim" and "gui" are in sound.c, and with which entry
          cb,        \* the callback: the entry that it is at, and whether it found that to run
          spoilt     \* history: the entries that both threads had at once, or whose tone a reset forgot

svars == <<sounds, enable, bender, cpu, call, cb, spoilt>>

Ids == 0..(MAX_SOUNDS - 1)
LongAgo == 0         \* of bender_last_transition_cycle, and of a pulse width
NoRef == -1
Outside == [at |-> "outside", id |-> NoRef]
Callback(id, found) == [id |-> id, found |-> found]
CallbackIdle == Callback(MAX_SOUNDS, FALSE)
Locked == cb # CallbackIdle           \* the callback runs with the audio lock

SInit ==
  /\ sounds = [i \in Ids |-> [run |-> FALSE, type |-> "none", data |-> FALSE, left |-> 0, of |-> "none"]]
  /\ enable \in BOOLEAN
  /\ bender = [ago |-> LongAgo, width |-> LongAgo, ref |-> NoRef]
  /\ cpu = [awake |-> TRUE, first |-> TRUE]
  /\ call = [t \in {"sim", "gui"} |-> Outside]
  /\ cb = CallbackIdle /\ spoilt = {}

-----------------------------------------------------------------------------
(* sound.c, step by step *)
At(t, at) == call[t].at = at
IsOutside(t) == At(t, "outside")
GoTo(t, at, id) == call' = [call EXCEPT ![t] = [at |-> at, id |-> id]]

(* the entry that is open while the thread has it                          *)
EntryOf(t) == IF call[t].at \in {"stopped", "clear", "fill", "run"} THEN call[t].id ELSE NoRef

(* stop_sound: it has seen that the entry runs *)
stop_sound_NoLock(t) ==             \* mutant: without SDL_LockAudio
  /\ At(t, "stop")
  /\ sounds' = [sounds EXCEPT ![call[t].id].run = FALSE]
  /\ GoTo(t, "stopped", call[t].id)

stop_sound(t) ==
  /\ At(t, "stop") /\ ~Locked
  /\ sounds' = [sounds EXCEPT ![call[t].id].run = FALSE]
  /\ GoTo(t, "stopped", call[t].id)

Stopping_RefIsTrue(t, id) ==       \* mutant: a reference of 0 is none
  IF enable /\ id \in Ids \ {0} /\ sounds[id].run THEN GoTo(t, "stop", id) ELSE GoTo(t, "stopped", NoRef)

Stopping(t, id) ==                 \* its checks
  IF enable /\ id \in Ids /\ sounds[id].run THEN GoTo(t, "stop", id) ELSE GoTo(t, "stopped", NoRef)

(* find_open_sound_slot, which looks at one entry after the other; between *)
(* its look at run and the caller's setting it the other thread may come   *)
(* to the same entry.                                                      *)
NotFound(t) ==
  /\ At(t, "find") /\ (~enable \/ call[t].id = MAX_SOUNDS)
  /\ GoTo(t, "return", NoRef) /\ UNCHANGED <<sounds, spoilt>>

Look(t, id) ==
  /\ At(t, "find") /\ enable /\ id = call[t].id
  /\ IF sounds[id].run THEN GoTo(t, "find", id + 1) /\ UNCHANGED spoilt
     ELSE /\ GoTo(t, "clear", id)
          /\ spoilt' = spoilt \cup {i \in {id} : \E u \in {"sim", "gui"} \ {t} : EntryOf(u) = i}
  /\ UNCHANGED sounds

Clear(t, id) ==                    \* the data of the sound before
  /\ At(t, "clear") /\ id = call[t].id
  /\ sounds' = [sounds EXCEPT ![id].data = FALSE]
  /\ GoTo(t, "fill", id) /\ UNCHANGED spoilt

find_open_sound_slot(t) == NotFound(t) \/ \E id \in Ids : Look(t, id) \/ Clear(t, id)

(* play_sound by the GUI, synth_sound by the bender: fill the entry ...    *)
Fill(t, id) ==
  /\ At(t, "fill") /\ id = call[t].id
  /\ sounds' = [sounds EXCEPT ![id] = IF t = "gui"
       THEN [@ EXCEPT !.type = "recorded", !.data = TRUE, !.left = LENGTH, !.of = "goose"]
       ELSE [@ EXCEPT !.type = "synth", !.of = "bender"]]
  /\ GoTo(t, "run", id)

(* ... and then let it run *)
Run(t, id) ==
  /\ At(t, "run") /\ id = call[t].id
  /\ sounds' = [sounds EXCEPT ![id].run = TRUE]
  /\ GoTo(t, "return", id)

(* sound_callback, one entry at a time: whether it runs, then            *)
(* sound_mix_recorded or sound_mix_synth, of a sound without an end.  (Of  *)
(* a recorded one whose data is gone what it mixes is undefined; only an   *)
(* entry that is spoilt can be one.)                                       *)
CallbackBegins == cb = CallbackIdle /\ cb' = Callback(0, FALSE) /\ UNCHANGED sounds

CallbackLooks ==
  /\ Locked /\ ~cb.found
  /\ cb' = IF sounds[cb.id].run THEN Callback(cb.id, TRUE) ELSE Callback(cb.id + 1, FALSE)
  /\ UNCHANGED sounds

CallbackMixes ==
  /\ Locked /\ cb.found
  /\ sounds' = IF sounds[cb.id].type = "synth" THEN sounds
                ELSE [sounds EXCEPT ![cb.id].left = IF @ > 0 THEN @ - 1 ELSE 0,
                                    ![cb.id].run = sounds[cb.id].left > 1]
  /\ cb' = Callback(cb.id + 1, FALSE)

sound_callback ==
  (CallbackBegins \/ CallbackLooks \/ CallbackMixes) /\ UNCHANGED <<enable, bender, cpu, call, spoilt>>

-----------------------------------------------------------------------------
(* The bender, in the simulator's thread *)
Overdue_OneLate == bender.ago # LongAgo /\ bender.ago > MAX_PULSE_WIDTH + 1      \* mutant
Overdue == bender.ago # LongAgo /\ bender.ago > MAX_PULSE_WIDTH

(* A cycle of an awake processor begins with bender_off, if it is time.    *)
bender_off ==
  /\ IsOutside("sim") /\ cpu.awake /\ Overdue
  /\ Stopping("sim", bender.ref)
  /\ bender' = [bender EXCEPT !.ago = LongAgo, !.width = LongAgo, !.ref = NoRef]
  /\ UNCHANGED <<sounds, enable, cpu, cb, spoilt>>

Later(ago) == IF ago = LongAgo THEN LongAgo ELSE ago + 1

(* an instruction that leaves FO alone *)
OtherInstruction ==
  /\ IsOutside("sim") /\ cpu.awake /\ ~Overdue
  /\ bender' = [bender EXCEPT !.ago = Later(@)]
  /\ cpu' = [cpu EXCEPT !.first = FALSE]
  /\ UNCHANGED <<sounds, enable, call, cb, spoilt>>

(* op_sb_to_f, op_f_exch_sb with set_fo and bender_pulse: a transition     *)
(* stops the sound and begins another one, if the width is a new one.  A   *)
(* transition in cycle 0 is taken for one of long ago.                     *)
set_fo ==
  /\ IsOutside("sim") /\ cpu.awake /\ ~Overdue
  /\ LET pulse == bender.ago # LongAgo /\ bender.ago # bender.width
     IN  /\ IF pulse THEN Stopping("sim", bender.ref) ELSE UNCHANGED call
         /\ bender' = [ago |-> IF cpu.first THEN LongAgo ELSE 1,
                       width |-> IF pulse THEN bender.ago ELSE bender.width,
                       ref |-> IF pulse THEN NoRef ELSE bender.ref]
  /\ cpu' = [cpu EXCEPT !.first = FALSE]
  /\ UNCHANGED <<sounds, enable, cb, spoilt>>

(* Back from stop_sound: bender_pulse goes on with synth_sound.            *)
Stopped ==
  /\ At("sim", "stopped")
  /\ IF bender.width = LongAgo THEN GoTo("sim", "outside", NoRef) ELSE GoTo("sim", "find", 0)
  /\ sounds' = IF call["sim"].id \in Ids THEN [sounds EXCEPT ![call["sim"].id].data = FALSE] ELSE sounds
  /\ UNCHANGED <<enable, bender, cpu, cb, spoilt>>

Return(t) ==
  /\ At(t, "return")
  /\ bender' = IF t = "sim" THEN [bender EXCEPT !.ref = call[t].id] ELSE bender
  /\ GoTo(t, "outside", NoRef)
  /\ UNCHANGED <<sounds, enable, cpu, cb, spoilt>>

(* op_powoff, and a key or a device *)
SleepOrWake ==
  /\ IsOutside("sim") /\ ~Overdue
  /\ cpu' = [cpu EXCEPT !.awake = ~@]
  /\ UNCHANGED <<sounds, enable, bender, call, cb, spoilt>>

(* at any time, also while it sounds *)
nut_reset ==
  /\ IsOutside("sim")
  /\ bender' = [bender EXCEPT !.ago = LongAgo, !.ref = NoRef]
  /\ cpu' = [awake |-> TRUE, first |-> TRUE]
  /\ spoilt' = spoilt \cup ({bender.ref} \cap Ids)
  /\ UNCHANGED <<sounds, enable, call, cb>>

(* goose_click_callback, wherever the simulator's thread is *)
goose_click ==
  /\ IsOutside("gui")
  /\ GoTo("gui", "find", 0)
  /\ UNCHANGED <<sounds, enable, bender, cpu, cb, spoilt>>

InCall(t) ==
  /\ \/ find_open_sound_slot(t)
     \/ /\ stop_sound(t) \/ \E id \in Ids : Fill(t, id) \/ Run(t, id)
        /\ UNCHANGED spoilt
  /\ UNCHANGED <<enable, bender, cpu, cb>>

Sim == bender_off \/ OtherInstruction \/ set_fo \/ Stopped \/ SleepOrWake \/ nut_reset
SNext == Sim \/ goose_click \/ sound_callback \/ \E t \in {"sim", "gui"} : InCall(t) \/ Return(t)
SSpec == SInit /\ [][SNext]_svars

-----------------------------------------------------------------------------
(* The tone is the bender's: between two instructions the one entry that   *)
(* sounds for the bender is the one it will stop, and none does when it    *)
(* has none, whatever the goose and the callback do meanwhile, in the      *)
(* middle of the bender's calls too; but for the entries that both threads *)
(* found open at once, and the tone that a reset forgot.  (bender_off,     *)
(* bender_pulse; a reference kept by one thread to an entry that the       *)
(* callback and the other thread fill and end)                             *)
Tones == {i \in Ids : sounds[i].run /\ sounds[i].of = "bender"}
TheToneIsTheBenders == IsOutside("sim") => Tones \ spoilt = ({bender.ref} \cap Ids) \ spoilt

(* A tone does not outlive the pulses that made it by more than            *)
(* BENDER_MAX_PULSE_WIDTH word times of the processor, whatever cries of   *)
(* the goose take entries of the table meanwhile, but for the same ones.   *)
NoToneWithoutPulses ==
  IsOutside("sim") /\ Tones \ spoilt # {} => bender.ago # LongAgo /\ bender.ago <= MAX_PULSE_WIDTH + 1

(* The callback mixes only an entry that was complete when it looked at    *)
(* it, and nobody ends or fills it in between, unless both threads had it. *)
(* (SDL_LockAudio in stop_sound; run set last in play_sound, synth_sound)  *)
MixesWhatItLookedAt ==
  cb.found /\ cb.id \notin spoilt =>
    sounds[cb.id].run /\ (sounds[cb.id].of = "goose" => sounds[cb.id].data)

(* nut_reset says of the reference that it sets to -1: "no sound playing". *)
NoReferenceNoTone == IsOutside("sim") /\ bender.ref = NoRef => Tones = {}

=============================================================================
