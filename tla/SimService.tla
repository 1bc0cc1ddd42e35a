----------------------------- MODULE SimService -----------------------------
(***************************************************************************)
(* What the functions of proc.h promise to their callers in the GUI        *)
(* thread: each call takes effect at one moment between its start and its  *)
(* return and answers with the state of that moment, and the processor     *)
(* executes, one instruction at a time, only while no state I/O is in      *)
(* progress and it is running or a step was asked for.                     *)
(***************************************************************************)
CONSTANTS Words,      \* the registers and memory words of the processor
          Vals,       \* the values of a word
          NoVal       \* no argument, or no answer

VARIABLES run,        \* the run flag
          pause,      \* the state I/O pause flag
          step,       \* is a single cycle or a single instruction asked for?
          state,      \* the value of each word
          pending,    \* the call in progress, [op |-> "none"] if there is none
          answer      \* its answer

svars == <<run, pause, step, state, pending, answer>>

NoCall == [op |-> "none", arg |-> NoVal]

Calls == [op : {"set_run", "set_pause"}, arg : BOOLEAN]
           \cup [op : {"read", "read_rom"}, arg : Words]
           \cup [op : {"write"}, arg : Words \X Vals]
           \cup [op : {"get_run", "get_pause", "event", "single_cycle", "single_inst", "quit"},
                 arg : {NoVal}]

SInit ==
  /\ run = FALSE /\ pause = FALSE /\ step = {}
  /\ state \in [Words -> Vals]
  /\ pending = NoCall /\ answer = NoVal

SCall(c) ==
  /\ pending = NoCall
  /\ pending' = c
  /\ answer' = NoVal
  /\ UNCHANGED <<run, pause, step, state>>

(* The moment at which the pending call takes effect, and what it answers. *)
STakeEffect(c) ==
  /\ run' = IF c.op = "set_run" THEN c.arg ELSE run
  /\ pause' = IF c.op = "set_pause" THEN c.arg ELSE pause
  /\ step' = IF c.op \in {"single_cycle", "single_inst"} THEN step \cup {c.op} ELSE step
  /\ \/ c.op = "write" /\ state' = [state EXCEPT ![c.arg[1]] = c.arg[2]]
     \/ c.op = "event" /\ state' \in [Words -> Vals]
     \/ c.op \notin {"write", "event"} /\ state' = state
  /\ answer' = CASE c.op = "get_run" -> run
                 [] c.op = "get_pause" -> pause
                 [] c.op \in {"read", "read_rom"} -> state[c.arg]
                 [] OTHER -> NoVal

SPerform ==
  /\ pending.op \notin {"none", "done"}
  /\ STakeEffect(pending)
  /\ pending' = [op |-> "done", arg |-> NoVal]

SReturn ==
  /\ pending.op = "done"
  /\ pending' = NoCall
  /\ UNCHANGED <<run, pause, step, state, answer>>

(* One instruction, or one cycle; a step asked for is then done. *)
SExecute ==
  /\ ~pause
  /\ state' \in [Words -> Vals]
  /\ \/ run /\ step' = step
     \/ \E s \in step : step' = step \ {s}
  /\ UNCHANGED <<run, pause, pending, answer>>

SNext == (\E c \in Calls : SCall(c)) \/ SPerform \/ SReturn \/ SExecute

SSafe == SInit /\ [][SNext]_svars

(* Every call returns. *)
SSpec == SSafe /\ WF_svars(SPerform) /\ WF_svars(SReturn)
=============================================================================
