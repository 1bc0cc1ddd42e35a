----------------------------- MODULE SimThread ------------------------------
(***************************************************************************)
(* The simulator thread of proc.c and the calls the GUI thread makes to    *)
(* it.  A sim_* function fills a sim_msg_t on the GUI thread's stack,      *)
(* pushes it on cmd_q and blocks until the same message comes back on      *)
(* reply_q; sim_thread_func handles commands and, when no command comes    *)
(* within a jiffy, executes instructions for the time that has passed.     *)
(* sim_read_rom alone sends no message: it calls the processor in the GUI  *)
(* thread, at whatever point the simulator thread is ("potentially lost    *)
(* atomicity", proc.c:1549-1554).                                          *)
(*                                                                         *)
(* state holds the processor's registers, RAM and ROM, word by word;       *)
(* instructions and chip events change it in any way.  now is the real time   *)
(* in instruction times (words_per_usec is 1); credit is an auxiliary      *)
(* variable: the time spent running minus the instructions executed.       *)
(***************************************************************************)
EXTENDS Integers, Sequences

CONSTANTS Words, Vals, NoVal,    \* see SimService
          Ops,              \* the calls the GUI thread makes
          MaxBurst,         \* MAX_INST_BURST
          MaxTime           \* bound of the model: the real time stops there

BoolOps == {"set_run", "set_pause"}
PlainOps == {"get_run", "get_pause", "event", "single_cycle", "single_inst", "quit"}

States == [Words -> Vals]

ASSUME SimThreadAssumption ==
  /\ Ops \subseteq BoolOps \cup PlainOps \cup {"read", "write", "read_rom"}
  /\ MaxBurst \in Nat
  /\ MaxTime \in Nat
  /\ NoVal \notin Vals \cup BOOLEAN

(* What a sim_msg_t, or a read of ROM, asks for, and the two addresses it  *)
(* may have: the stack frames of successive calls may or may not be the    *)
(* same.                                                                   *)
Requests == { r \in [op : BoolOps, arg : BOOLEAN]
                      \cup [op : {"read", "read_rom"}, arg : Words]
                      \cup [op : {"write"}, arg : Words \X Vals]
                      \cup [op : PlainOps, arg : {NoVal}] : r.op \in Ops }

Addresses == {0, 1}

Messages == [addr : Addresses, req : Requests, val : Vals \cup BOOLEAN \cup {NoVal}]

VARIABLES cmd_q, reply_q,                \* thread_vars->cmd_q, reply_q
          quit_flag, io_pause_flag, run_flag, single_cycle_flag, single_inst_flag,
          state,                         \* the processor and its memories
          now,                           \* get_elapsed_time_us()
          last_run_time,                 \* thread_vars->last_run_time_us
          spc,                           \* where sim_thread_func is
          inst_count, now_us,            \* the locals of sim_run
          gpc, msg,                      \* the GUI thread and its message
          answer,                        \* what its last call returned
          credit

flags == <<quit_flag, io_pause_flag, run_flag, single_cycle_flag, single_inst_flag>>
locals == <<inst_count, now_us>>
guivars == <<gpc, msg, answer>>
vars == <<cmd_q, reply_q, flags, state, now, last_run_time, spc, locals, guivars, credit>>

NoMsg == [addr |-> NoVal, req |-> [op |-> "none", arg |-> NoVal], val |-> NoVal]

(* sim_init: nothing runs until sim_start *)
Init ==
  /\ cmd_q = <<>> /\ reply_q = <<>>
  /\ quit_flag = FALSE /\ io_pause_flag = FALSE /\ run_flag = FALSE
  /\ single_cycle_flag = FALSE /\ single_inst_flag = FALSE
  /\ state \in States
  /\ now = 0 /\ last_run_time = 0
  /\ spc = "loop" /\ inst_count = 0 /\ now_us = 0
  /\ gpc = "loop" /\ msg = NoMsg /\ answer = NoVal
  /\ credit = 0

-----------------------------------------------------------------------------
(* The GUI thread: a sim_* function, up to the push on cmd_q. *)
SendCmd(r, a) ==
  /\ gpc = "loop"
  /\ r.op # "read_rom"
  /\ msg' = [addr |-> a, req |-> r, val |-> NoVal]
  /\ cmd_q' = Append(cmd_q, msg')
  /\ gpc' = "waiting"
  /\ answer' = NoVal
  /\ UNCHANGED <<reply_q, flags, state, now, last_run_time, spc, locals, credit>>

(* Mutant: the caller gives up waiting before the reply is there. *)
PopReply_GivesUp ==
  /\ gpc = "waiting"
  /\ reply_q' = IF reply_q = <<>> THEN <<>> ELSE Tail(reply_q)
  /\ answer' = NoVal
  /\ gpc' = "loop"
  /\ msg' = NoMsg
  /\ UNCHANGED <<cmd_q, flags, state, now, last_run_time, spc, locals, credit>>

(* g_async_queue_pop (reply_q) returns and so does the sim_* function,     *)
(* unless the message is not its own; sim_quit frees sim on the way out.   *)
PopReply ==
  /\ gpc = "waiting"
  /\ reply_q # <<>>
  /\ reply_q' = Tail(reply_q)
  /\ answer' = Head(reply_q).val
  /\ gpc' = IF Head(reply_q).addr # msg.addr THEN "fatal"
            ELSE IF msg.req.op = "quit" THEN "freed" ELSE "loop"
  /\ msg' = NoMsg
  /\ UNCHANGED <<cmd_q, flags, state, now, last_run_time, spc, locals, credit>>

-----------------------------------------------------------------------------
(* sim_read_rom, for the debugger, the disassembler and state_write: proc->read_rom  *)
(* in the GUI thread.  Nothing keeps it from falling between two           *)
(* instructions of a burst, or between a message and its handling.         *)
CallReadRom(r) ==
  /\ gpc = "loop"
  /\ r.op = "read_rom"
  /\ msg' = [addr |-> 0, req |-> r, val |-> NoVal]
  /\ gpc' = "reading"
  /\ answer' = NoVal
  /\ UNCHANGED <<cmd_q, reply_q, flags, state, now, last_run_time, spc, locals, credit>>

ReadRom ==
  /\ gpc = "reading"
  /\ answer' = state[msg.req.arg]
  /\ gpc' = "read"
  /\ UNCHANGED <<cmd_q, reply_q, flags, state, now, last_run_time, spc, locals, msg, credit>>

ReturnRom ==
  /\ gpc = "read"
  /\ gpc' = "loop"
  /\ msg' = NoMsg
  /\ UNCHANGED <<cmd_q, reply_q, flags, state, now, last_run_time, spc, locals, answer, credit>>

-----------------------------------------------------------------------------
(* handle_sim_cmd, one operator per group of cases of its switch.  m is    *)
(* the message popped from cmd_q; r is the reply to push.                  *)
SetRunFlag_KeepsTime(m, r) ==  \* mutant: last_run_time_us is not reset
  /\ m.req.op = "set_run"
  /\ run_flag' = m.req.arg
  /\ r = m
  /\ UNCHANGED <<quit_flag, io_pause_flag, single_cycle_flag, single_inst_flag,
                 state, last_run_time>>

SetRunFlag(m, r) ==
  /\ m.req.op = "set_run"
  /\ run_flag' = m.req.arg
  /\ last_run_time' = now
  /\ r = m
  /\ UNCHANGED <<quit_flag, io_pause_flag, single_cycle_flag, single_inst_flag, state>>

SetIoPauseFlag_StopsRun(m, r) ==  \* mutant: pausing clears the run flag
  /\ m.req.op = "set_pause"
  /\ io_pause_flag' = m.req.arg
  /\ run_flag' = (run_flag /\ ~m.req.arg)
  /\ last_run_time' = now
  /\ r = m
  /\ UNCHANGED <<quit_flag, single_cycle_flag, single_inst_flag, state>>

SetIoPauseFlag(m, r) ==
  /\ m.req.op = "set_pause"
  /\ io_pause_flag' = m.req.arg
  /\ last_run_time' = now
  /\ r = m
  /\ UNCHANGED <<quit_flag, run_flag, single_cycle_flag, single_inst_flag, state>>

SingleStep(m, r) ==
  /\ m.req.op \in {"single_cycle", "single_inst"}
  /\ single_cycle_flag' = (single_cycle_flag \/ m.req.op = "single_cycle")
  /\ single_inst_flag' = (single_inst_flag \/ m.req.op = "single_inst")
  /\ r = m
  /\ UNCHANGED <<quit_flag, io_pause_flag, run_flag, state, last_run_time>>

Quit(m, r) ==
  /\ m.req.op = "quit"
  /\ quit_flag' = TRUE
  /\ r = m
  /\ UNCHANGED <<io_pause_flag, run_flag, single_cycle_flag, single_inst_flag,
                 state, last_run_time>>

(* CMD_GET_RUN_FLAG, CMD_GET_IO_PAUSE_FLAG, CMD_READ_REGISTER and          *)
(* CMD_READ_RAM, which look at the processor without changing it           *)
Query(m, r) ==
  /\ \/ m.req.op = "get_run" /\ r = [m EXCEPT !.val = run_flag]
     \/ m.req.op = "get_pause" /\ r = [m EXCEPT !.val = io_pause_flag]
     \/ m.req.op = "read" /\ r = [m EXCEPT !.val = state[m.req.arg]]
  /\ UNCHANGED <<flags, state, last_run_time>>

(* CMD_WRITE_REGISTER, CMD_WRITE_RAM, CMD_WRITE_ROM, CMD_SET_BANK_GROUP ... *)
Write(m, r) ==
  /\ m.req.op = "write"
  /\ state' = [state EXCEPT ![m.req.arg[1]] = m.req.arg[2]]
  /\ r = m
  /\ UNCHANGED <<flags, last_run_time>>

(* CMD_EVENT: what chip_event does depends on the chips *)
Event(m, r) ==
  /\ m.req.op = "event"
  /\ state' \in States
  /\ r = m
  /\ UNCHANGED <<flags, last_run_time>>

Handle(m, r) ==
  \/ SetRunFlag(m, r) \/ SetIoPauseFlag(m, r) \/ SingleStep(m, r) \/ Quit(m, r)
  \/ Query(m, r) \/ Write(m, r) \/ Event(m, r)

Replies(m) == { [m EXCEPT !.val = v] : v \in Vals \cup BOOLEAN \cup {NoVal} }

(* Mutant: commands are also looked for between the instructions of a burst. *)
HandleSimCmd_InBurst ==
  /\ spc \in {"loop", "burst"} /\ ~quit_flag
  /\ cmd_q # <<>>
  /\ cmd_q' = Tail(cmd_q)
  /\ \E r \in Replies(Head(cmd_q)) :
        /\ Handle(Head(cmd_q), r)
        /\ reply_q' = Append(reply_q, r)
  /\ UNCHANGED <<now, spc, locals, guivars, credit>>

(* The pop of a command and handle_sim_cmd.  No one else sees sim change   *)
(* in between: the only other thread is blocked on reply_q.  (No one sends *)
(* CMD_READ_ROM, for which handle_sim_cmd still has a case.)               *)
HandleSimCmd ==
  /\ spc = "loop" /\ ~quit_flag
  /\ cmd_q # <<>>
  /\ cmd_q' = Tail(cmd_q)
  /\ \E r \in Replies(Head(cmd_q)) :
        /\ Handle(Head(cmd_q), r)
        /\ reply_q' = Append(reply_q, r)
  /\ UNCHANGED <<now, spc, locals, guivars, credit>>

-----------------------------------------------------------------------------
(* The pop waits for at most a jiffy only in this case. *)
PopTimesOut == ~io_pause_flag /\ run_flag

(* g_async_queue_timeout_pop returns NULL. *)
Timeout ==
  /\ spc = "loop" /\ ~quit_flag
  /\ PopTimesOut
  /\ cmd_q = <<>>
  /\ spc' = "body"
  /\ UNCHANGED <<cmd_q, reply_q, flags, state, now, last_run_time, locals, guivars, credit>>

SingleCycle ==
  /\ spc = "body" /\ ~io_pause_flag
  /\ single_cycle_flag
  /\ state' \in States
  /\ single_cycle_flag' = FALSE
  /\ spc' = "loop"
  /\ UNCHANGED <<cmd_q, reply_q, quit_flag, io_pause_flag, run_flag, single_inst_flag,
                 now, last_run_time, locals, guivars, credit>>

SingleInst ==
  /\ spc = "body" /\ ~io_pause_flag
  /\ ~single_cycle_flag /\ single_inst_flag
  /\ state' \in States
  /\ single_inst_flag' = FALSE
  /\ spc' = "loop"
  /\ UNCHANGED <<cmd_q, reply_q, quit_flag, io_pause_flag, run_flag, single_cycle_flag,
                 now, last_run_time, locals, guivars, credit>>

(* sim_run up to its loop *)
StartBurst ==
  /\ spc = "body" /\ ~io_pause_flag
  /\ ~single_cycle_flag /\ ~single_inst_flag /\ run_flag
  /\ now_us' = now
  /\ inst_count' = IF now - last_run_time > MaxBurst THEN MaxBurst
                                                     ELSE now - last_run_time
  /\ spc' = "burst"
  /\ UNCHANGED <<cmd_q, reply_q, flags, state, now, last_run_time, guivars, credit>>

(* One execute_instruction of the loop; it returns FALSE, and the loop is  *)
(* left, when the processor is asleep.                                     *)
ExecuteInstruction ==
  /\ spc = "burst"
  /\ inst_count > 0
  /\ state' \in States
  /\ inst_count' \in {inst_count - 1, 0}
  /\ credit' = credit - 1
  /\ UNCHANGED <<cmd_q, reply_q, flags, now, last_run_time, spc, now_us, guivars>>

EndBurst ==
  /\ spc = "burst"
  /\ inst_count = 0
  /\ last_run_time' = now_us
  /\ spc' = "loop"
  /\ UNCHANGED <<cmd_q, reply_q, flags, state, now, locals, guivars, credit>>

(* while (! sim->quit_flag) ends the thread *)
Exit ==
  /\ spc = "loop" /\ quit_flag /\ gpc # "freed"
  /\ spc' = "exited"
  /\ UNCHANGED <<cmd_q, reply_q, flags, state, now, last_run_time, locals, guivars, credit>>

(* The same test when sim_quit has freed sim already: it reads freed       *)
(* memory, and what the thread does next is undefined.                     *)
ExitAfterFree ==
  /\ spc = "loop" /\ gpc = "freed"
  /\ spc' \in {"exited", "undefined"}
  /\ UNCHANGED <<cmd_q, reply_q, flags, state, now, last_run_time, locals, guivars, credit>>

(* Real time passes; it counts as running time if the flags say so. *)
Tick ==
  /\ now < MaxTime
  /\ now' = now + 1
  /\ credit' = IF run_flag /\ ~io_pause_flag THEN credit + 1 ELSE credit
  /\ UNCHANGED <<cmd_q, reply_q, flags, state, last_run_time, spc, locals, guivars>>

-----------------------------------------------------------------------------
GuiCall == \E r \in Requests : CallReadRom(r) \/ \E a \in Addresses : SendCmd(r, a)

GuiReturn == PopReply \/ ReadRom \/ ReturnRom

SimStep == HandleSimCmd \/ Timeout \/ SingleCycle \/ SingleInst
             \/ StartBurst \/ ExecuteInstruction \/ EndBurst
             \/ Exit \/ ExitAfterFree

Next == GuiCall \/ GuiReturn \/ SimStep \/ Tick

Spec == Init /\ [][Next]_vars

(* Both threads are scheduled.  The GUI thread need not make a call, but   *)
(* it goes on with the one it made.                                        *)
FairSpec == Spec /\ WF_vars(GuiReturn) /\ WF_vars(SimStep)

-----------------------------------------------------------------------------
TypeOK ==
  /\ cmd_q \in Seq(Messages) /\ reply_q \in Seq(Messages)
  /\ quit_flag \in BOOLEAN /\ io_pause_flag \in BOOLEAN /\ run_flag \in BOOLEAN
  /\ single_cycle_flag \in BOOLEAN /\ single_inst_flag \in BOOLEAN
  /\ state \in States
  /\ now \in Nat /\ last_run_time \in Nat
  /\ spc \in {"loop", "body", "burst", "exited", "undefined"}
  /\ inst_count \in Nat /\ now_us \in Nat
  /\ gpc \in {"loop", "waiting", "reading", "read", "fatal", "freed"}
  /\ msg \in Messages \cup {NoMsg} /\ answer \in Vals \cup BOOLEAN \cup {NoVal}
  /\ credit \in Int

(* A message is on one of the queues exactly while its caller waits for    *)
(* it, and it is the caller's: so the pop of send_cmd_to_sim_thread never  *)
(* gets another call's message ("async reply != msg"), and no message is   *)
(* used after the stack frame it lives in is gone.                         *)
OneOutstanding ==
  /\ gpc # "fatal"
  /\ Len(cmd_q) + Len(reply_q) = IF gpc = "waiting" THEN 1 ELSE 0
  /\ cmd_q # <<>> => Head(cmd_q) = msg
  /\ reply_q # <<>> => Head(reply_q).addr = msg.addr /\ Head(reply_q).req = msg.req

(* The simulated processor never runs ahead of the real time it was        *)
(* allowed to run: time during which it was stopped or paused is not made  *)
(* up for by a burst when it goes on.                                      *)
NoCatchUp == credit >= 0

(* Instructions are executed only while the flags allow it: a burst only   *)
(* while running and not paused, a step only while not paused.  So when    *)
(* sim_stop or a pause has returned, no burst is under way behind the      *)
(* caller's back, and it may look at the processor, call after call,       *)
(* without it moving; and once sim_quit has its reply and frees the        *)
(* processor, nothing is executed on it, not even the rest of a burst.     *)
ExecutesOnlyWhenAllowed ==
  [][/\ ExecuteInstruction => run_flag /\ ~io_pause_flag
     /\ SingleCycle \/ SingleInst => ~io_pause_flag
     /\ gpc = "freed" => ~(SingleCycle \/ SingleInst \/ ExecuteInstruction)]_vars

(* A single step that was asked for is executed.                           *)
SingleInstIsExecuted == single_inst_flag ~> ~single_inst_flag

-----------------------------------------------------------------------------
(* The thread and its queues implement the service: a call takes effect    *)
(* when handle_sim_cmd runs, a read of ROM when the GUI thread looks at    *)
(* the word.  So what sim_read_rom gives up, passing the queue by, is not  *)
(* the atomicity of a word but that of a call between two instructions.    *)
PendingCall ==
  IF gpc = "reading" THEN msg.req
  ELSE IF cmd_q # <<>> THEN Head(cmd_q).req
  ELSE [op |-> IF reply_q # <<>> \/ gpc = "read" THEN "done" ELSE "none", arg |-> NoVal]

Answer == IF reply_q # <<>> THEN Head(reply_q).val ELSE answer

StepsAsked == (IF single_cycle_flag THEN {"single_cycle"} ELSE {})
                \cup (IF single_inst_flag THEN {"single_inst"} ELSE {})

S == INSTANCE SimService
  WITH run <- run_flag, pause <- io_pause_flag, step <- StepsAsked,
       pending <- PendingCall, answer <- Answer

ImplementsService == S!SSpec
=============================================================================
