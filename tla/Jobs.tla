-------------------------------- MODULE Jobs --------------------------------
(***************************************************************************)
(* What the menus, the debugger window and the debugger's command line do  *)
(* with the simulator: saving and restoring the state (state_write.c,      *)
(* state_read.c), resetting (csim.c), starting, stopping and stepping      *)
(* (debugger_gui.c, debugger_cli.c).  Each is a job: a script of sim_*     *)
(* calls, made one after the other while the simulator runs.               *)
(*                                                                         *)
(* The menus run in the GUI thread; with HAS_DEBUGGER_CLI the command line *)
(* has a thread of its own.  The simulator thread is reduced to what       *)
(* SimThread shows of it: a command is handled atomically, in the order of *)
(* cmd_q, and instructions are executed only while running and not paused. *)
(***************************************************************************)
EXTENDS Naturals, Sequences

CONSTANTS Menu,        \* Menu[t]: the jobs thread t can start
          NWords,      \* the words that a state file holds are 1..NWords
          Vals,        \* the values of a word
          NoVal,       \* not a value
          Image        \* the state file that is restored

Threads == {"gui", "cli"}     \* the threads that call sim_*

Words == 1..NWords

JobNames == {"save", "restore", "reset", "obdurate_reset", "key",
             "run", "stop", "single", "go", "halt", "step"}

ASSUME JobsAssumption ==
  /\ NWords \in Nat \ {0}
  /\ Menu \in [Threads -> SUBSET JobNames]
  /\ NoVal \notin Vals \cup BOOLEAN
  /\ Image \in [Words -> Vals]

Steps == [op : {"set_run", "set_pause"}, arg : BOOLEAN]
           \cup [op : {"read"}, arg : Words]
           \cup [op : {"write"}, arg : Words \X Vals]
           \cup [op : {"get_run", "single_inst", "close_file"}, arg : {NoVal}]
           \cup [op : {"event"}, arg : {"save_starting", "save_completed", "restore_starting",
                                        "restore_completed", "reset", "clear_memory", "key"}]

VARIABLES cmd_q, reply_q,   \* messages as [by, req, val]; by tells whose stack they are on
          run, pause,       \* sim->run_flag, sim->io_pause_flag
          state,            \* the words of the processor
          job, todo,        \* each thread's job and the rest of its script
          waiting,          \* is the thread in the pop of reply_q?
          was_running,      \* reset()'s local variable run_flag
          buffer,           \* the XML written so far
          file,             \* the state file on disk
          has_debugger_cli, \* is this the build with the command line?
          exited            \* has fatal() ended the process?

queues == <<cmd_q, reply_q>>
callers == <<job, todo, waiting, was_running>>
process == <<has_debugger_cli, exited>>
jvars == <<queues, run, pause, state, callers, buffer, file, process>>

NoBuffer == [w \in Words |-> NoVal]

Do(op, arg) == [op |-> op, arg |-> arg]
Call(op) == Do(op, NoVal)

-----------------------------------------------------------------------------
(* The scripts.  A job that tests sim_running goes on when it is answered. *)
SaveScript_NoPause ==  \* mutant: the simulator is not paused
  <<Do("event", "save_starting")>>
    \o [w \in Words |-> Do("read", w)]
    \o <<Call("close_file"), Do("event", "save_completed")>>

SaveScript ==
  <<Do("set_pause", TRUE), Do("event", "save_starting")>>
    \o [w \in Words |-> Do("read", w)]
    \o <<Call("close_file"), Do("event", "save_completed"), Do("set_pause", FALSE)>>

RestoreScript_StaysPaused ==  \* mutant: the pause is not taken back
  <<Do("set_pause", TRUE), Do("event", "restore_starting")>>
    \o [w \in Words |-> Do("write", <<w, Image[w]>>)]
    \o <<Do("event", "restore_completed")>>

RestoreScript ==
  <<Do("set_pause", TRUE), Do("event", "restore_starting")>>
    \o [w \in Words |-> Do("write", <<w, Image[w]>>)]
    \o <<Do("event", "restore_completed"), Do("set_pause", FALSE)>>

Script(j) ==
  CASE j = "save"    -> SaveScript
    [] j = "restore" -> RestoreScript
    [] j = "key"     -> <<Do("event", "key")>>
    [] j = "run"     -> <<Do("set_run", TRUE)>>
    [] j = "stop"    -> <<Do("set_run", FALSE)>>
    [] j = "single"  -> <<Call("single_inst")>>
    [] j \in {"reset", "obdurate_reset", "go", "halt", "step"} -> <<Call("get_run")>>

(* reset: stop a running simulator, and start it again afterwards *)
ResetScript_Running(j, running) ==  \* mutant: the reset of a running simulator
  <<Do("event", "reset")>>
    \o (IF j = "obdurate_reset" THEN <<Do("event", "clear_memory")>> ELSE <<>>)

ResetScript(j, running) ==
  (IF running THEN <<Do("set_run", FALSE)>> ELSE <<>>)
    \o <<Do("event", "reset")>>
    \o (IF j = "obdurate_reset" THEN <<Do("event", "clear_memory")>> ELSE <<>>)
    \o (IF running THEN <<Do("set_run", TRUE)>> ELSE <<>>)

(* What a job does once sim_running has answered. *)
Continue(j, running) ==
  IF j \in {"reset", "obdurate_reset"} THEN ResetScript(j, running)
  ELSE IF j = "go" /\ ~running THEN <<Do("set_run", TRUE)>>
  ELSE IF j = "halt" /\ running THEN <<Do("set_run", FALSE)>>
  ELSE IF j = "step" /\ ~running THEN <<Call("single_inst")>>
  ELSE <<>>

-----------------------------------------------------------------------------
JInit ==
  /\ cmd_q = <<>> /\ reply_q = <<>>
  /\ run = FALSE /\ pause = FALSE
  /\ state \in [Words -> Vals]
  /\ job = [t \in Threads |-> "none"]
  /\ todo = [t \in Threads |-> <<>>]
  /\ waiting = [t \in Threads |-> FALSE]
  /\ was_running = [t \in Threads |-> FALSE]
  /\ buffer = NoBuffer /\ file = NoBuffer
  /\ has_debugger_cli \in BOOLEAN
  /\ exited = FALSE

(* The user chooses a menu item, types a command or presses a key. *)
Begin(t, j) ==
  /\ ~exited /\ job[t] = "none"
  /\ j \in Menu[t] /\ (t = "cli" => has_debugger_cli)
  /\ job' = [job EXCEPT ![t] = j]
  /\ todo' = [todo EXCEPT ![t] = Script(j)]
  /\ UNCHANGED <<queues, run, pause, state, waiting, was_running, buffer, file, process>>

(* The next call of the job: send_cmd_to_sim_thread up to its pop. *)
Request(t) ==
  /\ ~exited /\ ~waiting[t]
  /\ todo[t] # <<>> /\ Head(todo[t]).op # "close_file"
  /\ cmd_q' = Append(cmd_q, [by |-> t, req |-> Head(todo[t]), val |-> NoVal])
  /\ waiting' = [waiting EXCEPT ![t] = TRUE]
  /\ UNCHANGED <<reply_q, run, pause, state, job, todo, was_running, buffer, file, process>>

(* Its pop of reply_q, when the message is its own *)
Reply(t) ==
  /\ ~exited /\ waiting[t]
  /\ reply_q # <<>> /\ Head(reply_q).by = t
  /\ LET r == Head(reply_q) IN
       /\ todo' = [todo EXCEPT ![t] =
                     IF r.req.op = "get_run" THEN Continue(job[t], r.val) ELSE Tail(todo[t])]
       /\ was_running' = IF r.req.op = "get_run" THEN [was_running EXCEPT ![t] = r.val]
                                                 ELSE was_running
       /\ buffer' = IF r.req.op = "read" THEN [buffer EXCEPT ![r.req.arg] = r.val] ELSE buffer
  /\ reply_q' = Tail(reply_q)
  /\ waiting' = [waiting EXCEPT ![t] = FALSE]
  /\ UNCHANGED <<cmd_q, run, pause, state, job, file, process>>

(* ... and when it is not: fatal (2, "async reply != msg\n") *)
WrongReply(t) ==
  /\ ~exited /\ waiting[t]
  /\ reply_q # <<>> /\ Head(reply_q).by # t
  /\ exited' = TRUE
  /\ UNCHANGED <<queues, run, pause, state, callers, buffer, file, has_debugger_cli>>

(* xmlTextWriterEndDocument and xmlFreeTextWriter: the file is complete. *)
CloseFile(t) ==
  /\ ~exited /\ ~waiting[t]
  /\ todo[t] # <<>> /\ Head(todo[t]).op = "close_file"
  /\ file' = buffer
  /\ buffer' = NoBuffer
  /\ todo' = [todo EXCEPT ![t] = Tail(todo[t])]
  /\ UNCHANGED <<queues, run, pause, state, job, waiting, was_running, process>>

(* The handler returns. *)
End(t) ==
  /\ ~exited /\ ~waiting[t]
  /\ job[t] # "none" /\ todo[t] = <<>>
  /\ job' = [job EXCEPT ![t] = "none"]
  /\ was_running' = [was_running EXCEPT ![t] = FALSE]
  /\ UNCHANGED <<queues, run, pause, state, todo, waiting, buffer, file, process>>

-----------------------------------------------------------------------------
(* The simulator thread.  No chip has a handler for the events that start  *)
(* or end a save or start a restore; the others change the processor.      *)
Deaf == {"save_starting", "save_completed", "restore_starting"}

HandleCommand_NoReply ==  \* mutant: starting what runs is not answered
  /\ ~exited /\ cmd_q # <<>>
  /\ LET m == Head(cmd_q) IN
       /\ run' = IF m.req.op = "set_run" THEN m.req.arg ELSE run
       /\ pause' = IF m.req.op = "set_pause" THEN m.req.arg ELSE pause
       /\ IF m.req.op = "event" /\ m.req.arg \notin Deaf THEN state' \in [Words -> Vals]
          ELSE IF m.req.op = "write" THEN state' = [state EXCEPT ![m.req.arg[1]] = m.req.arg[2]]
          ELSE UNCHANGED state
       /\ reply_q' = IF run /\ m.req = Do("set_run", TRUE) THEN reply_q ELSE Append(reply_q,
            [m EXCEPT !.val = IF m.req.op = "get_run" THEN run
                              ELSE IF m.req.op = "read" THEN state[m.req.arg] ELSE NoVal])
  /\ cmd_q' = Tail(cmd_q)
  /\ UNCHANGED <<callers, buffer, file, process>>

HandleCommand ==
  /\ ~exited /\ cmd_q # <<>>
  /\ LET m == Head(cmd_q) IN
       /\ run' = IF m.req.op = "set_run" THEN m.req.arg ELSE run
       /\ pause' = IF m.req.op = "set_pause" THEN m.req.arg ELSE pause
       /\ IF m.req.op = "event" /\ m.req.arg \notin Deaf THEN state' \in [Words -> Vals]
          ELSE IF m.req.op = "write" THEN state' = [state EXCEPT ![m.req.arg[1]] = m.req.arg[2]]
          ELSE UNCHANGED state
       /\ reply_q' = Append(reply_q,
            [m EXCEPT !.val = IF m.req.op = "get_run" THEN run
                              ELSE IF m.req.op = "read" THEN state[m.req.arg] ELSE NoVal])
  /\ cmd_q' = Tail(cmd_q)
  /\ UNCHANGED <<callers, buffer, file, process>>

(* An instruction, of a burst or a single step; both wait for the run flag *)
Execute ==
  /\ ~exited
  /\ run /\ ~pause
  /\ state' \in [Words -> Vals]
  /\ UNCHANGED <<queues, run, pause, callers, buffer, file, process>>

-----------------------------------------------------------------------------
ThreadStep(t) == Request(t) \/ Reply(t) \/ CloseFile(t) \/ End(t)

JNext ==
  \/ \E t \in Threads : \/ ThreadStep(t) \/ WrongReply(t)
                        \/ \E j \in JobNames : Begin(t, j)
  \/ HandleCommand \/ Execute

JSpec ==
  /\ JInit /\ [][JNext]_jvars
  /\ WF_jvars(HandleCommand)
  /\ \A t \in Threads : WF_jvars(ThreadStep(t))

-----------------------------------------------------------------------------
(* A state file is a snapshot: all its words are those of the processor at *)
(* one moment, the one at which the file is closed, though they were read  *)
(* by separate calls while the simulator was in the middle of a run.  And  *)
(* when a restored file has been parsed the processor is exactly what the  *)
(* file says: no word has moved on between two of the calls.               *)
StateFilesAreSnapshots ==
  [][/\ file' # file => file' = state
     /\ \A t \in Threads :
          /\ job[t] = "restore" /\ waiting'[t] /\ ~waiting[t]
          /\ Head(todo[t]) = Do("event", "restore_completed")
          => state = Image]_jvars

(* The pause is not left behind: outside of saving and restoring the       *)
(* simulator is not paused, so a start is not silently without effect.     *)
PauseIsReleased == pause => \E t \in Threads : job[t] \in {"save", "restore"}

(* Where only the menus call: a reset leaves a running simulator running   *)
(* and a stopped one stopped, and no instruction is executed between the   *)
(* reset and the clearing of the memory, which a reset processor could     *)
(* write to.                                                               *)
ResetIsUndisturbed ==
  [][\A t \in Threads :
       job[t] \in {"reset", "obdurate_reset"} /\ ~has_debugger_cli =>
         /\ job'[t] = "none" => run = was_running[t]
         /\ Execute /\ todo[t] # <<>> =>
              Head(todo[t]) # Do("event", "clear_memory")]_jvars

(* The reply a thread pops is the reply to its own call ("async reply !=   *)
(* msg" in send_cmd_to_sim_thread).                                        *)
RepliesMatch == ~exited

(* Every job ends, unless an assertion has ended the process. *)
JobsEnd == \A t \in Threads : job[t] # "none" ~> (job[t] = "none" \/ exited)
=============================================================================
