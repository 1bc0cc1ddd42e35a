-------------------------- MODULE SimThreadProofs ---------------------------
(***************************************************************************)
(* Proofs about SimThread for every set of words, values and calls, every  *)
(* burst length and every bound on the time; and about StateFile, for all  *)
(* chips, registers, memory and modules: a calculator that has read a      *)
(* whole state file has what was saved (FileRestoredCorrect, at the end).  *)
(***************************************************************************)
EXTENDS SimThread, StateFile, IntegerLemmas, SequenceTheorems, FiniteSetTheorems, TLAPS

(* Type correctness of the replies: handle_sim_cmd changes only the val of *)
(* a message.                                                              *)
LEMMA ReplyType ==
  ASSUME NEW m \in Messages, NEW r \in Replies(m)
  PROVE  r \in Messages /\ r.addr = m.addr /\ r.req = m.req
BY DEF Replies, Messages

(* The times sim_run subtracts are never in the future; inst_count, the    *)
(* length of a burst, would not be a natural number otherwise.             *)
ClockInv == last_run_time <= now /\ now_us <= now

LEMMA ClockStep == TypeOK /\ ClockInv /\ [Next]_vars => ClockInv'
<1> SUFFICES ASSUME TypeOK, ClockInv, [Next]_vars PROVE ClockInv'
  OBVIOUS
<1> USE DEF TypeOK, ClockInv, flags, locals, guivars
<1>1. CASE HandleSimCmd
  <2>1. last_run_time' \in {last_run_time, now} /\ UNCHANGED <<now, now_us>>
    BY <1>1 DEF HandleSimCmd, Handle, SetRunFlag, SetIoPauseFlag, SingleStep, Quit,
                Query, Write, Event
  <2> QED BY <2>1
<1>2. CASE GuiCall \/ GuiReturn \/ Timeout \/ SingleCycle \/ SingleInst
  BY <1>2 DEF GuiCall, SendCmd, CallReadRom, GuiReturn, PopReply, ReadRom, ReturnRom,
              Timeout, SingleCycle, SingleInst
<1>3. CASE StartBurst \/ ExecuteInstruction \/ EndBurst \/ Exit \/ ExitAfterFree
  BY <1>3 DEF StartBurst, ExecuteInstruction, EndBurst, Exit, ExitAfterFree
<1>4. CASE Tick
  BY <1>4 DEF Tick
<1>5. CASE UNCHANGED vars
  BY <1>5 DEF vars
<1> QED
  BY <1>1, <1>2, <1>3, <1>4, <1>5 DEF Next, SimStep

(* While the GUI thread is in sim_read_rom, its call is a read of a word.  *)
RomInv == gpc = "reading" => msg \in Messages /\ msg.req.op = "read_rom"

LEMMA RomStep == RomInv /\ [Next]_vars => RomInv'
<1> SUFFICES ASSUME RomInv, [Next]_vars PROVE RomInv'
  OBVIOUS
<1> USE DEF RomInv, guivars
<1>1. ASSUME NEW r \in Requests, CallReadRom(r) PROVE RomInv'
  BY <1>1 DEF CallReadRom, Messages, Addresses
<1>2. ASSUME NEW r \in Requests, NEW a \in Addresses, SendCmd(r, a) PROVE RomInv'
  BY <1>2 DEF SendCmd
<1>3. CASE GuiReturn
  BY <1>3 DEF GuiReturn, PopReply, ReadRom, ReturnRom
<1>4. CASE SimStep
  BY <1>4 DEF SimStep, HandleSimCmd, Timeout, SingleCycle, SingleInst, StartBurst,
              ExecuteInstruction, EndBurst, Exit, ExitAfterFree
<1>5. CASE Tick \/ UNCHANGED vars
  BY <1>5 DEF Tick, vars
<1> QED
  BY <1>1, <1>2, <1>3, <1>4, <1>5 DEF Next, GuiCall

(* Every step keeps the types of the variables: the handlers, the bursts   *)
(* with their countdown, and the two queues.                               *)
LEMMA TypeStep == TypeOK /\ ClockInv /\ RomInv /\ [Next]_vars => TypeOK'
<1> SUFFICES ASSUME TypeOK, ClockInv, RomInv, [Next]_vars PROVE TypeOK'
  OBVIOUS
<1>1. ASSUME NEW r \in Requests, NEW a \in Addresses, SendCmd(r, a) PROVE TypeOK'
  BY <1>1 DEF TypeOK, flags, locals, guivars, SendCmd, Messages
<1>2. CASE PopReply
  <2>1. Head(reply_q) \in Messages /\ reply_q' \in Seq(Messages)
    BY <1>2 DEF PopReply, TypeOK
  <2>2. Head(reply_q).val \in Vals \cup BOOLEAN \cup {NoVal}
    BY <2>1 DEF Messages
  <2> QED BY <1>2, <2>1, <2>2 DEF TypeOK, flags, locals, PopReply
<1>3. CASE HandleSimCmd
  <2>1. PICK r \in Replies(Head(cmd_q)) :
           Handle(Head(cmd_q), r) /\ reply_q' = Append(reply_q, r)
    BY <1>3 DEF TypeOK, flags, locals, guivars, HandleSimCmd
  <2>2. Head(cmd_q) \in Messages /\ cmd_q' \in Seq(Messages)
    BY <1>3 DEF TypeOK, flags, locals, guivars, HandleSimCmd
  <2>3. reply_q' \in Seq(Messages)
    BY <2>1, <2>2, ReplyType DEF TypeOK
  <2>4. /\ state' \in States /\ last_run_time' \in Nat
        /\ quit_flag' \in BOOLEAN /\ io_pause_flag' \in BOOLEAN /\ run_flag' \in BOOLEAN
        /\ single_cycle_flag' \in BOOLEAN /\ single_inst_flag' \in BOOLEAN
    <3> DEFINE m == Head(cmd_q)
    <3>1. CASE SetRunFlag(m, r)
      BY <3>1, <2>2 DEF TypeOK, flags, locals, guivars, SetRunFlag, Messages, Requests, BoolOps, PlainOps
    <3>2. CASE SetIoPauseFlag(m, r)
      BY <3>2, <2>2 DEF TypeOK, flags, locals, guivars, SetIoPauseFlag, Messages, Requests, BoolOps, PlainOps
    <3>3. CASE SingleStep(m, r)
      BY <3>3 DEF TypeOK, flags, locals, guivars, SingleStep
    <3>4. CASE Quit(m, r)
      BY <3>4 DEF TypeOK, flags, locals, guivars, Quit
    <3>5. CASE Query(m, r)
      BY <3>5 DEF TypeOK, flags, locals, guivars, Query
    <3>6. CASE Write(m, r)
      <4>1. m.req.arg \in Words \X Vals
        BY <3>6, <2>2 DEF TypeOK, flags, locals, guivars, Write, Messages, Requests, BoolOps, PlainOps
      <4> QED BY <4>1, <3>6 DEF TypeOK, flags, locals, guivars, Write, States
    <3>7. CASE Event(m, r)
      BY <3>7 DEF TypeOK, flags, locals, guivars, Event
    <3>8. Handle(m, r)
      BY <2>1
    <3> HIDE DEF m
    <3> QED BY <3>8, <3>1, <3>2, <3>3, <3>4, <3>5, <3>6, <3>7, Zenon DEF Handle
  <2> QED BY <1>3, <2>2, <2>3, <2>4 DEF TypeOK, flags, locals, guivars, HandleSimCmd
<1>4. CASE Timeout
  BY <1>4 DEF TypeOK, flags, locals, guivars, Timeout
<1>5. CASE SingleCycle
  BY <1>5 DEF TypeOK, flags, locals, guivars, SingleCycle
<1>6. CASE SingleInst
  BY <1>6 DEF TypeOK, flags, locals, guivars, SingleInst
<1>7. CASE StartBurst
  BY <1>7, SimThreadAssumption DEF TypeOK, flags, locals, guivars, StartBurst, ClockInv
<1>8. CASE ExecuteInstruction
  BY <1>8 DEF TypeOK, flags, locals, guivars, ExecuteInstruction
<1>9. CASE EndBurst
  BY <1>9 DEF TypeOK, flags, locals, guivars, EndBurst
<1>10. CASE Exit \/ ExitAfterFree
  BY <1>10 DEF TypeOK, flags, locals, guivars, Exit, ExitAfterFree
<1>11. CASE Tick
  BY <1>11 DEF TypeOK, flags, locals, guivars, Tick
<1>12. CASE UNCHANGED vars
  BY <1>12 DEF TypeOK, flags, locals, guivars, vars
<1>13. CASE GuiCall
  <2>1. ASSUME NEW r \in Requests, CallReadRom(r) PROVE TypeOK'
    BY <2>1 DEF TypeOK, flags, locals, CallReadRom, Messages, Addresses
  <2> QED BY <1>13, <1>1, <2>1 DEF GuiCall
<1>15. CASE ReadRom
  <2>1. msg.req.arg \in Words
    BY <1>15 DEF ReadRom, RomInv, Messages, Requests, BoolOps, PlainOps
  <2>2. state[msg.req.arg] \in Vals
    BY <2>1 DEF TypeOK, States
  <2> QED BY <1>15, <2>2 DEF TypeOK, flags, locals, ReadRom
<1>16. CASE ReturnRom
  BY <1>16 DEF TypeOK, flags, locals, ReturnRom
<1>14. CASE SimStep
  BY <1>14, <1>3, <1>4, <1>5, <1>6, <1>7, <1>8, <1>9, <1>10 DEF SimStep
<1> QED
  BY <1>2, <1>11, <1>12, <1>13, <1>14, <1>15, <1>16, Zenon DEF Next, GuiReturn

LEMMA TypeInit == Init => TypeOK /\ ClockInv /\ RomInv
<1> SUFFICES ASSUME Init PROVE TypeOK /\ ClockInv /\ RomInv
  OBVIOUS
<1>1. <<>> \in Seq(Messages)
  OBVIOUS
<1>2. cmd_q = <<>> /\ reply_q = <<>> /\ state \in States
  BY DEF Init
<1>3. ClockInv
  BY DEF Init, ClockInv
<1>4. answer \in Vals \cup BOOLEAN \cup {NoVal} /\ msg \in Messages \cup {NoMsg}
  BY DEF Init
<1>5. /\ quit_flag \in BOOLEAN /\ io_pause_flag \in BOOLEAN /\ run_flag \in BOOLEAN
      /\ single_cycle_flag \in BOOLEAN /\ single_inst_flag \in BOOLEAN
  BY Zenon DEF Init
<1>6. /\ now \in Nat /\ last_run_time \in Nat /\ inst_count \in Nat /\ now_us \in Nat
      /\ credit \in Int /\ spc = "loop" /\ gpc = "loop"
  BY DEF Init
<1> QED
  BY <1>1, <1>2, <1>3, <1>4, <1>5, <1>6 DEF TypeOK, RomInv

(* The variables have their types in every reachable state. *)
THEOREM TypeCorrect == Spec => []TypeOK
<1>1. Init => TypeOK /\ ClockInv /\ RomInv
  BY TypeInit
<1>2. TypeOK /\ ClockInv /\ RomInv /\ [Next]_vars => TypeOK' /\ ClockInv' /\ RomInv'
  BY TypeStep, ClockStep, RomStep
<1> QED BY <1>1, <1>2, PTL DEF Spec
-----------------------------------------------------------------------------
(* Where the message of the call in progress is: nowhere between calls and *)
(* during a read of ROM, then on cmd_q, then, with its answer, on reply_q.                       *)
NoneOut == gpc \in {"loop", "reading", "read", "freed"} /\ cmd_q = <<>> /\ reply_q = <<>>

Asked ==
  /\ gpc = "waiting" /\ msg \in Messages /\ msg.val = NoVal
  /\ cmd_q = <<msg>> /\ reply_q = <<>>

Answered ==
  /\ gpc = "waiting" /\ cmd_q = <<>>
  /\ \E r \in Messages : reply_q = <<r>> /\ r.addr = msg.addr /\ r.req = msg.req

CallInv == NoneOut \/ Asked \/ Answered

(* The thread is past the pop only with the flags that made it time out.   *)
FlagInv ==
  /\ spc \in {"body", "burst"} => run_flag /\ ~io_pause_flag /\ ~quit_flag
  /\ gpc = "freed" => quit_flag
  /\ reply_q # <<>> /\ msg.req.op = "quit" => quit_flag

(* The running time not yet made use of covers the time since the last     *)
(* burst, and in a burst the instructions left and the time that has       *)
(* passed since it began.                                                  *)
CreditInv ==
  /\ credit >= 0
  /\ run_flag /\ ~io_pause_flag /\ spc # "burst" => credit >= now - last_run_time
  /\ spc = "burst" => credit >= inst_count + (now - now_us)

IInv == TypeOK /\ ClockInv /\ RomInv /\ CallInv /\ FlagInv /\ CreditInv

LEMMA CallStep == TypeOK /\ CallInv /\ [Next]_vars => CallInv'
<1> SUFFICES ASSUME TypeOK, CallInv, [Next]_vars PROVE CallInv'
  OBVIOUS
<1>1. ASSUME NEW r \in Requests, NEW a \in Addresses, SendCmd(r, a) PROVE Asked'
  <2>1. NoneOut
    BY <1>1 DEF SendCmd, CallInv, Asked, Answered
  <2>2. msg' \in Messages /\ msg'.val = NoVal
    BY <1>1 DEF SendCmd, Messages
  <2> QED BY <1>1, <2>1, <2>2 DEF SendCmd, NoneOut, Asked
<1>2. CASE PopReply
  <2>1. Answered
    BY <1>2 DEF PopReply, CallInv, NoneOut, Asked
  <2>2. PICK r \in Messages : reply_q = <<r>> /\ r.addr = msg.addr /\ r.req = msg.req
    BY <2>1 DEF Answered
  <2>3. Head(reply_q) = r /\ Tail(reply_q) = <<>>
    BY <2>2
  <2> QED BY <1>2, <2>1, <2>2, <2>3 DEF PopReply, Answered, CallInv, NoneOut
<1>3. CASE HandleSimCmd
  <2>1. Asked
    BY <1>3 DEF HandleSimCmd, CallInv, NoneOut, Answered
  <2>2. PICK r \in Replies(Head(cmd_q)) : reply_q' = Append(reply_q, r)
    BY <1>3 DEF HandleSimCmd
  <2>3. Head(cmd_q) = msg /\ Tail(cmd_q) = <<>>
    BY <2>1 DEF Asked
  <2>4. r \in Messages /\ r.addr = msg.addr /\ r.req = msg.req
    BY <2>1, <2>2, <2>3, ReplyType DEF Asked
  <2>5. reply_q' = <<r>>
    BY <2>1, <2>2, <2>4 DEF Asked
  <2>6. gpc' = gpc /\ msg' = msg /\ cmd_q' = <<>>
    BY <1>3, <2>3 DEF HandleSimCmd, guivars
  <2> QED BY <2>1, <2>4, <2>5, <2>6 DEF Asked, Answered, CallInv
<1>4. ASSUME UNCHANGED <<gpc, msg, cmd_q, reply_q>> PROVE CallInv'
  BY <1>4 DEF CallInv, NoneOut, Asked, Answered
<1>5. CASE Timeout \/ SingleCycle \/ SingleInst \/ StartBurst \/ ExecuteInstruction
  BY <1>5, <1>4 DEF Timeout, SingleCycle, SingleInst, StartBurst, ExecuteInstruction, guivars
<1>6. CASE EndBurst \/ Exit \/ ExitAfterFree \/ Tick
  BY <1>6, <1>4 DEF EndBurst, Exit, ExitAfterFree, Tick, guivars
<1>7. CASE UNCHANGED vars
  BY <1>7, <1>4 DEF vars, guivars
<1>10. CASE ReadRom \/ ReturnRom
  <2>1. NoneOut
    BY <1>10 DEF ReadRom, ReturnRom, CallInv, Asked, Answered
  <2> QED BY <1>10, <2>1 DEF ReadRom, ReturnRom, CallInv, NoneOut
<1>8. CASE GuiCall
  <2>1. ASSUME NEW r \in Requests, CallReadRom(r) PROVE NoneOut'
    BY <2>1 DEF CallReadRom, CallInv, NoneOut, Asked, Answered
  <2> QED BY <1>8, <1>1, <2>1 DEF GuiCall, CallInv
<1>9. CASE SimStep
  BY <1>9, <1>3, <1>5, <1>6, Zenon DEF SimStep
<1> QED
  BY <1>2, <1>6, <1>7, <1>8, <1>9, <1>10, Zenon DEF Next, GuiReturn

(* What handle_sim_cmd does to the flags and times, whichever the command. *)
LEMMA HandlerEffect ==
  ASSUME TypeOK, HandleSimCmd
  PROVE  /\ spc = "loop" /\ ~quit_flag /\ cmd_q # <<>>
         /\ UNCHANGED <<now, spc, inst_count, now_us, gpc, msg, answer, credit>>
         /\ \/ last_run_time' = now
            \/ UNCHANGED <<last_run_time, run_flag, io_pause_flag>>
         /\ Head(cmd_q).req.op = "quit" => quit_flag'
<1>1. PICK r \in Replies(Head(cmd_q)) : Handle(Head(cmd_q), r)
  BY DEF HandleSimCmd
<1> DEFINE m == Head(cmd_q)
<1>2. \/ last_run_time' = now
      \/ UNCHANGED <<last_run_time, run_flag, io_pause_flag>>
  BY <1>1 DEF Handle, SetRunFlag, SetIoPauseFlag, SingleStep, Quit, Query, Write, Event, flags
<1>3. m.req.op = "quit" => quit_flag'
  BY <1>1 DEF Handle, SetRunFlag, SetIoPauseFlag, SingleStep, Quit, Query, Write, Event
<1> QED
  BY <1>2, <1>3 DEF HandleSimCmd, locals, guivars

LEMMA FlagStep == TypeOK /\ CallInv /\ FlagInv /\ [Next]_vars => FlagInv'
<1> SUFFICES ASSUME TypeOK, CallInv, FlagInv, [Next]_vars PROVE FlagInv'
  OBVIOUS
<1> USE DEF FlagInv, flags, locals, guivars
<1>1. ASSUME NEW r \in Requests, NEW a \in Addresses, SendCmd(r, a) PROVE FlagInv'
  <2>1. reply_q' = <<>>
    BY <1>1 DEF SendCmd, CallInv, NoneOut, Asked, Answered
  <2> QED BY <1>1, <2>1 DEF SendCmd
<1>2. CASE PopReply
  <2>1. reply_q' = <<>>
    <3>1. Answered
      BY <1>2 DEF PopReply, CallInv, NoneOut, Asked
    <3>2. PICK r \in Messages : reply_q = <<r>>
      BY <3>1 DEF Answered
    <3> QED BY <1>2, <3>2 DEF PopReply
  <2>2. gpc' = "freed" => quit_flag
    BY <1>2 DEF PopReply
  <2> QED BY <1>2, <2>1, <2>2 DEF PopReply
<1>3. CASE HandleSimCmd
  <2>1. Head(cmd_q) = msg /\ gpc = "waiting"
    BY <1>3 DEF HandleSimCmd, CallInv, NoneOut, Asked, Answered
  <2> QED BY <1>3, <2>1, HandlerEffect
<1>4. CASE Timeout
  BY <1>4 DEF Timeout, PopTimesOut
<1>5. CASE SingleCycle \/ SingleInst \/ StartBurst
  BY <1>5 DEF SingleCycle, SingleInst, StartBurst
<1>6. CASE ExecuteInstruction \/ EndBurst
  BY <1>6 DEF ExecuteInstruction, EndBurst
<1>7. CASE Exit \/ ExitAfterFree \/ Tick
  BY <1>7 DEF Exit, ExitAfterFree, Tick
<1>8. CASE UNCHANGED vars
  BY <1>8 DEF vars
<1>9. CASE GuiCall
  <2>1. ASSUME NEW r \in Requests, CallReadRom(r) PROVE FlagInv'
    <3>1. reply_q' = <<>>
      BY <2>1 DEF CallReadRom, CallInv, NoneOut, Asked, Answered
    <3> QED BY <2>1, <3>1 DEF CallReadRom
  <2> QED BY <1>9, <1>1, <2>1 DEF GuiCall
<1>11. CASE ReadRom \/ ReturnRom
  <2>1. reply_q' = <<>>
    BY <1>11 DEF ReadRom, ReturnRom, CallInv, NoneOut, Asked, Answered
  <2> QED BY <1>11, <2>1 DEF ReadRom, ReturnRom
<1>10. CASE SimStep
  BY <1>10, <1>3, <1>4, <1>5, <1>6, <1>7, Zenon DEF SimStep
<1> QED
  BY <1>2, <1>7, <1>8, <1>9, <1>10, <1>11, Zenon DEF Next, GuiReturn

(* The time covered by credit when one instruction of a burst is done. *)
LEMMA OneInstructionLess ==
  ASSUME NEW c \in Int, NEW i \in Nat, NEW j \in Nat, NEW n \in Nat, NEW u \in Nat,
         c >= i + (n - u), n - u >= 0, j <= i - 1
  PROVE  c - 1 >= j + (n - u) /\ c - 1 >= 0
OBVIOUS

LEMMA CreditStep ==
  TypeOK /\ ClockInv /\ FlagInv /\ CreditInv /\ [Next]_vars => CreditInv'
<1> SUFFICES ASSUME TypeOK, ClockInv, FlagInv, CreditInv, [Next]_vars PROVE CreditInv'
  OBVIOUS
<1> USE DEF CreditInv, TypeOK, ClockInv, flags, locals, guivars
<1>1. CASE HandleSimCmd
  BY <1>1, HandlerEffect
<1>2. CASE Timeout \/ SingleCycle \/ SingleInst
  BY <1>2 DEF Timeout, SingleCycle, SingleInst
<1>3. CASE StartBurst
  BY <1>3, SimThreadAssumption DEF StartBurst
<1>4. CASE ExecuteInstruction
  <2>1. /\ inst_count' \in Nat /\ inst_count' <= inst_count - 1
        /\ credit' = credit - 1 /\ spc = "burst" /\ inst_count > 0
        /\ now' = now /\ now_us' = now_us /\ spc' = spc
    BY <1>4 DEF ExecuteInstruction
  <2>2. credit >= inst_count + (now - now_us) /\ now - now_us >= 0
    BY <2>1
  <2>4. /\ credit \in Int /\ inst_count \in Nat /\ now \in Nat /\ now_us \in Nat
    OBVIOUS
  <2>3. credit' >= inst_count' + (now' - now_us') /\ credit' >= 0
    BY <2>1, <2>2, <2>4, OneInstructionLess
  <2> QED BY <2>1, <2>3
<1>5. CASE EndBurst
  BY <1>5 DEF EndBurst
<1>6. CASE Exit \/ ExitAfterFree
  BY <1>6 DEF Exit, ExitAfterFree
<1>7. CASE Tick
  <2>1. spc = "burst" => credit' = credit + 1
    BY <1>7 DEF Tick, FlagInv
  <2> QED BY <1>7, <2>1 DEF Tick
<1>8. CASE UNCHANGED vars
  BY <1>8 DEF vars
<1>9. CASE GuiCall \/ GuiReturn
  BY <1>9 DEF GuiCall, SendCmd, CallReadRom, GuiReturn, PopReply, ReadRom, ReturnRom
<1> HIDE DEF CreditInv, TypeOK, ClockInv
<1>10. CASE SimStep
  BY <1>10, <1>1, <1>2, <1>3, <1>4, <1>5, <1>6, Zenon DEF SimStep
<1> QED
  BY <1>7, <1>8, <1>9, <1>10, Zenon DEF Next

-----------------------------------------------------------------------------
LEMMA InductiveInit == Init => IInv
<1> SUFFICES ASSUME Init PROVE CallInv /\ FlagInv /\ CreditInv
  BY TypeInit DEF IInv
<1> QED
  BY DEF Init, CallInv, NoneOut, FlagInv, CreditInv

LEMMA InductiveStep == IInv /\ [Next]_vars => IInv'
BY TypeStep, ClockStep, RomStep, CallStep, FlagStep, CreditStep DEF IInv

LEMMA Inductive == Spec => []IInv
BY InductiveInit, InductiveStep, PTL DEF Spec

(* The reply a sim_* function pops is the reply to its own message, and no *)
(* message is left on a queue when the function returns.                   *)
THEOREM OneOutstandingCorrect == Spec => []OneOutstanding
<1>1. IInv => OneOutstanding
  <2> SUFFICES ASSUME CallInv PROVE OneOutstanding
    BY DEF IInv
  <2>1. CASE NoneOut
    BY <2>1 DEF NoneOut, OneOutstanding
  <2>2. CASE Asked
    BY <2>2 DEF Asked, OneOutstanding
  <2>3. CASE Answered
    BY <2>3 DEF Answered, OneOutstanding
  <2> QED BY <2>1, <2>2, <2>3 DEF CallInv
<1> QED BY <1>1, Inductive, PTL

(* The processor never executes more than the time it was running, at any  *)
(* burst limit and however starts, stops, pauses and steps are mixed.      *)
THEOREM NoCatchUpCorrect == Spec => []NoCatchUp
<1>1. IInv => NoCatchUp
  BY DEF IInv, CreditInv, NoCatchUp
<1> QED BY <1>1, Inductive, PTL

(* Nothing is executed while state I/O is pending, no burst goes on after  *)
(* a stop, and nothing is executed on a processor that sim_quit has freed. *)
THEOREM ExecutesOnlyWhenAllowedCorrect == Spec => ExecutesOnlyWhenAllowed
<1>1. IInv /\ [Next]_vars =>
        [/\ ExecuteInstruction => run_flag /\ ~io_pause_flag
         /\ SingleCycle \/ SingleInst => ~io_pause_flag
         /\ gpc = "freed" => ~(SingleCycle \/ SingleInst \/ ExecuteInstruction)]_vars
  BY DEF IInv, FlagInv, ExecuteInstruction, SingleCycle, SingleInst
<1> QED BY <1>1, Inductive, PTL DEF Spec, ExecutesOnlyWhenAllowed

-----------------------------------------------------------------------------
(* How the steps of the thread and its callers appear to a client of the   *)
(* service: a call takes effect when handle_sim_cmd runs, and the queues,  *)
(* bursts and clocks are not seen.                                         *)
LEMMA ServiceInit == Init => S!SInit
<1> SUFFICES ASSUME Init PROVE S!SInit
  OBVIOUS
<1>1. PendingCall = S!NoCall /\ StepsAsked = {} /\ Answer = NoVal
  BY DEF Init, PendingCall, S!NoCall, StepsAsked, Answer
<1> QED BY <1>1 DEF Init, S!SInit, States

LEMMA ServiceCall ==
  ASSUME IInv, NEW r \in Requests, NEW a \in Addresses, SendCmd(r, a)
  PROVE  S!SNext
<1> USE DEF flags
<1>1. cmd_q = <<>> /\ reply_q = <<>>
  BY DEF IInv, CallInv, NoneOut, Asked, Answered, SendCmd
<1>2. cmd_q' = <<[addr |-> a, req |-> r, val |-> NoVal]>> /\ reply_q' = <<>>
  BY <1>1 DEF SendCmd
<1>3. PendingCall = S!NoCall /\ PendingCall' = r
  BY <1>1, <1>2 DEF PendingCall, S!NoCall, SendCmd
<1>4. Answer' = NoVal /\ UNCHANGED <<StepsAsked, run_flag, io_pause_flag, state>>
  BY <1>2 DEF Answer, StepsAsked, SendCmd
<1>5. r \in S!Calls
  BY DEF Requests, BoolOps, PlainOps, S!Calls
<1>6. S!SCall(r)
  BY <1>3, <1>4 DEF S!SCall
<1> QED BY <1>5, <1>6 DEF S!SNext

(* A read of ROM starts, takes effect and returns without the queues.      *)
LEMMA ServiceCallRom ==
  ASSUME IInv, NEW r \in Requests, CallReadRom(r)
  PROVE  S!SNext
<1> USE DEF flags
<1>1. cmd_q = <<>> /\ reply_q = <<>> /\ gpc = "loop"
  BY DEF IInv, CallInv, NoneOut, Asked, Answered, CallReadRom
<1>2. cmd_q' = <<>> /\ reply_q' = <<>> /\ gpc' = "reading" /\ msg'.req = r
  BY <1>1 DEF CallReadRom
<1>3. PendingCall = S!NoCall /\ PendingCall' = r
  BY <1>1, <1>2 DEF PendingCall, S!NoCall
<1>4. Answer' = NoVal /\ UNCHANGED <<StepsAsked, run_flag, io_pause_flag, state>>
  BY <1>2 DEF Answer, StepsAsked, CallReadRom
<1>5. r \in S!Calls
  BY DEF Requests, BoolOps, PlainOps, S!Calls
<1>6. S!SCall(r)
  BY <1>3, <1>4 DEF S!SCall
<1> QED BY <1>5, <1>6 DEF S!SNext

LEMMA ServiceReadRom ==
  ASSUME IInv, ReadRom
  PROVE  S!SNext
<1> USE DEF flags
<1>1. cmd_q = <<>> /\ reply_q = <<>> /\ gpc = "reading" /\ msg.req.op = "read_rom"
  BY DEF IInv, RomInv, CallInv, NoneOut, Asked, Answered, ReadRom
<1>2. cmd_q' = <<>> /\ reply_q' = <<>> /\ gpc' = "read" /\ answer' = state[msg.req.arg]
  BY <1>1 DEF ReadRom
<1>3. PendingCall = msg.req /\ PendingCall' = [op |-> "done", arg |-> NoVal]
  BY <1>1, <1>2 DEF PendingCall
<1>4. Answer' = state[msg.req.arg] /\ UNCHANGED <<StepsAsked, run_flag, io_pause_flag, state>>
  BY <1>2 DEF Answer, StepsAsked, ReadRom
<1>5. S!STakeEffect(msg.req)
  BY <1>1, <1>4 DEF S!STakeEffect
<1> QED BY <1>1, <1>3, <1>5 DEF S!SPerform, S!SNext

LEMMA ServiceReturnRom ==
  ASSUME IInv, ReturnRom
  PROVE  S!SNext
<1> USE DEF flags
<1>1. cmd_q = <<>> /\ reply_q = <<>> /\ gpc = "read"
  BY DEF IInv, CallInv, NoneOut, Asked, Answered, ReturnRom
<1>2. cmd_q' = <<>> /\ reply_q' = <<>> /\ gpc' = "loop" /\ answer' = answer
  BY <1>1 DEF ReturnRom
<1>3. PendingCall.op = "done" /\ PendingCall' = S!NoCall
  BY <1>1, <1>2 DEF PendingCall, S!NoCall
<1>4. UNCHANGED <<Answer, StepsAsked, run_flag, io_pause_flag, state>>
  BY <1>1, <1>2 DEF Answer, StepsAsked, ReturnRom
<1> QED BY <1>3, <1>4 DEF S!SReturn, S!SNext

LEMMA ServiceReturn ==
  ASSUME IInv, PopReply
  PROVE  S!SNext
<1> USE DEF flags
<1>1. Answered
  BY DEF IInv, CallInv, NoneOut, Asked, PopReply
<1>2. PICK r \in Messages : reply_q = <<r>>
  BY <1>1 DEF Answered
<1>3. reply_q' = <<>> /\ cmd_q' = <<>> /\ cmd_q = <<>> /\ answer' = r.val
  BY <1>1, <1>2 DEF Answered, PopReply
<1>6. gpc = "waiting" /\ gpc' # "reading" /\ gpc' # "read"
  BY <1>1 DEF Answered, PopReply
<1>4. PendingCall.op = "done" /\ PendingCall' = S!NoCall
  BY <1>2, <1>3, <1>6 DEF PendingCall, S!NoCall
<1>5. UNCHANGED <<Answer, StepsAsked, run_flag, io_pause_flag, state>>
  BY <1>2, <1>3 DEF Answer, StepsAsked, PopReply
<1> QED BY <1>4, <1>5 DEF S!SReturn, S!SNext

LEMMA ServicePerform ==
  ASSUME IInv, HandleSimCmd
  PROVE  S!SNext
<1> USE DEF flags
<1>1. Asked
  BY DEF IInv, CallInv, NoneOut, Answered, HandleSimCmd
<1>2. Head(cmd_q) = msg /\ msg \in Messages /\ cmd_q' = <<>> /\ reply_q = <<>>
  BY <1>1 DEF Asked, HandleSimCmd
<1>3. PICK r \in Replies(msg) : Handle(msg, r) /\ reply_q' = <<r>>
  BY <1>2 DEF HandleSimCmd
<1>4. PendingCall = msg.req /\ PendingCall' = [op |-> "done", arg |-> NoVal]
  BY <1>1, <1>2, <1>3 DEF PendingCall, Asked, HandleSimCmd, guivars
<1>5. Answer' = r.val
  BY <1>3, <1>2 DEF Answer
<1>6. msg.req.op \notin {"none", "done"}
  BY <1>2 DEF Messages, Requests, BoolOps, PlainOps
<1>7. S!STakeEffect(msg.req)
  <2> DEFINE m == msg
  <2>0. m.val = NoVal
    BY <1>1 DEF Asked
  <2> USE DEF S!STakeEffect, StepsAsked
  <2>1. CASE SetRunFlag(m, r)
    BY <2>0, <2>1, <1>5 DEF SetRunFlag
  <2>2. CASE SetIoPauseFlag(m, r)
    BY <2>0, <2>2, <1>5 DEF SetIoPauseFlag
  <2>3. CASE SingleStep(m, r)
    BY <2>0, <2>3, <1>5 DEF SingleStep
  <2>4. CASE Quit(m, r)
    BY <2>0, <2>4, <1>5 DEF Quit
  <2>5. CASE Query(m, r)
    <3>1. Answer' = CASE m.req.op = "get_run" -> run_flag
                      [] m.req.op = "get_pause" -> io_pause_flag
                      [] m.req.op \in {"read", "read_rom"} -> state[m.req.arg]
                      [] OTHER -> NoVal
      BY <2>5, <1>5, <1>2 DEF Query, Messages
    <3> QED BY <3>1, <2>5 DEF Query
  <2>6. CASE Write(m, r)
    BY <2>0, <2>6, <1>5 DEF Write
  <2>7. CASE Event(m, r)
    BY <2>0, <2>7, <1>5 DEF Event, States
  <2> QED
    BY <1>3, <2>1, <2>2, <2>3, <2>4, <2>5, <2>6, <2>7 DEF Handle
<1> QED BY <1>4, <1>6, <1>7 DEF S!SPerform, S!SNext

LEMMA ServiceExecute ==
  ASSUME IInv, SingleCycle \/ SingleInst \/ ExecuteInstruction
  PROVE  S!SNext
<1> USE DEF flags, FlagInv, IInv
<1>1. UNCHANGED <<PendingCall, Answer>>
  BY DEF PendingCall, Answer, SingleCycle, SingleInst, ExecuteInstruction, guivars
<1>2. /\ ~io_pause_flag /\ state' \in [Words -> Vals]
      /\ UNCHANGED <<run_flag, io_pause_flag>>
  BY DEF SingleCycle, SingleInst, ExecuteInstruction, States
<1>3. \/ run_flag /\ StepsAsked' = StepsAsked
     \/ \E t \in StepsAsked : StepsAsked' = StepsAsked \ {t}
  <2>1. CASE SingleCycle
    <3>1. "single_cycle" \in StepsAsked /\ StepsAsked' = StepsAsked \ {"single_cycle"}
      BY <2>1 DEF SingleCycle, StepsAsked
    <3> QED BY <3>1
  <2>2. CASE SingleInst
    <3>1. "single_inst" \in StepsAsked /\ StepsAsked' = StepsAsked \ {"single_inst"}
      BY <2>2 DEF SingleInst, StepsAsked
    <3> QED BY <3>1
  <2>3. CASE ExecuteInstruction
    BY <2>3 DEF ExecuteInstruction, StepsAsked
  <2> QED BY <2>1, <2>2, <2>3
<1> QED BY <1>1, <1>2, <1>3 DEF S!SExecute, S!SNext

LEMMA ServiceStutter ==
  ASSUME Timeout \/ StartBurst \/ EndBurst \/ Exit \/ ExitAfterFree \/ Tick \/ UNCHANGED vars
  PROVE  UNCHANGED S!svars
<1>1. UNCHANGED <<cmd_q, reply_q, flags, state, gpc, msg, answer>>
  BY DEF Timeout, StartBurst, EndBurst, Exit, ExitAfterFree, Tick, vars, flags, guivars
<1> QED
  BY <1>1 DEF S!svars, PendingCall, Answer, StepsAsked, flags

(* The thread, its two queues and its bursts implement the atomic service  *)
(* of SimService (its safety part: that calls return is checked by TLC).   *)
THEOREM ImplementsServiceSafe == Spec => S!SSafe
<1>1. IInv /\ [Next]_vars => [S!SNext]_(S!svars)
  <2> SUFFICES ASSUME IInv, [Next]_vars PROVE S!SNext \/ UNCHANGED S!svars
    BY Zenon
  <2>1. CASE GuiCall
    BY <2>1, ServiceCall, ServiceCallRom DEF GuiCall
  <2>2. CASE GuiReturn
    BY <2>2, ServiceReturn, ServiceReadRom, ServiceReturnRom DEF GuiReturn
  <2>3. CASE SimStep
    <3>1. CASE HandleSimCmd
      BY <3>1, ServicePerform
    <3>2. CASE SingleCycle \/ SingleInst \/ ExecuteInstruction
      BY <3>2, ServiceExecute
    <3>3. CASE Timeout \/ StartBurst \/ EndBurst \/ Exit \/ ExitAfterFree
      BY <3>3, ServiceStutter
    <3> QED BY <2>3, <3>1, <3>2, <3>3, Zenon DEF SimStep
  <2>4. CASE Tick \/ UNCHANGED vars
    BY <2>4, ServiceStutter
  <2> QED BY <2>1, <2>2, <2>3, <2>4, Zenon DEF Next
<1> QED BY <1>1, ServiceInit, Inductive, PTL DEF Spec, S!SSafe

-----------------------------------------------------------------------------
(* The numbers of a register: what get_digits makes of its digits, and     *)
(* set_digits of the number                                                *)
Packs(d, n, base) ==
  LET val[i \in 0..n] == IF i = 0 THEN 0 ELSE val[i - 1] * base + d[n - i]
  IN  val

Word(n, base) == [0..(n - 1) -> 0..(base - 1)]

LEMMA PacksAre ==
  ASSUME NEW base \in Nat \ {0}, NEW n \in Nat, NEW d \in Word(n, base)
  PROVE  /\ Packs(d, n, base) \in [0..n -> Nat]
         /\ Packs(d, n, base)[0] = 0
         /\ \A i \in 1..n : Packs(d, n, base)[i] = Packs(d, n, base)[i - 1] * base + d[n - i]
<1> DEFINE Step == [i \in 0..n |-> [v \in Nat |-> v * base + (IF i = 0 THEN 0 ELSE d[n - i])]]
<1>0. 0 \in Int /\ 0 \in Nat /\ n \in Int /\ 0 <= n
  OBVIOUS
<1>1. ASSUME NEW i \in 0..n PROVE (IF i = 0 THEN 0 ELSE d[n - i]) \in Nat
  <2>1. CASE i # 0
    <3>1. n - i \in 0..(n - 1)
      BY <2>1
    <3>2. d[n - i] \in 0..(base - 1)
      BY <3>1 DEF Word
    <3> QED BY <3>2, <2>1
  <2> QED BY <2>1
<1>2. Step \in [0..n -> [Nat -> Nat]]
  <2>1. ASSUME NEW i \in 0..n, NEW v \in Nat PROVE v * base + (IF i = 0 THEN 0 ELSE d[n - i]) \in Nat
    BY <1>1
  <2> QED BY <2>1
<1>3. \A i \in 1..n, v \in Nat : Step[i][v] = v * base + d[n - i]
  OBVIOUS
<1> HIDE DEF Step
<1>4. PICK g : ByRecursion(g, 0, n, Nat, 0, Step)
  BY <1>0, <1>2, FunctionByRecursion
<1>5. ASSUME NEW i \in 0..n, i # 0 PROVE g[i] = g[i - 1] * base + d[n - i]
  <2>1. i - 1 \in 0..n /\ i \in 1..n
    BY <1>5
  <2>2. g[i - 1] \in Nat
    BY <1>4, <2>1 DEF ByRecursion
  <2>3. g[i] = Step[i][g[i - 1]]
    BY <1>4, <1>5 DEF ByRecursion
  <2> QED BY <2>1, <2>2, <2>3, <1>3
<1>6. g = [i \in 0..n |-> IF i = 0 THEN 0 ELSE g[i - 1] * base + d[n - i]]
  BY <1>4, <1>5 DEF ByRecursion
<1> DEFINE P == Packs(d, n, base)
<1>7. P = [i \in 0..n |-> IF i = 0 THEN 0 ELSE P[i - 1] * base + d[n - i]]
  BY <1>6 DEF Packs
<1> HIDE DEF P
<1>8. P[0] = 0 /\ \A i \in 1..n : P[i] = P[i - 1] * base + d[n - i]
  BY <1>7
<1> DEFINE K == {i \in 0..n : P[i] \in Nat}
<1>9. 0 \in K
  BY <1>8
<1>10. \A i \in 0..(n - 1) : i \in K => i + 1 \in K
  <2>1. ASSUME NEW i \in 0..(n - 1), P[i] \in Nat PROVE P[i + 1] \in Nat
    <3>1. i + 1 \in 1..n /\ (i + 1) - 1 = i /\ n - (i + 1) \in 0..(n - 1)
      OBVIOUS
    <3>2. d[n - (i + 1)] \in Nat
      BY <3>1 DEF Word
    <3>3. P[i + 1] = P[i] * base + d[n - (i + 1)]
      BY <3>1, <1>8
    <3> QED BY <2>1, <3>2, <3>3
  <2> QED BY <2>1
<1> HIDE DEF K
<1>11. \A i \in 0..n : i \in K
  BY <1>9, <1>10, Upwards
<1>12. \A i \in 0..n : P[i] \in Nat
  BY <1>11 DEF K
<1>13. P \in [0..n -> Nat]
  BY <1>7, <1>12
<1> QED BY <1>8, <1>13 DEF P

LEMMA ShiftsAre ==
  ASSUME NEW base \in Nat \ {0}, NEW n \in Nat, NEW v \in Nat
  PROVE  /\ Shifts(v, n, base) \in [0..n -> Nat]
         /\ Shifts(v, n, base)[0] = v
         /\ \A i \in 1..n : Shifts(v, n, base)[i] = Shifts(v, n, base)[i - 1] \div base
<1> DEFINE Step == [i \in 0..n |-> [x \in Nat |-> x \div base]]
<1>0. 0 \in Int /\ v \in Nat /\ n \in Int /\ 0 <= n
  OBVIOUS
<1>1. \A x \in Nat : x \div base \in Nat
  OBVIOUS
<1>2. Step \in [0..n -> [Nat -> Nat]]
  BY <1>1
<1>3. \A i \in 0..n, x \in Nat : Step[i][x] = x \div base
  OBVIOUS
<1> HIDE DEF Step
<1>4. PICK g : ByRecursion(g, 0, n, Nat, v, Step)
  BY <1>0, <1>2, FunctionByRecursion
<1>5. ASSUME NEW i \in 0..n, i # 0 PROVE g[i] = g[i - 1] \div base
  <2>1. i - 1 \in 0..n
    BY <1>5
  <2>2. g[i - 1] \in Nat
    BY <1>4, <2>1 DEF ByRecursion
  <2>3. g[i] = Step[i][g[i - 1]]
    BY <1>4, <1>5 DEF ByRecursion
  <2> QED BY <2>1, <2>2, <2>3, <1>3
<1>6. g = [i \in 0..n |-> IF i = 0 THEN v ELSE g[i - 1] \div base]
  BY <1>4, <1>5 DEF ByRecursion
<1> DEFINE P == Shifts(v, n, base)
<1>7. P = [i \in 0..n |-> IF i = 0 THEN v ELSE P[i - 1] \div base]
  BY <1>6 DEF Shifts
<1> HIDE DEF P
<1>8. P[0] = v /\ \A i \in 1..n : P[i] = P[i - 1] \div base
  BY <1>7
<1> DEFINE K == {i \in 0..n : P[i] \in Nat}
<1>9. 0 \in K
  BY <1>8
<1>10. \A i \in 0..(n - 1) : i \in K => i + 1 \in K
  <2>1. ASSUME NEW i \in 0..(n - 1), P[i] \in Nat PROVE P[i + 1] \in Nat
    <3>1. i + 1 \in 1..n /\ (i + 1) - 1 = i
      OBVIOUS
    <3> QED BY <2>1, <3>1, <1>8, <1>1
  <2> QED BY <2>1
<1> HIDE DEF K
<1>11. \A i \in 0..n : i \in K
  BY <1>9, <1>10, Upwards
<1>12. \A i \in 0..n : P[i] \in Nat
  BY <1>11 DEF K
<1>13. P \in [0..n -> Nat]
  BY <1>7, <1>12
<1> QED BY <1>8, <1>13 DEF P

(* Taking a number apart returns the digits that it was made of.           *)
LEMMA RoundTrip ==
  ASSUME NEW base \in Nat \ {0}, NEW n \in Nat, NEW d \in Word(n, base)
  PROVE  /\ Packed(d, n, base) \in Nat
         /\ \A i \in 0..(n - 1) : Shifts(Packed(d, n, base), n, base)[i] % base = d[i]
<1> DEFINE P == Packs(d, n, base)
           v == Packed(d, n, base)
           T == Shifts(v, n, base)
<1>1. v = P[n]
  BY DEF Packed, Packs
<1>2. P \in [0..n -> Nat] /\ P[0] = 0 /\ \A i \in 1..n : P[i] = P[i - 1] * base + d[n - i]
  BY PacksAre
<1>3. v \in Nat
  BY <1>1, <1>2
<1>4. T[0] = v /\ \A i \in 1..n : T[i] = T[i - 1] \div base
  BY <1>3, ShiftsAre
<1> HIDE DEF P, v, T
<1>5. ASSUME NEW i \in 0..(n - 1) PROVE P[n - i] \div base = P[n - (i + 1)] /\ P[n - i] % base = d[i]
  <2>1. n - i \in 1..n /\ (n - i) - 1 = n - (i + 1) /\ n - (n - i) = i /\ n - (i + 1) \in 0..n
    OBVIOUS
  <2>2. P[n - i] = P[n - (i + 1)] * base + d[i]
    BY <1>2, <2>1
  <2>3. P[n - (i + 1)] \in Int
    BY <1>2, <2>1
  <2>4. d[i] \in 0..(base - 1)
    BY DEF Word
  <2> DEFINE p == P[n - (i + 1)]
             w == d[i]
  <2>5. p \in Int /\ w \in 0..(base - 1) /\ P[n - i] = p * base + w
    BY <2>2, <2>3, <2>4
  <2> HIDE DEF p, w
  <2>6. (p * base + w) \div base = p /\ (p * base + w) % base = w
    BY <2>5, DivModUnique
  <2>7. P[n - i] \div base = p /\ P[n - i] % base = w
    BY <2>5, <2>6
  <2> QED BY <2>7 DEF p, w
<1> DEFINE K == {i \in 0..n : T[i] = P[n - i]}
<1>6. 0 \in K
  BY <1>4, <1>1
<1>7. \A i \in 0..(n - 1) : i \in K => i + 1 \in K
  <2>1. ASSUME NEW i \in 0..(n - 1), T[i] = P[n - i] PROVE T[i + 1] = P[n - (i + 1)]
    <3>1. i + 1 \in 1..n /\ (i + 1) - 1 = i
      OBVIOUS
    <3>2. T[i + 1] = T[i] \div base
      BY <3>1, <1>4
    <3> QED BY <3>2, <2>1, <1>5
  <2> QED BY <2>1
<1> HIDE DEF K
<1>8. \A i \in 0..n : i \in K
  BY <1>6, <1>7, Upwards
<1>9. ASSUME NEW i \in 0..(n - 1) PROVE T[i] % base = d[i]
  <2>1. i \in 0..n
    OBVIOUS
  <2> QED BY <2>1, <1>5, <1>8 DEF K
<1> QED BY <1>3, <1>9 DEF T, v

Digits(n) == [0..(n - 1) -> 0..(HEX - 1)]
Bools(n) == [0..(n - 1) -> BOOLEAN]

LEMMA DigitsReturn ==
  ASSUME NEW n \in Nat, NEW d \in Digits(n)
  PROVE  get_digits(d, n) \in Nat /\ set_digits(get_digits(d, n), n) = d
<1>0. HEX \in Nat \ {0}
  BY StateFileAssumption
<1>1. d \in Word(n, HEX)
  BY DEF Word, Digits
<1>2. get_digits(d, n) \in Nat /\ \A i \in 0..(n - 1) : Shifts(get_digits(d, n), n, HEX)[i] % HEX = d[i]
  BY <1>0, <1>1, RoundTrip DEF get_digits
<1>3. d = [i \in 0..(n - 1) |-> d[i]]
  BY DEF Digits
<1>4. set_digits(get_digits(d, n), n) = [i \in 0..(n - 1) |-> Shifts(get_digits(d, n), n, HEX)[i] % HEX]
  BY DEF set_digits
<1> DEFINE g == get_digits(d, n)
<1> HIDE DEF g
<1>5. set_digits(get_digits(d, n), n) = d
  BY <1>2, <1>3, <1>4
<1> QED BY <1>2, <1>5

LEMMA DigitsAreDigits ==
  ASSUME NEW n \in Nat, NEW v \in Nat
  PROVE  /\ set_digits(v, n) \in Digits(n)
         /\ Shifts(v, n, HEX)[n] % HEX \in 0..(HEX - 1)
<1>0. HEX \in Nat \ {0}
  BY StateFileAssumption
<1>1. Shifts(v, n, HEX) \in [0..n -> Nat]
  BY <1>0, ShiftsAre
<1>2. ASSUME NEW i \in 0..n PROVE Shifts(v, n, HEX)[i] % HEX \in 0..(HEX - 1)
  <2>1. Shifts(v, n, HEX)[i] \in Nat
    BY <1>1
  <2> QED BY <1>0, <2>1
<1>3. n \in 0..n /\ \A i \in 0..(n - 1) : i \in 0..n
  OBVIOUS
<1> QED BY <1>2, <1>3 DEF set_digits, Digits

LEMMA BoolsReturn ==
  ASSUME NEW n \in Nat, NEW d \in Bools(n)
  PROVE  get_bools(d, n) \in Nat /\ set_bools(get_bools(d, n), n) = d
<1> DEFINE e == [i \in 0..(n - 1) |-> IF d[i] THEN 1 ELSE 0]
<1>0. 2 \in Nat \ {0}
  OBVIOUS
<1>1. e \in Word(n, 2)
  BY DEF Word
<1>2. get_bools(d, n) = Packed(e, n, 2)
  BY DEF get_bools
<1>3. get_bools(d, n) \in Nat /\ \A i \in 0..(n - 1) : Shifts(get_bools(d, n), n, 2)[i] % 2 = e[i]
  BY <1>0, <1>1, <1>2, RoundTrip
<1>4. \A i \in 0..(n - 1) : (e[i] = 1) = d[i]
  BY DEF Bools
<1>5. set_bools(get_bools(d, n), n) = [i \in 0..(n - 1) |-> Shifts(get_bools(d, n), n, 2)[i] % 2 = 1]
  BY DEF set_bools
<1> HIDE DEF e
<1>6. [i \in 0..(n - 1) |-> Shifts(get_bools(d, n), n, 2)[i] % 2 = 1] = [i \in 0..(n - 1) |-> d[i]]
  BY <1>3, <1>4
<1>7. d = [i \in 0..(n - 1) |-> d[i]]
  BY DEF Bools
<1> QED BY <1>3, <1>5, <1>6, <1>7

(* The values of a variable of each kind *)
Typed(reg) ==
  CASE reg.kind = "digits" -> Digits(reg.n)
    [] reg.kind = "bools"  -> Bools(reg.n)
    [] reg.kind = "int"    -> 0..(Fits - 1)

LEMMA RegisterReturns ==
  ASSUME NEW reg \in Kinds, NEW x \in Typed(reg)
  PROVE  Set(reg, Get(reg, x)) = x /\ Get(reg, x) \in Nat
<1>1. CASE reg.kind = "digits"
  BY <1>1, DigitsReturn DEF Kinds, Typed, Set, Get
<1>2. CASE reg.kind = "bools"
  BY <1>2, BoolsReturn DEF Kinds, Typed, Set, Get
<1>3. CASE reg.kind = "int"
  <2>1. x \in 0..(Fits - 1) /\ Set(reg, Get(reg, x)) = x % Fits
    BY <1>3 DEF Typed, Set, Get
  <2>2. Fits \in Nat \ {0}
    BY StateFileAssumption
  <2>3. (0 * Fits + x) % Fits = x
    BY <2>1, <2>2, DivModUnique
  <2>4. 0 * Fits + x = x
    BY <2>1, <2>2
  <2>5. Get(reg, x) \in Nat
    BY <1>3, <2>1, <2>2 DEF Get
  <2> QED BY <2>1, <2>3, <2>4, <2>5
<1> QED BY <1>1, <1>2, <1>3 DEF Kinds

LEMMA RegisterTyped ==
  ASSUME NEW reg \in Kinds, NEW v \in Nat
  PROVE  Set(reg, v) \in Typed(reg)
<1>1. CASE reg.kind = "digits"
  BY <1>1, DigitsAreDigits DEF Kinds, Typed, Set
<1>2. CASE reg.kind = "bools"
  BY <1>2 DEF Kinds, Typed, Set, set_bools, Bools
<1>3. CASE reg.kind = "int"
  <2>1. Fits \in Nat \ {0}
    BY StateFileAssumption
  <2>2. v % Fits \in 0..(Fits - 1)
    BY <2>1
  <2> QED BY <1>3, <2>2 DEF Typed, Set
<1> QED BY <1>1, <1>2, <1>3 DEF Kinds

-----------------------------------------------------------------------------
(* A run of the reader *)
IsSeq(s) == \E T : s \in Seq(T)

(* sax_start_element, of a reader that has not ended the program           *)
Step(G, s, e) ==
  IF s = FatalEnd THEN s
  ELSE CASE e.el = "module" ->
              Goes(IF e.what \in G \cup s.calc.plugged THEN s.calc
                   ELSE [s.calc EXCEPT !.plugged = @ \cup {e.what}], s.sax)
         [] e.el = "chip"   -> parse_chip(s.calc, s.sax, e)
         [] e.el = "reg"    -> parse_reg(s.calc, s.sax, e)
         [] e.el = "memory" -> parse_memory(s.calc, s.sax, e)
         [] e.el = "loc"    -> parse_loc(s.calc, s.sax, e)
         [] OTHER           -> Goes(s.calc, s.sax)

Leads(G, s, seq, t) ==
  \E g : /\ g[1] = s /\ g[Len(seq) + 1] = t
         /\ \A i \in 1..Len(seq) : g[i + 1] = Step(G, g[i], seq[i])

LEMMA NothingLeads ==
  ASSUME NEW G, NEW s, NEW t, NEW seq, Len(seq) = 0
  PROVE  Leads(G, s, seq, t) <=> t = s
<1>1. ASSUME Leads(G, s, seq, t) PROVE t = s
  BY <1>1 DEF Leads
<1>2. ASSUME t = s PROVE Leads(G, s, seq, t)
  <2> DEFINE g == [i \in 1..1 |-> s]
  <2>1. g[1] = s /\ g[Len(seq) + 1] = t /\ \A i \in 1..Len(seq) : FALSE
    BY <1>2
  <2> HIDE DEF g
  <2> QED BY <2>1 DEF Leads
<1> QED BY <1>1, <1>2

LEMMA OneLeads ==
  ASSUME NEW G, NEW s, NEW t, NEW e, Leads(G, s, <<e>>, t)
  PROVE  t = Step(G, s, e)
<1>1. Len(<<e>>) = 1 /\ <<e>>[1] = e
  OBVIOUS
<1>2. PICK g : g[1] = s /\ g[2] = t /\ g[2] = Step(G, g[1], e)
  <2>1. PICK g : g[1] = s /\ g[1 + 1] = t /\ \A i \in 1..1 : g[i + 1] = Step(G, g[i], <<e>>[i])
    BY <1>1 DEF Leads
  <2> QED BY <2>1, <1>1
<1> QED BY <1>2

(* The first element's step and the rest *)
LEMMA StepsLead ==
  ASSUME NEW G, NEW s, NEW t, NEW T, NEW seq \in Seq(T), NEW p \in 1..Len(seq),
         Leads(G, Step(G, s, seq[p]), SubSeq(seq, p + 1, Len(seq)), t)
  PROVE  Leads(G, s, SubSeq(seq, p, Len(seq)), t)
<1> DEFINE a == SubSeq(seq, p, Len(seq))
           b == SubSeq(seq, p + 1, Len(seq))
           u == Step(G, s, seq[p])
<1>1. Len(seq) \in Nat
  OBVIOUS
<1>2. Len(a) = Len(seq) - p + 1 /\ Len(b) = Len(seq) - p /\ \A i \in 1..Len(a) : a[i] = seq[p + i - 1]
  OBVIOUS
<1>3. \A i \in 1..Len(b) : b[i] = seq[p + 1 + i - 1]
  OBVIOUS
<1> HIDE DEF a, b, u
<1>4. PICK g : g[1] = u /\ g[Len(b) + 1] = t /\ \A i \in 1..Len(b) : g[i + 1] = Step(G, g[i], b[i])
  BY DEF Leads, b, u
<1> DEFINE h == [i \in 1..(Len(a) + 1) |-> IF i = 1 THEN s ELSE g[i - 1]]
<1>5. h[1] = s /\ h[Len(a) + 1] = t
  BY <1>1, <1>2, <1>4
<1>6. ASSUME NEW i \in 1..Len(a) PROVE h[i + 1] = Step(G, h[i], a[i])
  <2>1. i \in 1..(Len(a) + 1) /\ i + 1 \in 1..(Len(a) + 1) /\ i + 1 # 1 /\ (i + 1) - 1 = i /\ 1 \in 1..Len(a)
    BY <1>1, <1>2
  <2>2. h[i + 1] = g[i]
    BY <2>1
  <2>3. CASE i = 1
    <3>1. h[i] = s /\ a[i] = seq[p]
      BY <1>1, <1>2, <2>1, <2>3
    <3> QED BY <2>2, <2>3, <3>1, <1>4 DEF u
  <2>4. CASE i # 1
    <3>1. i - 1 \in 1..Len(b) /\ (i - 1) + 1 = i /\ p + 1 + (i - 1) - 1 = p + i - 1
      BY <1>1, <1>2, <2>4
    <3>2. g[i] = Step(G, g[i - 1], b[i - 1])
      BY <1>4, <3>1
    <3>3. b[i - 1] = a[i] /\ h[i] = g[i - 1]
      BY <1>2, <1>3, <3>1, <2>1, <2>4
    <3> QED BY <2>2, <3>2, <3>3
  <2> QED BY <2>3, <2>4
<1> HIDE DEF h
<1>7. Leads(G, s, a, t)
  BY <1>5, <1>6 DEF Leads
<1> QED BY <1>7 DEF a

(* The end of the program is the end.                                      *)
LEMMA FatalLeads ==
  ASSUME NEW G, NEW t, NEW seq, Len(seq) \in Nat, Leads(G, FatalEnd, seq, t)
  PROVE  t = FatalEnd
<1>1. PICK g : g[1] = FatalEnd /\ g[Len(seq) + 1] = t /\ \A i \in 1..Len(seq) : g[i + 1] = Step(G, g[i], seq[i])
  BY DEF Leads
<1> DEFINE n == Len(seq)
           K == {i \in 1..(n + 1) : g[i] = FatalEnd}
<1>2. n \in Nat /\ 1 \in Int /\ n + 1 \in Int /\ 1 <= n + 1
  OBVIOUS
<1>3. 1 \in K
  BY <1>1, <1>2
<1>4. \A i \in 1..((n + 1) - 1) : i \in K => i + 1 \in K
  <2>1. ASSUME NEW i \in 1..((n + 1) - 1), g[i] = FatalEnd PROVE i + 1 \in 1..(n + 1) /\ g[i + 1] = FatalEnd
    <3>1. i \in 1..n /\ i + 1 \in 1..(n + 1)
      BY <1>2
    <3>2. g[i + 1] = Step(G, g[i], seq[i])
      BY <1>1, <3>1
    <3> QED BY <3>1, <3>2, <2>1 DEF Step
  <2> QED BY <2>1
<1> HIDE DEF K
<1>5. \A i \in 1..(n + 1) : i \in K
  BY <1>2, <1>3, <1>4, Upwards
<1>6. n + 1 \in 1..(n + 1)
  BY <1>2
<1> QED BY <1>1, <1>5, <1>6 DEF K

LEMMA BothAreSeqs ==
  ASSUME NEW a, NEW b, IsSeq(a), IsSeq(b)
  PROVE  \E T : a \in Seq(T) /\ b \in Seq(T) /\ a \o b \in Seq(T)
<1>1. PICK A : a \in Seq(A)
  BY DEF IsSeq
<1>2. PICK B : b \in Seq(B)
  BY DEF IsSeq
<1>3. A \subseteq A \cup B /\ B \subseteq A \cup B
  OBVIOUS
<1>4. a \in Seq(A \cup B) /\ b \in Seq(A \cup B)
  BY <1>1, <1>2, <1>3, SeqMonotonic
<1>5. a \o b \in Seq(A \cup B)
  BY <1>4, ConcatProperties
<1> QED BY <1>4, <1>5

LEMMA ConcatLeads ==
  ASSUME NEW G, NEW s, NEW t, NEW a, NEW b, IsSeq(a), IsSeq(b), Leads(G, s, a \o b, t)
  PROVE  \E u : Leads(G, s, a, u) /\ Leads(G, u, b, t)
<1>1. PICK T : a \in Seq(T) /\ b \in Seq(T)
  BY BothAreSeqs
<1> DEFINE c == a \o b
           m == Len(a)
           n == Len(b)
<1>2. m \in Nat /\ n \in Nat
  BY <1>1, LenProperties
<1>3. Len(c) = m + n /\ \A i \in 1..(m + n) : c[i] = IF i <= m THEN a[i] ELSE b[i - m]
  BY <1>1, ConcatProperties
<1>4. PICK g : g[1] = s /\ g[Len(c) + 1] = t /\ \A i \in 1..Len(c) : g[i + 1] = Step(G, g[i], c[i])
  BY DEF Leads
<1> HIDE DEF c
<1>5. Leads(G, s, a, g[m + 1])
  <2>1. \A i \in 1..m : g[i + 1] = Step(G, g[i], a[i])
    <3>1. ASSUME NEW i \in 1..m PROVE g[i + 1] = Step(G, g[i], a[i])
      <4>1. i \in 1..(m + n) /\ i <= m
        BY <1>2
      <4>2. c[i] = a[i]
        BY <4>1, <1>3
      <4>3. g[i + 1] = Step(G, g[i], c[i])
        BY <4>1, <1>3, <1>4
      <4> QED BY <4>2, <4>3
    <3> QED BY <3>1
  <2> QED BY <2>1, <1>4 DEF Leads
<1>6. Leads(G, g[m + 1], b, t)
  <2> DEFINE h == [i \in 1..(n + 1) |-> g[m + i]]
  <2>1. h[1] = g[m + 1] /\ h[n + 1] = t
    <3>1. 1 \in 1..(n + 1) /\ n + 1 \in 1..(n + 1) /\ m + (n + 1) = (m + n) + 1
      BY <1>2
    <3> QED BY <3>1, <1>3, <1>4
  <2>2. ASSUME NEW i \in 1..n PROVE h[i + 1] = Step(G, h[i], b[i])
    <3>1. /\ i \in 1..(n + 1) /\ i + 1 \in 1..(n + 1) /\ m + (i + 1) = (m + i) + 1
          /\ m + i \in 1..(m + n) /\ ~(m + i <= m) /\ (m + i) - m = i
      BY <1>2
    <3>2. c[m + i] = b[i]
      BY <3>1, <1>3
    <3>3. g[(m + i) + 1] = Step(G, g[m + i], c[m + i])
      BY <3>1, <1>3, <1>4
    <3> QED BY <3>1, <3>2, <3>3
  <2> HIDE DEF h
  <2>3. \E k : k[1] = g[m + 1] /\ k[Len(b) + 1] = t /\ \A i \in 1..Len(b) : k[i + 1] = Step(G, k[i], b[i])
    BY <2>1, <2>2
  <2> QED BY <2>3 DEF Leads
<1> QED BY <1>5, <1>6

(* The parts of a flattened sequence, one after the other.                 *)
Flattened(K) ==
  LET flatten[i \in 1..Len(K)] == IF i = 1 THEN K[i] ELSE flatten[i - 1] \o K[i]
  IN  flatten

LEMMA FlattenedIs ==
  ASSUME NEW K, Len(K) \in Nat \ {0}, \A k \in 1..Len(K) : IsSeq(K[k])
  PROVE  /\ FlattenSeq(K) = Flattened(K)[Len(K)]
         /\ Flattened(K)[1] = K[1]
         /\ \A k \in 1..Len(K) : k # 1 => Flattened(K)[k] = Flattened(K)[k - 1] \o K[k]
         /\ \A k \in 1..Len(K) : IsSeq(Flattened(K)[k])
<1> DEFINE n == Len(K)
           T == {K[k][i] : k \in 1..n, i \in Nat}
           Q == Seq(T)
           Next2 == [k \in 1..n |-> [q \in Q |-> q \o K[k]]]
<1>1. ASSUME NEW k \in 1..n PROVE K[k] \in Q
  <2>1. PICK A : K[k] \in Seq(A)
    BY DEF IsSeq
  <2>2. Len(K[k]) \in Nat /\ K[k] = [i \in 1..Len(K[k]) |-> K[k][i]]
    BY <2>1
  <2>3. \A i \in 1..Len(K[k]) : K[k][i] \in T
    OBVIOUS
  <2> DEFINE w == K[k]
  <2>4. w \in [1..Len(w) -> T]
    BY <2>2, <2>3
  <2> HIDE DEF w, T
  <2>5. w \in Seq(T)
    BY <2>2, <2>4 DEF w
  <2> QED BY <2>5 DEF w
<1> HIDE DEF T
<1>2. \A k \in 1..n : \A q \in Q : q \o K[k] \in Q
  BY <1>1, ConcatProperties
<1>3. Next2 \in [1..n -> [Q -> Q]]
  BY <1>2
<1>4. \A k \in 1..n : \A q \in Q : Next2[k][q] = q \o K[k]
  OBVIOUS
<1> HIDE DEF Next2, Q
<1>5. 1 \in Int /\ n \in Int /\ 1 <= n /\ 1 \in 1..n /\ n \in 1..n
  OBVIOUS
<1>6. PICK g : ByRecursion(g, 1, n, Q, K[1], Next2)
  BY <1>1, <1>3, <1>5, FunctionByRecursion
<1>7. ASSUME NEW k \in 1..n, k # 1 PROVE g[k] = g[k - 1] \o K[k]
  <2>1. k - 1 \in 1..n
    BY <1>7
  <2>2. g[k - 1] \in Q
    BY <1>6, <2>1 DEF ByRecursion
  <2>3. g[k] = Next2[k][g[k - 1]]
    BY <1>6, <1>7 DEF ByRecursion
  <2> QED BY <2>2, <2>3, <1>4
<1>8. g = [k \in 1..n |-> IF k = 1 THEN K[k] ELSE g[k - 1] \o K[k]]
  BY <1>6, <1>7 DEF ByRecursion
<1> DEFINE F == Flattened(K)
<1>9. F = [k \in 1..n |-> IF k = 1 THEN K[k] ELSE F[k - 1] \o K[k]]
  BY <1>8 DEF Flattened
<1>10. FlattenSeq(K) = F[n]
  BY DEF FlattenSeq, Flattened
<1> HIDE DEF F
<1>11. F[1] = K[1] /\ \A k \in 1..n : k # 1 => F[k] = F[k - 1] \o K[k]
  BY <1>5, <1>9
<1> DEFINE I == {k \in 1..n : F[k] \in Q}
<1>12. 1 \in I
  BY <1>1, <1>5, <1>11
<1>13. \A k \in 1..(n - 1) : k \in I => k + 1 \in I
  <2>1. ASSUME NEW k \in 1..(n - 1), F[k] \in Q PROVE k + 1 \in 1..n /\ F[k + 1] \in Q
    <3>1. k + 1 \in 1..n /\ k + 1 # 1 /\ (k + 1) - 1 = k
      BY <1>5
    <3>2. F[k + 1] = F[k] \o K[k + 1]
      BY <3>1, <1>11
    <3> QED BY <3>1, <3>2, <2>1, <1>2
  <2> QED BY <2>1
<1> HIDE DEF I
<1>14. \A k \in 1..n : k \in I
  BY <1>5, <1>12, <1>13, Upwards
<1>15. \A k \in 1..n : IsSeq(F[k])
  BY <1>14 DEF I, IsSeq, Q
<1> QED BY <1>10, <1>11, <1>15 DEF F

LEMMA FlattenIsSeq ==
  ASSUME NEW K, Len(K) \in Nat, IsSeq(K), \A k \in 1..Len(K) : IsSeq(K[k])
  PROVE  IsSeq(FlattenSeq(K))
<1>1. CASE Len(K) = 0
  BY <1>1 DEF FlattenSeq
<1>2. CASE Len(K) # 0
  <2>1. Len(K) \in Nat \ {0} /\ Len(K) \in 1..Len(K)
    BY <1>2
  <2> QED BY <2>1, FlattenedIs
<1> QED BY <1>1, <1>2

Parts(G, s, K, t, h) ==
  h[1] = s /\ h[Len(K) + 1] = t /\ \A k \in 1..Len(K) : Leads(G, h[k], K[k], h[k + 1])

LEMMA FlattenLeads ==
  ASSUME NEW G, NEW s, NEW t, NEW K, Len(K) \in Nat, \A k \in 1..Len(K) : IsSeq(K[k]),
         Leads(G, s, FlattenSeq(K), t)
  PROVE  \E h : Parts(G, s, K, t, h)
<1> DEFINE n == Len(K)
<1>1. CASE n = 0
  <2>1. Leads(G, s, K, t)
    BY <1>1 DEF FlattenSeq
  <2>2. t = s
    BY <1>1, <2>1, NothingLeads
  <2> DEFINE h == [k \in 1..1 |-> s]
  <2>3. h[1] = s /\ h[n + 1] = t /\ \A k \in 1..n : FALSE
    BY <1>1, <2>2
  <2> HIDE DEF h
  <2> QED BY <2>3 DEF Parts
<1>2. CASE n # 0
  <2> DEFINE F == Flattened(K)
  <2>1. n \in Nat \ {0} /\ n \in 1..n /\ 1 \in 1..n /\ 1 \in Int /\ n \in Int /\ 1 <= n
    BY <1>2
  <2>2. /\ FlattenSeq(K) = F[n] /\ F[1] = K[1]
        /\ \A k \in 1..n : k # 1 => F[k] = F[k - 1] \o K[k]
        /\ \A k \in 1..n : IsSeq(F[k])
    BY <2>1, FlattenedIs
  <2> HIDE DEF F
  <2> DEFINE Good(m, u, h) == h[1] = s /\ h[m + 1] = u /\ \A k \in 1..m : Leads(G, h[k], K[k], h[k + 1])
             I == {m \in 1..n : \A u : Leads(G, s, F[m], u) => \E h : Good(m, u, h)}
  <2>3. 1 \in I
    <3>1. ASSUME NEW u, Leads(G, s, F[1], u) PROVE \E h : Good(1, u, h)
      <4> DEFINE h == [k \in 1..2 |-> IF k = 1 THEN s ELSE u]
      <4>1. h[1] = s /\ h[2] = u /\ Leads(G, s, K[1], u)
        BY <3>1, <2>2
      <4> HIDE DEF h
      <4>2. Good(1, u, h)
        BY <4>1
      <4> QED BY <4>2
    <3> QED BY <3>1, <2>1
  <2>4. \A m \in 1..(n - 1) : m \in I => m + 1 \in I
    <3>1. ASSUME NEW m \in 1..(n - 1), m \in I, NEW u, Leads(G, s, F[m + 1], u)
          PROVE  \E h : Good(m + 1, u, h)
      <4>1. m \in 1..n /\ m + 1 \in 1..n /\ m + 1 # 1 /\ (m + 1) - 1 = m
        BY <2>1
      <4>2. F[m + 1] = F[m] \o K[m + 1]
        BY <4>1, <2>2
      <4>3. PICK w : Leads(G, s, F[m], w) /\ Leads(G, w, K[m + 1], u)
        BY <4>1, <4>2, <3>1, <2>2, ConcatLeads
      <4>4. PICK h : Good(m, w, h)
        BY <3>1, <4>3
      <4> DEFINE k2 == [k \in 1..(m + 2) |-> IF k = m + 2 THEN u ELSE h[k]]
      <4>5. k2[1] = s /\ k2[(m + 1) + 1] = u
        <5>1. 1 \in 1..(m + 2) /\ 1 # m + 2 /\ m + 2 \in 1..(m + 2) /\ (m + 1) + 1 = m + 2
          BY <4>1
        <5> QED BY <5>1, <4>4
      <4>6. ASSUME NEW k \in 1..(m + 1) PROVE Leads(G, k2[k], K[k], k2[k + 1])
        <5>1. k \in 1..(m + 2) /\ k # m + 2 /\ k + 1 \in 1..(m + 2)
          BY <4>1
        <5>2. k2[k] = h[k]
          BY <5>1
        <5>3. CASE k = m + 1
          <6>1. k + 1 = m + 2 /\ k2[k + 1] = u
            BY <5>1, <5>3, <4>1
          <6>2. h[k] = w
            BY <4>4, <5>3
          <6> QED BY <6>1, <6>2, <5>2, <5>3, <4>3
        <5>4. CASE k # m + 1
          <6>1. k \in 1..m /\ k + 1 # m + 2
            BY <5>4, <4>1
          <6>2. k2[k + 1] = h[k + 1]
            BY <6>1, <5>1
          <6>3. Leads(G, h[k], K[k], h[k + 1])
            BY <4>4, <6>1
          <6> QED BY <6>2, <6>3, <5>2
        <5> QED BY <5>3, <5>4
      <4> HIDE DEF k2
      <4>7. Good(m + 1, u, k2)
        BY <4>5, <4>6
      <4> HIDE DEF Good
      <4> QED BY <4>7
    <3>2. \A m \in 1..(n - 1) : m + 1 \in 1..n
      BY <2>1
    <3> HIDE DEF Good
    <3> QED BY <3>1, <3>2
  <2> HIDE DEF I
  <2>5. \A m \in 1..n : m \in I
    BY <2>1, <2>3, <2>4, Upwards
  <2>6. n \in I
    BY <2>5, <2>1
  <2> HIDE DEF Good
  <2>7. \A u : Leads(G, s, F[n], u) => \E h : Good(n, u, h)
    BY <2>6 DEF I
  <2>8. PICK h : Good(n, t, h)
    BY <2>7, <2>2
  <2>9. Parts(G, s, K, t, h)
    BY <2>8 DEF Parts, Good
  <2> QED BY <2>9
<1> QED BY <1>1, <1>2

-----------------------------------------------------------------------------
(* What a calculator is made of *)
AllChips == ToSet(Chips)
Locations == ToSet(RamAddresses)
Anything == UNION {Typed(reg) : reg \in Kinds}
FileOf(chip) ==
  {x \in [Fields(chip) -> Anything] : \A f \in Fields(chip) : x[f] \in Typed(Registers[chip][f[1]])}
CalcType ==
  [plugged : SUBSET Modules, regs : [AllChips -> UNION {FileOf(chip) : chip \in AllChips}],
   ram : [Locations -> Digits(REGISTER_DIGITS)], words : [Modules -> Nat], protect : [Modules -> Nat]]
CalcOk(c) == c \in CalcType /\ \A chip \in AllChips : c.regs[chip] \in FileOf(chip)
SaxType == [chip : AllChips \cup {NoChip}, mem_rom : BOOLEAN]
Live(s) == s = Goes(s.calc, s.sax) /\ CalcOk(s.calc) /\ s.sax \in SaxType

LEMMA LiveIsNotFatal ==
  ASSUME NEW s, Live(s)
  PROVE  s # FatalEnd
<1>1. s.fatal = FALSE
  BY DEF Live, Goes
<1>2. FatalEnd.fatal = TRUE
  BY DEF FatalEnd
<1> QED BY <1>1, <1>2

LEMMA GoesIs ==
  ASSUME NEW c, NEW x
  PROVE  Goes(c, x).calc = c /\ Goes(c, x).sax = x /\ Goes(c, x) = Goes(Goes(c, x).calc, Goes(c, x).sax)
BY DEF Goes

LEMMA FieldsAre ==
  ASSUME NEW chip \in AllChips
  PROVE  /\ Registers[chip] \in Seq(Kinds)
         /\ DOMAIN Registers[chip] = 1..Len(Registers[chip]) /\ Len(Registers[chip]) \in Nat
         /\ \A r \in DOMAIN Registers[chip] : Registers[chip][r] \in Kinds /\ Registers[chip][r].count \in Nat
         /\ \A f : f \in Fields(chip) <=>
              \E r \in DOMAIN Registers[chip] : \E i \in 0..(Registers[chip][r].count - 1) : f = <<r, i>>
         /\ \A f \in Fields(chip) : f[1] \in DOMAIN Registers[chip] /\ Registers[chip][f[1]] \in Kinds
<1>1. Registers[chip] \in Seq(Kinds)
  BY StateFileAssumption DEF AllChips
<1>2. DOMAIN Registers[chip] = 1..Len(Registers[chip]) /\ Len(Registers[chip]) \in Nat
  BY <1>1, LenProperties
<1>3. \A r \in DOMAIN Registers[chip] : Registers[chip][r] \in Kinds
  BY <1>1, <1>2, ElementOfSeq
<1>4. \A r \in DOMAIN Registers[chip] : Registers[chip][r].count \in Nat
  BY <1>3 DEF Kinds
<1>5. \A f : f \in Fields(chip) <=>
        \E r \in DOMAIN Registers[chip] : \E i \in 0..(Registers[chip][r].count - 1) : f = <<r, i>>
  BY DEF Fields
<1> QED BY <1>1, <1>2, <1>3, <1>4, <1>5

LEMMA CalcParts ==
  ASSUME NEW c, CalcOk(c)
  PROVE  /\ c.plugged \subseteq Modules
         /\ c.ram \in [Locations -> Digits(REGISTER_DIGITS)]
         /\ c.words \in [Modules -> Nat] /\ c.protect \in [Modules -> Nat]
         /\ \A chip \in AllChips : /\ c.regs[chip] \in [Fields(chip) -> Anything]
                                   /\ \A f \in Fields(chip) : c.regs[chip][f] \in Typed(Registers[chip][f[1]])
BY DEF CalcOk, CalcType, FileOf

LEMMA RegTypes ==
  ASSUME NEW c, CalcOk(c), NEW chip \in AllChips, NEW f \in Fields(chip)
  PROVE  LET reg == Registers[chip][f[1]]
         IN  /\ Set(reg, Get(reg, c.regs[chip][f])) = c.regs[chip][f]
             /\ c.regs[chip][f] \in Typed(reg) /\ c.regs[chip][f] \in Anything
<1>1. Registers[chip][f[1]] \in Kinds
  BY FieldsAre
<1>2. c.regs[chip][f] \in Typed(Registers[chip][f[1]])
  BY CalcParts
<1>3. c.regs[chip][f] \in Anything
  BY <1>1, <1>2 DEF Anything
<1> QED BY <1>1, <1>2, <1>3, RegisterReturns

LEMMA FilledOk ==
  ASSUME NEW v \in Nat, NEW plugged \in SUBSET Modules
  PROVE  CalcOk(Filled(v, plugged))
<1> DEFINE c == Filled(v, plugged)
<1>1. c.plugged = plugged /\ c.words = [m \in Modules |-> v] /\ c.protect = [m \in Modules |-> v % 2]
      /\ c.regs = [chip \in AllChips |-> [f \in Fields(chip) |-> Set(Registers[chip][f[1]], v + f[2])]]
      /\ c.ram = [a \in Locations |-> set_digits(v + a, REGISTER_DIGITS)]
      /\ c = [plugged |-> c.plugged, regs |-> c.regs, ram |-> c.ram, words |-> c.words, protect |-> c.protect]
  BY DEF Filled, AllChips, Locations
<1> HIDE DEF c
<1>2. c.words \in [Modules -> Nat] /\ c.protect \in [Modules -> Nat]
  <2>1. v % 2 \in Nat
    OBVIOUS
  <2> QED BY <1>1, <2>1
<1>3. c.ram \in [Locations -> Digits(REGISTER_DIGITS)]
  <2>1. ASSUME NEW a \in Locations PROVE set_digits(v + a, REGISTER_DIGITS) \in Digits(REGISTER_DIGITS)
    <3>1. a \in Nat
      BY StateFileAssumption DEF Locations, ToSet
    <3>2. v + a \in Nat /\ REGISTER_DIGITS \in Nat
      BY <3>1, StateFileAssumption
    <3> QED BY <3>2, DigitsAreDigits
  <2> QED BY <1>1, <2>1
<1>4. ASSUME NEW chip \in AllChips PROVE c.regs[chip] \in FileOf(chip)
  <2>1. c.regs[chip] = [f \in Fields(chip) |-> Set(Registers[chip][f[1]], v + f[2])]
    BY <1>1
  <2>2. ASSUME NEW f \in Fields(chip)
        PROVE  Set(Registers[chip][f[1]], v + f[2]) \in Typed(Registers[chip][f[1]])
               /\ Set(Registers[chip][f[1]], v + f[2]) \in Anything
    <3>1. PICK r \in DOMAIN Registers[chip] : \E i \in 0..(Registers[chip][r].count - 1) : f = <<r, i>>
      BY FieldsAre
    <3>2. f[2] \in Nat
      BY <3>1
    <3>3. v + f[2] \in Nat /\ Registers[chip][f[1]] \in Kinds
      BY <3>2, FieldsAre
    <3>4. Set(Registers[chip][f[1]], v + f[2]) \in Typed(Registers[chip][f[1]])
      BY <3>3, RegisterTyped
    <3> QED BY <3>3, <3>4 DEF Anything
  <2>3. c.regs[chip] \in [Fields(chip) -> Anything]
    BY <2>1, <2>2
  <2>4. \A f \in Fields(chip) : c.regs[chip][f] \in Typed(Registers[chip][f[1]])
    BY <2>1, <2>2
  <2> QED BY <2>3, <2>4 DEF FileOf
<1>5. c.regs \in [AllChips -> UNION {FileOf(chip) : chip \in AllChips}]
  <2>1. \A chip \in AllChips : c.regs[chip] \in UNION {FileOf(k) : k \in AllChips}
    BY <1>4
  <2> QED BY <2>1, <1>1
<1>6. c \in CalcType
  BY <1>1, <1>2, <1>3, <1>5 DEF CalcType
<1>7. CalcOk(c)
  BY <1>4, <1>6 DEF CalcOk
<1> QED BY <1>7 DEF c

-----------------------------------------------------------------------------
(* The registers of the chips *)
RegsBecome(s, t, c, F) ==
  /\ Live(t)
  /\ t.calc.plugged = s.calc.plugged /\ t.calc.ram = s.calc.ram
  /\ t.calc.words = s.calc.words /\ t.calc.protect = s.calc.protect
  /\ \A chip \in AllChips : \A f \in Fields(chip) :
       t.calc.regs[chip][f] = IF <<chip, f>> \in F THEN c.regs[chip][f] ELSE s.calc.regs[chip][f]

LEMMA RegsStay ==
  ASSUME NEW s, Live(s), NEW c
  PROVE  RegsBecome(s, s, c, {})
BY DEF RegsBecome

RegElement(c, chip, f) == El("reg", f, Get(Registers[chip][f[1]], c.regs[chip][f]))

(* The reader is at the registers of this chip.                            *)
At(s, chip) == s.sax.chip = chip

LEMMA RegStep ==
  ASSUME NEW G, NEW s, Live(s), NEW c, CalcOk(c), NEW chip \in AllChips, At(s, chip),
         NEW f \in Fields(chip)
  PROVE  /\ RegsBecome(s, Step(G, s, RegElement(c, chip, f)), c, {<<chip, f>>})
         /\ Step(G, s, RegElement(c, chip, f)).sax = s.sax
<1> DEFINE reg == Registers[chip][f[1]]
           v == c.regs[chip][f]
           e == RegElement(c, chip, f)
           new == [s.calc EXCEPT !.regs[chip][f] = v]
           t == Step(G, s, e)
<1>0. s.sax.chip = chip
  BY DEF At
<1>1. Set(reg, Get(reg, v)) = v /\ v \in Typed(reg) /\ v \in Anything
  BY RegTypes
<1>2. chip # NoChip
  BY StateFileAssumption DEF AllChips
<1>3. e.el = "reg" /\ e.what = f /\ e.data = Get(reg, v)
  BY DEF El, RegElement
<1>4. s # FatalEnd
  BY LiveIsNotFatal
<1> HIDE DEF e, reg, v
<1>5. t = parse_reg(s.calc, s.sax, e)
  BY <1>3, <1>4 DEF Step
<1> HIDE DEF t
<1>6. t = Goes(new, s.sax)
  <2>1. parse_reg(s.calc, s.sax, e) = Goes([s.calc EXCEPT !.regs[chip][f] = Set(reg, e.data)], s.sax)
    BY <1>0, <1>2, <1>3 DEF parse_reg, reg
  <2> QED BY <2>1, <1>1, <1>3, <1>5
<1>7. s.calc \in CalcType /\ \A k \in AllChips : s.calc.regs[k] \in FileOf(k)
  BY DEF Live, CalcOk
<1>8. /\ new.plugged = s.calc.plugged /\ new.ram = s.calc.ram
      /\ new.words = s.calc.words /\ new.protect = s.calc.protect
      /\ new.regs = [s.calc.regs EXCEPT ![chip] = [s.calc.regs[chip] EXCEPT ![f] = v]]
      /\ new = [plugged |-> new.plugged, regs |-> new.regs, ram |-> new.ram, words |-> new.words,
                protect |-> new.protect]
  BY <1>7 DEF CalcType
<1> HIDE DEF new
<1>9. s.calc.regs[chip] \in [Fields(chip) -> Anything] /\ \A k \in Fields(chip) : s.calc.regs[chip][k] \in Typed(Registers[chip][k[1]])
  BY CalcParts DEF Live
<1>10. /\ new.regs[chip] = [s.calc.regs[chip] EXCEPT ![f] = v]
       /\ \A k \in AllChips : k # chip => new.regs[k] = s.calc.regs[k]
       /\ new.regs = [k \in AllChips |-> new.regs[k]]
  BY <1>7, <1>8 DEF CalcType
<1>11. \A k \in Fields(chip) : new.regs[chip][k] = IF k = f THEN v ELSE s.calc.regs[chip][k]
  BY <1>9, <1>10
<1>12. new.regs[chip] \in FileOf(chip)
  <2>1. new.regs[chip] \in [Fields(chip) -> Anything]
    BY <1>1, <1>9, <1>10
  <2>2. \A k \in Fields(chip) : new.regs[chip][k] \in Typed(Registers[chip][k[1]])
    BY <1>1, <1>9, <1>11 DEF reg
  <2> QED BY <2>1, <2>2 DEF FileOf
<1>13. \A k \in AllChips : new.regs[k] \in FileOf(k)
  BY <1>7, <1>10, <1>12
<1>14. CalcOk(new)
  <2>1. new.regs \in [AllChips -> UNION {FileOf(k) : k \in AllChips}]
    BY <1>10, <1>13
  <2>2. new \in CalcType
    BY <2>1, <1>7, <1>8 DEF CalcType
  <2> QED BY <2>2, <1>13 DEF CalcOk
<1>15. t.calc = new /\ t.sax = s.sax /\ t = Goes(t.calc, t.sax)
  BY <1>6, GoesIs
<1>16. Live(t)
  BY <1>14, <1>15 DEF Live
<1>17. ASSUME NEW k \in AllChips, NEW x \in Fields(k)
       PROVE  t.calc.regs[k][x] = IF <<k, x>> \in {<<chip, f>>} THEN c.regs[k][x] ELSE s.calc.regs[k][x]
  <2>1. CASE k = chip
    BY <2>1, <1>11, <1>15 DEF v
  <2>2. CASE k # chip
    BY <2>2, <1>10, <1>15
  <2> QED BY <2>1, <2>2
<1>18. RegsBecome(s, t, c, {<<chip, f>>}) /\ t.sax = s.sax
  BY <1>8, <1>15, <1>16, <1>17 DEF RegsBecome
<1> QED BY <1>18 DEF t, e

LEMMA NoRegStep ==
  ASSUME NEW G, NEW s, Live(s), At(s, NoChip), NEW f, NEW v
  PROVE  Step(G, s, El("reg", f, v)) = s
<1> DEFINE e == El("reg", f, v)
<1>1. e.el = "reg"
  BY DEF El
<1> HIDE DEF e
<1>2. Step(G, s, e) = parse_reg(s.calc, s.sax, e)
  BY <1>1, LiveIsNotFatal DEF Step
<1>3. parse_reg(s.calc, s.sax, e) = Goes(s.calc, s.sax)
  BY DEF parse_reg, At
<1> QED BY <1>2, <1>3 DEF Live, e

(* Restoring one part of the registers after the other.                    *)
Restoring(n, h, F, X, c) ==
  \A k \in 1..n : Live(h[k]) /\ h[k].sax \in X /\ h[k].calc.plugged = h[1].calc.plugged =>
                    RegsBecome(h[k], h[k + 1], c, F[k]) /\ h[k + 1].sax \in X

IsAll(all, F, n) == all = UNION {F[k] : k \in 1..n}

LEMMA RegsChain ==
  ASSUME NEW n \in Nat, NEW h, NEW F, NEW X, NEW c, Live(h[1]), h[1].sax \in X, Restoring(n, h, F, X, c),
         NEW all, IsAll(all, F, n)
  PROVE  RegsBecome(h[1], h[n + 1], c, all) /\ h[n + 1].sax \in X
<1> DEFINE U(m) == UNION {F[k] : k \in 1..(m - 1)}
           I == {m \in 1..(n + 1) : RegsBecome(h[1], h[m], c, U(m)) /\ h[m].sax \in X}
<1>1. 1 \in 1..(n + 1) /\ n + 1 \in 1..(n + 1) /\ 1 \in Int /\ n + 1 \in Int /\ 1 <= n + 1 /\ (n + 1) - 1 = n
  OBVIOUS
<1>2. 1 \in I
  <2>1. U(1) = {}
    OBVIOUS
  <2> QED BY <2>1, <1>1, RegsStay
<1>3. \A m \in 1..((n + 1) - 1) : m \in I => m + 1 \in I
  <2>1. ASSUME NEW m \in 1..n, RegsBecome(h[1], h[m], c, U(m)), h[m].sax \in X
        PROVE  m + 1 \in 1..(n + 1) /\ RegsBecome(h[1], h[m + 1], c, U(m + 1)) /\ h[m + 1].sax \in X
    <3>1. RegsBecome(h[m], h[m + 1], c, F[m]) /\ h[m + 1].sax \in X
      BY <2>1 DEF RegsBecome, Restoring
    <3>2. U(m + 1) = U(m) \cup F[m]
      <4>1. \A k : k \in 1..((m + 1) - 1) <=> k \in 1..(m - 1) \/ k = m
        OBVIOUS
      <4> QED BY <4>1
    <3> DEFINE V == U(m)
               W == U(m + 1)
    <3> HIDE DEF U
    <3>3. W = V \cup F[m] /\ RegsBecome(h[1], h[m], c, V)
      BY <3>2, <2>1
    <3> HIDE DEF V, W
    <3>4. RegsBecome(h[1], h[m + 1], c, W)
      BY <3>1, <3>3 DEF RegsBecome
    <3> QED BY <3>1, <3>4 DEF W
  <2> HIDE DEF U
  <2> QED BY <2>1, <1>1
<1> HIDE DEF I
<1>4. \A m \in 1..(n + 1) : m \in I
  BY <1>1, <1>2, <1>3, Upwards
<1>5. U(n + 1) = all
  BY <1>1 DEF IsAll
<1> HIDE DEF U
<1>6. RegsBecome(h[1], h[n + 1], c, U(n + 1)) /\ h[n + 1].sax \in X
  BY <1>1, <1>4 DEF I
<1> QED BY <1>5, <1>6

LEMMA FunctionIsSeq ==
  ASSUME NEW n \in Nat, NEW f, f = [i \in 1..n |-> f[i]]
  PROVE  IsSeq(f) /\ Len(f) = n
<1> DEFINE T == {f[i] : i \in 1..n}
<1>1. \A i \in 1..n : f[i] \in T
  OBVIOUS
<1> HIDE DEF T
<1>2. f \in [1..n -> T]
  BY <1>1
<1>3. f \in Seq(T)
  BY <1>2
<1> QED BY <1>2, <1>3 DEF IsSeq

-----------------------------------------------------------------------------
(* The elements of the registers are read into the chip that they are of.  *)
RegElements(c, chip, r) ==
  [k \in 1..Registers[chip][r].count |-> El("reg", <<r, k - 1>>, Get(Registers[chip][r], c.regs[chip][<<r, k - 1>>]))]

LEMMA RegElementsAre ==
  ASSUME NEW c, NEW chip \in AllChips, NEW r \in DOMAIN Registers[chip]
  PROVE  /\ IsSeq(RegElements(c, chip, r))
         /\ Len(RegElements(c, chip, r)) = Registers[chip][r].count
         /\ Registers[chip][r].count \in Nat
         /\ \A k \in 1..Registers[chip][r].count :
              /\ <<r, k - 1>> \in Fields(chip)
              /\ RegElements(c, chip, r)[k]
                   = El("reg", <<r, k - 1>>, Get(Registers[chip][r], c.regs[chip][<<r, k - 1>>]))
<1>1. Registers[chip][r].count \in Nat
  BY FieldsAre
<1> DEFINE n == Registers[chip][r].count
           q == RegElements(c, chip, r)
<1>2. q = [k \in 1..n |-> q[k]]
      /\ \A k \in 1..n : q[k] = El("reg", <<r, k - 1>>, Get(Registers[chip][r], c.regs[chip][<<r, k - 1>>]))
  BY DEF RegElements
<1> HIDE DEF q
<1>3. IsSeq(q) /\ Len(q) = n
  BY <1>1, <1>2, FunctionIsSeq
<1>4. ASSUME NEW k \in 1..n PROVE <<r, k - 1>> \in Fields(chip)
  <2>1. k - 1 \in 0..(n - 1)
    BY <1>1
  <2> QED BY <2>1, FieldsAre
<1> QED BY <1>1, <1>2, <1>3, <1>4 DEF q

LEMMA RegistersAre ==
  ASSUME NEW c, NEW chip \in AllChips
  PROVE  LET K == [r \in DOMAIN Registers[chip] |-> RegElements(c, chip, r)]
         IN  /\ write_registers(c, chip) = FlattenSeq(K)
             /\ Len(K) = Len(Registers[chip]) /\ Len(K) \in Nat /\ IsSeq(K)
             /\ DOMAIN Registers[chip] = 1..Len(K)
             /\ \A r \in 1..Len(K) : IsSeq(K[r]) /\ K[r] = RegElements(c, chip, r)
             /\ IsSeq(write_registers(c, chip))
<1> DEFINE n == Len(Registers[chip])
           K == [r \in DOMAIN Registers[chip] |-> RegElements(c, chip, r)]
<1>1. n \in Nat /\ DOMAIN Registers[chip] = 1..n
  BY FieldsAre
<1>2. write_registers(c, chip) = FlattenSeq(K)
  BY DEF write_registers, RegElements
<1>3. K = [r \in 1..n |-> K[r]] /\ \A r \in 1..n : K[r] = RegElements(c, chip, r)
  BY <1>1
<1> HIDE DEF K
<1>4. IsSeq(K) /\ Len(K) = n
  BY <1>1, <1>3, FunctionIsSeq
<1>5. \A r \in 1..n : IsSeq(K[r])
  BY <1>1, <1>3, RegElementsAre
<1>6. IsSeq(write_registers(c, chip))
  BY <1>1, <1>2, <1>4, <1>5, FlattenIsSeq
<1>7. /\ write_registers(c, chip) = FlattenSeq(K)
      /\ Len(K) = Len(Registers[chip]) /\ Len(K) \in Nat /\ IsSeq(K)
      /\ DOMAIN Registers[chip] = 1..Len(K)
      /\ \A r \in 1..Len(K) : IsSeq(K[r]) /\ K[r] = RegElements(c, chip, r)
      /\ IsSeq(write_registers(c, chip))
  BY <1>1, <1>2, <1>3, <1>4, <1>5, <1>6
<1> QED BY <1>7 DEF K

Cells(C) == UNION {{<<chip, f>> : f \in Fields(chip)} : chip \in C}

(* The places of one entry of the table of registers *)
CellsOf(chip, r) == {<<chip, <<r, i>>>> : i \in 0..(Registers[chip][r].count - 1)}

LEMMA OneRegisterRead ==
  ASSUME NEW G, NEW s, Live(s), NEW c, CalcOk(c), NEW chip \in AllChips, At(s, chip),
         NEW r \in DOMAIN Registers[chip], NEW t, Leads(G, s, RegElements(c, chip, r), t)
  PROVE  RegsBecome(s, t, c, CellsOf(chip, r)) /\ t.sax = s.sax
<1> DEFINE m == Registers[chip][r].count
           E == [k \in 1..m |-> {<<chip, <<r, k - 1>>>>}]
<1>1. m \in Nat /\ \A k \in 1..m : <<r, k - 1>> \in Fields(chip)
  BY RegElementsAre
<1>2. PICK g : g[1] = s /\ g[m + 1] = t /\ \A k \in 1..m : g[k + 1] = Step(G, g[k], RegElement(c, chip, <<r, k - 1>>))
  <2> DEFINE q == RegElements(c, chip, r)
  <2>1. Len(q) = m /\ \A k \in 1..m : q[k] = RegElement(c, chip, <<r, k - 1>>)
    BY RegElementsAre DEF RegElement
  <2> HIDE DEF q, m
  <2>2. PICK g : g[1] = s /\ g[m + 1] = t /\ \A k \in 1..m : g[k + 1] = Step(G, g[k], q[k])
    BY <2>1 DEF Leads, q
  <2> QED BY <2>1, <2>2
<1>3. \A x : \A f \in Fields(chip) : Live(x) /\ At(x, chip) =>
        /\ RegsBecome(x, Step(G, x, RegElement(c, chip, f)), c, {<<chip, f>>})
        /\ Step(G, x, RegElement(c, chip, f)).sax = x.sax
  BY RegStep
<1>4. ASSUME NEW k \in 1..m, Live(g[k]), g[k].sax \in {s.sax}
      PROVE  RegsBecome(g[k], g[k + 1], c, E[k]) /\ g[k + 1].sax \in {s.sax}
  <2>1. At(g[k], chip)
    BY <1>4 DEF At
  <2>2. RegsBecome(g[k], g[k + 1], c, {<<chip, <<r, k - 1>>>>}) /\ g[k + 1].sax = g[k].sax
    BY <1>1, <1>2, <1>3, <1>4, <2>1
  <2> QED BY <1>4, <2>2
<1> HIDE DEF E
<1>5. Restoring(m, g, E, {s.sax}, c)
  BY <1>4 DEF Restoring
<1>6. IsAll(CellsOf(chip, r), E, m)
  <2>1. ASSUME NEW x \in UNION {E[k] : k \in 1..m} PROVE x \in CellsOf(chip, r)
    <3>1. PICK k \in 1..m : x = <<chip, <<r, k - 1>>>>
      BY DEF E
    <3>2. k - 1 \in 0..(m - 1)
      BY <1>1
    <3> QED BY <3>1, <3>2 DEF CellsOf
  <2>2. ASSUME NEW x \in CellsOf(chip, r) PROVE x \in UNION {E[k] : k \in 1..m}
    <3>1. PICK i \in 0..(m - 1) : x = <<chip, <<r, i>>>>
      BY DEF CellsOf
    <3>2. i + 1 \in 1..m /\ (i + 1) - 1 = i
      BY <1>1
    <3>3. x \in E[i + 1]
      BY <3>1, <3>2 DEF E
    <3> QED BY <3>2, <3>3
  <2> QED BY <2>1, <2>2 DEF IsAll
<1>7. Live(g[1]) /\ g[1].sax \in {s.sax}
  BY <1>2
<1> HIDE DEF m
<1>8. RegsBecome(g[1], g[m + 1], c, CellsOf(chip, r)) /\ g[m + 1].sax \in {s.sax}
  BY <1>1, <1>5, <1>6, <1>7, RegsChain
<1> QED BY <1>2, <1>8

LEMMA RegistersRead ==
  ASSUME NEW G, NEW s, Live(s), NEW c, CalcOk(c), NEW chip \in AllChips, At(s, chip), NEW t,
         Leads(G, s, write_registers(c, chip), t)
  PROVE  RegsBecome(s, t, c, Cells({chip})) /\ t.sax = s.sax
<1> DEFINE K == [r \in DOMAIN Registers[chip] |-> RegElements(c, chip, r)]
           n == Len(K)
           F == [r \in 1..n |-> CellsOf(chip, r)]
<1>1. /\ write_registers(c, chip) = FlattenSeq(K)
      /\ n \in Nat /\ DOMAIN Registers[chip] = 1..n
      /\ \A r \in 1..n : IsSeq(K[r]) /\ K[r] = RegElements(c, chip, r)
  BY RegistersAre
<1> HIDE DEF K
<1>2. PICK h : Parts(G, s, K, t, h)
  BY <1>1, FlattenLeads
<1>3. h[1] = s /\ h[n + 1] = t /\ \A r \in 1..n : Leads(G, h[r], RegElements(c, chip, r), h[r + 1])
  BY <1>1, <1>2 DEF Parts
<1>4. \A r \in 1..n : r \in DOMAIN Registers[chip]
  BY <1>1
<1> HIDE DEF n
<1>5. ASSUME NEW r \in 1..n, Live(h[r]), h[r].sax \in {s.sax}
      PROVE  RegsBecome(h[r], h[r + 1], c, F[r]) /\ h[r + 1].sax \in {s.sax}
  <2>1. At(h[r], chip)
    BY <1>5 DEF At
  <2>2. RegsBecome(h[r], h[r + 1], c, CellsOf(chip, r)) /\ h[r + 1].sax = h[r].sax
    BY <1>3, <1>4, <1>5, <2>1, OneRegisterRead
  <2> QED BY <1>5, <2>2
<1> HIDE DEF F
<1>6. Restoring(n, h, F, {s.sax}, c)
  BY <1>5 DEF Restoring
<1>7. IsAll(Cells({chip}), F, n)
  <2>1. ASSUME NEW x \in UNION {F[r] : r \in 1..n} PROVE x \in Cells({chip})
    <3>1. PICK r \in 1..n : x \in CellsOf(chip, r)
      BY DEF F
    <3>2. PICK i \in 0..(Registers[chip][r].count - 1) : x = <<chip, <<r, i>>>>
      BY <3>1 DEF CellsOf
    <3>3. <<r, i>> \in Fields(chip)
      BY <1>4, FieldsAre
    <3> QED BY <3>2, <3>3 DEF Cells
  <2>2. ASSUME NEW x \in Cells({chip}) PROVE x \in UNION {F[r] : r \in 1..n}
    <3>1. PICK f \in Fields(chip) : x = <<chip, f>>
      BY DEF Cells
    <3>2. PICK r \in 1..n : \E i \in 0..(Registers[chip][r].count - 1) : f = <<r, i>>
      BY <1>1, FieldsAre
    <3>3. x \in F[r]
      BY <3>1, <3>2 DEF CellsOf, F
    <3> QED BY <3>3
  <2> QED BY <2>1, <2>2 DEF IsAll
<1>8. Live(h[1]) /\ h[1].sax \in {s.sax}
  BY <1>3
<1>9. RegsBecome(h[1], h[n + 1], c, Cells({chip})) /\ h[n + 1].sax \in {s.sax}
  BY <1>1, <1>6, <1>7, <1>8, RegsChain
<1> QED BY <1>3, <1>9

LEMMA RegistersSkipped ==
  ASSUME NEW G, NEW s, Live(s), NEW c, NEW chip \in AllChips, At(s, NoChip), NEW t,
         Leads(G, s, write_registers(c, chip), t)
  PROVE  t = s
<1> DEFINE K == [r \in DOMAIN Registers[chip] |-> RegElements(c, chip, r)]
           n == Len(K)
<1>1. /\ write_registers(c, chip) = FlattenSeq(K)
      /\ n \in Nat /\ DOMAIN Registers[chip] = 1..n
      /\ \A r \in 1..n : IsSeq(K[r]) /\ K[r] = RegElements(c, chip, r)
  BY RegistersAre
<1> HIDE DEF K
<1>2. PICK h : Parts(G, s, K, t, h)
  BY <1>1, FlattenLeads
<1>3. h[1] = s /\ h[n + 1] = t /\ \A r \in 1..n : Leads(G, h[r], RegElements(c, chip, r), h[r + 1])
  BY <1>1, <1>2 DEF Parts
<1>4. ASSUME NEW r \in 1..n, h[r] = s PROVE h[r + 1] = s
  <2> DEFINE m == Registers[chip][r].count
             q == RegElements(c, chip, r)
  <2>0. r \in DOMAIN Registers[chip] /\ Leads(G, h[r], q, h[r + 1])
    BY <1>1, <1>3
  <2>1. /\ Len(q) = m /\ m \in Nat
        /\ \A k \in 1..m : q[k] = El("reg", <<r, k - 1>>, Get(Registers[chip][r], c.regs[chip][<<r, k - 1>>]))
    BY <2>0, RegElementsAre
  <2> HIDE DEF q, m
  <2>2. PICK g : g[1] = h[r] /\ g[m + 1] = h[r + 1] /\ \A k \in 1..m : g[k + 1] = Step(G, g[k], q[k])
    BY <2>0, <2>1 DEF Leads
  <2>3. ASSUME NEW k \in 1..m, g[k] = s PROVE g[k + 1] = s
    <3> DEFINE f == <<r, k - 1>>
               v == Get(Registers[chip][r], c.regs[chip][<<r, k - 1>>])
    <3>1. g[k + 1] = Step(G, s, El("reg", f, v))
      BY <2>1, <2>2, <2>3
    <3> HIDE DEF f, v
    <3> QED BY <3>1, NoRegStep
  <2> DEFINE J == {k \in 1..(m + 1) : g[k] = s}
  <2>4. 1 \in Int /\ m + 1 \in Int /\ 1 <= m + 1 /\ 1 \in 1..(m + 1) /\ m + 1 \in 1..(m + 1) /\ (m + 1) - 1 = m
    BY <2>1
  <2>5. 1 \in J
    BY <2>2, <2>4, <1>4
  <2>6. \A k \in 1..((m + 1) - 1) : k \in J => k + 1 \in J
    BY <2>3, <2>4
  <2> HIDE DEF J
  <2>7. \A k \in 1..(m + 1) : k \in J
    BY <2>4, <2>5, <2>6, Upwards
  <2> QED BY <2>2, <2>4, <2>7 DEF J
<1> DEFINE J == {k \in 1..(n + 1) : h[k] = s}
<1>5. 1 \in Int /\ n + 1 \in Int /\ 1 <= n + 1 /\ 1 \in 1..(n + 1) /\ n + 1 \in 1..(n + 1) /\ (n + 1) - 1 = n
  BY <1>1
<1>6. 1 \in J
  BY <1>3, <1>5
<1>7. \A k \in 1..((n + 1) - 1) : k \in J => k + 1 \in J
  BY <1>4, <1>5
<1> HIDE DEF J
<1>8. \A k \in 1..(n + 1) : k \in J
  BY <1>5, <1>6, <1>7, Upwards
<1> QED BY <1>3, <1>5, <1>8 DEF J

-----------------------------------------------------------------------------
(* The chips: those that are there get their registers back.               *)
ChipElements(c, owned, chip) ==
  IF chip \in Present(c) /\ chip \in owned THEN <<El("chip", chip, 0)>> \o write_registers(c, chip) ELSE <<>>

LEMMA ChipsAre ==
  /\ Chips \in Seq(AllChips) /\ Len(Chips) \in Nat /\ DOMAIN Chips = 1..Len(Chips)
  /\ \A k \in 1..Len(Chips) : Chips[k] \in AllChips
  /\ \A chip \in AllChips : \E k \in 1..Len(Chips) : chip = Chips[k]
<1>1. Chips \in Seq(DOMAIN Registers)
  BY StateFileAssumption
<1>2. Len(Chips) \in Nat /\ DOMAIN Chips = 1..Len(Chips)
  BY <1>1, LenProperties
<1>3. \A k \in 1..Len(Chips) : Chips[k] \in AllChips
  BY <1>2 DEF AllChips, ToSet
<1>4. \A chip \in AllChips : \E k \in 1..Len(Chips) : chip = Chips[k]
  BY <1>2 DEF AllChips, ToSet
<1>5. Chips \in Seq(AllChips)
  <2>1. Chips \in [1..Len(Chips) -> DOMAIN Registers]
    BY <1>1, LenProperties
  <2>2. Chips \in [1..Len(Chips) -> AllChips]
    BY <2>1, <1>3
  <2> QED BY <2>2, <1>2
<1> QED BY <1>2, <1>3, <1>4, <1>5

LEMMA OneIsSeq ==
  ASSUME NEW e
  PROVE  IsSeq(<<e>>) /\ IsSeq(<<>>) /\ Len(<<>>) = 0
<1>1. <<e>> \in Seq({e})
  OBVIOUS
<1>2. <<>> \in Seq({e}) /\ Len(<<>>) = 0
  BY EmptySeq
<1> QED BY <1>1, <1>2 DEF IsSeq

LEMMA ConcatIsSeq ==
  ASSUME NEW a, NEW b, IsSeq(a), IsSeq(b)
  PROVE  IsSeq(a \o b)
BY BothAreSeqs DEF IsSeq

LEMMA WriteChipsIs ==
  ASSUME NEW c, NEW owned
  PROVE  LET K == [k \in DOMAIN Chips |-> ChipElements(c, owned, Chips[k])]
         IN  /\ write_chips(c, owned) = FlattenSeq(K)
             /\ Len(K) = Len(Chips) /\ IsSeq(K)
             /\ \A k \in 1..Len(Chips) : IsSeq(K[k]) /\ K[k] = ChipElements(c, owned, Chips[k])
             /\ IsSeq(write_chips(c, owned))
<1> DEFINE n == Len(Chips)
           K == [k \in DOMAIN Chips |-> ChipElements(c, owned, Chips[k])]
<1>1. n \in Nat /\ DOMAIN Chips = 1..n
  BY ChipsAre
<1>2. write_chips(c, owned) = FlattenSeq(K)
  BY DEF write_chips, ChipElements
<1>3. K = [k \in 1..n |-> K[k]] /\ \A k \in 1..n : K[k] = ChipElements(c, owned, Chips[k])
  BY <1>1
<1> HIDE DEF K
<1>4. IsSeq(K) /\ Len(K) = n
  BY <1>1, <1>3, FunctionIsSeq
<1>5. ASSUME NEW k \in 1..n PROVE IsSeq(K[k])
  <2> DEFINE e == El("chip", Chips[k], 0)
             r == write_registers(c, Chips[k])
  <2>1. IsSeq(r)
    BY ChipsAre, RegistersAre
  <2>2. IsSeq(<<e>>) /\ IsSeq(<<>>)
    BY OneIsSeq
  <2>3. K[k] = <<e>> \o r \/ K[k] = <<>>
    BY <1>3 DEF ChipElements
  <2> HIDE DEF e, r
  <2>4. IsSeq(<<e>> \o r)
    BY <2>1, <2>2, ConcatIsSeq
  <2> QED BY <2>2, <2>3, <2>4
<1>6. IsSeq(write_chips(c, owned))
  BY <1>1, <1>2, <1>4, <1>5, FlattenIsSeq
<1>7. /\ write_chips(c, owned) = FlattenSeq(K)
      /\ Len(K) = n /\ IsSeq(K)
      /\ \A k \in 1..n : IsSeq(K[k]) /\ K[k] = ChipElements(c, owned, Chips[k])
      /\ IsSeq(write_chips(c, owned))
  BY <1>2, <1>3, <1>4, <1>5, <1>6
<1> QED BY <1>7 DEF K

LEMMA ChipRead ==
  ASSUME NEW G, NEW s, Live(s), NEW c, CalcOk(c), NEW owned, NEW chip \in AllChips, NEW t,
         Leads(G, s, ChipElements(c, owned, chip), t)
  PROVE  RegsBecome(s, t, c, Cells({chip} \cap owned \cap Present(c) \cap Present(s.calc)))
<1> DEFINE Z == owned \cap Present(c) \cap Present(s.calc)
           D == {chip} \cap owned \cap Present(c) \cap Present(s.calc)
<1>1. CASE ~(chip \in Present(c) /\ chip \in owned)
  <2>1. ChipElements(c, owned, chip) = <<>>
    BY <1>1 DEF ChipElements
  <2>2. t = s
    BY <2>1, NothingLeads, OneIsSeq
  <2>3. Cells(D) = {}
    BY <1>1 DEF Cells
  <2> QED BY <2>2, <2>3, RegsStay
<1>2. CASE chip \in Present(c) /\ chip \in owned
  <2> DEFINE e == El("chip", chip, 0)
             r == write_registers(c, chip)
  <2>1. ChipElements(c, owned, chip) = <<e>> \o r
    BY <1>2 DEF ChipElements
  <2>2. IsSeq(<<e>>) /\ IsSeq(r)
    BY OneIsSeq, RegistersAre
  <2>3. e.el = "chip" /\ e.what = chip
    BY DEF El
  <2> HIDE DEF e, r
  <2>4. PICK u : Leads(G, s, <<e>>, u) /\ Leads(G, u, r, t)
    BY <2>1, <2>2, ConcatLeads
  <2>5. u = Step(G, s, e)
    BY <2>4, OneLeads
  <2>6. u = parse_chip(s.calc, s.sax, e)
    BY <2>3, <2>5, LiveIsNotFatal DEF Step
  <2> DEFINE x == [s.sax EXCEPT !.chip = IF chip \in Present(s.calc) THEN chip ELSE NoChip]
  <2>7. u = Goes(s.calc, x)
    BY <2>3, <2>6 DEF parse_chip
  <2>8. x \in SaxType /\ x.chip = IF chip \in Present(s.calc) THEN chip ELSE NoChip
    BY DEF Live, SaxType
  <2> HIDE DEF x
  <2>9. Live(u) /\ u.calc = s.calc /\ u.sax = x
    BY <2>7, <2>8, GoesIs DEF Live
  <2>12. At(u, IF chip \in Present(s.calc) THEN chip ELSE NoChip)
    BY <2>8, <2>9 DEF At
  <2>10. CASE chip \in Present(s.calc)
    <3>1. RegsBecome(u, t, c, Cells({chip}))
      BY <2>4, <2>9, <2>10, <2>12, RegistersRead DEF r
    <3>2. D = {chip}
      BY <1>2, <2>10
    <3> DEFINE N == Cells(D)
    <3>3. RegsBecome(u, t, c, N)
      BY <3>1, <3>2
    <3> HIDE DEF N
    <3>4. RegsBecome(s, t, c, N)
      BY <3>3, <2>9 DEF RegsBecome
    <3> QED BY <3>4 DEF N
  <2>11. CASE chip \notin Present(s.calc)
    <3>1. t = u
      BY <2>4, <2>9, <2>11, <2>12, RegistersSkipped DEF r
    <3>2. Cells(D) = {}
      BY <2>11 DEF Cells
    <3>3. RegsBecome(u, u, c, {})
      BY <2>9, RegsStay
    <3> DEFINE N == Cells(D)
    <3>4. N = {} /\ RegsBecome(u, t, c, N)
      BY <3>1, <3>2, <3>3
    <3> HIDE DEF N
    <3>5. RegsBecome(s, t, c, N)
      BY <3>4, <2>9 DEF RegsBecome
    <3> QED BY <3>5 DEF N
  <2> QED BY <2>10, <2>11
<1> QED BY <1>1, <1>2

LEMMA ChipsRead ==
  ASSUME NEW G, NEW s, Live(s), NEW c, CalcOk(c), NEW owned, NEW t,
         Leads(G, s, write_chips(c, owned), t)
  PROVE  RegsBecome(s, t, c, Cells(owned \cap Present(c) \cap Present(s.calc)))
<1> DEFINE n == Len(Chips)
           K == [k \in DOMAIN Chips |-> ChipElements(c, owned, Chips[k])]
           Z == owned \cap Present(c) \cap Present(s.calc)
           F == [k \in 1..n |-> Cells({Chips[k]} \cap Z)]
<1>1. /\ write_chips(c, owned) = FlattenSeq(K) /\ Len(K) = n
      /\ \A k \in 1..n : IsSeq(K[k]) /\ K[k] = ChipElements(c, owned, Chips[k])
  BY WriteChipsIs
<1>2. n \in Nat /\ (\A k \in 1..n : Chips[k] \in AllChips) /\ \A chip \in AllChips : \E k \in 1..n : chip = Chips[k]
  BY ChipsAre
<1>3. \A k \in 1..n : F[k] = Cells({Chips[k]} \cap Z)
  OBVIOUS
<1> HIDE DEF K, F
<1>4. PICK h : Parts(G, s, K, t, h)
  BY <1>1, <1>2, FlattenLeads
<1>5. h[1] = s /\ h[n + 1] = t /\ \A k \in 1..n : Leads(G, h[k], ChipElements(c, owned, Chips[k]), h[k + 1])
  BY <1>1, <1>4 DEF Parts
<1>6. ASSUME NEW k \in 1..n, Live(h[k]), h[k].calc.plugged = h[1].calc.plugged
      PROVE  RegsBecome(h[k], h[k + 1], c, F[k]) /\ h[k + 1].sax \in SaxType
  <2>1. RegsBecome(h[k], h[k + 1], c, Cells({Chips[k]} \cap owned \cap Present(c) \cap Present(h[k].calc)))
    BY <1>2, <1>5, <1>6, ChipRead
  <2>2. Present(h[k].calc) = Present(s.calc)
    BY <1>5, <1>6 DEF Present
  <2> DEFINE C == {Chips[k]} \cap owned \cap Present(c) \cap Present(h[k].calc)
  <2>3. C = {Chips[k]} \cap Z
    BY <2>2
  <2> HIDE DEF C, Z
  <2>4. RegsBecome(h[k], h[k + 1], c, F[k])
    BY <2>1, <2>3, <1>3 DEF C
  <2> QED BY <2>4 DEF RegsBecome, Live
<1> DEFINE U == UNION {F[k] : k \in 1..n}
<1>7. Live(h[1]) /\ h[1].sax \in SaxType
  BY <1>5 DEF Live
<1>10. Restoring(n, h, F, SaxType, c)
  BY <1>6 DEF Restoring
<1>11. IsAll(U, F, n)
  BY DEF IsAll
<1> HIDE DEF U, n
<1>8. RegsBecome(h[1], h[n + 1], c, U)
  BY <1>2, <1>7, <1>10, <1>11, RegsChain
<1>9. U = Cells(Z)
  <2>1. ASSUME NEW x \in U PROVE x \in Cells(Z)
    <3>1. PICK k \in 1..n : x \in Cells({Chips[k]} \cap Z)
      BY <1>3 DEF U
    <3> QED BY <3>1 DEF Cells
  <2>2. ASSUME NEW x \in Cells(Z) PROVE x \in U
    <3>1. PICK chip \in Z : x \in {<<chip, f>> : f \in Fields(chip)}
      BY DEF Cells
    <3>2. chip \in AllChips
      BY <3>1 DEF Present, AllChips
    <3>3. PICK k \in 1..n : chip = Chips[k]
      BY <3>2, <1>2
    <3>4. x \in Cells({Chips[k]} \cap Z)
      BY <3>1, <3>3 DEF Cells
    <3> QED BY <3>4, <1>3 DEF U
  <2> QED BY <2>1, <2>2
<1> HIDE DEF Z
<1> QED BY <1>5, <1>8, <1>9 DEF Z

-----------------------------------------------------------------------------
(* The memory: a digit past one register is the next one's, which is       *)
(* written after it.                                                       *)
LEMMA WriteRam ==
  ASSUME NEW ram \in [Locations -> Digits(REGISTER_DIGITS)], NEW a \in Locations, NEW d \in Digits(REGISTER_DIGITS)
  PROVE  LET new == write_ram(ram, a, get_digits(d, REGISTER_DIGITS))
         IN  /\ new \in [Locations -> Digits(REGISTER_DIGITS)]
             /\ new[a] = d
             /\ \A b \in Locations : b # a /\ b # a + 1 => new[b] = ram[b]
<1> DEFINE n == REGISTER_DIGITS
           v == get_digits(d, n)
           x == Shifts(v, n, HEX)[n] % HEX
           new == write_ram(ram, a, v)
<1>1. n \in Nat /\ 0 \in 0..(n - 1)
  BY StateFileAssumption
<1>2. v \in Nat /\ set_digits(v, n) = d
  BY <1>1, DigitsReturn
<1>3. x \in 0..(HEX - 1)
  BY <1>1, <1>2, DigitsAreDigits
<1>4. new = [b \in Locations |-> IF b = a THEN d ELSE IF b = a + 1 THEN [ram[b] EXCEPT ![0] = x] ELSE ram[b]]
  BY <1>2 DEF write_ram
<1> HIDE DEF v, x, new
<1>5. \A b \in Locations : [ram[b] EXCEPT ![0] = x] \in Digits(n)
  <2>1. ASSUME NEW b \in Locations PROVE [ram[b] EXCEPT ![0] = x] \in Digits(n)
    <3>1. ram[b] \in [0..(n - 1) -> 0..(HEX - 1)]
      BY DEF Digits
    <3> QED BY <1>1, <1>3, <3>1 DEF Digits
  <2> QED BY <2>1
<1>6. new \in [Locations -> Digits(n)]
  BY <1>4, <1>5
<1>7. new[a] = d /\ \A b \in Locations : b # a /\ b # a + 1 => new[b] = ram[b]
  BY <1>4
<1> QED BY <1>6, <1>7 DEF new, v

LEMMA AddressesAre ==
  /\ Len(RamAddresses) \in Nat /\ DOMAIN RamAddresses = 1..Len(RamAddresses)
  /\ \A k \in 1..Len(RamAddresses) : RamAddresses[k] \in Locations /\ RamAddresses[k] \in Nat
  /\ \A a \in Locations : \E k \in 1..Len(RamAddresses) : a = RamAddresses[k]
  /\ \A i, k \in 1..Len(RamAddresses) : i < k => RamAddresses[i] < RamAddresses[k]
<1>1. RamAddresses \in Seq(Nat)
  BY StateFileAssumption
<1>2. Len(RamAddresses) \in Nat /\ DOMAIN RamAddresses = 1..Len(RamAddresses)
  BY <1>1, LenProperties
<1>3. \A k \in 1..Len(RamAddresses) : RamAddresses[k] \in Nat
  BY <1>1, ElementOfSeq
<1> QED BY <1>2, <1>3, StateFileAssumption DEF Locations, ToSet

RamSame(s, t) ==
  t.calc.plugged = s.calc.plugged /\ t.calc.regs = s.calc.regs /\ t.calc.words = s.calc.words
  /\ t.calc.protect = s.calc.protect

RamSoFar(s, t, c, j) ==
  /\ Live(t) /\ t.sax.mem_rom = FALSE /\ RamSame(s, t)
  /\ \A i \in 1..j : t.calc.ram[RamAddresses[i]] = c.ram[RamAddresses[i]]

LocElement(c, k) == El("loc", RamAddresses[k], get_digits(c.ram[RamAddresses[k]], REGISTER_DIGITS))

LEMMA LocStep ==
  ASSUME NEW G, NEW s, NEW c, CalcOk(c), NEW k \in 1..Len(RamAddresses), NEW x, RamSoFar(s, x, c, k - 1)
  PROVE  RamSoFar(s, Step(G, x, LocElement(c, k)), c, k)
<1> DEFINE a == RamAddresses[k]
           d == c.ram[a]
           e == LocElement(c, k)
           ram == write_ram(x.calc.ram, a, get_digits(d, REGISTER_DIGITS))
           new == [x.calc EXCEPT !.ram = ram]
           t == Step(G, x, e)
<1>1. k \in Nat /\ a \in Locations /\ a \in Nat
  BY AddressesAre
<1>2. Live(x) /\ x.sax.mem_rom = FALSE /\ x.calc \in CalcType /\ RamSame(s, x)
  BY DEF RamSoFar, Live, CalcOk
<1>3. x.calc.ram \in [Locations -> Digits(REGISTER_DIGITS)] /\ d \in Digits(REGISTER_DIGITS)
  <2>1. c.ram \in [Locations -> Digits(REGISTER_DIGITS)]
    BY CalcParts
  <2> QED BY <1>1, <1>2, <2>1 DEF CalcType
<1>4. /\ ram \in [Locations -> Digits(REGISTER_DIGITS)]
      /\ ram[a] = d
      /\ \A b \in Locations : b # a /\ b # a + 1 => ram[b] = x.calc.ram[b]
  BY <1>1, <1>3, WriteRam
<1>5. e.el = "loc" /\ e.what = a /\ e.data = get_digits(d, REGISTER_DIGITS)
  BY DEF LocElement, El
<1>6. x # FatalEnd
  BY <1>2, LiveIsNotFatal
<1> HIDE DEF e
<1>7. t = parse_loc(x.calc, x.sax, e)
  BY <1>5, <1>6 DEF Step
<1>8. parse_loc(x.calc, x.sax, e) = Goes(new, x.sax)
  BY <1>2, <1>5 DEF parse_loc
<1> HIDE DEF t, a, d, ram
<1>9. /\ new.plugged = x.calc.plugged /\ new.regs = x.calc.regs /\ new.ram = ram
      /\ new.words = x.calc.words /\ new.protect = x.calc.protect /\ new \in CalcType
  BY <1>2, <1>4 DEF CalcType
<1> HIDE DEF new
<1>10. CalcOk(new)
  BY <1>2, <1>9 DEF Live, CalcOk
<1>11. t.calc = new /\ t.sax = x.sax /\ t = Goes(t.calc, t.sax)
  BY <1>7, <1>8, GoesIs
<1>12. Live(t)
  BY <1>2, <1>10, <1>11 DEF Live
<1>13. ASSUME NEW i \in 1..k PROVE t.calc.ram[RamAddresses[i]] = c.ram[RamAddresses[i]]
  <2>1. CASE i = k
    BY <2>1, <1>4, <1>9, <1>11 DEF a, d
  <2>2. CASE i # k
    <3>1. i \in 1..Len(RamAddresses) /\ i < k /\ i \in 1..(k - 1)
      BY <2>2
    <3>2. RamAddresses[i] \in Locations /\ RamAddresses[i] \in Nat /\ RamAddresses[i] < a
      BY <3>1, AddressesAre DEF a
    <3>3. RamAddresses[i] # a /\ RamAddresses[i] # a + 1
      BY <3>2, <1>1
    <3>4. ram[RamAddresses[i]] = x.calc.ram[RamAddresses[i]]
      BY <3>2, <3>3, <1>4
    <3> QED BY <3>1, <3>4, <1>9, <1>11 DEF RamSoFar
  <2> QED BY <2>1, <2>2
<1>14. RamSame(s, t)
  BY <1>2, <1>9, <1>11 DEF RamSame
<1>15. RamSoFar(s, t, c, k)
  BY <1>2, <1>11, <1>12, <1>13, <1>14 DEF RamSoFar
<1> QED BY <1>15 DEF t, e

LEMMA WriteRamIs ==
  ASSUME NEW c
  PROVE  LET L == [k \in 1..Len(RamAddresses) |-> LocElement(c, k)]
         IN  /\ write_ram_elements(c) = <<El("memory", "ram", 0)>> \o L
             /\ IsSeq(L) /\ Len(L) = Len(RamAddresses)
             /\ \A k \in 1..Len(RamAddresses) : L[k] = LocElement(c, k)
             /\ IsSeq(write_ram_elements(c))
<1> DEFINE n == Len(RamAddresses)
           L == [k \in 1..n |-> LocElement(c, k)]
           e == El("memory", "ram", 0)
<1>1. write_ram_elements(c) = <<e>> \o L
  BY DEF write_ram_elements, LocElement
<1>2. L = [k \in 1..n |-> L[k]] /\ \A k \in 1..n : L[k] = LocElement(c, k)
  OBVIOUS
<1>3. n \in Nat
  BY AddressesAre
<1> HIDE DEF L, e
<1>4. IsSeq(L) /\ Len(L) = n
  BY <1>2, <1>3, FunctionIsSeq
<1>5. IsSeq(<<e>> \o L)
  BY <1>4, OneIsSeq, ConcatIsSeq
<1>6. write_ram_elements(c) = <<e>> \o L /\ IsSeq(L) /\ Len(L) = n
      /\ (\A k \in 1..n : L[k] = LocElement(c, k)) /\ IsSeq(write_ram_elements(c))
  BY <1>1, <1>2, <1>4, <1>5
<1> QED BY <1>6 DEF L, e

LEMMA RamRead ==
  ASSUME NEW G, NEW s, Live(s), NEW c, CalcOk(c), NEW t, Leads(G, s, write_ram_elements(c), t)
  PROVE  Live(t) /\ RamSame(s, t) /\ t.calc.ram = c.ram
<1> DEFINE n == Len(RamAddresses)
           L == [k \in 1..n |-> LocElement(c, k)]
           e == El("memory", "ram", 0)
<1>1. write_ram_elements(c) = <<e>> \o L /\ IsSeq(L) /\ Len(L) = n /\ \A k \in 1..n : L[k] = LocElement(c, k)
  BY WriteRamIs
<1>2. IsSeq(<<e>>)
  BY OneIsSeq
<1>3. e.el = "memory" /\ e.what = "ram"
  BY DEF El
<1> HIDE DEF L, e
<1>4. PICK u : Leads(G, s, <<e>>, u) /\ Leads(G, u, L, t)
  BY <1>1, <1>2, ConcatLeads
<1>5. u = Step(G, s, e)
  BY <1>4, OneLeads
<1>6. u = parse_memory(s.calc, s.sax, e)
  BY <1>3, <1>5, LiveIsNotFatal DEF Step
<1> DEFINE x == [s.sax EXCEPT !.mem_rom = FALSE]
<1>7. u = Goes(s.calc, x)
  BY <1>3, <1>6 DEF parse_memory
<1>8. x \in SaxType /\ x.mem_rom = FALSE
  BY DEF Live, SaxType
<1> HIDE DEF x
<1>9. u.calc = s.calc /\ u.sax = x /\ Live(u)
  BY <1>7, <1>8, GoesIs DEF Live
<1>10. PICK g : g[1] = u /\ g[n + 1] = t /\ \A k \in 1..n : g[k + 1] = Step(G, g[k], LocElement(c, k))
  <2>1. PICK g : g[1] = u /\ g[n + 1] = t /\ \A k \in 1..n : g[k + 1] = Step(G, g[k], L[k])
    BY <1>1, <1>4 DEF Leads
  <2> QED BY <2>1, <1>1
<1>11. n \in Nat
  BY AddressesAre
<1> HIDE DEF n
<1> DEFINE I == {k \in 1..(n + 1) : RamSoFar(s, g[k], c, k - 1)}
<1>12. 1 \in Int /\ n + 1 \in Int /\ 1 <= n + 1 /\ 1 \in 1..(n + 1) /\ n + 1 \in 1..(n + 1) /\ (n + 1) - 1 = n
  BY <1>11
<1>13. 1 \in I
  <2>1. RamSoFar(s, u, c, 1 - 1)
    BY <1>8, <1>9 DEF RamSoFar, RamSame
  <2> QED BY <2>1, <1>10, <1>12
<1>14. \A k \in 1..((n + 1) - 1) : k \in I => k + 1 \in I
  <2>1. ASSUME NEW k \in 1..n, RamSoFar(s, g[k], c, k - 1) PROVE RamSoFar(s, g[k + 1], c, k)
    <3>1. RamSoFar(s, Step(G, g[k], LocElement(c, k)), c, k)
      BY <2>1, LocStep DEF n
    <3> QED BY <3>1, <1>10
  <2>2. \A k \in 1..n : k + 1 \in 1..(n + 1) /\ (k + 1) - 1 = k
    BY <1>11
  <2> QED BY <2>1, <2>2, <1>12
<1> HIDE DEF I
<1>15. \A k \in 1..(n + 1) : k \in I
  BY <1>12, <1>13, <1>14, Upwards
<1>16. RamSoFar(s, t, c, n)
  BY <1>10, <1>12, <1>15 DEF I
<1>17. \A a \in Locations : t.calc.ram[a] = c.ram[a]
  BY <1>16, AddressesAre DEF RamSoFar, n
<1>18. t.calc.ram = c.ram
  <2>1. t.calc.ram \in [Locations -> Digits(REGISTER_DIGITS)] /\ c.ram \in [Locations -> Digits(REGISTER_DIGITS)]
    BY <1>16, CalcParts DEF RamSoFar, Live
  <2> QED BY <2>1, <1>17
<1> QED BY <1>16, <1>18 DEF RamSoFar

-----------------------------------------------------------------------------
(* The pages of a module                                                   *)
RomBecomes(s, t, c, m) ==
  /\ t.calc.plugged = s.calc.plugged /\ t.calc.regs = s.calc.regs /\ t.calc.ram = s.calc.ram
  /\ m \in HasRam => m \in s.calc.plugged
  /\ \A k \in Modules : /\ t.calc.words[k] = IF k = m /\ m \in HasRam THEN c.words[k] ELSE s.calc.words[k]
                        /\ t.calc.protect[k] = IF k = m /\ m \in HasRam THEN c.protect[k] ELSE s.calc.protect[k]

LEMMA WriteRomIsSeq ==
  ASSUME NEW c, NEW m
  PROVE  IsSeq(write_rom(c, m))
<1> DEFINE a == El("memory", m, c.protect[m])
           b == El("loc", m, c.words[m])
<1>1. write_rom(c, m) = <<a, b>> \/ write_rom(c, m) = <<>>
  BY DEF write_rom
<1> HIDE DEF a, b
<1>2. <<a, b>> \in Seq({a, b})
  OBVIOUS
<1> QED BY <1>1, <1>2, OneIsSeq DEF IsSeq

LEMMA RomRead ==
  ASSUME NEW G, NEW s, Live(s), NEW c, CalcOk(c), NEW m \in Modules, NEW t,
         Leads(G, s, write_rom(c, m), t), t # FatalEnd
  PROVE  Live(t) /\ RomBecomes(s, t, c, m)
<1>1. CASE m \notin HasRam
  <2>1. write_rom(c, m) = <<>> /\ Len(<<>>) = 0
    BY <1>1, OneIsSeq DEF write_rom
  <2>2. t = s
    BY <2>1, NothingLeads
  <2> QED BY <2>2, <1>1 DEF RomBecomes
<1>2. CASE m \in HasRam
  <2> DEFINE a == El("memory", m, c.protect[m])
             b == El("loc", m, c.words[m])
  <2>1. write_rom(c, m) = <<a>> \o <<b>> /\ IsSeq(<<a>>) /\ IsSeq(<<b>>)
    BY <1>2, OneIsSeq DEF write_rom
  <2>2. a.el = "memory" /\ a.what = m /\ a.data = c.protect[m] /\ b.el = "loc" /\ b.what = m /\ b.data = c.words[m]
    BY DEF El
  <2>3. m # "ram"
    BY StateFileAssumption
  <2>4. c.protect \in [Modules -> Nat] /\ c.words \in [Modules -> Nat]
    BY CalcParts
  <2> HIDE DEF a, b
  <2>5. PICK u : Leads(G, s, <<a>>, u) /\ Leads(G, u, <<b>>, t)
    BY <2>1, ConcatLeads
  <2>6. u = Step(G, s, a) /\ t = Step(G, u, b)
    BY <2>5, OneLeads
  <2>7. u # FatalEnd
    BY <2>6 DEF Step
  <2>8. u = parse_memory(s.calc, s.sax, a)
    BY <2>2, <2>6, LiveIsNotFatal DEF Step
  <2>9. m \in s.calc.plugged
    BY <2>2, <2>3, <2>7, <2>8 DEF parse_memory
  <2> DEFINE c1 == [s.calc EXCEPT !.protect[m] = c.protect[m]]
             x == [s.sax EXCEPT !.mem_rom = TRUE]
             c2 == [c1 EXCEPT !.words[m] = c.words[m]]
  <2>10. u = Goes(c1, x)
    BY <2>2, <2>3, <2>8, <2>9 DEF parse_memory
  <2>11. s.calc \in CalcType /\ (\A chip \in AllChips : s.calc.regs[chip] \in FileOf(chip)) /\ s.sax \in SaxType
    BY DEF Live, CalcOk
  <2>12. x \in SaxType /\ x.mem_rom = TRUE
    BY <2>11 DEF SaxType
  <2>13. /\ c1 \in CalcType /\ c1.plugged = s.calc.plugged /\ c1.regs = s.calc.regs /\ c1.ram = s.calc.ram
         /\ c1.words = s.calc.words /\ c1.protect = [s.calc.protect EXCEPT ![m] = c.protect[m]]
    BY <2>4, <2>11 DEF CalcType
  <2> HIDE DEF c1
  <2>14. /\ c2 \in CalcType /\ c2.plugged = c1.plugged /\ c2.regs = c1.regs /\ c2.ram = c1.ram
         /\ c2.protect = c1.protect /\ c2.words = [c1.words EXCEPT ![m] = c.words[m]]
    BY <2>4, <2>13 DEF CalcType
  <2> HIDE DEF c2, x
  <2>15. u.calc = c1 /\ u.sax = x
    BY <2>10, GoesIs
  <2>16. t = parse_loc(c1, x, b)
    BY <2>2, <2>6, <2>7, <2>15 DEF Step
  <2>17. t = Goes(c2, x)
    BY <2>2, <2>12, <2>16 DEF parse_loc, c2
  <2>18. t.calc = c2 /\ t.sax = x /\ t = Goes(t.calc, t.sax)
    BY <2>17, GoesIs
  <2>19. CalcOk(c2)
    BY <2>11, <2>13, <2>14 DEF CalcOk
  <2>20. Live(t)
    BY <2>12, <2>18, <2>19 DEF Live
  <2>21. s.calc.words \in [Modules -> Nat] /\ s.calc.protect \in [Modules -> Nat]
    BY <2>11 DEF CalcType
  <2>22. ASSUME NEW k \in Modules
         PROVE  /\ t.calc.words[k] = IF k = m THEN c.words[k] ELSE s.calc.words[k]
                /\ t.calc.protect[k] = IF k = m THEN c.protect[k] ELSE s.calc.protect[k]
    BY <2>13, <2>14, <2>18, <2>21
  <2> QED BY <1>2, <2>9, <2>13, <2>14, <2>18, <2>20, <2>22 DEF RomBecomes
<1> QED BY <1>1, <1>2

-----------------------------------------------------------------------------
(* One module of the file *)
ModuleBecomes(G, s, t, c, m) ==
  /\ Live(t) /\ t.calc.ram = s.calc.ram
  /\ s.calc.plugged \subseteq t.calc.plugged /\ t.calc.plugged \subseteq s.calc.plugged \cup {m}
  /\ m \in t.calc.plugged \/ (m \in G /\ m \notin HasRam)
  /\ \A chip \in AllChips : \A f \in Fields(chip) :
       t.calc.regs[chip][f] = IF chip = ChipOf[m] /\ chip \in Present(c) /\ chip \in Present(t.calc)
                              THEN c.regs[chip][f] ELSE s.calc.regs[chip][f]
  /\ \A k \in Modules : /\ t.calc.words[k] = IF k = m /\ m \in HasRam THEN c.words[k] ELSE s.calc.words[k]
                        /\ t.calc.protect[k] = IF k = m /\ m \in HasRam THEN c.protect[k] ELSE s.calc.protect[k]

LEMMA WriteModuleIs ==
  ASSUME NEW c, NEW m
  PROVE  /\ IsSeq(<<El("module", m, 0)>>) /\ IsSeq(write_chips(c, {ChipOf[m]})) /\ IsSeq(write_rom(c, m))
         /\ IsSeq(<<El("module", m, 0)>> \o write_chips(c, {ChipOf[m]}))
         /\ IsSeq(write_module(c, m))
<1> DEFINE e == El("module", m, 0)
           W == write_chips(c, {ChipOf[m]})
           R == write_rom(c, m)
<1>1. IsSeq(<<e>>) /\ IsSeq(W) /\ IsSeq(R)
  BY OneIsSeq, WriteChipsIs, WriteRomIsSeq
<1>2. write_module(c, m) = <<e>> \o W \o R
  BY DEF write_module
<1> HIDE DEF e, W, R
<1>3. IsSeq(<<e>> \o W)
  BY <1>1, ConcatIsSeq
<1>4. IsSeq(<<e>> \o W \o R)
  BY <1>1, <1>3, ConcatIsSeq
<1> QED BY <1>1, <1>2, <1>3, <1>4 DEF e, W, R

Installed(G, s, u, m) ==
  /\ Live(u) /\ u.calc.ram = s.calc.ram /\ u.calc.regs = s.calc.regs
  /\ u.calc.words = s.calc.words /\ u.calc.protect = s.calc.protect
  /\ s.calc.plugged \subseteq u.calc.plugged /\ u.calc.plugged \subseteq s.calc.plugged \cup {m}
  /\ m \in u.calc.plugged \/ m \in G

LEMMA ModuleStep ==
  ASSUME NEW G, NEW s, Live(s), NEW m \in Modules
  PROVE  Installed(G, s, Step(G, s, El("module", m, 0)), m)
<1> DEFINE e == El("module", m, 0)
           u == Step(G, s, e)
           new == [s.calc EXCEPT !.plugged = @ \cup {m}]
<1>1. e.el = "module" /\ e.what = m
  BY DEF El
<1> HIDE DEF e
<1>2. u = Goes(IF m \in G \cup s.calc.plugged THEN s.calc ELSE new, s.sax)
  BY <1>1, LiveIsNotFatal DEF Step
<1> HIDE DEF u
<1>3. s.calc \in CalcType /\ (\A chip \in AllChips : s.calc.regs[chip] \in FileOf(chip)) /\ s.sax \in SaxType
  BY DEF Live, CalcOk
<1>4. CASE m \in G \cup s.calc.plugged
  <2>1. u = s
    BY <1>2, <1>4 DEF Live
  <2>2. Installed(G, s, u, m)
    BY <2>1, <1>4 DEF Installed
  <2> QED BY <2>2 DEF u, e
<1>5. CASE m \notin G \cup s.calc.plugged
  <2>1. new \in CalcType /\ new.plugged = s.calc.plugged \cup {m} /\ new.regs = s.calc.regs
        /\ new.ram = s.calc.ram /\ new.words = s.calc.words /\ new.protect = s.calc.protect
    BY <1>3 DEF CalcType
  <2> HIDE DEF new
  <2>2. u = Goes(new, s.sax)
    BY <1>2, <1>5
  <2>3. u.calc = new /\ u.sax = s.sax /\ u = Goes(u.calc, u.sax)
    BY <2>2, GoesIs
  <2>4. CalcOk(new)
    BY <1>3, <2>1 DEF CalcOk
  <2>5. Installed(G, s, u, m)
    BY <2>1, <2>3, <2>4, <1>3 DEF Live, Installed
  <2> QED BY <2>5 DEF u, e
<1> QED BY <1>4, <1>5

LEMMA ModuleRead ==
  ASSUME NEW G, NEW s, Live(s), NEW c, CalcOk(c), NEW m \in Modules, NEW t,
         Leads(G, s, write_module(c, m), t), t # FatalEnd
  PROVE  ModuleBecomes(G, s, t, c, m)
<1> DEFINE e == El("module", m, 0)
           W == write_chips(c, {ChipOf[m]})
           R == write_rom(c, m)
<1>1. IsSeq(<<e>>) /\ IsSeq(W) /\ IsSeq(R) /\ IsSeq(<<e>> \o W)
  BY WriteModuleIs
<1>2. Leads(G, s, (<<e>> \o W) \o R, t)
  BY DEF write_module
<1> HIDE DEF e, W, R
<1>3. PICK v : Leads(G, s, <<e>> \o W, v) /\ Leads(G, v, R, t)
  BY <1>1, <1>2, ConcatLeads
<1>4. PICK u : Leads(G, s, <<e>>, u) /\ Leads(G, u, W, v)
  BY <1>1, <1>3, ConcatLeads
<1>5. Installed(G, s, u, m)
  <2>1. u = Step(G, s, e)
    BY <1>4, OneLeads
  <2>2. Installed(G, s, Step(G, s, e), m)
    BY ModuleStep DEF e
  <2> QED BY <2>1, <2>2
<1>6. /\ Live(u) /\ u.calc.ram = s.calc.ram /\ u.calc.regs = s.calc.regs
      /\ u.calc.words = s.calc.words /\ u.calc.protect = s.calc.protect
      /\ s.calc.plugged \subseteq u.calc.plugged /\ u.calc.plugged \subseteq s.calc.plugged \cup {m}
      /\ m \in u.calc.plugged \/ m \in G
  BY <1>5 DEF Installed
<1> DEFINE Z == {ChipOf[m]} \cap Present(c) \cap Present(u.calc)
<1>7. RegsBecome(u, v, c, Cells(Z))
  BY <1>4, <1>6, ChipsRead DEF W
<1>8. Live(v)
  BY <1>7 DEF RegsBecome
<1>9. Live(t) /\ RomBecomes(v, t, c, m)
  BY <1>3, <1>8, RomRead DEF R
<1> HIDE DEF Z
<1>10. t.calc.plugged = u.calc.plugged /\ t.calc.ram = s.calc.ram
  BY <1>6, <1>7, <1>9 DEF RegsBecome, RomBecomes
<1>11. m \in t.calc.plugged \/ (m \in G /\ m \notin HasRam)
  BY <1>6, <1>9, <1>10 DEF RomBecomes
<1>12. ASSUME NEW chip \in AllChips, NEW f \in Fields(chip)
       PROVE  t.calc.regs[chip][f] = IF chip = ChipOf[m] /\ chip \in Present(c) /\ chip \in Present(t.calc)
                                     THEN c.regs[chip][f] ELSE s.calc.regs[chip][f]
  <2>1. Present(t.calc) = Present(u.calc)
    BY <1>10 DEF Present
  <2>2. <<chip, f>> \in Cells(Z) <=> chip \in Z
    BY DEF Cells
  <2>3. t.calc.regs[chip][f] = v.calc.regs[chip][f]
    BY <1>9 DEF RomBecomes
  <2>4. v.calc.regs[chip][f] = IF <<chip, f>> \in Cells(Z) THEN c.regs[chip][f] ELSE u.calc.regs[chip][f]
    BY <1>7 DEF RegsBecome
  <2>5. chip \in Z <=> chip = ChipOf[m] /\ chip \in Present(c) /\ chip \in Present(t.calc)
    BY <2>1 DEF Z
  <2>6. u.calc.regs[chip][f] = s.calc.regs[chip][f]
    BY <1>6
  <2> QED BY <2>2, <2>3, <2>4, <2>5, <2>6
<1>13. \A k \in Modules :
         /\ t.calc.words[k] = IF k = m /\ m \in HasRam THEN c.words[k] ELSE s.calc.words[k]
         /\ t.calc.protect[k] = IF k = m /\ m \in HasRam THEN c.protect[k] ELSE s.calc.protect[k]
  BY <1>6, <1>7, <1>9 DEF RegsBecome, RomBecomes
<1> QED BY <1>6, <1>9, <1>10, <1>11, <1>12, <1>13 DEF ModuleBecomes

-----------------------------------------------------------------------------
(* All modules of the file *)
LEMMA ListOfAll ==
  ASSUME NEW K, IsFiniteSet(K)
  PROVE  /\ Len(SetToSeq(K)) \in Nat
         /\ \A k \in 1..Len(SetToSeq(K)) : SetToSeq(K)[k] \in K
         /\ \A x \in K : \E k \in 1..Len(SetToSeq(K)) : SetToSeq(K)[k] = x
<1> DEFINE n == Cardinality(K)
           f == SetToSeq(K)
<1>1. n \in Nat /\ ExistsBijection(1..n, K)
  BY FS_CardinalityType
<1>2. \E g : g \in [1..n -> K] /\ IsInjective(g)
  BY <1>1 DEF ExistsBijection, Bijection, Injection
<1>3. f \in [1..n -> K] /\ IsInjective(f)
  BY <1>2 DEF SetToSeq
<1> HIDE DEF f
<1>4. f \in Injection(1..n, K)
  BY <1>3 DEF Injection
<1>5. Cardinality(1..n) = n
  <2>1. 1 \in Int /\ n \in Int
    BY <1>1
  <2>2. Cardinality(1..n) = IF 1 > n THEN 0 ELSE n - 1 + 1
    BY <2>1, FS_Interval
  <2> QED BY <1>1, <2>2
<1> HIDE DEF n
<1>6. f \in Surjection(1..n, K)
  BY <1>4, <1>5, FS_Injection DEF n
<1>7. Len(f) = n
  BY <1>1, <1>3
<1>8. \A x \in K : \E k \in 1..n : f[k] = x
  BY <1>6 DEF Surjection
<1> QED BY <1>1, <1>3, <1>7, <1>8 DEF f

(* The chips of the modules before k: those that all their modules are of. *)
Due(chip, list, k) == \A m \in Modules : ChipOf[m] = chip => \E i \in 1..k : list[i] = m

ModulesSoFar(G, s, t, c, list, k) ==
  /\ Live(t) /\ t.calc.ram = s.calc.ram
  /\ \A i \in 1..k : list[i] \in t.calc.plugged \/ (list[i] \in G /\ list[i] \notin HasRam)
  /\ \A chip \in AllChips : chip \in Present(c) /\ chip \in Present(t.calc) /\ Due(chip, list, k) =>
       \A f \in Fields(chip) : t.calc.regs[chip][f] = c.regs[chip][f]
  /\ \A i \in 1..k : list[i] \in HasRam =>
       t.calc.words[list[i]] = c.words[list[i]] /\ t.calc.protect[list[i]] = c.protect[list[i]]

LEMMA OneModule ==
  ASSUME NEW G, NEW s, NEW c, NEW list, NEW k \in Nat \ {0}, \A i \in 1..k : list[i] \in Modules,
         NEW x, NEW t, ModulesSoFar(G, s, x, c, list, k - 1), ModuleBecomes(G, x, t, c, list[k])
  PROVE  ModulesSoFar(G, s, t, c, list, k)
<1>1. k \in 1..k /\ list[k] \in Modules
  OBVIOUS
<1>2. \A i \in 1..k : i = k \/ i \in 1..(k - 1)
  OBVIOUS
<1> DEFINE m == list[k]
<1>3. /\ Live(t) /\ t.calc.ram = x.calc.ram
      /\ x.calc.plugged \subseteq t.calc.plugged /\ t.calc.plugged \subseteq x.calc.plugged \cup {m}
      /\ m \in t.calc.plugged \/ (m \in G /\ m \notin HasRam)
  BY DEF ModuleBecomes
<1>4. \A i \in 1..k : list[i] \in t.calc.plugged \/ (list[i] \in G /\ list[i] \notin HasRam)
  BY <1>2, <1>3 DEF ModulesSoFar
<1>5. ASSUME NEW chip \in AllChips, chip \in Present(c), chip \in Present(t.calc), Due(chip, list, k),
             NEW f \in Fields(chip)
      PROVE  t.calc.regs[chip][f] = c.regs[chip][f]
  <2>1. CASE chip = ChipOf[m]
    BY <2>1, <1>5 DEF ModuleBecomes
  <2>2. CASE chip # ChipOf[m]
    <3>1. t.calc.regs[chip][f] = x.calc.regs[chip][f]
      BY <2>2 DEF ModuleBecomes
    <3>2. Due(chip, list, k - 1)
      <4>1. ASSUME NEW j \in Modules, ChipOf[j] = chip PROVE \E i \in 1..(k - 1) : list[i] = j
        <5>1. PICK i \in 1..k : list[i] = j
          BY <1>5, <4>1 DEF Due
        <5>2. i # k
          BY <5>1, <4>1, <2>2
        <5> QED BY <5>1, <5>2, <1>2
      <4> QED BY <4>1 DEF Due
    <3>3. chip \in Present(x.calc)
      <4>1. \A j \in Modules : ChipOf[j] = chip => j \in t.calc.plugged
        BY <1>5 DEF Present
      <4>2. \A j \in Modules : ChipOf[j] = chip => j \in x.calc.plugged
        BY <4>1, <1>3, <2>2
      <4> QED BY <4>2 DEF Present, AllChips
    <3> QED BY <3>1, <3>2, <3>3, <1>5 DEF ModulesSoFar
  <2> QED BY <2>1, <2>2
<1>6. ASSUME NEW i \in 1..k, list[i] \in HasRam
      PROVE  t.calc.words[list[i]] = c.words[list[i]] /\ t.calc.protect[list[i]] = c.protect[list[i]]
  <2>1. CASE list[i] = m
    BY <1>1, <1>6, <2>1 DEF ModuleBecomes
  <2>2. CASE list[i] # m
    <3>1. i \in 1..(k - 1)
      BY <1>2, <2>2
    <3>2. t.calc.words[list[i]] = x.calc.words[list[i]] /\ t.calc.protect[list[i]] = x.calc.protect[list[i]]
      BY <2>2 DEF ModuleBecomes
    <3> QED BY <3>1, <3>2, <1>6 DEF ModulesSoFar
  <2> QED BY <2>1, <2>2
<1>7. t.calc.ram = s.calc.ram
  BY <1>3 DEF ModulesSoFar
<1>8. \A chip \in AllChips : chip \in Present(c) /\ chip \in Present(t.calc) /\ Due(chip, list, k) =>
        \A f \in Fields(chip) : t.calc.regs[chip][f] = c.regs[chip][f]
  BY <1>5
<1> QED BY <1>3, <1>4, <1>6, <1>7, <1>8 DEF ModulesSoFar

LEMMA WriteModulesIs ==
  ASSUME NEW c, CalcOk(c)
  PROVE  LET list == SetToSeq(c.plugged)
             K == [k \in 1..Len(list) |-> write_module(c, list[k])]
         IN  /\ write_modules(c) = FlattenSeq(K)
             /\ Len(list) \in Nat /\ Len(K) = Len(list)
             /\ \A k \in 1..Len(list) : /\ IsSeq(K[k]) /\ K[k] = write_module(c, list[k])
                                        /\ list[k] \in c.plugged /\ list[k] \in Modules
             /\ \A m \in c.plugged : \E k \in 1..Len(list) : list[k] = m
             /\ IsSeq(write_modules(c))
<1> DEFINE list == SetToSeq(c.plugged)
           n == Len(list)
           K == [k \in 1..n |-> write_module(c, list[k])]
<1>1. c.plugged \subseteq Modules
  BY CalcParts
<1>2. IsFiniteSet(c.plugged)
  BY <1>1, StateFileAssumption, FS_Subset
<1>3. n \in Nat /\ (\A k \in 1..n : list[k] \in c.plugged) /\ \A m \in c.plugged : \E k \in 1..n : list[k] = m
  BY <1>2, ListOfAll
<1>4. write_modules(c) = FlattenSeq(K)
  BY DEF write_modules
<1>5. K = [k \in 1..n |-> K[k]] /\ \A k \in 1..n : K[k] = write_module(c, list[k])
  OBVIOUS
<1> HIDE DEF K, list
<1>6. IsSeq(K) /\ Len(K) = n
  BY <1>3, <1>5, FunctionIsSeq
<1>7. \A k \in 1..n : IsSeq(K[k])
  BY <1>5, WriteModuleIs
<1>8. IsSeq(write_modules(c))
  BY <1>3, <1>4, <1>6, <1>7, FlattenIsSeq
<1>9. /\ write_modules(c) = FlattenSeq(K)
      /\ n \in Nat /\ Len(K) = n
      /\ \A k \in 1..n : IsSeq(K[k]) /\ K[k] = write_module(c, list[k]) /\ list[k] \in c.plugged /\ list[k] \in Modules
      /\ \A m \in c.plugged : \E k \in 1..n : list[k] = m
      /\ IsSeq(write_modules(c))
  BY <1>1, <1>3, <1>4, <1>5, <1>6, <1>7, <1>8
<1> QED BY <1>9 DEF K, list

(* The four conjuncts of FileRestored, for a calculator c that was saved.  *)
Restored(G, x, c) ==
  /\ c.plugged \ x.plugged \subseteq G \ HasRam
  /\ x.ram = c.ram
  /\ \A chip \in Present(c) \cap Present(x) : x.regs[chip] = c.regs[chip]
  /\ \A m \in c.plugged \cap HasRam : x.words[m] = c.words[m] /\ x.protect[m] = c.protect[m]

LEMMA ModulesRead ==
  ASSUME NEW G, NEW s, Live(s), NEW c, CalcOk(c), s.calc.ram = c.ram,
         \A chip \in Mainframe : \A f \in Fields(chip) : s.calc.regs[chip][f] = c.regs[chip][f],
         NEW t, Leads(G, s, write_modules(c), t), t # FatalEnd
  PROVE  Live(t) /\ Restored(G, t.calc, c)
<1> DEFINE list == SetToSeq(c.plugged)
           n == Len(list)
           K == [k \in 1..n |-> write_module(c, list[k])]
<1>1. /\ write_modules(c) = FlattenSeq(K)
      /\ n \in Nat /\ Len(K) = n
      /\ \A k \in 1..n : IsSeq(K[k]) /\ K[k] = write_module(c, list[k]) /\ list[k] \in c.plugged /\ list[k] \in Modules
      /\ \A m \in c.plugged : \E k \in 1..n : list[k] = m
  BY WriteModulesIs
<1> HIDE DEF K, list
<1>2. PICK h : Parts(G, s, K, t, h)
  BY <1>1, FlattenLeads
<1>3. h[1] = s /\ h[n + 1] = t /\ \A k \in 1..n : Leads(G, h[k], K[k], h[k + 1])
  BY <1>1, <1>2 DEF Parts
<1> HIDE DEF n
<1>4. 1 \in Int /\ n + 1 \in Int /\ 1 <= n + 1 /\ 1 \in 1..(n + 1) /\ n + 1 \in 1..(n + 1) /\ (n + 1) - 1 = n
  BY <1>1
<1>5. \A k \in 1..(n + 1) : h[k] # FatalEnd
  <2> DEFINE I == {k \in 1..(n + 1) : h[k] # FatalEnd}
  <2>1. n + 1 \in I
    BY <1>3, <1>4
  <2>2. \A k \in 1..((n + 1) - 1) : k + 1 \in I => k \in I
    <3>1. ASSUME NEW k \in 1..n, h[k + 1] # FatalEnd, h[k] = FatalEnd PROVE FALSE
      <4>1. Leads(G, FatalEnd, K[k], h[k + 1]) /\ IsSeq(K[k])
        BY <1>1, <1>3, <3>1
      <4>2. Len(K[k]) \in Nat
        <5>1. PICK T : K[k] \in Seq(T)
          BY <4>1 DEF IsSeq
        <5> QED BY <5>1, LenProperties
      <4> QED BY <4>1, <4>2, <3>1, FatalLeads
    <3>2. \A k \in 1..n : k \in 1..(n + 1)
      BY <1>1
    <3> QED BY <3>1, <3>2, <1>4
  <2> HIDE DEF I
  <2>3. \A k \in 1..(n + 1) : k \in I
    BY <2>1, <2>2, <1>4, Downwards
  <2> QED BY <2>3 DEF I
<1> DEFINE I == {k \in 1..(n + 1) : ModulesSoFar(G, s, h[k], c, list, k - 1)}
<1>6. 1 \in I
  <2>1. \A chip \in AllChips : Due(chip, list, 1 - 1) => chip \in Mainframe
    BY DEF Due, Mainframe, AllChips
  <2>2. ModulesSoFar(G, s, s, c, list, 1 - 1)
    BY <2>1 DEF ModulesSoFar
  <2> QED BY <2>2, <1>3, <1>4
<1>7. \A k \in 1..((n + 1) - 1) : k \in I => k + 1 \in I
  <2>1. ASSUME NEW k \in 1..n, ModulesSoFar(G, s, h[k], c, list, k - 1)
        PROVE  ModulesSoFar(G, s, h[k + 1], c, list, k)
    <3>1. k \in Nat \ {0} /\ k + 1 \in 1..(n + 1) /\ \A i \in 1..k : i \in 1..n
      BY <1>1
    <3>2. Live(h[k]) /\ list[k] \in Modules /\ Leads(G, h[k], write_module(c, list[k]), h[k + 1])
      BY <1>1, <1>3, <2>1 DEF ModulesSoFar
    <3>3. ModuleBecomes(G, h[k], h[k + 1], c, list[k])
      BY <1>5, <3>1, <3>2, ModuleRead
    <3>4. \A i \in 1..k : list[i] \in Modules
      BY <3>1, <1>1
    <3> QED BY <2>1, <3>1, <3>3, <3>4, OneModule
  <2>2. \A k \in 1..n : k + 1 \in 1..(n + 1) /\ (k + 1) - 1 = k
    BY <1>1
  <2> QED BY <2>1, <2>2, <1>4
<1> HIDE DEF I
<1>8. \A k \in 1..(n + 1) : k \in I
  BY <1>4, <1>6, <1>7, Upwards
<1>9. ModulesSoFar(G, s, t, c, list, n)
  BY <1>3, <1>4, <1>8 DEF I
<1>10. Live(t) /\ t.calc.ram = c.ram
  BY <1>9 DEF ModulesSoFar
<1>11. c.plugged \ t.calc.plugged \subseteq G \ HasRam
  BY <1>1, <1>9 DEF ModulesSoFar
<1>12. ASSUME NEW m \in c.plugged \cap HasRam
       PROVE  t.calc.words[m] = c.words[m] /\ t.calc.protect[m] = c.protect[m]
  BY <1>1, <1>9 DEF ModulesSoFar
<1>13. ASSUME NEW chip \in Present(c) \cap Present(t.calc) PROVE t.calc.regs[chip] = c.regs[chip]
  <2>1. chip \in AllChips /\ \A m \in Modules : ChipOf[m] = chip => m \in c.plugged
    BY DEF Present, AllChips
  <2>2. Due(chip, list, n)
    BY <2>1, <1>1 DEF Due
  <2>3. \A f \in Fields(chip) : t.calc.regs[chip][f] = c.regs[chip][f]
    BY <2>1, <2>2, <1>9 DEF ModulesSoFar
  <2>4. CalcOk(t.calc)
    BY <1>10 DEF Live
  <2>5. t.calc.regs[chip] \in [Fields(chip) -> Anything] /\ c.regs[chip] \in [Fields(chip) -> Anything]
    BY <2>1, <2>4, CalcParts
  <2> QED BY <2>3, <2>5
<1> QED BY <1>10, <1>11, <1>12, <1>13 DEF Restored

-----------------------------------------------------------------------------
(* The whole file *)
LEMMA FileIs ==
  ASSUME NEW c, CalcOk(c)
  PROVE  LET e == El("state", "version", 0)
         IN  /\ IsSeq(<<e>>) /\ IsSeq(write_chips(c, Mainframe)) /\ IsSeq(write_ram_elements(c)) /\ IsSeq(write_modules(c))
             /\ IsSeq(<<e>> \o write_chips(c, Mainframe))
             /\ IsSeq(<<e>> \o write_chips(c, Mainframe) \o write_ram_elements(c))
             /\ IsSeq(state_write_xml(c))
<1> DEFINE e == El("state", "version", 0)
           W == write_chips(c, Mainframe)
           R == write_ram_elements(c)
           M == write_modules(c)
<1>1. IsSeq(<<e>>) /\ IsSeq(W) /\ IsSeq(R) /\ IsSeq(M)
  BY OneIsSeq, WriteChipsIs, WriteRamIs, WriteModulesIs
<1>2. state_write_xml(c) = <<e>> \o W \o R \o M
  BY DEF state_write_xml
<1> HIDE DEF e, W, R, M
<1>3. IsSeq(<<e>> \o W)
  BY <1>1, ConcatIsSeq
<1>4. IsSeq(<<e>> \o W \o R)
  BY <1>1, <1>3, ConcatIsSeq
<1>5. IsSeq(<<e>> \o W \o R \o M)
  BY <1>1, <1>4, ConcatIsSeq
<1>6. /\ IsSeq(<<e>>) /\ IsSeq(W) /\ IsSeq(R) /\ IsSeq(M) /\ IsSeq(<<e>> \o W) /\ IsSeq(<<e>> \o W \o R)
      /\ IsSeq(state_write_xml(c))
  BY <1>1, <1>2, <1>3, <1>4, <1>5
<1> QED BY <1>6 DEF e, W, R, M

(* Whatever the calculator was, and whichever MOD1 files are gone: it is   *)
(* the one of the file, or the program has ended.                          *)
LEMMA FileRead ==
  ASSUME NEW G, NEW s, Live(s), NEW c, CalcOk(c), NEW t, Leads(G, s, state_write_xml(c), t), t # FatalEnd
  PROVE  Live(t) /\ Restored(G, t.calc, c)
<1> DEFINE e == El("state", "version", 0)
           W == write_chips(c, Mainframe)
           R == write_ram_elements(c)
           M == write_modules(c)
<1>1. /\ IsSeq(<<e>>) /\ IsSeq(W) /\ IsSeq(R) /\ IsSeq(M) /\ IsSeq(<<e>> \o W) /\ IsSeq(<<e>> \o W \o R)
  BY FileIs
<1>2. Leads(G, s, <<e>> \o W \o R \o M, t)
  BY DEF state_write_xml
<1>3. e.el = "state"
  BY DEF El
<1> HIDE DEF e, W, R, M
<1>4. PICK w : Leads(G, s, <<e>> \o W \o R, w) /\ Leads(G, w, M, t)
  BY <1>1, <1>2, ConcatLeads
<1>5. PICK v : Leads(G, s, <<e>> \o W, v) /\ Leads(G, v, R, w)
  BY <1>1, <1>4, ConcatLeads
<1>6. PICK u : Leads(G, s, <<e>>, u) /\ Leads(G, u, W, v)
  BY <1>1, <1>5, ConcatLeads
<1>7. u = s
  <2>1. u = Step(G, s, e)
    BY <1>6, OneLeads
  <2>2. u = Goes(s.calc, s.sax)
    BY <1>3, <2>1, LiveIsNotFatal DEF Step
  <2> QED BY <2>2 DEF Live
<1> DEFINE Z == Mainframe \cap Present(c) \cap Present(s.calc)
<1>8. RegsBecome(s, v, c, Cells(Z))
  BY <1>6, <1>7, ChipsRead DEF W
<1>9. \A chip \in Mainframe : chip \in AllChips /\ chip \in Z
  BY DEF Mainframe, AllChips, Present
<1>10. Live(w) /\ RamSame(v, w) /\ w.calc.ram = c.ram
  <2>1. Live(v)
    BY <1>8 DEF RegsBecome
  <2> QED BY <2>1, <1>5, RamRead DEF R
<1> HIDE DEF Z
<1>11. ASSUME NEW chip \in Mainframe, NEW f \in Fields(chip) PROVE w.calc.regs[chip][f] = c.regs[chip][f]
  <2>1. <<chip, f>> \in Cells(Z)
    BY <1>9 DEF Cells
  <2>2. v.calc.regs[chip][f] = c.regs[chip][f]
    BY <2>1, <1>8, <1>9 DEF RegsBecome
  <2> QED BY <2>2, <1>10 DEF RamSame
<1> QED BY <1>4, <1>10, <1>11, ModulesRead DEF M

-----------------------------------------------------------------------------
(* What the elements of a file may be, of whatever the reader makes a      *)
(* calculator again, in whatever order: those of files that break off too. *)
Whats == {"version", "ram"} \cup AllChips \cup Modules \cup Locations \cup UNION {Fields(chip) : chip \in AllChips}
Names == {"state", "chip", "reg", "memory", "loc", "module"}
Elements == {e \in [el : Names, what : Whats, data : Nat] : e.el = "module" => e.what \in Modules}

LEMMA ElementIs ==
  ASSUME NEW name \in Names, NEW what \in Whats, NEW data \in Nat, name = "module" => what \in Modules
  PROVE  El(name, what, data) \in Elements
BY DEF El, Elements, Names

LEMMA OneIn ==
  ASSUME NEW Q, NEW e \in Q
  PROVE  <<e>> \in Seq(Q) /\ <<>> \in Seq(Q)
BY EmptySeq

LEMMA FunctionIn ==
  ASSUME NEW Q, NEW n \in Nat, NEW f, f = [i \in 1..n |-> f[i]], \A i \in 1..n : f[i] \in Q
  PROVE  f \in Seq(Q)
<1>1. f \in [1..n -> Q]
  OBVIOUS
<1> QED BY <1>1

LEMMA FlattenIn ==
  ASSUME NEW Q, NEW K, Len(K) \in Nat, \A k \in 1..Len(K) : K[k] \in Seq(Q)
  PROVE  FlattenSeq(K) \in Seq(Q)
<1>1. CASE Len(K) = 0
  <2>1. FlattenSeq(K) = <<>>
    BY <1>1 DEF FlattenSeq
  <2> QED BY <2>1, EmptySeq
<1>2. CASE Len(K) # 0
  <2> DEFINE n == Len(K)
             F == Flattened(K)
             I == {k \in 1..n : F[k] \in Seq(Q)}
  <2>1. 1 \in Int /\ n \in Int /\ 1 <= n /\ 1 \in 1..n /\ n \in 1..n /\ Len(K) \in Nat \ {0}
    BY <1>2
  <2>2. \A k \in 1..n : IsSeq(K[k])
    BY DEF IsSeq
  <2>3. FlattenSeq(K) = F[n] /\ F[1] = K[1] /\ \A k \in 1..n : k # 1 => F[k] = F[k - 1] \o K[k]
    BY <2>1, <2>2, FlattenedIs
  <2> HIDE DEF F
  <2>4. 1 \in I
    BY <2>1, <2>3
  <2>5. \A k \in 1..(n - 1) : k \in I => k + 1 \in I
    <3>1. ASSUME NEW k \in 1..(n - 1), F[k] \in Seq(Q) PROVE k + 1 \in 1..n /\ F[k + 1] \in Seq(Q)
      <4>1. k + 1 \in 1..n /\ k + 1 # 1 /\ (k + 1) - 1 = k
        BY <2>1
      <4>2. F[k + 1] = F[k] \o K[k + 1] /\ K[k + 1] \in Seq(Q)
        BY <4>1, <2>3
      <4> QED BY <4>1, <4>2, <3>1, ConcatProperties
    <3> QED BY <3>1
  <2> HIDE DEF I
  <2>6. \A k \in 1..n : k \in I
    BY <2>1, <2>4, <2>5, Upwards
  <2>7. F[n] \in Seq(Q)
    BY <2>1, <2>6 DEF I
  <2> QED BY <2>3, <2>7
<1> QED BY <1>1, <1>2

LEMMA RegistersIn ==
  ASSUME NEW c, CalcOk(c), NEW chip \in AllChips
  PROVE  write_registers(c, chip) \in Seq(Elements)
<1> DEFINE K == [r \in DOMAIN Registers[chip] |-> RegElements(c, chip, r)]
<1>1. /\ write_registers(c, chip) = FlattenSeq(K) /\ Len(K) \in Nat
      /\ DOMAIN Registers[chip] = 1..Len(K) /\ \A r \in 1..Len(K) : K[r] = RegElements(c, chip, r)
  BY RegistersAre
<1> HIDE DEF K
<1>2. ASSUME NEW r \in DOMAIN Registers[chip] PROVE RegElements(c, chip, r) \in Seq(Elements)
  <2> DEFINE n == Registers[chip][r].count
             q == RegElements(c, chip, r)
  <2>1. n \in Nat /\ \A k \in 1..n : /\ <<r, k - 1>> \in Fields(chip)
                                    /\ q[k] = El("reg", <<r, k - 1>>, Get(Registers[chip][r], c.regs[chip][<<r, k - 1>>]))
    BY RegElementsAre
  <2>2. q = [k \in 1..n |-> q[k]]
    BY DEF RegElements
  <2>3. ASSUME NEW k \in 1..n PROVE q[k] \in Elements
    <3> DEFINE f == <<r, k - 1>>
               data == Get(Registers[chip][r], c.regs[chip][f])
    <3>1. f \in Fields(chip) /\ f[1] = r /\ q[k] = El("reg", f, data)
      BY <2>1
    <3>2. Registers[chip][r] \in Kinds /\ c.regs[chip][f] \in Typed(Registers[chip][r])
      BY <3>1, FieldsAre, CalcParts
    <3>3. data \in Nat
      BY <3>2, RegisterReturns
    <3>4. f \in Whats
      BY <3>1 DEF Whats
    <3> HIDE DEF f, data, q
    <3> QED BY <3>1, <3>3, <3>4, ElementIs DEF Names
  <2> HIDE DEF q, n
  <2> QED BY <2>1, <2>2, <2>3, FunctionIn DEF q
<1> QED BY <1>1, <1>2, FlattenIn

LEMMA ChipsIn ==
  ASSUME NEW c, CalcOk(c), NEW owned
  PROVE  write_chips(c, owned) \in Seq(Elements)
<1> DEFINE K == [k \in DOMAIN Chips |-> ChipElements(c, owned, Chips[k])]
<1>1. write_chips(c, owned) = FlattenSeq(K) /\ Len(K) = Len(Chips)
      /\ \A k \in 1..Len(Chips) : K[k] = ChipElements(c, owned, Chips[k])
  BY WriteChipsIs
<1>2. Len(Chips) \in Nat /\ \A k \in 1..Len(Chips) : Chips[k] \in AllChips
  BY ChipsAre
<1> HIDE DEF K
<1>3. ASSUME NEW k \in 1..Len(Chips) PROVE K[k] \in Seq(Elements)
  <2> DEFINE e == El("chip", Chips[k], 0)
             r == write_registers(c, Chips[k])
  <2>1. r \in Seq(Elements)
    BY <1>2, RegistersIn
  <2>2. Chips[k] \in Whats
    BY <1>2 DEF Whats
  <2>3. e \in Elements
    BY <2>2, ElementIs DEF Names
  <2>4. K[k] = <<e>> \o r \/ K[k] = <<>>
    BY <1>1 DEF ChipElements
  <2> HIDE DEF e, r
  <2>5. <<e>> \in Seq(Elements) /\ <<>> \in Seq(Elements)
    BY <2>3, OneIn
  <2>6. <<e>> \o r \in Seq(Elements)
    BY <2>1, <2>5, ConcatProperties
  <2> QED BY <2>4, <2>5, <2>6
<1> QED BY <1>1, <1>2, <1>3, FlattenIn

LEMMA RamIn ==
  ASSUME NEW c, CalcOk(c)
  PROVE  write_ram_elements(c) \in Seq(Elements)
<1> DEFINE n == Len(RamAddresses)
           L == [k \in 1..n |-> LocElement(c, k)]
           e == El("memory", "ram", 0)
<1>1. write_ram_elements(c) = <<e>> \o L
  BY WriteRamIs
<1>2. L = [k \in 1..n |-> L[k]] /\ \A k \in 1..n : L[k] = LocElement(c, k)
  OBVIOUS
<1>3. ASSUME NEW k \in 1..n PROVE LocElement(c, k) \in Elements
  <2>1. RamAddresses[k] \in Locations
    BY AddressesAre
  <2>2. c.ram[RamAddresses[k]] \in Digits(REGISTER_DIGITS) /\ REGISTER_DIGITS \in Nat
    BY <2>1, CalcParts, StateFileAssumption
  <2>3. get_digits(c.ram[RamAddresses[k]], REGISTER_DIGITS) \in Nat
    BY <2>2, DigitsReturn
  <2>4. RamAddresses[k] \in Whats
    BY <2>1 DEF Whats
  <2> QED BY <2>3, <2>4, ElementIs DEF LocElement, Names
<1>4. e \in Elements
  BY ElementIs DEF Whats, Names
<1>5. n \in Nat
  BY AddressesAre
<1> HIDE DEF L, e
<1>6. L \in Seq(Elements)
  BY <1>2, <1>3, <1>5, FunctionIn
<1>7. <<e>> \in Seq(Elements)
  BY <1>4, OneIn
<1> QED BY <1>1, <1>6, <1>7, ConcatProperties

LEMMA ModuleIn ==
  ASSUME NEW c, CalcOk(c), NEW m \in Modules
  PROVE  write_module(c, m) \in Seq(Elements)
<1> DEFINE e == El("module", m, 0)
           a == El("memory", m, c.protect[m])
           b == El("loc", m, c.words[m])
           W == write_chips(c, {ChipOf[m]})
           R == write_rom(c, m)
<1>1. m \in Whats /\ c.protect[m] \in Nat /\ c.words[m] \in Nat
  BY CalcParts DEF Whats
<1>2. e \in Elements /\ a \in Elements /\ b \in Elements
  BY <1>1, ElementIs DEF Names
<1>3. R = <<a, b>> \/ R = <<>>
  BY DEF write_rom
<1>4. W \in Seq(Elements)
  BY ChipsIn
<1>5. write_module(c, m) = <<e>> \o W \o R
  BY DEF write_module
<1> HIDE DEF e, a, b, W, R
<1>6. R \in Seq(Elements) /\ <<e>> \in Seq(Elements)
  <2>1. <<a, b>> \in Seq(Elements) /\ <<>> \in Seq(Elements)
    BY <1>2, EmptySeq
  <2> QED BY <1>2, <1>3, <2>1, OneIn
<1>7. <<e>> \o W \in Seq(Elements)
  BY <1>4, <1>6, ConcatProperties
<1> QED BY <1>5, <1>6, <1>7, ConcatProperties

LEMMA FileIn ==
  ASSUME NEW c, CalcOk(c)
  PROVE  state_write_xml(c) \in Seq(Elements)
<1> DEFINE e == El("state", "version", 0)
           W == write_chips(c, Mainframe)
           R == write_ram_elements(c)
           M == write_modules(c)
           list == SetToSeq(c.plugged)
           K == [k \in 1..Len(list) |-> write_module(c, list[k])]
<1>1. e \in Elements
  BY ElementIs DEF Whats, Names
<1>2. W \in Seq(Elements) /\ R \in Seq(Elements)
  BY ChipsIn, RamIn
<1>3. M \in Seq(Elements)
  <2>1. M = FlattenSeq(K) /\ Len(list) \in Nat /\ Len(K) = Len(list)
        /\ \A k \in 1..Len(list) : K[k] = write_module(c, list[k]) /\ list[k] \in Modules
    BY WriteModulesIs
  <2> HIDE DEF K, list, M
  <2>2. \A k \in 1..Len(K) : K[k] \in Seq(Elements)
    BY <2>1, ModuleIn
  <2> QED BY <2>1, <2>2, FlattenIn
<1>4. state_write_xml(c) = <<e>> \o W \o R \o M
  BY DEF state_write_xml
<1> HIDE DEF e, W, R, M
<1>5. <<e>> \in Seq(Elements)
  BY <1>1, OneIn
<1>6. <<e>> \o W \in Seq(Elements)
  BY <1>2, <1>5, ConcatProperties
<1>7. <<e>> \o W \o R \in Seq(Elements)
  BY <1>2, <1>6, ConcatProperties
<1> QED BY <1>3, <1>4, <1>7, ConcatProperties

LEMMA LiveGoes ==
  ASSUME NEW c, CalcOk(c), NEW x \in SaxType
  PROVE  Live(Goes(c, x))
BY GoesIs DEF Live

LEMMA RegKeeps ==
  ASSUME NEW c, CalcOk(c), NEW chip \in AllChips, NEW f, NEW data \in Nat
  PROVE  CalcOk([c EXCEPT !.regs[chip][f] = Set(Registers[chip][f[1]], data)])
<1> DEFINE v == Set(Registers[chip][f[1]], data)
           new == [c EXCEPT !.regs[chip][f] = v]
<1>1. c \in CalcType /\ \A k \in AllChips : c.regs[k] \in FileOf(k)
  BY DEF CalcOk
<1>2. ASSUME f \in Fields(chip) PROVE v \in Typed(Registers[chip][f[1]]) /\ v \in Anything
  <2>1. Registers[chip][f[1]] \in Kinds
    BY <1>2, FieldsAre
  <2>2. v \in Typed(Registers[chip][f[1]])
    BY <2>1, RegisterTyped
  <2> QED BY <2>1, <2>2 DEF Anything
<1> HIDE DEF v
<1>3. /\ new.plugged = c.plugged /\ new.ram = c.ram /\ new.words = c.words /\ new.protect = c.protect
      /\ new.regs = [c.regs EXCEPT ![chip] = [c.regs[chip] EXCEPT ![f] = v]]
      /\ new = [plugged |-> new.plugged, regs |-> new.regs, ram |-> new.ram, words |-> new.words,
                protect |-> new.protect]
  BY <1>1 DEF CalcType
<1> HIDE DEF new
<1>4. c.regs[chip] \in [Fields(chip) -> Anything] /\ \A k \in Fields(chip) : c.regs[chip][k] \in Typed(Registers[chip][k[1]])
  BY CalcParts
<1>5. /\ new.regs[chip] = [c.regs[chip] EXCEPT ![f] = v]
      /\ \A k \in AllChips : k # chip => new.regs[k] = c.regs[k]
      /\ new.regs = [k \in AllChips |-> new.regs[k]]
  BY <1>1, <1>3 DEF CalcType
<1>6. new.regs[chip] \in FileOf(chip)
  <2>1. CASE f \notin Fields(chip)
    <3>1. new.regs[chip] = c.regs[chip]
      BY <1>4, <1>5, <2>1
    <3> QED BY <3>1, <1>1
  <2>2. CASE f \in Fields(chip)
    <3>1. new.regs[chip] \in [Fields(chip) -> Anything]
      BY <1>2, <1>4, <1>5, <2>2
    <3>2. \A k \in Fields(chip) : new.regs[chip][k] = IF k = f THEN v ELSE c.regs[chip][k]
      BY <1>4, <1>5
    <3>3. \A k \in Fields(chip) : new.regs[chip][k] \in Typed(Registers[chip][k[1]])
      BY <1>2, <1>4, <2>2, <3>2
    <3> QED BY <3>1, <3>3 DEF FileOf
  <2> QED BY <2>1, <2>2
<1>7. \A k \in AllChips : new.regs[k] \in FileOf(k)
  BY <1>1, <1>5, <1>6
<1>8. new.regs \in [AllChips -> UNION {FileOf(k) : k \in AllChips}]
  BY <1>5, <1>7
<1>9. new \in CalcType
  BY <1>8, <1>1, <1>3 DEF CalcType
<1>10. CalcOk(new)
  BY <1>7, <1>9 DEF CalcOk
<1> QED BY <1>10 DEF new, v

LEMMA RamKeeps ==
  ASSUME NEW c, CalcOk(c), NEW addr, NEW data \in Nat
  PROVE  CalcOk([c EXCEPT !.ram = write_ram(c.ram, addr, data)])
<1> DEFINE n == REGISTER_DIGITS
           x == Shifts(data, n, HEX)[n] % HEX
           d == set_digits(data, n)
           ram == write_ram(c.ram, addr, data)
<1>1. n \in Nat /\ 0 \in 0..(n - 1)
  BY StateFileAssumption
<1>2. d \in Digits(n) /\ x \in 0..(HEX - 1)
  BY <1>1, DigitsAreDigits
<1>3. c \in CalcType /\ (\A k \in AllChips : c.regs[k] \in FileOf(k)) /\ c.ram \in [Locations -> Digits(n)]
  BY CalcParts DEF CalcOk
<1>4. ram = [b \in Locations |-> IF b = addr THEN d ELSE IF b = addr + 1 THEN [c.ram[b] EXCEPT ![0] = x] ELSE c.ram[b]]
  BY <1>3 DEF write_ram
<1> HIDE DEF x, d, ram
<1>5. ASSUME NEW b \in Locations PROVE [c.ram[b] EXCEPT ![0] = x] \in Digits(n) /\ c.ram[b] \in Digits(n)
  <2>1. c.ram[b] \in [0..(n - 1) -> 0..(HEX - 1)]
    BY <1>3 DEF Digits
  <2> QED BY <1>1, <1>2, <2>1 DEF Digits
<1> DEFINE new == [c EXCEPT !.ram = ram]
<1>6. ram \in [Locations -> Digits(n)]
  <2>1. ASSUME NEW b \in Locations
        PROVE  (IF b = addr THEN d ELSE IF b = addr + 1 THEN [c.ram[b] EXCEPT ![0] = x] ELSE c.ram[b]) \in Digits(n)
    BY <1>2, <1>5
  <2> QED BY <1>4, <2>1
<1>7. new \in CalcType /\ new.regs = c.regs
  BY <1>3, <1>6 DEF CalcType
<1> HIDE DEF new
<1>8. CalcOk(new)
  BY <1>3, <1>7 DEF CalcOk
<1> QED BY <1>8 DEF new, ram

(* Every element leaves a calculator, or ends the program.                 *)
LEMMA ElementKeeps ==
  ASSUME NEW c, CalcOk(c), NEW x \in SaxType, NEW e \in Elements
  PROVE  LET t == sax_start_element(c, x, e)
         IN  ~t.fatal => CalcOk(t.calc) /\ t.sax \in SaxType
<1> DEFINE t == sax_start_element(c, x, e)
<1> SUFFICES ~t.fatal => CalcOk(t.calc) /\ t.sax \in SaxType
  OBVIOUS
<1>1. e.data \in Nat /\ (e.el = "module" => e.what \in Modules)
  BY DEF Elements
<1>2. c \in CalcType /\ (\A k \in AllChips : c.regs[k] \in FileOf(k)) /\ c.plugged \subseteq Modules
      /\ c.words \in [Modules -> Nat] /\ c.protect \in [Modules -> Nat]
  BY CalcParts DEF CalcOk
<1>3. x.chip \in AllChips \cup {NoChip} /\ x.mem_rom \in BOOLEAN
  BY DEF SaxType
<1>5. ASSUME NEW d, d.regs = c.regs, d \in CalcType PROVE CalcOk(d)
  BY <1>2, <1>5 DEF CalcOk
<1>6. CASE e.el = "module"
  <2> DEFINE d == IF e.what \in gone \cup c.plugged THEN c ELSE [c EXCEPT !.plugged = c.plugged \cup {e.what}]
  <2>1. t = Goes(d, x)
    BY <1>6 DEF sax_start_element, parse_module
  <2>2. d.regs = c.regs /\ d \in CalcType
    BY <1>1, <1>2, <1>6 DEF CalcType
  <2> HIDE DEF d, t
  <2>3. CalcOk(d)
    BY <1>5, <2>2
  <2> QED BY GoesIs, <2>1, <2>3
<1>7. CASE e.el = "chip"
  <2> DEFINE y == [x EXCEPT !.chip = IF e.what \in Present(c) THEN e.what ELSE NoChip]
  <2>1. t = Goes(c, y)
    BY <1>7 DEF sax_start_element, parse_chip
  <2>2. y \in SaxType
    BY DEF SaxType, Present, AllChips
  <2> HIDE DEF y, t
  <2> QED BY GoesIs, <2>1, <2>2
<1>8. CASE e.el = "reg"
  <2>1. CASE x.chip = NoChip
    <3>1. t = Goes(c, x)
      BY <1>8, <2>1 DEF sax_start_element, parse_reg
    <3> HIDE DEF t
    <3> QED BY GoesIs, <3>1
  <2>2. CASE x.chip # NoChip
    <3> DEFINE d == [c EXCEPT !.regs[x.chip][e.what] = Set(Registers[x.chip][e.what[1]], e.data)]
    <3>1. t = Goes(d, x)
      BY <1>8, <2>2 DEF sax_start_element, parse_reg
    <3>2. CalcOk(d)
      BY <1>1, <1>3, <2>2, RegKeeps
    <3> HIDE DEF d, t
    <3> QED BY GoesIs, <3>1, <3>2
  <2> QED BY <2>1, <2>2
<1>9. CASE e.el = "memory"
  <2>1. CASE e.what = "ram"
    <3> DEFINE y == [x EXCEPT !.mem_rom = FALSE]
    <3>1. t = Goes(c, y)
      BY <1>9, <2>1 DEF sax_start_element, parse_memory
    <3>2. y \in SaxType
      BY DEF SaxType
    <3> HIDE DEF y, t
    <3> QED BY GoesIs, <3>1, <3>2
  <2>2. CASE e.what # "ram" /\ e.what \notin c.plugged
    <3>1. t = FatalEnd
      BY <1>9, <2>2 DEF sax_start_element, parse_memory
    <3>2. t.fatal
      BY <3>1 DEF FatalEnd
    <3> QED BY <3>2
  <2>3. CASE e.what # "ram" /\ e.what \in c.plugged
    <3> DEFINE y == [x EXCEPT !.mem_rom = TRUE]
               d == [c EXCEPT !.protect[e.what] = e.data]
    <3>1. t = Goes(d, y)
      BY <1>9, <2>3 DEF sax_start_element, parse_memory
    <3>2. y \in SaxType
      BY DEF SaxType
    <3>3. d.regs = c.regs /\ d \in CalcType
      <4>1. [c.protect EXCEPT ![e.what] = e.data] \in [Modules -> Nat]
        BY <1>1, <1>2
      <4> DEFINE p == [c.protect EXCEPT ![e.what] = e.data]
      <4>2. d = [c EXCEPT !.protect = p]
        BY <1>2 DEF CalcType
      <4> HIDE DEF p, d
      <4>3. p \in [Modules -> Nat]
        BY <4>1 DEF p
      <4> QED BY <1>2, <4>2, <4>3 DEF CalcType
    <3> HIDE DEF d, y, t
    <3>4. CalcOk(d)
      BY <1>5, <3>3
    <3> QED BY GoesIs, <3>1, <3>2, <3>4
  <2> QED BY <2>1, <2>2, <2>3
<1>10. CASE e.el = "loc"
  <2>1. CASE x.mem_rom
    <3> DEFINE p == [c.words EXCEPT ![e.what] = e.data]
               d == [c EXCEPT !.words[e.what] = e.data]
    <3>1. t = Goes(d, x)
      BY <1>10, <2>1 DEF sax_start_element, parse_loc
    <3>2. p \in [Modules -> Nat]
      BY <1>1, <1>2
    <3>3. d = [c EXCEPT !.words = p]
      BY <1>2 DEF CalcType
    <3> HIDE DEF p, d, t
    <3>4. d.regs = c.regs /\ d \in CalcType
      BY <1>2, <3>2, <3>3 DEF CalcType
    <3>5. CalcOk(d)
      BY <1>5, <3>4
    <3> QED BY GoesIs, <3>1, <3>5
  <2>2. CASE ~x.mem_rom
    <3> DEFINE d == [c EXCEPT !.ram = write_ram(c.ram, e.what, e.data)]
    <3>1. t = Goes(d, x)
      BY <1>10, <2>2 DEF sax_start_element, parse_loc
    <3>2. CalcOk(d)
      BY <1>1, RamKeeps
    <3> HIDE DEF d, t
    <3> QED BY GoesIs, <3>1, <3>2
  <2> QED BY <1>3, <2>1, <2>2
<1>11. CASE e.el \notin {"module", "chip", "reg", "memory", "loc"}
  <2>1. t = Goes(c, x)
    BY <1>11 DEF sax_start_element
  <2> HIDE DEF t
  <2> QED BY GoesIs, <2>1
<1> QED BY <1>6, <1>7, <1>8, <1>9, <1>10, <1>11

-----------------------------------------------------------------------------
(* While a file is read that was written to its end, what is left of it    *)
(* leads to the calculator that was saved, or to the end of the program.   *)
Promised(G, s, seq, c) ==
  \A t : Leads(G, s, seq, t) => t = FatalEnd \/ (Live(t) /\ Restored(G, t.calc, c))

SFInv ==
  /\ complete \in BOOLEAN /\ pos \in Nat /\ sax \in SaxType
  /\ pos # 0 \/ calc # NoProcess => CalcOk(calc)
  /\ CalcOk(saved) /\ elements \in Seq(Elements)
  /\ complete => elements = state_write_xml(saved)
  /\ pos # 0 /\ complete => Promised(gone, Goes(calc, sax), SubSeq(elements, pos, Len(elements)), saved)

LEMMA FirstOk ==
  CalcOk(Filled(0, {})) /\ NotReading \in SaxType
<1>1. 0 \in Nat /\ {} \in SUBSET Modules
  OBVIOUS
<1>2. NotReading \in SaxType
  BY DEF NotReading, SaxType
<1> QED BY <1>1, <1>2, FilledOk

LEMMA StepIs ==
  ASSUME NEW c, NEW s, NEW e
  PROVE  LET x == sax_start_element(c, s, e)
         IN  /\ x = Step(gone, Goes(c, s), e)
             /\ ~x.fatal => x = Goes(x.calc, x.sax)
<1> DEFINE x == sax_start_element(c, s, e)
           g == Goes(c, s)
<1>1. g.calc = c /\ g.sax = s /\ g # FatalEnd
  BY DEF Goes, FatalEnd
<1>2. x = Step(gone, g, e)
  <2> HIDE DEF g
  <2> QED BY <1>1 DEF sax_start_element, Step, parse_module
<1>3. \A d, y : Goes(d, y) = Goes(Goes(d, y).calc, Goes(d, y).sax)
  BY GoesIs
<1>4. FatalEnd.fatal = TRUE
  BY DEF FatalEnd
<1>5. x = FatalEnd \/ \E d, y : x = Goes(d, y)
  BY DEF sax_start_element, parse_module, parse_chip, parse_reg, parse_memory, parse_loc
<1> HIDE DEF x
<1>6. ~x.fatal => x = Goes(x.calc, x.sax)
  BY <1>3, <1>4, <1>5
<1> QED BY <1>2, <1>6 DEF x

(* The whole file promises it.                                             *)
LEMMA FilePromises ==
  ASSUME NEW G, NEW d, CalcOk(d), NEW c, CalcOk(c)
  PROVE  LET f == state_write_xml(c) IN Promised(G, Goes(d, NotReading), SubSeq(f, 1, Len(f)), c)
<1> DEFINE f == state_write_xml(c)
<1>1. Live(Goes(d, NotReading))
  BY FirstOk, LiveGoes
<1>2. IsSeq(f)
  BY FileIs
<1> HIDE DEF f
<1>3. SubSeq(f, 1, Len(f)) = f
  <2>1. PICK T : f \in Seq(T)
    BY <1>2 DEF IsSeq
  <2> QED BY <2>1
<1>4. Promised(G, Goes(d, NotReading), f, c)
  <2>1. ASSUME NEW t, Leads(G, Goes(d, NotReading), f, t), t # FatalEnd
        PROVE  Live(t) /\ Restored(G, t.calc, c)
    BY <1>1, <2>1, FileRead DEF f
  <2> QED BY <2>1 DEF Promised
<1>5. Promised(G, Goes(d, NotReading), SubSeq(f, 1, Len(f)), c)
  BY <1>3, <1>4
<1> QED BY <1>5 DEF f

LEMMA SFInitial == SFInit => SFInv
BY FirstOk, FileIn DEF SFInit, SFInv

LEMMA SFStep ==
  SFInv /\ [SFNext]_sfvars => SFInv'
<1> SUFFICES ASSUME SFInv, [SFNext]_sfvars PROVE SFInv'
  OBVIOUS
<1>0. /\ sax \in SaxType /\ CalcOk(saved) /\ elements \in Seq(Elements)
      /\ pos # 0 \/ calc # NoProcess => CalcOk(calc)
  BY DEF SFInv
<1>1. ASSUME Work PROVE SFInv'
  <2>1. PICK v \in 0..(CONTENTS - 1) : \E plugged \in SUBSET (Modules \ gone) : calc' = Filled(v, plugged)
    BY <1>1 DEF Work
  <2>2. PICK plugged \in SUBSET (Modules \ gone) : calc' = Filled(v, plugged)
    BY <2>1
  <2>3. CalcOk(calc')
    <3>1. v \in Nat /\ plugged \in SUBSET Modules
      OBVIOUS
    <3> QED BY <3>1, <2>2, FilledOk
  <2> QED BY <1>1, <2>3 DEF Work, Works, SFInv
<1>2. ASSUME Save PROVE SFInv'
  <2>1. CalcOk(calc) /\ state_write_xml(calc) \in Seq(Elements)
    BY <1>0, <1>2, FileIn DEF Save, Works, Runs
  <2> QED BY <1>2, <2>1 DEF Save, Works, SFInv
<1>3. ASSUME SaveFails PROVE SFInv'
  <2>1. CalcOk(calc) /\ state_write_xml(calc) \in Seq(Elements)
    BY <1>0, <1>3, FileIn DEF SaveFails, Works, Runs
  <2> DEFINE f == state_write_xml(calc)
  <2>2. PICK k \in 0..Len(f) : elements' = SubSeq(f, 1, k)
    BY <1>3 DEF SaveFails
  <2>3. f \in Seq(Elements)
    BY <2>1
  <2> HIDE DEF f
  <2>4. elements' \in Seq(Elements)
    BY <2>2, <2>3
  <2> QED BY <1>3, <2>1, <2>4 DEF SaveFails, Works, SFInv
<1>4. ASSUME End PROVE SFInv'
  BY <1>4 DEF End, Works, SFInv
<1>5. ASSUME FileGoes PROVE SFInv'
  BY <1>5 DEF FileGoes, SFInv
<1>6. ASSUME Begin PROVE SFInv'
  <2>1. CalcOk(calc') /\ pos' = 1 /\ sax' = NotReading /\ UNCHANGED <<elements, complete, gone, saved>>
    BY <1>0, <1>6, FirstOk DEF Begin, Runs
  <2>2. complete => Promised(gone, Goes(calc', NotReading), SubSeq(elements, 1, Len(elements)), saved)
    BY <2>1, FilePromises DEF SFInv
  <2> QED BY <2>1, <2>2, FirstOk DEF SFInv
<1>7. ASSUME Read PROVE SFInv'
  <2> DEFINE x == sax_start_element(calc, sax, elements[pos])
  <2>1. pos \in DOMAIN elements /\ UNCHANGED <<elements, complete, gone, saved>>
    BY <1>7 DEF Read
  <2>2. x = Step(gone, Goes(calc, sax), elements[pos]) /\ (~x.fatal => x = Goes(x.calc, x.sax))
    BY StepIs
  <2>3. IF x.fatal THEN calc' = NoProcess /\ pos' = 0 /\ sax' = NotReading
        ELSE calc' = x.calc /\ sax' = x.sax /\ pos' = pos + 1
    BY <1>7 DEF Read
  <2>4. pos \in 1..Len(elements) /\ pos # 0 /\ elements[pos] \in Elements
    BY <1>0, <2>1, ElementOfSeq
  <2>5. ~x.fatal => CalcOk(x.calc) /\ x.sax \in SaxType
    BY <1>0, <2>4, ElementKeeps
  <2> HIDE DEF x
  <2>6. CASE x.fatal
    BY <2>1, <2>3, <2>6, FirstOk DEF SFInv
  <2>7. CASE ~x.fatal
    <3>1. calc' = x.calc /\ sax' = x.sax /\ pos' = pos + 1 /\ x = Goes(calc', sax')
      BY <2>2, <2>3, <2>7
    <3>2. ASSUME complete
          PROVE  Promised(gone, Goes(calc', sax'), SubSeq(elements, pos + 1, Len(elements)), saved)
      <4>1. Promised(gone, Goes(calc, sax), SubSeq(elements, pos, Len(elements)), saved)
        BY <3>2, <2>4 DEF SFInv
      <4>2. ASSUME NEW t, Leads(gone, Goes(calc', sax'), SubSeq(elements, pos + 1, Len(elements)), t)
            PROVE  Leads(gone, Goes(calc, sax), SubSeq(elements, pos, Len(elements)), t)
        <5>1. Leads(gone, Step(gone, Goes(calc, sax), elements[pos]), SubSeq(elements, pos + 1, Len(elements)), t)
          BY <2>2, <3>1, <4>2
        <5> QED BY <1>0, <2>4, <5>1, StepsLead
      <4> QED BY <4>1, <4>2 DEF Promised
    <3>3. CalcOk(calc') /\ sax' \in SaxType
      BY <2>5, <2>7, <3>1
    <3> QED BY <2>1, <2>4, <3>1, <3>2, <3>3 DEF SFInv
  <2> QED BY <2>6, <2>7
<1>8. ASSUME ReadEnds PROVE SFInv'
  <2>1. pos # 0
    BY <1>0, <1>8 DEF ReadEnds
  <2> QED BY <1>8, <2>1, FirstOk DEF ReadEnds, SFInv
<1>9. ASSUME UNCHANGED sfvars PROVE SFInv'
  BY <1>9 DEF sfvars, SFInv
<1> QED BY <1>1, <1>2, <1>3, <1>4, <1>5, <1>6, <1>7, <1>8, <1>9 DEF SFNext

LEMMA ReadEndsRestored ==
  SFInv /\ ReadEnds /\ complete => Restored(gone, calc', saved)
<1> SUFFICES ASSUME SFInv, ReadEnds, complete PROVE Restored(gone, calc', saved)
  OBVIOUS
<1>1. pos = Len(elements) + 1 /\ calc' = calc
  BY DEF ReadEnds
<1>2. elements \in Seq(Elements)
  BY DEF SFInv
<1>3. pos # 0 /\ Len(SubSeq(elements, pos, Len(elements))) = 0
  BY <1>1, <1>2
<1>4. Promised(gone, Goes(calc, sax), SubSeq(elements, pos, Len(elements)), saved)
  BY <1>3 DEF SFInv
<1>5. Leads(gone, Goes(calc, sax), SubSeq(elements, pos, Len(elements)), Goes(calc, sax))
  BY <1>3, NothingLeads
<1>6. Goes(calc, sax) # FatalEnd /\ Goes(calc, sax).calc = calc
  BY DEF Goes, FatalEnd
<1> QED BY <1>1, <1>4, <1>5, <1>6 DEF Promised

(* A calculator that has read a whole state file is the one that was       *)
(* saved, for any chips and registers, any memory and any modules,         *)
(* whatever it was before (state_read_xml against state_write_xml).        *)
THEOREM FileRestoredCorrect == SFSpec => FileRestored
<1> DEFINE A == ReadEnds /\ complete => Restored(gone, calc', saved)
<1>1. SFInit => SFInv
  BY SFInitial
<1>2. SFInv /\ [SFNext]_sfvars => SFInv'
  BY SFStep
<1>3. SFInv /\ [SFNext]_sfvars => [A]_sfvars
  BY ReadEndsRestored
<1> HIDE DEF A
<1>4. [][A]_sfvars => FileRestored
  <2>1. [A]_sfvars =>
          [ReadEnds /\ complete =>
             /\ saved.plugged \ calc'.plugged \subseteq gone \ HasRam
             /\ calc'.ram = saved.ram
             /\ \A chip \in Present(saved) \cap Present(calc') : calc'.regs[chip] = saved.regs[chip]
             /\ \A m \in saved.plugged \cap HasRam :
                  calc'.words[m] = saved.words[m] /\ calc'.protect[m] = saved.protect[m]]_sfvars
    BY DEF A, Restored
  <2> QED BY <2>1, PTL DEF FileRestored
<1> QED BY <1>1, <1>2, <1>3, <1>4, PTL DEF SFSpec
=============================================================================
