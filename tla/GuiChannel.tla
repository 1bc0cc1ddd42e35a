----------------------------- MODULE GuiChannel -----------------------------
(***************************************************************************)
(* The path by which the simulator thread sends display updates, chip      *)
(* messages and trace lines to the GUI thread: sim_send_display_update_-   *)
(* to_gui, sim_send_chip_msg_to_gui and log_send in proc.c push            *)
(* gui_msg_t blocks on gui_cmd_q, and the GSource of                       *)
(* glib_async_queue_source.c makes the GTK main loop pop, handle and       *)
(* recycle them through gui_cmd_free_q.                                    *)
(*                                                                         *)
(* Both threads run concurrently; the two queues are GAsyncQueues, so one  *)
(* push or pop is one step.  The wakeup of the main loop is sticky, as     *)
(* GLib's is: it ends the poll in progress, or else the next one.          *)
(***************************************************************************)
EXTENDS Naturals, Sequences

CONSTANTS Blocks,      \* the addresses alloc() can return
          Prefilled,   \* those sim_init puts on the free list, in order
          Messages,    \* the contents of a message
          Nothing,     \* no message yet
          NoBlock      \* no block held

ASSUME ChannelAssumption ==
  /\ Prefilled \in Seq(Blocks)
  /\ \A i, j \in 1..Len(Prefilled) : Prefilled[i] = Prefilled[j] => i = j
  /\ NoBlock \notin Blocks
  /\ Nothing \notin Messages

VARIABLES msg_q,       \* gui_cmd_q: blocks sent to the GUI
          free_q,      \* gui_cmd_free_q: blocks to use again
          heap,        \* blocks never allocated so far
          data,        \* the content of each block
          spc, sblk,   \* simulator thread: where it is in a send, its block
          gpc, gblk,   \* GUI thread: where it is in the main loop, its block
          wakeup,      \* the main context's pending wakeup
          delivered    \* the content the callback was given last

simVars == <<spc, sblk>>
guiVars == <<gpc, gblk>>
chvars == <<msg_q, free_q, heap, data, spc, sblk, gpc, gblk, wakeup, delivered>>

Elems(s) == { s[i] : i \in 1..Len(s) }

-----------------------------------------------------------------------------
ChInit ==
  /\ msg_q = <<>>
  /\ free_q = Prefilled
  /\ heap = Blocks \ Elems(Prefilled)
  /\ data = [b \in Blocks |-> Nothing]
  /\ spc = "running" /\ sblk = NoBlock
  /\ gpc = "prepare" /\ gblk = NoBlock
  /\ wakeup = FALSE
  /\ delivered = Nothing

(* g_async_queue_try_pop (gui_cmd_free_q) finds a block to use again. *)
Reuse ==
  /\ spc = "running"
  /\ free_q # <<>>
  /\ sblk' = Head(free_q)
  /\ free_q' = Tail(free_q)
  /\ spc' = "fill"
  /\ UNCHANGED <<msg_q, heap, data, guiVars, wakeup, delivered>>

(* It finds none: alloc (sizeof (gui_msg_t)).  The heap bounds the model. *)
Alloc ==
  /\ spc = "running"
  /\ free_q = <<>>
  /\ \E b \in heap : sblk' = b /\ heap' = heap \ {b}
  /\ spc' = "fill"
  /\ UNCHANGED <<msg_q, free_q, data, guiVars, wakeup, delivered>>

(* msg->cmd, msg->chip, msg->data, memcpy (msg->display_segments, ...) *)
Fill(m) ==
  /\ spc = "fill"
  /\ data' = [data EXCEPT ![sblk] = m]
  /\ spc' = "push"
  /\ UNCHANGED <<msg_q, free_q, heap, sblk, guiVars, wakeup, delivered>>

(* g_async_queue_push in g_async_queue_source_push; the block is given up. *)
Push ==
  /\ spc = "push"
  /\ msg_q' = Append(msg_q, sblk)
  /\ sblk' = NoBlock
  /\ spc' = "wake"
  /\ UNCHANGED <<free_q, heap, data, guiVars, wakeup, delivered>>

Wake_Missing ==  \* mutant: a bare g_async_queue_push
  /\ spc = "wake"
  /\ spc' = "running"
  /\ UNCHANGED <<msg_q, free_q, heap, data, sblk, guiVars, wakeup, delivered>>

(* g_main_context_wakeup, after the push *)
Wake ==
  /\ spc = "wake"
  /\ wakeup' = TRUE
  /\ spc' = "running"
  /\ UNCHANGED <<msg_q, free_q, heap, data, sblk, guiVars, delivered>>

-----------------------------------------------------------------------------
(* g_async_queue_source_prepare and _check: is there a message?  If the    *)
(* answer of prepare is no, the main loop polls without a timeout.         *)
Ready_OffByOne == Len(msg_q) >= 0  \* mutant: true of an empty queue

Ready == Len(msg_q) > 0

Prepare ==
  /\ gpc = "prepare"
  /\ gpc' = IF Ready THEN "dispatch" ELSE "poll"
  /\ UNCHANGED <<msg_q, free_q, heap, data, simVars, gblk, wakeup, delivered>>

(* The poll ends on a wakeup, which it consumes ... *)
PollWoken ==
  /\ gpc = "poll"
  /\ wakeup
  /\ wakeup' = FALSE
  /\ gpc' = "check"
  /\ UNCHANGED <<msg_q, free_q, heap, data, simVars, gblk, delivered>>

(* ... or because the user did something; its handler ends before the      *)
(* next check.                                                             *)
PollUserInput ==
  /\ gpc = "poll"
  /\ gpc' = "check"
  /\ UNCHANGED <<msg_q, free_q, heap, data, simVars, gblk, wakeup, delivered>>

Check ==
  /\ gpc = "check"
  /\ gpc' = IF Ready THEN "dispatch" ELSE "prepare"
  /\ UNCHANGED <<msg_q, free_q, heap, data, simVars, gblk, wakeup, delivered>>

DispatchPop_Peeks ==  \* mutant: the message stays on the queue
  /\ gpc = "dispatch"
  /\ msg_q # <<>>
  /\ gblk' = Head(msg_q)
  /\ gpc' = "callback"
  /\ UNCHANGED <<msg_q, free_q, heap, data, simVars, wakeup, delivered>>

DispatchPop_FreesEarly ==  \* mutant: the block is free before the callback
  /\ gpc = "dispatch"
  /\ msg_q # <<>>
  /\ gblk' = Head(msg_q)
  /\ msg_q' = Tail(msg_q)
  /\ free_q' = Append(free_q, gblk')
  /\ gpc' = "callback"
  /\ UNCHANGED <<heap, data, simVars, wakeup, delivered>>

(* g_async_queue_source_dispatch: pop ... *)
DispatchPop ==
  /\ gpc = "dispatch"
  /\ msg_q # <<>>           \* g_async_queue_pop blocks on an empty queue
  /\ gblk' = Head(msg_q)
  /\ msg_q' = Tail(msg_q)
  /\ gpc' = "callback"
  /\ UNCHANGED <<free_q, heap, data, simVars, wakeup, delivered>>

(* ... gui_cmd_callback, which reads the block ... *)
DispatchCallback ==
  /\ gpc = "callback"
  /\ delivered' = data[gblk]
  /\ gpc' = "recycle"
  /\ UNCHANGED <<msg_q, free_q, heap, data, simVars, gblk, wakeup>>

(* ... and only then the push on the free list. *)
DispatchRecycle ==
  /\ gpc = "recycle"
  /\ free_q' = Append(free_q, gblk)
  /\ gblk' = NoBlock
  /\ gpc' = "prepare"
  /\ UNCHANGED <<msg_q, heap, data, simVars, wakeup, delivered>>

-----------------------------------------------------------------------------
SimStep == Reuse \/ Alloc \/ (\E m \in Messages : Fill(m)) \/ Push \/ Wake

GuiStep == Prepare \/ PollWoken \/ Check
             \/ DispatchPop \/ DispatchCallback \/ DispatchRecycle

ChNext == SimStep \/ GuiStep \/ PollUserInput

ChSafe == ChInit /\ [][ChNext]_chvars

(* Both threads are scheduled; the user need not do anything, and the      *)
(* simulator thread need not start another send, but it ends the one it    *)
(* has started.                                                            *)
ChSpec ==
  /\ ChSafe
  /\ WF_chvars(GuiStep)
  /\ WF_chvars((\E m \in Messages : Fill(m)) \/ Push \/ Wake)

-----------------------------------------------------------------------------
ChTypeOK ==
  /\ msg_q \in Seq(Blocks)
  /\ free_q \in Seq(Blocks)
  /\ heap \in SUBSET Blocks
  /\ data \in [Blocks -> Messages \cup {Nothing}]
  /\ spc \in {"running", "fill", "push", "wake"}
  /\ sblk \in Blocks \cup {NoBlock}
  /\ gpc \in {"prepare", "poll", "check", "dispatch", "callback", "recycle"}
  /\ gblk \in Blocks \cup {NoBlock}
  /\ wakeup \in BOOLEAN
  /\ delivered \in Messages \cup {Nothing}

(* Who owns block b: the queues, the heap or one of the two threads. *)
OwnedBySim(b) == spc \in {"fill", "push"} /\ sblk = b
OwnedByGui(b) == gpc \in {"callback", "recycle"} /\ gblk = b

(* A gui_msg_t is in one place only: in one of the queues, once, or in the *)
(* hands of one thread.  If recycling handed a block back too early, the   *)
(* simulator thread would overwrite a message the GUI is still reading, or *)
(* one block would be queued twice.                                        *)
OnePlace ==
  /\ \A i, j \in 1..Len(msg_q) : msg_q[i] = msg_q[j] => i = j
  /\ \A i, j \in 1..Len(free_q) : free_q[i] = free_q[j] => i = j
  /\ \A i \in 1..Len(msg_q), j \in 1..Len(free_q) : msg_q[i] # free_q[j]
  /\ \A b \in heap : /\ \A i \in 1..Len(msg_q) : msg_q[i] # b
                     /\ \A i \in 1..Len(free_q) : free_q[i] # b
  /\ \A b \in Blocks : OwnedBySim(b) \/ OwnedByGui(b) =>
        /\ b \notin heap
        /\ \A i \in 1..Len(msg_q) : msg_q[i] # b
        /\ \A i \in 1..Len(free_q) : free_q[i] # b
  /\ \A b \in Blocks : ~(OwnedBySim(b) /\ OwnedByGui(b))

(* GAsyncQueue pop in dispatch never blocks the GUI thread: prepare and    *)
(* check saw a message and no one else takes messages.                     *)
DispatchNeverBlocks == gpc = "dispatch" => msg_q # <<>>

(* A message sent while the main loop is going to sleep is not missed: the *)
(* loop sleeps on a non-empty queue only if a wakeup is pending or about   *)
(* to be.  This is what the order push, then wakeup, is for.               *)
NoLostWakeup == (gpc = "poll" /\ msg_q # <<>>) => (wakeup \/ spc = "wake")

(* The channel is a FIFO: the blocks from the one being handled to the     *)
(* newest, read through data, are the messages in flight.                  *)
InFlight == IF gpc = "callback" THEN <<gblk>> \o msg_q ELSE msg_q

InFlightMessages == [i \in DOMAIN InFlight |-> data[InFlight[i]]]

F == INSTANCE Fifo WITH chan <- InFlightMessages, out <- delivered

(* Every message is delivered, in order, once, unaltered, and eventually.  *)
ImplementsFifo == F!FSpec
=============================================================================
