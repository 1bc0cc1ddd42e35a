---------------------------- MODULE ThreadProofs ----------------------------
(***************************************************************************)
(* What the two threads owe each other: the messages to the GUI, proved    *)
(* for every set of blocks and messages and every length of the prefilled  *)
(* free list, and the jobs, whose calls go the other way, for any number   *)
(* of words and values.                                                    *)
(***************************************************************************)
EXTENDS GuiChannel, Jobs, SequenceTheorems, TLAPS

(* A thread that is in the middle of a send or a dispatch holds a block,   *)
(* and the blocks sent hold messages.                                      *)
HoldsBlock ==
  /\ spc \in {"fill", "push"} => sblk \in Blocks
  /\ gpc \in {"callback", "recycle"} => gblk \in Blocks
  /\ spc = "push" => data[sblk] \in Messages
  /\ gpc = "callback" => data[gblk] \in Messages
  /\ \A i \in 1..Len(msg_q) : data[msg_q[i]] \in Messages

IInv == ChTypeOK /\ HoldsBlock /\ OnePlace /\ DispatchNeverBlocks /\ NoLostWakeup

(* Appending an element that a sequence does not have keeps its elements   *)
(* distinct and adds that one.                                             *)
LEMMA AppendDistinct ==
  ASSUME NEW S, NEW s \in Seq(S), NEW b \in S,
         \A i, j \in 1..Len(s) : s[i] = s[j] => i = j,
         \A i \in 1..Len(s) : s[i] # b
  PROVE  LET t == Append(s, b) IN
           /\ t \in Seq(S) /\ Len(t) = Len(s) + 1
           /\ \A i, j \in 1..Len(t) : t[i] = t[j] => i = j
           /\ \A i \in 1..Len(t) : t[i] = b \/ \E k \in 1..Len(s) : t[i] = s[k]
<1> DEFINE t == Append(s, b)
<1>1. t \in Seq(S) /\ Len(t) = Len(s) + 1
  OBVIOUS
<1>2. \A i \in 1..Len(t) : t[i] = IF i = Len(s) + 1 THEN b ELSE s[i]
  OBVIOUS
<1> HIDE DEF t
<1>3. \A i, j \in 1..Len(t) : t[i] = t[j] => i = j
  BY <1>1, <1>2
<1>4. \A i \in 1..Len(t) : t[i] = b \/ \E k \in 1..Len(s) : t[i] = s[k]
  BY <1>1, <1>2
<1> QED BY <1>1, <1>3, <1>4 DEF t

(* Taking the head leaves distinct elements, none of them the head.        *)
LEMMA TailDistinct ==
  ASSUME NEW S, NEW s \in Seq(S), s # <<>>,
         \A i, j \in 1..Len(s) : s[i] = s[j] => i = j
  PROVE  LET t == Tail(s) IN
           /\ Head(s) \in S /\ t \in Seq(S) /\ Len(t) = Len(s) - 1
           /\ Head(s) = s[1] /\ 1 \in 1..Len(s)
           /\ \A i, j \in 1..Len(t) : t[i] = t[j] => i = j
           /\ \A i \in 1..Len(t) : t[i] # Head(s) /\ \E k \in 1..Len(s) : t[i] = s[k]
<1> DEFINE t == Tail(s)
<1>1. /\ Head(s) \in S /\ t \in Seq(S) /\ Len(t) = Len(s) - 1 /\ Len(s) \in Nat
      /\ Head(s) = s[1] /\ 1 \in 1..Len(s)
  OBVIOUS
<1>2. \A i \in 1..Len(t) : t[i] = s[i + 1] /\ i + 1 \in 1..Len(s)
  OBVIOUS
<1> HIDE DEF t
<1>3. \A i, j \in 1..Len(t) : t[i] = t[j] => i = j
  BY <1>1, <1>2
<1>4. \A i \in 1..Len(t) : t[i] # s[1] /\ \E k \in 1..Len(s) : t[i] = s[k]
  BY <1>1, <1>2
<1> QED BY <1>1, <1>3, <1>4 DEF t

-----------------------------------------------------------------------------
LEMMA InductiveInit == ChInit => IInv
<1> SUFFICES ASSUME ChInit PROVE IInv
  OBVIOUS
<1>1. ChTypeOK
  <2>1. msg_q \in Seq(Blocks) /\ free_q \in Seq(Blocks)
    BY ChannelAssumption DEF ChInit
  <2>2. heap \in SUBSET Blocks /\ data \in [Blocks -> Messages \cup {Nothing}]
    BY DEF ChInit
  <2> QED BY <2>1, <2>2 DEF ChInit, ChTypeOK
<1>2. HoldsBlock /\ DispatchNeverBlocks /\ NoLostWakeup
  BY DEF ChInit, HoldsBlock, DispatchNeverBlocks, NoLostWakeup
<1>3. OnePlace
  BY ChannelAssumption DEF ChInit, OnePlace, OwnedBySim, OwnedByGui, Elems
<1> QED BY <1>1, <1>2, <1>3 DEF IInv

LEMMA ReuseStep == IInv /\ Reuse => IInv'
<1> SUFFICES ASSUME IInv, Reuse PROVE IInv'
  OBVIOUS
<1> USE DEF IInv, simVars, guiVars
<1>1. /\ sblk' \in Blocks /\ free_q' \in Seq(Blocks)
      /\ \E i \in 1..Len(free_q) : sblk' = free_q[i]
      /\ \A i, j \in 1..Len(free_q') : free_q'[i] = free_q'[j] => i = j
      /\ \A i \in 1..Len(free_q') : /\ free_q'[i] # sblk'
                                    /\ \E k \in 1..Len(free_q) : free_q'[i] = free_q[k]
  BY TailDistinct DEF Reuse, ChTypeOK, OnePlace
<1>2. ChTypeOK'
  BY <1>1 DEF Reuse, ChTypeOK
<1>3. HoldsBlock' /\ DispatchNeverBlocks' /\ NoLostWakeup'
  BY <1>1 DEF Reuse, HoldsBlock, DispatchNeverBlocks, NoLostWakeup
<1>4. OnePlace'
  BY <1>1, ChannelAssumption DEF Reuse, OnePlace, OwnedBySim, OwnedByGui, ChTypeOK
<1> QED BY <1>2, <1>3, <1>4

LEMMA AllocStep == IInv /\ Alloc => IInv'
<1> SUFFICES ASSUME IInv, Alloc PROVE IInv'
  OBVIOUS
<1> USE DEF IInv, simVars, guiVars
<1>1. sblk' \in heap /\ heap' = heap \ {sblk'} /\ sblk' \in Blocks
  BY DEF Alloc, ChTypeOK
<1>2. ChTypeOK'
  BY <1>1 DEF Alloc, ChTypeOK
<1>3. HoldsBlock' /\ DispatchNeverBlocks' /\ NoLostWakeup'
  BY <1>1 DEF Alloc, HoldsBlock, DispatchNeverBlocks, NoLostWakeup
<1>4. OnePlace'
  BY <1>1 DEF Alloc, OnePlace, OwnedBySim, OwnedByGui, ChTypeOK
<1> QED BY <1>2, <1>3, <1>4

LEMMA FillStep == ASSUME NEW m \in Messages PROVE IInv /\ Fill(m) => IInv'
<1> SUFFICES ASSUME IInv, Fill(m) PROVE IInv'
  OBVIOUS
<1> USE DEF IInv, simVars, guiVars
<1>1. /\ sblk \in Blocks /\ OwnedBySim(sblk) /\ ~OwnedByGui(sblk)
      /\ \A i \in 1..Len(msg_q) : msg_q[i] # sblk
  BY DEF Fill, HoldsBlock, OnePlace, OwnedBySim
<1>2. ChTypeOK'
  BY <1>1 DEF Fill, ChTypeOK
<1>3. /\ data'[sblk] = m
      /\ \A b \in Blocks : b # sblk => data'[b] = data[b]
  BY <1>1 DEF Fill, ChTypeOK
<1>4. HoldsBlock'
  BY <1>1, <1>3 DEF Fill, HoldsBlock, OwnedByGui, ChTypeOK
<1>5. OnePlace' /\ DispatchNeverBlocks' /\ NoLostWakeup'
  BY DEF Fill, OnePlace, OwnedBySim, OwnedByGui, DispatchNeverBlocks, NoLostWakeup
<1> QED BY <1>2, <1>4, <1>5

LEMMA PushStep == IInv /\ Push => IInv'
<1> SUFFICES ASSUME IInv, Push PROVE IInv'
  OBVIOUS
<1> USE DEF IInv, simVars, guiVars
<1>1. /\ sblk \in Blocks /\ OwnedBySim(sblk) /\ sblk \notin heap /\ ~OwnedByGui(sblk)
      /\ \A i \in 1..Len(msg_q) : msg_q[i] # sblk
      /\ \A i \in 1..Len(free_q) : free_q[i] # sblk
  BY DEF Push, HoldsBlock, OnePlace, OwnedBySim
<1>2. /\ msg_q' \in Seq(Blocks) /\ Len(msg_q') = Len(msg_q) + 1
      /\ \A i, j \in 1..Len(msg_q') : msg_q'[i] = msg_q'[j] => i = j
      /\ \A i \in 1..Len(msg_q') : msg_q'[i] = sblk \/ \E k \in 1..Len(msg_q) : msg_q'[i] = msg_q[k]
  BY <1>1, AppendDistinct DEF Push, ChTypeOK, OnePlace
<1>3. ChTypeOK'
  BY <1>2 DEF Push, ChTypeOK
<1>4. HoldsBlock'
  BY <1>2 DEF Push, HoldsBlock
<1>5. DispatchNeverBlocks' /\ NoLostWakeup'
  BY <1>2 DEF Push, DispatchNeverBlocks, NoLostWakeup, ChTypeOK
<1>6. OnePlace'
  BY <1>1, <1>2 DEF Push, OnePlace, OwnedBySim, OwnedByGui
<1> QED BY <1>3, <1>4, <1>5, <1>6

(* The steps that move no block. *)
LEMMA QuietStep ==
  IInv /\ (Wake \/ Prepare \/ PollWoken \/ PollUserInput \/ Check \/ UNCHANGED chvars) => IInv'
<1> SUFFICES ASSUME IInv,
                    Wake \/ Prepare \/ PollWoken \/ PollUserInput \/ Check \/ UNCHANGED chvars
             PROVE  IInv'
  OBVIOUS
<1> USE DEF IInv, simVars, guiVars, Wake, Prepare, PollWoken, PollUserInput, Check, chvars
<1>1. /\ UNCHANGED <<msg_q, free_q, heap, data, sblk, gblk, delivered>>
      /\ spc' \in {"fill", "push"} <=> spc \in {"fill", "push"}
      /\ spc' = "fill" <=> spc = "fill"
      /\ gpc' \in {"callback", "recycle"} <=> gpc \in {"callback", "recycle"}
      /\ gpc' = "callback" <=> gpc = "callback"
  OBVIOUS
<1>2. ChTypeOK'
  BY DEF ChTypeOK
<1>3. HoldsBlock'
  BY <1>1 DEF HoldsBlock
<1>4. OnePlace'
  BY <1>1 DEF OnePlace, OwnedBySim, OwnedByGui
<1>5. DispatchNeverBlocks' /\ NoLostWakeup'
  BY DEF DispatchNeverBlocks, NoLostWakeup, Ready, ChTypeOK
<1> QED BY <1>2, <1>3, <1>4, <1>5

LEMMA DispatchPopStep == IInv /\ DispatchPop => IInv'
<1> SUFFICES ASSUME IInv, DispatchPop PROVE IInv'
  OBVIOUS
<1> USE DEF IInv, simVars, guiVars
<1>1. /\ gblk' \in Blocks /\ msg_q' \in Seq(Blocks) /\ gblk' = msg_q[1] /\ 1 \in 1..Len(msg_q)
      /\ \A i, j \in 1..Len(msg_q') : msg_q'[i] = msg_q'[j] => i = j
      /\ \A i \in 1..Len(msg_q') : /\ msg_q'[i] # gblk'
                                   /\ \E k \in 1..Len(msg_q) : msg_q'[i] = msg_q[k]
  BY TailDistinct DEF DispatchPop, ChTypeOK, OnePlace
<1>2. ChTypeOK'
  BY <1>1 DEF DispatchPop, ChTypeOK
<1>3. HoldsBlock' /\ DispatchNeverBlocks' /\ NoLostWakeup'
  BY <1>1 DEF DispatchPop, HoldsBlock, DispatchNeverBlocks, NoLostWakeup
<1>4. OnePlace'
  BY <1>1 DEF DispatchPop, OnePlace, OwnedBySim, OwnedByGui, ChTypeOK
<1> QED BY <1>2, <1>3, <1>4

LEMMA DispatchCallbackStep == IInv /\ DispatchCallback => IInv'
<1> SUFFICES ASSUME IInv, DispatchCallback PROVE IInv'
  OBVIOUS
<1> USE DEF IInv, simVars, guiVars
<1>1. ChTypeOK'
  BY DEF DispatchCallback, ChTypeOK, HoldsBlock
<1>2. HoldsBlock' /\ DispatchNeverBlocks' /\ NoLostWakeup'
  BY DEF DispatchCallback, HoldsBlock, DispatchNeverBlocks, NoLostWakeup
<1>3. OnePlace'
  BY DEF DispatchCallback, OnePlace, OwnedBySim, OwnedByGui
<1> QED BY <1>1, <1>2, <1>3

LEMMA DispatchRecycleStep == IInv /\ DispatchRecycle => IInv'
<1> SUFFICES ASSUME IInv, DispatchRecycle PROVE IInv'
  OBVIOUS
<1> USE DEF IInv, simVars, guiVars
<1>1. /\ gblk \in Blocks /\ OwnedByGui(gblk) /\ gblk \notin heap /\ ~OwnedBySim(gblk)
      /\ \A i \in 1..Len(msg_q) : msg_q[i] # gblk
      /\ \A i \in 1..Len(free_q) : free_q[i] # gblk
  BY DEF DispatchRecycle, HoldsBlock, OnePlace, OwnedByGui
<1>2. /\ free_q' \in Seq(Blocks)
      /\ \A i, j \in 1..Len(free_q') : free_q'[i] = free_q'[j] => i = j
      /\ \A i \in 1..Len(free_q') :
            free_q'[i] = gblk \/ \E k \in 1..Len(free_q) : free_q'[i] = free_q[k]
  BY <1>1, AppendDistinct DEF DispatchRecycle, ChTypeOK, OnePlace
<1>3. ChTypeOK'
  BY <1>2 DEF DispatchRecycle, ChTypeOK
<1>4. HoldsBlock' /\ DispatchNeverBlocks' /\ NoLostWakeup'
  BY DEF DispatchRecycle, HoldsBlock, DispatchNeverBlocks, NoLostWakeup
<1>5. OnePlace'
  BY <1>1, <1>2 DEF DispatchRecycle, OnePlace, OwnedBySim, OwnedByGui
<1> QED BY <1>3, <1>4, <1>5

LEMMA InductiveStep == IInv /\ [ChNext]_chvars => IInv'
<1> SUFFICES ASSUME IInv, [ChNext]_chvars PROVE IInv'
  OBVIOUS
<1>1. CASE SimStep
  BY <1>1, ReuseStep, AllocStep, FillStep, PushStep, QuietStep DEF SimStep
<1>2. CASE GuiStep
  BY <1>2, QuietStep, DispatchPopStep, DispatchCallbackStep, DispatchRecycleStep DEF GuiStep
<1>3. CASE PollUserInput \/ UNCHANGED chvars
  BY <1>3, QuietStep
<1> QED BY <1>1, <1>2, <1>3, Zenon DEF ChNext

LEMMA Inductive == ChSafe => []IInv
BY InductiveInit, InductiveStep, PTL DEF ChSafe

-----------------------------------------------------------------------------
(* The variables of the channel have their types. *)
THEOREM ChTypeCorrect == ChSafe => []ChTypeOK
<1>1. IInv => ChTypeOK
  BY DEF IInv
<1> QED BY <1>1, Inductive, PTL

(* A gui_msg_t is never in two places, so neither thread writes or frees a *)
(* block that the other one is using.                                      *)
THEOREM OnePlaceCorrect == ChSafe => []OnePlace
<1>1. IInv => OnePlace
  BY DEF IInv
<1> QED BY <1>1, Inductive, PTL

(* The GUI thread never blocks in the pop of dispatch. *)
THEOREM DispatchNeverBlocksCorrect == ChSafe => []DispatchNeverBlocks
<1>1. IInv => DispatchNeverBlocks
  BY DEF IInv
<1> QED BY <1>1, Inductive, PTL

(* The main loop does not go to sleep on a message without a wakeup on the *)
(* way.                                                                    *)
THEOREM NoLostWakeupCorrect == ChSafe => []NoLostWakeup
<1>1. IInv => NoLostWakeup
  BY DEF IInv
<1> QED BY <1>1, Inductive, PTL

-----------------------------------------------------------------------------
(* Fifo's chan is the sequence of blocks in flight read through data.      *)
Reading(q, d) == [i \in DOMAIN q |-> d[q[i]]]

(* What a block may hold. *)
Contents == Messages \cup {Nothing}

LEMMA ReadingIsSeq ==
  ASSUME NEW q \in Seq(Blocks), NEW d \in [Blocks -> Contents]
  PROVE  /\ Reading(q, d) \in Seq(Contents)
         /\ Len(Reading(q, d)) = Len(q)
         /\ \A i \in 1..Len(q) : Reading(q, d)[i] = d[q[i]]
<1>1. DOMAIN q = 1..Len(q) /\ Len(q) \in Nat /\ \A i \in 1..Len(q) : q[i] \in Blocks
  BY LenProperties, ElementOfSeq
<1>2. Reading(q, d) \in [1..Len(q) -> Contents]
  BY <1>1, Zenon DEF Reading
<1>3. Reading(q, d) \in Seq(Contents) /\ Len(Reading(q, d)) = Len(q)
  BY <1>1, <1>2
<1>4. \A i \in 1..Len(q) : Reading(q, d)[i] = d[q[i]]
  BY <1>1 DEF Reading
<1> QED BY <1>3, <1>4

(* A sequence of blocks and one more is read as the messages and one more. *)
LEMMA ReadingOfAppend ==
  ASSUME NEW q \in Seq(Blocks), NEW b \in Blocks, NEW d \in [Blocks -> Contents]
  PROVE  Reading(Append(q, b), d) = Append(Reading(q, d), d[b])
<1> DEFINE t == Append(q, b)
           r == Reading(q, d)
           u == Append(r, d[b])
<1>1. t \in Seq(Blocks) /\ Len(t) = Len(q) + 1 /\ t[Len(q) + 1] = b /\ Len(q) \in Nat
      /\ \A i \in 1..Len(q) : t[i] = q[i]
  BY AppendProperties, LenProperties
<1>2. r \in Seq(Contents) /\ Len(r) = Len(q) /\ \A i \in 1..Len(q) : r[i] = d[q[i]]
  BY ReadingIsSeq
<1>3. d[b] \in Contents
  OBVIOUS
<1> HIDE DEF t, r
<1>4. u \in Seq(Contents) /\ Len(u) = Len(r) + 1 /\ u[Len(r) + 1] = d[b]
      /\ \A i \in 1..Len(r) : u[i] = r[i]
  BY <1>2, <1>3, AppendProperties
<1> HIDE DEF u
<1>5. /\ Reading(t, d) \in Seq(Contents) /\ Len(Reading(t, d)) = Len(t)
      /\ \A i \in 1..Len(t) : Reading(t, d)[i] = d[t[i]]
  BY <1>1, ReadingIsSeq
<1>6. \A i \in 1..Len(q) + 1 : d[t[i]] = u[i]
  BY <1>1, <1>2, <1>4
<1>7. Reading(t, d) = u
  BY <1>1, <1>2, <1>4, <1>5, <1>6, SeqEqual
<1> QED BY <1>7 DEF t, r, u

(* A block put in front of a sequence is its head, the sequence its tail,  *)
(* and the messages are read in that order.                                *)
LEMMA HeadAndTailOfCons ==
  ASSUME NEW q \in Seq(Blocks), NEW b \in Blocks
  PROVE  LET t == <<b>> \o q IN
           /\ t \in Seq(Blocks) /\ Len(t) = Len(q) + 1
           /\ t[1] = b /\ \A i \in 1..Len(q) : t[i + 1] = q[i]
<1>1. <<b>> \in Seq(Blocks) /\ Len(<<b>>) = 1 /\ <<b>>[1] = b /\ Len(q) \in Nat
  BY LenProperties
<1>2. /\ <<b>> \o q \in Seq(Blocks)
      /\ Len(<<b>> \o q) = Len(<<b>>) + Len(q)
      /\ \A i \in 1 .. Len(<<b>>) + Len(q) : (<<b>> \o q)[i] =
                     IF i <= Len(<<b>>) THEN <<b>>[i] ELSE q[i - Len(<<b>>)]
  BY <1>1, ConcatProperties
<1> QED BY <1>1, <1>2

LEMMA ReadingOfCons ==
  ASSUME NEW q \in Seq(Blocks), NEW b \in Blocks, NEW d \in [Blocks -> Contents]
  PROVE  LET r == Reading(<<b>> \o q, d) IN
           /\ r # <<>> /\ Head(r) = d[b] /\ Tail(r) = Reading(q, d)
<1> DEFINE t == <<b>> \o q
           r == Reading(t, d)
           u == Tail(r)
           v == Reading(q, d)
<1>1. /\ t \in Seq(Blocks) /\ Len(t) = Len(q) + 1 /\ Len(q) \in Nat
      /\ t[1] = b /\ \A i \in 1..Len(q) : t[i + 1] = q[i]
  BY HeadAndTailOfCons, LenProperties
<1>2. v \in Seq(Contents) /\ Len(v) = Len(q) /\ \A i \in 1..Len(q) : v[i] = d[q[i]]
  BY ReadingIsSeq
<1> HIDE DEF t, v
<1>3. r \in Seq(Contents) /\ Len(r) = Len(t) /\ \A i \in 1..Len(t) : r[i] = d[t[i]]
  BY <1>1, ReadingIsSeq
<1> HIDE DEF r
<1>4. r # <<>> /\ Head(r) = d[b]
  <2>1. Len(r) # 0 /\ 1 \in 1..Len(t) /\ r[1] = d[b]
    BY <1>1, <1>3
  <2> QED BY <1>3, <2>1
<1>5. u \in Seq(Contents) /\ Len(u) = Len(r) - 1 /\ \A i \in 1..Len(u) : u[i] = r[i + 1]
  BY <1>3, <1>4, HeadTailProperties
<1> HIDE DEF u
<1>6. \A i \in 1..Len(q) : u[i] = v[i]
  BY <1>1, <1>2, <1>3, <1>5
<1>7. u = v
  BY <1>1, <1>2, <1>3, <1>5, <1>6, SeqEqual
<1> QED BY <1>4, <1>7 DEF t, r, u, v

LEMMA ConsHeadTail ==
  ASSUME NEW q \in Seq(Blocks), q # <<>>
  PROVE  <<Head(q)>> \o Tail(q) = q
<1> DEFINE h == Head(q)
           t == Tail(q)
           c == <<h>> \o t
<1>1. h \in Blocks /\ t \in Seq(Blocks) /\ Len(t) = Len(q) - 1 /\ Len(q) \in Nat \ {0} /\ h = q[1]
      /\ \A i \in 1..Len(t) : t[i] = q[i + 1]
  BY HeadTailProperties, EmptySeq
<1> HIDE DEF h, t
<1>2. /\ c \in Seq(Blocks) /\ Len(c) = Len(t) + 1
      /\ c[1] = h /\ \A i \in 1..Len(t) : c[i + 1] = t[i]
  BY <1>1, HeadAndTailOfCons
<1> HIDE DEF c
<1>3. \A i \in 1..Len(q) : c[i] = q[i]
  <2> SUFFICES ASSUME NEW i \in 1..Len(q) PROVE c[i] = q[i]
    OBVIOUS
  <2>1. CASE i = 1
    BY <2>1, <1>1, <1>2
  <2>2. CASE i # 1
    <3>1. i - 1 \in 1..Len(t) /\ (i - 1) + 1 = i
      BY <2>2, <1>1
    <3> QED BY <3>1, <1>1, <1>2
  <2> QED BY <2>1, <2>2
<1>4. c = q
  BY <1>1, <1>2, <1>3, SeqEqual
<1> QED BY <1>4 DEF h, t, c

LEMMA ConsAppend ==
  ASSUME NEW q \in Seq(Blocks), NEW a \in Blocks, NEW b \in Blocks
  PROVE  <<a>> \o Append(q, b) = Append(<<a>> \o q, b)
<1>1. <<a>> \in Seq(Blocks) /\ <<b>> \in Seq(Blocks) /\ <<a>> \o q \in Seq(Blocks)
  BY HeadAndTailOfCons
<1>2. Append(q, b) = q \o <<b>> /\ Append(<<a>> \o q, b) = (<<a>> \o q) \o <<b>>
  BY <1>1, AppendIsConcat, Zenon
<1>3. (<<a>> \o q) \o <<b>> = <<a>> \o (q \o <<b>>)
  BY <1>1, ConcatAssociative
<1> QED BY <1>2, <1>3, Zenon

-----------------------------------------------------------------------------
LEMMA InFlightIsRead ==
  IInv => /\ InFlightMessages = Reading(InFlight, data)
          /\ InFlight \in Seq(Blocks) /\ msg_q \in Seq(Blocks)
          /\ data \in [Blocks -> Contents]
<1> SUFFICES ASSUME IInv
             PROVE  /\ InFlightMessages = Reading(InFlight, data)
                    /\ InFlight \in Seq(Blocks) /\ msg_q \in Seq(Blocks)
                    /\ data \in [Blocks -> Contents]
  OBVIOUS
<1>1. msg_q \in Seq(Blocks) /\ data \in [Blocks -> Contents]
  BY DEF IInv, ChTypeOK, Contents
<1>2. gpc = "callback" => gblk \in Blocks
  BY DEF IInv, HoldsBlock
<1>3. gpc = "callback" => <<gblk>> \o msg_q \in Seq(Blocks)
  BY <1>1, <1>2, HeadAndTailOfCons
<1> QED BY <1>1, <1>3 DEF InFlight, InFlightMessages, Reading

LEMMA FifoInit == ChInit => F!FInit
<1> SUFFICES ASSUME ChInit PROVE F!FInit
  OBVIOUS
<1>1. InFlight = <<>> /\ delivered = Nothing
  BY DEF ChInit, InFlight
<1>2. InFlightMessages \in Seq({Nothing}) /\ Len(InFlightMessages) = 0
  BY <1>1 DEF InFlightMessages
<1>3. InFlightMessages = <<>>
  BY <1>2
<1> QED BY <1>1, <1>3 DEF F!FInit

(* Steps that neither send nor deliver: taking, filling and recycling a    *)
(* block, the wakeup and the main loop's rounds.  A block is filled before *)
(* it is in flight, by OnePlace.                                           *)
LEMMA FifoQuiet ==
  ASSUME IInv,
         Reuse \/ Alloc \/ Wake \/ Prepare \/ PollWoken \/ PollUserInput \/ Check
           \/ DispatchRecycle \/ UNCHANGED chvars
  PROVE  UNCHANGED F!fvars
<1>1. /\ UNCHANGED <<msg_q, data, delivered>>
      /\ (gpc' = "callback") <=> (gpc = "callback")
      /\ gpc = "callback" => gblk' = gblk
  BY DEF Reuse, Alloc, Wake, Prepare, PollWoken, PollUserInput, Check, DispatchRecycle,
         chvars, simVars, guiVars
<1>2. InFlight' = InFlight
  BY <1>1 DEF InFlight
<1> QED BY <1>1, <1>2 DEF InFlightMessages, F!fvars

LEMMA FifoFill ==
  ASSUME IInv, NEW m \in Messages, Fill(m)
  PROVE  UNCHANGED F!fvars
<1> USE DEF simVars, guiVars
<1>1. InFlight' = InFlight /\ UNCHANGED delivered
  BY DEF Fill, InFlight
<1>2. /\ sblk \in Blocks /\ ~OwnedByGui(sblk)
      /\ \A i \in 1..Len(msg_q) : msg_q[i] # sblk
  BY DEF Fill, IInv, HoldsBlock, OnePlace, OwnedBySim
<1>3. \A b \in Blocks : b # sblk => data'[b] = data[b]
  BY DEF Fill, IInv, ChTypeOK
<1>4. InFlight \in Seq(Blocks) /\ msg_q \in Seq(Blocks)
  BY InFlightIsRead
<1>5. \A i \in 1..Len(InFlight) : InFlight[i] # sblk
  <2>1. CASE gpc = "callback"
    <3>1. gblk \in Blocks /\ gblk # sblk /\ InFlight = <<gblk>> \o msg_q
      BY <1>2, <2>1 DEF IInv, HoldsBlock, OwnedByGui, InFlight
    <3>2. Len(InFlight) = Len(msg_q) + 1 /\ Len(msg_q) \in Nat /\ InFlight[1] = gblk
          /\ \A i \in 1..Len(msg_q) : InFlight[i + 1] = msg_q[i]
      BY <1>4, <3>1, HeadAndTailOfCons, LenProperties
    <3>3. ASSUME NEW i \in 1..Len(InFlight), i # 1
          PROVE  i - 1 \in 1..Len(msg_q) /\ InFlight[i] = msg_q[i - 1]
      <4>1. i - 1 \in 1..Len(msg_q) /\ (i - 1) + 1 = i
        BY <3>2, <3>3
      <4> QED BY <4>1, <3>2
    <3> QED BY <1>2, <3>1, <3>2, <3>3
  <2>2. CASE gpc # "callback"
    BY <1>2, <2>2 DEF InFlight
  <2> QED BY <2>1, <2>2
<1>6. DOMAIN InFlight = 1..Len(InFlight) /\ \A i \in 1..Len(InFlight) : InFlight[i] \in Blocks
  BY <1>4, LenProperties, ElementOfSeq
<1>7. \A i \in DOMAIN InFlight : data'[InFlight[i]] = data[InFlight[i]]
  BY <1>3, <1>5, <1>6
<1>8. InFlightMessages' = InFlightMessages
  BY <1>1, <1>7, Zenon DEF InFlightMessages
<1> QED BY <1>1, <1>8 DEF F!fvars

(* The push sends what the block was filled with. *)
LEMMA FifoPush ==
  ASSUME IInv, Push
  PROVE  \E m \in Messages : F!FSend(m)
<1> USE DEF simVars, guiVars
<1>1. /\ sblk \in Blocks /\ data[sblk] \in Messages
      /\ UNCHANGED <<data, delivered, gpc, gblk>> /\ msg_q' = Append(msg_q, sblk)
  BY DEF Push, IInv, HoldsBlock
<1>2. /\ InFlight \in Seq(Blocks) /\ msg_q \in Seq(Blocks)
      /\ data \in [Blocks -> Contents]
      /\ InFlightMessages = Reading(InFlight, data)
  BY InFlightIsRead
<1>3. gpc = "callback" => <<gblk>> \o Append(msg_q, sblk) = Append(<<gblk>> \o msg_q, sblk)
  BY <1>1, <1>2, ConsAppend DEF IInv, HoldsBlock
<1>4. InFlight' = Append(InFlight, sblk)
  BY <1>1, <1>3 DEF InFlight
<1>5. Reading(Append(InFlight, sblk), data) = Append(Reading(InFlight, data), data[sblk])
  BY <1>1, <1>2, ReadingOfAppend
<1>6. InFlightMessages' = Reading(InFlight', data')
  BY DEF InFlightMessages, Reading
<1>7. InFlightMessages' = Append(InFlightMessages, data[sblk])
  BY <1>1, <1>2, <1>4, <1>5, <1>6, Zenon
<1> QED BY <1>1, <1>7 DEF F!FSend

(* The pop takes the block from the queue into the callback's hand. *)
LEMMA FifoPop ==
  ASSUME IInv, DispatchPop
  PROVE  UNCHANGED F!fvars
<1> USE DEF simVars, guiVars
<1>1. /\ UNCHANGED <<data, delivered>> /\ gpc = "dispatch" /\ gpc' = "callback"
      /\ gblk' = Head(msg_q) /\ msg_q' = Tail(msg_q) /\ msg_q # <<>>
  BY DEF DispatchPop
<1>2. <<Head(msg_q)>> \o Tail(msg_q) = msg_q
  BY <1>1, InFlightIsRead, ConsHeadTail
<1>3. InFlight' = InFlight
  BY <1>1, <1>2 DEF InFlight
<1> QED BY <1>1, <1>3 DEF InFlightMessages, F!fvars

(* The callback is given the oldest message in flight. *)
LEMMA FifoCallback ==
  ASSUME IInv, DispatchCallback
  PROVE  F!FDeliver
<1> USE DEF simVars, guiVars
<1>1. /\ gblk \in Blocks /\ delivered' = data[gblk]
      /\ UNCHANGED <<data, msg_q>> /\ gpc = "callback" /\ gpc' # "callback"
  BY DEF DispatchCallback, IInv, HoldsBlock
<1>2. /\ msg_q \in Seq(Blocks)
      /\ data \in [Blocks -> Contents]
      /\ InFlightMessages = Reading(InFlight, data)
  BY InFlightIsRead
<1>3. InFlight = <<gblk>> \o msg_q /\ InFlight' = msg_q
  BY <1>1 DEF InFlight
<1>4. /\ Reading(<<gblk>> \o msg_q, data) # <<>>
      /\ Head(Reading(<<gblk>> \o msg_q, data)) = data[gblk]
      /\ Tail(Reading(<<gblk>> \o msg_q, data)) = Reading(msg_q, data)
  BY <1>1, <1>2, ReadingOfCons
<1>5. InFlightMessages' = Reading(InFlight', data')
  BY DEF InFlightMessages, Reading
<1>6. /\ InFlightMessages # <<>>
      /\ delivered' = Head(InFlightMessages)
      /\ InFlightMessages' = Tail(InFlightMessages)
  BY <1>1, <1>2, <1>3, <1>4, <1>5, Zenon
<1> QED BY <1>6 DEF F!FDeliver

(* The queues, the recycled blocks and the main loop implement the FIFO of *)
(* module Fifo (its safety part): what the GUI is given is what was sent,  *)
(* in that order, each message once.  That each is given is checked by TLC.*)
THEOREM ImplementsFifoSafe == ChSafe => F!FSafe
<1>1. IInv /\ [ChNext]_chvars => [F!FNext]_(F!fvars)
  <2> SUFFICES ASSUME IInv, [ChNext]_chvars PROVE F!FNext \/ UNCHANGED F!fvars
    BY Zenon
  <2>1. CASE SimStep
    BY <2>1, FifoQuiet, FifoFill, FifoPush, Zenon DEF SimStep, F!FNext
  <2>2. CASE GuiStep
    BY <2>2, FifoQuiet, FifoPop, FifoCallback, Zenon DEF GuiStep, F!FNext
  <2>3. CASE PollUserInput \/ UNCHANGED chvars
    BY <2>3, FifoQuiet
  <2> QED BY <2>1, <2>2, <2>3, Zenon DEF ChNext
<1> QED BY <1>1, FifoInit, Inductive, PTL DEF ChSafe, F!FSafe

-----------------------------------------------------------------------------
(***************************************************************************)
(* Three promises of the jobs, for any number of words and values.  The    *)
(* pause of saving and restoring is not left behind: SetPause(FALSE) is    *)
(* the last step of every script that pauses, so that a thread whose job   *)
(* has one owes it until it has been answered.  State files are snapshots: *)
(* how far the script of the GUI thread has come fixes the pause, the      *)
(* buffer and the words of the processor.  And resets are undisturbed      *)
(* where only the menus call: what is left of the script tells whether the *)
(* simulator is running.                                                   *)
(***************************************************************************)
Pausing == {"save", "restore"}
SetPause(v) == Do("set_pause", v)

PauseSteps == {s \in Steps : s.op # "get_run"}    \* what the jobs that pause call
OtherSteps == {s \in Steps : s.op \notin {"set_pause", "close_file"}}  \* what the others call

Calls == [by : Threads, req : Steps, val : Vals \cup BOOLEAN \cup {NoVal}]

JTypeOK ==
  /\ cmd_q \in Seq(Calls) /\ reply_q \in Seq(Calls)
  /\ run \in BOOLEAN /\ pause \in BOOLEAN
  /\ state \in [Words -> Vals]
  /\ job \in [Threads -> JobNames \cup {"none"}]
  /\ todo \in [Threads -> Seq(Steps)]
  /\ waiting \in [Threads -> BOOLEAN]

EndsReleased(s) == s # <<>> => s[Len(s)] = SetPause(FALSE)

ScriptOK(j, s) ==
  /\ j = "none" => s = <<>>
  /\ j \in Pausing => s \in Seq(PauseSteps) /\ EndsReleased(s)
  /\ j \notin Pausing => s \in Seq(OtherSteps)

Scripts == \A t \in Threads : ScriptOK(job[t], todo[t])

(* A message is the step its thread is waiting for, and its only one. *)
OwnStep(q, w, d) ==
  \A i \in 1..Len(q) : w[q[i].by] /\ d[q[i].by] # <<>> /\ q[i].req = Head(d[q[i].by])

OneEach(q) == \A i, j \in 1..Len(q) : q[i].by = q[j].by => i = j

Apart(p, q) == \A i \in 1..Len(p), j \in 1..Len(q) : p[i].by # q[j].by

Own == OwnStep(cmd_q, waiting, todo) /\ OwnStep(reply_q, waiting, todo)

Only == OneEach(cmd_q) /\ OneEach(reply_q) /\ Apart(cmd_q, reply_q)

Released(t) ==
  \E i \in 1..Len(reply_q) : reply_q[i].by = t /\ reply_q[i].req = SetPause(FALSE)

Owes(t) == job[t] \in Pausing /\ todo[t] # <<>> /\ ~Released(t)

Owed == pause => \E t \in Threads : Owes(t)

PauseInv == JTypeOK /\ Scripts /\ Own /\ Only /\ Owed

-----------------------------------------------------------------------------
(* Snapshots, where the command line has the jobs that it has in the code  *)
CliMenu == {"go", "halt", "step"}

QuietSteps == {s \in Steps : s.op \in {"get_run", "set_run", "single_inst"}}

Cli == job["cli"] \in CliMenu \cup {"none"} /\ todo["cli"] \in Seq(QuietSteps)

(* How far the job of the GUI thread has come: the steps that have         *)
(* returned, and those that have been performed                            *)
Returned == Len(Script(job["gui"])) - Len(todo["gui"])

Answered == \E i \in 1..Len(reply_q) : reply_q[i].by = "gui"

Performed == IF Answered THEN Returned + 1 ELSE Returned

(* What is left of the script *)
Rest ==
  /\ Len(todo["gui"]) <= Len(Script(job["gui"]))
  /\ \A i \in 1..Len(todo["gui"]) : todo["gui"][i] = Script(job["gui"])[Returned + i]

Paused == Performed >= 1 /\ Returned < Len(Script(job["gui"])) - 1 => pause

Saved ==
  job["gui"] = "save" =>
    /\ Returned <= NWords + 2 =>
         \A w \in Words : w + 2 <= Returned => buffer[w] = state[w]
    /\ \A i \in 1..Len(reply_q) :
         reply_q[i].by = "gui" /\ reply_q[i].req.op = "read" =>
           reply_q[i].val = state[reply_q[i].req.arg]

Restored ==
  job["gui"] = "restore" /\ Performed <= NWords + 2 =>
    \A w \in Words : w + 2 <= Performed => state[w] = Image[w]

Buffers == buffer \in [Words -> Vals \cup BOOLEAN \cup {NoVal}]

GuiPart == job["gui"] \in Pausing => Rest /\ Paused /\ Saved /\ Restored

SnapInv == Cli /\ Buffers /\ GuiPart

-----------------------------------------------------------------------------
(* The scripts *)

LEMMA Joined ==
  ASSUME NEW S, NEW s \in Seq(S), NEW t \in Seq(S)
  PROVE  /\ s \o t \in Seq(S) /\ Len(s \o t) = Len(s) + Len(t)
         /\ \A i \in 1..Len(t) : (s \o t)[Len(s) + i] = t[i]
BY ConcatProperties

LEMMA Short == \A S : <<>> \in Seq(S) /\ \A e \in S : <<e>> \in Seq(S)
OBVIOUS

(* What is joined to a script that ends by releasing the pause does so too. *)
LEMMA ReleasedAtTheEnd ==
  ASSUME NEW S, NEW s \in Seq(S), NEW t \in Seq(S), t # <<>>, EndsReleased(t)
  PROVE  s \o t \in Seq(S) /\ EndsReleased(s \o t)
<1>1. s \o t \in Seq(S) /\ Len(s \o t) = Len(s) + Len(t)
  BY Joined
<1>2. \A i \in 1..Len(t) : (s \o t)[Len(s) + i] = t[i]
  BY Joined
<1>3. Len(t) \in 1..Len(t)
  OBVIOUS
<1>4. (s \o t)[Len(s) + Len(t)] = t[Len(t)]
  BY <1>2, <1>3
<1>5. t[Len(t)] = SetPause(FALSE)
  BY DEF EndsReleased
<1> QED BY <1>1, <1>4, <1>5 DEF EndsReleased

LEMMA SaveEndsReleased == SaveScript \in Seq(PauseSteps) /\ EndsReleased(SaveScript)
<1> DEFINE a == <<Do("set_pause", TRUE), Do("event", "save_starting")>>
           b == [w \in Words |-> Do("read", w)]
           c == <<Call("close_file"), Do("event", "save_completed"), Do("set_pause", FALSE)>>
<1>1. a \in Seq(PauseSteps)
  BY DEF PauseSteps, Steps, Do
<1>2. b \in Seq(PauseSteps)
  <2>1. \A w \in Words : Do("read", w) \in PauseSteps
    BY DEF PauseSteps, Steps, Do
  <2> QED BY <2>1, JobsAssumption DEF Words
<1>3. c \in Seq(PauseSteps) /\ c # <<>> /\ EndsReleased(c)
  BY DEF PauseSteps, Steps, Do, Call, EndsReleased, SetPause
<1>4. SaveScript = (a \o b) \o c
  BY DEF SaveScript
<1> HIDE DEF a, b, c
<1>5. a \o b \in Seq(PauseSteps)
  BY <1>1, <1>2, Joined
<1> QED BY <1>3, <1>4, <1>5, ReleasedAtTheEnd

LEMMA RestoreEndsReleased == RestoreScript \in Seq(PauseSteps) /\ EndsReleased(RestoreScript)
<1> DEFINE a == <<Do("set_pause", TRUE), Do("event", "restore_starting")>>
           b == [w \in Words |-> Do("write", <<w, Image[w]>>)]
           c == <<Do("event", "restore_completed"), Do("set_pause", FALSE)>>
<1>1. a \in Seq(PauseSteps)
  BY DEF PauseSteps, Steps, Do
<1>2. b \in Seq(PauseSteps)
  <2>1. \A w \in Words : Do("write", <<w, Image[w]>>) \in PauseSteps
    BY JobsAssumption DEF PauseSteps, Steps, Do
  <2> QED BY <2>1, JobsAssumption DEF Words
<1>3. c \in Seq(PauseSteps) /\ c # <<>> /\ EndsReleased(c)
  BY DEF PauseSteps, Steps, Do, EndsReleased, SetPause
<1>4. RestoreScript = (a \o b) \o c
  BY DEF RestoreScript
<1> HIDE DEF a, b, c
<1>5. a \o b \in Seq(PauseSteps)
  BY <1>1, <1>2, Joined
<1> QED BY <1>3, <1>4, <1>5, ReleasedAtTheEnd

(* Every job begins with a script of its kind ... *)
LEMMA ScriptsBeginOK == \A j \in JobNames : ScriptOK(j, Script(j)) /\ Script(j) \in Seq(Steps)
<1> SUFFICES ASSUME NEW j \in JobNames
             PROVE  ScriptOK(j, Script(j)) /\ Script(j) \in Seq(Steps)
  OBVIOUS
<1>1. \A S, T : S \subseteq T => Seq(S) \subseteq Seq(T)
  OBVIOUS
<1>2. PauseSteps \subseteq Steps /\ OtherSteps \subseteq Steps
  BY DEF PauseSteps, OtherSteps
<1>3. CASE j = "save"
  <2>1. Script(j) = SaveScript
    BY <1>3 DEF Script
  <2> QED BY <1>1, <1>2, <1>3, <2>1, SaveEndsReleased DEF ScriptOK, Pausing
<1>4. CASE j = "restore"
  <2>1. Script(j) = RestoreScript
    BY <1>4 DEF Script
  <2> QED BY <1>1, <1>2, <1>4, <2>1, RestoreEndsReleased DEF ScriptOK, Pausing
<1>5. CASE j \notin Pausing
  <2>1. \/ Script(j) = <<Do("event", "key")>>
        \/ Script(j) = <<Do("set_run", TRUE)>>
        \/ Script(j) = <<Do("set_run", FALSE)>>
        \/ Script(j) = <<Call("single_inst")>>
        \/ Script(j) = <<Call("get_run")>>
    BY <1>5 DEF Script, Pausing, JobNames
  <2>2. /\ Do("event", "key") \in OtherSteps /\ Do("set_run", TRUE) \in OtherSteps
        /\ Do("set_run", FALSE) \in OtherSteps
        /\ Call("single_inst") \in OtherSteps /\ Call("get_run") \in OtherSteps
    BY DEF OtherSteps, Steps, Do, Call
  <2>3. Script(j) \in Seq(OtherSteps)
    BY <2>1, <2>2, Short
  <2> QED BY <1>1, <1>2, <1>5, <2>3 DEF ScriptOK, JobNames
<1> QED BY <1>3, <1>4, <1>5 DEF Pausing

(* ... and goes on with one when it has asked whether the simulator runs. *)
LEMMA ContinueOK == \A j, v : Continue(j, v) \in Seq(OtherSteps)
<1> SUFFICES ASSUME NEW j, NEW v PROVE Continue(j, v) \in Seq(OtherSteps)
  OBVIOUS
<1>1. /\ Do("event", "reset") \in OtherSteps /\ Do("event", "clear_memory") \in OtherSteps
      /\ Do("set_run", TRUE) \in OtherSteps /\ Do("set_run", FALSE) \in OtherSteps
      /\ Call("single_inst") \in OtherSteps
  BY DEF OtherSteps, Steps, Do, Call
<1>2. ResetScript(j, v) \in Seq(OtherSteps)
  <2> DEFINE s1 == IF v THEN <<Do("set_run", FALSE)>> ELSE <<>>
             s2 == <<Do("event", "reset")>>
             s3 == IF j = "obdurate_reset" THEN <<Do("event", "clear_memory")>> ELSE <<>>
             s4 == IF v THEN <<Do("set_run", TRUE)>> ELSE <<>>
  <2>1. s1 \in Seq(OtherSteps) /\ s2 \in Seq(OtherSteps) /\ s3 \in Seq(OtherSteps)
        /\ s4 \in Seq(OtherSteps)
    BY <1>1, Short
  <2>2. ResetScript(j, v) = ((s1 \o s2) \o s3) \o s4
    BY DEF ResetScript
  <2> HIDE DEF s1, s2, s3, s4
  <2>3. s1 \o s2 \in Seq(OtherSteps)
    BY <2>1, Joined
  <2>4. (s1 \o s2) \o s3 \in Seq(OtherSteps)
    BY <2>1, <2>3, Joined
  <2> QED BY <2>1, <2>2, <2>4, Joined
<1>3. <<Do("set_run", TRUE)>> \in Seq(OtherSteps) /\ <<Do("set_run", FALSE)>> \in Seq(OtherSteps)
      /\ <<Call("single_inst")>> \in Seq(OtherSteps) /\ <<>> \in Seq(OtherSteps)
  BY <1>1, Short
<1> QED BY <1>2, <1>3 DEF Continue

(* A step done, a script is still one of its kind. *)
LEMMA TailOK ==
  ASSUME NEW j, NEW s \in Seq(Steps), s # <<>>, ScriptOK(j, s)
  PROVE  Tail(s) \in Seq(Steps) /\ ScriptOK(j, Tail(s))
<1>1. Tail(s) \in Seq(Steps) /\ Len(Tail(s)) = Len(s) - 1
  OBVIOUS
<1>2. \A S : s \in Seq(S) => Tail(s) \in Seq(S)
  OBVIOUS
<1>3. EndsReleased(s) => EndsReleased(Tail(s))
  <2> SUFFICES ASSUME EndsReleased(s), Tail(s) # <<>>
               PROVE  Tail(s)[Len(Tail(s))] = SetPause(FALSE)
    BY DEF EndsReleased
  <2>1. Len(Tail(s)) \in 1..Len(Tail(s)) /\ Len(Tail(s)) + 1 = Len(s)
    BY <1>1
  <2>2. Tail(s)[Len(Tail(s))] = s[Len(Tail(s)) + 1]
    BY <2>1
  <2> QED BY <2>1, <2>2 DEF EndsReleased
<1> QED BY <1>1, <1>2, <1>3 DEF ScriptOK

(* The queues *)
LEMMA Appended ==
  ASSUME NEW S, NEW q \in Seq(S), NEW e \in S
  PROVE  /\ Append(q, e) \in Seq(S) /\ Len(Append(q, e)) = Len(q) + 1
         /\ \A i \in 1..Len(q) : Append(q, e)[i] = q[i]
         /\ Append(q, e)[Len(q) + 1] = e
OBVIOUS

LEMMA NotEmpty == \A q : Len(q) # 0 => q # <<>>
OBVIOUS

LEMMA Popped ==
  ASSUME NEW S, NEW q \in Seq(S), q # <<>>
  PROVE  /\ Tail(q) \in Seq(S) /\ Len(Tail(q)) = Len(q) - 1
         /\ Head(q) = q[1] /\ Head(q) \in S /\ 1 \in 1..Len(q)
         /\ \A i \in 1..Len(Tail(q)) : Tail(q)[i] = q[i + 1] /\ i + 1 \in 2..Len(q)
OBVIOUS

-----------------------------------------------------------------------------
(* Types *)

LEMMA MessageIs ==
  ASSUME NEW m \in Calls
  PROVE  /\ m.by \in Threads /\ m.req \in Steps
         /\ m.req.op \in {"set_run", "set_pause"} => m.req.arg \in BOOLEAN
         /\ m.req.op = "read" => m.req.arg \in Words
         /\ m.req.op = "write" => m.req.arg[1] \in Words /\ m.req.arg[2] \in Vals
<1>1. m.by \in Threads /\ m.req \in Steps
  BY DEF Calls
<1> DEFINE s == m.req
<1>2. s \in Steps
  BY <1>1
<1> HIDE DEF s
<1>3. /\ s.op \in {"set_run", "set_pause"} => s.arg \in BOOLEAN
      /\ s.op = "read" => s.arg \in Words
      /\ s.op = "write" => s.arg \in Words \X Vals
  BY <1>2 DEF Steps
<1> QED BY <1>1, <1>3 DEF s

(* What the simulator thread answers: the same message, with a value *)
Answer(m) ==
  [m EXCEPT !.val = IF m.req.op = "get_run" THEN run
                    ELSE IF m.req.op = "read" THEN state[m.req.arg] ELSE NoVal]

LEMMA AnswerIs ==
  ASSUME JTypeOK, NEW m \in Calls
  PROVE  Answer(m) \in Calls /\ Answer(m).by = m.by /\ Answer(m).req = m.req
<1> DEFINE v == IF m.req.op = "get_run" THEN run
                ELSE IF m.req.op = "read" THEN state[m.req.arg] ELSE NoVal
<1>1. v \in Vals \cup BOOLEAN \cup {NoVal}
  BY MessageIs DEF JTypeOK
<1>2. Answer(m) = [m EXCEPT !.val = v]
  BY DEF Answer
<1> HIDE DEF v
<1> QED BY <1>1, <1>2 DEF Calls

(* HandleCommand, the message it handles named *)
LEMMA Handled ==
  ASSUME PauseInv, HandleCommand
  PROVE  /\ cmd_q # <<>> /\ Head(cmd_q) \in Calls
         /\ cmd_q' = Tail(cmd_q) /\ reply_q' = Append(reply_q, Answer(Head(cmd_q)))
         /\ pause' = IF Head(cmd_q).req.op = "set_pause" THEN Head(cmd_q).req.arg ELSE pause
         /\ run' \in BOOLEAN /\ pause' \in BOOLEAN /\ state' \in [Words -> Vals]
         /\ UNCHANGED callers
<1> DEFINE m == Head(cmd_q)
<1>1. cmd_q # <<>> /\ cmd_q \in Seq(Calls)
  BY DEF HandleCommand, PauseInv, JTypeOK
<1>2. m \in Calls
  BY <1>1, Popped
<1>3. /\ run' = IF m.req.op = "set_run" THEN m.req.arg ELSE run
      /\ pause' = IF m.req.op = "set_pause" THEN m.req.arg ELSE pause
  BY DEF HandleCommand
<1>4. IF m.req.op = "event" /\ m.req.arg \notin Deaf THEN state' \in [Words -> Vals]
      ELSE IF m.req.op = "write" THEN state' = [state EXCEPT ![m.req.arg[1]] = m.req.arg[2]]
      ELSE UNCHANGED state
  BY DEF HandleCommand
<1>5. cmd_q' = Tail(cmd_q) /\ reply_q' = Append(reply_q, Answer(m)) /\ UNCHANGED callers
  BY DEF HandleCommand, Answer
<1>6. run \in BOOLEAN /\ pause \in BOOLEAN /\ state \in [Words -> Vals]
  BY DEF PauseInv, JTypeOK
<1> HIDE DEF m
<1>7. run' \in BOOLEAN /\ pause' \in BOOLEAN
  BY <1>2, <1>3, <1>6, MessageIs
<1>8. m.req.op = "write" => m.req.arg[1] \in Words /\ m.req.arg[2] \in Vals
  BY <1>2, MessageIs
<1>9. state' \in [Words -> Vals]
  <2>1. CASE m.req.op = "event" /\ m.req.arg \notin Deaf
    BY <1>4, <2>1
  <2>2. CASE ~(m.req.op = "event" /\ m.req.arg \notin Deaf) /\ m.req.op = "write"
    <3>1. state' = [state EXCEPT ![m.req.arg[1]] = m.req.arg[2]]
      BY <1>4, <2>2
    <3> QED BY <1>6, <1>8, <2>2, <3>1
  <2>3. CASE ~(m.req.op = "event" /\ m.req.arg \notin Deaf) /\ m.req.op # "write"
    BY <1>4, <1>6, <2>3
  <2> QED BY <2>1, <2>2, <2>3
<1> QED BY <1>1, <1>2, <1>3, <1>5, <1>7, <1>9 DEF m

LEMMA RequestedMessage ==
  ASSUME PauseInv, NEW t \in Threads, Request(t)
  PROVE  /\ [by |-> t, req |-> Head(todo[t]), val |-> NoVal] \in Calls
         /\ todo[t] \in Seq(Steps) /\ todo[t] # <<>>
<1>1. todo[t] \in Seq(Steps) /\ todo[t] # <<>>
  BY DEF Request, PauseInv, JTypeOK
<1>2. Head(todo[t]) \in Steps
  BY <1>1, Popped
<1> QED BY <1>1, <1>2 DEF Calls

(* The rest of the script after a reply is one of the job's kind. *)
LEMMA RestAfterReply ==
  ASSUME PauseInv, NEW t \in Threads, Reply(t)
  PROVE  /\ todo' = [todo EXCEPT ![t] = todo'[t]]
         /\ todo'[t] \in Seq(Steps) /\ ScriptOK(job[t], todo'[t])
         /\ job[t] \in Pausing => todo'[t] = Tail(todo[t])
         /\ Head(reply_q).req = Head(todo[t]) /\ todo[t] # <<>> /\ todo[t] \in Seq(Steps)
<1> DEFINE r == Head(reply_q)
           rest == IF r.req.op = "get_run" THEN Continue(job[t], r.val) ELSE Tail(todo[t])
<1>1. reply_q \in Seq(Calls) /\ reply_q # <<>> /\ r.by = t
  BY DEF Reply, PauseInv, JTypeOK
<1>2. r.req = Head(todo[t]) /\ todo[t] # <<>>
  <2>1. 1 \in 1..Len(reply_q) /\ r = reply_q[1]
    BY <1>1, Popped
  <2>2. OwnStep(reply_q, waiting, todo)
    BY DEF PauseInv, Own
  <2> QED BY <1>1, <2>1, <2>2 DEF OwnStep
<1>3. todo[t] \in Seq(Steps) /\ ScriptOK(job[t], todo[t]) /\ todo \in [Threads -> Seq(Steps)]
  BY DEF PauseInv, JTypeOK, Scripts
<1>4. todo' = [todo EXCEPT ![t] = rest]
  BY DEF Reply
<1> HIDE DEF r
<1>5. rest \in Seq(Steps) /\ ScriptOK(job[t], rest)
      /\ (job[t] \in Pausing => rest = Tail(todo[t]))
  <2>1. CASE r.req.op # "get_run"
    BY <1>2, <1>3, <2>1, TailOK
  <2>2. CASE r.req.op = "get_run"
    <3>1. job[t] \notin Pausing
      <4> SUFFICES ASSUME job[t] \in Pausing PROVE FALSE
        OBVIOUS
      <4>1. todo[t] \in Seq(PauseSteps)
        BY <1>3 DEF ScriptOK
      <4>2. Head(todo[t]) \in PauseSteps
        BY <1>2, <4>1, Popped
      <4> QED BY <1>2, <2>2, <4>2 DEF PauseSteps
    <3>2. job[t] # "none"
      BY <1>2, <1>3 DEF ScriptOK
    <3>3. rest \in Seq(OtherSteps)
      BY <2>2, ContinueOK
    <3>4. \A S, T : S \subseteq T => Seq(S) \subseteq Seq(T)
      OBVIOUS
    <3>5. OtherSteps \subseteq Steps
      BY DEF OtherSteps
    <3> QED BY <3>1, <3>2, <3>3, <3>4, <3>5 DEF ScriptOK
  <2> QED BY <2>1, <2>2
<1> HIDE DEF rest
<1>6. todo'[t] = rest
  BY <1>3, <1>4
<1> QED BY <1>2, <1>3, <1>4, <1>5, <1>6 DEF r

LEMMA ClosedFile ==
  ASSUME PauseInv, NEW t \in Threads, CloseFile(t)
  PROVE  /\ todo' = [todo EXCEPT ![t] = Tail(todo[t])]
         /\ todo[t] \in Seq(Steps) /\ todo[t] # <<>> /\ Head(todo[t]).op = "close_file"
         /\ Tail(todo[t]) \in Seq(Steps) /\ ScriptOK(job[t], Tail(todo[t]))
<1>1. /\ todo' = [todo EXCEPT ![t] = Tail(todo[t])]
      /\ todo[t] # <<>> /\ Head(todo[t]).op = "close_file"
  BY DEF CloseFile
<1>2. todo[t] \in Seq(Steps) /\ ScriptOK(job[t], todo[t])
  BY DEF PauseInv, JTypeOK, Scripts
<1> QED BY <1>1, <1>2, TailOK

LEMMA PausePreservesTypes ==
  ASSUME PauseInv, [JNext]_jvars
  PROVE  JTypeOK'
<1>1. JTypeOK
  BY DEF PauseInv
<1>2. ASSUME NEW t \in Threads, NEW j \in JobNames, Begin(t, j) PROVE JTypeOK'
  <2>1. /\ job' = [job EXCEPT ![t] = j] /\ todo' = [todo EXCEPT ![t] = Script(j)]
        /\ UNCHANGED <<cmd_q, reply_q, run, pause, state, waiting>>
    BY <1>2 DEF Begin, queues
  <2>2. Script(j) \in Seq(Steps)
    BY ScriptsBeginOK
  <2> QED BY <1>1, <2>1, <2>2 DEF JTypeOK
<1>3. ASSUME NEW t \in Threads, Request(t) PROVE JTypeOK'
  <2>1. /\ cmd_q' = Append(cmd_q, [by |-> t, req |-> Head(todo[t]), val |-> NoVal])
        /\ waiting' = [waiting EXCEPT ![t] = TRUE]
        /\ UNCHANGED <<reply_q, run, pause, state, job, todo>>
    BY <1>3 DEF Request
  <2>2. [by |-> t, req |-> Head(todo[t]), val |-> NoVal] \in Calls
    BY <1>3, RequestedMessage
  <2>3. cmd_q' \in Seq(Calls)
    BY <1>1, <2>1, <2>2, Appended DEF JTypeOK
  <2> QED BY <1>1, <2>1, <2>3 DEF JTypeOK
<1>4. ASSUME NEW t \in Threads, Reply(t) PROVE JTypeOK'
  <2>1. /\ reply_q # <<>> /\ reply_q' = Tail(reply_q)
        /\ waiting' = [waiting EXCEPT ![t] = FALSE]
        /\ UNCHANGED <<cmd_q, run, pause, state, job>>
    BY <1>4 DEF Reply
  <2>2. todo' = [todo EXCEPT ![t] = todo'[t]] /\ todo'[t] \in Seq(Steps)
    BY <1>4, RestAfterReply
  <2>3. todo' \in [Threads -> Seq(Steps)]
    BY <1>1, <2>2 DEF JTypeOK
  <2>4. reply_q' \in Seq(Calls)
    BY <1>1, <2>1, Popped DEF JTypeOK
  <2> QED BY <1>1, <2>1, <2>3, <2>4 DEF JTypeOK
<1>5. ASSUME NEW t \in Threads, WrongReply(t) PROVE JTypeOK'
  BY <1>1, <1>5 DEF WrongReply, queues, callers, JTypeOK
<1>6. ASSUME NEW t \in Threads, CloseFile(t) PROVE JTypeOK'
  <2>1. UNCHANGED <<cmd_q, reply_q, run, pause, state, job, waiting>>
    BY <1>6 DEF CloseFile, queues
  <2>2. todo' = [todo EXCEPT ![t] = Tail(todo[t])] /\ Tail(todo[t]) \in Seq(Steps)
    BY <1>6, ClosedFile
  <2> QED BY <1>1, <2>1, <2>2 DEF JTypeOK
<1>7. ASSUME NEW t \in Threads, End(t) PROVE JTypeOK'
  BY <1>1, <1>7 DEF End, queues, JTypeOK
<1>8. ASSUME HandleCommand PROVE JTypeOK'
  <2>1. /\ cmd_q # <<>> /\ Head(cmd_q) \in Calls
        /\ cmd_q' = Tail(cmd_q) /\ reply_q' = Append(reply_q, Answer(Head(cmd_q)))
        /\ run' \in BOOLEAN /\ pause' \in BOOLEAN /\ state' \in [Words -> Vals]
        /\ UNCHANGED callers
    BY <1>8, Handled
  <2>2. cmd_q' \in Seq(Calls)
    BY <1>1, <2>1, Popped DEF JTypeOK
  <2>3. reply_q' \in Seq(Calls)
    BY <1>1, <2>1, AnswerIs, Appended DEF JTypeOK
  <2> QED BY <1>1, <2>1, <2>2, <2>3 DEF JTypeOK, callers
<1>9. ASSUME Execute PROVE JTypeOK'
  BY <1>1, <1>9 DEF Execute, queues, callers, JTypeOK
<1>10. ASSUME UNCHANGED jvars PROVE JTypeOK'
  BY <1>1, <1>10 DEF jvars, queues, callers, JTypeOK
<1> QED BY <1>2, <1>3, <1>4, <1>5, <1>6, <1>7, <1>8, <1>9, <1>10 DEF JNext, ThreadStep

LEMMA PausePreservesScripts ==
  ASSUME PauseInv, [JNext]_jvars
  PROVE  Scripts'
<1>1. Scripts /\ job \in [Threads -> JobNames \cup {"none"}] /\ todo \in [Threads -> Seq(Steps)]
  BY DEF PauseInv, JTypeOK
<1>2. ASSUME NEW t \in Threads, NEW j \in JobNames, Begin(t, j) PROVE Scripts'
  <2>1. job' = [job EXCEPT ![t] = j] /\ todo' = [todo EXCEPT ![t] = Script(j)]
    BY <1>2 DEF Begin
  <2>2. ScriptOK(j, Script(j))
    BY ScriptsBeginOK
  <2> QED BY <1>1, <2>1, <2>2 DEF Scripts
<1>3. ASSUME NEW t \in Threads, Reply(t) PROVE Scripts'
  <2>1. job' = job
    BY <1>3 DEF Reply
  <2>2. todo' = [todo EXCEPT ![t] = todo'[t]] /\ ScriptOK(job[t], todo'[t])
    BY <1>3, RestAfterReply
  <2> QED BY <1>1, <2>1, <2>2 DEF Scripts
<1>4. ASSUME NEW t \in Threads, CloseFile(t) PROVE Scripts'
  <2>1. job' = job
    BY <1>4 DEF CloseFile
  <2>2. todo' = [todo EXCEPT ![t] = Tail(todo[t])] /\ ScriptOK(job[t], Tail(todo[t]))
    BY <1>4, ClosedFile
  <2> QED BY <1>1, <2>1, <2>2 DEF Scripts
<1>5. ASSUME NEW t \in Threads, End(t) PROVE Scripts'
  <2>1. job' = [job EXCEPT ![t] = "none"] /\ todo' = todo /\ todo[t] = <<>>
    BY <1>5 DEF End
  <2>2. ScriptOK("none", <<>>)
    BY Short DEF ScriptOK, Pausing
  <2> QED BY <1>1, <2>1, <2>2 DEF Scripts
<1>6. ASSUME UNCHANGED <<job, todo>> PROVE Scripts'
  BY <1>1, <1>6 DEF Scripts
<1>7. ASSUME NEW t \in Threads, Request(t) \/ WrongReply(t) PROVE UNCHANGED <<job, todo>>
  BY <1>7 DEF Request, WrongReply, callers
<1>8. HandleCommand \/ Execute \/ UNCHANGED jvars => UNCHANGED <<job, todo>>
  BY DEF HandleCommand, Execute, jvars, callers
<1> QED BY <1>2, <1>3, <1>4, <1>5, <1>6, <1>7, <1>8 DEF JNext, ThreadStep

-----------------------------------------------------------------------------
(* The messages *)

LEMMA Senders == \A q \in Seq(Calls) : \A i \in 1..Len(q) : q[i].by \in Threads
<1>1. \A q \in Seq(Calls) : \A i \in 1..Len(q) : q[i] \in Calls
  OBVIOUS
<1> QED BY <1>1, MessageIs

(* A thread that does not wait has no message. *)
LEMMA NotWaiting ==
  ASSUME PauseInv, NEW t \in Threads, ~waiting[t]
  PROVE  /\ \A i \in 1..Len(cmd_q) : cmd_q[i].by # t
         /\ \A i \in 1..Len(reply_q) : reply_q[i].by # t
BY DEF PauseInv, Own, OwnStep

(* Messages stay their thread's step where that thread does nothing. *)
LEMMA StepsElsewhere ==
  ASSUME NEW t \in Threads, NEW q \in Seq(Calls), NEW w, NEW d, NEW w1, NEW d1,
         OwnStep(q, w, d), \A i \in 1..Len(q) : q[i].by # t,
         \A u \in Threads : u # t => d1[u] = d[u] /\ w1[u] = w[u]
  PROVE  OwnStep(q, w1, d1)
BY Senders DEF OwnStep

LEMMA TailSteps ==
  ASSUME NEW q \in Seq(Calls), NEW w, NEW d, q # <<>>, OwnStep(q, w, d), OneEach(q)
  PROVE  /\ OwnStep(Tail(q), w, d) /\ OneEach(Tail(q)) /\ Tail(q) \in Seq(Calls)
         /\ \A i \in 1..Len(Tail(q)) : Tail(q)[i].by # Head(q).by
         /\ \A i \in 1..Len(Tail(q)) : \E j \in 1..Len(q) : Tail(q)[i] = q[j]
<1>1. /\ Tail(q) \in Seq(Calls) /\ Len(Tail(q)) = Len(q) - 1
      /\ Head(q) = q[1] /\ 1 \in 1..Len(q)
  BY Popped
<1>2. \A i \in 1..Len(Tail(q)) : Tail(q)[i] = q[i + 1] /\ i + 1 \in 2..Len(q)
  BY Popped
<1>3. \A i \in 1..Len(Tail(q)) : i + 1 \in 1..Len(q) /\ i + 1 # 1
  BY <1>1, <1>2
<1>4. OwnStep(Tail(q), w, d)
  BY <1>2, <1>3 DEF OwnStep
<1>5. OneEach(Tail(q))
  <2> SUFFICES ASSUME NEW i \in 1..Len(Tail(q)), NEW j \in 1..Len(Tail(q)),
                      Tail(q)[i].by = Tail(q)[j].by
               PROVE  i = j
    BY DEF OneEach
  <2>1. i + 1 = j + 1
    BY <1>2, <1>3 DEF OneEach
  <2> QED BY <2>1
<1>6. \A i \in 1..Len(Tail(q)) : Tail(q)[i].by # Head(q).by
  BY <1>1, <1>2, <1>3 DEF OneEach
<1> QED BY <1>1, <1>2, <1>3, <1>4, <1>5, <1>6

LEMMA AppendedSteps ==
  ASSUME NEW q \in Seq(Calls), NEW m \in Calls, NEW w, NEW d,
         OwnStep(q, w, d), OneEach(q),
         \A i \in 1..Len(q) : q[i].by # m.by,
         w[m.by], d[m.by] # <<>>, m.req = Head(d[m.by])
  PROVE  OwnStep(Append(q, m), w, d) /\ OneEach(Append(q, m))
<1> DEFINE a == Append(q, m)
<1>1. Len(a) = Len(q) + 1 /\ a[Len(q) + 1] = m
  BY Appended
<1>2. \A i \in 1..Len(q) : a[i] = q[i]
  BY Appended
<1>3. \A i \in 1..Len(a) : i \in 1..Len(q) \/ i = Len(q) + 1
  BY <1>1
<1> HIDE DEF a
<1>4. OwnStep(a, w, d)
  BY <1>1, <1>2, <1>3 DEF OwnStep
<1>5. OneEach(a)
  <2> SUFFICES ASSUME NEW i \in 1..Len(a), NEW j \in 1..Len(a), a[i].by = a[j].by PROVE i = j
    BY DEF OneEach
  <2>1. CASE i \in 1..Len(q) /\ j \in 1..Len(q)
    BY <1>2, <2>1 DEF OneEach
  <2>2. CASE i = Len(q) + 1 /\ j = Len(q) + 1
    BY <2>2
  <2>3. CASE i \in 1..Len(q) /\ j = Len(q) + 1
    BY <1>1, <1>2, <2>3
  <2>4. CASE i = Len(q) + 1 /\ j \in 1..Len(q)
    BY <1>1, <1>2, <2>4
  <2> QED BY <1>3, <2>1, <2>2, <2>3, <2>4
<1> QED BY <1>4, <1>5 DEF a

LEMMA PausePreservesMessages ==
  ASSUME PauseInv, [JNext]_jvars
  PROVE  Own' /\ Only'
<1>1. /\ cmd_q \in Seq(Calls) /\ reply_q \in Seq(Calls)
      /\ todo \in [Threads -> Seq(Steps)] /\ waiting \in [Threads -> BOOLEAN]
  BY DEF PauseInv, JTypeOK
<1>2. /\ OwnStep(cmd_q, waiting, todo) /\ OwnStep(reply_q, waiting, todo)
      /\ OneEach(cmd_q) /\ OneEach(reply_q) /\ Apart(cmd_q, reply_q)
  BY DEF PauseInv, Own, Only
<1>3. ASSUME NEW t \in Threads, ~waiting[t], UNCHANGED <<cmd_q, reply_q, waiting>>,
             \A u \in Threads : u # t => todo'[u] = todo[u]
      PROVE  Own' /\ Only'
  <2>1. /\ \A i \in 1..Len(cmd_q) : cmd_q[i].by # t
        /\ \A i \in 1..Len(reply_q) : reply_q[i].by # t
    BY <1>3, NotWaiting
  <2>2. OwnStep(cmd_q, waiting, todo')
    BY <1>1, <1>2, <1>3, <2>1, StepsElsewhere
  <2>3. OwnStep(reply_q, waiting, todo')
    BY <1>1, <1>2, <1>3, <2>1, StepsElsewhere
  <2> QED BY <1>2, <1>3, <2>2, <2>3 DEF Own, Only
<1>4. ASSUME NEW t \in Threads, NEW j \in JobNames, Begin(t, j) PROVE Own' /\ Only'
  <2>1. /\ job[t] = "none" /\ todo' = [todo EXCEPT ![t] = Script(j)]
        /\ UNCHANGED <<cmd_q, reply_q, waiting>>
    BY <1>4 DEF Begin, queues
  <2>2. todo[t] = <<>>
    BY <2>1 DEF PauseInv, Scripts, ScriptOK
  <2>3. /\ \A i \in 1..Len(cmd_q) : cmd_q[i].by # t
        /\ \A i \in 1..Len(reply_q) : reply_q[i].by # t
    BY <1>2, <2>2 DEF OwnStep
  <2>4. \A u \in Threads : u # t => todo'[u] = todo[u]
    BY <1>1, <2>1
  <2>5. OwnStep(cmd_q, waiting, todo')
    BY <1>1, <1>2, <2>3, <2>4, StepsElsewhere
  <2>6. OwnStep(reply_q, waiting, todo')
    BY <1>1, <1>2, <2>3, <2>4, StepsElsewhere
  <2> QED BY <1>2, <2>1, <2>5, <2>6 DEF Own, Only
<1>5. ASSUME NEW t \in Threads, Request(t) PROVE Own' /\ Only'
  <2> DEFINE m == [by |-> t, req |-> Head(todo[t]), val |-> NoVal]
  <2>1. /\ ~waiting[t] /\ cmd_q' = Append(cmd_q, m)
        /\ waiting' = [waiting EXCEPT ![t] = TRUE] /\ UNCHANGED <<reply_q, todo>>
    BY <1>5 DEF Request
  <2>2. m \in Calls /\ m.by = t /\ m.req = Head(todo[t]) /\ todo[t] # <<>>
    BY <1>5, RequestedMessage
  <2> HIDE DEF m
  <2>3. /\ \A i \in 1..Len(cmd_q) : cmd_q[i].by # t
        /\ \A i \in 1..Len(reply_q) : reply_q[i].by # t
    BY <2>1, NotWaiting
  <2>4. waiting'[t] /\ \A u \in Threads : u # t => waiting'[u] = waiting[u]
    BY <1>1, <2>1
  <2>5. OwnStep(cmd_q, waiting', todo)
    BY <1>1, <1>2, <2>3, <2>4, StepsElsewhere
  <2>6. OwnStep(reply_q, waiting', todo)
    BY <1>1, <1>2, <2>3, <2>4, StepsElsewhere
  <2>7. OwnStep(Append(cmd_q, m), waiting', todo) /\ OneEach(Append(cmd_q, m))
    BY <1>1, <1>2, <2>2, <2>3, <2>4, <2>5, AppendedSteps
  <2>8. Apart(Append(cmd_q, m), reply_q)
    <3>1. Len(Append(cmd_q, m)) = Len(cmd_q) + 1 /\ Append(cmd_q, m)[Len(cmd_q) + 1] = m
      BY <1>1, <2>2, Appended
    <3>2. \A i \in 1..Len(cmd_q) : Append(cmd_q, m)[i] = cmd_q[i]
      BY <1>1, <2>2, Appended
    <3>3. Len(cmd_q) \in Nat
      BY <1>1
    <3> QED BY <1>2, <2>2, <2>3, <3>1, <3>2, <3>3 DEF Apart
  <2> QED BY <1>2, <2>1, <2>6, <2>7, <2>8 DEF Own, Only
<1>6. ASSUME NEW t \in Threads, Reply(t) PROVE Own' /\ Only'
  <2>1. /\ reply_q # <<>> /\ Head(reply_q).by = t /\ reply_q' = Tail(reply_q)
        /\ waiting' = [waiting EXCEPT ![t] = FALSE] /\ UNCHANGED cmd_q
    BY <1>6 DEF Reply
  <2>2. todo' = [todo EXCEPT ![t] = todo'[t]]
    BY <1>6, RestAfterReply
  <2>3. \A u \in Threads : u # t => todo'[u] = todo[u] /\ waiting'[u] = waiting[u]
    BY <1>1, <2>1, <2>2
  <2>4. /\ OwnStep(Tail(reply_q), waiting, todo) /\ OneEach(Tail(reply_q))
        /\ Tail(reply_q) \in Seq(Calls)
        /\ \A i \in 1..Len(Tail(reply_q)) : Tail(reply_q)[i].by # t
        /\ \A i \in 1..Len(Tail(reply_q)) :
             \E j \in 1..Len(reply_q) : Tail(reply_q)[i] = reply_q[j]
    BY <1>1, <1>2, <2>1, TailSteps
  <2>5. \A i \in 1..Len(cmd_q) : cmd_q[i].by # t
    <3>1. 1 \in 1..Len(reply_q) /\ reply_q[1].by = t
      BY <1>1, <2>1, Popped
    <3> QED BY <1>2, <3>1 DEF Apart
  <2> DEFINE w1 == waiting'
             d1 == todo'
  <2>9. \A u \in Threads : u # t => d1[u] = todo[u] /\ w1[u] = waiting[u]
    BY <2>3
  <2> HIDE DEF w1, d1
  <2>6. OwnStep(cmd_q, w1, d1)
    BY <1>1, <1>2, <2>9, <2>5, Senders DEF OwnStep
  <2>7. OwnStep(Tail(reply_q), w1, d1)
    BY <2>9, <2>4, Senders DEF OwnStep
  <2>8. Apart(cmd_q, Tail(reply_q))
    BY <1>2, <2>4 DEF Apart
  <2> QED BY <1>2, <2>1, <2>4, <2>6, <2>7, <2>8 DEF Own, Only, w1, d1
<1>7. ASSUME NEW t \in Threads, CloseFile(t) PROVE Own' /\ Only'
  <2>1. ~waiting[t] /\ UNCHANGED <<cmd_q, reply_q, waiting>>
    BY <1>7 DEF CloseFile, queues
  <2>2. todo' = [todo EXCEPT ![t] = Tail(todo[t])]
    BY <1>7 DEF CloseFile
  <2>3. \A u \in Threads : u # t => todo'[u] = todo[u]
    BY <1>1, <2>2
  <2> QED BY <1>3, <2>1, <2>3
<1>8. ASSUME HandleCommand PROVE Own' /\ Only'
  <2> DEFINE m == Head(cmd_q)
             a == Answer(m)
  <2>1. /\ cmd_q # <<>> /\ m \in Calls /\ UNCHANGED <<todo, waiting>>
        /\ cmd_q' = Tail(cmd_q) /\ reply_q' = Append(reply_q, a)
    BY <1>8, Handled DEF callers
  <2>2. a \in Calls /\ a.by = m.by /\ a.req = m.req
    BY <2>1, AnswerIs DEF PauseInv
  <2>3. 1 \in 1..Len(cmd_q) /\ m = cmd_q[1]
    BY <1>1, <2>1, Popped
  <2> HIDE DEF a, m
  <2>4. /\ OwnStep(Tail(cmd_q), waiting, todo) /\ OneEach(Tail(cmd_q))
        /\ \A i \in 1..Len(Tail(cmd_q)) : Tail(cmd_q)[i].by # m.by
        /\ \A i \in 1..Len(Tail(cmd_q)) : \E j \in 1..Len(cmd_q) : Tail(cmd_q)[i] = cmd_q[j]
    BY <1>1, <1>2, <2>1, TailSteps DEF m
  <2>5. \A i \in 1..Len(reply_q) : reply_q[i].by # m.by
    BY <1>2, <2>3 DEF Apart
  <2>6. waiting[m.by] /\ todo[m.by] # <<>> /\ m.req = Head(todo[m.by])
    BY <1>2, <2>3 DEF OwnStep
  <2>7. OwnStep(Append(reply_q, a), waiting, todo) /\ OneEach(Append(reply_q, a))
    BY <1>1, <1>2, <2>2, <2>5, <2>6, AppendedSteps
  <2>8. Apart(Tail(cmd_q), Append(reply_q, a))
    <3>1. Len(Append(reply_q, a)) = Len(reply_q) + 1 /\ Append(reply_q, a)[Len(reply_q) + 1] = a
      BY <1>1, <2>2, Appended
    <3>2. \A i \in 1..Len(reply_q) : Append(reply_q, a)[i] = reply_q[i]
      BY <1>1, <2>2, Appended
    <3>3. Len(reply_q) \in Nat
      BY <1>1
    <3>4. \A i \in 1..Len(Append(reply_q, a)) : i \in 1..Len(reply_q) \/ i = Len(reply_q) + 1
      BY <3>1, <3>3
    <3>5. \A i \in 1..Len(Tail(cmd_q)), j \in 1..Len(reply_q) : Tail(cmd_q)[i].by # reply_q[j].by
      BY <1>2, <2>4 DEF Apart
    <3> QED BY <2>2, <2>4, <3>1, <3>2, <3>4, <3>5 DEF Apart
  <2> QED BY <2>1, <2>4, <2>7, <2>8 DEF Own, Only
<1>9. ASSUME UNCHANGED <<cmd_q, reply_q, waiting, todo>> PROVE Own' /\ Only'
  BY <1>2, <1>9 DEF Own, Only
<1>10. ASSUME NEW t \in Threads, End(t) \/ WrongReply(t)
       PROVE  UNCHANGED <<cmd_q, reply_q, waiting, todo>>
  BY <1>10 DEF End, WrongReply, queues, callers
<1>11. Execute \/ UNCHANGED jvars => UNCHANGED <<cmd_q, reply_q, waiting, todo>>
  BY DEF Execute, jvars, queues, callers
<1> QED BY <1>4, <1>5, <1>6, <1>7, <1>8, <1>9, <1>10, <1>11 DEF JNext, ThreadStep

-----------------------------------------------------------------------------
(* The pause *)

(* A thread goes on owing the release while none is answered to it. *)
LEMMA StillOwes ==
  ASSUME NEW u \in Threads, Owes(u), job'[u] = job[u], todo'[u] # <<>>,
         \A i \in 1..Len(reply_q') :
           reply_q'[i].by # u \/ reply_q'[i].req # SetPause(FALSE)
                              \/ \E j \in 1..Len(reply_q) : reply_q'[i] = reply_q[j]
  PROVE  Owes(u)'
BY DEF Owes, Released

LEMMA PausePreservesOwed ==
  ASSUME PauseInv, [JNext]_jvars
  PROVE  Owed'
<1>1. /\ cmd_q \in Seq(Calls) /\ reply_q \in Seq(Calls)
      /\ job \in [Threads -> JobNames \cup {"none"}] /\ todo \in [Threads -> Seq(Steps)]
  BY DEF PauseInv, JTypeOK
<1>2. Owed /\ Scripts
  BY DEF PauseInv
<1>3. ASSUME UNCHANGED <<pause, job, todo, reply_q>> PROVE Owed'
  BY <1>2, <1>3 DEF Owed, Owes, Released
<1>4. ASSUME NEW t \in Threads, NEW j \in JobNames, Begin(t, j) PROVE Owed'
  <2>1. /\ job[t] = "none" /\ job' = [job EXCEPT ![t] = j]
        /\ todo' = [todo EXCEPT ![t] = Script(j)] /\ UNCHANGED <<pause, reply_q>>
    BY <1>4 DEF Begin, queues
  <2>2. \A u \in Threads : Owes(u) => u # t /\ job'[u] = job[u] /\ todo'[u] = todo[u]
    BY <1>1, <2>1 DEF Owes, Pausing
  <2>3. \A u \in Threads : Owes(u) => Owes(u)'
    BY <2>1, <2>2 DEF Owes, Released
  <2> QED BY <1>2, <2>1, <2>3 DEF Owed
<1>5. ASSUME NEW t \in Threads, Reply(t) PROVE Owed'
  <2>1. /\ reply_q # <<>> /\ Head(reply_q).by = t /\ reply_q' = Tail(reply_q)
        /\ UNCHANGED <<pause, job>>
    BY <1>5 DEF Reply
  <2>2. /\ todo' = [todo EXCEPT ![t] = todo'[t]]
        /\ job[t] \in Pausing => todo'[t] = Tail(todo[t])
        /\ Head(reply_q).req = Head(todo[t]) /\ todo[t] # <<>> /\ todo[t] \in Seq(Steps)
    BY <1>5, RestAfterReply
  <2>3. /\ 1 \in 1..Len(reply_q) /\ Head(reply_q) = reply_q[1]
        /\ \A i \in 1..Len(Tail(reply_q)) : \E k \in 1..Len(reply_q) : Tail(reply_q)[i] = reply_q[k]
    <3>1. 1 \in 1..Len(reply_q) /\ Head(reply_q) = reply_q[1]
          /\ Len(Tail(reply_q)) = Len(reply_q) - 1
      BY <1>1, <2>1, Popped
    <3>2. \A i \in 1..Len(Tail(reply_q)) : Tail(reply_q)[i] = reply_q[i + 1]
      BY <1>1, <2>1, Popped
    <3>3. \A i \in 1..Len(Tail(reply_q)) : i + 1 \in 1..Len(reply_q)
      BY <1>1, <3>1
    <3> QED BY <3>1, <3>2, <3>3
  <2>4. ASSUME NEW u \in Threads, Owes(u) PROVE todo'[u] # <<>>
    <3>1. CASE u # t
      BY <1>1, <2>2, <2>4, <3>1 DEF Owes
    <3>2. CASE u = t
      <4>1. Head(todo[t]) # SetPause(FALSE)
        BY <2>1, <2>2, <2>3, <2>4, <3>2 DEF Owes, Released
      <4>2. job[t] \in Pausing /\ EndsReleased(todo[t])
        BY <1>2, <2>4, <3>2 DEF Owes, Scripts, ScriptOK
      <4>3. todo[t][Len(todo[t])] = SetPause(FALSE)
        BY <2>2, <4>2 DEF EndsReleased
      <4>4. Head(todo[t]) = todo[t][1] /\ Len(todo[t]) \in Nat \ {0}
        BY <2>2
      <4>5. Len(todo[t]) # 1
        BY <4>1, <4>3, <4>4
      <4>6. Len(Tail(todo[t])) = Len(todo[t]) - 1
        BY <2>2, Popped
      <4>7. Len(Tail(todo[t])) # 0
        BY <4>4, <4>5, <4>6
      <4>8. todo'[t] = Tail(todo[t])
        BY <2>2, <4>2
      <4>9. Tail(todo[t]) # <<>>
        BY <4>7, NotEmpty
      <4> QED BY <3>2, <4>8, <4>9
    <3> QED BY <3>1, <3>2
  <2>5. ASSUME NEW u \in Threads, Owes(u) PROVE Owes(u)'
    BY <2>1, <2>3, <2>4, <2>5, StillOwes
  <2> QED BY <1>2, <2>1, <2>5 DEF Owed
<1>6. ASSUME NEW t \in Threads, CloseFile(t) PROVE Owed'
  <2>1. UNCHANGED <<pause, job, reply_q>>
    BY <1>6 DEF CloseFile, queues
  <2>2. /\ todo' = [todo EXCEPT ![t] = Tail(todo[t])]
        /\ todo[t] \in Seq(Steps) /\ todo[t] # <<>> /\ Head(todo[t]).op = "close_file"
    BY <1>6, ClosedFile
  <2>3. ASSUME NEW u \in Threads, Owes(u) PROVE todo'[u] # <<>>
    <3>1. CASE u # t
      BY <1>1, <2>2, <2>3, <3>1 DEF Owes
    <3>2. CASE u = t
      <4>1. EndsReleased(todo[t])
        BY <1>2, <2>3, <3>2 DEF Owes, Scripts, ScriptOK
      <4>2. todo[t][Len(todo[t])] = SetPause(FALSE)
        BY <2>2, <4>1 DEF EndsReleased
      <4>3. Head(todo[t]) = todo[t][1] /\ Len(todo[t]) \in Nat \ {0}
        BY <2>2
      <4>4. SetPause(FALSE).op # "close_file"
        BY DEF SetPause, Do
      <4>5. Len(todo[t]) # 1
        BY <2>2, <4>2, <4>3, <4>4
      <4>6. Len(Tail(todo[t])) = Len(todo[t]) - 1
        BY <2>2, Popped
      <4>7. Len(Tail(todo[t])) # 0
        BY <4>3, <4>5, <4>6
      <4>8. todo'[t] = Tail(todo[t])
        BY <1>1, <2>2
      <4>9. Tail(todo[t]) # <<>>
        BY <4>7, NotEmpty
      <4> QED BY <3>2, <4>8, <4>9
    <3> QED BY <3>1, <3>2
  <2>4. ASSUME NEW u \in Threads, Owes(u) PROVE Owes(u)'
    BY <2>1, <2>3, <2>4, StillOwes
  <2> QED BY <1>2, <2>1, <2>4 DEF Owed
<1>7. ASSUME NEW t \in Threads, End(t) PROVE Owed'
  <2>1. /\ todo[t] = <<>> /\ job' = [job EXCEPT ![t] = "none"]
        /\ UNCHANGED <<pause, reply_q, todo>>
    BY <1>7 DEF End, queues
  <2>2. \A u \in Threads : Owes(u) => u # t /\ job'[u] = job[u]
    BY <1>1, <2>1 DEF Owes
  <2>3. \A u \in Threads : Owes(u) => Owes(u)'
    BY <2>1, <2>2 DEF Owes, Released
  <2> QED BY <1>2, <2>1, <2>3 DEF Owed
<1>8. ASSUME HandleCommand PROVE Owed'
  <2> DEFINE m == Head(cmd_q)
             a == Answer(m)
  <2>1. /\ cmd_q # <<>> /\ m \in Calls /\ UNCHANGED <<todo, job>>
        /\ reply_q' = Append(reply_q, a)
        /\ pause' = IF m.req.op = "set_pause" THEN m.req.arg ELSE pause
    BY <1>8, Handled DEF callers
  <2>2. a \in Calls /\ a.by = m.by /\ a.req = m.req
    BY <2>1, AnswerIs DEF PauseInv
  <2>3. /\ 1 \in 1..Len(cmd_q) /\ m = cmd_q[1]
    BY <1>1, <2>1, Popped
  <2> HIDE DEF a, m
  <2>4. m.by \in Threads /\ m.req \in Steps
    BY <2>1, MessageIs
  <2>5. todo[m.by] # <<>> /\ m.req = Head(todo[m.by])
    BY <2>3 DEF PauseInv, Own, OwnStep
  <2>6. /\ Len(reply_q') = Len(reply_q) + 1 /\ reply_q'[Len(reply_q) + 1] = a
    BY <1>1, <2>1, <2>2, Appended
  <2>7. \A i \in 1..Len(reply_q) : reply_q'[i] = reply_q[i]
    BY <1>1, <2>1, <2>2, Appended
  <2>8. \A i \in 1..Len(reply_q') : i \in 1..Len(reply_q) \/ i = Len(reply_q) + 1
    BY <1>1, <2>6
  <2>9. m.req # SetPause(FALSE) => \A u \in Threads : Owes(u) => Owes(u)'
    BY <2>1, <2>2, <2>6, <2>7, <2>8 DEF Owes, Released
  <2>10. CASE m.req.op # "set_pause"
    <3>1. m.req # SetPause(FALSE)
      BY <2>10 DEF SetPause, Do
    <3> QED BY <1>2, <2>1, <2>9, <2>10, <3>1 DEF Owed
  <2>11. CASE m.req.op = "set_pause"
    <3>1. pause' = m.req.arg
      BY <2>1, <2>11
    <3>0. PICK t \in Threads : t = m.by
      BY <2>4
    <3>2. SUFFICES ASSUME m.req.arg PROVE Owes(t)'
      BY <3>1 DEF Owed
    <3>3. m.req # SetPause(FALSE)
      BY <3>2 DEF SetPause, Do
    <3>4. todo[m.by] \in Seq(Steps) /\ ScriptOK(job[m.by], todo[m.by])
      BY <1>1, <1>2, <2>4 DEF Scripts
    <3>5. job[m.by] \in Pausing
      <4> SUFFICES ASSUME job[m.by] \notin Pausing PROVE FALSE
        OBVIOUS
      <4>1. todo[m.by] \in Seq(OtherSteps)
        BY <3>4 DEF ScriptOK
      <4>2. Head(todo[m.by]) \in OtherSteps
        BY <2>5, <4>1, Popped
      <4> QED BY <2>5, <2>11, <4>2 DEF OtherSteps
    <3>6. \A i \in 1..Len(reply_q) : reply_q[i].by = m.by => reply_q[i].req = m.req
      BY <2>5 DEF PauseInv, Own, OwnStep
    <3>7. Owes(t)
      BY <2>5, <3>0, <3>3, <3>5, <3>6 DEF Owes, Released
    <3> QED BY <2>9, <3>3, <3>7
  <2> QED BY <2>10, <2>11
<1>9. ASSUME NEW t \in Threads, Request(t) \/ WrongReply(t)
      PROVE  UNCHANGED <<pause, job, todo, reply_q>>
  BY <1>9 DEF Request, WrongReply, queues, callers
<1>10. Execute \/ UNCHANGED jvars => UNCHANGED <<pause, job, todo, reply_q>>
  BY DEF Execute, jvars, queues, callers
<1> QED BY <1>3, <1>4, <1>5, <1>6, <1>7, <1>8, <1>9, <1>10 DEF JNext, ThreadStep

LEMMA PauseInvInit == JInit => PauseInv
<1> SUFFICES ASSUME JInit PROVE PauseInv
  OBVIOUS
<1>1. cmd_q = <<>> /\ reply_q = <<>> /\ Len(cmd_q) = 0 /\ Len(reply_q) = 0
  BY DEF JInit
<1>2. JTypeOK
  BY Short DEF JInit, JTypeOK
<1>3. Scripts
  BY Short DEF JInit, Scripts, ScriptOK, Pausing
<1>4. Own /\ Only
  BY <1>1 DEF Own, Only, OwnStep, OneEach, Apart
<1>5. Owed
  BY DEF JInit, Owed
<1> QED BY <1>2, <1>3, <1>4, <1>5 DEF PauseInv

(* Outside of saving and restoring the simulator is not paused, whatever   *)
(* the jobs of the two threads, so that a start is never silently without  *)
(* effect.                                                                 *)
THEOREM PauseIsReleasedCorrect == JSpec => []PauseIsReleased
<1>1. PauseInv /\ [JNext]_jvars => PauseInv'
  BY PausePreservesTypes, PausePreservesScripts, PausePreservesMessages, PausePreservesOwed
     DEF PauseInv
<1>2. PauseInv => PauseIsReleased
  BY DEF PauseInv, Owed, Owes, Pausing, PauseIsReleased
<1> QED BY PauseInvInit, <1>1, <1>2, PTL DEF JSpec

-----------------------------------------------------------------------------
(* Where in a script which step is *)

LEMMA ThreeParts ==
  ASSUME NEW S, NEW a \in Seq(S), NEW b \in Seq(S), NEW c \in Seq(S), NEW r, r = (a \o b) \o c
  PROVE  /\ Len(r) = Len(a) + Len(b) + Len(c)
         /\ \A i \in 1..Len(a) : r[i] = a[i]
         /\ \A i \in 1..Len(b) : r[Len(a) + i] = b[i]
         /\ \A i \in 1..Len(c) : r[Len(a) + Len(b) + i] = c[i]
<1> DEFINE d == a \o b
<1>1. d \in Seq(S) /\ Len(d) = Len(a) + Len(b)
  BY Joined
<1>2. \A i \in 1..Len(a) : d[i] = a[i]
  BY ConcatProperties
<1>3. \A i \in 1..Len(b) : d[Len(a) + i] = b[i]
  BY Joined
<1>4. r = d \o c
  OBVIOUS
<1> HIDE DEF d
<1>5. Len(r) = Len(d) + Len(c)
  BY <1>1, <1>4, Joined
<1>6. \A i \in 1..Len(d) : r[i] = d[i]
  BY <1>1, <1>4, ConcatProperties
<1>7. \A i \in 1..Len(c) : r[Len(d) + i] = c[i]
  BY <1>1, <1>4, Joined
<1>8. Len(a) \in Nat /\ Len(b) \in Nat
  OBVIOUS
<1>9. \A i \in 1..Len(a) : r[i] = a[i]
  BY <1>1, <1>2, <1>6, <1>8
<1>10. \A i \in 1..Len(b) : r[Len(a) + i] = b[i]
  BY <1>1, <1>3, <1>6, <1>8
<1> QED BY <1>1, <1>5, <1>7, <1>9, <1>10

Event(e) == Do("event", e)

LEMMA SaveSteps ==
  /\ Len(SaveScript) = NWords + 5
  /\ SaveScript[1] = SetPause(TRUE) /\ SaveScript[2] = Event("save_starting")
  /\ \A w \in Words : SaveScript[w + 2] = Do("read", w)
  /\ SaveScript[NWords + 3] = Call("close_file")
  /\ SaveScript[NWords + 4] = Event("save_completed")
  /\ SaveScript[NWords + 5] = SetPause(FALSE)
<1> DEFINE a == <<SetPause(TRUE), Event("save_starting")>>
           b == [w \in Words |-> Do("read", w)]
           c == <<Call("close_file"), Event("save_completed"), SetPause(FALSE)>>
           r == SaveScript
<1>1. a \in Seq(Steps) /\ c \in Seq(Steps)
  BY DEF Steps, Do, SetPause, Event, Call
<1>2. b \in Seq(Steps)
  <2>1. \A w \in Words : Do("read", w) \in Steps
    BY DEF Steps, Do
  <2> QED BY <2>1, JobsAssumption DEF Words
<1>3. Len(a) = 2 /\ a[1] = SetPause(TRUE) /\ a[2] = Event("save_starting")
  OBVIOUS
<1>4. Len(b) = NWords /\ \A w \in Words : b[w] = Do("read", w)
  BY JobsAssumption DEF Words
<1>5. Len(c) = 3 /\ c[1] = Call("close_file") /\ c[2] = Event("save_completed")
      /\ c[3] = SetPause(FALSE)
  OBVIOUS
<1>6. r = (a \o b) \o c
  BY DEF SaveScript, SetPause, Event
<1> HIDE DEF a, b, c, r
<1>7. Len(r) = Len(a) + Len(b) + Len(c)
  BY <1>1, <1>2, <1>6, ThreeParts
<1>8. \A i \in 1..Len(a) : r[i] = a[i]
  BY <1>1, <1>2, <1>6, ThreeParts
<1>9. \A i \in 1..Len(b) : r[Len(a) + i] = b[i]
  BY <1>1, <1>2, <1>6, ThreeParts
<1>10. \A i \in 1..Len(c) : r[Len(a) + Len(b) + i] = c[i]
  BY <1>1, <1>2, <1>6, ThreeParts
<1>11. NWords \in Nat
  BY JobsAssumption
<1>12. Len(r) = NWords + 5
  BY <1>3, <1>4, <1>5, <1>7, <1>11
<1>13. r[1] = a[1] /\ r[2] = a[2]
  <2>1. 1 \in 1..Len(a) /\ 2 \in 1..Len(a)
    BY <1>3
  <2> QED BY <1>8, <2>1
<1>14. \A w \in Words : r[w + 2] = b[w]
  <2> SUFFICES ASSUME NEW w \in Words PROVE r[w + 2] = b[w]
    OBVIOUS
  <2>1. w \in 1..Len(b) /\ Len(a) + w = w + 2
    BY <1>3, <1>4, <1>11 DEF Words
  <2>2. r[Len(a) + w] = b[w]
    BY <1>9, <2>1
  <2> QED BY <2>1, <2>2
<1>15. r[NWords + 3] = c[1] /\ r[NWords + 4] = c[2] /\ r[NWords + 5] = c[3]
  <2>1. 1 \in 1..Len(c) /\ 2 \in 1..Len(c) /\ 3 \in 1..Len(c)
    BY <1>5
  <2>2. /\ Len(a) + Len(b) + 1 = NWords + 3 /\ Len(a) + Len(b) + 2 = NWords + 4
        /\ Len(a) + Len(b) + 3 = NWords + 5
    BY <1>3, <1>4, <1>11
  <2>3. /\ r[Len(a) + Len(b) + 1] = c[1] /\ r[Len(a) + Len(b) + 2] = c[2]
        /\ r[Len(a) + Len(b) + 3] = c[3]
    BY <1>10, <2>1
  <2> QED BY <2>2, <2>3
<1> QED BY <1>3, <1>4, <1>5, <1>12, <1>13, <1>14, <1>15 DEF r

LEMMA RestoreSteps ==
  /\ Len(RestoreScript) = NWords + 4
  /\ RestoreScript[1] = SetPause(TRUE) /\ RestoreScript[2] = Event("restore_starting")
  /\ \A w \in Words : RestoreScript[w + 2] = Do("write", <<w, Image[w]>>)
  /\ RestoreScript[NWords + 3] = Event("restore_completed")
  /\ RestoreScript[NWords + 4] = SetPause(FALSE)
<1> DEFINE a == <<SetPause(TRUE), Event("restore_starting")>>
           b == [w \in Words |-> Do("write", <<w, Image[w]>>)]
           c == <<Event("restore_completed"), SetPause(FALSE)>>
           r == RestoreScript
<1>1. a \in Seq(Steps) /\ c \in Seq(Steps)
  BY DEF Steps, Do, SetPause, Event
<1>2. b \in Seq(Steps)
  <2>1. \A w \in Words : Do("write", <<w, Image[w]>>) \in Steps
    BY JobsAssumption DEF Steps, Do
  <2> QED BY <2>1, JobsAssumption DEF Words
<1>3. Len(a) = 2 /\ a[1] = SetPause(TRUE) /\ a[2] = Event("restore_starting")
  OBVIOUS
<1>4. Len(b) = NWords /\ \A w \in Words : b[w] = Do("write", <<w, Image[w]>>)
  BY JobsAssumption DEF Words
<1>5. Len(c) = 2 /\ c[1] = Event("restore_completed") /\ c[2] = SetPause(FALSE)
  OBVIOUS
<1>6. r = (a \o b) \o c
  BY DEF RestoreScript, SetPause, Event
<1> HIDE DEF a, b, c, r
<1>7. Len(r) = Len(a) + Len(b) + Len(c)
  BY <1>1, <1>2, <1>6, ThreeParts
<1>8. \A i \in 1..Len(a) : r[i] = a[i]
  BY <1>1, <1>2, <1>6, ThreeParts
<1>9. \A i \in 1..Len(b) : r[Len(a) + i] = b[i]
  BY <1>1, <1>2, <1>6, ThreeParts
<1>10. \A i \in 1..Len(c) : r[Len(a) + Len(b) + i] = c[i]
  BY <1>1, <1>2, <1>6, ThreeParts
<1>11. NWords \in Nat
  BY JobsAssumption
<1>12. Len(r) = NWords + 4
  BY <1>3, <1>4, <1>5, <1>7, <1>11
<1>13. r[1] = a[1] /\ r[2] = a[2]
  <2>1. 1 \in 1..Len(a) /\ 2 \in 1..Len(a)
    BY <1>3
  <2> QED BY <1>8, <2>1
<1>14. \A w \in Words : r[w + 2] = b[w]
  <2> SUFFICES ASSUME NEW w \in Words PROVE r[w + 2] = b[w]
    OBVIOUS
  <2>1. w \in 1..Len(b) /\ Len(a) + w = w + 2
    BY <1>3, <1>4, <1>11 DEF Words
  <2>2. r[Len(a) + w] = b[w]
    BY <1>9, <2>1
  <2> QED BY <2>1, <2>2
<1>15. r[NWords + 3] = c[1] /\ r[NWords + 4] = c[2]
  <2>1. 1 \in 1..Len(c) /\ 2 \in 1..Len(c)
    BY <1>5
  <2>2. Len(a) + Len(b) + 1 = NWords + 3 /\ Len(a) + Len(b) + 2 = NWords + 4
    BY <1>3, <1>4, <1>11
  <2>3. r[Len(a) + Len(b) + 1] = c[1] /\ r[Len(a) + Len(b) + 2] = c[2]
    BY <1>10, <2>1
  <2> QED BY <2>2, <2>3
<1> QED BY <1>3, <1>4, <1>5, <1>12, <1>13, <1>14, <1>15 DEF r

(* The same, told by the kind of step *)
LEMMA SaveAt ==
  \A i \in 1..Len(SaveScript) :
    /\ SaveScript[i].op = "close_file" => i = NWords + 3
    /\ SaveScript[i].op # "write"
    /\ SaveScript[i].op = "event" => SaveScript[i].arg \in Deaf
    /\ SaveScript[i].op = "set_pause" /\ i < Len(SaveScript) => SaveScript[i].arg = TRUE
    /\ SaveScript[i].op = "read" => i <= NWords + 2
    /\ i - 2 \in Words => SaveScript[i] = Do("read", i - 2)
    /\ i = 1 => SaveScript[i] = SetPause(TRUE)
<1> SUFFICES ASSUME NEW i \in 1..(NWords + 5)
    PROVE  LET e == SaveScript[i] IN
           /\ e.op = "close_file" => i = NWords + 3
           /\ e.op # "write"
           /\ e.op = "event" => e.arg \in Deaf
           /\ e.op = "set_pause" /\ i < NWords + 5 => e.arg = TRUE
           /\ e.op = "read" => i <= NWords + 2
           /\ i - 2 \in Words => e = Do("read", i - 2)
           /\ i = 1 => e = SetPause(TRUE)
  BY SaveSteps
<1>1. NWords \in Nat \ {0}
  BY JobsAssumption
<1>2. \/ i = 1 \/ i = 2 \/ i - 2 \in Words
      \/ i = NWords + 3 \/ i = NWords + 4 \/ i = NWords + 5
  BY <1>1 DEF Words
<1>3. CASE i = 1
  BY <1>1, <1>3, SaveSteps DEF SetPause, Do, Words
<1>4. CASE i = 2
  BY <1>1, <1>4, SaveSteps DEF Event, Do, Words, Deaf
<1>5. CASE i - 2 \in Words
  <2>1. (i - 2) + 2 = i /\ i <= NWords + 2 /\ i # 1
    BY <1>1, <1>5 DEF Words
  <2>2. SaveScript[i] = Do("read", i - 2)
    BY <1>5, <2>1, SaveSteps
  <2>3. Do("read", i - 2).op = "read"
    BY DEF Do
  <2> QED BY <2>1, <2>2, <2>3
<1>6. CASE i = NWords + 3
  <2>1. i - 2 \notin Words /\ i # 1
    BY <1>1, <1>6 DEF Words
  <2>2. SaveScript[i] = Call("close_file") /\ Call("close_file").op = "close_file"
    BY <1>6, SaveSteps DEF Call, Do
  <2> QED BY <1>6, <2>1, <2>2
<1>7. CASE i = NWords + 4
  <2>1. i - 2 \notin Words /\ i # 1
    BY <1>1, <1>7 DEF Words
  <2>2. /\ SaveScript[i] = Event("save_completed") /\ Event("save_completed").op = "event"
        /\ Event("save_completed").arg = "save_completed"
    BY <1>7, SaveSteps DEF Event, Do
  <2> QED BY <2>1, <2>2 DEF Deaf
<1>8. CASE i = NWords + 5
  BY <1>1, <1>8, SaveSteps DEF SetPause, Do, Words
<1> QED BY <1>2, <1>3, <1>4, <1>5, <1>6, <1>7, <1>8

LEMMA RestoreAt ==
  \A i \in 1..Len(RestoreScript) :
    /\ RestoreScript[i].op # "close_file"
    /\ RestoreScript[i].op # "read"
    /\ RestoreScript[i].op = "event" /\ RestoreScript[i].arg \notin Deaf => i = NWords + 3
    /\ RestoreScript[i] = Event("restore_completed") => i = NWords + 3
    /\ RestoreScript[i].op = "set_pause" /\ i < Len(RestoreScript) => RestoreScript[i].arg = TRUE
    /\ RestoreScript[i].op = "write" =>
         i - 2 \in Words /\ RestoreScript[i].arg = <<i - 2, Image[i - 2]>>
    /\ i - 2 \in Words => RestoreScript[i] = Do("write", <<i - 2, Image[i - 2]>>)
    /\ i = 1 => RestoreScript[i] = SetPause(TRUE)
<1> SUFFICES ASSUME NEW i \in 1..(NWords + 4)
    PROVE  LET e == RestoreScript[i] IN
           /\ e.op # "close_file"
           /\ e.op # "read"
           /\ e.op = "event" /\ e.arg \notin Deaf => i = NWords + 3
           /\ e = Event("restore_completed") => i = NWords + 3
           /\ e.op = "set_pause" /\ i < NWords + 4 => e.arg = TRUE
           /\ e.op = "write" => i - 2 \in Words /\ e.arg = <<i - 2, Image[i - 2]>>
           /\ i - 2 \in Words => e = Do("write", <<i - 2, Image[i - 2]>>)
           /\ i = 1 => e = SetPause(TRUE)
  BY RestoreSteps
<1>1. NWords \in Nat \ {0}
  BY JobsAssumption
<1>2. \/ i = 1 \/ i = 2 \/ i - 2 \in Words \/ i = NWords + 3 \/ i = NWords + 4
  BY <1>1 DEF Words
<1>3. CASE i = 1
  BY <1>1, <1>3, RestoreSteps DEF SetPause, Event, Do, Words
<1>4. CASE i = 2
  BY <1>1, <1>4, RestoreSteps DEF Event, Do, Words, Deaf
<1>5. CASE i - 2 \in Words
  <2>1. (i - 2) + 2 = i /\ i <= NWords + 2 /\ i # 1
    BY <1>1, <1>5 DEF Words
  <2>2. RestoreScript[i] = Do("write", <<i - 2, Image[i - 2]>>)
    BY <1>5, <2>1, RestoreSteps
  <2> DEFINE e == Do("write", <<i - 2, Image[i - 2]>>)
  <2>3. e.op = "write" /\ e.arg = <<i - 2, Image[i - 2]>> /\ Event("restore_completed").op = "event"
    BY DEF Do, Event
  <2>4. RestoreScript[i] = e
    BY <2>2
  <2> HIDE DEF e
  <2>5. RestoreScript[i] # Event("restore_completed")
    BY <2>3, <2>4
  <2> QED BY <1>5, <2>1, <2>2, <2>3, <2>4, <2>5
<1>6. CASE i = NWords + 3
  <2>1. i - 2 \notin Words /\ i # 1
    BY <1>1, <1>6 DEF Words
  <2>2. RestoreScript[i] = Event("restore_completed") /\ Event("restore_completed").op = "event"
    BY <1>6, RestoreSteps DEF Event, Do
  <2> QED BY <1>6, <2>1, <2>2
<1>7. CASE i = NWords + 4
  BY <1>1, <1>7, RestoreSteps DEF SetPause, Event, Do, Words
<1> QED BY <1>2, <1>3, <1>4, <1>5, <1>6, <1>7

-----------------------------------------------------------------------------
(* The command line's jobs *)

LEMMA CliScripts ==
  \A j \in CliMenu : /\ Script(j) \in Seq(QuietSteps)
                     /\ \A v : Continue(j, v) \in Seq(QuietSteps)
<1> SUFFICES ASSUME NEW j \in CliMenu, NEW v
             PROVE  Script(j) \in Seq(QuietSteps) /\ Continue(j, v) \in Seq(QuietSteps)
  OBVIOUS
<1>1. /\ Do("set_run", TRUE) \in QuietSteps /\ Do("set_run", FALSE) \in QuietSteps
      /\ Call("single_inst") \in QuietSteps /\ Call("get_run") \in QuietSteps
  BY DEF QuietSteps, Steps, Do, Call
<1>2. Script(j) = <<Call("get_run")>>
  BY DEF CliMenu, Script
<1>3. \/ Continue(j, v) = <<Do("set_run", TRUE)>> \/ Continue(j, v) = <<Do("set_run", FALSE)>>
      \/ Continue(j, v) = <<Call("single_inst")>> \/ Continue(j, v) = <<>>
  BY DEF CliMenu, Continue
<1> QED BY <1>1, <1>2, <1>3, Short

LEMMA QuietTail ==
  ASSUME NEW s \in Seq(QuietSteps), s # <<>>
  PROVE  Head(s) \in QuietSteps /\ Tail(s) \in Seq(QuietSteps)
OBVIOUS

LEMMA CliPreserved ==
  ASSUME Menu["cli"] \subseteq CliMenu, PauseInv, Cli, [JNext]_jvars
  PROVE  Cli'
<1>1. /\ job \in [Threads -> JobNames \cup {"none"}] /\ todo \in [Threads -> Seq(Steps)]
      /\ "cli" \in Threads
  BY DEF PauseInv, JTypeOK, Threads
<1>2. job["cli"] \in CliMenu \cup {"none"} /\ todo["cli"] \in Seq(QuietSteps)
  BY DEF Cli
<1>3. ASSUME NEW t \in Threads, NEW j \in JobNames, Begin(t, j) PROVE Cli'
  <2>1. j \in Menu[t] /\ job' = [job EXCEPT ![t] = j] /\ todo' = [todo EXCEPT ![t] = Script(j)]
    BY <1>3 DEF Begin
  <2>2. CASE t = "cli"
    <3>1. j \in CliMenu
      BY <2>1, <2>2
    <3>2. Script(j) \in Seq(QuietSteps)
      BY <3>1, CliScripts
    <3>3. job'["cli"] = j /\ todo'["cli"] = Script(j)
      BY <1>1, <2>1, <2>2
    <3> QED BY <3>1, <3>2, <3>3 DEF Cli
  <2>3. CASE t # "cli"
    <3>1. job'["cli"] = job["cli"] /\ todo'["cli"] = todo["cli"]
      BY <1>1, <2>1, <2>3
    <3> QED BY <1>2, <3>1 DEF Cli
  <2> QED BY <2>2, <2>3
<1>4. ASSUME NEW t \in Threads, Reply(t) PROVE Cli'
  <2> DEFINE r == Head(reply_q)
             rest == IF r.req.op = "get_run" THEN Continue(job[t], r.val) ELSE Tail(todo[t])
  <2>1. job' = job /\ todo' = [todo EXCEPT ![t] = rest]
    BY <1>4 DEF Reply
  <2>2. todo[t] # <<>>
    BY <1>4, RestAfterReply
  <2> HIDE DEF r
  <2>3. CASE t = "cli"
    <3>1. job["cli"] \in CliMenu
      BY <1>1, <1>2, <2>2, <2>3 DEF PauseInv, Scripts, ScriptOK
    <3>2. rest \in Seq(QuietSteps)
      <4>1. Continue(job[t], r.val) \in Seq(QuietSteps)
        BY <2>3, <3>1, CliScripts
      <4>2. Tail(todo[t]) \in Seq(QuietSteps)
        BY <1>2, <2>2, <2>3, QuietTail
      <4> QED BY <4>1, <4>2
    <3> HIDE DEF rest
    <3>3. todo'["cli"] = rest
      BY <1>1, <2>1, <2>3
    <3> QED BY <1>2, <2>1, <3>2, <3>3 DEF Cli
  <2>4. CASE t # "cli"
    <3> HIDE DEF rest
    <3>1. todo'["cli"] = todo["cli"]
      BY <1>1, <2>1, <2>4
    <3> QED BY <1>2, <2>1, <3>1 DEF Cli
  <2> QED BY <2>3, <2>4
<1>5. ASSUME NEW t \in Threads, CloseFile(t) PROVE Cli'
  <2>1. /\ todo[t] # <<>> /\ Head(todo[t]).op = "close_file"
        /\ todo' = [todo EXCEPT ![t] = Tail(todo[t])] /\ job' = job
    BY <1>5 DEF CloseFile
  <2>2. t # "cli"
    BY <1>2, <2>1, QuietTail DEF QuietSteps
  <2>3. todo'["cli"] = todo["cli"]
    BY <1>1, <2>1, <2>2
  <2> QED BY <1>2, <2>1, <2>3 DEF Cli
<1>6. ASSUME NEW t \in Threads, End(t) PROVE Cli'
  <2>1. job' = [job EXCEPT ![t] = "none"] /\ todo' = todo
    BY <1>6 DEF End
  <2>2. job'["cli"] = job["cli"] \/ job'["cli"] = "none"
    BY <1>1, <2>1
  <2> QED BY <1>2, <2>1, <2>2 DEF Cli
<1>7. ASSUME UNCHANGED <<job, todo>> PROVE Cli'
  BY <1>2, <1>7 DEF Cli
<1>8. ASSUME NEW t \in Threads, Request(t) \/ WrongReply(t) PROVE UNCHANGED <<job, todo>>
  BY <1>8 DEF Request, WrongReply, callers
<1>9. HandleCommand \/ Execute \/ UNCHANGED jvars => UNCHANGED <<job, todo>>
  BY DEF HandleCommand, Execute, jvars, callers
<1> QED BY <1>3, <1>4, <1>5, <1>6, <1>7, <1>8, <1>9 DEF JNext, ThreadStep

LEMMA BuffersPreserved ==
  ASSUME PauseInv, Buffers, [JNext]_jvars
  PROVE  Buffers'
<1> DEFINE V == Vals \cup BOOLEAN \cup {NoVal}
<1>1. buffer \in [Words -> V] /\ NoBuffer \in [Words -> V]
  BY DEF Buffers, NoBuffer
<1>2. ASSUME NEW t \in Threads, Reply(t) PROVE Buffers'
  <2> DEFINE r == Head(reply_q)
  <2>1. buffer' = IF r.req.op = "read" THEN [buffer EXCEPT ![r.req.arg] = r.val] ELSE buffer
    BY <1>2 DEF Reply
  <2>2. r \in Calls
    BY <1>2, Popped DEF Reply, PauseInv, JTypeOK
  <2>3. r.val \in V
    BY <2>2 DEF Calls
  <2> HIDE DEF r, V
  <2>4. buffer' \in [Words -> V]
    BY <1>1, <2>1, <2>3
  <2> QED BY <2>4 DEF Buffers, V
<1>3. ASSUME buffer' = buffer \/ buffer' = NoBuffer PROVE Buffers'
  BY <1>1, <1>3 DEF Buffers
<1>4. ASSUME NEW t \in Threads,
             Request(t) \/ WrongReply(t) \/ CloseFile(t) \/ End(t) \/ \E j \in JobNames : Begin(t, j)
      PROVE  buffer' = buffer \/ buffer' = NoBuffer
  BY <1>4 DEF Request, WrongReply, CloseFile, End, Begin
<1>5. HandleCommand \/ Execute \/ UNCHANGED jvars => buffer' = buffer
  BY DEF HandleCommand, Execute, jvars
<1> QED BY <1>2, <1>3, <1>4, <1>5 DEF JNext, ThreadStep

-----------------------------------------------------------------------------
(* The GUI thread's job *)

LEMMA Position ==
  ASSUME PauseInv, GuiPart, job["gui"] \in Pausing
  PROVE  /\ Returned \in Nat /\ Len(todo["gui"]) \in Nat
         /\ Len(Script(job["gui"])) = Returned + Len(todo["gui"])
         /\ todo["gui"] \in Seq(Steps)
         /\ todo["gui"] # <<>> =>
              /\ Returned + 1 \in 1..Len(Script(job["gui"]))
              /\ Head(todo["gui"]) = Script(job["gui"])[Returned + 1]
         /\ job["gui"] = "save" =>
              Script(job["gui"]) = SaveScript /\ Len(Script(job["gui"])) = NWords + 5
         /\ job["gui"] = "restore" =>
              Script(job["gui"]) = RestoreScript /\ Len(Script(job["gui"])) = NWords + 4
<1>1. todo["gui"] \in Seq(Steps) /\ Rest
  BY DEF PauseInv, JTypeOK, GuiPart, Threads
<1>2. /\ job["gui"] = "save" =>
           Script(job["gui"]) = SaveScript /\ Len(Script(job["gui"])) = NWords + 5
      /\ job["gui"] = "restore" =>
           Script(job["gui"]) = RestoreScript /\ Len(Script(job["gui"])) = NWords + 4
  BY SaveSteps, RestoreSteps DEF Script
<1>3. Len(Script(job["gui"])) \in Nat /\ Len(todo["gui"]) \in Nat
  BY <1>1, <1>2, JobsAssumption DEF Pausing
<1>4. Returned \in Nat /\ Len(Script(job["gui"])) = Returned + Len(todo["gui"])
  BY <1>1, <1>3 DEF Rest, Returned
<1>5. todo["gui"] # <<>> =>
        /\ Returned + 1 \in 1..Len(Script(job["gui"]))
        /\ Head(todo["gui"]) = Script(job["gui"])[Returned + 1]
  <2> SUFFICES ASSUME todo["gui"] # <<>>
               PROVE  /\ Returned + 1 \in 1..Len(Script(job["gui"]))
                      /\ Head(todo["gui"]) = Script(job["gui"])[Returned + 1]
    OBVIOUS
  <2>1. Head(todo["gui"]) = todo["gui"][1] /\ 1 \in 1..Len(todo["gui"])
    BY <1>1, Popped
  <2> QED BY <1>1, <1>3, <1>4, <2>1 DEF Rest
<1> QED BY <1>1, <1>2, <1>3, <1>4, <1>5

(* What the command line and the queue of commands do not touch *)
LEMMA GuiUntouched ==
  ASSUME GuiPart, job'["gui"] = job["gui"], todo'["gui"] = todo["gui"],
         UNCHANGED <<pause, state>>, buffer' = buffer,
         \A i \in 1..Len(reply_q') :
           reply_q'[i].by = "gui" => \E j \in 1..Len(reply_q) : reply_q'[i] = reply_q[j],
         \A j \in 1..Len(reply_q) :
           reply_q[j].by = "gui" => \E i \in 1..Len(reply_q') : reply_q'[i] = reply_q[j]
  PROVE  GuiPart'
<1>1. Answered' <=> Answered
  BY DEF Answered
<1>2. Returned' = Returned /\ Script(job["gui"])' = Script(job["gui"])
  BY DEF Returned
<1>3. Performed' = Performed
  BY <1>1, <1>2 DEF Performed
<1> SUFFICES ASSUME job["gui"] \in Pausing PROVE Rest' /\ Paused' /\ Saved' /\ Restored'
  BY DEF GuiPart
<1>4. Rest /\ Paused /\ Saved /\ Restored
  BY DEF GuiPart
<1>5. Rest'
  BY <1>2, <1>4 DEF Rest
<1>6. Paused'
  BY <1>2, <1>3, <1>4 DEF Paused
<1>7. Saved'
  BY <1>2, <1>4 DEF Saved
<1>8. Restored'
  BY <1>3, <1>4 DEF Restored
<1> QED BY <1>5, <1>6, <1>7, <1>8

LEMMA GuiBegin ==
  ASSUME PauseInv, NEW j \in JobNames, Begin("gui", j)
  PROVE  GuiPart'
<1>1. /\ job["gui"] = "none" /\ job' = [job EXCEPT !["gui"] = j]
      /\ todo' = [todo EXCEPT !["gui"] = Script(j)] /\ UNCHANGED reply_q
  BY DEF Begin, queues
<1>2. job \in [Threads -> JobNames \cup {"none"}] /\ todo \in [Threads -> Seq(Steps)]
      /\ "gui" \in Threads
  BY DEF PauseInv, JTypeOK, Threads
<1>3. job'["gui"] = j /\ todo'["gui"] = Script(j)
  BY <1>1, <1>2
<1>4. todo["gui"] = <<>>
  BY <1>1, <1>2 DEF PauseInv, Scripts, ScriptOK
<1>5. \A i \in 1..Len(reply_q') : reply_q'[i].by # "gui"
  BY <1>1, <1>4 DEF PauseInv, Own, OwnStep
<1>6. Script(j) \in Seq(Steps)
  BY ScriptsBeginOK
<1>7. Len(Script(j)) \in Nat
  BY <1>6
<1>8. Returned' = 0
  BY <1>3, <1>7 DEF Returned
<1>9. Performed' = 0
  BY <1>5, <1>8 DEF Performed, Answered
<1>10. Rest'
  <2>1. \A i \in 1..Len(Script(j)) : 0 + i = i
    BY <1>7
  <2> QED BY <1>3, <1>7, <1>8, <2>1 DEF Rest
<1>11. Paused'
  BY <1>9 DEF Paused
<1>12. \A w \in Words : ~(w + 2 <= 0)
  BY JobsAssumption DEF Words
<1>13. Saved'
  BY <1>5, <1>8, <1>12 DEF Saved
<1>14. Restored'
  BY <1>9, <1>12 DEF Restored
<1> QED BY <1>10, <1>11, <1>13, <1>14 DEF GuiPart

(* A step of the script is done. *)
LEMMA OneDone ==
  ASSUME PauseInv, GuiPart, job["gui"] \in Pausing, todo["gui"] # <<>>,
         todo'["gui"] = Tail(todo["gui"]), job' = job
  PROVE  Returned' = Returned + 1 /\ Rest' /\ Script(job["gui"])' = Script(job["gui"])
<1>1. /\ Returned \in Nat /\ Len(todo["gui"]) \in Nat
      /\ Len(Script(job["gui"])) = Returned + Len(todo["gui"])
      /\ todo["gui"] \in Seq(Steps)
  BY Position
<1>2. Len(Tail(todo["gui"])) = Len(todo["gui"]) - 1
  BY <1>1, Popped
<1>3. \A i \in 1..Len(Tail(todo["gui"])) :
        Tail(todo["gui"])[i] = todo["gui"][i + 1] /\ i + 1 \in 2..Len(todo["gui"])
  BY <1>1, Popped
<1>4. Script(job["gui"])' = Script(job["gui"])
  OBVIOUS
<1>5. Returned' = Returned + 1
  <2>1. Returned' = Len(Script(job["gui"])) - Len(Tail(todo["gui"]))
    BY <1>4 DEF Returned
  <2> DEFINE n == Len(Script(job["gui"]))
             d == Len(todo["gui"])
             e == Len(Tail(todo["gui"]))
             k == Returned
  <2>2. k \in Nat /\ d \in Nat /\ n = k + d /\ e = d - 1
    BY <1>1, <1>2
  <2>3. Returned' = n - e
    BY <2>1
  <2> HIDE DEF n, d, e, k
  <2>4. n - e = k + 1
    BY <2>2
  <2> QED BY <2>3, <2>4 DEF k
<1>6. Rest
  BY DEF GuiPart
<1>7. \A i \in 1..Len(Tail(todo["gui"])) :
        Tail(todo["gui"])[i] = Script(job["gui"])[(Returned + 1) + i]
  <2> SUFFICES ASSUME NEW i \in 1..Len(Tail(todo["gui"]))
               PROVE  Tail(todo["gui"])[i] = Script(job["gui"])[(Returned + 1) + i]
    OBVIOUS
  <2>1. i + 1 \in 1..Len(todo["gui"]) /\ Returned + (i + 1) = (Returned + 1) + i
    BY <1>1, <1>3
  <2> QED BY <1>3, <1>6, <2>1 DEF Rest
<1>8. Len(Tail(todo["gui"])) <= Len(Script(job["gui"]))
  BY <1>1, <1>2
<1> QED BY <1>4, <1>5, <1>7, <1>8 DEF Rest

LEMMA GuiReply ==
  ASSUME PauseInv, GuiPart, Buffers, Reply("gui"), (Own /\ Only)'
  PROVE  GuiPart'
<1> DEFINE r == Head(reply_q)
<1>1. /\ reply_q # <<>> /\ r.by = "gui" /\ reply_q' = Tail(reply_q)
      /\ waiting' = [waiting EXCEPT !["gui"] = FALSE]
      /\ buffer' = IF r.req.op = "read" THEN [buffer EXCEPT ![r.req.arg] = r.val] ELSE buffer
      /\ UNCHANGED <<pause, state, job>>
  BY DEF Reply
<1>2. /\ todo' = [todo EXCEPT !["gui"] = todo'["gui"]]
      /\ job["gui"] \in Pausing => todo'["gui"] = Tail(todo["gui"])
      /\ r.req = Head(todo["gui"]) /\ todo["gui"] # <<>>
  BY RestAfterReply DEF Threads
<1>3. /\ 1 \in 1..Len(reply_q) /\ r = reply_q[1] /\ r \in Calls
      /\ Len(Tail(reply_q)) = Len(reply_q) - 1
  BY <1>1, Popped DEF PauseInv, JTypeOK
<1>4. \A i \in 1..Len(reply_q') : \E k \in 1..Len(reply_q) : reply_q'[i] = reply_q[k]
  <2>1. \A i \in 1..Len(Tail(reply_q)) : Tail(reply_q)[i] = reply_q[i + 1] /\ i + 1 \in 2..Len(reply_q)
    BY <1>1, Popped DEF PauseInv, JTypeOK
  <2>2. \A i \in 1..Len(Tail(reply_q)) : i + 1 \in 1..Len(reply_q)
    BY <1>3, <2>1
  <2> QED BY <1>1, <2>1, <2>2
<1>5. \A i \in 1..Len(reply_q') : reply_q'[i].by # "gui"
  <2>1. waiting \in [Threads -> BOOLEAN] /\ "gui" \in Threads
    BY DEF PauseInv, JTypeOK, Threads
  <2>2. ~waiting'["gui"]
    BY <1>1, <2>1
  <2>3. OwnStep(reply_q, waiting, todo)'
    BY DEF Own
  <2> QED BY <2>2, <2>3 DEF OwnStep
<1>6. Answered
  BY <1>1, <1>3 DEF Answered
<1> HIDE DEF r
<1> SUFFICES ASSUME job["gui"] \in Pausing PROVE Rest' /\ Paused' /\ Saved' /\ Restored'
  BY <1>1 DEF GuiPart
<1>7. Returned' = Returned + 1 /\ Rest' /\ Script(job["gui"])' = Script(job["gui"])
  BY <1>1, <1>2, OneDone
<1>8. /\ Returned \in Nat /\ Returned + 1 \in 1..Len(Script(job["gui"]))
      /\ r.req = Script(job["gui"])[Returned + 1]
      /\ Len(Script(job["gui"])) \in Nat
  BY <1>2, Position
<1>9. Performed = Returned + 1 /\ Performed' = Returned + 1
  BY <1>5, <1>6, <1>7 DEF Performed, Answered
<1>10. Paused /\ Saved /\ Restored
  BY DEF GuiPart
<1>11. Paused'
  BY <1>1, <1>7, <1>8, <1>9, <1>10 DEF Paused
<1>12. Saved'
  <2> SUFFICES ASSUME job["gui"] = "save"
               PROVE  /\ Returned' <= NWords + 2 =>
                           \A w \in Words : w + 2 <= Returned' => buffer'[w] = state'[w]
                      /\ \A i \in 1..Len(reply_q') : reply_q'[i].by # "gui"
    BY <1>1 DEF Saved
  <2>1. SUFFICES ASSUME Returned + 1 <= NWords + 2, NEW w \in Words, w + 2 <= Returned + 1
                 PROVE  buffer'[w] = state[w]
    BY <1>1, <1>5, <1>7
  <2>2. r.req.op = "read" => r.val = state[r.req.arg]
    BY <1>1, <1>3, <1>10 DEF Saved
  <2>3. buffer \in [Words -> Vals \cup BOOLEAN \cup {NoVal}]
    BY DEF Buffers
  <2>4. CASE r.req.op = "read" /\ r.req.arg = w
    BY <1>1, <2>2, <2>3, <2>4
  <2>5. CASE ~(r.req.op = "read" /\ r.req.arg = w)
    <3>1. buffer'[w] = buffer[w]
      BY <1>1, <2>3, <2>5
    <3>2. w + 2 # Returned + 1
      <4> SUFFICES ASSUME w + 2 = Returned + 1 PROVE FALSE
        OBVIOUS
      <4>1. SaveScript[w + 2] = Do("read", w)
        BY SaveSteps
      <4>2. r.req = Do("read", w)
        BY <1>8, <4>1, Position
      <4> QED BY <2>5, <4>2 DEF Do
    <3>3. w + 2 <= Returned /\ Returned <= NWords + 2
      BY <1>8, <2>1, <3>2, JobsAssumption DEF Words
    <3> QED BY <1>10, <3>1, <3>3 DEF Saved
  <2> QED BY <2>4, <2>5
<1>13. Restored'
  BY <1>1, <1>9, <1>10 DEF Restored
<1> QED BY <1>7, <1>11, <1>12, <1>13

LEMMA GuiClose ==
  ASSUME PauseInv, GuiPart, CloseFile("gui")
  PROVE  GuiPart'
<1>1. /\ ~waiting["gui"] /\ todo["gui"] # <<>> /\ Head(todo["gui"]).op = "close_file"
      /\ file' = buffer /\ todo' = [todo EXCEPT !["gui"] = Tail(todo["gui"])]
      /\ UNCHANGED <<reply_q, pause, state, job>>
  BY DEF CloseFile, queues
<1>2. todo["gui"] \in Seq(Steps) /\ todo \in [Threads -> Seq(Steps)] /\ "gui" \in Threads
  BY DEF PauseInv, JTypeOK, Threads
<1>3. todo'["gui"] = Tail(todo["gui"])
  BY <1>1, <1>2
<1>4. job["gui"] \in Pausing
  <2> SUFFICES ASSUME job["gui"] \notin Pausing PROVE FALSE
    OBVIOUS
  <2>1. todo["gui"] \in Seq(OtherSteps)
    BY <1>2 DEF PauseInv, Scripts, ScriptOK
  <2>2. Head(todo["gui"]) \in OtherSteps
    BY <1>1, <2>1, Popped
  <2> QED BY <1>1, <2>2 DEF OtherSteps
<1>5. /\ Returned \in Nat /\ Returned + 1 \in 1..Len(Script(job["gui"]))
      /\ Head(todo["gui"]) = Script(job["gui"])[Returned + 1]
  BY <1>1, <1>4, Position
<1>6. job["gui"] = "save" /\ Returned + 1 = NWords + 3 /\ Len(Script(job["gui"])) = NWords + 5
  <2>1. job["gui"] # "restore"
    BY <1>1, <1>4, <1>5, Position, RestoreAt
  <2>2. job["gui"] = "save"
    BY <1>4, <2>1 DEF Pausing
  <2> QED BY <1>1, <1>4, <1>5, <2>2, Position, SaveAt
<1>7. \A i \in 1..Len(reply_q) : reply_q[i].by # "gui"
  BY <1>1, <1>2, NotWaiting
<1>8. Performed = Returned /\ Performed' = Returned'
  BY <1>1, <1>7 DEF Performed, Answered
<1>9. Returned' = Returned + 1 /\ Rest' /\ Script(job["gui"])' = Script(job["gui"])
  BY <1>1, <1>3, <1>4, OneDone
<1>10. Paused /\ Saved
  BY <1>4 DEF GuiPart
<1>11. NWords \in Nat \ {0}
  BY JobsAssumption
<1>12. pause
  BY <1>5, <1>6, <1>8, <1>10, <1>11 DEF Paused
<1>13. Paused' /\ Saved' /\ Restored'
  <2>1. Paused'
    BY <1>1, <1>12 DEF Paused
  <2>2. Saved'
    BY <1>1, <1>6, <1>7, <1>9, <1>11 DEF Saved
  <2>3. Restored'
    BY <1>1, <1>6 DEF Restored
  <2> QED BY <2>1, <2>2, <2>3
<1> QED BY <1>9, <1>13 DEF GuiPart

(* A command of the command line does nothing to the GUI thread's job. *)
LEMMA CliHandled ==
  ASSUME PauseInv, Cli, GuiPart, HandleCommand, Head(cmd_q).by = "cli"
  PROVE  GuiPart' /\ state' = state
<1> DEFINE m == Head(cmd_q)
           a == Answer(m)
<1>1. /\ cmd_q # <<>> /\ m \in Calls /\ UNCHANGED callers
      /\ reply_q' = Append(reply_q, a)
      /\ pause' = IF m.req.op = "set_pause" THEN m.req.arg ELSE pause
  BY Handled
<1>2. IF m.req.op = "event" /\ m.req.arg \notin Deaf THEN state' \in [Words -> Vals]
      ELSE IF m.req.op = "write" THEN state' = [state EXCEPT ![m.req.arg[1]] = m.req.arg[2]]
      ELSE UNCHANGED state
  BY DEF HandleCommand
<1>3. buffer' = buffer
  BY DEF HandleCommand
<1>4. a \in Calls /\ a.by = "cli"
  BY <1>1, AnswerIs DEF PauseInv
<1>5. m.req \in QuietSteps
  <2>1. 1 \in 1..Len(cmd_q) /\ m = cmd_q[1]
    BY <1>1, Popped DEF PauseInv, JTypeOK
  <2>2. todo["cli"] # <<>> /\ m.req = Head(todo["cli"])
    BY <2>1 DEF PauseInv, Own, OwnStep
  <2> QED BY <2>2, QuietTail DEF Cli
<1> HIDE DEF a, m
<1>6. m.req.op \in {"get_run", "set_run", "single_inst"}
  BY <1>5 DEF QuietSteps
<1>7. pause' = pause /\ state' = state
  BY <1>1, <1>2, <1>6
<1>8. Len(reply_q') = Len(reply_q) + 1 /\ reply_q'[Len(reply_q) + 1] = a
  BY <1>1, <1>4, Appended DEF PauseInv, JTypeOK
<1>9. \A i \in 1..Len(reply_q) : reply_q'[i] = reply_q[i]
  BY <1>1, <1>4, Appended DEF PauseInv, JTypeOK
<1>10. Len(reply_q) \in Nat
  BY DEF PauseInv, JTypeOK
<1>11. \A i \in 1..Len(reply_q') :
         reply_q'[i].by = "gui" => \E j \in 1..Len(reply_q) : reply_q'[i] = reply_q[j]
  <2>1. \A i \in 1..Len(reply_q') : i \in 1..Len(reply_q) \/ i = Len(reply_q) + 1
    BY <1>8, <1>10
  <2> QED BY <1>4, <1>8, <1>9, <2>1
<1>12. \A j \in 1..Len(reply_q) :
         reply_q[j].by = "gui" => \E i \in 1..Len(reply_q') : reply_q'[i] = reply_q[j]
  <2>1. \A j \in 1..Len(reply_q) : j \in 1..Len(reply_q')
    BY <1>8, <1>10
  <2> QED BY <1>9, <2>1
<1>13. job' = job /\ todo' = todo
  BY <1>1 DEF callers
<1> QED BY <1>3, <1>7, <1>11, <1>12, <1>13, GuiUntouched

LEMMA GuiHandled ==
  ASSUME PauseInv, GuiPart, HandleCommand, Head(cmd_q).by = "gui"
  PROVE  GuiPart'
<1> DEFINE m == Head(cmd_q)
           a == Answer(m)
           k == Returned
           S == Script(job["gui"])
<1>1. /\ cmd_q # <<>> /\ m \in Calls /\ UNCHANGED callers
      /\ reply_q' = Append(reply_q, a)
      /\ pause' = IF m.req.op = "set_pause" THEN m.req.arg ELSE pause
  BY Handled
<1>2. IF m.req.op = "event" /\ m.req.arg \notin Deaf THEN state' \in [Words -> Vals]
      ELSE IF m.req.op = "write" THEN state' = [state EXCEPT ![m.req.arg[1]] = m.req.arg[2]]
      ELSE UNCHANGED state
  BY DEF HandleCommand
<1>3. buffer' = buffer /\ job' = job /\ todo' = todo
  BY DEF HandleCommand, callers
<1>4. /\ a \in Calls /\ a.by = "gui" /\ a.req = m.req
      /\ m.req.op = "read" => a.val = state[m.req.arg]
  <2>1. m.req.op = "read" => a.val = state[m.req.arg]
    BY <1>1 DEF Answer, Calls
  <2> QED BY <1>1, <2>1, AnswerIs DEF PauseInv
<1>5. /\ todo["gui"] # <<>> /\ m.req = Head(todo["gui"])
      /\ \A i \in 1..Len(reply_q) : reply_q[i].by # "gui"
  <2>1. 1 \in 1..Len(cmd_q) /\ m = cmd_q[1]
    BY <1>1, Popped DEF PauseInv, JTypeOK
  <2>2. todo["gui"] # <<>> /\ m.req = Head(todo["gui"])
    BY <2>1 DEF PauseInv, Own, OwnStep
  <2> QED BY <2>1, <2>2 DEF PauseInv, Only, Apart
<1> SUFFICES ASSUME job["gui"] \in Pausing PROVE Rest' /\ Paused' /\ Saved' /\ Restored'
  BY <1>3 DEF GuiPart
<1>6. /\ k \in Nat /\ k + 1 \in 1..Len(S) /\ m.req = S[k + 1]
      /\ job["gui"] = "save" => S = SaveScript /\ Len(S) = NWords + 5
      /\ job["gui"] = "restore" => S = RestoreScript /\ Len(S) = NWords + 4
      /\ Len(S) \in Nat
  BY <1>5, Position
<1>7. /\ Returned' = k /\ Script(job["gui"])' = S
  BY <1>3 DEF Returned
<1>8. Len(reply_q') = Len(reply_q) + 1 /\ reply_q'[Len(reply_q) + 1] = a
  BY <1>1, <1>4, Appended DEF PauseInv, JTypeOK
<1>9. \A i \in 1..Len(reply_q) : reply_q'[i] = reply_q[i]
  BY <1>1, <1>4, Appended DEF PauseInv, JTypeOK
<1>10. Len(reply_q) \in Nat /\ state \in [Words -> Vals]
  BY DEF PauseInv, JTypeOK
<1>11. ~Answered /\ Answered'
  <2>1. Len(reply_q) + 1 \in 1..Len(reply_q')
    BY <1>8, <1>10
  <2> QED BY <1>4, <1>5, <1>8, <2>1 DEF Answered
<1>12. Performed = k /\ Performed' = k + 1
  BY <1>7, <1>11 DEF Performed
<1>13. Rest /\ Paused /\ Saved /\ Restored
  BY DEF GuiPart
<1>14. NWords \in Nat \ {0}
  BY JobsAssumption
<1>15. Rest'
  BY <1>3, <1>7, <1>13 DEF Rest
<1> HIDE DEF a, m, k, S
<1>16. k + 1 < Len(S) /\ m.req.op = "set_pause" => m.req.arg = TRUE
  BY <1>6, SaveAt, RestoreAt DEF Pausing
<1>17. k = 0 => m.req = SetPause(TRUE)
  <2>1. k = 0 => m.req = S[1]
    BY <1>6
  <2>2. S = SaveScript \/ S = RestoreScript
    BY <1>6 DEF Pausing
  <2> QED BY <2>1, <2>2, SaveSteps, RestoreSteps
<1>18. Paused'
  <2> SUFFICES ASSUME k < Len(S) - 1 PROVE pause'
    BY <1>7 DEF Paused, S
  <2>1. k + 1 < Len(S)
    BY <1>6
  <2>2. CASE m.req.op = "set_pause"
    BY <1>1, <1>16, <2>1, <2>2
  <2>3. CASE m.req.op # "set_pause"
    <3>1. k >= 1
      BY <1>6, <1>17, <2>3 DEF SetPause, Do
    <3> QED BY <1>1, <1>12, <1>13, <2>3, <3>1 DEF Paused, k, S
  <2> QED BY <2>2, <2>3
<1>19. Saved'
  <2> SUFFICES ASSUME job["gui"] = "save"
               PROVE  /\ k <= NWords + 2 => \A w \in Words : w + 2 <= k => buffer[w] = state'[w]
                      /\ \A i \in 1..Len(reply_q') :
                           reply_q'[i].by = "gui" /\ reply_q'[i].req.op = "read" =>
                             reply_q'[i].val = state'[reply_q'[i].req.arg]
    BY <1>3, <1>7 DEF Saved
  <2>1. m.req.op # "write" /\ (m.req.op = "event" => m.req.arg \in Deaf)
    BY <1>6, SaveAt
  <2>2. state' = state
    BY <1>2, <2>1
  <2>3. \A i \in 1..Len(reply_q') : i \in 1..Len(reply_q) \/ i = Len(reply_q) + 1
    BY <1>8, <1>10
  <2>4. \A i \in 1..Len(reply_q') : reply_q'[i].by = "gui" => reply_q'[i] = a
    BY <1>5, <1>8, <1>9, <2>3
  <2> QED BY <1>4, <1>13, <2>2, <2>4 DEF Saved, k
<1>20. Restored'
  <2> SUFFICES ASSUME job["gui"] = "restore", k + 1 <= NWords + 2,
                      NEW w \in Words, w + 2 <= k + 1
               PROVE  state'[w] = Image[w]
    BY <1>3, <1>12 DEF Restored
  <2>1. k <= NWords + 2 /\ k + 1 # NWords + 3
    BY <1>6, <1>14
  <2>2. m.req.op = "event" => m.req.arg \in Deaf
    BY <1>6, <2>1, RestoreAt
  <2>3. w + 2 <= k => state[w] = Image[w]
    BY <1>12, <1>13, <2>1 DEF Restored
  <2>4. CASE m.req.op = "write"
    <3> DEFINE i == k + 1
    <3>5. /\ i = k + 1 /\ i \in 1..Len(RestoreScript) /\ RestoreScript[i].op = "write"
          /\ m.req = RestoreScript[i]
      BY <1>6, <2>4
    <3> HIDE DEF i
    <3> DEFINE v == i - 2
    <3>1. v \in Words /\ m.req.arg = <<v, Image[v]>>
      BY <3>5, RestoreAt
    <3>2. state' = [state EXCEPT ![v] = Image[v]] /\ v \in Words
      BY <1>2, <2>2, <2>4, <3>1
    <3>3. w # v => w + 2 <= k
      BY <1>6, <1>14, <3>1, <3>5 DEF Words
    <3> HIDE DEF v
    <3>4. w = v => state'[w] = Image[w]
      BY <1>10, <3>2
    <3>6. w # v => state'[w] = state[w]
      BY <1>10, <3>2
    <3> QED BY <2>3, <3>3, <3>4, <3>6
  <2>5. CASE m.req.op # "write"
    <3>1. state' = state
      BY <1>2, <2>2, <2>5
    <3>2. w + 2 # k + 1
      <4> SUFFICES ASSUME w + 2 = k + 1 PROVE FALSE
        OBVIOUS
      <4>1. RestoreScript[w + 2] = Do("write", <<w, Image[w]>>)
        BY RestoreSteps
      <4>2. m.req = Do("write", <<w, Image[w]>>)
        BY <1>6, <4>1
      <4> QED BY <2>5, <4>2 DEF Do
    <3>3. w + 2 <= k
      BY <1>6, <1>14, <3>2 DEF Words
    <3> QED BY <2>3, <3>1, <3>3
  <2> QED BY <2>4, <2>5
<1> QED BY <1>15, <1>18, <1>19, <1>20

(* An instruction *)
LEMMA GuiExecute ==
  ASSUME PauseInv, GuiPart, Execute
  PROVE  GuiPart'
<1>1. ~pause /\ UNCHANGED <<reply_q, pause, job, todo, buffer>>
  BY DEF Execute, queues, callers
<1> SUFFICES ASSUME job["gui"] \in Pausing PROVE Rest' /\ Paused' /\ Saved' /\ Restored'
  BY <1>1 DEF GuiPart
<1>2. /\ Returned' = Returned /\ Script(job["gui"])' = Script(job["gui"])
  BY <1>1 DEF Returned
<1>3. Performed' = Performed
  BY <1>1, <1>2 DEF Performed, Answered
<1>4. Rest /\ Paused
  BY DEF GuiPart
<1>5. Rest' /\ Paused'
  BY <1>1, <1>2, <1>3, <1>4 DEF Rest, Paused
<1>6. NWords \in Nat \ {0} /\ Returned \in Nat
  BY JobsAssumption, Position
<1>7. /\ job["gui"] = "save" => Script(job["gui"]) = SaveScript /\ Len(Script(job["gui"])) = NWords + 5
      /\ job["gui"] = "restore" => Len(Script(job["gui"])) = NWords + 4
  BY Position
<1>8. Performed = 0 \/ Returned >= Len(Script(job["gui"])) - 1
  BY <1>1, <1>4, <1>6, <1>7 DEF Paused, Performed, Pausing
<1>9. \A w \in Words : w \in Nat /\ w >= 1
  BY <1>6 DEF Words
<1>10. Performed = Returned \/ (Answered /\ Performed = Returned + 1)
  BY DEF Performed
<1>11. Saved'
  <2> SUFFICES ASSUME job["gui"] = "save"
               PROVE  /\ Returned <= NWords + 2 => \A w \in Words : ~(w + 2 <= Returned)
                      /\ \A i \in 1..Len(reply_q) :
                           ~(reply_q[i].by = "gui" /\ reply_q[i].req.op = "read")
    BY <1>1, <1>2 DEF Saved
  <2>1. Returned <= NWords + 2 => Returned = 0
    BY <1>6, <1>7, <1>8, <1>10
  <2>2. SUFFICES ASSUME NEW i \in 1..Len(reply_q), reply_q[i].by = "gui", reply_q[i].req.op = "read"
                 PROVE  FALSE
    BY <1>9, <2>1
  <2>3. todo["gui"] # <<>> /\ reply_q[i].req = Head(todo["gui"])
    BY <2>2 DEF PauseInv, Own, OwnStep
  <2>4. /\ Returned + 1 \in 1..Len(SaveScript)
        /\ reply_q[i].req = SaveScript[Returned + 1]
    BY <1>7, <2>3, Position
  <2>5. Returned + 1 <= NWords + 2
    BY <2>2, <2>4, SaveAt
  <2>6. Answered
    BY <2>2 DEF Answered
  <2>7. Performed = Returned + 1
    BY <2>6 DEF Performed
  <2> QED BY <1>6, <1>7, <1>8, <2>5, <2>7
<1>12. Restored'
  <2> SUFFICES ASSUME job["gui"] = "restore", Performed <= NWords + 2
               PROVE  \A w \in Words : ~(w + 2 <= Performed)
    BY <1>1, <1>3 DEF Restored
  <2>1. Performed = 0
    BY <1>6, <1>7, <1>8, <1>10
  <2> QED BY <1>9, <2>1
<1> QED BY <1>5, <1>11, <1>12

(* The command line's own calls *)
LEMMA CliCloses == ASSUME Cli, CloseFile("cli") PROVE FALSE
<1>1. todo["cli"] # <<>> /\ Head(todo["cli"]).op = "close_file"
  BY DEF CloseFile
<1>2. Head(todo["cli"]) \in QuietSteps
  BY <1>1, QuietTail DEF Cli
<1> QED BY <1>1, <1>2 DEF QuietSteps

LEMMA CliReply ==
  ASSUME PauseInv, Cli, GuiPart, Reply("cli")
  PROVE  GuiPart'
<1> DEFINE r == Head(reply_q)
<1>1. /\ reply_q # <<>> /\ r.by = "cli" /\ reply_q' = Tail(reply_q)
      /\ buffer' = IF r.req.op = "read" THEN [buffer EXCEPT ![r.req.arg] = r.val] ELSE buffer
      /\ UNCHANGED <<pause, state, job>>
  BY DEF Reply
<1>2. /\ todo' = [todo EXCEPT !["cli"] = todo'["cli"]]
      /\ r.req = Head(todo["cli"]) /\ todo["cli"] # <<>>
  BY RestAfterReply DEF Threads
<1>3. r.req \in QuietSteps
  BY <1>2, QuietTail DEF Cli
<1>4. r.req.op # "read"
  BY <1>3 DEF QuietSteps
<1>5. buffer' = buffer
  BY <1>1, <1>4
<1>6. todo'["gui"] = todo["gui"]
  <2>1. todo \in [Threads -> Seq(Steps)] /\ "gui" \in Threads
    BY DEF PauseInv, JTypeOK, Threads
  <2> QED BY <1>2, <2>1
<1>7. /\ 1 \in 1..Len(reply_q) /\ r = reply_q[1]
      /\ Len(Tail(reply_q)) = Len(reply_q) - 1 /\ Len(reply_q) \in Nat
  BY <1>1, Popped DEF PauseInv, JTypeOK
<1>8. \A i \in 1..Len(Tail(reply_q)) : Tail(reply_q)[i] = reply_q[i + 1] /\ i + 1 \in 2..Len(reply_q)
  BY <1>1, Popped DEF PauseInv, JTypeOK
<1> HIDE DEF r
<1>9. \A i \in 1..Len(reply_q') :
        reply_q'[i].by = "gui" => \E j \in 1..Len(reply_q) : reply_q'[i] = reply_q[j]
  <2>1. \A i \in 1..Len(Tail(reply_q)) : i + 1 \in 1..Len(reply_q)
    BY <1>7, <1>8
  <2> QED BY <1>1, <1>8, <2>1
<1>10. \A j \in 1..Len(reply_q) :
         reply_q[j].by = "gui" => \E i \in 1..Len(reply_q') : reply_q'[i] = reply_q[j]
  <2> SUFFICES ASSUME NEW j \in 1..Len(reply_q), reply_q[j].by = "gui"
               PROVE  \E i \in 1..Len(reply_q') : reply_q'[i] = reply_q[j]
    OBVIOUS
  <2>1. j # 1
    BY <1>1, <1>7
  <2>2. j - 1 \in 1..Len(Tail(reply_q)) /\ (j - 1) + 1 = j
    BY <1>7, <2>1
  <2> QED BY <1>1, <1>8, <2>2
<1> QED BY <1>1, <1>5, <1>6, <1>9, <1>10, GuiUntouched

LEMMA GuiPreserved ==
  ASSUME PauseInv, Cli, Buffers, GuiPart, PauseInv', [JNext]_jvars
  PROVE  GuiPart'
<1>1. /\ job \in [Threads -> JobNames \cup {"none"}] /\ todo \in [Threads -> Seq(Steps)]
      /\ "gui" \in Threads /\ \A t \in Threads : t # "gui" => t = "cli"
  BY DEF PauseInv, JTypeOK, Threads
<1>2. ASSUME job'["gui"] = job["gui"], todo'["gui"] = todo["gui"],
             UNCHANGED <<reply_q, pause, state, buffer>>
      PROVE  GuiPart'
  BY <1>2, GuiUntouched
<1>3. ASSUME NEW t \in Threads, NEW j \in JobNames, Begin(t, j) PROVE GuiPart'
  <2>1. CASE t = "gui"
    BY <1>3, <2>1, GuiBegin
  <2>2. CASE t # "gui"
    <3>1. /\ job' = [job EXCEPT ![t] = j] /\ todo' = [todo EXCEPT ![t] = Script(j)]
          /\ UNCHANGED <<reply_q, pause, state, buffer>>
      BY <1>3 DEF Begin, queues
    <3> QED BY <1>1, <1>2, <2>2, <3>1
  <2> QED BY <2>1, <2>2
<1>4. ASSUME NEW t \in Threads, Request(t) \/ WrongReply(t) PROVE GuiPart'
  <2>1. UNCHANGED <<job, todo, reply_q, pause, state, buffer>>
    BY <1>4 DEF Request, WrongReply, queues, callers
  <2> QED BY <1>2, <2>1
<1>5. ASSUME NEW t \in Threads, Reply(t) PROVE GuiPart'
  <2>1. (Own /\ Only)'
    BY DEF PauseInv
  <2> QED BY <1>1, <1>5, <2>1, GuiReply, CliReply
<1>6. ASSUME NEW t \in Threads, CloseFile(t) PROVE GuiPart'
  BY <1>1, <1>6, GuiClose, CliCloses
<1>7. ASSUME NEW t \in Threads, End(t) PROVE GuiPart'
  <2>1. /\ job' = [job EXCEPT ![t] = "none"]
        /\ UNCHANGED <<todo, reply_q, pause, state, buffer>>
    BY <1>7 DEF End, queues
  <2>2. CASE t = "gui"
    BY <1>1, <2>1, <2>2 DEF GuiPart, Pausing
  <2>3. CASE t # "gui"
    BY <1>1, <1>2, <2>1, <2>3
  <2> QED BY <2>2, <2>3
<1>8. ASSUME HandleCommand PROVE GuiPart'
  <2>1. Head(cmd_q).by \in Threads
    BY <1>8, Handled, MessageIs
  <2> QED BY <1>1, <1>8, <2>1, GuiHandled, CliHandled
<1>9. ASSUME Execute PROVE GuiPart'
  BY <1>9, GuiExecute
<1>10. ASSUME UNCHANGED jvars PROVE GuiPart'
  <2>1. UNCHANGED <<job, todo, reply_q, pause, state, buffer>>
    BY <1>10 DEF jvars, queues, callers
  <2> QED BY <1>2, <2>1
<1> QED BY <1>3, <1>4, <1>5, <1>6, <1>7, <1>8, <1>9, <1>10 DEF JNext, ThreadStep

(* A file that is closed *)
LEMMA ClosedIsState ==
  ASSUME PauseInv, Buffers, GuiPart, CloseFile("gui")
  PROVE  file' = state
<1>1. /\ todo["gui"] # <<>> /\ Head(todo["gui"]).op = "close_file" /\ file' = buffer
  BY DEF CloseFile
<1>2. job["gui"] \in Pausing
  <2> SUFFICES ASSUME job["gui"] \notin Pausing PROVE FALSE
    OBVIOUS
  <2>1. todo["gui"] \in Seq(OtherSteps)
    BY DEF PauseInv, Scripts, ScriptOK, Threads
  <2>2. Head(todo["gui"]) \in OtherSteps
    BY <1>1, <2>1, Popped
  <2> QED BY <1>1, <2>2 DEF OtherSteps
<1>3. /\ Returned \in Nat /\ Returned + 1 \in 1..Len(Script(job["gui"]))
      /\ Head(todo["gui"]) = Script(job["gui"])[Returned + 1]
  BY <1>1, <1>2, Position
<1>4. job["gui"] = "save" /\ Returned + 1 = NWords + 3
  <2>1. job["gui"] # "restore"
    BY <1>1, <1>2, <1>3, Position, RestoreAt
  <2>2. job["gui"] = "save"
    BY <1>2, <2>1 DEF Pausing
  <2> QED BY <1>1, <1>2, <1>3, <2>2, Position, SaveAt
<1>5. \A w \in Words : w + 2 <= NWords + 2
  BY JobsAssumption DEF Words
<1>6. Returned = NWords + 2
  BY <1>3, <1>4, JobsAssumption
<1>7. Saved
  BY <1>2 DEF GuiPart
<1>8. NWords + 2 <= NWords + 2
  BY JobsAssumption
<1>9. \A w \in Words : buffer[w] = state[w]
  BY <1>4, <1>5, <1>6, <1>7, <1>8 DEF Saved
<1>10. buffer \in [Words -> Vals \cup BOOLEAN \cup {NoVal}] /\ state \in [Words -> Vals]
  BY DEF Buffers, PauseInv, JTypeOK
<1> QED BY <1>1, <1>9, <1>10

(* A file that has been read *)
LEMMA ReadIsState ==
  ASSUME PauseInv, GuiPart, job["gui"] = "restore", ~waiting["gui"],
         todo["gui"] # <<>>, Head(todo["gui"]) = Event("restore_completed")
  PROVE  state = Image
<1>1. job["gui"] \in Pausing
  BY DEF Pausing
<1>2. /\ Returned \in Nat /\ Returned + 1 \in 1..Len(RestoreScript)
      /\ RestoreScript[Returned + 1] = Event("restore_completed")
  BY <1>1, Position
<1>3. Returned + 1 = NWords + 3
  BY <1>2, RestoreAt
<1>4. Returned = NWords + 2
  BY <1>2, <1>3, JobsAssumption
<1>5. ~Answered
  BY NotWaiting DEF Answered, Threads
<1>6. Performed = NWords + 2
  BY <1>4, <1>5 DEF Performed
<1>7. Restored
  BY <1>1 DEF GuiPart
<1>8. NWords + 2 <= NWords + 2 /\ \A w \in Words : w + 2 <= NWords + 2
  BY JobsAssumption DEF Words
<1>9. \A w \in Words : state[w] = Image[w]
  BY <1>6, <1>7, <1>8 DEF Restored
<1>10. state \in [Words -> Vals] /\ Image \in [Words -> Vals]
  BY JobsAssumption DEF PauseInv, JTypeOK
<1> QED BY <1>9, <1>10

LEMMA SnapshotStep ==
  ASSUME PauseInv, SnapInv, [JNext]_jvars
  PROVE  /\ file' # file => file' = state
         /\ \A t \in Threads :
              /\ job[t] = "restore" /\ waiting'[t] /\ ~waiting[t]
              /\ Head(todo[t]) = Do("event", "restore_completed")
              => state = Image
<1>1. Cli /\ Buffers /\ GuiPart
  BY DEF SnapInv
<1>2. file' # file => \E t \in Threads : CloseFile(t)
  BY DEF JNext, ThreadStep, jvars, process, callers, queues, Request, Reply, WrongReply,
         End, Begin, HandleCommand, Execute
<1>3. file' # file => file' = state
  <2>1. \A t \in Threads : t = "gui" \/ t = "cli"
    BY DEF Threads
  <2> QED BY <1>1, <1>2, <2>1, ClosedIsState, CliCloses
<1>4. ASSUME NEW t \in Threads, job[t] = "restore", waiting'[t], ~waiting[t],
             Head(todo[t]) = Do("event", "restore_completed")
      PROVE  state = Image
  <2>1. t = "gui"
    BY <1>1, <1>4 DEF Cli, CliMenu, Threads
  <2>2. waiting \in [Threads -> BOOLEAN]
    BY DEF PauseInv, JTypeOK
  <2>3. todo["gui"] # <<>>
    <3>1. \E u \in Threads : Request(u) \/ Reply(u)
      <4>1. waiting' # waiting
        BY <1>4
      <4> QED BY <4>1 DEF JNext, ThreadStep, jvars, callers, CloseFile, WrongReply,
                          End, Begin, HandleCommand, Execute
    <3>2. PICK u \in Threads : Request(u) \/ Reply(u)
      BY <3>1
    <3>3. CASE Request(u)
      <4>1. waiting' = [waiting EXCEPT ![u] = TRUE] /\ todo[u] # <<>>
        BY <3>3 DEF Request
      <4>2. u = t
        BY <1>4, <2>2, <4>1
      <4> QED BY <2>1, <4>1, <4>2
    <3>4. CASE Reply(u)
      <4>1. waiting' = [waiting EXCEPT ![u] = FALSE]
        BY <3>4 DEF Reply
      <4> QED BY <1>4, <2>2, <4>1
    <3> QED BY <3>2, <3>3, <3>4
  <2> QED BY <1>1, <1>4, <2>1, <2>3, ReadIsState DEF Event
<1> QED BY <1>3, <1>4

(* A state file is a snapshot of the processor, for any number of words:   *)
(* all its words are those at the moment at which it is closed, and a file *)
(* that has been read is in the processor word for word.                   *)
THEOREM StateFilesAreSnapshotsCorrect ==
  ASSUME Menu["cli"] \subseteq CliMenu
  PROVE  JSpec => StateFilesAreSnapshots
<1>1. PauseInv /\ [JNext]_jvars => PauseInv'
  BY PausePreservesTypes, PausePreservesScripts, PausePreservesMessages, PausePreservesOwed
     DEF PauseInv
<1>2. PauseInv /\ SnapInv /\ PauseInv' /\ [JNext]_jvars => SnapInv'
  BY CliPreserved, BuffersPreserved, GuiPreserved DEF SnapInv
<1>3. JInit => SnapInv
  <2> SUFFICES ASSUME JInit PROVE SnapInv
    OBVIOUS
  <2>1. job["gui"] = "none" /\ job["cli"] = "none" /\ todo["cli"] = <<>>
    BY DEF JInit, Threads
  <2>2. Cli
    BY <2>1, Short DEF Cli
  <2>3. Buffers
    BY DEF JInit, Buffers, NoBuffer
  <2> QED BY <2>1, <2>2, <2>3 DEF SnapInv, GuiPart, Pausing
<1>4. PauseInv /\ SnapInv /\ [JNext]_jvars =>
        [/\ file' # file => file' = state
         /\ \A t \in Threads :
              /\ job[t] = "restore" /\ waiting'[t] /\ ~waiting[t]
              /\ Head(todo[t]) = Do("event", "restore_completed")
              => state = Image]_jvars
  BY SnapshotStep
<1> QED BY PauseInvInit, <1>1, <1>2, <1>3, <1>4, PTL DEF JSpec, StateFilesAreSnapshots

-----------------------------------------------------------------------------
(* Resets, where only the menus call.  The scripts of a reset are short    *)
(* enough to be named: what is left of one tells whether the simulator is  *)
(* running.                                                                *)
Resets == {"reset", "obdurate_reset"}

Stop == Do("set_run", FALSE)
Start == Do("set_run", TRUE)
Reset == Do("event", "reset")
Clear == Do("event", "clear_memory")

WasRunning ==
  \/ todo["gui"] \in {<<Stop, Reset, Start>>, <<Stop, Reset, Clear, Start>>}
       /\ (Answered => ~run)
  \/ todo["gui"] \in {<<Reset, Start>>, <<Reset, Clear, Start>>, <<Clear, Start>>} /\ ~run
  \/ todo["gui"] = <<Start>> /\ (Answered => run)
  \/ todo["gui"] = <<>> /\ run

WasStopped == todo["gui"] \in {<<Reset>>, <<Reset, Clear>>, <<Clear>>, <<>>} /\ ~run

Asking ==
  /\ todo["gui"] = <<Call("get_run")>>
  /\ \A i \in 1..Len(reply_q) : reply_q[i].by = "gui" => reply_q[i].val = run

Resetting ==
  \/ Asking
  \/ was_running["gui"] = TRUE /\ WasRunning
  \/ was_running["gui"] = FALSE /\ WasStopped

Asked == was_running \in [Threads -> Vals \cup BOOLEAN \cup {NoVal}]

ResetInv ==
  /\ Asked
  /\ ~has_debugger_cli => job["cli"] = "none" /\ (job["gui"] \in Resets => Resetting)

LEMMA Joint == ASSUME NEW S, NEW s \in Seq(S), NEW e \in S PROVE s \o <<e>> = Append(s, e)
BY AppendIsConcat, Zenon

LEMMA Tuple2 == ASSUME NEW S, NEW x \in Seq(S), Len(x) = 2 PROVE x = <<x[1], x[2]>>
OBVIOUS

LEMMA Tuple3 == ASSUME NEW S, NEW x \in Seq(S), Len(x) = 3 PROVE x = <<x[1], x[2], x[3]>>
OBVIOUS

LEMMA Tuple4 == ASSUME NEW S, NEW x \in Seq(S), Len(x) = 4 PROVE x = <<x[1], x[2], x[3], x[4]>>
OBVIOUS

LEMMA Appends2 ==
  ASSUME NEW S, NEW a \in S, NEW b \in S
  PROVE  Append(<<a>>, b) = <<a, b>>
<1> DEFINE x == Append(<<a>>, b)
<1>1. x \in Seq(S) /\ Len(x) = 2 /\ x[1] = a /\ x[2] = b
  OBVIOUS
<1> HIDE DEF x
<1>2. x = <<x[1], x[2]>>
  BY <1>1, Tuple2
<1> QED BY <1>1, <1>2 DEF x

LEMMA Appends3 ==
  ASSUME NEW S, NEW a \in S, NEW b \in S, NEW c \in S
  PROVE  Append(<<a, b>>, c) = <<a, b, c>>
<1> DEFINE x == Append(<<a, b>>, c)
<1>1. x \in Seq(S) /\ Len(x) = 3 /\ x[1] = a /\ x[2] = b /\ x[3] = c
  OBVIOUS
<1> HIDE DEF x
<1>2. x = <<x[1], x[2], x[3]>>
  BY <1>1, Tuple3
<1> QED BY <1>1, <1>2 DEF x

LEMMA Appends4 ==
  ASSUME NEW S, NEW a \in S, NEW b \in S, NEW c \in S, NEW d \in S
  PROVE  Append(<<a, b, c>>, d) = <<a, b, c, d>>
<1> DEFINE x == Append(<<a, b, c>>, d)
<1>1. x \in Seq(S) /\ Len(x) = 4 /\ x[1] = a /\ x[2] = b /\ x[3] = c /\ x[4] = d
  OBVIOUS
<1> HIDE DEF x
<1>2. x = <<x[1], x[2], x[3], x[4]>>
  BY <1>1, Tuple4
<1> QED BY <1>1, <1>2 DEF x

LEMMA Tails ==
  \A a, b, c, d : /\ Tail(<<a>>) = <<>> /\ Tail(<<a, b>>) = <<b>>
                  /\ Tail(<<a, b, c>>) = <<b, c>> /\ Tail(<<a, b, c, d>>) = <<b, c, d>>
OBVIOUS

LEMMA Heads ==
  \A a, b, c, d : /\ Head(<<a>>) = a /\ Head(<<a, b>>) = a
                  /\ Head(<<a, b, c>>) = a /\ Head(<<a, b, c, d>>) = a
OBVIOUS

(* What follows the first step of a reset's script *)
LEMMA TailsOfResets ==
  ASSUME NEW d
  PROVE  /\ d \in {<<Stop, Reset, Start>>, <<Stop, Reset, Clear, Start>>}
              => Tail(d) \in {<<Reset, Start>>, <<Reset, Clear, Start>>}
         /\ d \in {<<Reset, Start>>, <<Reset, Clear, Start>>, <<Clear, Start>>}
              => Tail(d) \in {<<Start>>, <<Clear, Start>>}
<1>1. Tail(<<Stop, Reset, Start>>) = <<Reset, Start>>
  BY Tails
<1>3. Tail(<<Stop, Reset, Clear, Start>>) = <<Reset, Clear, Start>>
  BY Tails
<1>2. /\ Tail(<<Reset, Start>>) = <<Start>>
      /\ Tail(<<Reset, Clear, Start>>) = <<Clear, Start>>
      /\ Tail(<<Clear, Start>>) = <<Start>>
  BY Tails, ZenonT(30)
<1> QED BY <1>1, <1>2, <1>3, Zenon

LEMMA ResetScripts ==
  /\ ResetScript("reset", TRUE) = <<Stop, Reset, Start>>
  /\ ResetScript("obdurate_reset", TRUE) = <<Stop, Reset, Clear, Start>>
  /\ ResetScript("reset", FALSE) = <<Reset>>
  /\ ResetScript("obdurate_reset", FALSE) = <<Reset, Clear>>
<1>1. Stop \in Steps /\ Start \in Steps /\ Reset \in Steps /\ Clear \in Steps
  BY DEF Steps, Do, Stop, Start, Reset, Clear
<1>2. /\ <<Stop>> \in Seq(Steps) /\ <<Reset>> \in Seq(Steps)
      /\ <<Stop, Reset>> \in Seq(Steps) /\ <<Stop, Reset, Clear>> \in Seq(Steps)
  BY <1>1
<1>3. <<Stop>> \o <<Reset>> = <<Stop, Reset>>
  BY <1>1, <1>2, Joint, Appends2
<1>4. <<Stop, Reset>> \o <<Start>> = <<Stop, Reset, Start>>
  BY <1>1, <1>2, Joint, Appends3
<1>5. <<Stop, Reset>> \o <<Clear>> = <<Stop, Reset, Clear>>
  BY <1>1, <1>2, Joint, Appends3
<1>6. <<Stop, Reset, Clear>> \o <<Start>> = <<Stop, Reset, Clear, Start>>
  <2>1. <<Stop, Reset, Clear>> \o <<Start>> = Append(<<Stop, Reset, Clear>>, Start)
    BY <1>1, <1>2, Joint
  <2>2. Append(<<Stop, Reset, Clear>>, Start) = <<Stop, Reset, Clear, Start>>
    BY <1>1, Appends4
  <2> QED BY <2>1, <2>2, Zenon
<1>7. <<Reset>> \o <<Clear>> = <<Reset, Clear>>
  BY <1>1, <1>2, Joint, Appends2
<1>8. <<Stop, Reset>> \o <<>> = <<Stop, Reset>>
  BY <1>2, ConcatEmptySeq
<1>9. <<>> \o <<Reset>> = <<Reset>> /\ <<Reset>> \o <<>> = <<Reset>>
  BY <1>2, ConcatEmptySeq
<1>10. <<Reset, Clear>> \in Seq(Steps)
  BY <1>1
<1>11. <<Reset, Clear>> \o <<>> = <<Reset, Clear>>
  BY <1>10, ConcatEmptySeq
<1>12. ResetScript("reset", TRUE) = ((<<Stop>> \o <<Reset>>) \o <<>>) \o <<Start>>
  BY DEF ResetScript, Stop, Start, Reset
<1>13. ResetScript("obdurate_reset", TRUE) = ((<<Stop>> \o <<Reset>>) \o <<Clear>>) \o <<Start>>
  BY DEF ResetScript, Stop, Start, Reset, Clear
<1>14. ResetScript("reset", FALSE) = ((<<>> \o <<Reset>>) \o <<>>) \o <<>>
  BY DEF ResetScript, Reset
<1>15. ResetScript("obdurate_reset", FALSE) = ((<<>> \o <<Reset>>) \o <<Clear>>) \o <<>>
  BY DEF ResetScript, Reset, Clear
<1> HIDE DEF Stop, Start, Reset, Clear
<1>16. ResetScript("reset", TRUE) = <<Stop, Reset, Start>>
  BY <1>3, <1>4, <1>8, <1>12, Zenon
<1>17. ResetScript("obdurate_reset", TRUE) = <<Stop, Reset, Clear, Start>>
  BY <1>3, <1>5, <1>6, <1>13, Zenon
<1>18. ResetScript("reset", FALSE) = <<Reset>>
  BY <1>9, <1>14, Zenon
<1>19. ResetScript("obdurate_reset", FALSE) = <<Reset, Clear>>
  BY <1>7, <1>9, <1>11, <1>15, Zenon
<1> QED BY <1>16, <1>17, <1>18, <1>19

(* Without the command line there are no messages of it. *)
LEMMA OnlyGui ==
  ASSUME PauseInv, job["cli"] = "none"
  PROVE  /\ todo["cli"] = <<>>
         /\ \A i \in 1..Len(cmd_q) : cmd_q[i].by = "gui"
         /\ \A i \in 1..Len(reply_q) : reply_q[i].by = "gui"
<1>1. todo["cli"] = <<>>
  BY DEF PauseInv, Scripts, ScriptOK, Threads
<1>2. /\ \A i \in 1..Len(cmd_q) : cmd_q[i].by # "cli"
      /\ \A i \in 1..Len(reply_q) : reply_q[i].by # "cli"
  BY <1>1 DEF PauseInv, Own, OwnStep
<1> QED BY <1>1, <1>2, Senders DEF PauseInv, JTypeOK, Threads

(* What has a step left is not finished: the heads of the scripts *)
LEMMA ResetHeads ==
  ASSUME Resetting, todo["gui"] # <<>>
  PROVE  /\ Head(todo["gui"]) \in {Call("get_run"), Stop, Reset, Clear, Start}
         /\ Head(todo["gui"]) = Clear => ~run
<1>1. \/ todo["gui"] = <<Call("get_run")>>
      \/ todo["gui"] \in {<<Stop, Reset, Start>>, <<Stop, Reset, Clear, Start>>}
      \/ todo["gui"] \in {<<Reset, Start>>, <<Reset, Clear, Start>>, <<Clear, Start>>} /\ ~run
      \/ todo["gui"] = <<Start>>
      \/ todo["gui"] \in {<<Reset>>, <<Reset, Clear>>, <<Clear>>} /\ ~run
  BY DEF Resetting, Asking, WasRunning, WasStopped
<1>2. Call("get_run") # Clear /\ Stop # Clear /\ Start # Clear
  BY DEF Call, Stop, Start, Clear, Do
<1> QED BY <1>1, <1>2, Heads

LEMMA AskedPreserved ==
  ASSUME PauseInv, Asked, [JNext]_jvars
  PROVE  Asked'
<1> DEFINE V == Vals \cup BOOLEAN \cup {NoVal}
<1>1. was_running \in [Threads -> V] /\ FALSE \in V
  BY DEF Asked
<1>2. ASSUME NEW t \in Threads, Reply(t) PROVE Asked'
  <2> DEFINE r == Head(reply_q)
  <2>1. was_running' = IF r.req.op = "get_run" THEN [was_running EXCEPT ![t] = r.val]
                                               ELSE was_running
    BY <1>2 DEF Reply
  <2>2. r \in Calls
    BY <1>2, Popped DEF Reply, PauseInv, JTypeOK
  <2>3. r.val \in V
    BY <2>2 DEF Calls
  <2> HIDE DEF r, V
  <2>4. was_running' \in [Threads -> V]
    BY <1>1, <2>1, <2>3
  <2> QED BY <2>4 DEF Asked, V
<1>3. ASSUME NEW t \in Threads, End(t) PROVE Asked'
  <2>1. was_running' = [was_running EXCEPT ![t] = FALSE]
    BY <1>3 DEF End
  <2> HIDE DEF V
  <2>2. was_running' \in [Threads -> V]
    BY <1>1, <2>1
  <2> QED BY <2>2 DEF Asked, V
<1>4. ASSUME was_running' = was_running PROVE Asked'
  BY <1>1, <1>4 DEF Asked
<1>5. ASSUME NEW t \in Threads,
             Request(t) \/ WrongReply(t) \/ CloseFile(t) \/ \E j \in JobNames : Begin(t, j)
      PROVE  was_running' = was_running
  BY <1>5 DEF Request, WrongReply, CloseFile, Begin, callers
<1>6. HandleCommand \/ Execute \/ UNCHANGED jvars => was_running' = was_running
  BY DEF HandleCommand, Execute, jvars, callers
<1> QED BY <1>2, <1>3, <1>4, <1>5, <1>6 DEF JNext, ThreadStep

LEMMA ResetOps ==
  /\ Call("get_run").op = "get_run"
  /\ Stop.op = "set_run" /\ Start.op = "set_run" /\ Stop.arg = FALSE /\ Start.arg = TRUE
  /\ Reset.op = "event" /\ Clear.op = "event"
BY DEF Call, Stop, Start, Reset, Clear, Do

LEMMA ResetReply ==
  ASSUME PauseInv, Asked, job["gui"] \in Resets, Resetting, Reply("gui"), Own'
  PROVE  Resetting'
<1> DEFINE r == Head(reply_q)
           d == todo["gui"]
           e == todo'["gui"]
           w == was_running["gui"]
           w1 == was_running'["gui"]
<1>1. /\ reply_q # <<>> /\ r.by = "gui"
      /\ waiting' = [waiting EXCEPT !["gui"] = FALSE]
      /\ run' = run
      /\ todo' = [todo EXCEPT !["gui"] =
                    IF r.req.op = "get_run" THEN Continue(job["gui"], r.val) ELSE Tail(d)]
      /\ was_running' = IF r.req.op = "get_run" THEN [was_running EXCEPT !["gui"] = r.val]
                                                ELSE was_running
  BY DEF Reply
<1>2. r.req = Head(d) /\ d # <<>>
  BY RestAfterReply DEF Threads
<1>3. 1 \in 1..Len(reply_q) /\ r = reply_q[1]
  BY <1>1, Popped DEF PauseInv, JTypeOK
<1>4. /\ todo \in [Threads -> Seq(Steps)] /\ "gui" \in Threads /\ run \in BOOLEAN
      /\ waiting \in [Threads -> BOOLEAN]
  BY DEF PauseInv, JTypeOK, Threads
<1>5. Answered
  BY <1>1, <1>3 DEF Answered
<1>6. ~Answered'
  <2>1. ~waiting'["gui"]
    BY <1>1, <1>4
  <2>2. OwnStep(reply_q, waiting, todo)'
    BY DEF Own
  <2> QED BY <2>1, <2>2 DEF OwnStep, Answered
<1>7. e = IF r.req.op = "get_run" THEN Continue(job["gui"], r.val) ELSE Tail(d)
  BY <1>1, <1>4
<1>8. w1 = IF r.req.op = "get_run" THEN r.val ELSE w
  BY <1>1, <1>4 DEF Asked
<1>9. CASE Asking
  <2>1. d = <<Call("get_run")>>
    BY <1>9 DEF Asking
  <2>2. r.req.op = "get_run"
    BY <1>2, <2>1, Heads, ResetOps
  <2>3. r.val = run
    BY <1>1, <1>3, <1>9 DEF Asking
  <2>4. e = ResetScript(job["gui"], run) /\ w1 = run
    BY <1>7, <1>8, <2>2, <2>3 DEF Continue, Resets
  <2>5. CASE run = TRUE
    <3>1. e \in {<<Stop, Reset, Start>>, <<Stop, Reset, Clear, Start>>}
      BY <2>4, <2>5, ResetScripts DEF Resets
    <3> QED BY <1>6, <2>4, <2>5, <3>1 DEF Resetting, WasRunning
  <2>6. CASE run = FALSE
    <3>1. e \in {<<Reset>>, <<Reset, Clear>>}
      BY <2>4, <2>6, ResetScripts DEF Resets
    <3> QED BY <1>1, <2>4, <2>6, <3>1 DEF Resetting, WasStopped
  <2> QED BY <1>4, <2>5, <2>6
<1>10. ASSUME r.req.op # "get_run" PROVE e = Tail(d) /\ w1 = w
  BY <1>7, <1>8, <1>10
<1>11. CASE w = TRUE /\ WasRunning
  <2>1. CASE d \in {<<Stop, Reset, Start>>, <<Stop, Reset, Clear, Start>>} /\ (Answered => ~run)
    <3>1. r.req = Stop
      BY <1>2, <2>1, Heads
    <3>2. e = Tail(d) /\ w1 = TRUE
      BY <1>10, <1>11, <3>1, ResetOps
    <3>3. e \in {<<Reset, Start>>, <<Reset, Clear, Start>>}
      BY <2>1, <3>2, TailsOfResets, Zenon
    <3> QED BY <1>1, <1>5, <2>1, <3>2, <3>3 DEF Resetting, WasRunning
  <2>2. CASE d \in {<<Reset, Start>>, <<Reset, Clear, Start>>, <<Clear, Start>>} /\ ~run
    <3>1. r.req = Reset \/ r.req = Clear
      BY <1>2, <2>2, Heads
    <3>2. e = Tail(d) /\ w1 = TRUE
      BY <1>10, <1>11, <3>1, ResetOps
    <3>3. e \in {<<Start>>, <<Clear, Start>>}
      BY <2>2, <3>2, TailsOfResets, Zenon
    <3> QED BY <1>1, <1>6, <2>2, <3>2, <3>3 DEF Resetting, WasRunning
  <2>3. CASE d = <<Start>> /\ (Answered => run)
    <3>1. r.req = Start
      BY <1>2, <2>3, Heads
    <3>2. e = Tail(d) /\ w1 = TRUE
      BY <1>10, <1>11, <3>1, ResetOps
    <3>3. e = <<>>
      BY <2>3, <3>2, Tails
    <3> QED BY <1>1, <1>5, <2>3, <3>2, <3>3 DEF Resetting, WasRunning
  <2> QED BY <1>2, <1>11, <2>1, <2>2, <2>3 DEF WasRunning
<1>12. CASE w = FALSE /\ WasStopped
  <2>1. d \in {<<Reset>>, <<Reset, Clear>>, <<Clear>>} /\ ~run
    BY <1>2, <1>12 DEF WasStopped
  <2>2. r.req = Reset \/ r.req = Clear
    BY <1>2, <2>1, Heads
  <2>3. e = Tail(d) /\ w1 = FALSE
    BY <1>10, <1>12, <2>2, ResetOps
  <2>4. e \in {<<>>, <<Clear>>}
    BY <2>1, <2>3, Tails
  <2> QED BY <1>1, <2>1, <2>3, <2>4 DEF Resetting, WasStopped
<1> QED BY <1>9, <1>11, <1>12 DEF Resetting

LEMMA ResetHandled ==
  ASSUME PauseInv, job["cli"] = "none", job["gui"] \in Resets, Resetting, HandleCommand
  PROVE  Resetting'
<1> DEFINE m == Head(cmd_q)
           a == Answer(m)
           d == todo["gui"]
<1>1. /\ cmd_q # <<>> /\ m \in Calls /\ UNCHANGED callers
      /\ reply_q' = Append(reply_q, a)
  BY Handled
<1>2. run' = IF m.req.op = "set_run" THEN m.req.arg ELSE run
  BY DEF HandleCommand
<1>3. 1 \in 1..Len(cmd_q) /\ m = cmd_q[1]
  BY <1>1, Popped DEF PauseInv, JTypeOK
<1>4. m.by = "gui"
  BY <1>3, OnlyGui
<1>5. d # <<>> /\ m.req = Head(d)
  BY <1>3, <1>4 DEF PauseInv, Own, OwnStep
<1>6. \A i \in 1..Len(reply_q) : reply_q[i].by # "gui"
  BY <1>3, <1>4 DEF PauseInv, Only, Apart
<1>7. a \in Calls /\ a.by = "gui" /\ (m.req.op = "get_run" => a.val = run)
  <2>1. m.req.op = "get_run" => a.val = run
    BY <1>1 DEF Answer, Calls
  <2> QED BY <1>1, <1>4, <2>1, AnswerIs DEF PauseInv
<1>8. todo' = todo /\ was_running' = was_running
  BY <1>1 DEF callers
<1> HIDE DEF a, m
<1>9. Len(reply_q') = Len(reply_q) + 1 /\ reply_q'[Len(reply_q) + 1] = a
  BY <1>1, <1>7, Appended DEF PauseInv, JTypeOK
<1>10. \A i \in 1..Len(reply_q) : reply_q'[i] = reply_q[i]
  BY <1>1, <1>7, Appended DEF PauseInv, JTypeOK
<1>11. \A i \in 1..Len(reply_q') : reply_q'[i].by = "gui" => reply_q'[i] = a
  <2>1. Len(reply_q) \in Nat
    BY DEF PauseInv, JTypeOK
  <2>2. \A i \in 1..Len(reply_q') : i \in 1..Len(reply_q) \/ i = Len(reply_q) + 1
    BY <1>9, <2>1
  <2> QED BY <1>6, <1>9, <1>10, <2>2
<1>12. CASE Asking
  <2>1. m.req.op = "get_run"
    BY <1>5, <1>12, Heads, ResetOps DEF Asking
  <2> QED BY <1>2, <1>7, <1>8, <1>11, <1>12, <2>1 DEF Resetting, Asking
<1>13. CASE was_running["gui"] = TRUE /\ WasRunning
  <2>1. CASE d \in {<<Stop, Reset, Start>>, <<Stop, Reset, Clear, Start>>}
    <3>1. m.req = Stop
      BY <1>5, <2>1, Heads
    <3>2. ~run'
      BY <1>2, <3>1, ResetOps
    <3> QED BY <1>8, <1>13, <2>1, <3>2 DEF Resetting, WasRunning
  <2>2. CASE d \in {<<Reset, Start>>, <<Reset, Clear, Start>>, <<Clear, Start>>} /\ ~run
    <3>1. m.req = Reset \/ m.req = Clear
      BY <1>5, <2>2, Heads
    <3>2. run' = run
      BY <1>2, <3>1, ResetOps
    <3> QED BY <1>8, <1>13, <2>2, <3>2 DEF Resetting, WasRunning
  <2>3. CASE d = <<Start>>
    <3>1. m.req = Start
      BY <1>5, <2>3, Heads
    <3>2. run'
      BY <1>2, <3>1, ResetOps
    <3> QED BY <1>8, <1>13, <2>3, <3>2 DEF Resetting, WasRunning
  <2> QED BY <1>5, <1>13, <2>1, <2>2, <2>3 DEF WasRunning
<1>14. CASE was_running["gui"] = FALSE /\ WasStopped
  <2>1. m.req = Reset \/ m.req = Clear
    BY <1>5, <1>14, Heads DEF WasStopped
  <2>2. run' = run
    BY <1>2, <2>1, ResetOps
  <2> QED BY <1>8, <1>14, <2>2 DEF Resetting, WasStopped
<1> QED BY <1>12, <1>13, <1>14 DEF Resetting

(* What leaves the job, its script and the run flag as they are *)
LEMMA ResetUntouched ==
  ASSUME Resetting, UNCHANGED <<run, reply_q>>, todo'["gui"] = todo["gui"],
         was_running'["gui"] = was_running["gui"]
  PROVE  Resetting'
BY DEF Resetting, Asking, WasRunning, WasStopped, Answered

(* A reset begins by asking whether the simulator is running. *)
LEMMA ResetBegin ==
  ASSUME PauseInv, NEW j \in Resets, Begin("gui", j)
  PROVE  Resetting'
<1>1. /\ job["gui"] = "none" /\ reply_q' = reply_q /\ run' = run
      /\ todo' = [todo EXCEPT !["gui"] = Script(j)]
  BY DEF Begin, queues
<1>2. Script(j) = <<Call("get_run")>>
  BY DEF Script, Resets
<1>3. todo'["gui"] = <<Call("get_run")>>
  BY <1>1, <1>2 DEF PauseInv, JTypeOK, Threads
<1>4. todo["gui"] = <<>>
  BY <1>1 DEF PauseInv, Scripts, ScriptOK, Threads
<1>5. \A i \in 1..Len(reply_q) : reply_q[i].by # "gui"
  BY <1>4 DEF PauseInv, Own, OwnStep
<1> QED BY <1>1, <1>3, <1>5 DEF Resetting, Asking

LEMMA ResetStep ==
  ASSUME PauseInv, PauseInv', ResetInv, ~has_debugger_cli, [JNext]_jvars
  PROVE  /\ ~has_debugger_cli' /\ job'["cli"] = "none"
         /\ job'["gui"] \in Resets => Resetting'
<1>1. /\ job["cli"] = "none" /\ Asked
      /\ job["gui"] \in Resets => Resetting
  BY DEF ResetInv
<1>2. job \in [Threads -> JobNames \cup {"none"}] /\ todo \in [Threads -> Seq(Steps)]
  BY DEF PauseInv, JTypeOK
<1>3. "gui" \in Threads /\ "cli" \in Threads /\ \A t \in Threads : t = "gui" \/ t = "cli"
  BY DEF Threads
<1>4. "none" \notin Resets
  BY DEF Resets
<1>5. todo["cli"] = <<>>
  BY <1>1, OnlyGui
<1>6. has_debugger_cli' = has_debugger_cli
  BY DEF JNext, ThreadStep, jvars, process, Request, Reply, WrongReply, CloseFile, End,
         Begin, HandleCommand, Execute
<1>7. ASSUME NEW t \in Threads, NEW j \in JobNames, Begin(t, j)
      PROVE  job'["cli"] = "none" /\ (job'["gui"] \in Resets => Resetting')
  <2>1. t = "gui"
    BY <1>3, <1>7 DEF Begin
  <2>2. job'["cli"] = "none" /\ job'["gui"] = j
    BY <1>1, <1>2, <1>3, <1>7, <2>1 DEF Begin
  <2> QED BY <1>7, <2>1, <2>2, ResetBegin
<1>8. ASSUME NEW t \in Threads, Request(t)
      PROVE  job'["cli"] = "none" /\ (job'["gui"] \in Resets => Resetting')
  <2>1. UNCHANGED <<run, reply_q, job, todo, was_running>>
    BY <1>8 DEF Request
  <2> QED BY <1>1, <2>1, ResetUntouched
<1>9. ASSUME NEW t \in Threads, Reply(t)
      PROVE  job'["cli"] = "none" /\ (job'["gui"] \in Resets => Resetting')
  <2>1. job' = job
    BY <1>9 DEF Reply
  <2>2. todo[t] # <<>>
    BY <1>9, RestAfterReply
  <2>3. t = "gui"
    BY <1>3, <1>5, <2>2
  <2> QED BY <1>1, <1>9, <2>1, <2>3, ResetReply DEF PauseInv
<1>10. ASSUME NEW t \in Threads, CloseFile(t)
      PROVE  job'["cli"] = "none" /\ (job'["gui"] \in Resets => Resetting')
  <2>1. job' = job /\ todo[t] # <<>> /\ Head(todo[t]).op = "close_file"
    BY <1>10 DEF CloseFile
  <2>2. t = "gui"
    BY <1>3, <1>5, <2>1
  <2>3. ASSUME job["gui"] \in Resets PROVE FALSE
    <3>1. Head(todo["gui"]) \in {Call("get_run"), Stop, Reset, Clear, Start}
      BY <1>1, <2>1, <2>2, <2>3, ResetHeads
    <3> QED BY <2>1, <2>2, <3>1, ResetOps
  <2> QED BY <1>1, <2>1, <2>3
<1>11. ASSUME NEW t \in Threads, End(t)
      PROVE  job'["cli"] = "none" /\ (job'["gui"] \in Resets => Resetting')
  <2>1. t = "gui"
    BY <1>1, <1>3, <1>11 DEF End
  <2>2. job'["cli"] = "none" /\ job'["gui"] = "none"
    BY <1>1, <1>2, <1>3, <1>11, <2>1 DEF End
  <2> QED BY <1>4, <2>2
<1>12. ASSUME NEW t \in Threads, WrongReply(t)
      PROVE  job'["cli"] = "none" /\ (job'["gui"] \in Resets => Resetting')
  <2>1. UNCHANGED <<run, reply_q, job, todo, was_running>>
    BY <1>12 DEF WrongReply, queues, callers
  <2> QED BY <1>1, <2>1, ResetUntouched
<1>13. CASE HandleCommand
  <2>1. job' = job
    BY <1>13 DEF HandleCommand, callers
  <2> QED BY <1>1, <1>13, <2>1, <1>6, ResetHandled
<1>14. CASE Execute \/ UNCHANGED jvars
  <2>1. UNCHANGED <<run, reply_q, job, todo, was_running>>
    BY <1>14 DEF Execute, jvars, queues, callers
  <2> QED BY <1>1, <1>6, <2>1, ResetUntouched
<1>15. \/ \E t \in Threads : \/ Request(t) \/ Reply(t) \/ CloseFile(t) \/ End(t)
                            \/ WrongReply(t) \/ \E j \in JobNames : Begin(t, j)
       \/ HandleCommand \/ Execute \/ UNCHANGED jvars
  BY DEF JNext, ThreadStep
<1>16. job'["cli"] = "none" /\ (job'["gui"] \in Resets => Resetting')
  BY <1>7, <1>8, <1>9, <1>10, <1>11, <1>12, <1>13, <1>14, <1>15
<1> QED BY <1>6, <1>16

LEMMA ResetInvPreserved ==
  ASSUME PauseInv, PauseInv', ResetInv, [JNext]_jvars
  PROVE  ResetInv'
<1>1. Asked'
  BY AskedPreserved DEF ResetInv
<1>2. has_debugger_cli' = has_debugger_cli
  BY DEF JNext, ThreadStep, jvars, process, Request, Reply, WrongReply, CloseFile, End,
         Begin, HandleCommand, Execute
<1>3. ASSUME ~has_debugger_cli PROVE ResetInv'
  BY <1>1, <1>3, ResetStep DEF ResetInv
<1>4. ASSUME has_debugger_cli PROVE ResetInv'
  BY <1>1, <1>2, <1>4 DEF ResetInv
<1> QED BY <1>3, <1>4

(* A job that is over has left nothing of its script. *)
LEMMA JobOver ==
  ASSUME PauseInv, [JNext]_jvars, job["gui"] \in Resets, job'["gui"] = "none"
  PROVE  todo["gui"] = <<>>
<1>1. job["gui"] # "none" /\ job' # job
  BY DEF Resets
<1>2. \E t \in Threads : End(t) \/ \E j \in JobNames : Begin(t, j)
  BY <1>1 DEF JNext, ThreadStep, jvars, callers, Request, Reply, WrongReply, CloseFile,
              HandleCommand, Execute
<1>3. PICK t \in Threads : End(t) \/ \E j \in JobNames : Begin(t, j)
  BY <1>2
<1>4. job \in [Threads -> JobNames \cup {"none"}] /\ "gui" \in Threads
  BY DEF PauseInv, JTypeOK, Threads
<1>5. CASE End(t)
  <2>1. job' = [job EXCEPT ![t] = "none"] /\ todo[t] = <<>>
    BY <1>5 DEF End
  <2>2. t = "gui"
    BY <1>1, <1>4, <2>1
  <2> QED BY <2>1, <2>2
<1>6. ASSUME NEW j \in JobNames, Begin(t, j) PROVE FALSE
  <2>1. job' = [job EXCEPT ![t] = j] /\ job[t] = "none"
    BY <1>6 DEF Begin
  <2>2. t # "gui"
    BY <1>1, <2>1
  <2>3. job'["gui"] = job["gui"]
    BY <1>4, <2>1, <2>2
  <2> QED BY <1>1, <2>3
<1> QED BY <1>3, <1>5, <1>6

LEMMA ResetLeavesAsFound ==
  ASSUME PauseInv, ResetInv, [JNext]_jvars
  PROVE  \A t \in Threads :
           job[t] \in Resets /\ ~has_debugger_cli =>
             /\ job'[t] = "none" => run = was_running[t]
             /\ Execute /\ todo[t] # <<>> => Head(todo[t]) # Clear
<1> SUFFICES ASSUME NEW t \in Threads, job[t] \in Resets, ~has_debugger_cli
             PROVE  /\ job'[t] = "none" => run = was_running[t]
                    /\ Execute /\ todo[t] # <<>> => Head(todo[t]) # Clear
  OBVIOUS
<1>1. t = "gui" /\ Resetting
  BY DEF ResetInv, Threads, Resets
<1>2. ASSUME job'[t] = "none" PROVE run = was_running[t]
  <2>1. todo["gui"] = <<>>
    BY <1>1, <1>2, JobOver
  <2>2. <<>> \notin {<<Call("get_run")>>, <<Start>>}
    OBVIOUS
  <2>3. <<>> \notin {<<Reset, Start>>, <<Reset, Clear, Start>>, <<Clear, Start>>,
                     <<Stop, Reset, Start>>, <<Stop, Reset, Clear, Start>>}
    OBVIOUS
  <2>4. \/ was_running["gui"] = TRUE /\ run
        \/ was_running["gui"] = FALSE /\ ~run
    BY <1>1, <2>1, <2>2, <2>3 DEF Resetting, Asking, WasRunning, WasStopped
  <2>5. run \in BOOLEAN
    BY DEF PauseInv, JTypeOK
  <2> QED BY <1>1, <2>4, <2>5
<1>3. ASSUME Execute, todo[t] # <<>> PROVE Head(todo[t]) # Clear
  <2>1. run
    BY <1>3 DEF Execute
  <2> QED BY <1>1, <1>3, <2>1, ResetHeads
<1> QED BY <1>2, <1>3

(* Where only the menus call, a reset leaves a running simulator running   *)
(* and a stopped one stopped, and nothing is executed between the reset    *)
(* and the clearing of the memory, whatever else the menus offer.          *)
THEOREM ResetIsUndisturbedCorrect == JSpec => ResetIsUndisturbed
<1>1. PauseInv /\ [JNext]_jvars => PauseInv'
  BY PausePreservesTypes, PausePreservesScripts, PausePreservesMessages, PausePreservesOwed
     DEF PauseInv
<1>2. PauseInv /\ ResetInv /\ PauseInv' /\ [JNext]_jvars => ResetInv'
  BY ResetInvPreserved
<1>3. JInit => ResetInv
  BY DEF JInit, ResetInv, Asked, Resets, Threads
<1>4. PauseInv /\ ResetInv /\ [JNext]_jvars =>
        [\A t \in Threads :
           job[t] \in {"reset", "obdurate_reset"} /\ ~has_debugger_cli =>
             /\ job'[t] = "none" => run = was_running[t]
             /\ Execute /\ todo[t] # <<>> =>
                  Head(todo[t]) # Do("event", "clear_memory")]_jvars
  BY ResetLeavesAsFound DEF Resets, Clear
<1> QED BY PauseInvInit, <1>1, <1>2, <1>3, <1>4, PTL DEF JSpec, ResetIsUndisturbed
=============================================================================
