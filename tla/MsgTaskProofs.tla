---------------------------- MODULE MsgTaskProofs ----------------------------
(***************************************************************************)
(* What MsgTask guarantees for any number of posters and messages.         *)
(***************************************************************************)
EXTENDS MsgTask, SequenceTheorems, TLAPS

\* The inductive strengthening: who holds the runnable at each stage of the
\* thread and of the stop, what the queue's flags then are, and when a late
\* message can have been taken.
Inv ==
  /\ TypeOK
  /\ "thread" \in refs <=> pc # "gone"
  /\ "stopper" \in refs <=> stopPc \in {"locked", "interrupted"}
  /\ queue = "open" <=> stopPc \in {"running", "locked"}
  /\ queue = "released" <=> refs = {}
  /\ pc \in {"exit", "gone"} => queue # "open"
  /\ queue = "open" \/ pc \in {"wait", "woken"} => takenLate = 0
  /\ takenLate <= 1
  /\ NoLostWakeup

\* The initial state satisfies the invariant.
LEMMA InitInv == Init => Inv
<1> SUFFICES ASSUME Init PROVE Inv
  OBVIOUS
<1>1. TypeOK
  BY SendAssumption DEF Init, TypeOK
<1>. QED
  BY <1>1 DEF Init, Inv, NoLostWakeup

\* A message is a pair, never the empty tuple that stands for no message.
LEMMA MessageIsNotNoMsg == NoMsg \notin Message
  BY DEF NoMsg, Message

\* A posted message is one of the messages.
LEMMA PostIsMessage ==
  ASSUME TypeOK, NEW p \in Poster, sent[p] < MaxSend
  PROVE  <<p, sent[p] + 1>> \in Message
  BY SendAssumption DEF TypeOK, Message

\* Letting go of the runnable leaves a queue and a free list of messages.
LEMMA DropTypes ==
  ASSUME TypeOK, NEW owner, drop(owner)
  PROVE  freed' \in Seq(Message) /\ msgList' \in Seq(Message)
<1>1. CASE refs' = {}
  <2>1. msgList' = <<>> /\ freed' = freed \o msgList
    BY <1>1 DEF drop, msg_q_flush
  <2>2. freed \in Seq(Message) /\ msgList \in Seq(Message)
    BY DEF TypeOK
  <2>3. freed \o msgList \in Seq(Message)
    BY <2>2
  <2>. QED
    BY <2>1, <2>3
<1>2. CASE refs' # {}
  BY <1>2 DEF TypeOK, drop
<1>. QED
  BY <1>1, <1>2

\* Every step keeps the invariant.
LEMMA NextInv == Inv /\ [Next]_vars => Inv'
<1> SUFFICES ASSUME Inv, [Next]_vars PROVE Inv'
  OBVIOUS
<1> USE DEF Inv, TypeOK, NoLostWakeup
<1> USE MessageIsNotNoMsg
<1>1. ASSUME NEW p \in Poster, sendMsg(p) PROVE Inv'
  <2>1. <<p, sent[p] + 1>> \in Message
    BY <1>1, PostIsMessage DEF sendMsg
  <2>2. sent' \in [Poster -> 0..MaxSend]
    BY <1>1, SendAssumption DEF sendMsg
  <2>3. CASE queue = "open"
    <3>1. /\ msgList' = Append(msgList, <<p, sent[p] + 1>>)
          /\ accepted' = Append(accepted, <<p, sent[p] + 1>>)
          /\ pc' = IF pc = "wait" THEN "woken" ELSE pc
          /\ UNCHANGED <<queue, cur, refs, stopPc, taken, freed, takenLate>>
      BY <1>1, <2>3 DEF sendMsg, msg_q_snd, linked_list_add, wake
    <3>2. msgList' \in Seq(Message) /\ accepted' \in Seq(Message)
      BY <2>1, <3>1
    <3>. QED
      BY <2>2, <3>1, <3>2
  <2>4. CASE queue # "open"
    <3>1. UNCHANGED <<msgList, accepted, pc, queue, cur, refs, stopPc, taken,
                      freed, takenLate>>
      BY <1>1, <2>4 DEF sendMsg, msg_q_snd
    <3>. QED
      BY <2>2, <3>1
  <2>. QED
    BY <2>3, <2>4
<1>2. CASE RcvClosed
  BY <1>2 DEF RcvClosed
<1>3. CASE RcvEmpty
  BY <1>3 DEF RcvEmpty
<1>4. CASE RcvTake
  BY <1>4 DEF RcvTake, take, linked_list_remove
<1>5. CASE WaitTake
  BY <1>5 DEF WaitTake, take, linked_list_remove
<1>6. CASE WaitClosed
  BY <1>6 DEF WaitClosed
<1>7. CASE ProcDone
  BY <1>7 DEF ProcDone
<1>8. CASE ThreadExit
  <2>1. freed' \in Seq(Message) /\ msgList' \in Seq(Message)
    BY <1>8, DropTypes DEF ThreadExit
  <2>. QED
    BY <1>8, <2>1 DEF ThreadExit, drop
<1>9. CASE StopLock
  BY <1>9 DEF StopLock
<1>10. CASE StopInterrupt
  BY <1>10 DEF StopInterrupt, msg_q_unblock, wake
<1>11. CASE StopDrop
  <2>1. freed' \in Seq(Message) /\ msgList' \in Seq(Message)
    BY <1>11, DropTypes DEF StopDrop
  <2>. QED
    BY <1>11, <2>1 DEF StopDrop, drop
<1>12. CASE UNCHANGED vars
  BY <1>12 DEF vars
<1>. QED
  BY <1>1, <1>2, <1>3, <1>4, <1>5, <1>6, <1>7, <1>8, <1>9, <1>10, <1>11,
     <1>12 DEF Next, Worker, Stopper

\* The invariant holds in every reachable state.
THEOREM Invariance == Spec => []Inv
  BY InitInv, NextInv, PTL DEF Spec

\* Type correctness of MsgTask: proc() runs exactly on a received message.
THEOREM TypeCorrect == Spec => []TypeOK
<1>1. Inv => TypeOK
  BY DEF Inv
<1>. QED
  BY <1>1, Invariance, PTL

\* No wake-up of the task thread is lost, whoever posts and stops when.
THEOREM WakeupsAreNotLost == Spec => []NoLostWakeup
<1>1. Inv => NoLostWakeup
  BY DEF Inv
<1>. QED
  BY <1>1, Invariance, PTL

\* The queue outlives both the task thread and the thread that stops it.
THEOREM ReleasedLast == Spec => []ReleaseIsLast
<1>1. Inv => ReleaseIsLast
  BY DEF Inv, TypeOK, ReleaseIsLast
<1>. QED
  BY <1>1, Invariance, PTL

\* At most one message reaches proc() after msg_q_unblock.
THEOREM OneLateMessage == Spec => []OneAfterUnblock
<1>1. Inv => OneAfterUnblock
  BY DEF Inv, OneAfterUnblock
<1>. QED
  BY <1>1, Invariance, PTL

\* Shutting down is orderly, for the messages and for the queue itself.
THEOREM ShutdownIsOrderly == Spec => []Shutdown
<1>1. Spec => []OneAfterUnblock
  BY OneLateMessage
<1>2. Spec => []ReleaseIsLast
  BY ReleasedLast
<1>3. OneAfterUnblock /\ ReleaseIsLast => Shutdown
  BY DEF Shutdown
<1>. QED
  BY <1>1, <1>2, <1>3, PTL
------------------------------------------------------------------------------
(* Each accepted message has one owner.                                    *)

\* A free list, a running message and a queue, read one after the other.
owned(f, c, q) == f \o (IF c = NoMsg THEN <<>> ELSE <<c>>) \o q

\* What was accepted is what is owned.
Owned == accepted = owned(freed, cur, msgList)

\* Posting adds at the end of what is owned.
LEMMA OwnedPost ==
  ASSUME NEW f \in Seq(Message), NEW c \in Message \cup {NoMsg}, NEW q \in Seq(Message),
         NEW m \in Message
  PROVE  owned(f, c, Append(q, m)) = Append(owned(f, c, q), m)
<1> DEFINE running == IF c = NoMsg THEN <<>> ELSE <<c>>
<1>1. running \in Seq(Message) /\ <<m>> \in Seq(Message)
  OBVIOUS
<1>2. Append(q, m) = q \o <<m>>
  BY AppendIsConcat
<1>. HIDE DEF running
<1>3. PICK e \in Seq(Message) : e = f \o running
  BY <1>1, ConcatProperties
<1>4. Append(e \o q, m) = (e \o q) \o <<m>>
  <2>1. e \o q \in Seq(Message)
    BY ConcatProperties
  <2>. QED
    BY <2>1, AppendIsConcat
<1>5. (e \o q) \o <<m>> = e \o (q \o <<m>>)
  <2>1. PICK w \in Seq(Message) : w = <<m>>
    BY <1>1
  <2>2. (e \o q) \o w = e \o (q \o w)
    BY ConcatAssociative
  <2>. QED
    BY <2>1, <2>2
<1>6. e \o Append(q, m) = Append(e \o q, m)
  BY <1>2, <1>4, <1>5
<1>7. owned(f, c, q) = e \o q /\ owned(f, c, Append(q, m)) = e \o Append(q, m)
  BY <1>3 DEF owned, running
<1>. QED
  BY <1>6, <1>7

\* Taking the head of the queue for processing moves nothing.
LEMMA OwnedTake ==
  ASSUME NEW f \in Seq(Message), NEW q \in Seq(Message), q # <<>>
  PROVE  owned(f, Head(q), Tail(q)) = owned(f, NoMsg, q)
<1>1. Head(q) \in Message /\ Tail(q) \in Seq(Message) /\ Head(q) # NoMsg
  BY MessageIsNotNoMsg
<1>2. <<Head(q)>> \in Seq(Message)
  BY <1>1
<1>3. <<Head(q)>> \o Tail(q) = q
  OBVIOUS
<1>4. (f \o <<Head(q)>>) \o Tail(q) = f \o q
  BY <1>1, <1>2, <1>3, ConcatAssociative
<1>5. f \o <<>> = f
  BY ConcatEmptySeq
<1>. QED
  BY <1>1, <1>4, <1>5 DEF owned

\* Neither does deleting the processed message.
LEMMA OwnedDone ==
  ASSUME NEW f \in Seq(Message), NEW c \in Message, NEW q \in Seq(Message)
  PROVE  owned(Append(f, c), NoMsg, q) = owned(f, c, q)
<1>1. c # NoMsg /\ <<c>> \in Seq(Message) /\ Append(f, c) \in Seq(Message)
  BY MessageIsNotNoMsg
<1>2. Append(f, c) = f \o <<c>> /\ Append(f, c) \o <<>> = Append(f, c)
  BY <1>1, AppendIsConcat, ConcatEmptySeq
<1>. QED
  BY <1>1, <1>2 DEF owned

\* Nor does the final flush.
LEMMA OwnedFlush ==
  ASSUME NEW f \in Seq(Message), NEW q \in Seq(Message)
  PROVE  owned(f \o q, NoMsg, <<>>) = owned(f, NoMsg, q)
<1>1. f \o q \in Seq(Message) /\ f \o <<>> = f
  BY ConcatProperties, ConcatEmptySeq
<1>2. ((f \o q) \o <<>>) \o <<>> = f \o q
  BY <1>1, ConcatEmptySeq
<1>. QED
  BY <1>1, <1>2 DEF owned

\* Every step keeps the owners and the order of the accepted messages.
LEMMA NextFreedOnce == Inv /\ Owned /\ [Next]_vars => Owned'
<1> SUFFICES ASSUME Inv, accepted = owned(freed, cur, msgList), [Next]_vars
             PROVE  accepted' = owned(freed', cur', msgList')
  BY DEF Owned
<1>1. TypeOK
  BY DEF Inv
<1>2. /\ msgList \in Seq(Message) /\ freed \in Seq(Message)
      /\ cur \in Message \cup {NoMsg}
      /\ pc = "proc" <=> cur # NoMsg
  BY <1>1 DEF TypeOK
<1>3. ASSUME NEW p \in Poster, sendMsg(p)
      PROVE  accepted' = owned(freed', cur', msgList')
  <2>1. <<p, sent[p] + 1>> \in Message
    BY <1>1, <1>3, PostIsMessage DEF sendMsg
  <2>2. UNCHANGED <<cur, freed>>
    BY <1>3 DEF sendMsg
  <2>3. CASE queue = "open"
    <3>1. /\ msgList' = Append(msgList, <<p, sent[p] + 1>>)
          /\ accepted' = Append(accepted, <<p, sent[p] + 1>>)
      BY <1>3, <2>3 DEF sendMsg, msg_q_snd, linked_list_add
    <3>. QED
      BY <1>2, <2>1, <2>2, <3>1, OwnedPost
  <2>4. CASE queue # "open"
    BY <1>3, <2>2, <2>4 DEF sendMsg, msg_q_snd
  <2>. QED
    BY <2>3, <2>4
<1>4. ASSUME take, UNCHANGED <<accepted, freed>>, msgList # <<>>, pc # "proc"
      PROVE  accepted' = owned(freed', cur', msgList')
  BY <1>2, <1>4, OwnedTake DEF take, linked_list_remove
<1>5. CASE RcvTake
  BY <1>4, <1>5 DEF RcvTake
<1>6. CASE WaitTake
  BY <1>4, <1>6 DEF WaitTake
<1>7. CASE ProcDone
  BY <1>2, <1>7, OwnedDone DEF ProcDone
<1>8. ASSUME NEW owner, drop(owner), UNCHANGED <<accepted, cur>>, refs' = {} => cur = NoMsg
      PROVE  accepted' = owned(freed', cur', msgList')
  <2>1. CASE refs' = {}
    BY <1>2, <1>8, <2>1, OwnedFlush DEF drop, msg_q_flush
  <2>2. CASE refs' # {}
    BY <1>8, <2>2 DEF drop
  <2>. QED
    BY <2>1, <2>2
<1>9. CASE ThreadExit
  <2>1. cur = NoMsg
    BY <1>2, <1>9 DEF ThreadExit
  <2>. QED
    BY <1>8, <1>9, <2>1 DEF ThreadExit
<1>10. CASE StopDrop
  <2>1. refs' = {} => cur = NoMsg
    BY <1>2, <1>10 DEF StopDrop, drop, Inv
  <2>. QED
    BY <1>8, <1>10, <2>1 DEF StopDrop
<1>11. CASE RcvClosed \/ RcvEmpty \/ WaitClosed \/ StopLock \/ StopInterrupt \/ UNCHANGED vars
  <2>1. UNCHANGED <<accepted, freed, cur, msgList>>
    BY <1>11 DEF RcvClosed, RcvEmpty, WaitClosed, StopLock, StopInterrupt, vars
  <2>. QED
    BY <2>1
<1>. QED
  BY <1>3, <1>5, <1>6, <1>7, <1>9, <1>10, <1>11 DEF Next, Worker, Stopper

\* No accepted message is overtaken, lost, or freed twice or while it is queued
\* or running, whatever races with the stop (MTRunnable::run, ~MTRunnable).
THEOREM MessagesAreFreedOnce == Spec => []FreedOnce
<1>1. Init => Owned
  BY DEF Init, Owned, owned
<1>2. Owned => FreedOnce
  BY DEF Owned, owned, FreedOnce
<1>. QED
  BY <1>1, <1>2, NextFreedOnce, Invariance, PTL DEF Spec
------------------------------------------------------------------------------
(* The FIFO service.                                                       *)

\* Every step of the task is a step of the service it promises, or none.
LEMMA StepImplementsFifo == Inv /\ [Next]_vars => [Abstract!Next]_(Abstract!vars)
<1> SUFFICES ASSUME Inv, [Next]_vars  PROVE [Abstract!Next]_(Abstract!vars)
  OBVIOUS
<1>1. TypeOK
  BY DEF Inv
<1>2. ASSUME UNCHANGED <<msgList, taken, queue, takenLate>>
      PROVE  UNCHANGED Abstract!vars
  BY <1>2 DEF Abstract!vars
<1>3. ASSUME NEW p \in Poster, sendMsg(p)
      PROVE  Abstract!Next \/ UNCHANGED Abstract!vars
  <2>1. CASE queue = "open"
    <3>1. Abstract!Accept(<<p, sent[p] + 1>>)
      BY <1>3, <2>1 DEF sendMsg, msg_q_snd, linked_list_add, Abstract!Accept
    <3>2. <<p, sent[p] + 1>> \in Message
      BY <1>1, <1>3, PostIsMessage DEF sendMsg
    <3>. QED
      BY <3>1, <3>2 DEF Abstract!Next
  <2>2. CASE queue # "open"
    BY <1>2, <1>3, <2>2 DEF sendMsg, msg_q_snd
  <2>. QED
    BY <2>1, <2>2
<1>4. ASSUME take, UNCHANGED queue, msgList # <<>>, queue # "released", takenLate = 0
      PROVE  Abstract!Next
  <2>1. takenLate' = 0 <=> queue = "open"
    BY <1>4 DEF take
  <2>2. Abstract!Perform
    BY <1>4, <2>1 DEF Abstract!Perform, take, linked_list_remove
  <2>. QED
    BY <2>2 DEF Abstract!Next
<1>5. CASE RcvTake
  BY <1>4, <1>5 DEF RcvTake, Inv
<1>6. CASE WaitTake
  <2>1. queue # "released" /\ takenLate = 0
    BY <1>6 DEF WaitTake, Inv
  <2>. QED
    BY <1>4, <1>6, <2>1 DEF WaitTake
<1>7. CASE StopInterrupt
  <2>1. queue = "open" /\ queue' = "unblocked" /\ UNCHANGED <<msgList, taken, takenLate>>
    BY <1>7 DEF StopInterrupt, msg_q_unblock, Inv
  <2>2. Abstract!Close
    BY <2>1 DEF Abstract!Close
  <2>. QED
    BY <2>2 DEF Abstract!Next
<1>8. ASSUME NEW owner, drop(owner), UNCHANGED <<taken, takenLate>>, queue # "open"
      PROVE  Abstract!Next \/ UNCHANGED Abstract!vars
  <2>1. CASE refs' = {}
    <3>1. Abstract!Discard
      BY <1>8, <2>1 DEF drop, msg_q_flush, Abstract!Discard
    <3>. QED
      BY <3>1 DEF Abstract!Next
  <2>2. CASE refs' # {}
    BY <1>2, <1>8, <2>2 DEF drop
  <2>. QED
    BY <2>1, <2>2
<1>9. CASE ThreadExit
  BY <1>8, <1>9 DEF ThreadExit, Inv
<1>10. CASE StopDrop
  BY <1>8, <1>10 DEF StopDrop, Inv
<1>11. CASE RcvClosed \/ RcvEmpty \/ WaitClosed \/ ProcDone \/ StopLock \/ UNCHANGED vars
  BY <1>2, <1>11 DEF RcvClosed, RcvEmpty, WaitClosed, ProcDone, StopLock, vars
<1>. QED
  BY <1>3, <1>5, <1>6, <1>7, <1>9, <1>10, <1>11 DEF Next, Worker, Stopper

\* The task is a FIFO service for any posters: accepted messages start one at a
\* time in the order of acceptance, and after the close at most one more.  Its
\* fairness is left to the run.
THEOREM TaskIsFifo == Spec => Abstract!Init /\ [][Abstract!Next]_(Abstract!vars)
<1>1. Init => Abstract!Init
  BY DEF Init, Abstract!Init
<1>. QED
  BY <1>1, StepImplementsFifo, Invariance, PTL DEF Spec
==============================================================================
