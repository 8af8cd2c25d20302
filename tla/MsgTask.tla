------------------------------- MODULE MsgTask -------------------------------
(***************************************************************************)
(* A MsgTask (gps/utils/MsgTask.cpp): a message queue (msg_q.c over        *)
(* linked_list.c) drained by one detached thread (LocThread.cpp).  Every   *)
(* adapter, the LocTimer service and the system-status observer post their *)
(* work through one of these, so its FIFO order and its shutdown are what  *)
(* the rest of the HAL builds on.                                          *)
(*                                                                         *)
(* One action is one critical section of list_mutex, or the code between   *)
(* two of them.  Senders may race with LocThread::stop(), but do not use   *)
(* the queue once it has been released (the callers' obligation: the       *)
(* pointer mQ dies with the MsgTask).                                      *)
(***************************************************************************)
EXTENDS Naturals, Sequences, SequencesExt

CONSTANTS
  Sender,                  \* client threads that call MsgTask::sendMsg
  Self,                    \* the task's own thread, when proc() posts more work
  MaxSend                  \* bound: messages each of them posts

ASSUME SendAssumption == MaxSend \in Nat /\ Self \notin Sender

Poster  == Sender \cup {Self}
Message == Poster \X (1..MaxSend)
NoMsg   == <<>>               \* no message is being processed

VARIABLES
  msgList,                 \* msg_q::msg_list, oldest first
  queue,                   \* msg_q::unblocked, and whether msg_q_destroy ran
  pc,                      \* the task thread; "woken": list_cond was signalled
  cur,                     \* the message its run() is processing
  refs,                    \* shared_ptr owners of the MTRunnable
  stopPc,                  \* the thread that calls LocThread::stop
  sent,                    \* messages posted so far, per poster
  accepted,                \* history: messages msg_q_snd queued, in order
  taken,                   \* history: messages msg_q_rcv returned, in order
  freed,                   \* history: messages deleted, in order
  takenLate                \* history: messages taken after the unblock

vars == <<msgList, queue, pc, cur, refs, stopPc, sent, accepted, taken, freed,
          takenLate>>

\* Types; proc() runs exactly when run() holds a message it received.
TypeOK ==
  /\ msgList \in Seq(Message)
  /\ queue \in {"open", "unblocked", "released"}
  /\ pc \in {"run", "wait", "woken", "proc", "exit", "gone"}
  /\ cur \in Message \cup {NoMsg}
  /\ pc = "proc" <=> cur # NoMsg
  /\ refs \subseteq {"thread", "stopper"}
  /\ stopPc \in {"running", "locked", "interrupted", "stopped"}
  /\ sent \in [Poster -> 0..MaxSend]
  /\ accepted \in Seq(Message)
  /\ taken \in Seq(Message)
  /\ freed \in Seq(Message)
  /\ takenLate \in Nat

\* MsgTask::MsgTask: msg_q_init2, then mThread.start
Init ==
  /\ msgList = <<>> /\ queue = "open"
  /\ pc = "run" /\ cur = NoMsg
  /\ refs = {"thread"} /\ stopPc = "running"
  /\ sent = [p \in Poster |-> 0]
  /\ accepted = <<>> /\ taken = <<>> /\ freed = <<>> /\ takenLate = 0
------------------------------------------------------------------------------
(* The queue. *)

\* linked_list_add at the head and linked_list_remove at the tail: first in,
\* first out
linked_list_add_AtTail(m) == msgList' = <<m>> \o msgList
linked_list_add(m) == msgList' = Append(msgList, m)
linked_list_remove == msgList' = Tail(msgList)

\* pthread_cond_signal and pthread_cond_broadcast: one waiter at most
wake == pc' = IF pc = "wait" THEN "woken" ELSE pc

\* msg_q_snd: a message refused because the queue is unblocked is not freed
\* here, and MsgTask::sendMsg ignores the error
msg_q_snd_NoSignal(m) ==
  IF queue = "open"
  THEN linked_list_add(m) /\ accepted' = Append(accepted, m) /\ UNCHANGED pc
  ELSE UNCHANGED <<msgList, accepted, pc>>
msg_q_snd(m) ==
  IF queue = "open"
  THEN linked_list_add(m) /\ accepted' = Append(accepted, m) /\ wake
  ELSE UNCHANGED <<msgList, accepted, pc>>

\* msg_q_unblock: all waiters are woken
msg_q_unblock_NoBroadcast == queue' = "unblocked" /\ UNCHANGED pc
msg_q_unblock == queue' = "unblocked" /\ wake

\* linked_list_flush: every queued message goes to its dealloc function
msg_q_flush_NoDealloc == msgList' = <<>> /\ UNCHANGED freed
msg_q_flush == msgList' = <<>> /\ freed' = freed \o msgList

\* the end of msg_q_rcv, shared by the two ways in
take ==
  /\ linked_list_remove
  /\ cur' = Head(msgList)
  /\ taken' = Append(taken, Head(msgList))
  /\ takenLate' = IF queue = "open" THEN takenLate ELSE takenLate + 1
  /\ pc' = "proc"
------------------------------------------------------------------------------
(* Posters. *)

sendMsg(p) ==
  /\ sent[p] < MaxSend /\ queue # "released"
  /\ p = Self => pc = "proc"
  /\ sent' = [sent EXCEPT ![p] = @ + 1]
  /\ msg_q_snd(<<p, sent[p] + 1>>)
  /\ UNCHANGED <<queue, cur, refs, stopPc, taken, freed, takenLate>>
------------------------------------------------------------------------------
(* The task thread: MTRunnable::run, again and again. *)

RcvClosed ==
  /\ pc = "run" /\ queue # "open"
  /\ pc' = "exit"
  /\ UNCHANGED <<msgList, queue, cur, refs, stopPc, sent, accepted, taken,
                 freed, takenLate>>

RcvEmpty ==
  /\ pc = "run" /\ queue = "open" /\ msgList = <<>>
  /\ pc' = "wait"
  /\ UNCHANGED <<msgList, queue, cur, refs, stopPc, sent, accepted, taken,
                 freed, takenLate>>

RcvTake_UnblockedUnread ==
  /\ pc = "run" /\ msgList # <<>>
  /\ take
  /\ UNCHANGED <<queue, refs, stopPc, sent, accepted, freed>>

RcvTake ==
  /\ pc = "run" /\ queue = "open" /\ msgList # <<>>
  /\ take
  /\ UNCHANGED <<queue, refs, stopPc, sent, accepted, freed>>

\* pthread_cond_wait returned: the unblocked flag is looked at only to leave
\* the loop, so a queue that is both unblocked and not empty still yields
WaitTake ==
  /\ pc = "woken" /\ msgList # <<>>
  /\ take
  /\ UNCHANGED <<queue, refs, stopPc, sent, accepted, freed>>

WaitClosed ==
  /\ pc = "woken" /\ msgList = <<>> /\ queue # "open"
  /\ pc' = "exit"
  /\ UNCHANGED <<msgList, queue, cur, refs, stopPc, sent, accepted, taken,
                 freed, takenLate>>

\* msg->proc() returned, delete msg
ProcDone ==
  /\ pc = "proc"
  /\ freed' = Append(freed, cur) /\ cur' = NoMsg /\ pc' = "run"
  /\ UNCHANGED <<msgList, queue, refs, stopPc, sent, accepted, taken,
                 takenLate>>

\* an owner of the runnable lets go of it; the last one runs ~MTRunnable,
\* which flushes and destroys the queue
drop(owner) ==
  /\ refs' = refs \ {owner}
  /\ IF refs' = {} THEN msg_q_flush /\ queue' = "released"
                   ELSE UNCHANGED <<freed, msgList, queue>>

\* run() returned false: the thread ends and its lambda is destroyed
ThreadExit ==
  /\ pc = "exit" /\ pc' = "gone"
  /\ drop("thread")
  /\ UNCHANGED <<cur, stopPc, sent, accepted, taken, takenLate>>
------------------------------------------------------------------------------
(* LocThread::stop, run by ~MsgTask: ~LocThreadDelegate promotes its weak   *)
(* pointer, interrupts the runnable, and lets the shared pointer go.        *)

StopLock ==
  /\ stopPc = "running"
  /\ stopPc' = "locked" /\ refs' = refs \cup {"stopper"}
  /\ UNCHANGED <<msgList, queue, pc, cur, sent, accepted, taken, freed,
                 takenLate>>

StopInterrupt ==
  /\ stopPc = "locked" /\ stopPc' = "interrupted"
  /\ msg_q_unblock
  /\ UNCHANGED <<msgList, cur, refs, sent, accepted, taken, freed, takenLate>>

StopDrop ==
  /\ stopPc = "interrupted" /\ stopPc' = "stopped"
  /\ drop("stopper")
  /\ UNCHANGED <<pc, cur, sent, accepted, taken, takenLate>>
------------------------------------------------------------------------------
Worker == \/ RcvClosed \/ RcvEmpty \/ RcvTake \/ WaitTake \/ WaitClosed
          \/ ProcDone \/ ThreadExit
Stopper == StopInterrupt \/ StopDrop

Next == (\E p \in Poster : sendMsg(p)) \/ Worker \/ StopLock \/ Stopper

\* The operating system runs both threads; nobody is obliged to post or to
\* stop the task.
Spec == Init /\ [][Next]_vars /\ WF_vars(Worker) /\ WF_vars(Stopper)
------------------------------------------------------------------------------
(* Properties. *)

\* Every accepted message is owned by exactly one of the queue, the running
\* proc() and the free list, and they were accepted in that order: none is
\* overtaken, deleted twice or while it is queued or running, or leaked.  MTRunnable::run, ~MTRunnable.
FreedOnce ==
  accepted = freed \o (IF cur = NoMsg THEN <<>> ELSE <<cur>>) \o msgList

\* After msg_q_unblock at most one more message reaches proc(): the one a
\* woken waiter still finds.  msg_q_rcv.
OneAfterUnblock == takenLate <= 1

\* The queue is freed only after both the thread and the stopping caller are
\* done with it.  ~MTRunnable.
ReleaseIsLast == queue = "released" => pc = "gone" /\ stopPc = "stopped"

\* Shutting down is orderly, for the messages and for the queue itself.
Shutdown == OneAfterUnblock /\ ReleaseIsLast

\* A thread that sleeps on list_cond has nothing to wait for: no wake-up is
\* lost between the emptiness test and pthread_cond_wait.
NoLostWakeup == pc = "wait" => msgList = <<>> /\ queue = "open"

\* The code implements the FIFO service.
Abstract == INSTANCE FifoService WITH
  pending <- msgList, performed <- taken, open <- queue = "open",
  grace <- queue # "released" /\ takenLate = 0
ImplementsFifo == Abstract!Spec

\* Once stop() is called the thread ends and the queue is released.
StopReleases == (stopPc # "running") ~> (queue = "released")
==============================================================================
