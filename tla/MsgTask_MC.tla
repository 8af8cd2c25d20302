----------------------------- MODULE MsgTask_MC -----------------------------
(***************************************************************************)
(* How threads and processes are given work: the queue of a task, with two *)
(* client threads and a task that posts to itself, two messages each; or a *)
(* local socket, with two senders.  The two share no state: a behaviour is *)
(* one of one part, and the other rests in its initial state.              *)
(***************************************************************************)
EXTENDS MsgTask

CONSTANTS None, Lengths, mMaxTxSize, Capacity, MaxMessages

VARIABLES
  part,
  socket, sending, count, long, receiving, stopped, arrived, delivered, torn

task == <<msgList, queue, pc, cur, refs, stopPc, sent, accepted, taken, freed, takenLate>>
ipc  == <<socket, sending, count, long, receiving, stopped, arrived, delivered, torn>>

I == INSTANCE LocIpc WITH accepted <- arrived

MCInit == part \in {"task", "ipc"} /\ Init /\ I!Init
MCNext ==
  \/ part = "task" /\ Next /\ UNCHANGED <<part, ipc>>
  \/ part = "ipc" /\ I!Next /\ UNCHANGED <<part, task>>

MCSpec ==
  /\ MCInit /\ [][MCNext]_<<part, task, ipc>>
  /\ WF_task(part = "task" /\ Worker) /\ WF_task(part = "task" /\ Stopper)
  /\ WF_ipc(part = "ipc" /\ I!recvData)

\* Messages over a socket arrive whole and in order, and its listener can be
\* stopped: see LocIpc.
IpcServes == I!IpcServes
=============================================================================
