----------------------------- MODULE LocTimer_MC -----------------------------
(***************************************************************************)
(* Timers: two clients and two timers, where one client starts both or     *)
(* each starts one, with time-outs that let the second be due first; or    *)
(* the heap they are kept in, with five items of which some are of equal   *)
(* rank; or a user of a timer, on-demand positions.  They share no state:  *)
(* a behaviour is one of one part, and the others rest in their initial    *)
(* state.                                                                  *)
(***************************************************************************)
EXTENDS LocTimer, FiniteSets

CONSTANTS Item, Framework, MaxBacklog

VARIABLES
  part,
  rank, mTree, returned,
  odcpiTasks, mOdcpiRequestCb, mOdcpiRequestActive, mOdcpiRequest, mActive, ticking, wants, asked

timers == <<alive, mTimer, mClient, mFutureTime, life, heap, top, queue, taskPc, held, client,
            timerOfNow, pollPc, armed, polled, now, stopped, fired>>
tree == <<rank, mTree, returned>>
odcpi == <<odcpiTasks, mOdcpiRequestCb, mOdcpiRequestActive, mOdcpiRequest, mActive, ticking,
           wants, asked>>

Ranks == {f \in [Item -> 1..3] : \A r \in 1..3 : Cardinality({x \in Item : f[x] = r}) <= 2}

H == INSTANCE LocHeap
O == INSTANCE OnDemand

MCInit ==
  /\ part \in {"timers", "tree", "odcpi"} /\ Init /\ H!Init /\ O!Init
  /\ part # "tree" => rank = CHOOSE f \in Ranks : TRUE
MCNext ==
  \/ part = "timers" /\ Next /\ UNCHANGED <<part, tree, odcpi>>
  \/ part = "tree" /\ H!Next /\ UNCHANGED <<part, timers, odcpi>>
  \/ part = "odcpi" /\ O!Next /\ UNCHANGED <<part, timers, tree>>

MCSpec ==
  /\ MCInit /\ [][MCNext]_<<part, timers, tree, odcpi>>
  /\ WF_timers(part = "timers" /\ Tick) /\ WF_timers(part = "timers" /\ Poll)
  /\ WF_timers(part = "timers" /\ Task)
  /\ WF_odcpi(part = "odcpi" /\ O!Task) /\ WF_odcpi(part = "odcpi" /\ O!timeOutCallback)

\* The heap stays an ordered tree, and is a ranked set: see LocHeap.
HeapServes == H!HeapServes
\* An on-demand request reaches the framework: see OnDemand.
OdcpiServed == O!OdcpiServed
=============================================================================
