--------------------------- MODULE LocationAPI_MC ---------------------------
(***************************************************************************)
(* The life of clients; and, beside it, what the adapter registers for on  *)
(* their behalf.  A behaviour is one of one part, and the other rests in   *)
(* its initial state.                                                      *)
(***************************************************************************)
EXTENDS LocationAPI
CONSTANTS c1, c2, gnss, batching, geofence, Conf, Wish, FeatureMaps, MaxRestarts, MaxWaiting

VARIABLES
  part,
  conf, mClientData, wasTold, SUPL_MODE, locQwesFeatType, capable, mPendingMsgs, mNmeaMask,
  mEvtMask, registered, odcpi, hub, mNHzNeeded, mSPEAlreadyRunningAtHighestInterval, session,
  tasks, apiTasks, engine, commands, losses, wanted, repeated, changed

lives == <<gData, object, adapter, queue, apiQueue, modem, told, calls, sessionVars>>
registrations ==
  <<conf, mClientData, wasTold, SUPL_MODE, locQwesFeatType, capable, mPendingMsgs, mNmeaMask,
    mEvtMask, registered, odcpi, hub, mNHzNeeded, mSPEAlreadyRunningAtHighestInterval, session,
    tasks, apiTasks, engine, commands, losses, wanted, repeated, changed>>

OneOrTwo == {{gnss, batching}, {geofence}}
AsTheyAre == [i \in {gnss, batching, geofence} |-> CASE i = gnss -> {"time", "distance"}
                                                   [] i = batching -> {"routine", "trip"}
                                                   [] OTHER -> {}]

\* What a client has callbacks for, and what is reported of QWES features.
OneOrOther == {{"position", "nmea", "measurements"}, {"data", "sv"}}
qwes(on, off) == [on |-> on, off |-> off]
TwoMaps == {qwes({"TIME_FREQUENCY", "TIME_UNCERTAINTY"}, {"PPE"}),
            qwes({"QDR3", "CLOCK_ESTIMATE", "PPE"}, {"TIME_UNCERTAINTY"})}

\* A hub and corrections of measurements; neither; and a hub that changes the rate of the fixes.
byClients == {"add", "remove", "odcpi", "mode", "qwes"}
Confs == {
  [hub |-> TRUE, assisted |-> TRUE, general |-> TRUE, kinds |-> byClients \cup {"rate"}, most |-> 3,
   features |-> {"MEASUREMENTS_CORRECTION", "DISTANCE_BASED_TRACKING"}],
  [hub |-> FALSE, assisted |-> FALSE, general |-> FALSE, kinds |-> byClients, most |-> 2,
   features |-> {"DEBUG_NMEA"}],
  [hub |-> TRUE, assisted |-> FALSE, general |-> FALSE, kinds |-> {"rate", "start", "stop"},
   most |-> 4, features |-> {}]}
R == INSTANCE Registrations WITH
       Callbacks <- Wish, told <- wasTold, known <- capable, queue <- tasks,
       MaxBacklog <- MaxWaiting, apiQueue <- apiTasks, modem <- engine, restarts <- losses

MCInit ==
  /\ part \in {"lives", "registrations"} /\ Init /\ R!Init
  /\ part = "lives" => conf = CHOOSE c \in Conf : TRUE
MCNext ==
  \/ part = "lives" /\ Next /\ UNCHANGED <<part, registrations>>
  \/ part = "registrations" /\ R!Next /\ UNCHANGED <<part, lives>>

MCSpec ==
  /\ MCInit /\ [][MCNext]_<<part, lives, registrations>>
  /\ WF_lives(part = "lives" /\ AdapterTask) /\ WF_lives(part = "lives" /\ ApiTask)
  /\ WF_lives(part = "lives" /\ ~modem.up /\ handleEngineDownEvent)
------------------------------------------------------------------------------
\* A client is told the capabilities, and deleted if it is to be (ClientServed of
\* LocationAPI).  The clients are alike: what holds of one in every behaviour holds of all.
ClientsServed == ClientServed(c1)

\* The modem reports to the adapters that have clients (MaskFollows of LocationAPI), and
\* what their callbacks ask for.
MasksFollow == MaskFollows /\ R!RegistrationsFollow
=============================================================================
