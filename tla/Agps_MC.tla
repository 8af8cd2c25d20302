------------------------------ MODULE Agps_MC ------------------------------
(* Agps with an answering framework and a modem that stays up.  Without     *)
(* features the other actions of Agps are never enabled; Adapter_MC checks  *)
(* the instances that have them.                                            *)
EXTENDS Agps

Prompt ==
  \/ initAgps \/ requestATL \/ requestATLNoMachine \/ releaseATL
  \/ reportOpened \/ reportAtlOpenFailed \/ reportAtlClosed
  \/ \E h \in Handle : ModemRequests(h) \/ ModemReleases(h)
  \/ FrameworkRegisters \/ FrameworkRequested \/ FrameworkReleased
  \/ FrameworkOpens \/ FrameworkFails \/ FrameworkLoses

PromptSpec == Init /\ [][Prompt]_vars /\ Fairness
=============================================================================
