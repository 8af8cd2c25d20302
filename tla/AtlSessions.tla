---------------------------- MODULE AtlSessions ----------------------------
(***************************************************************************)
(* What the AGPS service promises the modem: each ATL (a data call, named  *)
(* by its connection handle) that the modem asks for is answered exactly   *)
(* once, by a grant or a denial; one that is open or being closed is       *)
(* reported closed exactly once; and after that the handle is free again.  *)
(* Several sessions may move in one step.                                  *)
(***************************************************************************)
CONSTANT Handle            \* the modem's connection handles

VARIABLE session           \* how far each handle is, as the modem knows it

Stage == {"idle", "requested", "open", "closing"}

\* the moves of one session, and what each stands for
Moves ==
  {<<"idle", "requested">>,      \* the modem asks
   <<"requested", "open">>,      \* granted
   <<"requested", "idle">>,      \* denied
   <<"requested", "closing">>,   \* the modem gives up before the answer
   <<"open", "closing">>,        \* the modem is done
   <<"open", "idle">>,           \* closed under the modem
   <<"closing", "idle">>}        \* closed at the modem's wish, or denied

Init == session = [h \in Handle |-> "idle"]

Move ==
  /\ session' \in [Handle -> Stage]
  /\ \A h \in Handle : \/ session'[h] = session[h]
                       \/ <<session[h], session'[h]>> \in Moves

Spec == Init /\ [][Move]_session
=============================================================================
