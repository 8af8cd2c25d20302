---------------------------- MODULE Geofence_MC ----------------------------
(* One careful client with two fences and one hasty client with one, over   *)
(* the same adapter and modem.                                              *)
EXTENDS Geofence
CONSTANTS c1, c2, f1, f2
TwoAndOne == (c1 :> {f1, f2}) @@ (c2 :> {f1})
=============================================================================
