----------------------------- MODULE MCPresence -----------------------------
(***************************************************************************)
(* Presence with three sockets of one user on two devices, and one restart *)
(* of the server.                                                          *)
(***************************************************************************)
EXTENDS Presence

ASSUME PresenceAssumption ==
  MaxSocketsAssumption /\ MaxRestartsAssumption /\ NoDeviceAssumption

=============================================================================
