---------------------------- MODULE MCSeatPolling ----------------------------
(***************************************************************************)
(* Instances of SeatPolling for TLC.  Two zones stand for the four of      *)
(* zone.go: a trip moves from the slower to the faster one, and in both a  *)
(* retry may find the lock of the attempt that died.                       *)
(***************************************************************************)
EXTENDS SeatPolling, TLC

TwoZones == <<[below |-> 3, every |-> 3], [below |-> 6, every |-> 4]>>
OneZone == <<[below |-> 1, every |-> 2]>>

==============================================================================
