------------------------------ MODULE MCSeatSync ------------------------------
(***************************************************************************)
(* Instances of SeatSync for TLC.                                          *)
(***************************************************************************)
EXTENDS SeatSync

CONSTANTS t1, t2, m1, m2

TwoTrips == {t1, t2}
TwoMaps  == {m1, m2}

(* A stream that has been written to before the process boots. *)
UsedStream == <<t1>>
===============================================================================
