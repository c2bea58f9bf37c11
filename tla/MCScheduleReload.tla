--------------------------- MODULE MCScheduleReload ---------------------------
(***************************************************************************)
(* Instances of ScheduleReload for TLC.                                    *)
(***************************************************************************)
EXTENDS ScheduleReload

================================================================================
