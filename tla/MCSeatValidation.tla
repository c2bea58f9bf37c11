--------------------------- MODULE MCSeatValidation ---------------------------
(***************************************************************************)
(* Instances of SeatValidation for TLC.                                    *)
(***************************************************************************)
EXTENDS SeatValidation, TLC

CONSTANTS k1, k2, k3

Keys == {k1, k2, k3}
OneKey == {k1}

(* Direct journeys, journeys with a change, one on foot, and mixtures that *)
(* take one MGET or two.                                                   *)
MixedLists == {<<{k1, k2}, {k2}>>, <<{}, {k2}>>, <<{}>>, <<{k1, k2}, {}, {k3}>>}
DirectList == {<<{k1}>>}
==============================================================================
