----------------------------- MODULE MCCommands -----------------------------
(***************************************************************************)
(* A small instance of Commands for TLC: two keys in two slots, one hash   *)
(* field, one non-numeric value, counters in -1..1 so that INCR and DECR  *)
(* meet both overflow bounds, expiries of 1 and 2 seconds.                 *)
(***************************************************************************)
EXTENDS Commands, TLC

CONSTANTS k1, k2, f1, f2, v1, ptr, jsonDoc, badDoc, marshalFail, noTag, noVal

MCKeys == {k1, k2}
MCVals == {v1}
MCBadShapes == {ptr}
MCObjs == {jsonDoc, badDoc}
MCMarshalled == [o \in MCObjs |-> IF o = jsonDoc THEN v1 ELSE marshalFail]
MCMinInt == -1
MCSlot == [k \in MCKeys |-> IF k = k1 THEN 0 ELSE 1]

\* Struct values for HSetObject: no tagged field; one tagged field; an
\* excluded field of a bad kind followed by a tagged counter; a bad tagged
\* field; two fields with the same tag.
MCObjects ==
  { << >>,
    << [tag |-> f1, val |-> v1] >>,
    << [tag |-> "-", val |-> ptr], [tag |-> f1, val |-> 0] >>,
    << [tag |-> noTag, val |-> 1], [tag |-> f1, val |-> ptr] >>,
    << [tag |-> f1, val |-> v1], [tag |-> f1, val |-> 1] >> }
=============================================================================
