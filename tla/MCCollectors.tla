---------------------------- MODULE MCCollectors ----------------------------
(* Instances of Collectors for TLC. *)
EXTENDS Collectors

\* Two requests start a tick after the first, and one a tick later still.
Starts == <<0, 1, 1, 2>>
FourRecords == 1 .. 4
=============================================================================
