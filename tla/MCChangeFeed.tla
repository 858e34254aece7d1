---------------------------- MODULE MCChangeFeed ----------------------------
(* Instances of ChangeFeed for TLC: who follows what. *)
EXTENDS ChangeFeed, TLC

CONSTANTS quota, plan, arrival

\* The kinds answered by default: arrivals are passed over.
DefaultKinds == [r \in Readers |-> {quota, plan}]
=============================================================================
