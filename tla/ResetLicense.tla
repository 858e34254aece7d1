---------------------------- MODULE ResetLicense ----------------------------
(***************************************************************************)
(* What spending manual resets promises of one account: a reset is sent to *)
(* the provider only on a grant list that was read after the last one was  *)
(* sent.  ManualReset implements it.                                       *)
(***************************************************************************)
EXTENDS Naturals

VARIABLES
  licensed, \* a grant list was read since the last consuming request
  sent      \* consuming requests sent so far

Init == licensed \in BOOLEAN /\ sent = 0

\* The provider's list is read and stored.
Read == licensed' = TRUE /\ UNCHANGED sent

\* One consuming request is sent, whatever becomes of it.
Spend == licensed /\ licensed' = FALSE /\ sent' = sent + 1

Next == Read \/ Spend

Spec == Init /\ [][Next]_<<licensed, sent>>
=============================================================================
