----------------------------- MODULE ChangeLog -----------------------------
(***************************************************************************)
(* What the change feed promises whoever follows it: an endless list of    *)
(* changes that every reader walks in commit order, told exactly the ones  *)
(* of its kinds that it passes over, or told to read everything again.     *)
(* Nothing is ever forgotten here; ChangeFeed keeps a week of it.          *)
(***************************************************************************)
EXTENDS Naturals, Sequences

CONSTANTS
  Readers,  \* the clients that follow
  Subjects, \* what a change can name
  Wants     \* the subjects of the kinds a reader follows

VARIABLES
  log, \* every change committed, in order
  pos, \* how far a reader has followed
  owed \* the subjects whose list a reader has yet to read

Init ==
  /\ log = <<>>
  /\ pos = [r \in Readers |-> 0]
  /\ owed = [r \in Readers |-> {}]

\* What a reader is told when it goes from one position to another.
Told(r, from, to) == {log[i] : i \in from + 1 .. to} \cap Wants[r]

Commit ==
  /\ log' \in Seq(Subjects)
  /\ Len(log) <= Len(log') /\ \A i \in 1 .. Len(log) : log'[i] = log[i]
  /\ UNCHANGED <<pos, owed>>

\* A reader starts, or starts over: it reads every list from a position reached.
StartOver(r) == \E n \in pos[r] .. Len(log) :
  /\ pos' = [pos EXCEPT ![r] = n]
  /\ owed' = [owed EXCEPT ![r] = Wants[r]]
  /\ UNCHANGED log

\* A reader goes on, and is told what it passes over.
Hand(r) == \E n \in pos[r] .. Len(log) :
  /\ owed[r] = {}
  /\ pos' = [pos EXCEPT ![r] = n]
  /\ owed' = [owed EXCEPT ![r] = Told(r, pos[r], n)]
  /\ UNCHANGED log

ReadList(r) == \E s \in owed[r] :
  /\ owed' = [owed EXCEPT ![r] = @ \ {s}]
  /\ UNCHANGED <<log, pos>>

Next == Commit \/ \E r \in Readers : StartOver(r) \/ Hand(r) \/ ReadList(r)

Spec == Init /\ [][Next]_<<log, pos, owed>>
=============================================================================
