------------------------------ MODULE Retention ------------------------------
(***************************************************************************)
(* What the two ends of the event stream, the bus and the dashboard, have  *)
(* in common: the events retained are the newest ones.                     *)
(***************************************************************************)
EXTENDS Integers, Sequences, SequencesExt, FiniteSets

CONSTANTS
  HistoryLimit,    \* history_limit: events that the bus and a bootstrap retain
  MaxSequence,     \* bound: publications of a behaviour
  None

Newest(s, n) == IF Len(s) <= n THEN s ELSE SubSeq(s, Len(s) - n + 1, Len(s))
=============================================================================
