---------------------------- MODULE MCTaskStore ----------------------------
(***************************************************************************)
(* TaskStore for TLC: the store driven by every sequence of calls, with a  *)
(* bound on the length of a history.                                       *)
(***************************************************************************)
EXTENDS TaskStore, TLC

CONSTANTS
  a1, a2,       \* the application's own tasks
  MaxHistory    \* bound: entries in one history

MCAppObjects == {a1, a2}
MCAppIds == {<<"app", 1>>}
MCSymmetry == Permutations(MCAppObjects)

\* Bound of the search: histories up to MaxHistory entries.
HistoryBound == \A id \in Id : Len(hist[id]) <= MaxHistory
=============================================================================
