---------------------------- MODULE TimeWindowData ----------------------------
(***************************************************************************)
(* common/utils/time-window-data.ts: data points with their instants,      *)
(* pruned when one is added and filtered when they are read.  The array is *)
(* the set of its points [nr, at, value], which it holds in the order of   *)
(* their nr; the instant of the call is a parameter.                       *)
(***************************************************************************)
EXTENDS Integers, FiniteSets, FiniteSetsExt

\* push(): the new point comes after every other one.
Pushed(data, value, at) ==
  data \cup {[nr |-> 1 + Max({0} \cup {p.nr : p \in data}), at |-> at, value |-> value]}

\* slice(length - maxDataPoints): the newest points.
NewestPoints(data, maxDataPoints) ==
  {p \in data : Cardinality({q \in data : q.nr > p.nr}) < maxDataPoints}

\* getDataPoints() and the filter of cleanup(): the window ends at the call.
InWindow(data, at, window) == {p \in data : p.at >= at - window}

\* addDataPoint() and cleanup(): what is in the window, the newest of it.
AddDataPoint(data, value, at, window, maxDataPoints) ==
  NewestPoints(InWindow(Pushed(data, value, at), at, window), maxDataPoints)

\* getSum()
GetSum(data, at, window) == MapThenSumSet(LAMBDA p : p.value, InWindow(data, at, window))
=============================================================================
