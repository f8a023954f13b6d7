--------------------------- MODULE MCTaskSchedule ---------------------------
EXTENDS TaskSchedule

Line(interval, first) == [interval |-> interval, first |-> first]

(* Intervals in seconds; the first run not given, passed, or to come. *)
PeriodicLines ==
  {Line(1, Unset), Line(3, Unset), Line(1, 4), Line(2, 1), Line(3, 1)}

OneTimeLines == {Line(0, f) : f \in {Unset, 4, 7}}

MCLines == PeriodicLines \cup OneTimeLines
=============================================================================
