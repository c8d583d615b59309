---------------------------- MODULE MCScheduleViews ----------------------------
(* A Saturday and the Sunday of the next week, between a Friday and a Monday. *)
EXTENDS ScheduleViews, TLC

Once(day) == [type |-> "ONCE", from |-> day, to |-> Forever, weekdays |-> {}]
Weekly(from, to, weekdays) == [type |-> "WEEKLY", from |-> from, to |-> to, weekdays |-> weekdays]

MCInputs == {Once(6), Weekly(6, 7, {0, 1})}

View(start, end, type, mogak) == [start |-> start, end |-> end, type |-> type, mogak |-> mogak]

\* Routines over both days, and a day of one mogak.
MCViews == {View(6, 7, "WEEKLY", None)} \cup {View(7, 7, None, g) : g \in MogakIds}

Symmetry == Permutations(JogakIds) \cup Permutations(MogakIds)
=============================================================================
