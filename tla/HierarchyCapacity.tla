--------------------------- MODULE HierarchyCapacity ---------------------------
(***************************************************************************)
(* The limits on the hierarchy of a user: so many mogaks in a modarat, so  *)
(* many jogaks with a current or future schedule in a mogak.  A creation   *)
(* counts twice, before and inside its transaction; a change of a schedule *)
(* does not count at all.  The requests about one modarat run concurrently,*)
(* one step per await, while days go by.                                   *)
(*                                                                         *)
(* A jogak has one schedule: createJogakWithSchedule inserts it and no     *)
(* operation adds another.  Weekdays do not matter to the limits.          *)
(***************************************************************************)
EXTENDS Naturals, FiniteSets

CONSTANTS MogakIds, JogakIds,   \* ids the tables may hand out, each once
          Capacity,             \* MAX_MOGAKS_PER_MODARAT, MAX_JOGAKS_PER_MOGAK
          LastDay,              \* bound on the calendar
          Requests, None

ASSUME CapacityAssumption ==
    /\ Capacity \in Nat /\ LastDay \in Nat
    /\ IsFiniteSet(MogakIds) /\ IsFiniteSet(JogakIds)
    /\ None \notin MogakIds /\ None \notin JogakIds

VARIABLES today,     \* the date in Seoul
          mogaks,    \* mogaks of the modarat
          jogaks,    \* jogaks with their mogak and their schedule
          used,      \* ids that were handed out
          req,       \* requests in flight and their local variables
          revived    \* history: jogaks whose schedule was over and is not any more

vars == <<today, mogaks, jogaks, used, req, revived>>

-----------------------------------------------------------------------------
(* Schedules *)

Days == 0 .. LastDay
Forever == LastDay + 1   \* effectiveTo is null

Schedules ==
    [type : {"ONCE"}, from : Days, to : {Forever}] \cup
    {s \in [type : {"WEEKLY"}, from : Days, to : Days \cup {Forever}] : s.from <= s.to}

IsActiveOn(s, day) ==
    IF s.type = "ONCE" THEN day = s.from ELSE s.from <= day /\ day <= s.to

CurrentOrFuture(s, day) == day <= (IF s.type = "ONCE" THEN s.from ELSE s.to)

\* Jogaks of a mogak that count towards its limit.
Counted(m, day) == {x \in jogaks : x.mogak = m /\ CurrentOrFuture(x.schedule, day)}

JogakRows == [id : JogakIds, mogak : MogakIds, schedule : Schedules]
Of(j) == {x \in jogaks : x.id = j}

RequestStates ==
    [op : {"none", "mogak", "jogak", "update"}, pc : {"idle", "find", "count", "commit"},
     mogak : MogakIds \cup {None}, jogak : JogakIds \cup {None},
     schedule : Schedules \cup {None}, today : Days]

TypeOK ==
    /\ today \in Days
    /\ mogaks \subseteq MogakIds
    /\ jogaks \subseteq JogakRows /\ \A x \in jogaks : x.mogak \in mogaks
    /\ used \subseteq MogakIds \cup JogakIds
    /\ req \in [Requests -> RequestStates]
    /\ revived \subseteq JogakIds

Idle == [op |-> "none", pc |-> "idle", mogak |-> None, jogak |-> None,
         schedule |-> None, today |-> 0]
Become(r, q) == req' = [req EXCEPT ![r] = q]
End(r) == Become(r, Idle)

-----------------------------------------------------------------------------
(* Mogaks *)

StartCreateMogak(r) ==
    /\ req[r].pc = "idle"
    /\ Become(r, [Idle EXCEPT !.op = "mogak", !.pc = "count"])
    /\ UNCHANGED <<today, mogaks, jogaks, used, revived>>

CountMogaks(r) ==
    /\ req[r].pc = "count" /\ req[r].op = "mogak"
    /\ IF Cardinality(mogaks) < Capacity
       THEN Become(r, [req[r] EXCEPT !.pc = "commit"]) ELSE End(r)
    /\ UNCHANGED <<today, mogaks, jogaks, used, revived>>

\* Mutation: only the service counts.
CreateMogakUncounted(r) ==
    /\ req[r].pc = "commit" /\ req[r].op = "mogak"
    /\ \E m \in MogakIds \ used : mogaks' = mogaks \cup {m} /\ used' = used \cup {m}
    /\ End(r)
    /\ UNCHANGED <<today, jogaks, revived>>

CreateMogak(r) ==
    /\ req[r].pc = "commit" /\ req[r].op = "mogak"
    /\ IF Cardinality(mogaks) < Capacity
       THEN \E m \in MogakIds \ used : mogaks' = mogaks \cup {m} /\ used' = used \cup {m}
       ELSE UNCHANGED <<mogaks, used>>
    /\ End(r)
    /\ UNCHANGED <<today, jogaks, revived>>

DeleteOwnedMogak ==
    /\ \E m \in mogaks :
          /\ mogaks' = mogaks \ {m}
          /\ jogaks' = {x \in jogaks : x.mogak # m}
    /\ UNCHANGED <<today, used, req, revived>>

-----------------------------------------------------------------------------
(* Jogaks *)

\* The day is the one on which the request arrived, to its end.
StartCreateJogak(r) ==
    /\ req[r].pc = "idle"
    /\ \E m \in MogakIds, s \in Schedules :
          Become(r, [Idle EXCEPT !.op = "jogak", !.pc = "find", !.mogak = m,
                                 !.schedule = s, !.today = today])
    /\ UNCHANGED <<today, mogaks, jogaks, used, revived>>

FindOwnedMogak(r) ==
    /\ req[r].pc = "find" /\ req[r].op = "jogak"
    /\ IF req[r].mogak \in mogaks
       THEN Become(r, [req[r] EXCEPT !.pc = "count"]) ELSE End(r)
    /\ UNCHANGED <<today, mogaks, jogaks, used, revived>>

CountJogaks(r) ==
    /\ req[r].pc = "count" /\ req[r].op = "jogak"
    /\ IF Cardinality(Counted(req[r].mogak, req[r].today)) < Capacity
       THEN Become(r, [req[r] EXCEPT !.pc = "commit"]) ELSE End(r)
    /\ UNCHANGED <<today, mogaks, jogaks, used, revived>>

\* Mutation: the lock of the mogak does not tell whether it is still there.
CreateJogakAnyway(r) ==
    LET q == req[r] IN
    /\ q.pc = "commit" /\ q.op = "jogak"
    /\ IF Cardinality(Counted(q.mogak, q.today)) < Capacity
       THEN \E j \in JogakIds \ used :
               /\ jogaks' = jogaks \cup {[id |-> j, mogak |-> q.mogak, schedule |-> q.schedule]}
               /\ used' = used \cup {j}
       ELSE UNCHANGED <<jogaks, used>>
    /\ End(r)
    /\ UNCHANGED <<today, mogaks, revived>>

\* Mutation: only the service counts.
CreateJogakUncounted(r) ==
    LET q == req[r] IN
    /\ q.pc = "commit" /\ q.op = "jogak"
    /\ IF q.mogak \in mogaks
       THEN \E j \in JogakIds \ used :
               /\ jogaks' = jogaks \cup {[id |-> j, mogak |-> q.mogak, schedule |-> q.schedule]}
               /\ used' = used \cup {j}
       ELSE UNCHANGED <<jogaks, used>>
    /\ End(r)
    /\ UNCHANGED <<today, mogaks, revived>>

\* Under the lock of the mogak: it still exists and still has room.
CreateJogakWithSchedule(r) ==
    LET q == req[r] IN
    /\ q.pc = "commit" /\ q.op = "jogak"
    /\ IF q.mogak \in mogaks /\ Cardinality(Counted(q.mogak, q.today)) < Capacity
       THEN \E j \in JogakIds \ used :
               /\ jogaks' = jogaks \cup {[id |-> j, mogak |-> q.mogak, schedule |-> q.schedule]}
               /\ used' = used \cup {j}
       ELSE UNCHANGED <<jogaks, used>>
    /\ End(r)
    /\ UNCHANGED <<today, mogaks, revived>>

DeleteOwnedJogak ==
    /\ \E x \in jogaks : jogaks' = jogaks \ {x}
    /\ UNCHANGED <<today, mogaks, used, req, revived>>

\* A change of the schedule: the type and the last day asked for.  Changing
\* the title alone writes nothing the limits depend on.
StartUpdateJogak(r) ==
    /\ req[r].pc = "idle"
    /\ \E j \in JogakIds, s \in Schedules :
          Become(r, [Idle EXCEPT !.op = "update", !.pc = "find", !.jogak = j,
                                 !.schedule = s, !.today = today])
    /\ UNCHANGED <<today, mogaks, jogaks, used, revived>>

\* Mutation: the last day is not checked against the first day that is kept.
ListSchedulesUnchecked(r) ==
    LET q == req[r] IN
    /\ q.pc = "find" /\ q.op = "update"
    /\ \E x \in Of(q.jogak) :
          /\ IsActiveOn(x.schedule, q.today)
          /\ Become(r, [q EXCEPT !.pc = "commit", !.schedule.from = x.schedule.from])
    /\ UNCHANGED <<today, mogaks, jogaks, used, revived>>

\* Read the schedules; the one active on the day of the request is replaced,
\* from its own first day on.
ListSchedules(r) ==
    LET q == req[r] IN
    /\ q.pc = "find" /\ q.op = "update"
    /\ \/ \E x \in Of(q.jogak) :
             LET s == [q.schedule EXCEPT !.from = x.schedule.from] IN
             /\ IsActiveOn(x.schedule, q.today) /\ s \in Schedules
             /\ Become(r, [q EXCEPT !.pc = "commit", !.schedule = s])
       \/ /\ \A x \in Of(q.jogak) :
                ~(/\ IsActiveOn(x.schedule, q.today)
                  /\ [q.schedule EXCEPT !.from = x.schedule.from] \in Schedules)
          /\ End(r)
    /\ UNCHANGED <<today, mogaks, jogaks, used, revived>>

\* Write the schedule computed from what was read; nothing is counted again.
PatchOwnedJogak(r) ==
    LET q == req[r] IN
    /\ q.pc = "commit" /\ q.op = "update"
    /\ jogaks' = {IF x.id = q.jogak THEN [x EXCEPT !.schedule = q.schedule] ELSE x : x \in jogaks}
    /\ revived' = revived \cup
          {x.id : x \in {y \in Of(q.jogak) : /\ ~CurrentOrFuture(y.schedule, today)
                                             /\ CurrentOrFuture(q.schedule, today)}}
    /\ End(r)
    /\ UNCHANGED <<today, mogaks, used>>

\* An await fails: the request ends, its transaction is rolled back.
Fail(r) ==
    /\ req[r].pc # "idle"
    /\ End(r)
    /\ UNCHANGED <<today, mogaks, jogaks, used, revived>>

NextDay ==
    /\ today < LastDay
    /\ today' = today + 1
    /\ UNCHANGED <<mogaks, jogaks, used, req, revived>>

Init ==
    /\ today = 0 /\ mogaks = {} /\ jogaks = {} /\ used = {} /\ revived = {}
    /\ req = [r \in Requests |-> Idle]

Step(r) ==
    \/ StartCreateMogak(r) \/ CountMogaks(r) \/ CreateMogak(r)
    \/ StartCreateJogak(r) \/ FindOwnedMogak(r) \/ CountJogaks(r) \/ CreateJogakWithSchedule(r)
    \/ StartUpdateJogak(r) \/ ListSchedules(r) \/ PatchOwnedJogak(r)
    \/ Fail(r)

Next == (\E r \in Requests : Step(r)) \/ DeleteOwnedMogak \/ DeleteOwnedJogak \/ NextDay

Spec == Init /\ [][Next]_vars

-----------------------------------------------------------------------------
(* Properties *)

\* However many creations counted before the others inserted, a modarat never
\* has more mogaks than its limit.
MogaksWithinLimit == Cardinality(mogaks) <= Capacity

\* A mogak exceeds its limit only by jogaks that were over and that a change of
\* schedule, decided on what it read before the transaction, brought back:
\* neither creations that race nor a creation that crosses midnight exceed it.
ExcessIsRevived ==
    \A m \in mogaks :
        Cardinality(Counted(m, today)) <=
            Capacity + Cardinality({x \in Counted(m, today) : x.id \in revived})
=============================================================================
