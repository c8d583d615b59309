----------------------------- MODULE ScheduleViews -----------------------------
(***************************************************************************)
(* What the owner of a modarat is shown of its schedules: the occurrences  *)
(* of some days with their status, and the progress of a week.  A view is  *)
(* put together from several reads, one await each, while jogaks are       *)
(* created, rescheduled, done and deleted and days go by; the occurrences  *)
(* are computed twice in the code, by the schedule policy and again, row   *)
(* by row, for the progress, and chosen by two conditions in SQL.          *)
(*                                                                         *)
(* Days are numbers, day 0 a Sunday.  A jogak has one schedule (see        *)
(* HierarchyCapacity, which counts jogaks; here there is always room).     *)
(***************************************************************************)
EXTENDS Naturals, FiniteSets

CONSTANTS MogakIds, JogakIds,  \* ids the tables may hand out, each once
          FirstDay, LastDay,   \* the calendar
          Inputs,              \* schedules that are asked for
          Views,               \* views that are asked for: days and filters
          Statuses,            \* what commands (SUCCESS, FAIL) and posts ask for
          MaxExecutions,       \* bound on the executions
          Readers, Writers,    \* requests that read, and that command
          None

Days == FirstDay .. LastDay
Forever == LastDay + 7        \* effectiveTo is null
Weekdays == 0 .. 6

\* What createJogakSchedule lets through.
Schedules ==
    [type : {"ONCE"}, from : Days, to : {Forever}, weekdays : {{}}] \cup
    {s \in [type : {"WEEKLY"}, from : Days, to : Days \cup {Forever},
            weekdays : (SUBSET Weekdays) \ {{}}] : s.from <= s.to}

ASSUME CalendarAssumption ==
    /\ FirstDay \in Nat /\ LastDay \in Nat /\ FirstDay <= LastDay
    /\ None \notin Weekdays /\ Inputs \subseteq Schedules
    /\ Statuses \subseteq {"IN_PROGRESS", "SUCCESS", "FAIL"}
    /\ Views \subseteq [start : Days, end : Days, type : {"ONCE", "WEEKLY", None},
                        mogak : MogakIds \cup {None}]

VARIABLES today,       \* the date in Seoul
          mogaks,      \* mogaks of the modarat
          jogaks,      \* jogaks with their mogak and their schedule
          used,        \* ids that were handed out
          executions,  \* executions of the jogaks, one for a jogak and a date
          req,         \* requests in flight, their local variables, their answers
          scheduled    \* history: <<jogak, date>> that once was on a schedule

Requests == Readers \cup Writers

tables == <<mogaks, jogaks, used, executions, scheduled>>
vars == <<today, tables, req>>

-----------------------------------------------------------------------------
(* Schedules *)

WeekdayFor(day) == day % 7

IsActiveOn(s, day) ==
    IF s.type = "ONCE" THEN day = s.from ELSE s.from <= day /\ day <= s.to

OccursOn(s, day) ==
    IsActiveOn(s, day) /\ (s.type = "ONCE" \/ WeekdayFor(day) \in s.weekdays)

DeriveOccurrenceStatus(status, day, now) ==
    IF status # None THEN status ELSE IF day < now THEN "MISSED" ELSE "PENDING"

\* The condition of the capacity, in SQL.
CurrentOrFuture(s, day) == day <= (IF s.type = "ONCE" THEN s.from ELSE s.to)

\* A range that is asked for is one that assertDateRange lets through.
DatesInclusive(start, end) == start .. end

WeekContaining(day) ==
    LET sunday == day - WeekdayFor(day) IN DatesInclusive(sunday, sunday + 6)

\* A schedule keeps its first day; with one schedule there is no successor.
ReplacementSchedule(s, active) == [s EXCEPT !.from = active.from]

OccurrencesOf(x) == {<<x.id, day>> : day \in {d \in Days : OccursOn(x.schedule, d)}}

-----------------------------------------------------------------------------
(* Reads.  Each is one statement, so it sees one state of the tables.      *)

\* Mutation: a schedule that ends on the first day is not in the range.
InRangeExclusive(s, start, end) == s.from <= end /\ (s.to = Forever \/ start < s.to)

\* The days a schedule is in force overlap the days asked for, in SQL.
InRange(s, start, end) == s.from <= end /\ (s.to = Forever \/ start <= s.to)

\* A row for each weekday of a schedule, or one without a weekday (LEFT JOIN).
RowsOf(x) ==
    {[jogak |-> x.id, mogak |-> x.mogak, type |-> x.schedule.type,
      from |-> x.schedule.from, to |-> x.schedule.to, weekday |-> w] :
        w \in IF x.schedule.weekdays = {} THEN {None} ELSE x.schedule.weekdays}

ListOccurrenceScheduleRows(start, end) ==
    UNION {RowsOf(x) : x \in {y \in jogaks : InRange(y.schedule, start, end)}}

\* Without days: all of a jogak, and all of a mogak.
ListScheduleRows(j) == UNION {RowsOf(x) : x \in {y \in jogaks : y.id = j}}
ListMogakScheduleRows(g) == UNION {RowsOf(x) : x \in {y \in jogaks : y.mogak = g}}

\* The filters of a view.
Filtered(rows, v) ==
    {row \in rows : (v.type = None \/ row.type = v.type) /\ (v.mogak = None \/ row.mogak = v.mogak)}

\* The schedules those rows are the join of.
GroupScheduleRows(rows) ==
    {[id |-> row.jogak, mogak |-> row.mogak,
      schedule |-> [type |-> row.type, from |-> row.from, to |-> row.to,
                    weekdays |-> {q.weekday : q \in {p \in rows : p.jogak = row.jogak}} \ {None}]] :
        row \in rows}

ListExecutions(js, start, end) ==
    {e \in executions : e.jogak \in js /\ start <= e.date /\ e.date <= end}

ListSuccessCounts(js) ==
    [j \in js |-> Cardinality({e \in executions : e.jogak = j /\ e.status = "SUCCESS"})]

StatusIn(found, j, day) ==
    IF \E e \in found : e.jogak = j /\ e.date = day
    THEN (CHOOSE e \in found : e.jogak = j /\ e.date = day).status ELSE None

-----------------------------------------------------------------------------
(* What is answered, from what was read *)

ProjectOccurrences(rows, found, achievements, v, now) ==
    LET Occurrence(x, day) ==
            [jogak |-> x.id, date |-> day,
             status |-> DeriveOccurrenceStatus(StatusIn(found, x.id, day), day, now),
             achievements |-> achievements[x.id]]
    IN
    UNION {{Occurrence(x, day) : day \in {d \in DatesInclusive(v.start, v.end) :
                                             OccursOn(x.schedule, d)}} :
              x \in GroupScheduleRows(rows)}

\* Of its only schedule a jogak shows all, whatever the day is.
ShowSchedules(rows, achievements) ==
    {[jogak |-> x.id, schedule |-> x.schedule, achievements |-> achievements[x.id]] :
        x \in GroupScheduleRows(rows)}

\* The progress tests every row on its own and does not group them.
RowOccursOn(row, day) ==
    /\ row.from <= day /\ day <= row.to
    /\ IF row.type = "ONCE" THEN day = row.from ELSE WeekdayFor(day) = row.weekday

ScheduledKeys(rows, days) ==
    UNION {{<<row.jogak, day>> : day \in {d \in days : RowOccursOn(row, d)}} : row \in rows}

\* Mutation: an execution that is not scheduled any more is not planned.
PlannedWhenScheduled(g, rows, parents, found, days) ==
    ScheduledKeys({row \in rows : row.mogak = g}, days)

\* The occurrences of a mogak, and the executions that lost theirs.
Planned(g, rows, parents, found, days) ==
    ScheduledKeys({row \in rows : row.mogak = g}, days) \cup
    ({<<e.jogak, e.date>> : e \in {x \in found : <<x.jogak, g>> \in parents}}
        \ ScheduledKeys(rows, days))

DoneKeys(g, parents, found) ==
    {<<e.jogak, e.date>> : e \in {x \in found : <<x.jogak, g>> \in parents /\ x.status = "SUCCESS"}}

Progress(gs, rows, parents, found, days) ==
    {[mogak |-> g, planned |-> Planned(g, rows, parents, found, days),
      done |-> DoneKeys(g, parents, found)] : g \in gs}

-----------------------------------------------------------------------------
(* Types *)

JogakRows == [id : JogakIds, mogak : MogakIds, schedule : Schedules]
ExecutionRows == [jogak : JogakIds, date : Days, status : Statuses]
Of(j) == {x \in jogaks : x.id = j}

Idle == [op |-> "none", pc |-> "idle", view |-> None, day |-> None, jogak |-> None,
         status |-> None,
         mogaks |-> {}, parents |-> {}, rows |-> {}, executions |-> {}, answer |-> {},
         undone |-> {}]  \* history: successes taken back while a view was between its reads
Become(r, q) == req' = [req EXCEPT ![r] = q]
End(r) == Become(r, Idle)

\* A jogak has executions on different dates, and only while it exists.
TypeOK ==
    /\ today \in Days
    /\ mogaks \subseteq MogakIds
    /\ \A x \in jogaks : x \in JogakRows /\ x.mogak \in mogaks /\ Of(x.id) = {x}
    /\ executions \subseteq ExecutionRows
    /\ \A e \in executions : Of(e.jogak) # {}
    /\ \A e, f \in executions : e.jogak = f.jogak /\ e.date = f.date => e = f
    /\ used \subseteq MogakIds \cup JogakIds /\ scheduled \subseteq JogakIds \X Days
    /\ \A r \in Requests :
          /\ req[r].op \in {"none", "view", "list", "detail", "progress", "command"}
          /\ req[r].pc \in {"idle", "parents", "schedules", "executions",
                            "counts", "commit", "answered"}
          /\ DOMAIN req[r] = DOMAIN Idle

-----------------------------------------------------------------------------
(* listDay, listOneTime, listRoutines, listMogakDay, listMogakJogaks *)

\* A request begins with its first read; one that finds nothing ends there.
FindOwnedMogak(r) ==
    /\ req[r].pc = "idle"
    /\ \/ \E v \in Views :
             /\ v.mogak \in mogaks
             /\ Become(r, [Idle EXCEPT !.op = "view", !.pc = "schedules", !.view = v])
       \/ \E g \in mogaks :
             Become(r, [Idle EXCEPT !.op = "list", !.pc = "schedules", !.mogaks = {g}])
    /\ UNCHANGED <<today, tables>>

LoadSchedules(r) ==
    LET Load(v) == Become(r, [Idle EXCEPT !.op = "view", !.pc = "executions", !.view = v,
                        !.rows = Filtered(ListOccurrenceScheduleRows(v.start, v.end), v)])
    IN
    /\ \/ req[r].pc = "idle" /\ \E v \in Views : v.mogak = None /\ Load(v)
       \/ req[r].op = "view" /\ req[r].pc = "schedules" /\ Load(req[r].view)
    /\ UNCHANGED <<today, tables>>

LoadExecutions(r) ==
    LET q == req[r] IN
    /\ q.op = "view" /\ q.pc = "executions"
    /\ Become(r, [q EXCEPT !.pc = "counts",
                           !.executions = ListExecutions({row.jogak : row \in q.rows},
                                                         q.view.start, q.view.end)])
    /\ UNCHANGED <<today, tables>>

AnswerView(r) ==
    LET q == req[r]
        achievements == ListSuccessCounts({row.jogak : row \in q.rows})
    IN
    /\ q.op = "view" /\ q.pc = "counts"
    /\ Become(r, [Idle EXCEPT !.op = "view", !.pc = "answered",
            !.answer = ProjectOccurrences(q.rows, q.executions, achievements, q.view, today),
            !.undone = q.undone])
    /\ UNCHANGED <<today, tables>>

LoadMogakSchedules(r) ==
    /\ req[r].op = "list" /\ req[r].pc = "schedules"
    /\ \E g \in req[r].mogaks :
          Become(r, [Idle EXCEPT !.op = "list", !.pc = "counts", !.rows = ListMogakScheduleRows(g)])
    /\ UNCHANGED <<today, tables>>

AnswerList(r) ==
    LET rows == req[r].rows IN
    /\ req[r].op = "list" /\ req[r].pc = "counts"
    /\ Become(r, [Idle EXCEPT !.op = "list", !.pc = "answered",
            !.answer = ShowSchedules(rows, ListSuccessCounts({row.jogak : row \in rows}))])
    /\ UNCHANGED <<today, tables>>

-----------------------------------------------------------------------------
(* getDetail *)

FindOwnedJogak(r) ==
    /\ req[r].pc = "idle"
    /\ \E x \in jogaks :
          Become(r, [Idle EXCEPT !.op = "detail", !.pc = "schedules", !.jogak = x.id])
    /\ UNCHANGED <<today, tables>>

LoadScheduleRows(r) ==
    /\ req[r].op = "detail" /\ req[r].pc = "schedules"
    /\ Become(r, [req[r] EXCEPT !.pc = "counts", !.rows = ListScheduleRows(req[r].jogak)])
    /\ UNCHANGED <<today, tables>>

\* A jogak that was deleted in between is shown without a schedule.
AnswerDetail(r) ==
    LET q == req[r] IN
    /\ q.op = "detail" /\ q.pc = "counts"
    /\ Become(r, [Idle EXCEPT !.op = "detail", !.pc = "answered", !.jogak = q.jogak,
            !.answer = ShowSchedules(q.rows, ListSuccessCounts({q.jogak}))])
    /\ UNCHANGED <<today, tables>>

-----------------------------------------------------------------------------
(* getProgress *)

ListMogaks(r) ==
    /\ req[r].pc = "idle"
    /\ \E day \in Days :
          Become(r, [Idle EXCEPT !.op = "progress", !.pc = "parents", !.day = day, !.mogaks = mogaks])
    /\ UNCHANGED <<today, tables>>

ListJogakParents(r) ==
    /\ req[r].op = "progress" /\ req[r].pc = "parents"
    /\ Become(r, [req[r] EXCEPT !.pc = "schedules",
                                !.parents = {<<x.id, x.mogak>> : x \in jogaks}])
    /\ UNCHANGED <<today, tables>>

ListWeekSchedules(r) ==
    LET week == WeekContaining(req[r].day)
        sunday == CHOOSE d \in week : WeekdayFor(d) = 0
    IN
    /\ req[r].op = "progress" /\ req[r].pc = "schedules"
    /\ Become(r, [req[r] EXCEPT !.pc = "executions",
                                !.rows = ListOccurrenceScheduleRows(sunday, sunday + 6)])
    /\ UNCHANGED <<today, tables>>

AnswerProgress(r) ==
    LET q == req[r]
        week == WeekContaining(q.day)
        found == {e \in executions : e.date \in week /\ \E g \in MogakIds : <<e.jogak, g>> \in q.parents}
    IN
    /\ q.op = "progress" /\ q.pc = "executions"
    /\ Become(r, [Idle EXCEPT !.op = "progress", !.pc = "answered",
                              !.answer = Progress(q.mogaks, q.rows, q.parents, found, week)])
    /\ UNCHANGED <<today, tables>>

EndAnswered(r) ==
    /\ req[r].pc = "answered"
    /\ End(r)
    /\ UNCHANGED <<today, tables>>

-----------------------------------------------------------------------------
(* Commands, and posts that start an occurrence: both look the occurrence up first *)

\* Mutation: the schedules of every jogak of the user are loaded.
ResolveAnyOccurrence(r) ==
    /\ req[r].pc = "idle"
    /\ \E x \in jogaks, day \in Days, s \in Statuses :
          /\ \E y \in jogaks : OccursOn(y.schedule, day)
          /\ Become(r, [Idle EXCEPT !.op = "command", !.pc = "commit", !.jogak = x.id,
                                 !.day = day, !.status = s])
    /\ UNCHANGED <<today, tables>>

\* The jogak is found, then its schedules: only the second read matters.
ResolveOccurrence(r) ==
    /\ req[r].pc = "idle"
    /\ \E x \in jogaks, day \in Days, s \in Statuses :
          /\ \E y \in GroupScheduleRows({row \in ListOccurrenceScheduleRows(day, day) :
                                              row.jogak = x.id}) : OccursOn(y.schedule, day)
          /\ Become(r, [Idle EXCEPT !.op = "command", !.pc = "commit", !.jogak = x.id,
                                 !.day = day, !.status = s])
    /\ UNCHANGED <<today, tables>>

\* Mutation: an insertion for a jogak that is gone is not refused.
CommandAnyway(r) ==
    LET q == req[r]
        new == [jogak |-> q.jogak, date |-> q.day, status |-> q.status]
    IN
    /\ q.op = "command" /\ q.pc = "commit"
    /\ \A e \in executions : e.jogak # q.jogak \/ e.date # q.day
    /\ Cardinality(executions) < MaxExecutions
    /\ executions' = executions \cup {new}
    /\ End(r)
    /\ UNCHANGED <<today, mogaks, jogaks, used, scheduled>>

\* The command ends; views that have read a success it takes back note it.
TakeBack(r, undone) ==
    req' = [x \in Requests |->
        IF x = r THEN Idle
        ELSE IF req[x].op = "view" /\ req[x].pc = "counts"
             THEN [req[x] EXCEPT !.undone = @ \cup {<<e.jogak, e.date>> : e \in undone}]
        ELSE req[x]]

\* A success may become a failure and a failure a success; neither starts again.
TransitionUpdates(current, desired) == current # desired /\ desired # "IN_PROGRESS"

\* Insert the execution, or write the status over another one (how two commands
\* race for it is in JogakExecution).
Command(r) ==
    LET q == req[r]
        old == {e \in executions : e.jogak = q.jogak /\ e.date = q.day}
        new == [jogak |-> q.jogak, date |-> q.day, status |-> q.status]
        update == \E e \in old : TransitionUpdates(e.status, q.status)
    IN
    /\ q.op = "command" /\ q.pc = "commit"
    /\ \/ /\ old = {} /\ Of(q.jogak) # {} /\ Cardinality(executions) < MaxExecutions
          /\ executions' = executions \cup {new}
          /\ End(r)
       \/ /\ update
          /\ executions' = (executions \ old) \cup {new}
          /\ TakeBack(r, {e \in old : e.status = "SUCCESS"})
       \/ /\ ~update
          /\ old # {} \/ Of(q.jogak) = {}
          /\ UNCHANGED executions
          /\ End(r)
    /\ UNCHANGED <<today, mogaks, jogaks, used, scheduled>>

-----------------------------------------------------------------------------
(* Changes of the hierarchy and the schedules *)

\* Mutation: the executions of days that are not scheduled any more are deleted.
UpdateJogakAndExecutions ==
    /\ \E x \in jogaks, s \in Inputs :
          LET new == [x EXCEPT !.schedule = ReplacementSchedule(s, x.schedule)] IN
          /\ IsActiveOn(x.schedule, today) /\ new.schedule \in Schedules
          /\ jogaks' = (jogaks \ {x}) \cup {new}
          /\ scheduled' = scheduled \cup OccurrencesOf(new)
          /\ executions' = {e \in executions :
                                 e.jogak = x.id => <<x.id, e.date>> \in OccurrencesOf(new)}
    /\ UNCHANGED <<today, mogaks, used, req>>

\* The schedule that is active is replaced in place, from its own first day.
\* Nothing else of what update read before its transaction reaches the tables,
\* and the first day never changes; that a schedule which ended meanwhile is
\* replaced all the same is in HierarchyCapacity.
UpdateJogak ==
    /\ \E x \in jogaks, s \in Inputs :
          LET new == [x EXCEPT !.schedule = ReplacementSchedule(s, x.schedule)] IN
          /\ IsActiveOn(x.schedule, today) /\ new.schedule \in Schedules
          /\ jogaks' = (jogaks \ {x}) \cup {new}
          /\ scheduled' = scheduled \cup OccurrencesOf(new)
    /\ UNCHANGED <<today, mogaks, used, executions, req>>

CreateMogak ==
    /\ \E g \in MogakIds \ used : mogaks' = mogaks \cup {g} /\ used' = used \cup {g}
    /\ UNCHANGED <<today, jogaks, executions, req, scheduled>>

CreateJogakWithSchedule ==
    /\ \E g \in mogaks, j \in JogakIds \ used, s \in Inputs :
          LET x == [id |-> j, mogak |-> g, schedule |-> s] IN
          /\ jogaks' = jogaks \cup {x}
          /\ used' = used \cup {j}
          /\ scheduled' = scheduled \cup OccurrencesOf(x)
    /\ UNCHANGED <<today, mogaks, executions, req>>

DeleteTree(js) ==
    /\ jogaks' = jogaks \ js
    /\ executions' = {e \in executions : \A x \in js : x.id # e.jogak}
    /\ scheduled' = {key \in scheduled : \A x \in js : x.id # key[1]}

DeleteOwnedJogak ==
    /\ \E x \in jogaks : DeleteTree({x})
    /\ UNCHANGED <<today, mogaks, used, req>>

DeleteOwnedMogak ==
    /\ \E g \in mogaks : mogaks' = mogaks \ {g} /\ DeleteTree({x \in jogaks : x.mogak = g})
    /\ UNCHANGED <<today, used, req>>

\* An await fails, or the caller stops waiting.
Fail(r) ==
    /\ req[r].pc \notin {"idle", "answered"}
    /\ End(r)
    /\ UNCHANGED <<today, tables>>

NextDay ==
    /\ today < LastDay
    /\ today' = today + 1
    /\ UNCHANGED <<tables, req>>

Init ==
    /\ today = FirstDay /\ mogaks = {} /\ jogaks = {} /\ used = {} /\ executions = {}
    /\ scheduled = {}
    /\ req = [r \in Requests |-> Idle]

Read(r) ==
    \/ FindOwnedMogak(r) \/ LoadSchedules(r) \/ LoadExecutions(r) \/ AnswerView(r)
    \/ LoadMogakSchedules(r) \/ AnswerList(r)
    \/ FindOwnedJogak(r) \/ LoadScheduleRows(r) \/ AnswerDetail(r)
    \/ ListMogaks(r) \/ ListJogakParents(r) \/ ListWeekSchedules(r) \/ AnswerProgress(r)
    \/ EndAnswered(r)

Write(r) == ResolveOccurrence(r) \/ Command(r)

Next ==
    \/ \E r \in Readers : Read(r) \/ Fail(r)
    \/ \E r \in Writers : Write(r) \/ Fail(r)
    \/ CreateMogak \/ CreateJogakWithSchedule \/ UpdateJogak
    \/ DeleteOwnedJogak \/ DeleteOwnedMogak
    \/ NextDay

Spec == Init /\ [][Next]_vars

-----------------------------------------------------------------------------
(* Properties *)

\* No progress exceeds what was planned, in total or for a mogak, although the
\* executions are read after the schedules and may have lost their occurrence.
DoneWithinPlanned ==
    \A r \in Requests : req[r].op = "progress" =>
        \A p \in req[r].answer : p.done \subseteq p.planned

\* What one answer puts together fits, unless the jogak was deleted since: a
\* view, which counts the successes of a jogak after it read the executions it
\* shows, counts all it shows but those a command failed between these reads;
\* and a detail shows the schedule of its jogak.
AnswersFitTogether ==
    \A r \in Requests :
        LET q == req[r] IN
        /\ q.op = "view" =>
              \A o \in q.answer : Of(o.jogak) # {} =>
                  Cardinality({p \in q.answer : /\ p.jogak = o.jogak /\ p.status = "SUCCESS"
                                                /\ <<p.jogak, p.date>> \notin q.undone})
                      <= o.achievements
        /\ q.op = "detail" /\ q.pc = "answered" /\ Of(q.jogak) # {} => q.answer # {}

\* A command or a post that was overtaken by a change of the schedule leaves an
\* execution on a day that is not scheduled, but never on one that never was.
ExecutionsWereScheduled == \A e \in executions : <<e.jogak, e.date>> \in scheduled

\* The readings of a schedule agree: the policy on the grouped rows, the test
\* row by row of the progress, the range in SQL, which loses no occurrence, and
\* the condition of the capacity, which counts whatever is still to come.
SchedulesReadAlike ==
    \A x \in jogaks, day \in Days :
        LET occurs == OccursOn(x.schedule, day) IN
        /\ x \in GroupScheduleRows(RowsOf(x))
        /\ occurs <=> <<x.id, day>> \in ScheduledKeys(ListOccurrenceScheduleRows(day, day), {day})
        /\ occurs /\ today <= day => CurrentOrFuture(x.schedule, today)
=============================================================================
