-------------------------- MODULE ScheduleViewsProofs --------------------------
(***************************************************************************)
(* Proofs about ScheduleViews, for any calendar, any schedules and views,  *)
(* any number of mogaks, jogaks and requests.  The tables fit (JogaksFit,  *)
(* ExecutionsFit): an id is that of one jogak, and every occurrence of a   *)
(* schedule is in the history.  They evolve (Evolves): a jogak that a      *)
(* request has read is never replaced by another one of the same id or     *)
(* moved to another mogak, and only a command that fails an occurrence     *)
(* takes a success back, which the views that may have read it note.  So   *)
(* what a request has read stays right until it answers (Fits), although   *)
(* nothing holds the tables still between its reads.                       *)
(***************************************************************************)
EXTENDS ScheduleViews, FiniteSetTheorems, TLAPS

-----------------------------------------------------------------------------
(* Schedules *)

LEMMA DayNumbers ==
    /\ Days \subseteq Nat /\ Forever \in Nat /\ Forever \notin Days
    /\ \A day \in Days : day < Forever
BY CalendarAssumption DEF Days, Forever

\* A schedule: one day and no weekdays, or a span and some weekdays.
LEMMA ScheduleShape ==
    ASSUME NEW s \in Schedules
    PROVE  /\ s = [type |-> s.type, from |-> s.from, to |-> s.to, weekdays |-> s.weekdays]
           /\ s.from \in Days /\ s.to \in Days \cup {Forever} /\ s.weekdays \subseteq Weekdays
           /\ \/ s.type = "ONCE" /\ s.to = Forever /\ s.weekdays = {}
              \/ s.type = "WEEKLY" /\ s.weekdays # {} /\ s.from <= s.to
BY DEF Schedules

\* The rows of a jogak say what its schedule says, one for each weekday.
LEMMA RowFields ==
    ASSUME NEW x, NEW row \in RowsOf(x)
    PROVE  /\ row.jogak = x.id /\ row.mogak = x.mogak /\ row.type = x.schedule.type
           /\ row.from = x.schedule.from /\ row.to = x.schedule.to
           /\ IF x.schedule.weekdays = {} THEN row.weekday = None
              ELSE row.weekday \in x.schedule.weekdays
BY DEF RowsOf

LEMMA RowOfWeekday ==
    ASSUME NEW x, NEW w, IF x.schedule.weekdays = {} THEN w = None ELSE w \in x.schedule.weekdays
    PROVE  \E row \in RowsOf(x) : row.weekday = w
<1> DEFINE row == [jogak |-> x.id, mogak |-> x.mogak, type |-> x.schedule.type,
                   from |-> x.schedule.from, to |-> x.schedule.to, weekday |-> w]
<1>1. w \in IF x.schedule.weekdays = {} THEN {None} ELSE x.schedule.weekdays
  OBVIOUS
<1>2. row \in RowsOf(x)
  BY <1>1 DEF RowsOf
<1>3. row.weekday = w
  OBVIOUS
<1>4. QED BY <1>2, <1>3

LEMMA SomeRow ==
    ASSUME NEW x
    PROVE  \E row \in RowsOf(x) : TRUE
<1>1. PICK w : IF x.schedule.weekdays = {} THEN w = None ELSE w \in x.schedule.weekdays
  OBVIOUS
<1>2. QED BY <1>1, RowOfWeekday

\* Grouping the rows of one jogak gives the jogak back.
LEMMA GroupingIsInverse ==
    ASSUME NEW x \in JogakRows
    PROVE  GroupScheduleRows(RowsOf(x)) = {x}
<1> DEFINE Weekdays_(row) == {q.weekday : q \in {p \in RowsOf(x) : p.jogak = row.jogak}} \ {None}
           Grouped(row) == [id |-> row.jogak, mogak |-> row.mogak,
              schedule |-> [type |-> row.type, from |-> row.from, to |-> row.to,
                            weekdays |-> Weekdays_(row)]]
<1>1. x.schedule \in Schedules /\ x = [id |-> x.id, mogak |-> x.mogak, schedule |-> x.schedule]
  BY DEF JogakRows
<1>2. ASSUME NEW row \in RowsOf(x) PROVE Weekdays_(row) = x.schedule.weekdays
  <2>1. \A w : w \in Weekdays_(row) <=> w # None /\ \E q \in RowsOf(x) : q.weekday = w
    BY <1>2, RowFields
  <2>2. None \notin x.schedule.weekdays
    BY <1>1, ScheduleShape, CalendarAssumption
  <2>3. \A w : w \in Weekdays_(row) => w \in x.schedule.weekdays
    BY <2>1, RowFields
  <2>4. \A w \in x.schedule.weekdays : w \in Weekdays_(row)
    BY <2>1, <2>2, RowOfWeekday
  <2>5. QED BY <2>3, <2>4
<1>3. ASSUME NEW row \in RowsOf(x) PROVE Grouped(row) = x
  <2>1. /\ row.jogak = x.id /\ row.mogak = x.mogak /\ row.type = x.schedule.type
        /\ row.from = x.schedule.from /\ row.to = x.schedule.to
    BY <1>3, RowFields
  <2>2. Weekdays_(row) = x.schedule.weekdays
    BY <1>2
  <2>3. x.schedule = [type |-> x.schedule.type, from |-> x.schedule.from, to |-> x.schedule.to,
                      weekdays |-> x.schedule.weekdays]
    BY <1>1, ScheduleShape
  <2> HIDE DEF Weekdays_
  <2>4. QED BY <1>1, <2>1, <2>2, <2>3
<1>4. GroupScheduleRows(RowsOf(x)) = {Grouped(row) : row \in RowsOf(x)}
  BY DEF GroupScheduleRows
<1> HIDE DEF Grouped
<1>5. QED BY <1>3, <1>4, SomeRow

\* A day on which a jogak occurs is in the range the rows are asked for.
LEMMA OccurrencesAreInRange ==
    ASSUME NEW s \in Schedules, NEW day \in Days, OccursOn(s, day)
    PROVE  InRange(s, day, day)
BY ScheduleShape, DayNumbers DEF OccursOn, IsActiveOn, InRange

\* The test row by row is the policy on the schedule.
LEMMA RowsReadAlike ==
    ASSUME NEW x \in JogakRows, NEW day \in Days
    PROVE  OccursOn(x.schedule, day) <=> \E row \in RowsOf(x) : RowOccursOn(row, day)
<1> DEFINE s == x.schedule
<1>s. /\ s \in Schedules /\ s.from \in Days /\ s.to \in Days \cup {Forever}
      /\ s.weekdays \subseteq Weekdays
      /\ \/ s.type = "ONCE" /\ s.to = Forever /\ s.weekdays = {}
         \/ s.type = "WEEKLY" /\ s.weekdays # {} /\ s.from <= s.to
  BY ScheduleShape DEF JogakRows
<1>d. day \in Nat /\ day < Forever /\ s.from \in Nat /\ s.to \in Nat /\ Forever \in Nat
  BY <1>s, DayNumbers
<1>1. CASE s.type = "ONCE"
  <2>1. ASSUME NEW row \in RowsOf(x)
        PROVE  RowOccursOn(row, day) <=> day = s.from
    <3>1. row.type = "ONCE" /\ row.from = s.from /\ row.to = Forever
      BY <1>s, <1>1, RowFields
    <3>2. QED BY <1>d, <3>1 DEF RowOccursOn
  <2>2. OccursOn(s, day) <=> day = s.from
    BY <1>1 DEF OccursOn, IsActiveOn
  <2>3. QED BY <2>1, <2>2, SomeRow
<1>2. CASE s.type = "WEEKLY"
  <2>1. ASSUME NEW row \in RowsOf(x)
        PROVE  /\ row.weekday \in s.weekdays
               /\ RowOccursOn(row, day) <=>
                     s.from <= day /\ day <= s.to /\ WeekdayFor(day) = row.weekday
    <3>1. row.type = "WEEKLY" /\ row.from = s.from /\ row.to = s.to /\ row.weekday \in s.weekdays
      BY <1>s, <1>2, RowFields
    <3>2. QED BY <3>1 DEF RowOccursOn
  <2>2. \A w \in s.weekdays : \E row \in RowsOf(x) : row.weekday = w
    BY RowOfWeekday
  <2>3. OccursOn(s, day) <=> s.from <= day /\ day <= s.to /\ WeekdayFor(day) \in s.weekdays
    BY <1>2 DEF OccursOn, IsActiveOn
  <2>4. QED BY <2>1, <2>2, <2>3
<1>3. QED BY <1>s, <1>1, <1>2

\* Whatever is still to come counts towards the capacity.
LEMMA ComingCounts ==
    ASSUME NEW s \in Schedules, NEW day \in Days, NEW now \in Days, OccursOn(s, day), now <= day
    PROVE  CurrentOrFuture(s, now)
BY ScheduleShape, DayNumbers DEF OccursOn, IsActiveOn, CurrentOrFuture

\* Ids are those of one jogak each, so its rows are the rows with its id.
LEMMA RowsOfOne ==
    ASSUME TypeOK, NEW x \in jogaks, NEW start, NEW end, NEW row \in ListOccurrenceScheduleRows(start, end),
           row.jogak = x.id
    PROVE  row \in RowsOf(x) /\ InRange(x.schedule, start, end)
<1>1. PICK y \in jogaks : row \in RowsOf(y) /\ InRange(y.schedule, start, end)
  BY DEF ListOccurrenceScheduleRows
<1>2. y.id = x.id
  BY <1>1, RowFields
<1>3. y = x
  BY <1>2 DEF TypeOK, Of
<1>4. QED BY <1>1, <1>3

LEMMA ReadingsAgree == TypeOK => SchedulesReadAlike
<1> SUFFICES ASSUME TypeOK, NEW x \in jogaks, NEW day \in Days
             PROVE  /\ x \in GroupScheduleRows(RowsOf(x))
                    /\ OccursOn(x.schedule, day) <=>
                          <<x.id, day>> \in ScheduledKeys(ListOccurrenceScheduleRows(day, day), {day})
                    /\ OccursOn(x.schedule, day) /\ today <= day =>
                          CurrentOrFuture(x.schedule, today)
  BY DEF SchedulesReadAlike
<1>1. x \in JogakRows /\ x.schedule \in Schedules /\ today \in Days
  BY DEF TypeOK, JogakRows
<1> DEFINE rows == ListOccurrenceScheduleRows(day, day)
<1>2. <<x.id, day>> \in ScheduledKeys(rows, {day}) <=>
         \E row \in rows : row.jogak = x.id /\ RowOccursOn(row, day)
  BY DEF ScheduledKeys
<1>3. ASSUME NEW row \in rows, row.jogak = x.id, RowOccursOn(row, day)
      PROVE  OccursOn(x.schedule, day)
  BY <1>1, <1>3, RowsOfOne, RowsReadAlike
<1>4. ASSUME OccursOn(x.schedule, day)
      PROVE  \E row \in rows : row.jogak = x.id /\ RowOccursOn(row, day)
  <2>1. PICK row \in RowsOf(x) : RowOccursOn(row, day)
    BY <1>1, <1>4, RowsReadAlike
  <2>2. row.jogak = x.id
    BY RowFields
  <2>3. InRange(x.schedule, day, day)
    BY <1>1, <1>4, OccurrencesAreInRange
  <2>4. row \in rows
    BY <2>3 DEF ListOccurrenceScheduleRows
  <2>5. QED BY <2>1, <2>2, <2>4
<1>5. QED BY <1>1, <1>2, <1>3, <1>4, GroupingIsInverse, ComingCounts

-----------------------------------------------------------------------------
(* The tables *)

Lives(j) == \E x \in jogaks : x.id = j

LEMMA LivesIsOf == \A j : Of(j) # {} <=> Lives(j)
BY DEF Of, Lives

JogaksFit ==
    /\ today \in Days /\ mogaks \subseteq MogakIds /\ used \subseteq MogakIds \cup JogakIds
    /\ scheduled \subseteq JogakIds \X Days
    /\ \A x \in jogaks :
          /\ x \in JogakRows /\ x.mogak \in mogaks /\ x.id \in used
          /\ OccurrencesOf(x) \subseteq scheduled
    /\ \A x, y \in jogaks : x.id = y.id => x = y

ExecutionsFit ==
    /\ executions \subseteq ExecutionRows /\ IsFiniteSet(executions)
    /\ \A e \in executions : Lives(e.jogak) /\ <<e.jogak, e.date>> \in scheduled
    /\ \A e, f \in executions : e.jogak = f.jogak /\ e.date = f.date => e = f

\* What a command is about was on the schedule, unless the jogak is gone.
Resolved(q) ==
    q.op = "command" =>
        /\ q.jogak \in JogakIds /\ q.jogak \in used /\ q.day \in Days /\ q.status \in Statuses
        /\ Lives(q.jogak) => <<q.jogak, q.day>> \in scheduled

\* What a step may do to the tables: ids are not handed out again, a jogak
\* stays in its mogak, and while it lives it keeps its history and, but for
\* those at the keys that are undone, its successes.
Evolves(undone) ==
    /\ used \subseteq used'
    /\ \A x \in jogaks' : x.id \in used => \E y \in jogaks : y.id = x.id /\ y.mogak = x.mogak
    /\ \A e \in executions :
          e.status = "SUCCESS" /\ Lives(e.jogak)' => e \in executions' \/ <<e.jogak, e.date>> \in undone
    /\ \A key \in scheduled : Lives(key[1])' => key \in scheduled'

Evolution(undone) == JogaksFit' /\ ExecutionsFit' /\ Evolves(undone)

LEMMA LivingLived ==
    ASSUME NEW undone, Evolves(undone)
    PROVE  \A j \in used : Lives(j)' => Lives(j)
BY DEF Evolves, Lives

LEMMA StillTables ==
    ASSUME JogaksFit, ExecutionsFit, UNCHANGED <<today, tables>>
    PROVE  Evolution({})
<1>1. /\ today' = today /\ mogaks' = mogaks /\ jogaks' = jogaks /\ used' = used
      /\ executions' = executions /\ scheduled' = scheduled
  BY DEF tables
<1>2. Evolves({})
  BY <1>1 DEF Evolves, Lives
<1>3. JogaksFit'
  BY <1>1 DEF JogaksFit, OccurrencesOf
<1>4. ExecutionsFit'
  BY <1>1 DEF ExecutionsFit, Lives
<1>5. QED BY <1>2, <1>3, <1>4 DEF Evolution

\* A jogak that the history knows is put where its predecessor was.
LEMMA UpdateEvolves ==
    ASSUME JogaksFit, ExecutionsFit, UpdateJogak
    PROVE  Evolution({})
<1>1. PICK x \in jogaks, s \in Inputs :
         LET new == [x EXCEPT !.schedule = ReplacementSchedule(s, x.schedule)] IN
         /\ new.schedule \in Schedules
         /\ jogaks' = (jogaks \ {x}) \cup {new}
         /\ scheduled' = scheduled \cup OccurrencesOf(new)
  BY DEF UpdateJogak
<1> DEFINE new == [x EXCEPT !.schedule = ReplacementSchedule(s, x.schedule)]
<1>2. UNCHANGED <<today, mogaks, used, executions, req>>
  BY DEF UpdateJogak
<1>3. /\ new.schedule \in Schedules /\ jogaks' = (jogaks \ {x}) \cup {new}
      /\ scheduled' = scheduled \cup OccurrencesOf(new)
  BY <1>1
<1>4. x \in JogakRows
  BY DEF JogaksFit
<1>5. new.id = x.id /\ new.mogak = x.mogak /\ DOMAIN new = DOMAIN x
  BY <1>4 DEF JogakRows
<1>6. new \in JogakRows
  <2>1. new = [id |-> x.id, mogak |-> x.mogak, schedule |-> new.schedule]
    BY <1>4 DEF JogakRows
  <2>2. x.id \in JogakIds /\ x.mogak \in MogakIds
    BY <1>4 DEF JogakRows
  <2> HIDE DEF new
  <2>3. QED BY <1>3, <2>1, <2>2 DEF JogakRows
<1> HIDE DEF new
<1>7. OccurrencesOf(new) \subseteq JogakIds \X Days
  BY <1>6 DEF OccurrencesOf, JogakRows
<1>8. JogaksFit'
  <2>1. \A y \in jogaks' : OccurrencesOf(y) \subseteq scheduled'
    BY <1>3 DEF JogaksFit
  <2>2. \A y \in jogaks' : y \in JogakRows /\ y.mogak \in mogaks /\ y.id \in used
    BY <1>3, <1>5, <1>6 DEF JogaksFit
  <2>3. \A y, z \in jogaks' : y.id = z.id => y = z
    BY <1>3, <1>5 DEF JogaksFit
  <2>4. scheduled' \subseteq JogakIds \X Days
    BY <1>3, <1>7 DEF JogaksFit
  <2>5. QED BY <1>2, <2>1, <2>2, <2>3, <2>4 DEF JogaksFit, OccurrencesOf
<1>9. \A j : Lives(j) => Lives(j)'
  BY <1>3, <1>5 DEF Lives
<1>10. ExecutionsFit'
  BY <1>2, <1>3, <1>9 DEF ExecutionsFit
<1>11. Evolves({})
  BY <1>2, <1>3, <1>5 DEF Evolves
<1>12. QED BY <1>8, <1>10, <1>11 DEF Evolution

LEMMA CreateEvolves ==
    ASSUME JogaksFit, ExecutionsFit, CreateJogakWithSchedule
    PROVE  Evolution({})
<1>1. PICK g \in mogaks, j \in JogakIds \ used, s \in Inputs :
         LET x == [id |-> j, mogak |-> g, schedule |-> s] IN
         /\ jogaks' = jogaks \cup {x}
         /\ used' = used \cup {j}
         /\ scheduled' = scheduled \cup OccurrencesOf(x)
  BY DEF CreateJogakWithSchedule
<1> DEFINE new == [id |-> j, mogak |-> g, schedule |-> s]
<1>2. UNCHANGED <<today, mogaks, executions, req>>
  BY DEF CreateJogakWithSchedule
<1>3. /\ jogaks' = jogaks \cup {new} /\ used' = used \cup {j}
      /\ scheduled' = scheduled \cup OccurrencesOf(new)
  BY <1>1
<1>4. new.id = j /\ new.mogak = g /\ new \in JogakRows
  BY CalendarAssumption DEF JogakRows, JogaksFit
<1> HIDE DEF new
<1>5. OccurrencesOf(new) \subseteq JogakIds \X Days
  BY <1>4 DEF OccurrencesOf, JogakRows
<1>6. JogaksFit'
  <2>1. \A y \in jogaks' : OccurrencesOf(y) \subseteq scheduled'
    BY <1>3 DEF JogaksFit
  <2>2. \A y \in jogaks' : y \in JogakRows /\ y.mogak \in mogaks /\ y.id \in used'
    BY <1>3, <1>4 DEF JogaksFit
  <2>3. \A y, z \in jogaks' : y.id = z.id => y = z
    BY <1>3, <1>4 DEF JogaksFit
  <2>4. scheduled' \subseteq JogakIds \X Days
    BY <1>3, <1>5 DEF JogaksFit
  <2>5. used' \subseteq MogakIds \cup JogakIds
    BY <1>3 DEF JogaksFit
  <2>6. QED BY <1>2, <2>1, <2>2, <2>3, <2>4, <2>5 DEF JogaksFit, OccurrencesOf
<1>7. \A k : Lives(k) => Lives(k)'
  BY <1>3 DEF Lives
<1>8. ExecutionsFit'
  BY <1>2, <1>3, <1>7 DEF ExecutionsFit
<1>9. Evolves({})
  BY <1>2, <1>3, <1>4 DEF Evolves
<1>10. QED BY <1>6, <1>8, <1>9 DEF Evolution

\* Jogaks that are deleted take their executions and their history along.
LEMMA DeleteEvolves ==
    ASSUME JogaksFit, ExecutionsFit, NEW js \in SUBSET jogaks, DeleteTree(js),
           today' = today, used' = used, mogaks' \subseteq mogaks,
           \A x \in jogaks \ js : x.mogak \in mogaks'
    PROVE  Evolution({})
<1>1. /\ jogaks' = jogaks \ js
      /\ executions' = {e \in executions : \A x \in js : x.id # e.jogak}
      /\ scheduled' = {key \in scheduled : \A x \in js : x.id # key[1]}
  BY DEF DeleteTree
<1>2. \A j : Lives(j)' => \A x \in js : x.id # j
  BY <1>1 DEF Lives, JogaksFit
<1>3. JogaksFit'
  <2>1. ASSUME NEW y \in jogaks' PROVE OccurrencesOf(y) \subseteq scheduled'
    <3>1. y \in jogaks /\ \A x \in js : x.id # y.id
      BY <1>1 DEF JogaksFit
    <3>2. \A key \in OccurrencesOf(y) : key \in scheduled /\ key[1] = y.id
      BY <3>1 DEF JogaksFit, OccurrencesOf
    <3>3. QED BY <1>1, <3>1, <3>2
  <2>2. \A y \in jogaks' : y \in JogakRows /\ y.mogak \in mogaks' /\ y.id \in used
    BY <1>1 DEF JogaksFit
  <2>3. QED BY <1>1, <2>1, <2>2 DEF JogaksFit, OccurrencesOf
<1>4. ExecutionsFit'
  <2>1. IsFiniteSet(executions')
    BY <1>1, FS_Subset DEF ExecutionsFit
  <2>2. ASSUME NEW e \in executions' PROVE Lives(e.jogak)' /\ <<e.jogak, e.date>> \in scheduled'
    <3>1. e \in executions /\ \A x \in js : x.id # e.jogak
      BY <1>1
    <3>2. Lives(e.jogak) /\ <<e.jogak, e.date>> \in scheduled
      BY <3>1 DEF ExecutionsFit
    <3>3. Lives(e.jogak)'
      BY <1>1, <3>1, <3>2 DEF Lives
    <3>4. <<e.jogak, e.date>>[1] = e.jogak
      OBVIOUS
    <3>5. QED BY <1>1, <3>1, <3>2, <3>3, <3>4
  <2>3. QED BY <1>1, <2>1, <2>2 DEF ExecutionsFit
<1>5. Evolves({})
  BY <1>1, <1>2 DEF Evolves
<1>6. QED BY <1>3, <1>4, <1>5 DEF Evolution

\* A command writes for what it resolved, and a success that it takes back is
\* noted.
LEMMA CommandEvolves ==
    ASSUME JogaksFit, ExecutionsFit, NEW r \in Requests, Resolved(req[r]), Command(r)
    PROVE  LET q == req[r]
               taken == {e \in {x \in executions : x.jogak = q.jogak /\ x.date = q.day} :
                            e.status = "SUCCESS"}
           IN
           \/ Evolution({}) /\ End(r)
           \/ Evolution({<<e.jogak, e.date>> : e \in taken}) /\ TakeBack(r, taken)
<1> DEFINE q == req[r]
           old == {e \in executions : e.jogak = q.jogak /\ e.date = q.day}
           new == [jogak |-> q.jogak, date |-> q.day, status |-> q.status]
           taken == {e \in old : e.status = "SUCCESS"}
           keys == {<<e.jogak, e.date>> : e \in taken}
<1>1. UNCHANGED <<today, mogaks, jogaks, used, scheduled>> /\ q.op = "command"
  BY DEF Command
<1>2. \/ old = {} /\ Of(q.jogak) # {} /\ executions' = executions \cup {new} /\ End(r)
      \/ old # {} /\ executions' = (executions \ old) \cup {new} /\ TakeBack(r, taken)
      \/ executions' = executions /\ End(r)
  BY DEF Command
<1>3. \A j : Lives(j)' <=> Lives(j)
  BY <1>1 DEF Lives
<1>4. JogaksFit'
  BY <1>1 DEF JogaksFit, OccurrencesOf
<1>5. ASSUME executions' = (executions \ old) \cup {new}, old = {} => Of(q.jogak) # {}
      PROVE  ExecutionsFit'
  <2>1. Lives(q.jogak) /\ <<q.jogak, q.day>> \in scheduled
    <3>1. CASE Of(q.jogak) # {}
      BY <3>1, <1>1, LivesIsOf DEF Resolved
    <3>2. CASE \E e \in old : TRUE
      BY <3>2 DEF ExecutionsFit
    <3>3. QED BY <1>5, <3>1, <3>2
  <2>2. new \in ExecutionRows
    BY <1>1 DEF Resolved, ExecutionRows
  <2>3. new.jogak = q.jogak /\ new.date = q.day
    OBVIOUS
  <2>4. \A e \in executions \ old : e.jogak # new.jogak \/ e.date # new.date
    BY <2>3
  <2> HIDE DEF new
  <2>5. IsFiniteSet(executions')
    <3>1. IsFiniteSet(executions \ old)
      BY FS_Subset DEF ExecutionsFit
    <3>2. QED BY <1>5, <3>1, FS_AddElement
  <2>6. \A e \in executions' : Lives(e.jogak)' /\ <<e.jogak, e.date>> \in scheduled'
    BY <1>1, <1>3, <1>5, <2>1, <2>3 DEF ExecutionsFit
  <2>7. \A e, f \in executions' : e.jogak = f.jogak /\ e.date = f.date => e = f
    BY <1>5, <2>4 DEF ExecutionsFit
  <2>8. executions' \subseteq ExecutionRows
    BY <1>5, <2>2 DEF ExecutionsFit
  <2>9. QED BY <2>5, <2>6, <2>7, <2>8 DEF ExecutionsFit
<1>6. CASE old = {} /\ Of(q.jogak) # {} /\ executions' = executions \cup {new} /\ End(r)
  <2>1. executions' = (executions \ old) \cup {new}
    BY <1>6
  <2> HIDE DEF new
  <2>2. Evolves({})
    BY <1>1, <1>6 DEF Evolves
  <2>3. QED BY <1>4, <1>5, <1>6, <2>1, <2>2 DEF Evolution
<1>7. CASE old # {} /\ executions' = (executions \ old) \cup {new} /\ TakeBack(r, taken)
  <2>1. \A e \in executions : e.status = "SUCCESS" => e \in executions \ old \/ <<e.jogak, e.date>> \in keys
    OBVIOUS
  <2> HIDE DEF new, old, keys
  <2>2. Evolves(keys)
    BY <1>1, <1>7, <2>1 DEF Evolves
  <2>3. Evolution(keys)
    BY <1>4, <1>5, <1>7, <2>2 DEF Evolution
  <2>4. QED BY <1>7, <2>3 DEF keys, old
<1>8. CASE executions' = executions /\ End(r)
  <2>1. Evolution({})
    BY <1>1, <1>8, StillTables DEF tables
  <2>2. QED BY <1>8, <2>1
<1>9. QED BY <1>2, <1>6, <1>7, <1>8

LEMMA OthersEvolve ==
    ASSUME JogaksFit, ExecutionsFit,
           CreateMogak \/ DeleteOwnedJogak \/ DeleteOwnedMogak \/ NextDay
    PROVE  Evolution({})
<1>1. CASE CreateMogak
  <2>1. PICK g \in MogakIds \ used : mogaks' = mogaks \cup {g} /\ used' = used \cup {g}
    BY <1>1 DEF CreateMogak
  <2>2. today' = today /\ jogaks' = jogaks /\ executions' = executions /\ scheduled' = scheduled
    BY <1>1 DEF CreateMogak
  <2>3. JogaksFit'
    BY <2>1, <2>2 DEF JogaksFit, OccurrencesOf
  <2>4. ExecutionsFit' /\ Evolves({})
    BY <2>1, <2>2 DEF ExecutionsFit, Evolves, Lives
  <2>5. QED BY <2>3, <2>4 DEF Evolution
<1>2. CASE DeleteOwnedJogak
  <2>1. PICK x \in jogaks : DeleteTree({x})
    BY <1>2 DEF DeleteOwnedJogak
  <2>2. today' = today /\ mogaks' = mogaks /\ used' = used
    BY <1>2 DEF DeleteOwnedJogak
  <2>3. \A y \in jogaks \ {x} : y.mogak \in mogaks'
    BY <2>2 DEF JogaksFit
  <2>4. QED BY <2>1, <2>2, <2>3, DeleteEvolves
<1>3. CASE DeleteOwnedMogak
  <2>1. PICK g \in mogaks : mogaks' = mogaks \ {g} /\ DeleteTree({x \in jogaks : x.mogak = g})
    BY <1>3 DEF DeleteOwnedMogak
  <2> DEFINE js == {x \in jogaks : x.mogak = g}
  <2>2. today' = today /\ used' = used
    BY <1>3 DEF DeleteOwnedMogak
  <2>3. \A y \in jogaks \ js : y.mogak \in mogaks'
    BY <2>1 DEF JogaksFit
  <2>4. js \in SUBSET jogaks /\ DeleteTree(js) /\ mogaks' \subseteq mogaks
    BY <2>1
  <2> HIDE DEF js
  <2>5. QED BY <2>2, <2>3, <2>4, DeleteEvolves
<1>4. CASE NextDay
  <2>1. today' = today + 1 /\ today < LastDay /\ UNCHANGED <<tables, req>>
    BY <1>4 DEF NextDay
  <2>2. today' \in Days
    BY <2>1, CalendarAssumption DEF JogaksFit, Days
  <2>3. mogaks' = mogaks /\ jogaks' = jogaks /\ used' = used /\ executions' = executions
        /\ scheduled' = scheduled
    BY <2>1 DEF tables
  <2>4. JogaksFit'
    BY <2>2, <2>3 DEF JogaksFit, OccurrencesOf
  <2>5. ExecutionsFit' /\ Evolves({})
    BY <2>3 DEF ExecutionsFit, Evolves, Lives
  <2>6. QED BY <2>4, <2>5 DEF Evolution
<1>5. QED BY <1>1, <1>2, <1>3, <1>4

-----------------------------------------------------------------------------
(* The requests *)

Successes(j) == Cardinality({e \in executions : e.jogak = j /\ e.status = "SUCCESS"})

Shaped(q) ==
    /\ q.op \in {"none", "view", "list", "detail", "progress", "command"}
    /\ q.pc \in {"idle", "parents", "schedules", "executions", "counts", "commit", "answered"}
    /\ DOMAIN q = DOMAIN Idle

\* What was read is about jogaks that exist or existed, and the successes a
\* view has read last as long as the jogaks, or were taken back since.
Known(q) ==
    /\ q.pc # "answered" => q.answer = {}
    /\ q.executions # {} => q.op = "view" /\ q.pc = "counts"
    /\ \A row \in q.rows : row.jogak \in used
    /\ \A e \in q.executions :
          /\ e.jogak \in used
          /\ e.status = "SUCCESS" /\ Lives(e.jogak) =>
                e \in executions \/ <<e.jogak, e.date>> \in q.undone

\* In a view no count is less than the successes it shows, but for those that
\* were taken back between its reads.
ShownOf(q, j) ==
    {p \in q.answer : p.jogak = j /\ p.status = "SUCCESS" /\ <<p.jogak, p.date>> \notin q.undone}
Shown(q) ==
    q.op = "view" =>
        \A o \in q.answer :
            /\ o.jogak \in used
            /\ Lives(o.jogak) => Cardinality(ShownOf(q, o.jogak)) <= o.achievements

\* A detail is about one jogak, and finds a schedule while it lives.
Detailed(q) ==
    q.op = "detail" =>
        /\ q.jogak \in used
        /\ q.pc = "counts" =>
              /\ \A row \in q.rows : row.jogak = q.jogak
              /\ Lives(q.jogak) => q.rows # {}
        /\ q.pc = "answered" /\ Lives(q.jogak) => q.answer # {}

\* The parents a progress read are still right, for the rows it read later too.
Progressing(q) ==
    q.op = "progress" =>
        /\ q.pc \in {"schedules", "executions"} =>
              \A p \in q.parents :
                  p[1] \in used /\ \A x \in jogaks : x.id = p[1] => x.mogak = p[2]
        /\ q.pc = "executions" =>
              \A p \in q.parents, row \in q.rows : row.jogak = p[1] => row.mogak = p[2]
        /\ \A p \in q.answer : p.done \subseteq p.planned

Fits(q) ==
    Shaped(q) /\ Resolved(q) /\ Known(q) /\ Shown(q) /\ Detailed(q) /\ Progressing(q)

ReqFits ==
    /\ req = [r \in Requests |-> req[r]]
    /\ \A r \in Requests : Fits(req[r])

ViewsInv == JogaksFit /\ ExecutionsFit /\ ReqFits

\* A request that only waits: all it may get is a note of what was undone.
Continues(q, n, undone) ==
    /\ n.op = q.op /\ n.pc = q.pc /\ n.jogak = q.jogak /\ n.day = q.day /\ n.status = q.status
    /\ n.rows = q.rows /\ n.executions = q.executions /\ n.parents = q.parents
    /\ n.answer = q.answer /\ DOMAIN n = DOMAIN q
    /\ q.undone \subseteq n.undone
    /\ q.answer # {} => n.undone = q.undone
    /\ q.op = "view" /\ q.pc = "counts" => undone \subseteq n.undone

LEMMA WaitingContinues ==
    ASSUME NEW q
    PROVE  Continues(q, q, {})
BY DEF Continues

\* What a request has read stays right while the tables evolve.
LEMMA FitsLasts ==
    ASSUME ExecutionsFit, NEW undone, Evolution(undone), NEW r \in Requests, Fits(req[r]),
           Continues(req[r], req'[r], undone)
    PROVE  Fits(req[r])'
<1>1. Evolves(undone)
  BY DEF Evolution
<1>2. used \subseteq used' /\ \A j \in used : Lives(j)' => Lives(j)
  BY <1>1, LivingLived DEF Evolves
<1>3. Shaped(req[r])'
  BY DEF Fits, Shaped, Idle, Continues
<1>4. Resolved(req[r])'
  <2>1. ASSUME req[r].op = "command", Lives(req[r].jogak)'
        PROVE  <<req[r].jogak, req[r].day>> \in scheduled'
    <3>1. <<req[r].jogak, req[r].day>> \in scheduled
      BY <1>2, <2>1 DEF Fits, Resolved, Continues
    <3>2. <<req[r].jogak, req[r].day>>[1] = req[r].jogak /\ req'[r].jogak = req[r].jogak
      BY DEF Continues
    <3>3. QED BY <1>1, <2>1, <3>1, <3>2 DEF Evolves
  <2>2. QED BY <1>2, <2>1 DEF Fits, Resolved, Continues
<1>5. Known(req[r])'
  <2>1. ASSUME NEW e \in req[r].executions, e.status = "SUCCESS", Lives(e.jogak)'
        PROVE  e \in executions' \/ <<e.jogak, e.date>> \in req'[r].undone
    <3>1. /\ e.jogak \in used
          /\ Lives(e.jogak) => e \in executions \/ <<e.jogak, e.date>> \in req[r].undone
      BY <2>1 DEF Fits, Known
    <3>2. e \in executions \/ <<e.jogak, e.date>> \in req[r].undone
      BY <1>2, <2>1, <3>1
    <3>3. e \in executions => e \in executions' \/ <<e.jogak, e.date>> \in undone
      BY <1>1, <2>1 DEF Evolves
    <3>4. undone \subseteq req'[r].undone /\ req[r].undone \subseteq req'[r].undone
      BY DEF Fits, Known, Continues
    <3>5. QED BY <3>2, <3>3, <3>4
  <2>2. QED BY <1>2, <2>1 DEF Fits, Known, Continues
<1>6. Shown(req[r])'
  <2>1. ASSUME NEW o \in req[r].answer, req[r].op = "view"
        PROVE  /\ o.jogak \in used'
               /\ Lives(o.jogak)' => Cardinality(ShownOf(req'[r], o.jogak)) <= o.achievements
    <3>1. ShownOf(req'[r], o.jogak) = ShownOf(req[r], o.jogak)
      BY DEF ShownOf, Continues
    <3>2. /\ o.jogak \in used
          /\ Lives(o.jogak) => Cardinality(ShownOf(req[r], o.jogak)) <= o.achievements
      BY <2>1 DEF Fits, Shown
    <3>3. QED BY <1>2, <3>1, <3>2
  <2>2. QED BY <2>1 DEF Shown, ShownOf, Continues
<1>7. Detailed(req[r])'
  BY <1>2 DEF Fits, Detailed, Continues
<1>8. Progressing(req[r])'
  <2>1. ASSUME req[r].op = "progress", req[r].pc \in {"schedules", "executions"},
               NEW p \in req[r].parents
        PROVE  p[1] \in used' /\ \A x \in jogaks' : x.id = p[1] => x.mogak = p[2]
    <3>1. p[1] \in used /\ \A x \in jogaks : x.id = p[1] => x.mogak = p[2]
      BY <2>1 DEF Fits, Progressing
    <3>2. QED BY <1>1, <3>1 DEF Evolves
  <2>2. QED BY <2>1 DEF Fits, Progressing, Continues
<1>9. QED BY <1>3, <1>4, <1>5, <1>6, <1>7, <1>8 DEF Fits

\* A step of one request that leaves the tables alone.
LEMMA MoveOn ==
    ASSUME ViewsInv, UNCHANGED <<today, tables>>, NEW r \in Requests,
           NEW q, Become(r, q), Fits(q)
    PROVE  ViewsInv'
<1>1. Evolution({})
  BY StillTables DEF ViewsInv
<1>2. /\ today' = today /\ mogaks' = mogaks /\ jogaks' = jogaks /\ used' = used
      /\ executions' = executions /\ scheduled' = scheduled
  BY DEF tables
<1>3. req' = [s \in Requests |-> IF s = r THEN q ELSE req[s]]
  BY DEF Become, ViewsInv, ReqFits
<1>4. ASSUME NEW s \in Requests, s # r PROVE Fits(req[s])'
  <2>1. Fits(req[s]) /\ req'[s] = req[s]
    BY <1>3, <1>4 DEF ViewsInv, ReqFits
  <2>2. Continues(req[s], req'[s], {})
    BY <2>1, WaitingContinues
  <2>3. QED BY <1>1, <2>1, <2>2, FitsLasts DEF ViewsInv
<1>5. Fits(req[r])'
  <2>1. req'[r] = q
    BY <1>3
  <2>2. Shaped(req[r])' /\ Resolved(req[r])' /\ Known(req[r])'
    BY <1>2, <2>1 DEF Fits, Shaped, Resolved, Known, Lives, Idle
  <2>3. Shown(req[r])'
    BY <1>2, <2>1 DEF Fits, Shown, ShownOf, Lives
  <2>4. Detailed(req[r])' /\ Progressing(req[r])'
    BY <1>2, <2>1 DEF Fits, Detailed, Progressing, Lives
  <2>5. QED BY <2>2, <2>3, <2>4 DEF Fits
<1>6. QED BY <1>1, <1>3, <1>4, <1>5 DEF ViewsInv, ReqFits, Evolution

\* A step that leaves the requests alone.
LEMMA RequestsWait ==
    ASSUME ViewsInv, Evolution({}), req' = req
    PROVE  ViewsInv'
<1>1. ASSUME NEW r \in Requests PROVE Fits(req[r])'
  <2>1. Fits(req[r]) /\ req'[r] = req[r]
    BY DEF ViewsInv, ReqFits
  <2>2. Continues(req[r], req'[r], {})
    BY <2>1, WaitingContinues
  <2>3. QED BY <2>1, <2>2, FitsLasts DEF ViewsInv
<1>2. QED BY <1>1 DEF ViewsInv, ReqFits, Evolution

-----------------------------------------------------------------------------
(* The steps of the requests *)

LEMMA IdleFields ==
    /\ Idle.op = "none" /\ Idle.pc = "idle" /\ Shaped(Idle)
    /\ Idle.rows = {} /\ Idle.executions = {} /\ Idle.answer = {} /\ Idle.parents = {}
BY DEF Idle, Shaped

LEMMA IdleFits == Fits(Idle)
BY IdleFields DEF Fits, Resolved, Known, Shown, Detailed, Progressing

\* A request that has only begun holds nothing that could be wrong.
LEMMA BegunFits ==
    ASSUME NEW q, Shaped(q), q.rows = {}, q.executions = {}, q.answer = {},
           q.op \in {"view", "list", "progress"}, q.pc \in {"schedules", "parents"},
           q.pc = "schedules" => q.parents = {}
    PROVE  Fits(q)
BY DEF Fits, Resolved, Known, Shown, Detailed, Progressing

LEMMA BeginningsFit ==
    ASSUME ViewsInv, NEW r \in Requests, FindOwnedMogak(r) \/ ListMogaks(r)
    PROVE  ViewsInv'
<1>1. CASE FindOwnedMogak(r)
  <2>1. UNCHANGED <<today, tables>>
    BY <1>1 DEF FindOwnedMogak
  <2>2. ASSUME NEW v PROVE Fits([Idle EXCEPT !.op = "view", !.pc = "schedules", !.view = v])
    <3> DEFINE q == [Idle EXCEPT !.op = "view", !.pc = "schedules", !.view = v]
    <3>1. /\ Shaped(q) /\ q.rows = {} /\ q.executions = {} /\ q.answer = {} /\ q.parents = {}
          /\ q.op = "view" /\ q.pc = "schedules"
      BY DEF Idle, Shaped
    <3> HIDE DEF q
    <3>2. Fits(q)
      BY <3>1, BegunFits
    <3>3. QED BY <3>2 DEF q
  <2>3. ASSUME NEW g PROVE Fits([Idle EXCEPT !.op = "list", !.pc = "schedules", !.mogaks = {g}])
    <3> DEFINE q == [Idle EXCEPT !.op = "list", !.pc = "schedules", !.mogaks = {g}]
    <3>1. /\ Shaped(q) /\ q.rows = {} /\ q.executions = {} /\ q.answer = {} /\ q.parents = {}
          /\ q.op = "list" /\ q.pc = "schedules"
      BY DEF Idle, Shaped
    <3> HIDE DEF q
    <3>2. Fits(q)
      BY <3>1, BegunFits
    <3>3. QED BY <3>2 DEF q
  <2>4. CASE \E v \in Views :
               Become(r, [Idle EXCEPT !.op = "view", !.pc = "schedules", !.view = v])
    BY <2>1, <2>2, <2>4, MoveOn
  <2>5. CASE \E g \in mogaks :
               Become(r, [Idle EXCEPT !.op = "list", !.pc = "schedules", !.mogaks = {g}])
    BY <2>1, <2>3, <2>5, MoveOn
  <2>6. QED BY <1>1, <2>4, <2>5 DEF FindOwnedMogak
<1>2. CASE ListMogaks(r)
  <2>1. UNCHANGED <<today, tables>>
    BY <1>2 DEF ListMogaks
  <2>2. PICK day \in Days :
           Become(r, [Idle EXCEPT !.op = "progress", !.pc = "parents", !.day = day,
                                  !.mogaks = mogaks])
    BY <1>2 DEF ListMogaks
  <2> DEFINE q == [Idle EXCEPT !.op = "progress", !.pc = "parents", !.day = day, !.mogaks = mogaks]
  <2>3. /\ Shaped(q) /\ q.rows = {} /\ q.executions = {} /\ q.answer = {}
        /\ q.op = "progress" /\ q.pc = "parents"
    BY DEF Idle, Shaped
  <2>4. Become(r, q)
    BY <2>2
  <2> HIDE DEF q
  <2>5. Fits(q)
    BY <2>3, BegunFits
  <2>6. QED BY <2>1, <2>4, <2>5, MoveOn
<1>3. QED BY <1>1, <1>2

\* The rows that are read are those of jogaks that exist.
LEMMA RowsAreOfJogaks ==
    /\ \A start, end : \A row \in ListOccurrenceScheduleRows(start, end) :
          \E x \in jogaks : x.id = row.jogak /\ x.mogak = row.mogak
    /\ \A j : \A row \in ListScheduleRows(j) : row.jogak = j
    /\ \A g : \A row \in ListMogakScheduleRows(g) : \E x \in jogaks : x.id = row.jogak
BY RowFields DEF ListOccurrenceScheduleRows, ListScheduleRows, ListMogakScheduleRows

LEMMA LoadSchedulesFits ==
    ASSUME ViewsInv, NEW r \in Requests, LoadSchedules(r)
    PROVE  ViewsInv'
<1> DEFINE Loaded(v) == [Idle EXCEPT !.op = "view", !.pc = "executions", !.view = v,
                        !.rows = Filtered(ListOccurrenceScheduleRows(v.start, v.end), v)]
<1>1. UNCHANGED <<today, tables>>
  BY DEF LoadSchedules
<1>2. \E v : Become(r, Loaded(v))
  BY DEF LoadSchedules
<1>3. ASSUME NEW v PROVE Fits(Loaded(v))
  <2> DEFINE q == Loaded(v)
             rows == Filtered(ListOccurrenceScheduleRows(v.start, v.end), v)
  <2>1. \A row \in rows : row.jogak \in used
    BY RowsAreOfJogaks DEF Filtered, ViewsInv, JogaksFit
  <2> HIDE DEF rows
  <2>2. q = [Idle EXCEPT !.op = "view", !.pc = "executions", !.view = v, !.rows = rows]
    BY DEF rows
  <2>3. /\ Shaped(q) /\ q.rows = rows /\ q.executions = {} /\ q.answer = {}
        /\ q.op = "view" /\ q.pc = "executions"
    BY <2>2 DEF Idle, Shaped
  <2> HIDE DEF q
  <2>4. Fits(q)
    BY <2>1, <2>3 DEF Fits, Resolved, Known, Shown, Detailed, Progressing
  <2>5. QED BY <2>4 DEF q
<1> HIDE DEF Loaded
<1>4. QED BY <1>1, <1>2, <1>3, MoveOn

LEMMA LoadExecutionsFits ==
    ASSUME ViewsInv, NEW r \in Requests, LoadExecutions(r)
    PROVE  ViewsInv'
<1> DEFINE q == req[r]
           js == {row.jogak : row \in q.rows}
           found == ListExecutions(js, q.view.start, q.view.end)
           n == [q EXCEPT !.pc = "counts", !.executions = found]
<1>1. UNCHANGED <<today, tables>> /\ Become(r, n) /\ q.op = "view" /\ q.pc = "executions"
  BY DEF LoadExecutions
<1>2. Fits(q)
  BY DEF ViewsInv, ReqFits
<1>3. \A e \in found : e \in executions /\ e.jogak \in used
  BY <1>2 DEF ListExecutions, Fits, Known
<1> HIDE DEF found
<1>4. DOMAIN q = DOMAIN Idle
  BY <1>2 DEF Fits, Shaped
<1>5. /\ n.op = "view" /\ n.pc = "counts" /\ n.rows = q.rows /\ n.executions = found
      /\ n.answer = q.answer /\ DOMAIN n = DOMAIN Idle
  BY <1>1, <1>4 DEF Idle
<1> HIDE DEF n
<1>6. Shaped(n)
  BY <1>5 DEF Shaped
<1>7. Known(n) /\ n.answer = {}
  BY <1>1, <1>2, <1>3, <1>5 DEF Fits, Known
<1>8. Shown(n)
  BY <1>7 DEF Shown
<1>9. Fits(n)
  BY <1>5, <1>6, <1>7, <1>8 DEF Fits, Resolved, Detailed, Progressing
<1>10. QED BY <1>1, <1>9, MoveOn

LEMMA CountsAreSuccesses ==
    ASSUME NEW js, NEW j \in js
    PROVE  ListSuccessCounts(js)[j] = Successes(j)
BY DEF ListSuccessCounts, Successes

LEMMA GroupsAreOfRows ==
    ASSUME NEW rows
    PROVE  /\ \A x \in GroupScheduleRows(rows) : \E row \in rows : row.jogak = x.id
           /\ rows # {} => \E x : x \in GroupScheduleRows(rows)
<1> DEFINE group(row) ==
        [id |-> row.jogak, mogak |-> row.mogak,
         schedule |-> [type |-> row.type, from |-> row.from, to |-> row.to,
                       weekdays |-> {q.weekday : q \in {p \in rows : p.jogak = row.jogak}} \ {None}]]
<1>1. GroupScheduleRows(rows) = {group(row) : row \in rows}
  BY DEF GroupScheduleRows
<1>2. \A row \in rows : group(row).id = row.jogak
  OBVIOUS
<1> HIDE DEF group
<1>3. QED BY <1>1, <1>2

\* An occurrence is shown as a success for an execution that is one.
LEMMA SuccessIsFound ==
    ASSUME NEW found, NEW j, NEW day, NEW now,
           DeriveOccurrenceStatus(StatusIn(found, j, day), day, now) = "SUCCESS"
    PROVE  \E e \in found : e.jogak = j /\ e.date = day /\ e.status = "SUCCESS"
<1>1. StatusIn(found, j, day) # None /\ StatusIn(found, j, day) = "SUCCESS"
  BY DEF DeriveOccurrenceStatus
<1>2. \E e \in found : e.jogak = j /\ e.date = day
  BY <1>1 DEF StatusIn
<1>3. QED BY <1>1, <1>2 DEF StatusIn

LEMMA OccurrenceFields ==
    ASSUME NEW rows, NEW found, NEW achievements, NEW v, NEW now,
           NEW o \in ProjectOccurrences(rows, found, achievements, v, now)
    PROVE  /\ \E row \in rows : row.jogak = o.jogak
           /\ o = [jogak |-> o.jogak, date |-> o.date, status |-> o.status,
                   achievements |-> achievements[o.jogak]]
           /\ o.status = "SUCCESS" =>
                 \E e \in found : e.jogak = o.jogak /\ e.date = o.date /\ e.status = "SUCCESS"
<1> DEFINE Occurrence(x, day) ==
            [jogak |-> x.id, date |-> day,
             status |-> DeriveOccurrenceStatus(StatusIn(found, x.id, day), day, now),
             achievements |-> achievements[x.id]]
<1>1. PICK x \in GroupScheduleRows(rows), day \in DatesInclusive(v.start, v.end) :
         o = Occurrence(x, day)
  BY DEF ProjectOccurrences
<1>2. /\ o.jogak = x.id /\ o.date = day /\ o.achievements = achievements[x.id]
      /\ o.status = DeriveOccurrenceStatus(StatusIn(found, x.id, day), day, now)
  BY <1>1
<1>3. o = [jogak |-> o.jogak, date |-> o.date, status |-> o.status,
           achievements |-> o.achievements]
  BY <1>1
<1>4. QED BY <1>2, <1>3, GroupsAreOfRows, SuccessIsFound

LEMMA AnswerViewFits ==
    ASSUME ViewsInv, NEW r \in Requests, AnswerView(r)
    PROVE  ViewsInv'
<1> DEFINE q == req[r]
           achievements == ListSuccessCounts({row.jogak : row \in q.rows})
           answer == ProjectOccurrences(q.rows, q.executions, achievements, q.view, today)
           n == [Idle EXCEPT !.op = "view", !.pc = "answered", !.answer = answer,
                             !.undone = q.undone]
<1>1. UNCHANGED <<today, tables>> /\ Become(r, n)
  BY DEF AnswerView
<1>2. Fits(q)
  BY DEF ViewsInv, ReqFits
<1>3. ASSUME NEW o \in answer
      PROVE  /\ o.jogak \in used /\ o.achievements = Successes(o.jogak)
             /\ o = [jogak |-> o.jogak, date |-> o.date, status |-> o.status,
                     achievements |-> Successes(o.jogak)]
             /\ o.status = "SUCCESS" =>
                   \E e \in q.executions : /\ e.jogak = o.jogak /\ e.date = o.date
                                           /\ e.status = "SUCCESS"
  <2>1. /\ \E row \in q.rows : row.jogak = o.jogak
        /\ o = [jogak |-> o.jogak, date |-> o.date, status |-> o.status,
                achievements |-> achievements[o.jogak]]
        /\ o.status = "SUCCESS" =>
              \E e \in q.executions : e.jogak = o.jogak /\ e.date = o.date /\ e.status = "SUCCESS"
    BY OccurrenceFields
  <2>2. achievements[o.jogak] = Successes(o.jogak)
    BY <2>1, CountsAreSuccesses
  <2>3. o.jogak \in used
    BY <1>2, <2>1 DEF Fits, Known
  <2> HIDE DEF achievements
  <2>4. o.achievements = achievements[o.jogak]
    BY <2>1
  <2>5. QED BY <2>1, <2>2, <2>3, <2>4
<1> HIDE DEF answer
<1>5. n.op = "view" /\ n.pc = "answered" /\ n.rows = {} /\ n.executions = {}
      /\ n.answer = answer /\ n.undone = q.undone /\ Shaped(n)
  BY DEF Idle, Shaped
<1> HIDE DEF n
<1>7. ASSUME NEW o \in answer, Lives(o.jogak)
      PROVE  Cardinality(ShownOf(n, o.jogak)) <= o.achievements
  <2> DEFINE j == o.jogak
             S == {e \in executions : e.jogak = j /\ e.status = "SUCCESS"}
             f == [e \in S |-> [jogak |-> j, date |-> e.date, status |-> "SUCCESS",
                                achievements |-> Successes(j)]]
             Image == {f[e] : e \in S}
  <2>1. ASSUME NEW p \in ShownOf(n, j) PROVE p \in Image
    <3>1. p \in answer /\ p.jogak = j /\ p.status = "SUCCESS" /\ <<p.jogak, p.date>> \notin q.undone
      BY <1>5 DEF ShownOf
    <3>2. PICK e \in q.executions : e.jogak = j /\ e.date = p.date /\ e.status = "SUCCESS"
      BY <1>3, <3>1
    <3>3. e \in S
      BY <1>2, <1>7, <3>1, <3>2 DEF Fits, Known
    <3>4. p = [jogak |-> p.jogak, date |-> p.date, status |-> p.status,
               achievements |-> Successes(p.jogak)]
      BY <1>3, <3>1
    <3>5. p = f[e]
      BY <3>1, <3>2, <3>3, <3>4
    <3>6. QED BY <3>3, <3>5
  <2>2. f \in Surjection(S, Image)
    BY DEF Surjection
  <2>3. IsFiniteSet(S)
    BY FS_Subset DEF ViewsInv, ExecutionsFit
  <2>4. Cardinality(S) = Successes(j)
    BY DEF Successes
  <2> HIDE DEF S, f, Image
  <2>5. IsFiniteSet(Image) /\ Cardinality(Image) <= Cardinality(S)
    BY <2>2, <2>3, FS_Surjection
  <2>6. ShownOf(n, j) \subseteq Image
    BY <2>1
  <2>7. IsFiniteSet(ShownOf(n, j)) /\ Cardinality(ShownOf(n, j)) <= Cardinality(Image)
    BY <2>5, <2>6, FS_Subset
  <2>8. Cardinality(ShownOf(n, j)) \in Nat /\ Cardinality(Image) \in Nat /\ Cardinality(S) \in Nat
    BY <2>3, <2>5, <2>7, FS_CardinalityType
  <2>9. Cardinality(ShownOf(n, j)) <= Successes(j)
    BY <2>4, <2>5, <2>7, <2>8
  <2>10. o.achievements = Successes(j)
    BY <1>3
  <2>11. QED BY <2>9, <2>10
<1>8. Shown(n)
  BY <1>3, <1>5, <1>7 DEF Shown
<1>9. Fits(n)
  BY <1>5, <1>8 DEF Fits, Resolved, Known, Detailed, Progressing
<1>10. QED BY <1>1, <1>9, MoveOn

\* What has rows is shown.
LEMMA ShownSchedules ==
    ASSUME NEW rows, rows # {}, NEW achievements
    PROVE  ShowSchedules(rows, achievements) # {}
<1>1. PICK x : x \in GroupScheduleRows(rows)
  BY GroupsAreOfRows
<1>2. [jogak |-> x.id, schedule |-> x.schedule, achievements |-> achievements[x.id]]
         \in ShowSchedules(rows, achievements)
  BY <1>1 DEF ShowSchedules
<1>3. QED BY <1>2

LEMMA ListFits ==
    ASSUME ViewsInv, NEW r \in Requests, LoadMogakSchedules(r) \/ AnswerList(r)
    PROVE  ViewsInv'
<1>1. CASE LoadMogakSchedules(r)
  <2>1. PICK g \in req[r].mogaks :
           Become(r, [Idle EXCEPT !.op = "list", !.pc = "counts", !.rows = ListMogakScheduleRows(g)])
    BY <1>1 DEF LoadMogakSchedules
  <2> DEFINE rows == ListMogakScheduleRows(g)
             n == [Idle EXCEPT !.op = "list", !.pc = "counts", !.rows = rows]
  <2>2. UNCHANGED <<today, tables>> /\ Become(r, n)
    BY <1>1, <2>1 DEF LoadMogakSchedules
  <2>3. \A row \in rows : row.jogak \in used
    BY RowsAreOfJogaks DEF ViewsInv, JogaksFit
  <2> HIDE DEF rows
  <2>4. n.op = "list" /\ n.pc = "counts" /\ n.rows = rows /\ n.executions = {} /\ n.answer = {}
        /\ Shaped(n)
    BY DEF Idle, Shaped
  <2> HIDE DEF n
  <2>5. Fits(n)
    BY <2>3, <2>4 DEF Fits, Resolved, Known, Shown, Detailed, Progressing
  <2>6. QED BY <2>2, <2>5, MoveOn
<1>2. CASE AnswerList(r)
  <2> DEFINE rows == req[r].rows
             js == {row.jogak : row \in rows}
             answer == ShowSchedules(rows, ListSuccessCounts(js))
             n == [Idle EXCEPT !.op = "list", !.pc = "answered", !.answer = answer]
  <2>1. UNCHANGED <<today, tables>> /\ Become(r, n)
    BY <1>2 DEF AnswerList
  <2> HIDE DEF answer
  <2>5. n.op = "list" /\ n.pc = "answered" /\ n.rows = {} /\ n.executions = {}
        /\ n.answer = answer /\ Shaped(n)
    BY DEF Idle, Shaped
  <2> HIDE DEF n
  <2>6. Fits(n)
    BY <2>5 DEF Fits, Resolved, Known, Shown, Detailed, Progressing
  <2>7. QED BY <2>1, <2>6, MoveOn
<1>3. QED BY <1>1, <1>2

LEMMA DetailFits ==
    ASSUME ViewsInv, NEW r \in Requests, FindOwnedJogak(r) \/ LoadScheduleRows(r) \/ AnswerDetail(r)
    PROVE  ViewsInv'
<1> DEFINE q == req[r]
<1>q. Fits(q)
  BY DEF ViewsInv, ReqFits
<1>1. CASE FindOwnedJogak(r)
  <2>1. PICK x \in jogaks :
           Become(r, [Idle EXCEPT !.op = "detail", !.pc = "schedules", !.jogak = x.id])
    BY <1>1 DEF FindOwnedJogak
  <2> DEFINE n == [Idle EXCEPT !.op = "detail", !.pc = "schedules", !.jogak = x.id]
  <2>2. UNCHANGED <<today, tables>> /\ Become(r, n)
    BY <1>1, <2>1 DEF FindOwnedJogak
  <2>3. n.op = "detail" /\ n.pc = "schedules" /\ n.jogak = x.id /\ n.rows = {}
        /\ n.executions = {} /\ n.answer = {} /\ Shaped(n)
    BY DEF Idle, Shaped
  <2> HIDE DEF n
  <2>4. x.id \in used
    BY DEF ViewsInv, JogaksFit
  <2>5. Fits(n)
    BY <2>3, <2>4 DEF Fits, Resolved, Known, Shown, Detailed, Progressing
  <2>6. QED BY <2>2, <2>5, MoveOn
<1>2. CASE LoadScheduleRows(r)
  <2> DEFINE rows == ListScheduleRows(q.jogak)
             n == [q EXCEPT !.pc = "counts", !.rows = rows]
  <2>1. UNCHANGED <<today, tables>> /\ Become(r, n) /\ q.op = "detail" /\ q.pc = "schedules"
    BY <1>2 DEF LoadScheduleRows
  <2>2. q.jogak \in used
    BY <1>q, <2>1 DEF Fits, Detailed
  <2>3. \A row \in rows : row.jogak = q.jogak
    BY RowsAreOfJogaks
  <2>4. Lives(q.jogak) => rows # {}
    BY SomeRow DEF Lives, ListScheduleRows
  <2> HIDE DEF rows
  <2>5. DOMAIN q = DOMAIN Idle
    BY <1>q DEF Fits, Shaped
  <2>6. n.op = "detail" /\ n.pc = "counts" /\ n.jogak = q.jogak /\ n.rows = rows
        /\ n.executions = q.executions /\ n.answer = q.answer /\ DOMAIN n = DOMAIN Idle
    BY <2>1, <2>5 DEF Idle
  <2> HIDE DEF n
  <2>7. Shaped(n) /\ Known(n) /\ Detailed(n)
    BY <1>q, <2>1, <2>2, <2>3, <2>4, <2>6 DEF Fits, Shaped, Known, Detailed
  <2>9. Fits(n)
    BY <2>6, <2>7 DEF Fits, Resolved, Shown, Progressing
  <2>10. QED BY <2>1, <2>9, MoveOn
<1>3. CASE AnswerDetail(r)
  <2> DEFINE answer == ShowSchedules(q.rows, ListSuccessCounts({q.jogak}))
             n == [Idle EXCEPT !.op = "detail", !.pc = "answered", !.jogak = q.jogak,
                               !.answer = answer]
  <2>1. UNCHANGED <<today, tables>> /\ Become(r, n) /\ q.op = "detail" /\ q.pc = "counts"
    BY <1>3 DEF AnswerDetail
  <2>2. q.jogak \in used /\ (Lives(q.jogak) => q.rows # {})
    BY <1>q, <2>1 DEF Fits, Detailed
  <2>4. q.rows # {} => answer # {}
    BY ShownSchedules
  <2> HIDE DEF answer
  <2>6. n.op = "detail" /\ n.pc = "answered" /\ n.jogak = q.jogak /\ n.rows = {}
        /\ n.executions = {} /\ n.answer = answer /\ Shaped(n)
    BY DEF Idle, Shaped
  <2> HIDE DEF n
  <2>7. Detailed(n)
    BY <2>2, <2>4, <2>6 DEF Detailed
  <2>8. Fits(n)
    BY <2>6, <2>7 DEF Fits, Resolved, Known, Shown, Progressing
  <2>9. QED BY <2>1, <2>8, MoveOn
<1>4. QED BY <1>1, <1>2, <1>3

LEMMA ProgressReadsFit ==
    ASSUME ViewsInv, NEW r \in Requests, ListJogakParents(r) \/ ListWeekSchedules(r)
    PROVE  ViewsInv'
<1> DEFINE q == req[r]
<1>q. Fits(q) /\ DOMAIN q = DOMAIN Idle
  BY DEF ViewsInv, ReqFits, Fits, Shaped
<1>1. CASE ListJogakParents(r)
  <2> DEFINE parents == {<<x.id, x.mogak>> : x \in jogaks}
             n == [q EXCEPT !.pc = "schedules", !.parents = parents]
  <2>1. UNCHANGED <<today, tables>> /\ Become(r, n) /\ q.op = "progress" /\ q.pc = "parents"
    BY <1>1 DEF ListJogakParents
  <2>2. \A p \in parents : p[1] \in used /\ \A x \in jogaks : x.id = p[1] => x.mogak = p[2]
    BY DEF ViewsInv, JogaksFit
  <2> HIDE DEF parents
  <2>3. n.op = "progress" /\ n.pc = "schedules" /\ n.parents = parents /\ n.rows = q.rows
        /\ n.executions = q.executions /\ n.answer = q.answer /\ DOMAIN n = DOMAIN Idle
    BY <1>q, <2>1 DEF Idle
  <2> HIDE DEF n
  <2>4. Shaped(n) /\ Known(n) /\ Progressing(n)
    BY <1>q, <2>1, <2>2, <2>3 DEF Fits, Shaped, Known, Progressing
  <2>5. Fits(n)
    BY <2>3, <2>4 DEF Fits, Resolved, Shown, Detailed
  <2>6. QED BY <2>1, <2>5, MoveOn
<1>2. CASE ListWeekSchedules(r)
  <2>1. PICK start, end :
           Become(r, [q EXCEPT !.pc = "executions", !.rows = ListOccurrenceScheduleRows(start, end)])
    BY <1>2 DEF ListWeekSchedules
  <2> DEFINE rows == ListOccurrenceScheduleRows(start, end)
             n == [q EXCEPT !.pc = "executions", !.rows = rows]
  <2>2. /\ UNCHANGED <<today, tables>> /\ Become(r, n)
        /\ q.op = "progress" /\ q.pc = "schedules"
    BY <1>2, <2>1 DEF ListWeekSchedules
  <2>3. \A row \in rows : \E x \in jogaks : x.id = row.jogak /\ x.mogak = row.mogak
    BY RowsAreOfJogaks
  <2>4. \A row \in rows : row.jogak \in used
    BY <2>3 DEF ViewsInv, JogaksFit
  <2>5. \A p \in q.parents :
           p[1] \in used /\ \A x \in jogaks : x.id = p[1] => x.mogak = p[2]
    BY <1>q, <2>2 DEF Fits, Progressing
  <2>6. \A p \in q.parents, row \in rows : row.jogak = p[1] => row.mogak = p[2]
    BY <2>3, <2>5
  <2> HIDE DEF rows
  <2>7. n.op = "progress" /\ n.pc = "executions" /\ n.parents = q.parents /\ n.rows = rows
        /\ n.executions = q.executions /\ n.answer = q.answer /\ DOMAIN n = DOMAIN Idle
    BY <1>q, <2>2 DEF Idle
  <2> HIDE DEF n
  <2>8. Shaped(n) /\ Known(n)
    BY <1>q, <2>2, <2>4, <2>7 DEF Fits, Shaped, Known
  <2>9. Progressing(n)
    BY <1>q, <2>2, <2>5, <2>6, <2>7 DEF Fits, Progressing
  <2>10. Fits(n)
    BY <2>7, <2>8, <2>9 DEF Fits, Resolved, Shown, Detailed
  <2>11. QED BY <2>2, <2>10, MoveOn
<1>3. QED BY <1>1, <1>2

\* What is done for a mogak is planned for it: what is on a schedule is so for
\* the mogak that the parents say, the rest is added.
LEMMA ProgressAddsUp ==
    ASSUME NEW g, NEW rows, NEW parents, NEW found, NEW days,
           \A p \in parents, row \in rows : row.jogak = p[1] => row.mogak = p[2]
    PROVE  DoneKeys(g, parents, found) \subseteq Planned(g, rows, parents, found, days)
<1> DEFINE own == {row \in rows : row.mogak = g}
<1> SUFFICES ASSUME NEW key \in DoneKeys(g, parents, found),
                    key \in ScheduledKeys(rows, days)
             PROVE  key \in ScheduledKeys(own, days)
  BY DEF Planned, DoneKeys
<1>1. PICK e \in found : <<e.jogak, g>> \in parents /\ key = <<e.jogak, e.date>>
  BY DEF DoneKeys
<1>2. PICK row \in rows : \E day \in {d \in days : RowOccursOn(row, d)} : key = <<row.jogak, day>>
  BY DEF ScheduledKeys
<1>3. row.jogak = e.jogak
  BY <1>1, <1>2
<1>4. <<e.jogak, g>>[1] = e.jogak /\ <<e.jogak, g>>[2] = g
  OBVIOUS
<1>5. row.mogak = g
  BY <1>1, <1>3, <1>4
<1>6. row \in own
  BY <1>5
<1> HIDE DEF own
<1>7. QED BY <1>2, <1>6 DEF ScheduledKeys

LEMMA AnswerProgressFits ==
    ASSUME ViewsInv, NEW r \in Requests, AnswerProgress(r)
    PROVE  ViewsInv'
<1> DEFINE q == req[r]
<1>1. PICK found :
         Become(r, [Idle EXCEPT !.op = "progress", !.pc = "answered",
                    !.answer = Progress(q.mogaks, q.rows, q.parents, found, WeekContaining(q.day))])
  BY DEF AnswerProgress
<1> DEFINE answer == Progress(q.mogaks, q.rows, q.parents, found, WeekContaining(q.day))
           n == [Idle EXCEPT !.op = "progress", !.pc = "answered", !.answer = answer]
<1>2. /\ UNCHANGED <<today, tables>> /\ Become(r, n)
      /\ q.op = "progress" /\ q.pc = "executions"
  BY <1>1 DEF AnswerProgress
<1>3. \A p \in q.parents, row \in q.rows : row.jogak = p[1] => row.mogak = p[2]
  BY <1>2 DEF ViewsInv, ReqFits, Fits, Progressing
<1>4. ASSUME NEW p \in answer PROVE p.done \subseteq p.planned
  <2>1. PICK g : p = [mogak |-> g,
                      planned |-> Planned(g, q.rows, q.parents, found, WeekContaining(q.day)),
                      done |-> DoneKeys(g, q.parents, found)]
    BY DEF Progress
  <2>2. /\ p.planned = Planned(g, q.rows, q.parents, found, WeekContaining(q.day))
        /\ p.done = DoneKeys(g, q.parents, found)
    BY <2>1
  <2>3. DoneKeys(g, q.parents, found)
           \subseteq Planned(g, q.rows, q.parents, found, WeekContaining(q.day))
    BY <1>3, ProgressAddsUp
  <2>4. QED BY <2>2, <2>3
<1> HIDE DEF answer
<1>5. n.op = "progress" /\ n.pc = "answered" /\ n.rows = {} /\ n.executions = {}
      /\ n.answer = answer /\ Shaped(n)
  BY DEF Idle, Shaped
<1> HIDE DEF n
<1>6. Fits(n)
  BY <1>4, <1>5 DEF Fits, Resolved, Known, Shown, Detailed, Progressing
<1>7. QED BY <1>2, <1>6, MoveOn

LEMMA EndingsFit ==
    ASSUME ViewsInv, NEW r \in Requests, EndAnswered(r) \/ Fail(r)
    PROVE  ViewsInv'
<1>1. Become(r, Idle) /\ UNCHANGED <<today, tables>>
  BY DEF EndAnswered, Fail, End
<1>2. QED BY <1>1, IdleFits, MoveOn

\* The occurrence that a command is about is on the schedule when it is found.
LEMMA ResolvedWasScheduled ==
    ASSUME JogaksFit, NEW x \in jogaks, NEW day \in Days,
           NEW y \in GroupScheduleRows({row \in ListOccurrenceScheduleRows(day, day) :
                                              row.jogak = x.id}),
           OccursOn(y.schedule, day)
    PROVE  <<x.id, day>> \in scheduled
<1> DEFINE rows == {row \in ListOccurrenceScheduleRows(day, day) : row.jogak = x.id}
<1>1. ASSUME NEW row \in rows PROVE InRange(x.schedule, day, day)
  <2>1. PICK z \in jogaks : row \in RowsOf(z) /\ InRange(z.schedule, day, day)
    BY DEF ListOccurrenceScheduleRows
  <2>2. z = x
    BY <2>1, RowFields DEF JogaksFit
  <2>3. QED BY <2>1, <2>2
<1>2. \E row \in rows : TRUE
  BY GroupsAreOfRows
<1>3. InRange(x.schedule, day, day)
  BY <1>1, <1>2
<1>4. rows = RowsOf(x)
  <2>1. \A row \in RowsOf(x) : row \in rows
    BY <1>3, RowFields DEF ListOccurrenceScheduleRows
  <2>2. ASSUME NEW row \in rows PROVE row \in RowsOf(x)
    <3>1. PICK z \in jogaks : row \in RowsOf(z)
      BY DEF ListOccurrenceScheduleRows
    <3>2. z = x
      BY <3>1, RowFields DEF JogaksFit
    <3>3. QED BY <3>1, <3>2
  <2>3. QED BY <2>1, <2>2
<1>5. y = x
  <2>1. x \in JogakRows
    BY DEF JogaksFit
  <2>2. QED BY <1>4, <2>1, GroupingIsInverse
<1>6. <<x.id, day>> \in OccurrencesOf(x)
  BY <1>5 DEF OccurrencesOf
<1>7. QED BY <1>6 DEF JogaksFit

LEMMA ResolveFits ==
    ASSUME ViewsInv, NEW r \in Requests, ResolveOccurrence(r)
    PROVE  ViewsInv'
<1>1. PICK x \in jogaks, day \in Days, s \in Statuses :
         /\ \E y \in GroupScheduleRows({row \in ListOccurrenceScheduleRows(day, day) :
                                              row.jogak = x.id}) : OccursOn(y.schedule, day)
         /\ Become(r, [Idle EXCEPT !.op = "command", !.pc = "commit", !.jogak = x.id,
                                !.day = day, !.status = s])
  BY DEF ResolveOccurrence
<1> DEFINE n == [Idle EXCEPT !.op = "command", !.pc = "commit", !.jogak = x.id,
                             !.day = day, !.status = s]
<1>2. UNCHANGED <<today, tables>> /\ Become(r, n)
  BY <1>1 DEF ResolveOccurrence
<1>3. <<x.id, day>> \in scheduled
  BY <1>1, ResolvedWasScheduled DEF ViewsInv
<1>4. x.id \in JogakIds /\ x.id \in used
  BY DEF ViewsInv, JogaksFit, JogakRows
<1>5. n.op = "command" /\ n.pc = "commit" /\ n.jogak = x.id /\ n.day = day /\ n.status = s
      /\ n.rows = {} /\ n.executions = {} /\ n.answer = {} /\ Shaped(n)
  BY DEF Idle, Shaped
<1> HIDE DEF n
<1>6. Fits(n)
  BY <1>3, <1>4, <1>5 DEF Fits, Resolved, Known, Shown, Detailed, Progressing
<1>7. QED BY <1>2, <1>6, MoveOn

LEMMA CommandFits ==
    ASSUME ViewsInv, NEW r \in Requests, Command(r)
    PROVE  ViewsInv'
<1>1. PICK undone, taken :
         /\ Evolution(undone)
         /\ \/ undone = {} /\ End(r)
            \/ undone = {<<e.jogak, e.date>> : e \in taken} /\ TakeBack(r, taken)
  BY CommandEvolves DEF ViewsInv, ReqFits, Fits
<1>2. /\ req' = [s \in Requests |-> req'[s]]
      /\ req'[r] = Idle
      /\ \A s \in Requests \ {r} : Continues(req[s], req'[s], undone)
  <2>1. CASE undone = {} /\ End(r)
    <3>1. req' = [s \in Requests |-> IF s = r THEN Idle ELSE req[s]]
      BY <2>1 DEF End, Become, ViewsInv, ReqFits
    <3>2. QED BY <2>1, <3>1, WaitingContinues
  <2>2. CASE undone = {<<e.jogak, e.date>> : e \in taken} /\ TakeBack(r, taken)
    <3>1. req' = [s \in Requests |->
             IF s = r THEN Idle
             ELSE IF req[s].op = "view" /\ req[s].pc = "counts"
                  THEN [req[s] EXCEPT !.undone = @ \cup undone]
             ELSE req[s]]
      BY <2>2 DEF TakeBack
    <3>2. ASSUME NEW s \in Requests \ {r} PROVE Continues(req[s], req'[s], undone)
      <4>1. Fits(req[s])
        BY DEF ViewsInv, ReqFits
      <4>2. CASE req[s].op = "view" /\ req[s].pc = "counts"
        <5>1. req'[s] = [req[s] EXCEPT !.undone = @ \cup undone]
          BY <3>1, <4>2
        <5>2. DOMAIN req[s] = DOMAIN Idle /\ req[s].answer = {}
          BY <4>1, <4>2 DEF Fits, Shaped, Known
        <5>3. QED BY <5>1, <5>2 DEF Continues, Idle
      <4>3. CASE ~(req[s].op = "view" /\ req[s].pc = "counts")
        <5>1. req'[s] = req[s]
          BY <3>1, <4>3
        <5>2. QED BY <4>3, <5>1 DEF Continues
      <4>4. QED BY <4>2, <4>3
    <3>3. QED BY <3>1, <3>2
  <2>3. QED BY <1>1, <2>1, <2>2
<1>3. ASSUME NEW s \in Requests, s # r PROVE Fits(req[s])'
  <2>1. Fits(req[s]) /\ Continues(req[s], req'[s], undone)
    BY <1>2, <1>3 DEF ViewsInv, ReqFits
  <2>2. QED BY <1>1, <2>1, FitsLasts DEF ViewsInv
<1>4. Fits(req[r])'
  <2>1. req'[r] = Idle
    BY <1>2
  <2>2. Shaped(req[r])'
    BY <2>1, IdleFields DEF Shaped, Idle
  <2>3. QED
    BY <2>1, <2>2, IdleFields DEF Fits, Resolved, Known, Shown, Detailed, Progressing
<1>5. QED BY <1>1, <1>2, <1>3, <1>4 DEF ViewsInv, ReqFits, Evolution

-----------------------------------------------------------------------------
(* The invariant *)

LEMMA InitFits == Init => ViewsInv
<1> SUFFICES ASSUME Init PROVE ViewsInv
  OBVIOUS
<1>1. JogaksFit
  BY CalendarAssumption DEF Init, JogaksFit, Days
<1>2. ExecutionsFit
  BY FS_EmptySet DEF Init, ExecutionsFit
<1>3. ReqFits
  BY IdleFits DEF Init, ReqFits
<1>4. QED BY <1>1, <1>2, <1>3 DEF ViewsInv

LEMMA NextFits == ViewsInv /\ [Next]_vars => ViewsInv'
<1> SUFFICES ASSUME ViewsInv, [Next]_vars PROVE ViewsInv'
  OBVIOUS
<1>1. ASSUME NEW r \in Readers, Read(r) PROVE ViewsInv'
  <2>1. r \in Requests
    BY DEF Requests
  <2>2. QED
    BY <1>1, <2>1, BeginningsFit, LoadSchedulesFits, LoadExecutionsFits, AnswerViewFits, ListFits,
       DetailFits, ProgressReadsFit, AnswerProgressFits, EndingsFit DEF Read
<1>2. ASSUME NEW r \in Writers, Write(r) PROVE ViewsInv'
  <2>1. r \in Requests
    BY DEF Requests
  <2>2. QED BY <1>2, <2>1, ResolveFits, CommandFits DEF Write
<1>3. ASSUME NEW r \in Requests, Fail(r) PROVE ViewsInv'
  BY <1>3, EndingsFit
<1>4. ASSUME \/ CreateMogak \/ CreateJogakWithSchedule \/ UpdateJogak
             \/ DeleteOwnedJogak \/ DeleteOwnedMogak \/ NextDay
      PROVE  ViewsInv'
  <2>1. Evolution({})
    BY <1>4, UpdateEvolves, CreateEvolves, OthersEvolve DEF ViewsInv
  <2>2. req' = req
    BY <1>4 DEF CreateMogak, CreateJogakWithSchedule, UpdateJogak, DeleteOwnedJogak,
                DeleteOwnedMogak, NextDay
  <2>3. QED BY <2>1, <2>2, RequestsWait
<1>5. CASE UNCHANGED vars
  <2>1. UNCHANGED <<today, tables>> /\ req' = req
    BY <1>5 DEF vars
  <2>2. Evolution({})
    BY <2>1, StillTables DEF ViewsInv
  <2>3. QED BY <2>1, <2>2, RequestsWait
<1>6. QED BY <1>1, <1>2, <1>3, <1>4, <1>5 DEF Next, Requests

LEMMA ViewsInvHolds == Spec => []ViewsInv
<1>1. QED BY InitFits, NextFits, PTL DEF Spec

LEMMA InvImplies ==
    ViewsInv => /\ TypeOK /\ ExecutionsWereScheduled /\ SchedulesReadAlike
                /\ DoneWithinPlanned /\ AnswersFitTogether
<1> SUFFICES ASSUME ViewsInv
             PROVE  /\ TypeOK /\ ExecutionsWereScheduled /\ SchedulesReadAlike
                    /\ DoneWithinPlanned /\ AnswersFitTogether
  OBVIOUS
<1>1. TypeOK
  <2>1. \A x \in jogaks : Of(x.id) = {x}
    BY DEF ViewsInv, JogaksFit, Of
  <2>2. \A e \in executions : Of(e.jogak) # {}
    BY LivesIsOf DEF ViewsInv, ExecutionsFit
  <2>3. QED
    BY <2>1, <2>2 DEF ViewsInv, JogaksFit, ExecutionsFit, ReqFits, Fits, Shaped, TypeOK
<1>2. ExecutionsWereScheduled
  BY DEF ViewsInv, ExecutionsFit, ExecutionsWereScheduled
<1>3. DoneWithinPlanned
  <2> SUFFICES ASSUME NEW r \in Requests, req[r].op = "progress", NEW p \in req[r].answer
               PROVE  p.done \subseteq p.planned
    BY DEF DoneWithinPlanned
  <2>1. QED BY DEF ViewsInv, ReqFits, Fits, Progressing
<1>4. AnswersFitTogether
  <2> SUFFICES ASSUME NEW r \in Requests
               PROVE  LET q == req[r] IN
        /\ q.op = "view" =>
              \A o \in q.answer : Of(o.jogak) # {} =>
                  Cardinality({p \in q.answer : /\ p.jogak = o.jogak /\ p.status = "SUCCESS"
                                                /\ <<p.jogak, p.date>> \notin q.undone})
                      <= o.achievements
        /\ q.op = "detail" /\ q.pc = "answered" /\ Of(q.jogak) # {} => q.answer # {}
    BY DEF AnswersFitTogether
  <2>1. Shown(req[r]) /\ Detailed(req[r])
    BY DEF ViewsInv, ReqFits, Fits
  <2>2. QED BY <2>1, LivesIsOf DEF Shown, ShownOf, Detailed
<1>5. QED BY <1>1, <1>2, <1>3, <1>4, ReadingsAgree

\* Jogaks and executions keep their shape, an id is that of one jogak, and a
\* jogak has one execution for a date, and only while it exists.
THEOREM ViewsTypeCorrect == Spec => []TypeOK
<1>1. QED BY ViewsInvHolds, InvImplies, PTL

\* Although an occurrence is looked up before the transaction that writes its
\* execution, no execution is ever on a day that never was on the schedule.
THEOREM ExecutionsHadOccurrences == Spec => []ExecutionsWereScheduled
<1>1. QED BY ViewsInvHolds, InvImplies, PTL

\* The policy on the grouped rows, the progress row by row, the range in SQL and
\* the condition of the capacity read every schedule alike.
THEOREM ReadingsOfSchedulesAgree == Spec => []SchedulesReadAlike
<1>1. QED BY ViewsInvHolds, InvImplies, PTL

\* A progress never shows more done than planned, whatever happens between its
\* four reads.
THEOREM ProgressStaysWithinPlan == Spec => []DoneWithinPlanned
<1>1. QED BY ViewsInvHolds, InvImplies, PTL

\* A view counts every success it shows, but those that a command failed
\* between its reads, and a detail shows the schedule of its jogak: what one
\* answer puts together from several reads fits, unless the jogak was deleted.
THEOREM AnswersStayTogether == Spec => []AnswersFitTogether
<1>1. QED BY ViewsInvHolds, InvImplies, PTL

=============================================================================
