------------------------ MODULE HierarchyCapacityProofs ------------------------
(***************************************************************************)
(* Proofs about HierarchyCapacity, for any number of mogaks, jogaks,       *)
(* requests and days and any limit.  Typed adds to TypeOK that the tables  *)
(* are finite and what a request holds at each step (HoldsOf): the day it  *)
(* arrived on is not ahead of the calendar.  RegularWithinLimit is what is *)
(* inductive about the jogaks of a mogak: those that count and were never  *)
(* revived are within the limit.                                           *)
(***************************************************************************)
EXTENDS HierarchyCapacity, FiniteSetTheorems, TLAPS

\* What a request holds at each of its steps.
HoldsOf(q) ==
    /\ q.today <= today
    /\ q.op = "jogak" => q.mogak \in MogakIds /\ q.schedule \in Schedules
    /\ q.op = "update" => q.jogak \in JogakIds /\ q.schedule \in Schedules

\* Jogaks of m that count today and whose schedule was never over before.
Regular(m) == {x \in Counted(m, today) : x.id \notin revived}

RegularWithinLimit == \A m \in MogakIds : Cardinality(Regular(m)) <= Capacity

Typed == TypeOK /\ IsFiniteSet(jogaks) /\ \A r \in Requests : HoldsOf(req[r])

-----------------------------------------------------------------------------
(* Lemmas about schedules and counts *)

\* A schedule has a first and a last day, both known to the calendar.
LEMMA ScheduleDays ==
    ASSUME NEW s \in Schedules
    PROVE  s.from \in Nat /\ s.to \in Nat
BY CapacityAssumption DEF Schedules, Days, Forever

\* A schedule that is current or future on a day was so on every earlier day.
LEMMA OverStaysOver ==
    ASSUME NEW s \in Schedules, NEW d \in Nat, NEW e \in Nat, d <= e, CurrentOrFuture(s, e)
    PROVE  CurrentOrFuture(s, d)
BY ScheduleDays DEF CurrentOrFuture

\* The jogaks that count are some of the table's, so there are finitely many.
LEMMA CountedIsFinite ==
    ASSUME IsFiniteSet(jogaks), NEW m, NEW d
    PROVE  IsFiniteSet(Counted(m, d)) /\ Cardinality(Counted(m, d)) \in Nat
<1>1. Counted(m, d) \in SUBSET jogaks
  BY DEF Counted
<1>2. QED BY <1>1, FS_Subset, FS_CardinalityType

LEMMA RegularIsFinite ==
    ASSUME IsFiniteSet(jogaks), NEW m
    PROVE  IsFiniteSet(Regular(m)) /\ Cardinality(Regular(m)) \in Nat
<1>1. Regular(m) \in SUBSET jogaks
  BY DEF Regular, Counted
<1>2. QED BY <1>1, FS_Subset, FS_CardinalityType

\* The mogaks of a modarat are finitely many.
LEMMA MogaksAreFinite ==
    ASSUME mogaks \subseteq MogakIds
    PROVE  IsFiniteSet(mogaks) /\ Cardinality(mogaks) \in Nat
<1>1. mogaks \in SUBSET MogakIds /\ IsFiniteSet(MogakIds)
  BY CapacityAssumption
<1>2. QED BY <1>1, FS_Subset, FS_CardinalityType

\* Fewer regular jogaks remain within the limit.
LEMMA FewerRegular ==
    ASSUME RegularWithinLimit, IsFiniteSet(jogaks),
           \A m \in MogakIds : Regular(m)' \subseteq Regular(m)
    PROVE  RegularWithinLimit'
<1> SUFFICES ASSUME NEW m \in MogakIds PROVE Cardinality(Regular(m)') <= Capacity
  BY DEF RegularWithinLimit
<1>1. IsFiniteSet(Regular(m)) /\ Cardinality(Regular(m)) \in Nat
  BY RegularIsFinite
<1>2. Regular(m)' \in SUBSET Regular(m)
  OBVIOUS
<1>3. Cardinality(Regular(m)') <= Cardinality(Regular(m)) /\ IsFiniteSet(Regular(m)')
  BY <1>1, <1>2, FS_Subset
<1>4. Cardinality(Regular(m)') \in Nat
  BY <1>3, FS_CardinalityType
<1>5. QED BY <1>1, <1>3, <1>4, CapacityAssumption DEF RegularWithinLimit

\* One more element makes a set at most one larger.
LEMMA AddOne ==
    ASSUME NEW S, IsFiniteSet(S), NEW x
    PROVE  /\ IsFiniteSet(S \cup {x}) /\ Cardinality(S \cup {x}) \in Nat
           /\ Cardinality(S \cup {x}) <= Cardinality(S) + 1
<1>1. Cardinality(S) \in Nat
  BY FS_CardinalityType
<1>2. /\ IsFiniteSet(S \cup {x})
      /\ Cardinality(S \cup {x}) = IF x \in S THEN Cardinality(S) ELSE Cardinality(S) + 1
  BY FS_AddElement
<1>3. QED BY <1>1, <1>2

-----------------------------------------------------------------------------
(* Types *)

LEMMA IdleHolds == Idle \in RequestStates /\ (today \in Days => HoldsOf(Idle))
BY CapacityAssumption DEF Idle, RequestStates, HoldsOf, Days

\* A step that changes one request keeps the others typed.
LEMMA BecomeTyped ==
    ASSUME Typed, NEW r \in Requests, NEW q \in RequestStates, HoldsOf(q),
           Become(r, q), UNCHANGED today
    PROVE  req' \in [Requests -> RequestStates] /\ \A x \in Requests : HoldsOf(req[x])'
<1>1. req' \in [Requests -> RequestStates]
  BY DEF Typed, TypeOK, Become
<1>2. ASSUME NEW x \in Requests PROVE HoldsOf(req[x])'
  <2>1. HoldsOf(req[x]) /\ (req'[x] = req[x] \/ req'[x] = q)
    BY DEF Typed, TypeOK, Become
  <2>2. QED BY <2>1 DEF HoldsOf
<1>3. QED BY <1>1, <1>2

\* A step that only changes one request.
LEMMA QuietTyped ==
    ASSUME Typed, NEW r \in Requests, NEW q \in RequestStates, HoldsOf(q), Become(r, q),
           UNCHANGED <<today, mogaks, jogaks, used, revived>>
    PROVE  Typed'
BY BecomeTyped DEF Typed, TypeOK

LEMMA EndTyped ==
    ASSUME Typed, NEW r \in Requests, End(r), UNCHANGED today
    PROVE  req' \in [Requests -> RequestStates] /\ \A x \in Requests : HoldsOf(req[x])'
BY IdleHolds, BecomeTyped DEF Typed, TypeOK, End

LEMMA StartTyped ==
    ASSUME Typed, NEW r \in Requests,
           StartCreateMogak(r) \/ StartCreateJogak(r) \/ StartUpdateJogak(r)
    PROVE  Typed'
<1>u. UNCHANGED <<today, mogaks, jogaks, used, revived>>
  BY DEF StartCreateMogak, StartCreateJogak, StartUpdateJogak
<1>t. today \in Days /\ today \in Nat /\ 0 <= today
  BY CapacityAssumption DEF Typed, TypeOK, Days
<1>1. CASE StartCreateMogak(r)
  <2> DEFINE q == [Idle EXCEPT !.op = "mogak", !.pc = "count"]
  <2>1. q \in RequestStates
    BY IdleHolds DEF RequestStates
  <2>2. HoldsOf(q)
    BY <1>t DEF Idle, HoldsOf
  <2>3. QED BY <1>u, <1>1, <2>1, <2>2, QuietTyped DEF StartCreateMogak
<1>2. CASE StartCreateJogak(r)
  <2>1. PICK m \in MogakIds, s \in Schedules :
           Become(r, [Idle EXCEPT !.op = "jogak", !.pc = "find", !.mogak = m,
                                  !.schedule = s, !.today = today])
    BY <1>2 DEF StartCreateJogak
  <2> DEFINE q == [Idle EXCEPT !.op = "jogak", !.pc = "find", !.mogak = m,
                               !.schedule = s, !.today = today]
  <2>2. q \in RequestStates
    BY <1>t, IdleHolds DEF RequestStates
  <2>3. HoldsOf(q)
    BY <1>t DEF Idle, HoldsOf
  <2>4. QED BY <1>u, <2>1, <2>2, <2>3, QuietTyped
<1>3. CASE StartUpdateJogak(r)
  <2>1. PICK j \in JogakIds, s \in Schedules :
           Become(r, [Idle EXCEPT !.op = "update", !.pc = "find", !.jogak = j,
                                  !.schedule = s, !.today = today])
    BY <1>3 DEF StartUpdateJogak
  <2> DEFINE q == [Idle EXCEPT !.op = "update", !.pc = "find", !.jogak = j,
                               !.schedule = s, !.today = today]
  <2>2. q \in RequestStates
    BY <1>t, IdleHolds DEF RequestStates
  <2>3. HoldsOf(q)
    BY <1>t DEF Idle, HoldsOf
  <2>4. QED BY <1>u, <2>1, <2>2, <2>3, QuietTyped
<1>4. QED BY <1>1, <1>2, <1>3

\* The reads before a transaction, and a failure: the request goes on or ends.
LEMMA ReadTyped ==
    ASSUME Typed, NEW r \in Requests,
           \/ CountMogaks(r) \/ FindOwnedMogak(r) \/ CountJogaks(r) \/ ListSchedules(r) \/ Fail(r)
    PROVE  Typed'
<1> DEFINE q == req[r]
<1>q. q \in RequestStates /\ HoldsOf(q) /\ today \in Days
      /\ UNCHANGED <<today, mogaks, jogaks, used, revived>>
  BY DEF Typed, TypeOK, CountMogaks, FindOwnedMogak, CountJogaks, ListSchedules, Fail
<1>1. CASE End(r)
  BY <1>q, <1>1, IdleHolds, QuietTyped DEF End
<1>2. ASSUME NEW pc \in {"count", "commit"}, Become(r, [q EXCEPT !.pc = pc]) PROVE Typed'
  <2>1. [q EXCEPT !.pc = pc] \in RequestStates /\ HoldsOf([q EXCEPT !.pc = pc])
    BY <1>q DEF RequestStates, HoldsOf
  <2>2. QED BY <1>q, <1>2, <2>1, QuietTyped
<1>3. ASSUME NEW s \in Schedules, q.op = "update",
             Become(r, [q EXCEPT !.pc = "commit", !.schedule = s])
      PROVE  Typed'
  <2>1. /\ [q EXCEPT !.pc = "commit", !.schedule = s] \in RequestStates
        /\ HoldsOf([q EXCEPT !.pc = "commit", !.schedule = s])
    BY <1>q, <1>3 DEF RequestStates, HoldsOf
  <2>2. QED BY <1>q, <1>3, <2>1, QuietTyped
<1>4. CASE ListSchedules(r)
  BY <1>1, <1>3, <1>4 DEF ListSchedules
<1>5. QED
  BY <1>1, <1>2, <1>4 DEF CountMogaks, FindOwnedMogak, CountJogaks, Fail

\* The transactions that insert.
LEMMA CreateTyped ==
    ASSUME Typed, NEW r \in Requests, CreateMogak(r) \/ CreateJogakWithSchedule(r)
    PROVE  Typed'
<1>u. UNCHANGED <<today, revived>> /\ End(r)
  BY DEF CreateMogak, CreateJogakWithSchedule
<1>1. req' \in [Requests -> RequestStates] /\ \A x \in Requests : HoldsOf(req[x])'
  BY <1>u, EndTyped
<1>2. CASE CreateMogak(r)
  BY <1>u, <1>1, <1>2 DEF CreateMogak, Typed, TypeOK
<1>3. CASE CreateJogakWithSchedule(r)
  <2>1. CASE UNCHANGED <<jogaks, used>>
    BY <1>u, <1>1, <1>3, <2>1 DEF CreateJogakWithSchedule, Typed, TypeOK
  <2>2. CASE ~UNCHANGED <<jogaks, used>>
    <3>1. PICK j \in JogakIds :
             /\ jogaks' = jogaks \cup
                   {[id |-> j, mogak |-> req[r].mogak, schedule |-> req[r].schedule]}
             /\ used' = used \cup {j} /\ req[r].mogak \in mogaks /\ UNCHANGED mogaks
      BY <1>3, <2>2 DEF CreateJogakWithSchedule
    <3>2. req[r].mogak \in MogakIds /\ req[r].schedule \in Schedules
      BY <1>3 DEF CreateJogakWithSchedule, Typed, HoldsOf
    <3>3. IsFiniteSet(jogaks')
      BY <3>1, FS_AddElement DEF Typed
    <3>4. jogaks' \subseteq JogakRows /\ \A x \in jogaks' : x.mogak \in mogaks'
      BY <3>1, <3>2 DEF Typed, TypeOK, JogakRows
    <3>5. QED BY <1>u, <1>1, <3>1, <3>3, <3>4 DEF Typed, TypeOK
  <2>3. QED BY <2>1, <2>2
<1>4. QED BY <1>2, <1>3

LEMMA DeleteTyped ==
    ASSUME Typed, DeleteOwnedMogak \/ DeleteOwnedJogak
    PROVE  Typed'
<1>1. jogaks' \in SUBSET jogaks
  BY DEF DeleteOwnedMogak, DeleteOwnedJogak
<1>2. IsFiniteSet(jogaks')
  BY <1>1, FS_Subset DEF Typed
<1>3. UNCHANGED <<today, used, req, revived>>
  BY DEF DeleteOwnedMogak, DeleteOwnedJogak
<1>4. mogaks' \subseteq MogakIds /\ \A x \in jogaks' : x.mogak \in mogaks'
  BY DEF DeleteOwnedMogak, DeleteOwnedJogak, Typed, TypeOK
<1>5. QED BY <1>1, <1>2, <1>3, <1>4 DEF Typed, TypeOK, HoldsOf

\* Patching one row maps the table onto the new one.
LEMMA PatchTyped ==
    ASSUME Typed, NEW r \in Requests, PatchOwnedJogak(r)
    PROVE  Typed'
<1> DEFINE q == req[r]
           patched == [x \in jogaks |-> IF x.id = q.jogak THEN [x EXCEPT !.schedule = q.schedule]
                                        ELSE x]
<1>1. q.jogak \in JogakIds /\ q.schedule \in Schedules
  BY DEF PatchOwnedJogak, Typed, HoldsOf
<1>2. jogaks' = {patched[x] : x \in jogaks}
  BY DEF PatchOwnedJogak
<1>3. patched \in Surjection(jogaks, jogaks')
  BY <1>2 DEF Surjection
<1>4. IsFiniteSet(jogaks')
  BY <1>3, FS_Surjection DEF Typed
<1>5. \A x \in jogaks : patched[x] \in JogakRows /\ patched[x].mogak = x.mogak
  BY <1>1 DEF Typed, TypeOK, JogakRows
<1>6. jogaks' \subseteq JogakRows /\ \A x \in jogaks' : x.mogak \in mogaks
  <2>1. ASSUME NEW y \in jogaks' PROVE y \in JogakRows /\ y.mogak \in mogaks
    <3>1. PICK x \in jogaks : y = patched[x]
      BY <1>2
    <3>2. x.mogak \in mogaks
      BY DEF Typed, TypeOK
    <3>3. QED BY <1>5, <3>1, <3>2
  <2>2. QED BY <2>1
<1>7. revived' \subseteq JogakIds
  BY DEF PatchOwnedJogak, Of, Typed, TypeOK, JogakRows
<1>8. QED BY <1>4, <1>6, <1>7, EndTyped DEF PatchOwnedJogak, Typed, TypeOK

LEMMA NextTyped == Typed /\ [Next]_vars => Typed'
<1> SUFFICES ASSUME Typed, [Next]_vars PROVE Typed'
  OBVIOUS
<1>1. ASSUME NEW r \in Requests, Step(r) PROVE Typed'
  BY <1>1, StartTyped, ReadTyped, CreateTyped, PatchTyped DEF Step
<1>2. CASE NextDay
  <2>1. today' \in Days /\ today <= today' /\ today \in Nat
    BY <1>2, CapacityAssumption DEF NextDay, Typed, TypeOK, Days
  <2>2. ASSUME NEW r \in Requests PROVE HoldsOf(req[r])'
    <3>1. HoldsOf(req[r]) /\ req'[r] = req[r] /\ req[r].today \in Nat
      BY <1>2 DEF NextDay, Typed, TypeOK, RequestStates, Days
    <3>2. QED BY <1>2, <2>1, <3>1 DEF HoldsOf, NextDay
  <2>3. QED BY <1>2, <2>1, <2>2 DEF NextDay, Typed, TypeOK
<1>3. CASE UNCHANGED vars
  BY <1>3 DEF vars, Typed, TypeOK, HoldsOf
<1>4. QED BY <1>1, <1>2, <1>3, DeleteTyped DEF Next

LEMMA InitTyped == Init => Typed
<1> SUFFICES ASSUME Init PROVE Typed
  OBVIOUS
<1>1. IsFiniteSet(jogaks)
  BY FS_EmptySet DEF Init
<1>2. QED
  BY <1>1, IdleHolds, CapacityAssumption DEF Init, Typed, TypeOK, Days

\* Every reachable state is well typed.
THEOREM CapacityTypeCorrect == Spec => []TypeOK
<1>1. Typed => TypeOK
  BY DEF Typed
<1>2. QED BY <1>1, InitTyped, NextTyped, PTL DEF Spec

-----------------------------------------------------------------------------
(* Mogaks *)

\* However many creations counted before the others inserted, a modarat never
\* has more mogaks than its limit: the transaction counts again.
THEOREM MogaksStayWithinLimit == Spec => []MogaksWithinLimit
<1>1. Init => MogaksWithinLimit
  BY FS_EmptySet, CapacityAssumption DEF Init, MogaksWithinLimit
<1>2. Typed /\ MogaksWithinLimit /\ [Next]_vars => MogaksWithinLimit'
  <2> SUFFICES ASSUME Typed, MogaksWithinLimit, [Next]_vars PROVE MogaksWithinLimit'
    OBVIOUS
  <2>f. IsFiniteSet(mogaks) /\ Cardinality(mogaks) \in Nat
    BY MogaksAreFinite DEF Typed, TypeOK
  <2>1. ASSUME NEW r \in Requests, CreateMogak(r) PROVE MogaksWithinLimit'
    <3>1. CASE Cardinality(mogaks) < Capacity
      <4>1. PICK m : mogaks' = mogaks \cup {m}
        BY <2>1, <3>1 DEF CreateMogak
      <4>2. Cardinality(mogaks') \in Nat /\ Cardinality(mogaks') <= Cardinality(mogaks) + 1
        BY <2>f, <4>1, AddOne
      <4>3. QED BY <2>f, <3>1, <4>2, CapacityAssumption DEF MogaksWithinLimit
    <3>2. CASE ~(Cardinality(mogaks) < Capacity)
      BY <2>1, <3>2 DEF CreateMogak, MogaksWithinLimit
    <3>3. QED BY <3>1, <3>2
  <2>2. CASE mogaks' \subseteq mogaks
    <3>1. mogaks' \in SUBSET mogaks
      BY <2>2
    <3>2. Cardinality(mogaks') <= Cardinality(mogaks) /\ IsFiniteSet(mogaks')
      BY <2>f, <3>1, FS_Subset
    <3>3. Cardinality(mogaks') \in Nat
      BY <3>2, FS_CardinalityType
    <3>4. QED BY <2>f, <3>2, <3>3, CapacityAssumption DEF MogaksWithinLimit
  <2>3. ASSUME NEW r \in Requests, Step(r), ~CreateMogak(r) PROVE mogaks' \subseteq mogaks
    BY <2>3 DEF Step, StartCreateMogak, CountMogaks, StartCreateJogak, FindOwnedMogak, CountJogaks,
       CreateJogakWithSchedule, StartUpdateJogak, ListSchedules, PatchOwnedJogak, Fail
  <2>4. CASE DeleteOwnedMogak \/ DeleteOwnedJogak \/ NextDay \/ UNCHANGED vars
    BY <2>2, <2>4 DEF DeleteOwnedMogak, DeleteOwnedJogak, NextDay, vars
  <2>5. QED BY <2>1, <2>2, <2>3, <2>4 DEF Next
<1>3. QED BY <1>1, <1>2, InitTyped, NextTyped, PTL DEF Spec

-----------------------------------------------------------------------------
(* Jogaks *)

\* An insertion counted the jogaks of its mogak under the lock; the day it
\* counted for is not ahead of the calendar, so it counted all that count today.
LEMMA CreateJogakRegular ==
    ASSUME Typed, RegularWithinLimit, NEW r \in Requests, CreateJogakWithSchedule(r)
    PROVE  RegularWithinLimit'
<1> DEFINE q == req[r]
           row(j) == [id |-> j, mogak |-> q.mogak, schedule |-> q.schedule]
<1>1. CASE UNCHANGED jogaks
  <2>1. \A m \in MogakIds : Regular(m)' \subseteq Regular(m)
    BY <1>1 DEF CreateJogakWithSchedule, Regular, Counted
  <2>2. QED BY <2>1, FewerRegular DEF Typed
<1>2. CASE ~UNCHANGED jogaks
  <2>1. PICK j \in JogakIds : jogaks' = jogaks \cup {row(j)}
    BY <1>2 DEF CreateJogakWithSchedule
  <2>2. Cardinality(Counted(q.mogak, q.today)) < Capacity /\ UNCHANGED <<today, revived>>
    BY <1>2 DEF CreateJogakWithSchedule
  <2>3. q.today <= today /\ q.today \in Nat /\ today \in Nat
    BY DEF Typed, TypeOK, RequestStates, HoldsOf, Days
  <2> SUFFICES ASSUME NEW m \in MogakIds PROVE Cardinality(Regular(m)') <= Capacity
    BY DEF RegularWithinLimit
  <2>4. CASE m = q.mogak
    <3> DEFINE C == Counted(m, q.today)
    <3>1. IsFiniteSet(C) /\ Cardinality(C) \in Nat
      BY CountedIsFinite DEF Typed
    <3>2. IsFiniteSet(C \cup {row(j)}) /\ Cardinality(C \cup {row(j)}) <= Cardinality(C) + 1
      BY <3>1, AddOne
    <3>3. Regular(m)' \in SUBSET (C \cup {row(j)})
      BY <2>1, <2>2, <2>3, OverStaysOver DEF Regular, Counted, Typed, TypeOK, JogakRows
    <3>4. Cardinality(Regular(m)') <= Cardinality(C \cup {row(j)}) /\ IsFiniteSet(Regular(m)')
      BY <3>2, <3>3, FS_Subset
    <3>5. Cardinality(Regular(m)') \in Nat /\ Cardinality(C \cup {row(j)}) \in Nat
      BY <3>2, <3>4, FS_CardinalityType
    <3>6. QED BY <2>2, <2>4, <3>1, <3>2, <3>4, <3>5, CapacityAssumption
  <2>5. CASE m # q.mogak
    <3>1. Regular(m)' = Regular(m)
      BY <2>1, <2>2, <2>5 DEF Regular, Counted
    <3>2. QED BY <3>1 DEF RegularWithinLimit
  <2>6. QED BY <2>4, <2>5
<1>3. QED BY <1>1, <1>2

\* A patch makes no regular jogak out of one that did not count: one that was
\* over is revived by it.
LEMMA PatchRegular ==
    ASSUME Typed, RegularWithinLimit, NEW r \in Requests, PatchOwnedJogak(r)
    PROVE  RegularWithinLimit'
<1> SUFFICES ASSUME NEW m \in MogakIds PROVE Cardinality(Regular(m)') <= Capacity
  BY DEF RegularWithinLimit
<1> DEFINE q == req[r]
           patch(x) == IF x.id = q.jogak THEN [x EXCEPT !.schedule = q.schedule] ELSE x
           patched == [x \in Regular(m) |-> patch(x)]
           Image == {patched[x] : x \in Regular(m)}
<1>1. jogaks' = {patch(x) : x \in jogaks} /\ UNCHANGED today
  BY DEF PatchOwnedJogak
<1>2. revived \subseteq revived'
  BY DEF PatchOwnedJogak
<1>3. \A x \in jogaks : /\ patch(x).id = x.id /\ patch(x).mogak = x.mogak
                        /\ x.id = q.jogak => patch(x).schedule = q.schedule
  BY DEF Typed, TypeOK, JogakRows
<1>4. ASSUME NEW x \in jogaks, patch(x) \in Regular(m)' PROVE x \in Regular(m)
  <2>1. /\ x.mogak = m /\ x.id \notin revived'
        /\ CurrentOrFuture(patch(x).schedule, today)
    BY <1>1, <1>3, <1>4 DEF Regular, Counted
  <2>2. CASE x.id = q.jogak
    <3>1. CurrentOrFuture(q.schedule, today)
      BY <1>3, <2>1, <2>2
    <3>2. CurrentOrFuture(x.schedule, today)
      BY <2>1, <2>2, <3>1 DEF PatchOwnedJogak, Of
    <3>3. QED BY <1>2, <2>1, <3>2 DEF Regular, Counted
  <2>3. CASE x.id # q.jogak
    BY <1>2, <2>1, <2>3 DEF Regular, Counted
  <2>4. QED BY <2>2, <2>3
<1>5. Regular(m)' \in SUBSET Image
  <2>1. \A y \in Regular(m)' : \E x \in jogaks : y = patch(x)
    BY <1>1 DEF Regular, Counted
  <2>2. QED BY <1>4, <2>1
<1>6. IsFiniteSet(Regular(m)) /\ Cardinality(Regular(m)) \in Nat
  BY RegularIsFinite DEF Typed
<1>7. patched \in Surjection(Regular(m), Image)
  BY DEF Surjection
<1>8. IsFiniteSet(Image) /\ Cardinality(Image) <= Cardinality(Regular(m))
  BY <1>6, <1>7, FS_Surjection
<1>9. IsFiniteSet(Regular(m)') /\ Cardinality(Regular(m)') <= Cardinality(Image)
  BY <1>5, <1>8, FS_Subset
<1>10. Cardinality(Regular(m)') \in Nat /\ Cardinality(Image) \in Nat
  BY <1>8, <1>9, FS_CardinalityType
<1>11. QED BY <1>6, <1>8, <1>9, <1>10, CapacityAssumption DEF RegularWithinLimit

LEMMA NextRegular == Typed /\ RegularWithinLimit /\ [Next]_vars => RegularWithinLimit'
<1> SUFFICES ASSUME Typed, RegularWithinLimit, [Next]_vars PROVE RegularWithinLimit'
  OBVIOUS
<1>1. CASE \A m \in MogakIds : Regular(m)' \subseteq Regular(m)
  BY <1>1, FewerRegular DEF Typed
<1>2. ASSUME NEW r \in Requests, Step(r), ~CreateJogakWithSchedule(r), ~PatchOwnedJogak(r)
      PROVE  \A m \in MogakIds : Regular(m)' \subseteq Regular(m)
  <2>1. UNCHANGED <<today, jogaks, revived>>
    BY <1>2 DEF Step, StartCreateMogak, CountMogaks, CreateMogak, StartCreateJogak, FindOwnedMogak,
       CountJogaks, StartUpdateJogak, ListSchedules, Fail
  <2>2. QED BY <2>1 DEF Regular, Counted
<1>3. CASE DeleteOwnedMogak \/ DeleteOwnedJogak \/ UNCHANGED vars
  <2>1. jogaks' \subseteq jogaks /\ UNCHANGED <<today, revived>>
    BY <1>3 DEF DeleteOwnedMogak, DeleteOwnedJogak, vars
  <2>2. QED BY <1>1, <2>1 DEF Regular, Counted
<1>4. CASE NextDay
  <2>1. today <= today' /\ today \in Nat /\ today' \in Nat /\ UNCHANGED <<jogaks, revived>>
    BY <1>4 DEF NextDay, Typed, TypeOK, Days
  <2>2. \A x \in jogaks : CurrentOrFuture(x.schedule, today') => CurrentOrFuture(x.schedule, today)
    BY <2>1, OverStaysOver DEF Typed, TypeOK, JogakRows
  <2>3. QED BY <1>1, <2>1, <2>2 DEF Regular, Counted
<1>5. QED BY <1>1, <1>2, <1>3, <1>4, CreateJogakRegular, PatchRegular DEF Next

\* Only jogaks that a late change of schedule brought back exceed the limit of
\* a mogak: neither racing creations nor midnight do.
THEOREM OnlyRevivedExceed == Spec => []ExcessIsRevived
<1>1. Init => RegularWithinLimit
  <2> SUFFICES ASSUME Init, NEW m \in MogakIds PROVE Cardinality(Regular(m)) <= Capacity
    BY DEF RegularWithinLimit
  <2>1. Regular(m) = {}
    BY DEF Init, Regular, Counted
  <2>2. QED BY <2>1, FS_EmptySet, CapacityAssumption
<1>2. Typed /\ RegularWithinLimit => ExcessIsRevived
  <2> SUFFICES ASSUME Typed, RegularWithinLimit, NEW m \in mogaks
               PROVE  Cardinality(Counted(m, today)) <=
                         Capacity + Cardinality({x \in Counted(m, today) : x.id \in revived})
    BY DEF ExcessIsRevived
  <2> DEFINE C == Counted(m, today)
             R == {x \in C : x.id \in revived}
  <2>1. IsFiniteSet(C) /\ Cardinality(C) \in Nat
    BY CountedIsFinite DEF Typed
  <2>2. Regular(m) = C \ R /\ C \cap R = R
    BY DEF Regular
  <2>3. Cardinality(Regular(m)) = Cardinality(C) - Cardinality(R)
    BY <2>1, <2>2, FS_Difference
  <2>4. R \in SUBSET C
    OBVIOUS
  <2>5. IsFiniteSet(R)
    BY <2>1, <2>4, FS_Subset
  <2>6. Cardinality(R) \in Nat
    BY <2>5, FS_CardinalityType
  <2>7. Cardinality(Regular(m)) <= Capacity
    BY DEF Typed, TypeOK, RegularWithinLimit
  <2>8. QED BY <2>1, <2>3, <2>6, <2>7, CapacityAssumption
<1>3. QED BY <1>1, <1>2, InitTyped, NextTyped, NextRegular, PTL DEF Spec
=============================================================================
