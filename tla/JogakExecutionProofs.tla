------------------------- MODULE JogakExecutionProofs -------------------------
(***************************************************************************)
(* JogakExecution implements ExecutionRegister, for any jogaks, dates and  *)
(* number of requests.  The proof needs two facts about a request between  *)
(* two awaits: once its INSERT was ignored, an execution is missing only   *)
(* because its jogak is (Started), and the status its UPDATE expects is    *)
(* one the transition rules let it leave (Expecting).  That a conflict     *)
(* takes three writes needs a third, which keeps account of the writes     *)
(* behind every UPDATE that was lost (Counted).                            *)
(***************************************************************************)
EXTENDS JogakExecution, TLAPS

Started(q) ==
    q.pc \in {"find", "update"} =>
        /\ q.op = "command"
        /\ q.occ[1] \in jogaks => execution[q.occ] # "none"

Expecting(q) ==
    q.pc = "update" =>
        /\ q.existing \in Statuses \ {q.desired} /\ q.desired # "IN_PROGRESS"
        /\ q.lost \in 0 .. 1

IInv == TypeOK /\ \A r \in Requests : Started(req[r]) /\ Expecting(req[r])

-----------------------------------------------------------------------------
(* The invariant *)

LEMMA OccurrenceParts == \A o \in Occurrences : o[1] \in Jogaks /\ o[2] \in Dates
BY DEF Occurrences

LEMMA IdleFields == Idle.pc = "idle" /\ Idle.op = "none" /\ Idle \notin Serving
BY DEF Idle, Serving

\* A request that is past "idle" is in service.
LEMMA InService ==
    ASSUME TypeOK, NEW r \in Requests, req[r].pc # "idle"
    PROVE  req[r] \in Serving
BY IdleFields DEF TypeOK

LEMMA WriteType ==
    ASSUME TypeOK, NEW r \in Requests, NEW o \in Occurrences, NEW s \in Statuses, Write(r, o, s)
    PROVE  /\ execution' \in [Occurrences -> Statuses \cup {"none"}]
           /\ execution' = [execution EXCEPT ![o] = s]
           /\ writes' \in [Requests -> 0 .. EnoughWrites]
BY DEF TypeOK, Write, EnoughWrites, Statuses

\* A step of one request keeps the invariant when no execution or jogak is lost
\* and what the step leaves of the request satisfies it.
LEMMA OneRequest ==
    ASSUME IInv, NEW r \in Requests, NEW q \in Serving \cup {Idle},
           req' = [req EXCEPT ![r] = q],
           jogaks' = jogaks, occurs' = occurs, posts' \subseteq Occurrences,
           execution' \in [Occurrences -> Statuses \cup {"none"}],
           \A o \in Occurrences :
              /\ execution[o] # "none" => execution'[o] # "none"
              /\ o[1] \notin jogaks => execution'[o] = "none",
           writes' \in [Requests -> 0 .. EnoughWrites],
           Started(q)', Expecting(q)
    PROVE  IInv'
<1>1. TypeOK'
  BY DEF IInv, TypeOK
<1>2. ASSUME NEW s \in Requests
      PROVE  Started(req[s])' /\ Expecting(req[s])'
  <2>1. CASE s = r
    <3>1. req'[s] = q
      BY <2>1 DEF IInv, TypeOK
    <3>2. QED BY <3>1 DEF Started, Expecting
  <2>2. CASE s # r
    <3>1. req'[s] = req[s] /\ Started(req[s]) /\ Expecting(req[s])
      BY <2>2 DEF IInv, TypeOK
    <3>2. Expecting(req[s])'
      BY <3>1 DEF Expecting
    <3>3. ASSUME req[s].pc \in {"find", "update"}
          PROVE  req[s].occ \in Occurrences
      BY <3>3, InService DEF IInv, Serving
    <3>4. Started(req[s])'
      BY <3>1, <3>3 DEF Started
    <3>5. QED BY <3>2, <3>4
  <2>3. QED BY <2>1, <2>2
<1>3. QED BY <1>1, <1>2 DEF IInv

\* The same for a step that only moves the request on.
LEMMA MoveOn ==
    ASSUME IInv, NEW r \in Requests, NEW q \in Serving \cup {Idle}, Become(r, q),
           UNCHANGED <<jogaks, occurs, execution, posts>>,
           writes' \in [Requests -> 0 .. EnoughWrites],
           Started(q), Expecting(q)
    PROVE  IInv'
<1>1. Started(q)'
  BY DEF Started
<1>2. QED BY <1>1, OneRequest DEF Become, IInv, TypeOK

\* What an answered request looks like.
Answered(q, v) ==
    [q EXCEPT !.pc = "done", !.existing = "none", !.lost = 0, !.outcome = v]

LEMMA AnsweredFields ==
    ASSUME NEW q \in Serving, NEW v \in Outcomes
    PROVE  /\ Answered(q, v) \in Serving
           /\ Answered(q, v).pc = "done"
           /\ Answered(q, v).op = q.op
           /\ Answered(q, v).occ = q.occ
           /\ Answered(q, v).desired = q.desired
           /\ Answered(q, v).outcome = v
<1> DEFINE f == [q EXCEPT !.pc = "done", !.existing = "none", !.outcome = v]
<1>1. f \in Serving
  BY DEF Serving
<1>2. f.pc = "done" /\ f.op = q.op /\ f.occ = q.occ /\ f.desired = q.desired /\ f.outcome = v
  BY DEF Serving
<1>3. Answered(q, v) = [f EXCEPT !.lost = 0]
  BY DEF Answered
<1> HIDE DEF f
<1>4. QED BY <1>1, <1>2, <1>3 DEF Serving

LEMMA FinishLeaves ==
    ASSUME NEW r \in Requests, req[r] \in Serving, NEW v \in Outcomes, Finish(r, v)
    PROVE  \E f \in Serving :
              /\ Become(r, f) /\ f.pc = "done" /\ f.op = req[r].op /\ f.occ = req[r].occ
              /\ f.desired = req[r].desired /\ f.outcome = v
<1> DEFINE f == Answered(req[r], v)
<1>1. Become(r, f)
  BY DEF Finish, Answered
<1>2. /\ f \in Serving /\ f.pc = "done" /\ f.op = req[r].op /\ f.occ = req[r].occ
      /\ f.desired = req[r].desired /\ f.outcome = v
  BY AnsweredFields
<1> HIDE DEF f
<1>3. QED BY <1>1, <1>2

\* A request that is answered without a write.
LEMMA FinishMovesOn ==
    ASSUME IInv, NEW r \in Requests, req[r].pc # "idle", NEW v \in Outcomes, Finish(r, v),
           UNCHANGED <<jogaks, occurs, execution, posts, writes>>
    PROVE  IInv'
<1>1. req[r] \in Serving
  BY InService DEF IInv
<1>2. PICK f \in Serving : Become(r, f) /\ f.pc = "done"
  BY <1>1, FinishLeaves
<1>3. Started(f) /\ Expecting(f) /\ writes' \in [Requests -> 0 .. EnoughWrites]
  BY <1>2 DEF Started, Expecting, IInv, TypeOK
<1>4. QED BY <1>2, <1>3, MoveOn

\* A request that is answered after it wrote the status of its occurrence.
LEMMA FinishWrites ==
    ASSUME IInv, NEW r \in Requests, req[r].pc # "idle", NEW v \in Outcomes, Finish(r, v),
           NEW s \in Statuses, Write(r, req[r].occ, s), req[r].occ[1] \in jogaks,
           UNCHANGED <<jogaks, occurs>>, posts' \subseteq Occurrences
    PROVE  IInv'
<1>1. req[r] \in Serving
  BY InService DEF IInv
<1>2. PICK o \in Occurrences : o = req[r].occ
  BY <1>1 DEF Serving
<1>3. PICK f \in Serving : Become(r, f) /\ f.pc = "done"
  BY <1>1, FinishLeaves
<1>4. Started(f)' /\ Expecting(f)
  BY <1>3 DEF Started, Expecting
<1>5. Write(r, o, s) /\ TypeOK /\ o[1] \in jogaks
  BY <1>2 DEF IInv
<1>6. /\ execution' \in [Occurrences -> Statuses \cup {"none"}]
      /\ execution' = [execution EXCEPT ![o] = s]
      /\ writes' \in [Requests -> 0 .. EnoughWrites]
  BY <1>5, WriteType
<1>7. ASSUME NEW x \in Occurrences
      PROVE  /\ execution[x] # "none" => execution'[x] # "none"
             /\ x[1] \notin jogaks => execution'[x] = "none"
  BY <1>5, <1>6 DEF TypeOK, Statuses
<1>8. QED BY <1>3, <1>4, <1>6, <1>7, OneRequest DEF Become

LEMMA InitIInv == Init => IInv
<1> SUFFICES ASSUME Init PROVE IInv
  OBVIOUS
<1>1. TypeOK
  BY SchedulesAssumption DEF Init, TypeOK, EnoughWrites
<1>2. \A r \in Requests : req[r] = Idle
  BY DEF Init
<1>3. QED BY <1>1, <1>2, IdleFields DEF IInv, Started, Expecting

LEMMA StartIInv ==
    ASSUME IInv, NEW r \in Requests, Start(r)
    PROVE  IInv'
<1>1. PICK op \in {"command", "post"}, o \in Occurrences, d \in Statuses :
        Become(r, [op |-> op, pc |-> "owned", occ |-> o, desired |-> d,
                   existing |-> "none", lost |-> 0, outcome |-> "none"])
  BY DEF Start
<1> DEFINE q == [op |-> op, pc |-> "owned", occ |-> o, desired |-> d,
                 existing |-> "none", lost |-> 0, outcome |-> "none"]
<1>2. q \in Serving /\ Started(q) /\ Expecting(q)
  BY DEF Serving, Started, Expecting
<1>3. /\ UNCHANGED <<jogaks, occurs, execution, posts>>
      /\ writes' \in [Requests -> 0 .. EnoughWrites]
  BY DEF Start, IInv, TypeOK
<1> HIDE DEF q
<1>4. Become(r, q)
  BY <1>1 DEF q
<1>5. QED BY <1>2, <1>3, <1>4, MoveOn

LEMMA LookupIInv ==
    ASSUME IInv, NEW r \in Requests, FindOwnedJogak(r) \/ LoadSchedules(r)
    PROVE  IInv'
<1>1. /\ req[r].pc \in {"owned", "schedules"} /\ req[r] \in Serving
      /\ UNCHANGED <<jogaks, occurs, execution, posts, writes>>
  BY InService DEF FindOwnedJogak, LoadSchedules, IInv
<1>2. CASE Finish(r, "missing") \/ Finish(r, "refused")
  BY <1>1, <1>2, FinishMovesOn DEF Outcomes
<1>3. ASSUME NEW pc \in {"schedules", "insert"}, Become(r, [req[r] EXCEPT !.pc = pc])
      PROVE  IInv'
  <2> DEFINE q == [req[r] EXCEPT !.pc = pc]
  <2>1. q \in Serving /\ q.pc = pc
    BY <1>1 DEF Serving
  <2>2. Become(r, q)
    BY <1>3
  <2> HIDE DEF q
  <2>3. Started(q) /\ Expecting(q) /\ writes' \in [Requests -> 0 .. EnoughWrites]
    BY <1>1, <2>1 DEF Started, Expecting, IInv, TypeOK
  <2>4. QED BY <1>1, <2>1, <2>2, <2>3, MoveOn
<1>4. QED BY <1>2, <1>3 DEF FindOwnedJogak, LoadSchedules

LEMMA InsertIInv ==
    ASSUME IInv, NEW r \in Requests, InsertExecution(r)
    PROVE  IInv'
<1> DEFINE o == req[r].occ
<1>1. req[r] \in Serving /\ req[r].op = "command" /\ req[r].pc = "insert"
  BY InService DEF InsertExecution, IInv
<1>2. CASE o[1] \in jogaks /\ execution[o] = "none"
  <2>1. /\ Write(r, o, req[r].desired) /\ Finish(r, "created")
        /\ UNCHANGED <<jogaks, occurs>> /\ posts' \subseteq Occurrences
    BY <1>2 DEF InsertExecution, IInv, TypeOK
  <2>2. req[r].desired \in Statuses /\ "created" \in Outcomes
    BY <1>1 DEF Serving, Outcomes
  <2>3. QED BY <1>1, <1>2, <2>1, <2>2, FinishWrites
<1>3. CASE ~(o[1] \in jogaks /\ execution[o] = "none")
  <2> DEFINE q == [req[r] EXCEPT !.pc = "find"]
  <2>1. q \in Serving /\ q.pc = "find" /\ q.op = "command" /\ q.occ = o
    BY <1>1 DEF Serving
  <2>2. Become(r, q) /\ UNCHANGED <<jogaks, occurs, execution, posts, writes>>
    BY <1>3 DEF InsertExecution
  <2> HIDE DEF q
  <2>3. Started(q) /\ Expecting(q) /\ writes' \in [Requests -> 0 .. EnoughWrites]
    BY <1>3, <2>1, <2>2 DEF Started, Expecting, IInv, TypeOK
  <2>4. QED BY <2>1, <2>2, <2>3, MoveOn
<1>4. QED BY <1>2, <1>3

\* What FindExecution does with a row: it answers, or expects what it read.
LEMMA FindCases ==
    ASSUME IInv, NEW r \in Requests, FindExecution(r)
    PROVE  LET q == req[r]
               current == execution[q.occ]
           IN  \/ current = "none" /\ Finish(r, "missing")
               \/ current = q.desired /\ current # "none" /\ Finish(r, "unchanged")
               \/ /\ current \in Statuses \ {q.desired} /\ q.desired = "IN_PROGRESS"
                  /\ Finish(r, "rejected")
               \/ Finish(r, "conflict")
               \/ /\ current \in Statuses \ {q.desired} /\ q.desired # "IN_PROGRESS"
                  /\ q.lost # 2
                  /\ Become(r, [q EXCEPT !.pc = "update", !.existing = current])
<1>1. req[r] \in Serving /\ req[r].occ \in Occurrences /\ req[r].desired \in Statuses
  BY InService DEF FindExecution, IInv, Serving
<1>2. execution[req[r].occ] \in Statuses \cup {"none"} /\ "none" \notin Statuses
  BY <1>1 DEF IInv, TypeOK, Statuses
<1>3. QED BY <1>1, <1>2 DEF FindExecution, Transition

LEMMA FindIInv ==
    ASSUME IInv, NEW r \in Requests, FindExecution(r)
    PROVE  IInv'
<1>1. /\ req[r] \in Serving /\ req[r].pc = "find" /\ Started(req[r])
      /\ UNCHANGED <<jogaks, occurs, execution, posts, writes>>
  BY InService DEF FindExecution, IInv
<1>2. ASSUME NEW v \in {"missing", "unchanged", "rejected", "conflict"}, Finish(r, v)
      PROVE  IInv'
  BY <1>1, <1>2, FinishMovesOn DEF Outcomes
<1> DEFINE current == execution[req[r].occ]
           q == [req[r] EXCEPT !.pc = "update", !.existing = current]
<1>3. ASSUME current \in Statuses \ {req[r].desired}, req[r].desired # "IN_PROGRESS",
             req[r].lost # 2, Become(r, q)
      PROVE  IInv'
  <2>1. /\ q \in Serving /\ q.pc = "update" /\ q.existing = current /\ q.occ = req[r].occ
        /\ q.op = req[r].op /\ q.desired = req[r].desired /\ q.lost = req[r].lost
    BY <1>1, <1>3 DEF Serving
  <2>2. q.lost \in 0 .. 1
    BY <1>1, <1>3, <2>1 DEF Serving
  <2>3. Started(q) /\ Expecting(q)
    BY <1>1, <1>3, <2>1, <2>2 DEF Started, Expecting
  <2>4. Become(r, q)
    BY <1>3
  <2> HIDE DEF q
  <2>5. QED BY <1>1, <2>1, <2>3, <2>4, MoveOn DEF IInv, TypeOK
<1>4. QED BY <1>2, <1>3, FindCases

LEMMA UpdateIInv ==
    ASSUME IInv, NEW r \in Requests, UpdateExecutionStatus(r)
    PROVE  IInv'
<1> DEFINE o == req[r].occ
<1>1. /\ req[r] \in Serving /\ req[r].pc = "update" /\ o \in Occurrences
      /\ req[r].desired \in Statuses
      /\ Started(req[r]) /\ Expecting(req[r])
      /\ UNCHANGED <<jogaks, occurs, posts>>
  BY InService DEF UpdateExecutionStatus, IInv, Serving
<1>2. CASE execution[o] = req[r].existing
  <2>1. Write(r, o, req[r].desired) /\ Finish(r, "updated")
    BY <1>2 DEF UpdateExecutionStatus
  <2>2. execution[o] # "none"
    BY <1>1, <1>2 DEF Expecting, Statuses
  <2>3. o[1] \in jogaks
    BY <1>1, <2>2 DEF IInv, TypeOK
  <2>4. "updated" \in Outcomes /\ posts' \subseteq Occurrences
    BY <1>1 DEF Outcomes, IInv, TypeOK
  <2>5. QED BY <1>1, <2>1, <2>3, <2>4, FinishWrites
<1>3. CASE execution[o] # req[r].existing
  <2> DEFINE f == [req[r] EXCEPT !.pc = "find", !.existing = "none"]
             q == [f EXCEPT !.lost = f.lost + 1]
  <2>1. f \in Serving /\ f.pc = "find" /\ f.op = req[r].op /\ f.occ = o /\ f.lost = req[r].lost
    BY <1>1 DEF Serving
  <2>2. Become(r, q) /\ UNCHANGED <<execution, writes>>
    BY <1>1, <1>3 DEF UpdateExecutionStatus, Serving, Become
  <2>3. f.lost \in 0 .. 1
    BY <1>1, <2>1 DEF Expecting
  <2> HIDE DEF f
  <2>4. q \in Serving /\ q.pc = "find" /\ q.op = f.op /\ q.occ = f.occ
    BY <2>1, <2>3 DEF Serving
  <2> HIDE DEF q
  <2>5. Started(q) /\ Expecting(q) /\ writes' \in [Requests -> 0 .. EnoughWrites]
    BY <1>1, <2>1, <2>2, <2>4 DEF Started, Expecting, IInv, TypeOK
  <2>6. QED BY <1>1, <2>2, <2>4, <2>5, MoveOn
<1>4. QED BY <1>2, <1>3

LEMMA CreateIInv ==
    ASSUME IInv, NEW r \in Requests, CreateForOccurrence(r)
    PROVE  IInv'
<1> DEFINE o == req[r].occ
<1>1. /\ req[r] \in Serving /\ req[r].pc = "insert" /\ o \in Occurrences
      /\ UNCHANGED <<jogaks, occurs>>
  BY InService DEF CreateForOccurrence, IInv, Serving
<1>2. CASE o[1] \notin jogaks
  <2>1. Finish(r, "missing") /\ UNCHANGED <<execution, posts, writes>>
    BY <1>2 DEF CreateForOccurrence
  <2>2. QED BY <1>1, <2>1, FinishMovesOn DEF Outcomes
<1>3. CASE o[1] \in jogaks
  <2>1. PICK v \in {"duplicate", "posted"} : Finish(r, v)
    BY <1>3 DEF CreateForOccurrence
  <2>2. posts' = posts \cup {o} /\ posts' \subseteq Occurrences
    BY <1>1, <1>3 DEF CreateForOccurrence, IInv, TypeOK
  <2>3. CASE execution[o] = "none"
    <3>1. Write(r, o, "IN_PROGRESS") /\ "IN_PROGRESS" \in Statuses
      BY <1>3, <2>3 DEF CreateForOccurrence, Statuses
    <3>2. QED BY <1>1, <1>3, <2>1, <2>2, <3>1, FinishWrites DEF Outcomes
  <2>4. CASE execution[o] # "none"
    <3>1. UNCHANGED <<execution, writes>>
      BY <1>3, <2>4 DEF CreateForOccurrence
    <3>2. PICK f \in Serving : Become(r, f) /\ f.pc = "done"
      BY <1>1, <2>1, FinishLeaves DEF Outcomes
    <3>3. Started(f)' /\ Expecting(f)
      BY <3>2 DEF Started, Expecting
    <3>4. QED BY <1>1, <2>2, <3>1, <3>2, <3>3, OneRequest DEF Become, IInv, TypeOK
  <2>5. QED BY <2>3, <2>4
<1>4. QED BY <1>2, <1>3

LEMMA ReplyIInv ==
    ASSUME IInv, NEW r \in Requests, Reply(r)
    PROVE  IInv'
<1>1. Become(r, Idle) /\ UNCHANGED <<jogaks, occurs, execution, posts>>
  BY DEF Reply
<1>2. Started(Idle) /\ Expecting(Idle)
  BY IdleFields DEF Started, Expecting
<1>3. writes' \in [Requests -> 0 .. EnoughWrites]
  BY DEF Reply, IInv, TypeOK, EnoughWrites
<1>4. QED BY <1>1, <1>2, <1>3, MoveOn

\* Deletions, changes of a schedule and crashes.
LEMMA EnvironmentIInv ==
    ASSUME IInv, DeleteOwnedPost \/ PatchOwnedJogak \/ DeleteOwnedJogak \/ Crash
    PROVE  IInv'
<1>1. CASE DeleteOwnedPost \/ PatchOwnedJogak
  <2>1. UNCHANGED <<jogaks, execution, req, writes>> /\ posts' \subseteq Occurrences
    BY <1>1 DEF DeleteOwnedPost, PatchOwnedJogak, IInv, TypeOK
  <2>2. occurs' \in [Jogaks -> SUBSET Dates]
    BY <1>1, SchedulesAssumption DEF DeleteOwnedPost, PatchOwnedJogak, IInv, TypeOK
  <2>3. QED BY <2>1, <2>2 DEF IInv, TypeOK, Started, Expecting
<1>2. CASE DeleteOwnedJogak
  <2>1. PICK j \in jogaks :
          /\ jogaks' = jogaks \ {j}
          /\ occurs' = [occurs EXCEPT ![j] = {}]
          /\ execution' = [o \in Occurrences |-> IF o[1] = j THEN "none" ELSE execution[o]]
          /\ UNCHANGED <<posts, req, writes>>
    BY <1>2 DEF DeleteOwnedJogak
  <2>2. TypeOK'
    BY <2>1 DEF IInv, TypeOK
  <2>3. ASSUME NEW r \in Requests
        PROVE  Started(req[r])' /\ Expecting(req[r])'
    <3>1. Expecting(req[r])' /\ req'[r] = req[r]
      BY <2>1 DEF IInv, Expecting
    <3>2. ASSUME req[r].pc \in {"find", "update"}
          PROVE  req[r].occ \in Occurrences
      BY <3>2, InService DEF IInv, Serving
    <3>3. Started(req[r])'
      BY <2>1, <3>1, <3>2 DEF IInv, Started
    <3>4. QED BY <3>1, <3>3
  <2>4. QED BY <2>2, <2>3 DEF IInv
<1>3. CASE Crash
  <2>1. UNCHANGED <<jogaks, occurs, execution, posts>>
        /\ req' = [r \in Requests |-> Idle] /\ writes' = [r \in Requests |-> 0]
    BY <1>3 DEF Crash
  <2>2. TypeOK'
    BY <2>1 DEF IInv, TypeOK, EnoughWrites
  <2>3. \A r \in Requests : Started(req[r])' /\ Expecting(req[r])'
    BY <2>1, IdleFields DEF Started, Expecting
  <2>4. QED BY <2>2, <2>3 DEF IInv
<1>4. QED BY <1>1, <1>2, <1>3

LEMMA NextIInv == IInv /\ [Next]_vars => IInv'
<1> SUFFICES ASSUME IInv, [Next]_vars PROVE IInv'
  OBVIOUS
<1>1. CASE UNCHANGED vars
  BY <1>1 DEF vars, IInv, TypeOK, Started, Expecting
<1>2. CASE Next
  BY <1>2, StartIInv, LookupIInv, InsertIInv, FindIInv, UpdateIInv, CreateIInv, ReplyIInv,
     EnvironmentIInv DEF Next, Serve
<1>3. QED BY <1>1, <1>2

\* Every reachable state is well typed, and an execution never outlives its
\* jogak, whatever the commands and posts in flight had read before a deletion.
THEOREM ExecutionTypeCorrect == Spec => []TypeOK
<1>1. IInv => TypeOK
  BY DEF IInv
<1>2. QED BY InitIInv, NextIInv, <1>1, PTL DEF Spec


-----------------------------------------------------------------------------
(* What the abstract register sees of a step *)

LEMMA CallsChange ==
    ASSUME TypeOK, NEW r \in Requests, NEW q, Become(r, q)
    PROVE  calls' = [calls EXCEPT ![r] = CallOf(q)]
BY DEF TypeOK, Become, calls, CallOf

LEMMA StatusesStay ==
    ASSUME UNCHANGED <<jogaks, execution>>
    PROVE  statuses' = statuses
BY DEF statuses, StatusOf

LEMMA StatusesWrite ==
    ASSUME TypeOK, NEW o \in Occurrences, NEW s, o[1] \in jogaks, jogaks' = jogaks,
           execution' = [execution EXCEPT ![o] = s]
    PROVE  statuses' = [statuses EXCEPT ![o] = s]
BY DEF TypeOK, statuses, StatusOf

\* A command that is not answered yet is pending.
LEMMA PendingCall ==
    ASSUME TypeOK, NEW r \in Requests, req[r].op = "command", req[r].pc \notin {"idle", "done"}
    PROVE  /\ calls[r] = Register!Pending(req[r].occ, req[r].desired)
           /\ calls[r].phase = "pending" /\ calls[r].occ = req[r].occ
           /\ calls[r].desired = req[r].desired
           /\ req[r].occ \in Occurrences /\ req[r].desired \in Statuses
<1>1. calls[r] = [phase |-> "pending", occ |-> req[r].occ, desired |-> req[r].desired]
  BY DEF calls, CallOf
<1>2. req[r].occ \in Occurrences /\ req[r].desired \in Statuses
  BY InService DEF Serving
<1>3. QED BY <1>1, <1>2 DEF Register!Pending

\* The answer of a command is the abstract one.
LEMMA DecidedCall ==
    ASSUME TypeOK, NEW r \in Requests, req[r].op = "command", req[r].pc \notin {"idle", "done"},
           NEW v \in Outcomes, Finish(r, v)
    PROVE  calls' = [calls EXCEPT ![r] = Register!Decided(req[r].occ, req[r].desired, v)]
<1>1. req[r] \in Serving
  BY InService
<1>2. PICK f \in Serving :
        /\ Become(r, f) /\ f.pc = "done" /\ f.op = req[r].op /\ f.occ = req[r].occ
        /\ f.desired = req[r].desired /\ f.outcome = v
  BY <1>1, FinishLeaves
<1>3. CallOf(f) = Register!Decided(req[r].occ, req[r].desired, v)
  BY <1>2 DEF CallOf, Register!Decided
<1>4. QED BY <1>2, <1>3, CallsChange

LEMMA Verdicts ==
    \A d \in Statuses :
       /\ Register!Verdict("gone", d) = "missing" /\ Register!Verdict("none", d) = "created"
       /\ Register!Verdict(d, d) = "unchanged"
       /\ \A s \in Statuses \ {d} :
             Register!Verdict(s, d) = IF d = "IN_PROGRESS" THEN "rejected" ELSE "updated"
BY DEF Statuses, Register!Verdict, Register!Statuses

\* A step of a post, whatever it leaves of the request, shows nothing.
LEMMA PostIsQuiet ==
    ASSUME TypeOK, NEW r \in Requests, req[r].op # "command", NEW q, Become(r, q),
           q.op # "command"
    PROVE  calls' = calls
<1>1. CallOf(q) = Quiet /\ calls[r] = Quiet
  BY DEF CallOf, calls
<1>2. calls' = [calls EXCEPT ![r] = Quiet]
  BY <1>1, CallsChange
<1>3. QED BY <1>1, <1>2 DEF calls

LEMMA PostFinishes ==
    ASSUME TypeOK, NEW r \in Requests, req[r].op # "command", req[r].pc # "idle",
           NEW v \in Outcomes, Finish(r, v)
    PROVE  calls' = calls
BY FinishLeaves, InService, PostIsQuiet

\* Between its call and its answer a command only moves on.
LEMMA PendingStays ==
    ASSUME TypeOK, NEW r \in Requests, req[r].op = "command", req[r].pc \notin {"idle", "done"},
           NEW q, Become(r, q), q.op = "command", q.pc \notin {"idle", "done"},
           q.occ = req[r].occ, q.desired = req[r].desired
    PROVE  calls' = calls
<1>1. CallOf(q) = calls[r]
  BY DEF CallOf, calls
<1>2. calls' = [calls EXCEPT ![r] = calls[r]]
  BY <1>1, CallsChange
<1>3. QED BY <1>2 DEF calls

-----------------------------------------------------------------------------
(* Each step is a step of the register, or none *)

Stutter == UNCHANGED Register!vars

LEMMA StartRefines ==
    ASSUME IInv, NEW r \in Requests, Start(r)
    PROVE  Register!Invoke(r) \/ Stutter
<1>1. TypeOK /\ req[r] = Idle /\ statuses' = statuses
  BY StatusesStay DEF Start, IInv, TypeOK, Serving
<1>2. calls[r] = Quiet
  BY <1>1, IdleFields DEF calls, CallOf
<1>3. PICK op \in {"command", "post"}, o \in Occurrences, d \in Statuses :
        Become(r, [op |-> op, pc |-> "owned", occ |-> o, desired |-> d,
                   existing |-> "none", lost |-> 0, outcome |-> "none"])
  BY DEF Start
<1>4. CASE op = "command"
  <2>1. calls' = [calls EXCEPT ![r] = Register!Pending(o, d)]
    BY <1>1, <1>3, <1>4, CallsChange DEF CallOf, Register!Pending
  <2>2. d \in Register!Statuses
    BY DEF Statuses, Register!Statuses
  <2>3. QED BY <1>1, <1>2, <2>1, <2>2 DEF Register!Invoke, Quiet, Register!Quiet
<1>5. CASE op = "post"
  <2>1. calls' = calls
    BY <1>1, <1>3, <1>5, IdleFields, PostIsQuiet
  <2>2. QED BY <1>1, <2>1 DEF Stutter, Register!vars
<1>6. QED BY <1>4, <1>5

LEMMA FindOwnedRefines ==
    ASSUME IInv, NEW r \in Requests, FindOwnedJogak(r)
    PROVE  Register!Decide(r) \/ Stutter
<1>1. /\ TypeOK /\ req[r].pc = "owned" /\ req[r] \in Serving /\ statuses' = statuses
      /\ "missing" \in Outcomes
  BY InService, StatusesStay DEF FindOwnedJogak, IInv, Outcomes
<1>2. CASE req[r].op = "command" /\ req[r].occ[1] \notin jogaks
  <2>1. statuses[req[r].occ] = "gone"
    BY <1>1, <1>2 DEF Serving, statuses, StatusOf
  <2>2. Register!Verdict(statuses[req[r].occ], req[r].desired) = "missing"
    BY <1>1, <2>1, Verdicts DEF Serving
  <2>3. Finish(r, "missing")
    BY <1>2 DEF FindOwnedJogak
  <2>4. calls' = [calls EXCEPT ![r] = Register!Decided(req[r].occ, req[r].desired, "missing")]
    BY <1>1, <1>2, <2>3, DecidedCall
  <2>5. QED BY <1>1, <1>2, <2>2, <2>4, PendingCall DEF Register!Decide
<1>3. CASE req[r].occ[1] \in jogaks
  <2>1. PICK q \in Serving : Become(r, q) /\ q.op = req[r].op /\ q.pc = "schedules"
                             /\ q.occ = req[r].occ /\ q.desired = req[r].desired
    BY <1>1, <1>3 DEF FindOwnedJogak, Serving
  <2>2. calls' = calls
    BY <1>1, <2>1, PendingStays, PostIsQuiet
  <2>3. QED BY <1>1, <2>2 DEF Stutter, Register!vars
<1>4. CASE req[r].op # "command" /\ req[r].occ[1] \notin jogaks
  <2>1. Finish(r, "missing")
    BY <1>4 DEF FindOwnedJogak
  <2>2. calls' = calls
    BY <1>1, <1>4, <2>1, PostFinishes
  <2>3. QED BY <1>1, <2>2 DEF Stutter, Register!vars
<1>5. QED BY <1>2, <1>3, <1>4

LEMMA LoadSchedulesRefines ==
    ASSUME IInv, NEW r \in Requests, LoadSchedules(r)
    PROVE  Register!Refuse(r) \/ Stutter
<1> DEFINE o == req[r].occ
<1>1. /\ TypeOK /\ req[r].pc = "schedules" /\ req[r] \in Serving /\ statuses' = statuses
      /\ "refused" \in Outcomes
  BY InService, StatusesStay DEF LoadSchedules, IInv, Outcomes
<1>2. CASE req[r].op = "command" /\ o[2] \notin occurs[o[1]]
  <2>1. Finish(r, "refused")
    BY <1>2 DEF LoadSchedules
  <2>2. calls' = [calls EXCEPT ![r] = Register!Decided(req[r].occ, req[r].desired, "refused")]
    BY <1>1, <1>2, <2>1, DecidedCall
  <2>3. QED BY <1>1, <1>2, <2>2, PendingCall DEF Register!Refuse
<1>3. CASE o[2] \in occurs[o[1]]
  <2>1. PICK q \in Serving : Become(r, q) /\ q.op = req[r].op /\ q.pc = "insert"
                             /\ q.occ = req[r].occ /\ q.desired = req[r].desired
    BY <1>1, <1>3 DEF LoadSchedules, Serving
  <2>2. calls' = calls
    BY <1>1, <2>1, PendingStays, PostIsQuiet
  <2>3. QED BY <1>1, <2>2 DEF Stutter, Register!vars
<1>4. CASE req[r].op # "command" /\ o[2] \notin occurs[o[1]]
  <2>1. Finish(r, "refused")
    BY <1>4 DEF LoadSchedules
  <2>2. calls' = calls
    BY <1>1, <1>4, <2>1, PostFinishes
  <2>3. QED BY <1>1, <2>2 DEF Stutter, Register!vars
<1>5. QED BY <1>2, <1>3, <1>4

LEMMA InsertRefines ==
    ASSUME IInv, NEW r \in Requests, InsertExecution(r)
    PROVE  Register!Decide(r) \/ Stutter
<1>1. /\ TypeOK /\ req[r].pc = "insert" /\ req[r].op = "command" /\ req[r] \in Serving
      /\ jogaks' = jogaks /\ "created" \in Outcomes
  BY InService DEF InsertExecution, IInv, Outcomes
<1>2. PICK o \in Occurrences, d \in Statuses : o = req[r].occ /\ d = req[r].desired
  BY <1>1 DEF Serving
<1>3. CASE o[1] \in jogaks /\ execution[o] = "none"
  <2>1. statuses[o] = "none" /\ Register!Verdict(statuses[o], d) = "created"
    BY <1>3, Verdicts DEF statuses, StatusOf
  <2>2. Write(r, o, d) /\ Finish(r, "created")
    BY <1>2, <1>3 DEF InsertExecution
  <2>3. statuses' = [statuses EXCEPT ![o] = d]
    BY <1>1, <1>3, <2>2, StatusesWrite DEF Write
  <2>4. calls' = [calls EXCEPT ![r] = Register!Decided(o, d, "created")]
    BY <1>1, <1>2, <2>2, DecidedCall
  <2>5. calls[r].phase = "pending" /\ calls[r].occ = o /\ calls[r].desired = d
    BY <1>1, <1>2, PendingCall
  <2>6. QED BY <2>1, <2>3, <2>4, <2>5 DEF Register!Decide
<1>4. CASE ~(o[1] \in jogaks /\ execution[o] = "none")
  <2>1. PICK q \in Serving : Become(r, q) /\ q.op = req[r].op /\ q.pc = "find"
                             /\ q.occ = req[r].occ /\ q.desired = req[r].desired
    BY <1>1, <1>2, <1>4 DEF InsertExecution, Serving
  <2>2. calls' = calls
    BY <1>1, <2>1, PendingStays
  <2>3. statuses' = statuses
    BY <1>1, <1>2, <1>4, StatusesStay DEF InsertExecution
  <2>4. QED BY <2>2, <2>3 DEF Stutter, Register!vars
<1>5. QED BY <1>3, <1>4

\* Started is what makes "missing" the right answer here: the execution can
\* only be missing because the jogak is.
LEMMA FindRefines ==
    ASSUME IInv, NEW r \in Requests, FindExecution(r)
    PROVE  Register!Decide(r) \/ Register!Refuse(r) \/ Stutter
<1>1. /\ TypeOK /\ req[r].pc = "find" /\ req[r] \in Serving /\ statuses' = statuses
      /\ Started(req[r])
  BY InService, StatusesStay DEF FindExecution, IInv
<1>2. PICK o \in Occurrences, d \in Statuses : o = req[r].occ /\ d = req[r].desired
  BY <1>1 DEF Serving
<1>3. /\ req[r].op = "command"
      /\ o[1] \in jogaks => execution[o] # "none"
      /\ o[1] \notin jogaks => execution[o] = "none"
  BY <1>1, <1>2 DEF Started, TypeOK
<1>4. calls[r].phase = "pending" /\ calls[r].occ = o /\ calls[r].desired = d
  BY <1>1, <1>2, <1>3, PendingCall
<1>5. ASSUME NEW v \in {"missing", "unchanged", "rejected", "conflict"}, Finish(r, v)
      PROVE  calls' = [calls EXCEPT ![r] = Register!Decided(o, d, v)]
  BY <1>1, <1>2, <1>3, <1>5, DecidedCall DEF Outcomes
<1>6. ASSUME NEW v \in {"missing", "unchanged", "rejected"}, Finish(r, v),
             Register!Verdict(statuses[o], d) = v
      PROVE  Register!Decide(r)
  <2>1. calls' = [calls EXCEPT ![r] = Register!Decided(o, d, v)]
    BY <1>5, <1>6
  <2>2. QED BY <1>1, <1>4, <1>6, <2>1 DEF Register!Decide
<1>7. CASE execution[o] = "none" /\ Finish(r, "missing")
  <2>1. statuses[o] = "gone"
    BY <1>3, <1>7 DEF statuses, StatusOf
  <2>2. QED BY <1>6, <1>7, <2>1, Verdicts
<1>8. ASSUME execution[o] # "none"
      PROVE  statuses[o] = execution[o]
  BY <1>3, <1>8 DEF statuses, StatusOf
<1>9. CASE execution[o] = d /\ execution[o] # "none" /\ Finish(r, "unchanged")
  <2>1. Register!Verdict(statuses[o], d) = "unchanged"
    BY <1>8, <1>9, Verdicts
  <2>2. QED BY <1>6, <1>9, <2>1
<1>10. CASE execution[o] \in Statuses \ {d} /\ d = "IN_PROGRESS" /\ Finish(r, "rejected")
  <2>1. statuses[o] \in Statuses \ {d}
    BY <1>8, <1>10 DEF Statuses
  <2>2. Register!Verdict(statuses[o], d) = "rejected"
    BY <1>10, <2>1, Verdicts
  <2>3. QED BY <1>6, <1>10, <2>2
<1>11. CASE Finish(r, "conflict")
  BY <1>1, <1>4, <1>5, <1>11 DEF Register!Refuse
<1>12. ASSUME Become(r, [req[r] EXCEPT !.pc = "update", !.existing = execution[o]]),
              execution[o] \in Statuses
       PROVE  Stutter
  <2>1. PICK q : q = [req[r] EXCEPT !.pc = "update", !.existing = execution[o]]
    OBVIOUS
  <2>2. q.op = req[r].op /\ q.pc = "update" /\ q.occ = req[r].occ /\ q.desired = req[r].desired
    BY <1>1, <2>1 DEF Serving
  <2>3. Become(r, q)
    BY <1>12, <2>1
  <2>4. calls' = calls
    BY <1>1, <1>3, <2>2, <2>3, PendingStays
  <2>5. QED BY <1>1, <2>4 DEF Stutter, Register!vars
<1>13. QED BY <1>2, <1>7, <1>9, <1>10, <1>11, <1>12, FindCases

\* Expecting is what makes the UPDATE a decision: the status it replaces is one
\* the rules let the command replace, although it was read earlier.
LEMMA UpdateRefines ==
    ASSUME IInv, NEW r \in Requests, UpdateExecutionStatus(r)
    PROVE  Register!Decide(r) \/ Stutter
<1>1. /\ TypeOK /\ req[r].pc = "update" /\ req[r] \in Serving /\ jogaks' = jogaks
      /\ Started(req[r]) /\ Expecting(req[r]) /\ "updated" \in Outcomes
  BY InService DEF UpdateExecutionStatus, IInv, Outcomes
<1>2. PICK o \in Occurrences, d \in Statuses : o = req[r].occ /\ d = req[r].desired
  BY <1>1 DEF Serving
<1>3. req[r].op = "command" /\ req[r].existing \in Statuses \ {d} /\ d # "IN_PROGRESS"
  BY <1>1, <1>2 DEF Started, Expecting
<1>4. CASE execution[o] = req[r].existing
  <2>1. execution[o] # "none" /\ o[1] \in jogaks
    BY <1>1, <1>3, <1>4 DEF Statuses, TypeOK
  <2>2. statuses[o] \in Statuses \ {d}
    BY <1>3, <1>4, <2>1 DEF statuses, StatusOf
  <2>3. Register!Verdict(statuses[o], d) = "updated"
    BY <1>3, <2>2, Verdicts
  <2>4. Write(r, o, d) /\ Finish(r, "updated")
    BY <1>2, <1>4 DEF UpdateExecutionStatus
  <2>5. statuses' = [statuses EXCEPT ![o] = d]
    BY <1>1, <2>1, <2>4, StatusesWrite DEF Write
  <2>6. calls' = [calls EXCEPT ![r] = Register!Decided(o, d, "updated")]
    BY <1>1, <1>2, <1>3, <2>4, DecidedCall
  <2>7. calls[r].phase = "pending" /\ calls[r].occ = o /\ calls[r].desired = d
    BY <1>1, <1>2, <1>3, PendingCall
  <2>8. QED BY <2>3, <2>5, <2>6, <2>7 DEF Register!Decide
<1>5. CASE execution[o] # req[r].existing
  <2> DEFINE e == [req[r] EXCEPT !.pc = "find", !.existing = "none", !.lost = @ + 1]
  <2>1. Become(r, e)
    BY <1>2, <1>5 DEF UpdateExecutionStatus
  <2>2. e.op = "command" /\ e.pc = "find" /\ e.occ = req[r].occ /\ e.desired = req[r].desired
    BY <1>1, <1>3 DEF Serving
  <2> HIDE DEF e
  <2>3. calls' = calls
    BY <1>1, <1>3, <2>1, <2>2, PendingStays
  <2>4. statuses' = statuses
    BY <1>1, <1>2, <1>5, StatusesStay DEF UpdateExecutionStatus
  <2>5. QED BY <2>3, <2>4 DEF Stutter, Register!vars
<1>6. QED BY <1>4, <1>5

LEMMA CreateRefines ==
    ASSUME IInv, NEW r \in Requests, CreateForOccurrence(r)
    PROVE  Register!StartByPost \/ Stutter
<1>1. /\ TypeOK /\ req[r].pc = "insert" /\ req[r].op = "post" /\ req[r] \in Serving
      /\ jogaks' = jogaks
  BY InService DEF CreateForOccurrence, IInv
<1>2. PICK o \in Occurrences : o = req[r].occ
  BY <1>1 DEF Serving
<1>3. PICK v \in Outcomes : Finish(r, v)
  BY DEF CreateForOccurrence, Outcomes
<1>4. calls' = calls
  BY <1>1, <1>3, PostFinishes
<1>5. CASE o[1] \in jogaks /\ execution[o] = "none"
  <2>1. Write(r, o, "IN_PROGRESS")
    BY <1>2, <1>5 DEF CreateForOccurrence
  <2>2. statuses' = [statuses EXCEPT ![o] = "IN_PROGRESS"]
    BY <1>1, <1>5, <2>1, StatusesWrite DEF Write
  <2>3. statuses[o] = "none"
    BY <1>5 DEF statuses, StatusOf
  <2>4. QED BY <1>4, <2>2, <2>3 DEF Register!StartByPost
<1>6. CASE ~(o[1] \in jogaks /\ execution[o] = "none")
  <2>1. statuses' = statuses
    BY <1>1, <1>2, <1>6, StatusesStay DEF CreateForOccurrence
  <2>2. QED BY <1>4, <2>1 DEF Stutter, Register!vars
<1>7. QED BY <1>5, <1>6

LEMMA ReplyRefines ==
    ASSUME IInv, NEW r \in Requests, Reply(r)
    PROVE  Register!Answer(r) \/ Stutter
<1>1. TypeOK /\ req[r].pc = "done" /\ Become(r, Idle) /\ statuses' = statuses
  BY StatusesStay DEF Reply, IInv
<1>2. CASE req[r].op = "command"
  <2>1. calls[r].phase = "done"
    BY <1>1, <1>2 DEF calls, CallOf
  <2>2. CallOf(Idle) = Register!Quiet
    BY IdleFields DEF CallOf, Quiet, Register!Quiet
  <2>3. calls' = [calls EXCEPT ![r] = Register!Quiet]
    BY <1>1, <2>2, CallsChange
  <2>4. QED BY <1>1, <2>1, <2>3 DEF Register!Answer
<1>3. CASE req[r].op # "command"
  <2>1. calls' = calls
    BY <1>1, <1>3, IdleFields, PostIsQuiet
  <2>2. QED BY <1>1, <2>1 DEF Stutter, Register!vars
<1>4. QED BY <1>2, <1>3

LEMMA EnvironmentRefines ==
    ASSUME IInv, DeleteOwnedPost \/ PatchOwnedJogak \/ DeleteOwnedJogak \/ Crash
    PROVE  Register!Forget \/ Register!Abandon \/ Stutter
<1>1. CASE DeleteOwnedPost \/ PatchOwnedJogak
  <2>1. UNCHANGED <<jogaks, execution, req>>
    BY <1>1 DEF DeleteOwnedPost, PatchOwnedJogak
  <2>2. statuses' = statuses /\ calls' = calls
    BY <2>1, StatusesStay DEF calls, CallOf
  <2>3. QED BY <2>2 DEF Stutter, Register!vars
<1>2. CASE DeleteOwnedJogak
  <2>1. PICK j \in jogaks :
          /\ jogaks' = jogaks \ {j}
          /\ execution' = [o \in Occurrences |-> IF o[1] = j THEN "none" ELSE execution[o]]
          /\ req' = req
    BY <1>2 DEF DeleteOwnedJogak
  <2> DEFINE S == {o \in Occurrences : o[1] = j}
  <2>2. statuses' = [o \in Occurrences |-> IF o \in S THEN "gone" ELSE statuses[o]]
    BY <2>1 DEF statuses, StatusOf
  <2>3. calls' = calls
    BY <2>1 DEF calls, CallOf
  <2>4. S \in SUBSET Occurrences
    OBVIOUS
  <2> HIDE DEF S
  <2>5. QED BY <2>2, <2>3, <2>4 DEF Register!Forget
<1>3. CASE Crash
  <2>1. req' = [r \in Requests |-> Idle] /\ statuses' = statuses
    BY <1>3, StatusesStay DEF Crash
  <2>2. CallOf(Idle) = Register!Quiet
    BY IdleFields DEF CallOf, Quiet, Register!Quiet
  <2>3. calls' = [r \in Requests |-> Register!Quiet]
    BY <2>1, <2>2 DEF calls, CallOf
  <2>4. QED BY <2>1, <2>3 DEF Register!Abandon
<1>4. QED BY <1>1, <1>2, <1>3

LEMMA NextRefines == IInv /\ [Next]_vars => [Register!Next]_(Register!vars)
<1> SUFFICES ASSUME IInv, [Next]_vars PROVE Register!Next \/ Stutter
  BY DEF Stutter
<1>1. CASE UNCHANGED vars
  BY <1>1 DEF vars, Stutter, Register!vars, statuses, StatusOf, calls, CallOf
<1>2. ASSUME NEW r \in Requests, Start(r) \/ Serve(r)
      PROVE  Register!Next \/ Stutter
  BY <1>2, StartRefines, FindOwnedRefines, LoadSchedulesRefines, InsertRefines, FindRefines,
     UpdateRefines, CreateRefines, ReplyRefines DEF Serve, Register!Next
<1>3. CASE DeleteOwnedPost \/ PatchOwnedJogak \/ DeleteOwnedJogak \/ Crash
  BY <1>3, EnvironmentRefines DEF Register!Next
<1>4. QED BY <1>1, <1>2, <1>3 DEF Next

LEMMA InitRefines == Init => Register!Init
<1> SUFFICES ASSUME Init PROVE Register!Init
  OBVIOUS
<1>1. ASSUME NEW o \in Occurrences PROVE StatusOf(o) = "none"
  BY OccurrenceParts DEF Init, StatusOf
<1>2. CallOf(Idle) = Register!Quiet
  BY IdleFields DEF CallOf, Quiet, Register!Quiet
<1>3. QED BY <1>1, <1>2 DEF Init, Register!Init, statuses, calls

\* Whatever is lost to a race between an INSERT that does nothing and the read
\* after it, or between that read and the UPDATE, a command is answered as if it
\* had looked at the execution, decided and written it in one instant.
THEOREM ExecutionImplementsRegister == Spec => ImplementsRegister
BY InitIInv, NextIInv, InitRefines, NextRefines, PTL DEF Spec, ImplementsRegister, Register!Spec


-----------------------------------------------------------------------------
(* Lost races *)

\* What is known of the writes of others, w, while the row a command is about is
\* in status s: each UPDATE it lost was lost to a write, a status other than the
\* one it expects was written since it looked, and the second write leaves the
\* row as the command wants it, so that finding it otherwise takes a third.
Counted(q, s, w) ==
    /\ q.pc \in {"owned", "schedules", "insert"} => q.lost = 0
    /\ q.pc = "done" /\ q.op = "command" /\ q.outcome = "conflict" => w = EnoughWrites
    /\ q.pc = "update" /\ s # "none" =>
          /\ q.lost <= w
          /\ s # q.existing => s # "IN_PROGRESS" /\ q.lost < w
          /\ q.lost = 1 => q.existing # "IN_PROGRESS"
    /\ q.pc = "find" /\ q.lost > 0 /\ s # "none" =>
          /\ s # "IN_PROGRESS"
          /\ q.lost <= w
          /\ q.lost = 2 /\ s # q.desired => w = EnoughWrites

StatusFor(q) == execution[q.occ]

Counts == \A r \in Requests : req[r].pc # "idle" => Counted(req[r], StatusFor(req[r]), writes[r])

\* Another request wrote a status, the row went, or nothing happened to it.
LEMMA CountOne ==
    ASSUME NEW q \in Serving, NEW s \in Statuses \cup {"none"}, NEW t \in Statuses \cup {"none"},
           NEW w \in 0 .. EnoughWrites, NEW v \in 0 .. EnoughWrites,
           q.pc = "update" => q.lost \in 0 .. 1,
           Counted(q, s, w), v >= w,
           \/ t = s
           \/ t = "none"
           \/ s = "none" /\ q.pc \notin {"find", "update"}
           \/ /\ s # "none" /\ t # "IN_PROGRESS"
              /\ q.op = "command" /\ q.pc \in {"find", "update"} => v = w + 1 \/ v = EnoughWrites
    PROVE  q.op = "command" \/ q.pc \notin {"find", "update"} => Counted(q, t, v)
<1> SUFFICES ASSUME q.op = "command" \/ q.pc \notin {"find", "update"} PROVE Counted(q, t, v)
  OBVIOUS
<1>0. q.lost \in 0 .. 2 /\ EnoughWrites = 3
  BY DEF Serving, EnoughWrites
<1>1. CASE q.pc \notin {"find", "update"}
  BY <1>0, <1>1 DEF Counted
<1>2. CASE q.pc = "update"
  <2>1. CASE t = s
    BY <1>0, <1>2, <2>1 DEF Counted
  <2>2. CASE t = "none"
    BY <1>0, <1>2, <2>2 DEF Counted
  <2>3. CASE s # "none" /\ t # "IN_PROGRESS" /\ (v = w + 1 \/ v = EnoughWrites)
    BY <1>0, <1>2, <2>3 DEF Counted
  <2>4. QED BY <1>2, <2>1, <2>2, <2>3
<1>3. CASE q.pc = "find"
  <2>1. CASE t = s
    BY <1>0, <1>3, <2>1 DEF Counted
  <2>2. CASE t = "none"
    BY <1>0, <1>3, <2>2 DEF Counted
  <2>3. CASE s # "none" /\ t # "IN_PROGRESS" /\ (v = w + 1 \/ v = EnoughWrites)
    BY <1>0, <1>3, <2>3 DEF Counted
  <2>4. QED BY <1>3, <2>1, <2>2, <2>3
<1>4. QED BY <1>1, <1>2, <1>3

\* What a step of request r may do to the executions and to the counts of the
\* other requests.
Passes(r) ==
    /\ \A s \in Requests \ {r} : writes'[s] >= writes[s]
    /\ \A o \in Occurrences :
          \/ execution'[o] = execution[o]
          \/ execution[o] = "none" /\ o[1] \in jogaks
          \/ /\ execution[o] # "none" /\ execution'[o] # "IN_PROGRESS"
             /\ \A s \in Requests \ {r} :
                   req[s].op = "command" /\ req[s].occ = o
                      => writes'[s] = writes[s] + 1 \/ writes'[s] = EnoughWrites

LEMMA OthersCount ==
    ASSUME IInv, Counts, IInv', NEW r \in Requests, NEW q \in Serving \cup {Idle}, Become(r, q),
           Passes(r), q.pc # "idle" => Counted(q, execution'[q.occ], writes'[r])
    PROVE  Counts'
<1> SUFFICES ASSUME NEW s \in Requests, req'[s].pc # "idle"
             PROVE  Counted(req'[s], execution'[req'[s].occ], writes'[s])
  BY DEF Counts, StatusFor
<1>1. CASE s = r
  BY <1>1 DEF Become, IInv, TypeOK
<1>2. CASE s # r
  <2>1. req'[s] = req[s]
    BY <1>2 DEF Become, IInv, TypeOK
  <2> DEFINE p == req[s]
  <2>2. p \in Serving /\ p.occ \in Occurrences /\ Counted(p, execution[p.occ], writes[s])
    BY <2>1, InService DEF IInv, Serving, Counts, StatusFor
  <2>3. PICK o \in Occurrences : o = p.occ
    BY <2>2
  <2>4. /\ execution[o] \in Statuses \cup {"none"} /\ execution'[o] \in Statuses \cup {"none"}
        /\ writes[s] \in 0 .. EnoughWrites /\ writes'[s] \in 0 .. EnoughWrites
    BY DEF IInv, TypeOK
  <2>5. writes'[s] >= writes[s]
    BY <1>2 DEF Passes
  <2>6. /\ p.pc = "update" => p.lost \in 0 .. 1
        /\ p.pc \in {"find", "update"} => p.op = "command"
        /\ p.pc \in {"find", "update"} /\ o[1] \in jogaks => execution[o] # "none"
    BY <2>3 DEF IInv, Expecting, Started
  <2>7. \/ execution'[o] = execution[o]
        \/ execution[o] = "none" /\ p.pc \notin {"find", "update"}
        \/ /\ execution[o] # "none" /\ execution'[o] # "IN_PROGRESS"
           /\ p.op = "command" /\ p.pc \in {"find", "update"}
                 => writes'[s] = writes[s] + 1 \/ writes'[s] = EnoughWrites
    <3>1. \/ execution'[o] = execution[o]
          \/ execution[o] = "none" /\ o[1] \in jogaks
          \/ /\ execution[o] # "none" /\ execution'[o] # "IN_PROGRESS"
             /\ req[s].op = "command" /\ req[s].occ = o
                   => writes'[s] = writes[s] + 1 \/ writes'[s] = EnoughWrites
      BY <1>2 DEF Passes
    <3>2. QED BY <2>3, <2>6, <3>1
  <2>8. Counted(p, execution[o], writes[s])
    BY <2>2, <2>3
  <2> HIDE DEF p
  <2>9. p.op = "command" \/ p.pc \notin {"find", "update"} => Counted(p, execution'[o], writes'[s])
    BY <2>2, <2>4, <2>5, <2>6, <2>7, <2>8, CountOne
  <2>10. Counted(p, execution'[o], writes'[s])
    BY <2>6, <2>9
  <2>11. req'[s] = p
    BY <2>1 DEF p
  <2>12. QED BY <2>3, <2>10, <2>11
<1>3. QED BY <1>1, <1>2

\* A request that is not about to answer a conflict, and reads nothing.
LEMMA Uncounted ==
    ASSUME NEW q, NEW s, NEW w, q.pc \notin {"find", "update"}, q.outcome # "conflict",
           q.pc = "done" \/ q.lost = 0
    PROVE  Counted(q, s, w)
BY DEF Counted

LEMMA StillPasses ==
    ASSUME IInv, NEW r \in Requests, UNCHANGED execution,
           \A s \in Requests \ {r} : writes'[s] = writes[s]
    PROVE  Passes(r)
<1>1. \A s \in Requests : writes[s] \in 0 .. EnoughWrites
  BY DEF IInv, TypeOK
<1>2. QED BY <1>1 DEF Passes, EnoughWrites

\* A write by request r of a status no running occurrence is reset to.
LEMMA WritePasses ==
    ASSUME IInv, NEW r \in Requests, NEW o \in Occurrences, NEW s \in Statuses, Write(r, o, s),
           \/ execution[o] = "none" /\ o[1] \in jogaks
           \/ execution[o] # "none" /\ s # "IN_PROGRESS"
    PROVE  Passes(r)
<1>1. /\ execution' = [execution EXCEPT ![o] = s]
      /\ writes' = [x \in Requests |->
            IF x # r /\ req[x].op = "command" /\ req[x].occ = o /\ writes[x] < EnoughWrites
            THEN writes[x] + 1 ELSE writes[x]]
  BY DEF Write
<1>2. \A x \in Requests : writes[x] \in 0 .. EnoughWrites
  BY DEF IInv, TypeOK
<1>3. \A x \in Requests \ {r} : writes'[x] >= writes[x]
  BY <1>1, <1>2 DEF EnoughWrites
<1>4. ASSUME NEW x \in Requests \ {r}, req[x].op = "command", req[x].occ = o
      PROVE  writes'[x] = writes[x] + 1 \/ writes'[x] = EnoughWrites
  BY <1>1, <1>2, <1>4 DEF EnoughWrites
<1>5. ASSUME NEW x \in Occurrences, x # o
      PROVE  execution'[x] = execution[x]
  BY <1>1, <1>5 DEF IInv, TypeOK
<1>6. execution'[o] = s
  BY <1>1 DEF IInv, TypeOK
<1>7. QED BY <1>3, <1>4, <1>5, <1>6 DEF Passes

\* A request that is answered without a conflict.
LEMMA AnswerCounts ==
    ASSUME IInv, Counts, IInv', NEW r \in Requests, req[r].pc # "idle", NEW v \in Outcomes,
           v # "conflict", Finish(r, v), Passes(r)
    PROVE  Counts'
<1>1. req[r] \in Serving
  BY InService DEF IInv
<1>2. PICK f \in Serving : Become(r, f) /\ f.pc = "done" /\ f.outcome = v
  BY <1>1, FinishLeaves
<1>3. Counted(f, execution'[f.occ], writes'[r])
  BY <1>2, Uncounted
<1>4. QED BY <1>2, <1>3, OthersCount

\* Steps before the row is looked at, and the answer going out.
LEMMA EdgeCounts ==
    ASSUME IInv, Counts, IInv', NEW r \in Requests,
           Start(r) \/ FindOwnedJogak(r) \/ LoadSchedules(r) \/ Reply(r)
    PROVE  Counts'
<1>1. CASE Start(r)
  <2>1. PICK op \in {"command", "post"}, o \in Occurrences, d \in Statuses :
          Become(r, [op |-> op, pc |-> "owned", occ |-> o, desired |-> d,
                     existing |-> "none", lost |-> 0, outcome |-> "none"])
    BY <1>1 DEF Start
  <2> DEFINE q == [op |-> op, pc |-> "owned", occ |-> o, desired |-> d,
                   existing |-> "none", lost |-> 0, outcome |-> "none"]
  <2>2. q \in Serving /\ q.pc = "owned" /\ q.outcome = "none" /\ q.lost = 0
    BY DEF Serving
  <2>3. Become(r, q)
    BY <2>1
  <2> HIDE DEF q
  <2>4. Passes(r)
    BY <1>1, StillPasses DEF Start
  <2>5. QED BY <2>2, <2>3, <2>4, Uncounted, OthersCount
<1>2. CASE FindOwnedJogak(r) \/ LoadSchedules(r)
  <2>1. /\ req[r].pc \in {"owned", "schedules"} /\ req[r] \in Serving
        /\ Counted(req[r], StatusFor(req[r]), writes[r])
        /\ UNCHANGED <<execution, writes>>
    BY <1>2, InService DEF FindOwnedJogak, LoadSchedules, IInv, Counts
  <2>2. Passes(r)
    BY <2>1, StillPasses
  <2>3. CASE Finish(r, "missing") \/ Finish(r, "refused")
    BY <2>1, <2>2, <2>3, AnswerCounts DEF Outcomes
  <2>4. ASSUME NEW pc \in {"schedules", "insert"}, Become(r, [req[r] EXCEPT !.pc = pc])
        PROVE  Counts'
    <3> DEFINE q == [req[r] EXCEPT !.pc = pc]
    <3>1. q \in Serving /\ q.pc = pc /\ q.lost = 0
      BY <2>1 DEF Serving, Counted
    <3>2. Become(r, q)
      BY <2>4
    <3> HIDE DEF q
    <3>3. Counted(q, execution'[q.occ], writes'[r])
      BY <3>1 DEF Counted
    <3>4. QED BY <2>2, <3>1, <3>2, <3>3, OthersCount
  <2>5. QED BY <1>2, <2>3, <2>4 DEF FindOwnedJogak, LoadSchedules
<1>3. CASE Reply(r)
  <2>1. Become(r, Idle) /\ UNCHANGED execution /\ writes' = [writes EXCEPT ![r] = 0]
    BY <1>3 DEF Reply
  <2>2. \A s \in Requests \ {r} : writes'[s] = writes[s]
    BY <2>1 DEF IInv, TypeOK
  <2>3. QED BY <2>1, <2>2, StillPasses, OthersCount, IdleFields
<1>4. QED BY <1>1, <1>2, <1>3

LEMMA InsertCounts ==
    ASSUME IInv, Counts, IInv', NEW r \in Requests, InsertExecution(r)
    PROVE  Counts'
<1> DEFINE o == req[r].occ
<1>1. /\ req[r] \in Serving /\ req[r].pc = "insert" /\ o \in Occurrences
      /\ req[r].desired \in Statuses /\ Counted(req[r], StatusFor(req[r]), writes[r])
  BY InService DEF InsertExecution, IInv, Serving, Counts
<1>2. CASE o[1] \in jogaks /\ execution[o] = "none"
  <2>1. Write(r, o, req[r].desired) /\ Finish(r, "created")
    BY <1>2 DEF InsertExecution
  <2>2. Passes(r)
    BY <1>1, <1>2, <2>1, WritePasses
  <2>3. QED BY <1>1, <2>1, <2>2, AnswerCounts DEF Outcomes
<1>3. CASE ~(o[1] \in jogaks /\ execution[o] = "none")
  <2> DEFINE q == [req[r] EXCEPT !.pc = "find"]
  <2>1. q \in Serving /\ q.pc = "find" /\ q.lost = 0
    BY <1>1 DEF Serving, Counted
  <2>2. Become(r, q) /\ UNCHANGED <<execution, writes>>
    BY <1>3 DEF InsertExecution
  <2> HIDE DEF q
  <2>3. Counted(q, execution'[q.occ], writes'[r])
    BY <2>1 DEF Counted
  <2>4. Passes(r)
    BY <2>2, StillPasses
  <2>5. QED BY <2>1, <2>2, <2>3, <2>4, OthersCount
<1>4. QED BY <1>2, <1>3

\* The third time a command finds the row in a status it would have to change,
\* the row was written three times.
LEMMA ConflictCounts ==
    ASSUME IInv, Counts, IInv', NEW r \in Requests, FindExecution(r), Finish(r, "conflict")
    PROVE  Counts'
<1> DEFINE o == req[r].occ
<1>1. /\ req[r] \in Serving /\ req[r].pc = "find" /\ o \in Occurrences
      /\ req[r].desired \in Statuses
      /\ Counted(req[r], execution[o], writes[r])
      /\ UNCHANGED <<execution, writes>>
  BY InService DEF FindExecution, IInv, Serving, Counts, StatusFor
<1>2. PICK f \in Serving : Become(r, f) /\ f.pc = "done" /\ f.outcome = "conflict"
  BY <1>1, FinishLeaves DEF Outcomes
<1>3. req'[r] = f
  BY <1>2 DEF Become, IInv, TypeOK
<1>4. execution[o] \in Statuses \cup {"none"}
  BY <1>1 DEF IInv, TypeOK
<1>5. execution[o] # "none" /\ execution[o] # req[r].desired /\ req[r].lost = 2
  <2>1. ASSUME NEW v \in {"missing", "unchanged", "rejected"}
        PROVE  ~Finish(r, v)
    <3>1. SUFFICES ASSUME Finish(r, v) PROVE FALSE
      OBVIOUS
    <3>2. PICK g \in Serving : Become(r, g) /\ g.outcome = v
      BY <1>1, <3>1, FinishLeaves DEF Outcomes
    <3>3. req'[r] = g
      BY <3>2 DEF Become, IInv, TypeOK
    <3>4. QED BY <1>2, <1>3, <3>2, <3>3
  <2>2. ~Become(r, [req[r] EXCEPT !.pc = "update", !.existing = execution[o]])
    <3> DEFINE g == [req[r] EXCEPT !.pc = "update", !.existing = execution[o]]
    <3>1. g.pc = "update"
      BY <1>1 DEF Serving
    <3> HIDE DEF g
    <3>2. ~Become(r, g)
      BY <1>2, <1>3, <3>1 DEF Become, IInv, TypeOK
    <3>3. QED BY <3>2 DEF g
  <2>3. QED BY <2>1, <2>2 DEF FindExecution, Transition
<1>6. writes[r] = EnoughWrites
  BY <1>1, <1>5 DEF Counted
<1>7. Counted(f, execution'[f.occ], writes'[r])
  BY <1>1, <1>2, <1>6 DEF Counted
<1>8. Passes(r)
  BY <1>1, StillPasses
<1>9. QED BY <1>2, <1>7, <1>8, OthersCount

LEMMA FindCounts ==
    ASSUME IInv, Counts, IInv', NEW r \in Requests, FindExecution(r)
    PROVE  Counts'
<1> DEFINE o == req[r].occ
<1>1. /\ req[r] \in Serving /\ req[r].pc = "find" /\ o \in Occurrences
      /\ Counted(req[r], execution[o], writes[r])
      /\ UNCHANGED <<execution, writes>>
  BY InService DEF FindExecution, IInv, Serving, Counts, StatusFor
<1>2. Passes(r)
  BY <1>1, StillPasses
<1>3. ASSUME NEW v \in {"missing", "unchanged", "rejected"}, Finish(r, v)
      PROVE  Counts'
  BY <1>1, <1>2, <1>3, AnswerCounts DEF Outcomes
<1> DEFINE current == execution[o]
           q == [req[r] EXCEPT !.pc = "update", !.existing = current]
<1>4. ASSUME current \in Statuses \ {req[r].desired}, req[r].lost # 2, Become(r, q)
      PROVE  Counts'
  <2>1. /\ q \in Serving /\ q.pc = "update" /\ q.existing = current /\ q.occ = o
        /\ q.lost = req[r].lost
    BY <1>1, <1>4 DEF Serving
  <2>2. Become(r, q)
    BY <1>4
  <2>3. q.lost \in 0 .. 1 /\ writes[r] \in 0 .. EnoughWrites
    BY <1>1, <1>4, <2>1 DEF Serving, IInv, TypeOK
  <2>4. q.lost > 0 => current # "IN_PROGRESS" /\ q.lost <= writes[r]
    BY <1>1, <1>4, <2>1 DEF Counted, Statuses
  <2> HIDE DEF q
  <2>5. Counted(q, current, writes[r])
    BY <2>1, <2>3, <2>4 DEF Counted, EnoughWrites
  <2>6. Counted(q, execution'[q.occ], writes'[r])
    BY <1>1, <2>1, <2>5
  <2>7. QED BY <1>2, <2>1, <2>2, <2>6, OthersCount
<1>5. QED BY <1>3, <1>4, ConflictCounts, FindCases

LEMMA UpdateCounts ==
    ASSUME IInv, Counts, IInv', NEW r \in Requests, UpdateExecutionStatus(r)
    PROVE  Counts'
<1> DEFINE o == req[r].occ
<1>1. /\ req[r] \in Serving /\ req[r].pc = "update" /\ o \in Occurrences
      /\ req[r].desired \in Statuses /\ Expecting(req[r])
      /\ Counted(req[r], execution[o], writes[r])
  BY InService DEF UpdateExecutionStatus, IInv, Serving, Counts, StatusFor
<1>2. CASE execution[o] = req[r].existing
  <2>1. Write(r, o, req[r].desired) /\ Finish(r, "updated")
    BY <1>2 DEF UpdateExecutionStatus
  <2>2. execution[o] # "none" /\ req[r].desired # "IN_PROGRESS"
    BY <1>1, <1>2 DEF Expecting, Statuses
  <2>3. Passes(r)
    BY <1>1, <2>1, <2>2, WritePasses
  <2>4. QED BY <1>1, <2>1, <2>3, AnswerCounts DEF Outcomes
<1>3. CASE execution[o] # req[r].existing
  <2> DEFINE f == [req[r] EXCEPT !.pc = "find", !.existing = "none"]
             q == [f EXCEPT !.lost = f.lost + 1]
  <2>1. /\ f \in Serving /\ f.pc = "find" /\ f.occ = o /\ f.lost = req[r].lost
        /\ f.desired = req[r].desired
    BY <1>1 DEF Serving
  <2>2. Become(r, q) /\ UNCHANGED <<execution, writes>>
    BY <1>1, <1>3 DEF UpdateExecutionStatus, Serving, Become
  <2>3. f.lost \in 0 .. 1 /\ req[r].existing # req[r].desired /\ req[r].desired # "IN_PROGRESS"
        /\ req[r].existing \in Statuses
    BY <1>1, <2>1 DEF Expecting
  <2> HIDE DEF f
  <2>4. /\ q \in Serving /\ q.pc = "find" /\ q.occ = o /\ q.lost = f.lost + 1
        /\ q.desired = f.desired
    BY <2>1, <2>3 DEF Serving
  <2> HIDE DEF q
  <2>5. /\ execution[o] \in Statuses \cup {"none"} /\ writes[r] \in 0 .. EnoughWrites
        /\ req[r].desired \in Statuses
    BY <1>1 DEF IInv, TypeOK
  <2>6. Counted(q, execution[o], writes[r])
    <3>1. CASE execution[o] = "none"
      BY <2>4, <3>1 DEF Counted
    <3>2. CASE execution[o] # "none"
      <4>1. execution[o] # "IN_PROGRESS" /\ f.lost < writes[r]
        BY <1>1, <1>3, <2>1, <3>2 DEF Counted
      <4>2. f.lost = 1 => req[r].existing # "IN_PROGRESS"
        BY <1>1, <2>1, <3>2 DEF Counted
      <4>3. f.lost = 1 => execution[o] = q.desired
        BY <1>3, <2>1, <2>3, <2>4, <2>5, <3>2, <4>1, <4>2 DEF Statuses
      <4>4. q.lost <= writes[r] /\ (q.lost = 2 => f.lost = 1)
        BY <2>3, <2>4, <2>5, <4>1
      <4>5. QED BY <2>4, <4>1, <4>3, <4>4 DEF Counted
    <3>3. QED BY <3>1, <3>2
  <2>7. Counted(q, execution'[q.occ], writes'[r])
    BY <2>2, <2>4, <2>6
  <2>8. Passes(r)
    BY <2>2, StillPasses
  <2>9. QED BY <2>2, <2>4, <2>7, <2>8, OthersCount
<1>4. QED BY <1>2, <1>3

LEMMA CreateCounts ==
    ASSUME IInv, Counts, IInv', NEW r \in Requests, CreateForOccurrence(r)
    PROVE  Counts'
<1> DEFINE o == req[r].occ
<1>1. req[r] \in Serving /\ req[r].pc = "insert" /\ o \in Occurrences
  BY InService DEF CreateForOccurrence, IInv, Serving
<1>2. PICK v \in {"missing", "duplicate", "posted"} : Finish(r, v)
  BY DEF CreateForOccurrence
<1>3. Passes(r)
  <2>1. CASE o[1] \in jogaks /\ execution[o] = "none"
    <3>1. Write(r, o, "IN_PROGRESS") /\ "IN_PROGRESS" \in Statuses
      BY <2>1 DEF CreateForOccurrence, Statuses
    <3>2. QED BY <1>1, <2>1, <3>1, WritePasses
  <2>2. CASE ~(o[1] \in jogaks /\ execution[o] = "none")
    <3>1. UNCHANGED <<execution, writes>>
      BY <2>2 DEF CreateForOccurrence
    <3>2. QED BY <3>1, StillPasses
  <2>3. QED BY <2>1, <2>2
<1>4. QED BY <1>1, <1>2, <1>3, AnswerCounts DEF Outcomes

\* A deletion takes the row away, and a crash the requests.
LEMMA EnvironmentCounts ==
    ASSUME IInv, Counts, DeleteOwnedPost \/ PatchOwnedJogak \/ DeleteOwnedJogak \/ Crash
    PROVE  Counts'
<1>1. CASE DeleteOwnedPost \/ PatchOwnedJogak
  <2>1. UNCHANGED <<execution, req, writes>>
    BY <1>1 DEF DeleteOwnedPost, PatchOwnedJogak
  <2>2. QED BY <2>1 DEF Counts, StatusFor
<1>2. CASE DeleteOwnedJogak
  <2>1. PICK j \in jogaks :
          execution' = [o \in Occurrences |-> IF o[1] = j THEN "none" ELSE execution[o]]
    BY <1>2 DEF DeleteOwnedJogak
  <2>2. UNCHANGED <<req, writes>>
    BY <1>2 DEF DeleteOwnedJogak
  <2>3. ASSUME NEW r \in Requests, req[r].pc # "idle"
        PROVE  Counted(req[r], execution'[req[r].occ], writes[r])
    <3>1. req[r] \in Serving /\ req[r].occ \in Occurrences
      BY <2>3, InService DEF IInv, Serving
    <3>2. execution'[req[r].occ] \in {"none", execution[req[r].occ]}
      BY <2>1, <3>1
    <3>3. Counted(req[r], execution[req[r].occ], writes[r])
      BY <2>3 DEF Counts, StatusFor
    <3>4. QED BY <3>2, <3>3 DEF Counted
  <2>4. QED BY <2>2, <2>3 DEF Counts, StatusFor
<1>3. CASE Crash
  <2>1. \A r \in Requests : req'[r] = Idle
    BY <1>3 DEF Crash
  <2>2. QED BY <2>1, IdleFields DEF Counts
<1>4. QED BY <1>1, <1>2, <1>3

LEMMA NextCounts == IInv /\ Counts /\ [Next]_vars => Counts'
<1> SUFFICES ASSUME IInv, Counts, [Next]_vars PROVE Counts'
  OBVIOUS
<1>1. IInv'
  BY NextIInv
<1>2. CASE UNCHANGED vars
  BY <1>2 DEF vars, Counts, StatusFor
<1>3. CASE Next
  BY <1>1, <1>3, EdgeCounts, InsertCounts, FindCounts, UpdateCounts, CreateCounts,
     EnvironmentCounts DEF Next, Serve
<1>4. QED BY <1>2, <1>3

\* Losing one race is always made good by the retry: a command is answered with
\* a conflict only when others wrote the status of its occurrence three times
\* while it was in flight.
THEOREM ConflictsTakeThreeWrites == Spec => []ConflictNeedsThreeWrites
<1>1. Init => Counts
  BY IdleFields DEF Init, Counts
<1>2. Counts => ConflictNeedsThreeWrites
  BY DEF Counts, Counted, ConflictNeedsThreeWrites
<1>3. QED BY InitIInv, NextIInv, NextCounts, <1>1, <1>2, PTL DEF Spec

-----------------------------------------------------------------------------
(* Finished occurrences *)

LEMMA WriteFinishes ==
    ASSUME IInv, NEW r \in Requests, NEW o \in Occurrences, NEW s \in Statuses, Write(r, o, s),
           execution[o] = "none" \/ s # "IN_PROGRESS"
    PROVE  \A x \in Occurrences :
              execution[x] \in {"SUCCESS", "FAIL"} => execution'[x] # "IN_PROGRESS"
BY WriteType DEF IInv, TypeOK

LEMMA NextFinished ==
    ASSUME IInv, [Next]_vars
    PROVE  \A x \in Occurrences :
              execution[x] \in {"SUCCESS", "FAIL"} => execution'[x] # "IN_PROGRESS"
<1>1. CASE UNCHANGED execution
  BY <1>1
<1>2. CASE DeleteOwnedJogak
  BY <1>2 DEF DeleteOwnedJogak
<1>3. ASSUME NEW r \in Requests, InsertExecution(r) \/ CreateForOccurrence(r)
      PROVE  \/ UNCHANGED execution
             \/ \E o \in Occurrences, s \in Statuses : Write(r, o, s) /\ execution[o] = "none"
  <2>1. req[r] \in Serving /\ req[r].occ \in Occurrences /\ req[r].desired \in Statuses
    BY <1>3, InService DEF InsertExecution, CreateForOccurrence, IInv, Serving
  <2>2. QED BY <1>3, <2>1 DEF InsertExecution, CreateForOccurrence, Statuses
<1>4. ASSUME NEW r \in Requests, UpdateExecutionStatus(r)
      PROVE  \/ UNCHANGED execution
             \/ \E o \in Occurrences, s \in Statuses : Write(r, o, s) /\ s # "IN_PROGRESS"
  <2>1. /\ req[r] \in Serving /\ req[r].pc = "update"
        /\ req[r].occ \in Occurrences /\ req[r].desired \in Statuses /\ Expecting(req[r])
    BY <1>4, InService DEF UpdateExecutionStatus, IInv, Serving
  <2>2. QED BY <1>4, <2>1 DEF UpdateExecutionStatus, Expecting
<1>5. ASSUME Next
      PROVE  \/ UNCHANGED execution
             \/ DeleteOwnedJogak
             \/ \E r \in Requests : \/ InsertExecution(r) \/ CreateForOccurrence(r)
                                    \/ UpdateExecutionStatus(r)
  BY <1>5 DEF Next, Serve, Start, FindOwnedJogak, LoadSchedules, FindExecution, Reply,
              DeleteOwnedPost, PatchOwnedJogak, Crash
<1>6. QED BY <1>1, <1>2, <1>3, <1>4, <1>5, WriteFinishes DEF vars

\* An occurrence that was finished never runs again: a command never asks a
\* finished row to be IN_PROGRESS, however old what it read, and the execution a
\* post starts is only inserted where there is none.
THEOREM FinishedOnesStay == Spec => FinishedStaysFinished
<1>1. IInv /\ [Next]_vars =>
        [\A o \in Occurrences :
            execution[o] \in {"SUCCESS", "FAIL"} => execution'[o] # "IN_PROGRESS"]_vars
  BY NextFinished
<1>2. QED BY InitIInv, NextIInv, <1>1, PTL DEF Spec, FinishedStaysFinished

=============================================================================
