---------------------------- MODULE JogakExecution ----------------------------
(***************************************************************************)
(* The executions of the jogaks of one user: commandExecution of           *)
(* JogaksService, createPost of PostService and the calls that change or   *)
(* delete jogaks under them, one step per await.  Each repository method   *)
(* that writes is one transaction, atomic under the locks of its jogak's   *)
(* path (TransactionLocks).                                                *)
(*                                                                         *)
(* The row of an execution is named by its jogak and date, which the table *)
(* keeps unique: a row goes only with its jogak, and jogak ids are not     *)
(* reused, so a row id and the key name the same row for ever.             *)
(***************************************************************************)
EXTENDS Naturals

CONSTANTS Jogaks,      \* ids the jogaks table may hold
          Dates,       \* dates commands may name
          Schedules,   \* the sets of those dates a schedule may occur on
          Requests     \* HTTP requests in flight

ASSUME SchedulesAssumption == Schedules \subseteq SUBSET Dates

VARIABLES jogaks,      \* jogaks that exist
          occurs,      \* jogak_schedules: the dates each jogak occurs on
          execution,   \* daily_jogak: status by jogak and date
          posts,       \* occurrences that have a post
          req,         \* requests in flight and their local variables
          writes       \* history: status changes by others since a request began

vars == <<jogaks, occurs, execution, posts, req, writes>>

Statuses == {"IN_PROGRESS", "SUCCESS", "FAIL"}
Occurrences == Jogaks \X Dates

\* Bound of the history counter.
EnoughWrites == 3

Outcomes == {"created", "updated", "unchanged", "rejected", "missing", "refused",
             "conflict", "posted", "duplicate"}

Idle == [op |-> "none", pc |-> "idle"]

Serving ==
    [op : {"command", "post"},
     pc : {"owned", "schedules", "insert", "find", "update", "done"},
     occ : Occurrences, desired : Statuses, existing : Statuses \cup {"none"}, lost : 0 .. 2,
     outcome : Outcomes \cup {"none"}]

TypeOK ==
    /\ jogaks \subseteq Jogaks
    /\ occurs \in [Jogaks -> SUBSET Dates]
    /\ execution \in [Occurrences -> Statuses \cup {"none"}]
    /\ posts \subseteq Occurrences
    /\ req \in [Requests -> Serving \cup {Idle}]
    /\ writes \in [Requests -> 0 .. EnoughWrites]
    /\ \A o \in Occurrences : o[1] \notin jogaks => execution[o] = "none"

-----------------------------------------------------------------------------
(* Helpers *)

Become(r, q) == req' = [req EXCEPT ![r] = q]

\* Local variables are forgotten where the code no longer reads them.
Finish(r, outcome) ==
    Become(r, [req[r] EXCEPT !.pc = "done", !.existing = "none", !.lost = 0,
                             !.outcome = outcome])

\* What decideJogakExecutionTransition says of a row in status current.
Transition(current, desired) ==
    CASE current = desired -> "NOOP"
      [] current # desired /\ desired = "IN_PROGRESS" -> "REJECT"
      [] OTHER -> "UPDATE"

\* Write the status of an occurrence; the requests about it take note.
Write(r, o, status) ==
    /\ execution' = [execution EXCEPT ![o] = status]
    /\ writes' = [x \in Requests |->
          IF x # r /\ req[x].op = "command" /\ req[x].occ = o /\ writes[x] < EnoughWrites
          THEN writes[x] + 1 ELSE writes[x]]

-----------------------------------------------------------------------------
(* commandExecution, and the lookup createPost shares with it *)

Start(r) ==
    /\ req[r].pc = "idle"
    /\ \E op \in {"command", "post"}, o \in Occurrences, d \in Statuses :
          /\ op = "post" => d = "IN_PROGRESS"
          /\ Become(r, [op |-> op, pc |-> "owned", occ |-> o, desired |-> d,
                        existing |-> "none", lost |-> 0, outcome |-> "none"])
    /\ UNCHANGED <<jogaks, occurs, execution, posts, writes>>

FindOwnedJogak(r) ==
    /\ req[r].pc = "owned"
    /\ IF req[r].occ[1] \in jogaks
       THEN Become(r, [req[r] EXCEPT !.pc = "schedules"])
       ELSE Finish(r, "missing")
    /\ UNCHANGED <<jogaks, occurs, execution, posts, writes>>

\* A jogak deleted since has no schedule rows either.
LoadSchedules(r) ==
    LET o == req[r].occ IN
    /\ req[r].pc = "schedules"
    /\ IF o[2] \in occurs[o[1]]
       THEN Become(r, [req[r] EXCEPT !.pc = "insert"])
       ELSE Finish(r, "refused")
    /\ UNCHANGED <<jogaks, occurs, execution, posts, writes>>

\* INSERT ... ON CONFLICT DO NOTHING under the lock of the jogak; no row is
\* returned for a conflict and for a jogak that is gone.
InsertExecution(r) ==
    LET o == req[r].occ IN
    /\ req[r].pc = "insert" /\ req[r].op = "command"
    /\ IF o[1] \in jogaks /\ execution[o] = "none"
       THEN Write(r, o, req[r].desired) /\ Finish(r, "created")
       ELSE /\ Become(r, [req[r] EXCEPT !.pc = "find"])
            /\ UNCHANGED <<execution, writes>>
    /\ UNCHANGED <<jogaks, occurs, posts>>

\* Mutation: no retry bound.
RetryForever(r) ==
    LET q == req[r]
        current == execution[q.occ]
    IN
    /\ q.pc = "find"
    /\ IF current = "none" THEN Finish(r, "missing")
       ELSE CASE Transition(current, q.desired) = "NOOP" -> Finish(r, "unchanged")
              [] Transition(current, q.desired) = "REJECT" -> Finish(r, "rejected")
              [] OTHER -> Become(r, [q EXCEPT !.pc = "update", !.existing = current, !.lost = 0])
    /\ UNCHANGED <<jogaks, occurs, execution, posts, writes>>

\* Mutation: no retry at all.
GiveUpAtOnce(r) ==
    LET q == req[r]
        current == execution[q.occ]
    IN
    /\ q.pc = "find"
    /\ IF current = "none" THEN Finish(r, "missing")
       ELSE CASE Transition(current, q.desired) = "NOOP" -> Finish(r, "unchanged")
              [] Transition(current, q.desired) = "REJECT" -> Finish(r, "rejected")
              [] Transition(current, q.desired) = "UPDATE" /\ q.lost = 1 -> Finish(r, "conflict")
              [] OTHER -> Become(r, [q EXCEPT !.pc = "update", !.existing = current])
    /\ UNCHANGED <<jogaks, occurs, execution, posts, writes>>

\* transitionExisting on the row just read, or, after two lost updates,
\* resolveAfterLostTransition.
FindExecution(r) ==
    LET q == req[r]
        current == execution[q.occ]
    IN
    /\ q.pc = "find"
    /\ IF current = "none" THEN Finish(r, "missing")
       ELSE CASE Transition(current, q.desired) = "NOOP" -> Finish(r, "unchanged")
              [] Transition(current, q.desired) = "REJECT" -> Finish(r, "rejected")
              [] Transition(current, q.desired) = "UPDATE" /\ q.lost = 2 -> Finish(r, "conflict")
              [] OTHER -> Become(r, [q EXCEPT !.pc = "update", !.existing = current])
    /\ UNCHANGED <<jogaks, occurs, execution, posts, writes>>

\* Mutation: UPDATE without the status it expects.
BlindUpdate(r) ==
    LET q == req[r] IN
    /\ q.pc = "update"
    /\ IF execution[q.occ] # "none"
       THEN Write(r, q.occ, q.desired) /\ Finish(r, "updated")
       ELSE /\ Become(r, [q EXCEPT !.pc = "find", !.existing = "none", !.lost = @ + 1])
            /\ UNCHANGED <<execution, writes>>
    /\ UNCHANGED <<jogaks, occurs, posts>>

\* UPDATE ... WHERE id AND status = the status that was read.
UpdateExecutionStatus(r) ==
    LET q == req[r] IN
    /\ q.pc = "update"
    /\ IF execution[q.occ] = q.existing
       THEN Write(r, q.occ, q.desired) /\ Finish(r, "updated")
       ELSE /\ Become(r, [q EXCEPT !.pc = "find", !.existing = "none", !.lost = @ + 1])
            /\ UNCHANGED <<execution, writes>>
    /\ UNCHANGED <<jogaks, occurs, posts>>

-----------------------------------------------------------------------------
(* Posts *)

\* Mutation: the execution inserted for a post replaces the one that is there.
RestartForOccurrence(r) ==
    LET o == req[r].occ IN
    /\ req[r].pc = "insert" /\ req[r].op = "post"
    /\ IF o[1] \notin jogaks
       THEN Finish(r, "missing") /\ UNCHANGED <<execution, posts, writes>>
       ELSE /\ Write(r, o, "IN_PROGRESS")
            /\ posts' = posts \cup {o}
            /\ Finish(r, IF o \in posts THEN "duplicate" ELSE "posted")
    /\ UNCHANGED <<jogaks, occurs>>

\* One transaction: start the occurrence if need be, and insert the post
\* unless the execution has one.
CreateForOccurrence(r) ==
    LET o == req[r].occ IN
    /\ req[r].pc = "insert" /\ req[r].op = "post"
    /\ IF o[1] \notin jogaks
       THEN Finish(r, "missing") /\ UNCHANGED <<execution, posts, writes>>
       ELSE /\ IF execution[o] = "none" THEN Write(r, o, "IN_PROGRESS")
               ELSE UNCHANGED <<execution, writes>>
            /\ posts' = posts \cup {o}
            /\ Finish(r, IF o \in posts THEN "duplicate" ELSE "posted")
    /\ UNCHANGED <<jogaks, occurs>>

DeleteOwnedPost ==
    /\ \E o \in posts : posts' = posts \ {o}
    /\ UNCHANGED <<jogaks, occurs, execution, req, writes>>

-----------------------------------------------------------------------------
(* Jogaks *)

\* Change the schedule; executions on dates it no longer has stay.
PatchOwnedJogak ==
    /\ \E j \in jogaks, s \in Schedules : occurs' = [occurs EXCEPT ![j] = s]
    /\ UNCHANGED <<jogaks, execution, posts, req, writes>>

\* Mutation: the executions stay.
DeleteJogakOnly ==
    /\ \E j \in jogaks : jogaks' = jogaks \ {j} /\ occurs' = [occurs EXCEPT ![j] = {}]
    /\ UNCHANGED <<execution, posts, req, writes>>

\* The tree of the jogak goes in one transaction; its posts are kept.
DeleteOwnedJogak ==
    /\ \E j \in jogaks :
          /\ jogaks' = jogaks \ {j}
          /\ occurs' = [occurs EXCEPT ![j] = {}]
          /\ execution' = [o \in Occurrences |-> IF o[1] = j THEN "none" ELSE execution[o]]
    /\ UNCHANGED <<posts, req, writes>>

-----------------------------------------------------------------------------
(* Answers and crashes *)

Reply(r) ==
    /\ req[r].pc = "done"
    /\ Become(r, Idle)
    /\ writes' = [writes EXCEPT ![r] = 0]
    /\ UNCHANGED <<jogaks, occurs, execution, posts>>

Crash ==
    /\ \E r \in Requests : req[r].pc # "idle"
    /\ req' = [r \in Requests |-> Idle]
    /\ writes' = [r \in Requests |-> 0]
    /\ UNCHANGED <<jogaks, occurs, execution, posts>>

Init ==
    /\ jogaks = Jogaks /\ occurs \in [Jogaks -> Schedules]
    /\ execution = [o \in Occurrences |-> "none"]
    /\ posts = {}
    /\ req = [r \in Requests |-> Idle]
    /\ writes = [r \in Requests |-> 0]

\* What a request does once it was received.
Serve(r) ==
    \/ FindOwnedJogak(r) \/ LoadSchedules(r) \/ InsertExecution(r) \/ FindExecution(r)
    \/ UpdateExecutionStatus(r) \/ CreateForOccurrence(r) \/ Reply(r)

Next ==
    \/ \E r \in Requests : Start(r) \/ Serve(r)
    \/ DeleteOwnedPost \/ PatchOwnedJogak \/ DeleteOwnedJogak \/ Crash

Spec == Init /\ [][Next]_vars

\* The event loop resumes a request whose await has settled.
FairSpec == Spec /\ \A r \in Requests : WF_vars(Serve(r))

-----------------------------------------------------------------------------
(* Properties *)

\* The service implements the atomic register: whatever status a command read
\* before others wrote, it answers as if it had decided at one instant.
Quiet == [phase |-> "idle"]

CallOf(q) ==
    IF q.op # "command" THEN Quiet
    ELSE IF q.pc = "done"
    THEN [phase |-> "done", occ |-> q.occ, desired |-> q.desired, outcome |-> q.outcome]
    ELSE [phase |-> "pending", occ |-> q.occ, desired |-> q.desired]

StatusOf(o) == IF o[1] \in jogaks THEN execution[o] ELSE "gone"

statuses == [o \in Occurrences |-> StatusOf(o)]
calls == [r \in Requests |-> CallOf(req[r])]

Register == INSTANCE ExecutionRegister WITH status <- statuses, call <- calls

ImplementsRegister == Register!Spec

\* A command is answered with a conflict only when others changed the status
\* of its occurrence three times while it was in flight: losing one race is
\* always made good by the retry.
ConflictNeedsThreeWrites ==
    \A r \in Requests : req[r].pc = "done" /\ req[r].op = "command" /\ req[r].outcome = "conflict"
        => writes[r] = EnoughWrites

\* A finished occurrence never goes back to IN_PROGRESS, neither by a command
\* that read it earlier nor by a post that starts occurrences.
FinishedStaysFinished ==
    [][\A o \in Occurrences :
          execution[o] \in {"SUCCESS", "FAIL"} => execution'[o] # "IN_PROGRESS"]_vars

\* Every command and every post is answered, however often others change the
\* status meanwhile.
RequestsAreAnswered == \A r \in Requests : req[r].pc # "idle" ~> req[r].pc = "idle"
=============================================================================
