--------------------------- MODULE ExecutionRegister ---------------------------
(***************************************************************************)
(* What commandExecution promises: for each occurrence (a jogak and a date)*)
(* the service is an atomic register that holds the status of its          *)
(* execution.  A command decides once, against the status of one instant   *)
(* between its call and its answer, by the transition rules of the domain. *)
(* JogakExecution implements it with an INSERT that ignores conflicts, a   *)
(* compare-and-set UPDATE and one retry.                                   *)
(***************************************************************************)
CONSTANTS Occurrences,   \* pairs of a jogak and a date
          Requests       \* calls in flight

VARIABLES status,   \* of each occurrence: "none" before it starts, "gone" after
                    \* its jogak was deleted
          call      \* what each request asked, and its answer once decided

vars == <<status, call>>

Statuses == {"IN_PROGRESS", "SUCCESS", "FAIL"}
Outcomes == {"created", "updated", "unchanged", "rejected", "missing", "refused", "conflict"}

Calls ==
    [phase : {"idle"}] \cup
    [phase : {"pending"}, occ : Occurrences, desired : Statuses] \cup
    [phase : {"done"}, occ : Occurrences, desired : Statuses, outcome : Outcomes]

TypeOK ==
    /\ status \in [Occurrences -> Statuses \cup {"none", "gone"}]
    /\ call \in [Requests -> Calls]

Quiet == [phase |-> "idle"]
Pending(o, d) == [phase |-> "pending", occ |-> o, desired |-> d]
Decided(o, d, outcome) ==
    [phase |-> "done", occ |-> o, desired |-> d, outcome |-> outcome]

\* decideJogakExecutionTransition: what a command for d does to status s.
Verdict(s, d) ==
    CASE s = "gone" -> "missing"
      [] s = "none" -> "created"
      [] s = d -> "unchanged"
      [] s \in Statuses \ {d} /\ d = "IN_PROGRESS" -> "rejected"
      [] OTHER -> "updated"

Invoke(r) ==
    /\ call[r] = Quiet
    /\ \E o \in Occurrences, d \in Statuses : call' = [call EXCEPT ![r] = Pending(o, d)]
    /\ UNCHANGED status

Decide(r) ==
    /\ call[r].phase = "pending"
    /\ LET o == call[r].occ
           d == call[r].desired
           v == Verdict(status[o], d)
       IN /\ call' = [call EXCEPT ![r] = Decided(o, d, v)]
          /\ status' = IF v \in {"created", "updated"}
                       THEN [status EXCEPT ![o] = d] ELSE status

\* The date is not on the schedule, or others kept changing the status: the
\* command has no effect.
Refuse(r) ==
    /\ call[r].phase = "pending"
    /\ \E outcome \in {"refused", "conflict"} :
          call' = [call EXCEPT ![r] = Decided(call[r].occ, call[r].desired, outcome)]
    /\ UNCHANGED status

Answer(r) ==
    /\ call[r].phase = "done"
    /\ call' = [call EXCEPT ![r] = Quiet]
    /\ UNCHANGED status

\* A post on an occurrence that has not started starts it.
StartByPost ==
    /\ \E o \in Occurrences :
          status[o] = "none" /\ status' = [status EXCEPT ![o] = "IN_PROGRESS"]
    /\ UNCHANGED call

\* A jogak is deleted with its executions.
Forget ==
    /\ \E S \in SUBSET Occurrences :
          status' = [o \in Occurrences |-> IF o \in S THEN "gone" ELSE status[o]]
    /\ UNCHANGED call

\* The process dies before it answers.
Abandon ==
    /\ call' = [r \in Requests |-> Quiet]
    /\ UNCHANGED status

Init ==
    /\ status = [o \in Occurrences |-> "none"]
    /\ call = [r \in Requests |-> Quiet]

Next ==
    \/ \E r \in Requests : Invoke(r) \/ Decide(r) \/ Refuse(r) \/ Answer(r)
    \/ StartByPost \/ Forget \/ Abandon

Spec == Init /\ [][Next]_vars
=============================================================================
