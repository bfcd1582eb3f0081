---------------------------- MODULE JobLifecycle ----------------------------
(***************************************************************************)
(* What the job queue promises of a job, whoever runs it: it is worked on  *)
(* in numbered tries, at most TryLimit of them; its progress is kept from  *)
(* one try to the next and never runs ahead of what was produced; it ends  *)
(* once, and succeeds only when all stages are behind it.                  *)
(* There are no workers, leases, clocks or lists here.                     *)
(***************************************************************************)
EXTENDS Naturals

CONSTANTS Jobs, LastStage, TryLimit

Done  == LastStage + 1
Ended == {"SUCCEEDED", "FAILED", "CANCELLED"}

VARIABLES
    phase,      \* "ABSENT", "WAITING", "ACTIVE" or one of Ended
    tries,      \* tries begun
    reached,    \* stages recorded as done
    produced    \* stages whose output exists

vars == <<phase, tries, reached, produced>>

Init ==
    /\ phase    = [j \in Jobs |-> "ABSENT"]
    /\ tries    = [j \in Jobs |-> 0]
    /\ reached  = [j \in Jobs |-> 0]
    /\ produced = [j \in Jobs |-> {}]

Move(j, from, to) ==
    /\ phase[j] = from
    /\ phase' = [phase EXCEPT ![j] = to]

Submit(j) ==
    /\ Move(j, "ABSENT", "WAITING")
    /\ UNCHANGED <<tries, reached, produced>>

Begin(j) ==
    /\ Move(j, "WAITING", "ACTIVE")
    /\ tries[j] < TryLimit
    /\ tries' = [tries EXCEPT ![j] = @ + 1]
    /\ UNCHANGED <<reached, produced>>

Produce(j) ==
    /\ phase[j] = "ACTIVE"
    /\ reached[j] < LastStage
    /\ produced' = [produced EXCEPT ![j] = @ \cup {reached[j] + 1}]
    /\ UNCHANGED <<phase, tries, reached>>

Record(j) ==
    /\ phase[j] = "ACTIVE"
    /\ reached[j] < Done
    /\ reached[j] < LastStage => reached[j] + 1 \in produced[j]
    /\ reached' = [reached EXCEPT ![j] = @ + 1]
    /\ UNCHANGED <<phase, tries, produced>>

Yield(j) ==
    /\ Move(j, "ACTIVE", "WAITING")
    /\ tries[j] < TryLimit
    /\ UNCHANGED <<tries, reached, produced>>

Succeed(j) ==
    /\ Move(j, "ACTIVE", "SUCCEEDED")
    /\ reached[j] = Done
    /\ UNCHANGED <<tries, reached, produced>>

Fail(j) ==
    /\ Move(j, "ACTIVE", "FAILED")
    /\ UNCHANGED <<tries, reached, produced>>

Withdraw(j) ==
    /\ Move(j, "WAITING", "CANCELLED")
    /\ UNCHANGED <<tries, reached, produced>>

Advance(j) ==
    \/ Begin(j) \/ Produce(j) \/ Record(j) \/ Yield(j)
    \/ Succeed(j) \/ Fail(j) \/ Withdraw(j)

Next == \E j \in Jobs : Submit(j) \/ Advance(j)

Spec == Init /\ [][Next]_vars

\* A job that was submitted is never left alone for good.
FairSpec == Spec /\ \A j \in Jobs : WF_vars(Advance(j))

=============================================================================
