------------------------------ MODULE JobQueue ------------------------------
(***************************************************************************)
(* What drive() of crates/web/web/fiber-env.js promises its callers,       *)
(* without fibers, stacks or wakers: an executor that runs the submitted   *)
(* jobs one at a time, in the order of submission, and settles each of     *)
(* them with its own outcome, whatever became of the jobs before it.       *)
(***************************************************************************)
EXTENDS Naturals

CONSTANT Jobs

VARIABLES
  job,     \* what the promise of each job shows: see JobStates
  ticket   \* submission order: 0 for a job that never entered the queue

qvars == <<job, ticket>>

JobStates == {"new", "queued", "running", "ok", "err"}

Settled(j) == job[j] \in {"ok", "err"}

Last(t) == t \in Nat /\ \A j \in Jobs : ticket[j] <= t

Init ==
  /\ job = [j \in Jobs |-> "new"]
  /\ ticket = [j \in Jobs |-> 0]

\* The executor does not accept jobs yet: the promise is rejected at once.
Refuse(j) ==
  /\ job[j] = "new"
  /\ job' = [job EXCEPT ![j] = "err"]
  /\ UNCHANGED ticket

Submit(j) ==
  /\ job[j] = "new"
  /\ job' = [job EXCEPT ![j] = "queued"]
  /\ \E t \in {0} \cup {ticket[i] : i \in Jobs} :
       /\ Last(t)
       /\ ticket' = [ticket EXCEPT ![j] = t + 1]

\* A job begins when every job submitted before it has settled.
Begin(j) ==
  /\ job[j] = "queued"
  /\ \A i \in Jobs : 0 < ticket[i] /\ ticket[i] < ticket[j] => Settled(i)
  /\ job' = [job EXCEPT ![j] = "running"]
  /\ UNCHANGED ticket

Finish(j) ==
  /\ job[j] = "running"
  /\ \E outcome \in {"ok", "err"} : job' = [job EXCEPT ![j] = outcome]
  /\ UNCHANGED ticket

Next == \E j \in Jobs : Refuse(j) \/ Submit(j) \/ Begin(j) \/ Finish(j)

Spec == Init /\ [][Next]_qvars

FairSpec == Spec /\ \A j \in Jobs : WF_qvars(Begin(j)) /\ WF_qvars(Finish(j))
=============================================================================
