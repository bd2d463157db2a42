---------------------------- MODULE JobLifecycle ----------------------------
(***************************************************************************)
(* What the job bridge promises about one admitted job, without clocks,    *)
(* reads, commits or sweeps: it is granted to one holder at a time, at     *)
(* most MaxAttempts times, each grant ends once, and nothing but its       *)
(* removal leaves a published or an exhausted job.                         *)
(***************************************************************************)
EXTENDS Naturals

CONSTANTS Jobs, Services, NoService, MaxAttempts

VARIABLES
  phase,   \* where each job is in its life
  grants,  \* leases granted since the job was admitted
  holder   \* who holds the job's lease now

lifecycle == <<phase, grants, holder>>

Init ==
  /\ phase = [j \in Jobs |-> "absent"]
  /\ grants = [j \in Jobs |-> 0]
  /\ holder = [j \in Jobs |-> NoService]

Admit(j) ==
  /\ phase[j] = "absent"
  /\ phase' = [phase EXCEPT ![j] = "waiting"]
  /\ UNCHANGED <<grants, holder>>

Grant(j, service) ==
  /\ phase[j] = "waiting"
  /\ grants[j] < MaxAttempts
  /\ phase' = [phase EXCEPT ![j] = "held"]
  /\ grants' = [grants EXCEPT ![j] = @ + 1]
  /\ holder' = [holder EXCEPT ![j] = service]

\* The holder reports an outcome or its lease lapses.
End(j, outcome) ==
  /\ phase[j] = "held"
  /\ outcome = "backoff" => grants[j] < MaxAttempts
  /\ outcome = "exhausted" => grants[j] = MaxAttempts
  /\ phase' = [phase EXCEPT ![j] = outcome]
  /\ holder' = [holder EXCEPT ![j] = NoService]
  /\ UNCHANGED grants

Requeue(j) ==
  /\ phase[j] = "backoff"
  /\ phase' = [phase EXCEPT ![j] = "waiting"]
  /\ UNCHANGED <<grants, holder>>

\* Several orphaned jobs may be removed at once.
Remove(doomed) ==
  /\ phase' = [j \in Jobs |-> IF j \in doomed THEN "absent" ELSE phase[j]]
  /\ grants' = [j \in Jobs |-> IF j \in doomed THEN 0 ELSE grants[j]]
  /\ holder' = [j \in Jobs |-> IF j \in doomed THEN NoService ELSE holder[j]]

Next ==
  \/ \E j \in Jobs :
       \/ Admit(j)
       \/ \E service \in Services : Grant(j, service)
       \/ \E outcome \in {"published", "backoff", "exhausted"} : End(j, outcome)
       \/ Requeue(j)
  \/ \E doomed \in SUBSET Jobs : Remove(doomed)

Spec == Init /\ [][Next]_lifecycle
=============================================================================
