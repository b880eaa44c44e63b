---------------------------- MODULE AccountLease ----------------------------
(***************************************************************************)
(* What the job queue promises about accounts (auto/internal/job): a job   *)
(* leases its account for one uninterrupted session, no account is leased  *)
(* to two jobs, no job has a second session, and only the end of the       *)
(* process takes a lease away from a job that has not given it back.       *)
(***************************************************************************)
CONSTANTS Accounts, Jobs, None

VARIABLES lease,   \* the job that each account is leased to, or None
          used     \* the jobs that have had their session, or lost it

Init ==
    /\ lease = [a \in Accounts |-> None]
    /\ used = {}

Acquire(a, j) ==
    /\ lease[a] = None
    /\ j \notin used
    /\ lease' = [lease EXCEPT ![a] = j]
    /\ used' = used \cup {j}

Release(a) ==
    /\ lease[a] # None
    /\ lease' = [lease EXCEPT ![a] = None]
    /\ UNCHANGED used

LoseAll ==
    /\ lease' = [a \in Accounts |-> None]
    /\ used' \in SUBSET Jobs
    /\ used \subseteq used'

Next ==
    \/ \E a \in Accounts, j \in Jobs : Acquire(a, j)
    \/ \E a \in Accounts : Release(a)
    \/ LoseAll

Spec == Init /\ [][Next]_<<lease, used>>
=============================================================================
