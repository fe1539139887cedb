------------------------------ MODULE JobSlots ------------------------------
(***************************************************************************)
(* What the admission control of the playground API promises, with nothing *)
(* of how job.js keeps it: at most MaxConcurrentJobs jobs hold a slot, a   *)
(* job that finds every slot taken waits, waiters are served in the order  *)
(* they came, and a slot that is given back while somebody waits goes      *)
(* straight to the first waiter.  Job.tla is shown to implement it.        *)
(***************************************************************************)
EXTENDS Integers, Sequences, FiniteSets

CONSTANTS
    Jobs,               \* the requests that ever reach prime()
    MaxConcurrentJobs   \* config.max_concurrent_jobs

VARIABLES
    holding,    \* the jobs that own a slot
    waiting     \* the jobs that wait for one, first come first

slotVars == <<holding, waiting>>

Waiters == {waiting[i] : i \in 1..Len(waiting)}

Init ==
    /\ holding = {}
    /\ waiting = <<>>

(* A job that finds a free slot, and nobody before it, takes the slot. *)
Acquire(j) ==
    /\ j \notin holding \cup Waiters
    /\ waiting = <<>>
    /\ Cardinality(holding) < MaxConcurrentJobs
    /\ holding' = holding \cup {j}
    /\ UNCHANGED waiting

(* A job that finds every slot taken waits behind the others. *)
Enqueue(j) ==
    /\ j \notin holding \cup Waiters
    /\ Cardinality(holding) = MaxConcurrentJobs
    /\ waiting' = Append(waiting, j)
    /\ UNCHANGED holding

(* A slot that nobody waits for becomes free. *)
Free(j) ==
    /\ j \in holding
    /\ waiting = <<>>
    /\ holding' = holding \ {j}
    /\ UNCHANGED waiting

(* A slot that somebody waits for is handed to the first waiter. *)
HandOver(j) ==
    /\ j \in holding
    /\ waiting # <<>>
    /\ holding' = (holding \ {j}) \cup {Head(waiting)}
    /\ waiting' = Tail(waiting)

Next == \E j \in Jobs : Acquire(j) \/ Enqueue(j) \/ Free(j) \/ HandOver(j)

Spec == Init /\ [][Next]_slotVars
=============================================================================
