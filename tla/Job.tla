-------------------------------- MODULE Job --------------------------------
(***************************************************************************)
(* The life of POST /api/.../execute in the playground API: the handler of *)
(* api/playground.js and the Job class of job.js, for any number of        *)
(* requests served by the one Node.js thread, with the isolate processes   *)
(* that create and destroy the sandboxes on the host.                      *)
(*                                                                         *)
(* Everything the thread runs between two awaits that really wait is one   *)
(* step.  Node.js drains its microtask queue after every callback, so the  *)
(* waiter that cleanup() wakes with job_queue.shift()() continues prime()  *)
(* before any other callback runs: pc = "woken" is that continuation, and  *)
(* every callback needs NoMicrotask.  What an isolate process does to the  *)
(* host needs no turn of the thread.                                       *)
(*                                                                         *)
(* A sandbox is named by its ordinal n: it was the n-th one allocated, and *)
(* its isolate box id is n % MAX_BOX_ID, which is not unique.              *)
(***************************************************************************)
EXTENDS Integers, Sequences, FiniteSets

CONSTANTS
    Jobs,               \* the requests
    Compiled,           \* those whose runtime has a compile step
    MaxConcurrentJobs,  \* config.max_concurrent_jobs
    MAX_BOX_ID          \* 999 in job.js

ASSUME JobsAssumption == IsFiniteSet(Jobs)
ASSUME CompiledAssumption == Compiled \subseteq Jobs
ASSUME SlotsAssumption == MaxConcurrentJobs \in Nat \ {0}
ASSUME BoxIdAssumption == MAX_BOX_ID \in Nat \ {0}

VARIABLES
    pc,                     \* where the handler of each request stands
    state,                  \* job.state
    response,               \* what the client was sent
    remaining_job_spaces,   \* free slots
    job_queue,              \* the jobs whose resolve() waits for a slot
    box_id,                 \* the counter behind get_next_box_id()
    box,                    \* each job's latest sandbox, 0 if none
    dirty_boxes,            \* the sandboxes each job must clean up
    host,                   \* the sandboxes that exist on the host
    cleanups,               \* the isolate --cleanup processes still running
    failed_cleanups         \* the ones that ended with a (logged) error

jobVars == <<pc, state, response, box, dirty_boxes>>
slotVars == <<remaining_job_spaces, job_queue>>
hostVars == <<host, cleanups, failed_cleanups>>
vars == <<jobVars, slotVars, box_id, hostVars>>

(* Where a handler may stand: "idle" before the request comes, "queued" and
   "woken" in prime()'s wait, then the await it is in, "rm" while cleanup()
   removes the metadata files, "done" when the handler has returned. *)
Working == {"init", "write", "compile", "init2", "rename", "run"}
Phases == {"idle", "queued", "woken", "rm", "done"} \cup Working
Responses == {"none", "400", "200", "500"}
JobStates == {"READY", "PRIMED", "EXECUTED"}

(* The phases in which a job works in the sandbox box[j]. *)
InSandbox == {"write", "compile", "rename", "run"}

Holders == {j \in Jobs : pc[j] \in Working}
Woken == {j \in Jobs : pc[j] = "woken"}
NoMicrotask == Woken = {}

get_next_box_id(n) == n % MAX_BOX_ID
SameId(m, n) == get_next_box_id(m) = get_next_box_id(n)

(* Some sandbox is mounted under the id of j's: the paths j uses resolve. *)
SandboxThere(j) == \E n \in host : SameId(n, box[j])

-----------------------------------------------------------------------------
Init ==
    /\ pc = [j \in Jobs |-> "idle"]
    /\ state = [j \in Jobs |-> "READY"]
    /\ response = [j \in Jobs |-> "none"]
    /\ remaining_job_spaces = MaxConcurrentJobs
    /\ job_queue = <<>>
    /\ box_id = 0
    /\ box = [j \in Jobs |-> 0]
    /\ dirty_boxes = [j \in Jobs |-> {}]
    /\ host = {}
    /\ cleanups = {}
    /\ failed_cleanups = {}

(* get_job() refuses the body. *)
RejectRequest(j) ==
    /\ NoMicrotask
    /\ pc[j] = "idle"
    /\ pc' = [pc EXCEPT ![j] = "done"]
    /\ response' = [response EXCEPT ![j] = "400"]
    /\ UNCHANGED <<state, box, dirty_boxes, slotVars, box_id, hostVars>>

(* Mutant: the counter is read but never advanced, box_id + 1 % MAX_BOX_ID. *)
create_isolate_box_NoIncrement(j) ==
    /\ box_id' = box_id
    /\ box' = [box EXCEPT ![j] = box_id + 1]

(* #create_isolate_box() up to the start of isolate --init. *)
create_isolate_box(j) ==
    /\ box_id' = box_id + 1
    /\ box' = [box EXCEPT ![j] = box_id']

(* prime() after its wait, or without one: it counts the slot down without
   looking at it again. *)
TakeSlot(j) ==
    /\ pc' = [pc EXCEPT ![j] = "init"]
    /\ remaining_job_spaces' = remaining_job_spaces - 1
    /\ create_isolate_box(j)
    /\ UNCHANGED <<state, response, job_queue, dirty_boxes, hostVars>>

(* Mutant: a wakeup that does not run before the next callback. *)
PrimeNow_LateWakeup(j) ==
    /\ pc[j] = "idle"
    /\ remaining_job_spaces >= 1
    /\ TakeSlot(j)

PrimeNow(j) ==
    /\ NoMicrotask
    /\ pc[j] = "idle"
    /\ remaining_job_spaces >= 1
    /\ TakeSlot(j)

PrimeQueue(j) ==
    /\ NoMicrotask
    /\ pc[j] = "idle"
    /\ remaining_job_spaces < 1
    /\ job_queue' = Append(job_queue, j)
    /\ pc' = [pc EXCEPT ![j] = "queued"]
    /\ UNCHANGED <<state, response, remaining_job_spaces, box, dirty_boxes,
                   box_id, hostVars>>

PrimeResume(j) ==
    /\ pc[j] = "woken"
    /\ TakeSlot(j)

-----------------------------------------------------------------------------

(* Mutant: nobody is woken. *)
cleanup_NoWake(j, dirty) ==
    /\ remaining_job_spaces' = remaining_job_spaces + 1
    /\ pc' = [pc EXCEPT ![j] = "rm"]
    /\ cleanups' = cleanups \cup dirty
    /\ UNCHANGED <<job_queue, failed_cleanups>>

(* Mutant: job_queue.shift() without the call of what it returns. *)
cleanup_ShiftOnly(j, dirty) ==
    /\ remaining_job_spaces' = remaining_job_spaces + 1
    /\ job_queue' = IF job_queue = <<>> THEN <<>> ELSE Tail(job_queue)
    /\ pc' = [pc EXCEPT ![j] = "rm"]
    /\ cleanups' = cleanups \cup dirty
    /\ UNCHANGED failed_cleanups

(* Mutant: job_queue.pop()() wakes the last waiter. *)
cleanup_Pop(j, dirty) ==
    LET last == Len(job_queue)
    IN  /\ remaining_job_spaces' = remaining_job_spaces + 1
        /\ job_queue' = SubSeq(job_queue, 1, last - 1)
        /\ pc' = [i \in Jobs |-> IF i = j THEN "rm"
                                 ELSE IF last > 0 /\ i = job_queue[last]
                                      THEN "woken" ELSE pc[i]]
        /\ cleanups' = cleanups \cup dirty
        /\ UNCHANGED failed_cleanups

(* The synchronous part of cleanup(): the slot is counted up, the first
   waiter is woken, an isolate --cleanup is started for every box in dirty
   and not awaited, and the handler goes on to await the rm of the metadata
   files.  It runs in the turn that sends the response. *)
cleanup(j, dirty) ==
    /\ remaining_job_spaces' = remaining_job_spaces + 1
    /\ IF job_queue # <<>>
       THEN /\ job_queue' = Tail(job_queue)
            /\ pc' = [pc EXCEPT ![j] = "rm", ![Head(job_queue)] = "woken"]
       ELSE /\ pc' = [pc EXCEPT ![j] = "rm"]
            /\ UNCHANGED job_queue
    /\ cleanups' = cleanups \cup dirty
    /\ UNCHANGED failed_cleanups

(* try ... return res.status(status).send() ... finally cleanup(). *)
Finish(j, status, dirty) ==
    /\ response' = [response EXCEPT ![j] = status]
    /\ dirty_boxes' = [dirty_boxes EXCEPT ![j] = dirty]
    /\ cleanup(j, dirty)
    /\ UNCHANGED <<box, box_id>>

(* The host after isolate --init made sandbox n: one with that id that was
   still there is gone. *)
HostWith(n) == {m \in host : ~SameId(m, n)} \cup {n}

(* isolate --init succeeds: the box is noted as dirty. *)
InitDone(j) ==
    /\ NoMicrotask
    /\ pc[j] \in {"init", "init2"}
    /\ host' = HostWith(box[j])
    /\ dirty_boxes' = [dirty_boxes EXCEPT ![j] = @ \cup {box[j]}]
    /\ pc' = [pc EXCEPT ![j] = IF @ = "init" THEN "write" ELSE "rename"]
    /\ UNCHANGED <<state, response, box, slotVars, box_id, cleanups,
                   failed_cleanups>>

(* Mutant: the callback returns after rej(), before the box is noted. *)
InitFail_NotDirty(j) ==
    /\ NoMicrotask
    /\ pc[j] \in {"init", "init2"}
    /\ host' \in {host, HostWith(box[j])}
    /\ Finish(j, "500", dirty_boxes[j])
    /\ UNCHANGED state

(* Mutant: the error of isolate --init is not looked at. *)
InitFail_Ignored(j) ==
    /\ NoMicrotask
    /\ pc[j] \in {"init", "init2"}
    /\ dirty_boxes' = [dirty_boxes EXCEPT ![j] = @ \cup {box[j]}]
    /\ pc' = [pc EXCEPT ![j] = IF @ = "init" THEN "write" ELSE "rename"]
    /\ UNCHANGED <<state, response, box, slotVars, box_id, hostVars>>

(* isolate --init fails, before or after it made a directory.  The callback
   rejects but does not return: the box is noted as dirty all the same. *)
InitFail(j) ==
    /\ NoMicrotask
    /\ pc[j] \in {"init", "init2"}
    /\ host' \in {host, HostWith(box[j])}
    /\ Finish(j, "500", dirty_boxes[j] \cup {box[j]})
    /\ UNCHANGED state

(* The submission is written, prime() returns and execute() starts: the job
   is PRIMED, so its first test passes, and the first safe_call begins. *)
WriteDone(j) ==
    /\ NoMicrotask
    /\ pc[j] = "write"
    /\ SandboxThere(j)
    /\ state' = [state EXCEPT ![j] = "PRIMED"]
    /\ pc' = [pc EXCEPT ![j] = IF j \in Compiled THEN "compile" ELSE "run"]
    /\ UNCHANGED <<response, box, dirty_boxes, slotVars, box_id, hostVars>>

(* The compile step exits with code 0: the run step gets a fresh sandbox. *)
CompileOk(j) ==
    /\ NoMicrotask
    /\ pc[j] = "compile"
    /\ SandboxThere(j)
    /\ create_isolate_box(j)
    /\ pc' = [pc EXCEPT ![j] = "init2"]
    /\ UNCHANGED <<state, response, dirty_boxes, slotVars, hostVars>>

(* Any other exit code, null included: the run step is skipped and the
   compile result is sent as the run result. *)
CompileErrored(j) ==
    /\ NoMicrotask
    /\ pc[j] = "compile"
    /\ state' = [state EXCEPT ![j] = "EXECUTED"]
    /\ Finish(j, "200", dirty_boxes[j])
    /\ UNCHANGED host

(* Mutant: the sandbox that is used up is cleaned here, but box already names
   the new one. *)
RenameDone_CleansNew(j) ==
    /\ NoMicrotask
    /\ pc[j] = "rename"
    /\ SandboxThere(j)
    /\ pc' = [pc EXCEPT ![j] = "run"]
    /\ cleanups' = cleanups \cup {box[j]}
    /\ UNCHANGED <<state, response, box, dirty_boxes, slotVars, box_id, host,
                   failed_cleanups>>

(* fs.rename moves the submission into the second sandbox. *)
RenameDone(j) ==
    /\ NoMicrotask
    /\ pc[j] = "rename"
    /\ SandboxThere(j)
    /\ pc' = [pc EXCEPT ![j] = "run"]
    /\ UNCHANGED <<state, response, box, dirty_boxes, slotVars, box_id,
                   hostVars>>

(* The run step ends and its metadata file is read, also when isolate could
   only report an error of its own in it. *)
RunDone(j) ==
    /\ NoMicrotask
    /\ pc[j] = "run"
    /\ state' = [state EXCEPT ![j] = "EXECUTED"]
    /\ Finish(j, "200", dirty_boxes[j])
    /\ UNCHANGED host

(* Mutant: no finally, a request that throws is never cleaned up. *)
StepThrows_NoFinally(j) ==
    /\ NoMicrotask
    /\ pc[j] \in InSandbox
    /\ response' = [response EXCEPT ![j] = "500"]
    /\ pc' = [pc EXCEPT ![j] = "done"]
    /\ UNCHANGED <<state, box, dirty_boxes, slotVars, box_id, hostVars>>

(* A file operation fails, or a safe_call throws: no isolate to spawn, no
   metadata file, a line of it that does not parse, no code file to run. *)
StepThrows(j) ==
    /\ NoMicrotask
    /\ pc[j] \in InSandbox
    /\ Finish(j, "500", dirty_boxes[j])
    /\ UNCHANGED <<state, host>>

(* The last fs.rm of cleanup() settles; its errors are caught and logged. *)
RmDone(j) ==
    /\ NoMicrotask
    /\ pc[j] = "rm"
    /\ pc' = [pc EXCEPT ![j] = "done"]
    /\ UNCHANGED <<state, response, box, dirty_boxes, slotVars, box_id,
                   hostVars>>

(* An isolate --cleanup ends: it removed whatever sandbox has that id. *)
CleanupDone(n) ==
    /\ n \in cleanups
    /\ cleanups' = cleanups \ {n}
    /\ host' = {m \in host : ~SameId(m, n)}
    /\ UNCHANGED <<jobVars, slotVars, box_id, failed_cleanups>>

(* ... or it failed: the callback logs the error, nothing tries again. *)
CleanupFail(n) ==
    /\ n \in cleanups
    /\ cleanups' = cleanups \ {n}
    /\ failed_cleanups' = failed_cleanups \cup {n}
    /\ UNCHANGED <<jobVars, slotVars, box_id, host>>

-----------------------------------------------------------------------------
(* The steps of a request after it came. *)
Progress(j) ==
    \/ PrimeResume(j)
    \/ InitDone(j) \/ InitFail(j)
    \/ WriteDone(j)
    \/ CompileOk(j) \/ CompileErrored(j)
    \/ RenameDone(j)
    \/ RunDone(j)
    \/ StepThrows(j)
    \/ RmDone(j)

Arrive(j) == RejectRequest(j) \/ PrimeNow(j) \/ PrimeQueue(j)

CleanupEnds(n) == CleanupDone(n) \/ CleanupFail(n)

Next ==
    \/ \E j \in Jobs : Arrive(j) \/ Progress(j)
    \/ \E n \in cleanups : CleanupEnds(n)

Spec == Init /\ [][Next]_vars

(* Every await of a request ends: the sandboxed processes have a wall-time
   limit, file operations and isolate --init and --cleanup return.  Nothing
   makes a request arrive. *)
Fairness ==
    /\ \A j \in Jobs : WF_vars(Progress(j))
    /\ \A n \in 1..(2 * Cardinality(Jobs)) : WF_vars(CleanupEnds(n))

FairSpec == Spec /\ Fairness

-----------------------------------------------------------------------------
TypeOK ==
    /\ pc \in [Jobs -> Phases]
    /\ state \in [Jobs -> JobStates]
    /\ response \in [Jobs -> Responses]
    /\ remaining_job_spaces \in Int
    /\ job_queue \in Seq(Jobs)
    /\ box_id \in Nat
    /\ box \in [Jobs -> 0..box_id]
    /\ dirty_boxes \in [Jobs -> SUBSET (1..box_id)]
    /\ host \subseteq 1..box_id
    /\ cleanups \subseteq 1..box_id
    /\ failed_cleanups \subseteq 1..box_id

(* No slot is lost or invented, however prime(), execute() and cleanup() of
   different requests interleave and fail: the free slots and the jobs at
   work always add up to max_concurrent_jobs, and the count of free slots is
   never negative although prime() does not look at it again after its wait
   (job.js:91-98, 422). *)
SlotAccounting ==
    /\ remaining_job_spaces >= 0
    /\ remaining_job_spaces + Cardinality(Holders) = MaxConcurrentJobs

(* No wakeup is lost: while a job waits and no continuation is pending, every
   slot is taken, so some cleanup() is still to come (job.js:422-425). *)
NoIdleSlotWhileWaiting ==
    job_queue # <<>> /\ NoMicrotask => remaining_job_spaces = 0

(* No waiter is forgotten or woken twice: job_queue holds each job that
   waits in prime() exactly once, and no other job (job.js:93-95, 424). *)
NoWaiterForgotten ==
    /\ {job_queue[i] : i \in 1..Len(job_queue)} =
           {j \in Jobs : pc[j] = "queued"}
    /\ \A i, k \in 1..Len(job_queue) : job_queue[i] = job_queue[k] => i = k

(* Nobody jumps the queue: a request that just came takes a slot only when
   nobody waits, although cleanup() counts the slot up before the waiter it
   wakes counts it down (job.js:91, 422-424). *)
NoBarging ==
    [][\A j \in Jobs : pc[j] = "idle" /\ pc'[j] = "init"
          => job_queue = <<>> /\ NoMicrotask]_vars

(* No sandbox is orphaned: each one that exists is on the dirty list of a job
   that still has its cleanup() before it, or an isolate --cleanup for it is
   running, or that cleanup failed and was logged.  In particular the box of
   a failed isolate --init and the first box of a compiled job are not
   forgotten (job.js:69-84, 385, 427-437). *)
NoSandboxLeak ==
    \A n \in host :
        \/ \E j \in Holders : n \in dirty_boxes[j]
        \/ n \in cleanups \cup failed_cleanups

(* The sandbox a job works in disappears under it only when its box id was
   given out again: to an allocation at least MAX_BOX_ID older or younger,
   whose isolate --init or late isolate --cleanup hits it (job.js:22, 64,
   428).  The ids carry no other protection. *)
SandboxLostOnlyToReuse ==
    [][\A j \in Jobs :
          /\ pc[j] \in InSandbox
          /\ pc'[j] \in InSandbox
          /\ box[j] \in host \ host'
          => \E m \in cleanups \cup {box[k] : k \in Holders} :
                /\ SameId(m, box[j])
                /\ m >= box[j] + MAX_BOX_ID \/ box[j] >= m + MAX_BOX_ID]_vars

(* Slots are handed over as JobSlots promises: at most MaxConcurrentJobs
   jobs own one, waiters are served in the order they came, and a slot given
   back goes to the first of them. *)
Slots == INSTANCE JobSlots WITH holding <- Holders \cup Woken,
                                waiting <- job_queue

SlotsAreHandedOver == Slots!Spec

(* Whatever else happens, a request that came is answered: also one that
   waits for a slot behind requests that fail (playground.js:86-114). *)
EveryRequestAnswered ==
    \A j \in Jobs : pc[j] # "idle" ~> response[j] # "none"

(* In the end the host keeps no sandbox but those whose cleanup failed, and
   every slot is free again (job.js:419-447). *)
EverythingReclaimed ==
    <>[](/\ host \subseteq failed_cleanups
         /\ \A j \in Jobs : pc[j] \in {"idle", "done"}
         /\ remaining_job_spaces = MaxConcurrentJobs)
=============================================================================
