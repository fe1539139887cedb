----------------------------- MODULE JobProofs -----------------------------
(***************************************************************************)
(* What TLAPS proves of Job and Server for every set of requests, every    *)
(* number of slots and every MAX_BOX_ID: the slots are accounted for and   *)
(* handed over in order, no sandbox is orphaned, one a job works in is     *)
(* destroyed only by another allocation with the same box id, which is at  *)
(* least MAX_BOX_ID allocations away; and all of it that is meant to       *)
(* survive the end of the process does.                                    *)
(***************************************************************************)
EXTENDS Server, TLAPS, FiniteSetTheorems

(* TypeOK but for the host: a sandbox that an earlier life of the process
   left has a negative ordinal, so the host keeps its type only as long as the
   process lives.  What the slots and the jobs need is this part of it. *)
CoreType ==
    /\ pc \in [Jobs -> Phases]
    /\ state \in [Jobs -> JobStates]
    /\ response \in [Jobs -> Responses]
    /\ remaining_job_spaces \in Int
    /\ job_queue \in Seq(Jobs)
    /\ box_id \in Nat
    /\ box \in [Jobs -> 0..box_id]
    /\ dirty_boxes \in [Jobs -> SUBSET (1..box_id)]
    /\ cleanups \subseteq 1..box_id
    /\ failed_cleanups \subseteq 1..box_id

HostTyped == host \subseteq 1..box_id

(* Type correctness is preserved by the end of a request, whichever way it
   ended. *)
LEMMA FinishTyped ==
    ASSUME CoreType, NEW j \in Jobs, NEW status \in Responses,
           NEW dirty \in SUBSET (1..box_id), Finish(j, status, dirty),
           state' \in [Jobs -> JobStates]
    PROVE  CoreType'
<1>1. pc' \in [Jobs -> Phases] /\ job_queue' \in Seq(Jobs)
  <2>1. CASE job_queue # <<>>
    <3>1. Head(job_queue) \in Jobs /\ Tail(job_queue) \in Seq(Jobs)
      BY <2>1 DEF CoreType
    <3> QED BY <2>1, <3>1 DEF CoreType, Finish, cleanup, Phases
  <2>2. CASE job_queue = <<>>
    BY <2>2 DEF CoreType, Finish, cleanup, Phases
  <2> QED BY <2>1, <2>2
<1>2. remaining_job_spaces' \in Int
  BY DEF CoreType, Finish, cleanup
<1>3. response' \in [Jobs -> Responses]
  BY DEF CoreType, Finish
<1>4. dirty_boxes' \in [Jobs -> SUBSET (1..box_id)]
  BY DEF CoreType, Finish
<1>5. cleanups' \subseteq 1..box_id /\ failed_cleanups' \subseteq 1..box_id
  BY DEF CoreType, Finish, cleanup
<1> QED BY <1>1, <1>2, <1>3, <1>4, <1>5 DEF CoreType, Finish

(* Type correctness is preserved by the start of isolate --init. *)
LEMMA AllocationTyped ==
    ASSUME CoreType, NEW j \in Jobs, create_isolate_box(j)
    PROVE  /\ box_id' \in Nat
           /\ box' \in [Jobs -> 0..box_id']
           /\ dirty_boxes \in [Jobs -> SUBSET (1..box_id')]
           /\ cleanups \subseteq 1..box_id'
           /\ failed_cleanups \subseteq 1..box_id'
<1>1. box_id' = box_id + 1 /\ box_id \in Nat
  BY DEF CoreType, create_isolate_box
<1>2. 0..box_id \subseteq 0..box_id' /\ 1..box_id \subseteq 1..box_id'
  BY <1>1
<1>3. box' \in [Jobs -> 0..box_id']
  BY <1>1, <1>2 DEF CoreType, create_isolate_box
<1> QED BY <1>1, <1>2, <1>3 DEF CoreType

(* A job at work has been given a sandbox.  Type correctness needs it: what
   isolate --init creates is the sandbox box[j], and 0 stands for none. *)
Allocated == \A j \in Holders : box[j] # 0

TypeInv == CoreType /\ Allocated

LEMMA TypeInit == Init => TypeInv
BY SlotsAssumption
   DEF Init, TypeInv, CoreType, Allocated, Holders, Phases, Working, JobStates,
       Responses

LEMMA AllocatedAfterFinish ==
    ASSUME TypeInv, NEW j \in Jobs, NEW status, NEW dirty,
           Finish(j, status, dirty)
    PROVE  Allocated'
<1>1. Holders' \subseteq Holders
  <2>1. CASE job_queue # <<>>
    <3>1. Head(job_queue) \in Jobs
      BY <2>1 DEF TypeInv, CoreType
    <3> QED BY <2>1, <3>1 DEF TypeInv, CoreType, Finish, cleanup, Holders, Working
  <2>2. CASE job_queue = <<>>
    BY <2>2 DEF TypeInv, CoreType, Finish, cleanup, Holders, Working
  <2> QED BY <2>1, <2>2
<1> QED BY <1>1 DEF TypeInv, Allocated, Finish

LEMMA HolderBox ==
    ASSUME TypeInv, NEW j \in Holders
    PROVE  box[j] \in 1..box_id
<1>1. box[j] \in 0..box_id /\ box[j] # 0 /\ box_id \in Nat
  BY DEF TypeInv, CoreType, Allocated, Holders
<1> QED BY <1>1

LEMMA TypeStep == TypeInv /\ [Next]_vars => TypeInv'
<1> SUFFICES ASSUME TypeInv, [Next]_vars PROVE TypeInv'
  OBVIOUS
<1> USE DEF TypeInv
<1>1. ASSUME NEW j \in Jobs, RejectRequest(j) PROVE TypeInv'
  <2>1. CoreType'
    BY <1>1 DEF CoreType, RejectRequest, slotVars, hostVars, Phases, Responses
  <2>2. Allocated'
    BY <1>1 DEF CoreType, RejectRequest, Allocated, Holders, Working
  <2> QED BY <2>1, <2>2
<1>2. ASSUME NEW j \in Jobs, TakeSlot(j) PROVE TypeInv'
  <2>1. create_isolate_box(j)
    BY <1>2 DEF TakeSlot
  <2>2. CoreType'
    BY <1>2, <2>1, AllocationTyped DEF CoreType, TakeSlot, hostVars, Phases, Working
  <2>3. Allocated'
    BY <1>2, <2>1
       DEF CoreType, TakeSlot, create_isolate_box, Allocated, Holders, Working
  <2> QED BY <2>2, <2>3
<1>3. ASSUME NEW j \in Jobs, PrimeQueue(j) PROVE TypeInv'
  <2>1. CoreType'
    BY <1>3 DEF CoreType, PrimeQueue, hostVars, Phases
  <2>2. Allocated'
    BY <1>3 DEF CoreType, PrimeQueue, Allocated, Holders, Working
  <2> QED BY <2>1, <2>2
<1>5. ASSUME NEW j \in Jobs, InitDone(j) PROVE TypeInv'
  <2>1. j \in Holders
    BY <1>5 DEF InitDone, Holders, Working
  <2>2. CoreType'
    BY HolderBox, <1>5, <2>1 DEF CoreType, InitDone, slotVars, Phases, Working
  <2>3. Allocated'
    BY <1>5, <2>1 DEF CoreType, InitDone, Allocated, Holders, Working
  <2> QED BY <2>2, <2>3
<1>6. ASSUME NEW j \in Jobs, InitFail(j) PROVE TypeInv'
  <2>1. j \in Holders
    BY <1>6 DEF InitFail, Holders, Working
  <2>2. dirty_boxes[j] \cup {box[j]} \in SUBSET (1..box_id)
    BY HolderBox, <2>1 DEF CoreType, Holders
  <2>3. CoreType'
    BY <1>6, <2>2, FinishTyped DEF CoreType, InitFail, Responses
  <2>4. Allocated'
    BY <1>6, AllocatedAfterFinish DEF InitFail
  <2> QED BY <2>3, <2>4
<1>7. ASSUME NEW j \in Jobs, WriteDone(j) PROVE TypeInv'
  <2>1. CoreType'
    BY <1>7 DEF CoreType, WriteDone, slotVars, hostVars, Phases, Working, JobStates
  <2>2. Allocated'
    BY <1>7 DEF CoreType, WriteDone, Allocated, Holders, Working
  <2> QED BY <2>1, <2>2
<1>8. ASSUME NEW j \in Jobs, CompileOk(j) PROVE TypeInv'
  <2>1. create_isolate_box(j)
    BY <1>8 DEF CompileOk
  <2>2. CoreType'
    BY <1>8, <2>1, AllocationTyped
       DEF CoreType, CompileOk, slotVars, hostVars, Phases, Working
  <2>3. Allocated'
    BY <1>8, <2>1
       DEF CoreType, CompileOk, create_isolate_box, Allocated, Holders, Working
  <2> QED BY <2>2, <2>3
<1>9. ASSUME NEW j \in Jobs, CompileErrored(j) \/ RunDone(j) \/ StepThrows(j)
      PROVE  TypeInv'
  <2>1. \E status \in {"200", "500"} : Finish(j, status, dirty_boxes[j])
    BY <1>9 DEF CompileErrored, RunDone, StepThrows
  <2>2. state' \in [Jobs -> JobStates]
    BY <1>9 DEF CoreType, CompileErrored, RunDone, StepThrows, JobStates
  <2>3. dirty_boxes[j] \in SUBSET (1..box_id)
    BY DEF CoreType
  <2>4. CoreType'
    BY <2>1, <2>2, <2>3, FinishTyped DEF Responses
  <2>5. Allocated'
    BY <2>1, AllocatedAfterFinish
  <2> QED BY <2>4, <2>5
<1>10. ASSUME NEW j \in Jobs, RenameDone(j) \/ RmDone(j) PROVE TypeInv'
  <2>1. CoreType'
    BY <1>10 DEF CoreType, RenameDone, RmDone, slotVars, hostVars, Phases, Working
  <2>2. Allocated'
    BY <1>10 DEF CoreType, RenameDone, RmDone, Allocated, Holders, Working
  <2> QED BY <2>1, <2>2
<1>11. ASSUME NEW n \in cleanups, CleanupEnds(n) PROVE TypeInv'
  <2>1. CoreType'
    BY <1>11 DEF CoreType, CleanupEnds, CleanupDone, CleanupFail, jobVars, slotVars
  <2>2. Allocated'
    BY <1>11 DEF CleanupEnds, CleanupDone, CleanupFail, jobVars, Allocated, Holders
  <2> QED BY <2>1, <2>2
<1>12. CASE UNCHANGED vars
  BY <1>12 DEF CoreType, Allocated, Holders, vars, jobVars, slotVars, hostVars
<1> QED
  BY <1>1, <1>2, <1>3, <1>5, <1>6, <1>7, <1>8, <1>9, <1>10, <1>11, <1>12
     DEF Next, Arrive, Progress, PrimeNow, PrimeResume

(* While the process lives the host holds only sandboxes it allocated. *)
LEMMA HostStep ==
    ASSUME TypeInv, HostTyped, [Next]_vars
    PROVE  HostTyped'
<1> /\ host \subseteq 1..box_id /\ box_id \in Nat
  BY DEF TypeInv, CoreType, HostTyped
<1>1. ASSUME NEW j \in Jobs, InitDone(j) \/ InitFail(j) PROVE HostTyped'
  <2>1. box[j] \in 1..box_id
    BY <1>1, HolderBox DEF InitDone, InitFail, Holders, Working
  <2>2. box_id' = box_id /\ host' \subseteq host \cup {box[j]}
    BY <1>1 DEF InitDone, InitFail, HostWith, Finish
  <2> QED BY <2>1, <2>2 DEF HostTyped
<1>2. ASSUME NEW j \in Jobs, PrimeNow(j) \/ PrimeResume(j) \/ CompileOk(j)
      PROVE  HostTyped'
  <2>1. box_id' = box_id + 1 /\ host' = host
    BY <1>2 DEF PrimeNow, PrimeResume, CompileOk, TakeSlot,
                create_isolate_box, hostVars
  <2> QED BY <2>1 DEF HostTyped
<1>3. ASSUME NEW j \in Jobs,
             \/ RejectRequest(j) \/ PrimeQueue(j) \/ WriteDone(j)
             \/ RenameDone(j) \/ RmDone(j)
             \/ CompileErrored(j) \/ RunDone(j) \/ StepThrows(j)
      PROVE  HostTyped'
  <2>1. box_id' = box_id /\ host' = host
    BY <1>3 DEF RejectRequest, PrimeQueue, WriteDone, RenameDone, RmDone,
                CompileErrored, RunDone, StepThrows, Finish, hostVars
  <2> QED BY <2>1 DEF HostTyped
<1>4. CASE (\E n \in cleanups : CleanupEnds(n)) \/ UNCHANGED vars
  <2>1. box_id' = box_id /\ host' \subseteq host
    BY <1>4 DEF CleanupEnds, CleanupDone, CleanupFail, vars, hostVars
  <2> QED BY <2>1 DEF HostTyped
<1> QED BY <1>1, <1>2, <1>3, <1>4 DEF Next, Arrive, Progress

(* Every reachable state is well typed. *)
THEOREM TypeCorrect == Spec => []TypeOK
<1>1. Init => TypeInv /\ HostTyped
  BY TypeInit DEF Init, HostTyped
<1>2. TypeInv /\ HostTyped /\ [Next]_vars => (TypeInv /\ HostTyped)'
  BY TypeStep, HostStep
<1>3. TypeInv /\ HostTyped => TypeOK
  BY DEF TypeInv, CoreType, HostTyped, TypeOK
<1> QED BY <1>1, <1>2, <1>3, PTL DEF Spec

-----------------------------------------------------------------------------
(* The inductive invariant of the slots.  SlotAccounting alone is not
   inductive: that prime() may count a slot down after its wait without
   looking follows from what a wakeup leaves behind, one woken job and one
   free slot, and that the free slot is the only one from the fact that
   nobody waits while there are free slots. *)
Queued == {j \in Jobs : pc[j] = "queued"}

WakeupMeansOneSlot ==
    /\ \A i, k \in Woken : i = k
    /\ Woken # {} => remaining_job_spaces = 1

SlotInv ==
    /\ TypeInv
    /\ SlotAccounting
    /\ NoIdleSlotWhileWaiting
    /\ NoWaiterForgotten
    /\ WakeupMeansOneSlot

LEMMA HoldersFinite == IsFiniteSet(Holders) /\ Cardinality(Holders) \in Nat
BY JobsAssumption, FS_Subset, FS_CardinalityType DEF Holders

LEMMA SlotInit == Init => SlotInv
<1> SUFFICES ASSUME Init PROVE SlotInv
  OBVIOUS
<1>1. TypeInv
  BY TypeInit
<1>2. Holders = {} /\ Woken = {} /\ job_queue = <<>>
  BY DEF Init, Holders, Woken, Working
<1>3. SlotAccounting
  BY <1>2, FS_EmptySet, SlotsAssumption DEF Init, SlotAccounting
<1>4. NoIdleSlotWhileWaiting /\ WakeupMeansOneSlot
  BY <1>2 DEF NoIdleSlotWhileWaiting, WakeupMeansOneSlot
<1>5. NoWaiterForgotten
  BY DEF Init, NoWaiterForgotten
<1> QED BY <1>1, <1>3, <1>4, <1>5 DEF SlotInv

(* A step that moves jobs only inside the sets Holders and Woken, and leaves
   the queue and the counter alone, keeps the invariant. *)
LEMMA SlotsUntouched ==
    ASSUME SlotInv, TypeInv', Holders' = Holders, Woken' = Woken,
           Queued' = Queued, UNCHANGED slotVars
    PROVE  SlotInv'
BY DEF SlotInv, SlotAccounting, NoIdleSlotWhileWaiting, NoMicrotask,
       NoWaiterForgotten, WakeupMeansOneSlot, Queued, slotVars

(* When a job takes a slot, without a wait or after it, there is one, and
   nobody is left who was woken. *)
LEMMA TakeSlotEffect ==
    ASSUME SlotInv, NEW j \in Jobs, PrimeNow(j) \/ PrimeResume(j)
    PROVE  /\ remaining_job_spaces >= 1
           /\ remaining_job_spaces' = remaining_job_spaces - 1
           /\ j \notin Holders
           /\ Holders' = Holders \cup {j}
           /\ Woken \subseteq {j}
           /\ Woken' = {}
           /\ Queued' = Queued
           /\ job_queue' = job_queue
           /\ pc[j] = "idle" => job_queue = <<>> /\ Woken = {}
<1>1. TakeSlot(j) /\ pc[j] \in {"idle", "woken"} /\ pc \in [Jobs -> Phases]
  BY DEF PrimeNow, PrimeResume, SlotInv, TypeInv, CoreType
<1>2. j \notin Holders /\ Holders' = Holders \cup {j}
  BY <1>1 DEF TakeSlot, Holders, Working
<1>3. Woken \subseteq {j}
  BY DEF PrimeNow, PrimeResume, NoMicrotask, SlotInv, WakeupMeansOneSlot, Woken
<1>4. Woken' = {}
  BY <1>1, <1>3 DEF TakeSlot, Woken
<1>5. Queued' = Queued
  BY <1>1 DEF TakeSlot, Queued
<1>6. remaining_job_spaces \in Int
      /\ remaining_job_spaces' = remaining_job_spaces - 1
      /\ job_queue' = job_queue
  BY <1>1 DEF TakeSlot, SlotInv, TypeInv, CoreType
<1>7. remaining_job_spaces >= 1
  BY DEF PrimeNow, PrimeResume, SlotInv, WakeupMeansOneSlot, Woken
<1>8. pc[j] = "idle" => job_queue = <<>> /\ Woken = {}
  BY <1>7 DEF PrimeNow, PrimeResume, SlotInv, NoIdleSlotWhileWaiting, NoMicrotask
<1> QED BY <1>2, <1>3, <1>4, <1>5, <1>6, <1>7, <1>8

LEMMA TakeSlotKeeps ==
    ASSUME SlotInv, TypeInv', NEW j \in Jobs, PrimeNow(j) \/ PrimeResume(j)
    PROVE  SlotInv'
<1>1. SlotAccounting'
  <2>1. Cardinality(Holders') = Cardinality(Holders) + 1
    BY TakeSlotEffect, HoldersFinite, FS_AddElement
  <2>2. remaining_job_spaces \in Int /\ MaxConcurrentJobs \in Nat
    BY SlotsAssumption DEF SlotInv, TypeInv, CoreType
  <2> QED
    BY <2>1, <2>2, TakeSlotEffect, HoldersFinite DEF SlotInv, SlotAccounting
<1>2. NoIdleSlotWhileWaiting'
  <2>1. CASE pc[j] = "idle"
    BY <2>1, TakeSlotEffect DEF NoIdleSlotWhileWaiting
  <2>2. CASE pc[j] # "idle"
    <3>1. j \in Woken
      BY <2>2 DEF PrimeNow, PrimeResume, Woken
    <3>2. remaining_job_spaces = 1
      BY <3>1 DEF SlotInv, WakeupMeansOneSlot
    <3> QED BY <3>2, TakeSlotEffect DEF NoIdleSlotWhileWaiting
  <2> QED BY <2>1, <2>2
<1>3. NoWaiterForgotten'
  BY TakeSlotEffect DEF SlotInv, NoWaiterForgotten, Queued
<1>4. WakeupMeansOneSlot'
  BY TakeSlotEffect DEF WakeupMeansOneSlot
<1> QED BY <1>1, <1>2, <1>3, <1>4 DEF SlotInv

(* A job joins the queue only when no slot is free. *)
LEMMA QueueKeeps ==
    ASSUME SlotInv, TypeInv', NEW j \in Jobs, PrimeQueue(j)
    PROVE  /\ SlotInv'
           /\ remaining_job_spaces = 0
           /\ Holders' = Holders
           /\ Woken = {} /\ Woken' = {}
<1>1. pc \in [Jobs -> Phases] /\ job_queue \in Seq(Jobs)
      /\ remaining_job_spaces \in Int
  BY DEF SlotInv, TypeInv, CoreType
<1>2. Holders' = Holders /\ Woken = {} /\ Woken' = {}
  BY <1>1 DEF PrimeQueue, NoMicrotask, Holders, Working, Woken
<1>3. remaining_job_spaces = 0 /\ remaining_job_spaces' = 0
  BY <1>1 DEF PrimeQueue, SlotInv, SlotAccounting
<1>4. SlotAccounting' /\ NoIdleSlotWhileWaiting' /\ WakeupMeansOneSlot'
  BY <1>2, <1>3
     DEF SlotInv, SlotAccounting, NoIdleSlotWhileWaiting, WakeupMeansOneSlot
<1>5. NoWaiterForgotten'
  <2>1. job_queue' = Append(job_queue, j) /\ Queued' = Queued \cup {j}
        /\ j \notin Queued
    BY <1>1 DEF PrimeQueue, Queued
  <2>2. /\ Len(job_queue') = Len(job_queue) + 1
        /\ job_queue'[Len(job_queue')] = j
        /\ \A i \in 1..Len(job_queue) : job_queue'[i] = job_queue[i]
    BY <1>1, <2>1
  <2>3. Len(job_queue) \in Nat
    BY <1>1
  <2>4. 1..Len(job_queue') = 1..Len(job_queue) \cup {Len(job_queue')}
    BY <2>2, <2>3
  <2>5. Queued = {job_queue[i] : i \in 1..Len(job_queue)}
    BY DEF SlotInv, NoWaiterForgotten, Queued
  <2>6. Queued' = {job_queue'[i] : i \in 1..Len(job_queue')}
    BY <2>1, <2>2, <2>4, <2>5
  <2>7. \A i \in 1..Len(job_queue) : job_queue[i] # j
    BY <2>1, <2>5
  <2>8. \A i, k \in 1..Len(job_queue') :
            job_queue'[i] = job_queue'[k] => i = k
    BY <2>2, <2>4, <2>7 DEF SlotInv, NoWaiterForgotten
  <2> QED BY <2>6, <2>8 DEF NoWaiterForgotten, Queued
<1> QED BY <1>2, <1>3, <1>4, <1>5 DEF SlotInv

(* What cleanup() does to the slots: nobody is woken yet, and the slot is
   either free afterwards or belongs to the first waiter. *)
LEMMA FinishEffect ==
    ASSUME SlotInv, NEW j \in Holders, NoMicrotask, NEW status, NEW dirty,
           Finish(j, status, dirty)
    PROVE  /\ Woken = {}
           /\ Holders' = Holders \ {j}
           /\ remaining_job_spaces' = remaining_job_spaces + 1
           /\ job_queue = <<>> =>
                /\ Woken' = {}
                /\ Queued' = Queued
                /\ job_queue' = <<>>
           /\ job_queue # <<>> =>
                /\ remaining_job_spaces = 0
                /\ Head(job_queue) \in Queued
                /\ Woken' = {Head(job_queue)}
                /\ Queued' = Queued \ {Head(job_queue)}
                /\ job_queue' = Tail(job_queue)
<1>1. /\ pc \in [Jobs -> Phases] /\ job_queue \in Seq(Jobs)
      /\ j \in Jobs /\ pc[j] \in Working
  BY DEF SlotInv, TypeInv, CoreType, Holders
<1>2. Woken = {}
  BY DEF NoMicrotask
<1>3. remaining_job_spaces' = remaining_job_spaces + 1
  BY DEF Finish, cleanup
<1>4. CASE job_queue = <<>>
  <2>1. pc' = [pc EXCEPT ![j] = "rm"] /\ job_queue' = <<>>
    BY <1>4 DEF Finish, cleanup
  <2>2. Holders' = Holders \ {j} /\ Woken' = {} /\ Queued' = Queued
    BY <1>1, <1>2, <2>1 DEF Holders, Woken, Queued, Working
  <2> QED BY <1>2, <1>3, <1>4, <2>1, <2>2
<1>5. CASE job_queue # <<>>
  <2> DEFINE h == Head(job_queue)
  <2>1. /\ pc' = [pc EXCEPT ![j] = "rm", ![h] = "woken"]
        /\ job_queue' = Tail(job_queue)
    BY <1>5 DEF Finish, cleanup
  <2>2. h = job_queue[1] /\ 1 \in 1..Len(job_queue)
    BY <1>1, <1>5
  <2>3. h \in Jobs /\ pc[h] = "queued"
    BY <2>2 DEF SlotInv, NoWaiterForgotten
  <2>4. h \in Queued /\ h # j
    BY <1>1, <2>3 DEF Queued, Working
  <2> HIDE DEF h
  <2>5. Holders' = Holders \ {j} /\ Woken' = {h} /\ Queued' = Queued \ {h}
    BY <1>1, <1>2, <2>1, <2>3, <2>4 DEF Holders, Woken, Queued, Working
  <2>6. remaining_job_spaces = 0
    BY <1>5 DEF SlotInv, NoIdleSlotWhileWaiting
  <2> QED BY <1>2, <1>3, <1>5, <2>1, <2>4, <2>5, <2>6 DEF h
<1> QED BY <1>4, <1>5

LEMMA FinishKeeps ==
    ASSUME SlotInv, TypeInv', NEW j \in Holders, NoMicrotask, NEW status,
           NEW dirty, Finish(j, status, dirty)
    PROVE  SlotInv'
<1> /\ remaining_job_spaces \in Int /\ MaxConcurrentJobs \in Nat
    /\ job_queue \in Seq(Jobs)
  BY SlotsAssumption DEF SlotInv, TypeInv, CoreType
<1>1. SlotAccounting'
  <2>1. Cardinality(Holders') = Cardinality(Holders) - 1
    BY FinishEffect, HoldersFinite, FS_RemoveElement
  <2> QED BY <2>1, FinishEffect, HoldersFinite DEF SlotInv, SlotAccounting
<1>2. CASE job_queue = <<>>
  <2>1. NoIdleSlotWhileWaiting' /\ WakeupMeansOneSlot'
    BY <1>2, FinishEffect DEF NoIdleSlotWhileWaiting, WakeupMeansOneSlot
  <2>2. NoWaiterForgotten'
    BY <1>2, FinishEffect DEF SlotInv, NoWaiterForgotten, Queued
  <2> QED BY <1>1, <2>1, <2>2 DEF SlotInv
<1>3. CASE job_queue # <<>>
  <2>1. NoIdleSlotWhileWaiting' /\ WakeupMeansOneSlot'
    <3>1. remaining_job_spaces' = 1 /\ Woken' = {Head(job_queue)}
      BY <1>3, FinishEffect
    <3>2. NoIdleSlotWhileWaiting'
      BY <3>1 DEF NoIdleSlotWhileWaiting, NoMicrotask
    <3>3. WakeupMeansOneSlot'
      BY <3>1 DEF WakeupMeansOneSlot
    <3> QED BY <3>2, <3>3
  <2>2. NoWaiterForgotten'
    <3> DEFINE len == Len(job_queue)
    <3>1. /\ len \in Nat /\ len >= 1
          /\ Len(Tail(job_queue)) = len - 1
          /\ \A i \in 1..(len - 1) : Tail(job_queue)[i] = job_queue[i + 1]
          /\ Head(job_queue) = job_queue[1]
      BY <1>3
    <3>2. Queued = {job_queue[i] : i \in 1..len}
      BY DEF SlotInv, NoWaiterForgotten, Queued
    <3>3. \A i, k \in 1..len : job_queue[i] = job_queue[k] => i = k
      BY DEF SlotInv, NoWaiterForgotten
    <3>4. job_queue' = Tail(job_queue) /\ Queued' = Queued \ {job_queue[1]}
      BY <1>3, <3>1, FinishEffect
    <3> HIDE DEF len
    <3>5. \A i, k \in 1..(len - 1) :
              Tail(job_queue)[i] = Tail(job_queue)[k] => i = k
      BY <3>1, <3>3
    <3>6. Queued' = {Tail(job_queue)[i] : i \in 1..(len - 1)}
      <4>1. ASSUME NEW x \in Queued'
            PROVE  \E i \in 1..(len - 1) : x = Tail(job_queue)[i]
        <5>1. PICK i \in 1..len : x = job_queue[i]
          BY <3>2, <3>4
        <5>2. i # 1
          BY <3>4, <5>1
        <5>3. i - 1 \in 1..(len - 1) /\ (i - 1) + 1 = i
          BY <3>1, <5>1, <5>2
        <5>4. Tail(job_queue)[i - 1] = job_queue[i]
          BY <3>1, <5>3
        <5> QED BY <5>1, <5>3, <5>4
      <4>2. ASSUME NEW i \in 1..(len - 1)
            PROVE  Tail(job_queue)[i] \in Queued'
        <5>1. i + 1 \in 1..len /\ i + 1 # 1 /\ 1 \in 1..len
          BY <3>1
        <5> QED BY <3>1, <3>2, <3>3, <3>4, <5>1
      <4> QED BY <4>1, <4>2
    <3> DEFINE rest == Tail(job_queue)
    <3>7. Len(rest) = len - 1 /\ job_queue' = rest
      BY <3>1, <3>4
    <3> HIDE DEF rest
    <3>8. {job_queue'[i] : i \in 1..Len(job_queue')} = Queued'
      BY <3>6, <3>7 DEF rest
    <3>9. \A i, k \in 1..Len(job_queue') :
              job_queue'[i] = job_queue'[k] => i = k
      BY <3>5, <3>7 DEF rest
    <3> QED BY <3>8, <3>9 DEF NoWaiterForgotten, Queued
  <2> QED BY <1>1, <2>1, <2>2 DEF SlotInv
<1> QED BY <1>2, <1>3

-----------------------------------------------------------------------------
(* The five ways a step can concern the slots. *)
Moves(j) == InitDone(j) \/ WriteDone(j) \/ CompileOk(j) \/ RenameDone(j)
            \/ RmDone(j) \/ RejectRequest(j)
Finishes(j) == InitFail(j) \/ CompileErrored(j) \/ RunDone(j) \/ StepThrows(j)

LEMMA StepCases ==
    ASSUME [Next]_vars
    PROVE  \/ \E j \in Jobs : PrimeNow(j) \/ PrimeResume(j)
           \/ \E j \in Jobs : PrimeQueue(j)
           \/ \E j \in Jobs : Finishes(j)
           \/ \E j \in Jobs : Moves(j)
           \/ (\E n \in cleanups : CleanupEnds(n)) \/ UNCHANGED vars
BY DEF Next, Arrive, Progress, Moves, Finishes

LEMMA FinishesIsFinish ==
    ASSUME NEW j \in Jobs, Finishes(j)
    PROVE  /\ j \in Holders /\ NoMicrotask
           /\ \E status, dirty : Finish(j, status, dirty)
BY DEF Finishes, InitFail, CompileErrored, RunDone, StepThrows, Holders,
       Working, InSandbox

(* The other steps leave who holds, waits and was woken as it is. *)
LEMMA OthersEffect ==
    ASSUME CoreType,
           \/ \E j \in Jobs : Moves(j)
           \/ (\E n \in cleanups : CleanupEnds(n)) \/ UNCHANGED vars
    PROVE  /\ Holders' = Holders /\ Woken' = Woken /\ Queued' = Queued
           /\ UNCHANGED slotVars
<1>1. ASSUME NEW j \in Jobs, Moves(j)
      PROVE  /\ Holders' = Holders /\ Woken' = Woken /\ Queued' = Queued
             /\ UNCHANGED slotVars
  <2>1. \E p \in Phases :
          /\ pc' = [pc EXCEPT ![j] = p]
          /\ \/ pc[j] \in Working /\ p \in Working
             \/ pc[j] \in {"idle", "rm"} /\ p = "done"
    BY <1>1 DEF Moves, InitDone, WriteDone, CompileOk, RenameDone, RmDone,
                RejectRequest, Working, Phases, CoreType
  <2>2. UNCHANGED slotVars
    BY <1>1 DEF Moves, InitDone, WriteDone, CompileOk, RenameDone, RmDone,
                RejectRequest
  <2> QED BY <2>1, <2>2 DEF CoreType, Holders, Woken, Queued, Working
<1>2. CASE (\E n \in cleanups : CleanupEnds(n)) \/ UNCHANGED vars
  BY <1>2 DEF CleanupEnds, CleanupDone, CleanupFail, vars, jobVars, Holders,
              Woken, Queued
<1> QED BY <1>1, <1>2

LEMMA SlotStep == SlotInv /\ [Next]_vars => SlotInv'
<1> SUFFICES ASSUME SlotInv, [Next]_vars PROVE SlotInv'
  OBVIOUS
<1>1. TypeInv /\ CoreType /\ TypeInv'
  BY TypeStep DEF SlotInv, TypeInv
<1>2. ASSUME NEW j \in Jobs, PrimeNow(j) \/ PrimeResume(j) PROVE SlotInv'
  BY <1>1, <1>2, TakeSlotKeeps
<1>3. ASSUME NEW j \in Jobs, PrimeQueue(j) PROVE SlotInv'
  BY <1>1, <1>3, QueueKeeps
<1>4. ASSUME NEW j \in Jobs, Finishes(j) PROVE SlotInv'
  BY <1>1, <1>4, FinishesIsFinish, FinishKeeps
<1>5. ASSUME \/ \E j \in Jobs : Moves(j)
             \/ (\E n \in cleanups : CleanupEnds(n)) \/ UNCHANGED vars
      PROVE  SlotInv'
  BY <1>1, <1>5, OthersEffect, SlotsUntouched
<1> QED BY <1>2, <1>3, <1>4, <1>5, StepCases

LEMMA SlotInvariant == Spec => []SlotInv
BY SlotInit, SlotStep, PTL DEF Spec

(* The free slots and the jobs at work always add up to the configured
   number, and prime() never counts below zero (job.js:91-98, 422). *)
THEOREM SlotsNeverLost == Spec => []SlotAccounting
<1>1. SlotInv => SlotAccounting
  BY DEF SlotInv
<1> QED BY <1>1, SlotInvariant, PTL

(* While a job waits and no wakeup is under way every slot is taken
   (job.js:91-95, 422-425). *)
THEOREM NoLostWakeup == Spec => []NoIdleSlotWhileWaiting
<1>1. SlotInv => NoIdleSlotWhileWaiting
  BY DEF SlotInv
<1> QED BY <1>1, SlotInvariant, PTL

(* job_queue is exactly the jobs that wait, each once (job.js:93-95, 424). *)
THEOREM WaitersKept == Spec => []NoWaiterForgotten
<1>1. SlotInv => NoWaiterForgotten
  BY DEF SlotInv
<1> QED BY <1>1, SlotInvariant, PTL

-----------------------------------------------------------------------------
(* A request that just came takes a slot only when nobody waits (job.js:91,
   422-424). *)
THEOREM NobodyBarges == Spec => NoBarging
<1>1. SlotInv /\ [Next]_vars
      => [\A j \in Jobs : pc[j] = "idle" /\ pc'[j] = "init"
            => job_queue = <<>> /\ NoMicrotask]_vars
  <2> SUFFICES ASSUME SlotInv, [Next]_vars, NEW j \in Jobs,
                      pc[j] = "idle", pc'[j] = "init"
               PROVE  job_queue = <<>> /\ NoMicrotask
    OBVIOUS
  <2>1. CoreType /\ pc \in [Jobs -> Phases]
    BY DEF SlotInv, TypeInv, CoreType
  <2>2. ASSUME NEW k \in Jobs, PrimeNow(k) \/ PrimeResume(k)
        PROVE  job_queue = <<>> /\ NoMicrotask
    <3>1. k = j
      BY <2>1, <2>2 DEF PrimeNow, PrimeResume, TakeSlot
    <3> QED BY <2>2, <3>1, TakeSlotEffect DEF NoMicrotask
  <2>3. ASSUME NEW k \in Jobs, PrimeQueue(k) PROVE FALSE
    BY <2>1, <2>3 DEF PrimeQueue
  <2>4. j \notin Holders /\ j \in Holders'
    BY DEF Holders, Working
  <2>5. ASSUME NEW k \in Jobs, Finishes(k) PROVE FALSE
    BY <2>4, <2>5, FinishesIsFinish, FinishEffect
  <2>6. CASE \/ \E k \in Jobs : Moves(k)
             \/ (\E n \in cleanups : CleanupEnds(n)) \/ UNCHANGED vars
    BY <2>1, <2>4, <2>6, OthersEffect
  <2> QED BY <2>2, <2>3, <2>5, <2>6, StepCases
<1> QED BY <1>1, SlotInvariant, PTL DEF Spec, NoBarging

-----------------------------------------------------------------------------
(* The refinement: under the mapping of Slots every step of Job is a step of
   JobSlots or changes nothing there. *)
LEMMA SlotsInit == Init => Slots!Init
BY DEF Init, Slots!Init, Holders, Woken, Working

(* The instance has a copy of Cardinality of its own. *)
LEMMA SameCardinality ==
    ASSUME NEW S
    PROVE  Slots!Cardinality(S) = Cardinality(S)
BY DEF Slots!Cardinality, Cardinality

LEMMA SlotsStep == SlotInv /\ SlotInv' /\ [Next]_vars => [Slots!Next]_Slots!slotVars
<1> SUFFICES ASSUME SlotInv, SlotInv', [Next]_vars
             PROVE  Slots!Next \/ UNCHANGED Slots!slotVars
  OBVIOUS
<1> DEFINE holding == Holders \cup Woken
<1>1. /\ CoreType /\ Slots!Waiters = Queued /\ pc \in [Jobs -> Phases]
      /\ remaining_job_spaces \in Int /\ MaxConcurrentJobs \in Nat
      /\ remaining_job_spaces + Cardinality(Holders) = MaxConcurrentJobs
      /\ Cardinality(Holders) \in Nat
  BY HoldersFinite, SlotsAssumption
     DEF SlotInv, TypeInv, CoreType, SlotAccounting, NoWaiterForgotten, Queued,
         Slots!Waiters
<1>2. ASSUME NEW j \in Jobs, PrimeNow(j) \/ PrimeResume(j)
      PROVE  Slots!Next \/ UNCHANGED Slots!slotVars
  <2>1. CASE PrimeNow(j)
    <3>1. pc[j] = "idle"
      BY <2>1 DEF PrimeNow
    <3>2. /\ holding = Holders /\ holding' = Holders \cup {j}
          /\ job_queue = <<>> /\ job_queue' = job_queue
          /\ Cardinality(Holders) < MaxConcurrentJobs
      BY <1>1, <2>1, <3>1, TakeSlotEffect
    <3>3. j \notin holding \cup Slots!Waiters
      BY <1>1, <3>1 DEF Holders, Woken, Queued, Working
    <3>4. Slots!Acquire(j)
      BY <3>2, <3>3, SameCardinality DEF Slots!Acquire
    <3> QED BY <3>4 DEF Slots!Next
  <2>2. CASE PrimeResume(j)
    <3>1. j \in Woken
      BY <2>2 DEF PrimeResume, Woken
    <3>2. holding' = holding /\ job_queue' = job_queue
      BY <2>2, <3>1, TakeSlotEffect
    <3> QED BY <3>2 DEF Slots!slotVars
  <2> QED BY <1>2, <2>1, <2>2
<1>3. ASSUME NEW j \in Jobs, PrimeQueue(j)
      PROVE  Slots!Next
  <2>1. /\ holding = Holders /\ holding' = holding
        /\ Cardinality(Holders) = MaxConcurrentJobs
        /\ job_queue' = Append(job_queue, j)
    <3>1. /\ remaining_job_spaces = 0 /\ Holders' = Holders
          /\ Woken = {} /\ Woken' = {}
      BY <1>3, QueueKeeps DEF SlotInv
    <3>2. Cardinality(Holders) = MaxConcurrentJobs
      BY <1>1, <3>1
    <3> QED BY <1>3, <3>1, <3>2 DEF PrimeQueue
  <2>2. j \notin holding \cup Slots!Waiters
    BY <1>1, <1>3 DEF PrimeQueue, Holders, Woken, Queued, Working
  <2>3. Slots!Enqueue(j)
    BY <2>1, <2>2, SameCardinality DEF Slots!Enqueue
  <2> QED BY <2>3 DEF Slots!Next
<1>4. ASSUME NEW j \in Jobs, Finishes(j)
      PROVE  Slots!Next
  <2>1. j \in Holders /\ NoMicrotask
    BY <1>4, FinishesIsFinish
  <2>2. PICK status, dirty : Finish(j, status, dirty)
    BY <1>4, FinishesIsFinish
  <2>3. CASE job_queue = <<>>
    <3>1. holding = Holders /\ holding' = Holders \ {j} /\ job_queue' = <<>>
      BY <2>1, <2>2, <2>3, FinishEffect
    <3>2. Slots!Free(j)
      BY <2>1, <2>3, <3>1 DEF Slots!Free
    <3> QED BY <3>2 DEF Slots!Next
  <2>4. CASE job_queue # <<>>
    <3>1. /\ holding = Holders /\ job_queue' = Tail(job_queue)
          /\ holding' = (Holders \ {j}) \cup {Head(job_queue)}
      BY <2>1, <2>2, <2>4, FinishEffect
    <3>2. Slots!HandOver(j)
      BY <2>1, <2>4, <3>1 DEF Slots!HandOver
    <3> QED BY <3>2 DEF Slots!Next
  <2> QED BY <2>3, <2>4
<1>5. CASE \/ \E j \in Jobs : Moves(j)
           \/ (\E n \in cleanups : CleanupEnds(n)) \/ UNCHANGED vars
  BY <1>1, <1>5, OthersEffect DEF slotVars, Slots!slotVars
<1> QED BY <1>2, <1>3, <1>4, <1>5, StepCases

(* Job implements JobSlots: whatever prime(), execute() and cleanup() of the
   requests do, slots are handed over first come, first served (job.js:90-98,
   419-425). *)
THEOREM JobImplementsJobSlots == Spec => SlotsAreHandedOver
BY SlotsInit, SlotsStep, SlotInvariant, PTL
   DEF Spec, SlotsAreHandedOver, Slots!Spec

-----------------------------------------------------------------------------
LEMMA DivMod ==
    ASSUME NEW a \in Nat, NEW m \in Nat \ {0}
    PROVE  \E q \in Nat, r \in 0..(m - 1) : a = m * q + r /\ r = a % m
<1>1. a = m * (a \div m) + (a % m) /\ a \div m \in Nat
  BY SMT
<1>2. a % m \in 0..(m - 1)
  BY SMT
<1> QED BY <1>1, <1>2

LEMMA NextWithSameId ==
    ASSUME NEW a \in Nat, NEW b \in Nat, SameId(a, b), a < b
    PROVE  b >= a + MAX_BOX_ID
<1> DEFINE m == MAX_BOX_ID
<1>1. m \in Nat \ {0}
  BY BoxIdAssumption
<1>2. a % m = b % m
  BY DEF SameId, get_next_box_id
<1> HIDE DEF m
<1>3. PICK p \in Nat, r \in 0..(m - 1) : a = m * p + r /\ r = a % m
  BY <1>1, DivMod
<1>4. PICK q \in Nat : b = m * q + r
  <2>1. PICK q \in Nat, s \in 0..(m - 1) : b = m * q + s /\ s = b % m
    BY <1>1, DivMod
  <2>2. s = r
    BY <1>2, <1>3, <2>1
  <2> QED BY <2>1, <2>2
<1>5. m * p < m * q
  BY <1>1, <1>3, <1>4
<1>6. p < q
  BY <1>1, <1>5
<1>7. q >= p + 1
  BY <1>6
<1>8. m * q >= m * (p + 1)
  BY <1>1, <1>7
<1>9. b >= a + m
  BY <1>1, <1>3, <1>4, <1>8
<1> QED BY <1>9 DEF m

(* Two allocations with the same box id are MAX_BOX_ID or more apart: what
   get_next_box_id promises (job.js:15-22). *)
THEOREM SameIdFarApart ==
    ASSUME NEW a \in Nat, NEW b \in Nat, SameId(a, b), a # b
    PROVE  a >= b + MAX_BOX_ID \/ b >= a + MAX_BOX_ID
<1>1. CASE a < b
  BY <1>1, NextWithSameId
<1>2. CASE b < a
  BY <1>2, NextWithSameId DEF SameId
<1> QED BY <1>1, <1>2

-----------------------------------------------------------------------------
(* Who owns which allocation.  That a cleanup never hits the sandbox it was
   not started for, but through its id, needs all of it: allocations belong
   to one job, one that is being cleaned up belongs to no job at work, and a
   job that has not passed prime()'s wait has none. *)
Own(j) == (dirty_boxes[j] \cup {box[j]}) \ {0}

OwnInv ==
    /\ \A j, k \in Jobs : j # k => Own(j) \cap Own(k) = {}
    /\ \A j \in Holders : Own(j) \cap cleanups = {}
    /\ \A j \in Jobs : pc[j] \in {"idle", "queued", "woken"} => Own(j) = {}

WorkInv == SlotInv /\ OwnInv

SandboxInv == WorkInv /\ NoSandboxLeak

LEMMA WorkInit == Init => WorkInv
<1> SUFFICES ASSUME Init PROVE WorkInv
  OBVIOUS
<1>1. OwnInv
  BY DEF Init, OwnInv, Own
<1> QED BY <1>1, SlotInit DEF WorkInv

(* Allocating gives j an ordinal nobody has. *)
LEMMA AllocationOwn ==
    ASSUME TypeInv, OwnInv, NEW j \in Jobs, create_isolate_box(j),
           UNCHANGED <<dirty_boxes, cleanups>>,
           Holders' \subseteq Holders \cup {j},
           \A k \in Jobs \ {j} : pc'[k] = pc[k],
           pc'[j] \in Working,
           j \in Holders \/ dirty_boxes[j] = {}
    PROVE  OwnInv'
<1>1. /\ box_id \in Nat /\ box' = [box EXCEPT ![j] = box_id + 1]
      /\ box \in [Jobs -> 0..box_id]
      /\ dirty_boxes \in [Jobs -> SUBSET (1..box_id)]
      /\ cleanups \subseteq 1..box_id
  BY DEF TypeInv, CoreType, create_isolate_box
<1>2. \A k \in Jobs \ {j} : Own(k)' = Own(k)
  BY <1>1 DEF Own
<1>3. Own(j)' = dirty_boxes[j] \cup {box_id + 1}
  BY <1>1 DEF Own
<1>4. dirty_boxes[j] \subseteq Own(j)
  BY <1>1 DEF Own
<1>5. \A k \in Jobs : Own(k) \subseteq 1..box_id
  BY <1>1 DEF Own
<1>6. box_id + 1 \notin 1..box_id
  BY <1>1
<1>7. \A k \in Jobs \ {j} : Own(k) \cap Own(j)' = {}
  BY <1>3, <1>4, <1>5, <1>6 DEF OwnInv
<1>8. \A i, k \in Jobs : i # k => Own(i)' \cap Own(k)' = {}
  BY <1>2, <1>7 DEF OwnInv
<1>9. Own(j)' \cap cleanups' = {}
  <2>1. dirty_boxes[j] \cap cleanups = {}
    BY <1>4 DEF OwnInv
  <2> QED BY <1>1, <1>3, <1>6, <2>1
<1>10. \A k \in Holders' : Own(k)' \cap cleanups' = {}
  BY <1>2, <1>9 DEF OwnInv, Holders
<1>11. \A k \in Jobs : pc'[k] \in {"idle", "queued", "woken"} => Own(k)' = {}
  BY <1>2 DEF OwnInv, Working
<1> QED BY <1>8, <1>10, <1>11 DEF OwnInv

(* A step that lets nobody own more, starts no cleanup and no work. *)
LEMMA OwnUntouched ==
    ASSUME OwnInv, \A j \in Jobs : Own(j)' = Own(j),
           cleanups' \subseteq cleanups, Holders' \subseteq Holders,
           \A j \in Jobs : pc'[j] \in {"idle", "queued", "woken"}
                             => pc[j] \in {"idle", "queued", "woken"}
    PROVE  OwnInv'
<1>1. \A i, k \in Jobs : i # k => Own(i)' \cap Own(k)' = {}
  BY DEF OwnInv
<1>2. \A j \in Holders' : Own(j)' \cap cleanups' = {}
  BY DEF OwnInv, Holders
<1>3. \A j \in Jobs : pc'[j] \in {"idle", "queued", "woken"} => Own(j)' = {}
  BY DEF OwnInv
<1> QED BY <1>1, <1>2, <1>3 DEF OwnInv

LEMMA FinishOwn ==
    ASSUME WorkInv, TypeInv', NEW j \in Holders, NoMicrotask, NEW status,
           NEW dirty, dirty \subseteq dirty_boxes[j] \cup {box[j]},
           dirty_boxes[j] \subseteq dirty, Finish(j, status, dirty)
    PROVE  OwnInv'
<1>1. /\ Holders' = Holders \ {j}
      /\ dirty_boxes' = [dirty_boxes EXCEPT ![j] = dirty]
      /\ cleanups' = cleanups \cup dirty /\ box' = box
      /\ dirty_boxes \in [Jobs -> SUBSET (1..box_id)]
      /\ j \in Jobs
  BY FinishEffect DEF WorkInv, SlotInv, TypeInv, CoreType, Finish, cleanup, Holders
<1>2. \A k \in Jobs : Own(k)' = Own(k)
  BY <1>1 DEF Own
<1>3. 0 \notin dirty
  BY <1>1 DEF TypeInv, CoreType
<1>4. dirty \subseteq Own(j)
  BY <1>3 DEF Own
<1>5. \A k \in Holders' : Own(k) \cap cleanups' = {}
  BY <1>1, <1>4 DEF WorkInv, OwnInv, Holders
<1>6. ASSUME NEW k \in Jobs, pc'[k] \in {"idle", "queued", "woken"}
      PROVE  Own(k) = {}
  <2>1. pc[k] \in {"idle", "queued", "woken"}
    <3>1. pc \in [Jobs -> Phases] /\ pc[j] \in Working
      BY DEF WorkInv, SlotInv, TypeInv, CoreType, Holders
    <3>2. CASE job_queue = <<>>
      BY <1>6, <3>1, <3>2 DEF Finish, cleanup
    <3>3. CASE job_queue # <<>>
      <4>1. Head(job_queue) \in Queued
        BY <3>3, FinishEffect DEF WorkInv
      <4>2. CASE k = Head(job_queue)
        BY <4>1, <4>2 DEF Queued
      <4>3. CASE k # Head(job_queue)
        BY <1>1, <1>6, <3>1, <3>3, <4>3 DEF Finish, cleanup
      <4> QED BY <4>2, <4>3
    <3> QED BY <3>2, <3>3
  <2> QED BY <2>1 DEF WorkInv, OwnInv
<1>7. \A i, k \in Jobs : i # k => Own(i)' \cap Own(k)' = {}
  BY <1>2 DEF WorkInv, OwnInv
<1>8. \A k \in Holders' : Own(k)' \cap cleanups' = {}
  BY <1>2, <1>5 DEF Holders
<1>9. \A k \in Jobs : pc'[k] \in {"idle", "queued", "woken"} => Own(k)' = {}
  BY <1>2, <1>6
<1> QED BY <1>7, <1>8, <1>9 DEF OwnInv

(* What a request that ends leaves to its isolate --cleanup processes. *)
LEMMA FinishesDirty ==
    ASSUME NEW j \in Jobs, Finishes(j)
    PROVE  /\ j \in Holders /\ NoMicrotask
           /\ \E status, dirty :
                /\ Finish(j, status, dirty)
                /\ dirty \subseteq dirty_boxes[j] \cup {box[j]}
                /\ dirty_boxes[j] \subseteq dirty
                /\ host' \subseteq host \cup (dirty \cap {box[j]})
<1>1. j \in Holders /\ NoMicrotask
  BY FinishesIsFinish
<1>2. CASE InitFail(j)
  <2>1. host' \subseteq host \cup {box[j]}
    BY <1>2 DEF InitFail, HostWith
  <2> QED BY <1>1, <1>2, <2>1 DEF InitFail
<1>3. CASE CompileErrored(j) \/ RunDone(j) \/ StepThrows(j)
  <2>1. host' = host
    BY <1>3 DEF CompileErrored, RunDone, StepThrows
  <2> QED BY <1>1, <1>3, <2>1 DEF CompileErrored, RunDone, StepThrows
<1> QED BY <1>2, <1>3 DEF Finishes

LEMMA WorkStep ==
    ASSUME WorkInv, [Next]_vars
    PROVE  WorkInv'
<1> SUFFICES OwnInv'
  BY SlotStep DEF WorkInv
<1> /\ OwnInv /\ SlotInv /\ TypeInv /\ TypeInv' /\ CoreType
    /\ pc \in [Jobs -> Phases]
    /\ dirty_boxes \in [Jobs -> SUBSET (1..box_id)]
  BY TypeStep DEF WorkInv, SlotInv, TypeInv, CoreType
<1>1. ASSUME NEW j \in Jobs, PrimeNow(j) \/ PrimeResume(j) PROVE OwnInv'
  <2>1. TakeSlot(j) /\ pc[j] \in {"idle", "queued", "woken"}
    BY <1>1 DEF PrimeNow, PrimeResume
  <2>2. dirty_boxes[j] = {}
    <3>1. Own(j) = {}
      BY <2>1 DEF OwnInv
    <3>2. 0 \notin dirty_boxes[j]
      OBVIOUS
    <3> QED BY <3>1, <3>2 DEF Own
  <2>3. /\ create_isolate_box(j)
        /\ UNCHANGED <<dirty_boxes, cleanups>>
        /\ \A k \in Jobs \ {j} : pc'[k] = pc[k]
        /\ pc'[j] \in Working
    BY <2>1 DEF TakeSlot, hostVars, Working
  <2>4. Holders' \subseteq Holders \cup {j}
    BY <1>1, TakeSlotEffect
  <2> QED BY <2>2, <2>3, <2>4, AllocationOwn
<1>2. ASSUME NEW j \in Jobs, PrimeQueue(j) PROVE OwnInv'
  <2>1. /\ \A k \in Jobs : Own(k)' = Own(k)
        /\ cleanups' = cleanups
    BY <1>2 DEF PrimeQueue, hostVars, Own
  <2>2. Holders' \subseteq Holders
    BY <1>2, QueueKeeps
  <2>3. \A k \in Jobs : pc'[k] \in {"idle", "queued", "woken"}
                          => pc[k] \in {"idle", "queued", "woken"}
    BY <1>2 DEF PrimeQueue
  <2> QED BY <2>1, <2>2, <2>3, OwnUntouched
<1>3. ASSUME NEW j \in Jobs, Finishes(j) PROVE OwnInv'
  BY <1>3, FinishesDirty, FinishOwn
<1>4. ASSUME NEW j \in Jobs, CompileOk(j) PROVE OwnInv'
  <2>1. j \in Holders
    BY <1>4 DEF CompileOk, Holders, Working
  <2>2. /\ create_isolate_box(j)
        /\ UNCHANGED <<dirty_boxes, cleanups>>
        /\ \A k \in Jobs \ {j} : pc'[k] = pc[k]
        /\ pc'[j] \in Working
    BY <1>4 DEF CompileOk, hostVars, Working
  <2>3. Holders' \subseteq Holders \cup {j}
    BY <1>4, OthersEffect DEF Moves
  <2> QED BY <2>1, <2>2, <2>3, AllocationOwn
<1>5. ASSUME NEW j \in Jobs,
             InitDone(j) \/ WriteDone(j) \/ RenameDone(j) \/ RmDone(j)
               \/ RejectRequest(j)
      PROVE  OwnInv'
  <2>1. Holders' \subseteq Holders
    BY <1>5, OthersEffect DEF Moves
  <2>2. cleanups' = cleanups
    BY <1>5 DEF InitDone, WriteDone, RenameDone, RmDone, RejectRequest, hostVars
  <2>3. \A k \in Jobs : pc'[k] \in {"idle", "queued", "woken"}
                          => pc[k] \in {"idle", "queued", "woken"}
    BY <1>5 DEF InitDone, WriteDone, RenameDone, RmDone, RejectRequest
  <2>4. CASE InitDone(j)
    <3>1. /\ dirty_boxes' = [dirty_boxes EXCEPT ![j] = @ \cup {box[j]}]
          /\ box' = box
      BY <2>4 DEF InitDone
    <3>2. \A k \in Jobs : Own(k)' = Own(k)
      BY <3>1 DEF Own
    <3> QED BY <2>1, <2>2, <2>3, <3>2, OwnUntouched
  <2>5. CASE WriteDone(j) \/ RenameDone(j) \/ RmDone(j) \/ RejectRequest(j)
    <3>1. dirty_boxes' = dirty_boxes /\ box' = box
      BY <2>5 DEF WriteDone, RenameDone, RmDone, RejectRequest
    <3>2. \A k \in Jobs : Own(k)' = Own(k)
      BY <3>1 DEF Own
    <3> QED BY <2>1, <2>2, <2>3, <3>2, OwnUntouched
  <2> QED BY <1>5, <2>4, <2>5
<1>6. CASE (\E n \in cleanups : CleanupEnds(n)) \/ UNCHANGED vars
  <2>1. /\ UNCHANGED jobVars /\ cleanups' \subseteq cleanups
    BY <1>6 DEF CleanupEnds, CleanupDone, CleanupFail, vars, hostVars
  <2>2. /\ \A k \in Jobs : Own(k)' = Own(k)
        /\ Holders' \subseteq Holders
        /\ pc' = pc
    BY <2>1 DEF jobVars, Own, Holders
  <2> QED BY <2>1, <2>2, OwnUntouched
<1> QED BY <1>1, <1>2, <1>3, <1>4, <1>5, <1>6, StepCases DEF Moves

LEMMA LeakStep ==
    ASSUME SandboxInv, [Next]_vars
    PROVE  NoSandboxLeak'
<1> /\ SlotInv /\ TypeInv /\ CoreType /\ NoSandboxLeak
    /\ pc \in [Jobs -> Phases]
    /\ dirty_boxes \in [Jobs -> SUBSET (1..box_id)]
  BY DEF SandboxInv, WorkInv, SlotInv, TypeInv, CoreType
<1>1. ASSUME NEW j \in Jobs, PrimeNow(j) \/ PrimeResume(j)
      PROVE  NoSandboxLeak'
  <2>1. Holders \subseteq Holders'
    BY <1>1, TakeSlotEffect
  <2>2. UNCHANGED <<dirty_boxes, host, cleanups, failed_cleanups>>
    BY <1>1 DEF PrimeNow, PrimeResume, TakeSlot, hostVars
  <2> QED BY <2>1, <2>2 DEF NoSandboxLeak
<1>2. ASSUME NEW j \in Jobs, PrimeQueue(j) PROVE NoSandboxLeak'
  <2>1. Holders' = Holders
    BY <1>2, QueueKeeps, TypeStep DEF SlotInv
  <2> QED BY <1>2, <2>1 DEF PrimeQueue, hostVars, NoSandboxLeak
<1>3. ASSUME NEW j \in Jobs, Finishes(j) PROVE NoSandboxLeak'
  <2>1. j \in Holders /\ NoMicrotask
    BY <1>3, FinishesDirty
  <2>2. PICK status, dirty :
          /\ Finish(j, status, dirty)
          /\ dirty_boxes[j] \subseteq dirty
          /\ host' \subseteq host \cup dirty
    BY <1>3, FinishesDirty
  <2>3. /\ Holders' = Holders \ {j}
        /\ dirty_boxes' = [dirty_boxes EXCEPT ![j] = dirty]
        /\ cleanups' = cleanups \cup dirty
        /\ failed_cleanups' = failed_cleanups
    BY <2>1, <2>2, FinishEffect DEF Finish, cleanup
  <2>4. ASSUME NEW k \in Holders, k # j
        PROVE  k \in Holders' /\ dirty_boxes'[k] = dirty_boxes[k]
    BY <2>3, <2>4 DEF Holders
  <2>5. ASSUME NEW n \in host'
        PROVE  \/ \E k \in Holders' : n \in dirty_boxes'[k]
               \/ n \in cleanups' \cup failed_cleanups'
    <3>1. CASE n \in dirty \cup cleanups \cup failed_cleanups
      BY <2>3, <3>1
    <3>2. CASE \E k \in Holders : n \in dirty_boxes[k]
      <4>1. PICK k \in Holders : n \in dirty_boxes[k]
        BY <3>2
      <4>2. CASE k = j
        BY <2>2, <2>3, <4>1, <4>2
      <4>3. CASE k # j
        BY <2>4, <4>1, <4>3
      <4> QED BY <4>2, <4>3
    <3> QED BY <2>2, <3>1, <3>2 DEF NoSandboxLeak
  <2> QED BY <2>5 DEF NoSandboxLeak
<1>4. ASSUME NEW j \in Jobs, InitDone(j) PROVE NoSandboxLeak'
  <2>1. Holders' = Holders /\ j \in Holders
    BY <1>4, OthersEffect DEF Moves, InitDone, Holders, Working
  <2>2. /\ dirty_boxes' = [dirty_boxes EXCEPT ![j] = @ \cup {box[j]}]
        /\ host' \subseteq host \cup {box[j]}
        /\ UNCHANGED <<cleanups, failed_cleanups>>
    BY <1>4 DEF InitDone, HostWith
  <2>3. \A k \in Holders : dirty_boxes[k] \subseteq dirty_boxes'[k]
    BY <2>2 DEF Holders
  <2>4. box[j] \in dirty_boxes'[j]
    BY <2>2
  <2> QED BY <2>1, <2>2, <2>3, <2>4 DEF NoSandboxLeak
<1>5. ASSUME NEW j \in Jobs, CompileOk(j) \/ WriteDone(j) \/ RenameDone(j)
                               \/ RmDone(j) \/ RejectRequest(j)
      PROVE  NoSandboxLeak'
  <2>1. Holders' = Holders
    BY <1>5, OthersEffect DEF Moves
  <2>2. UNCHANGED <<dirty_boxes, host, cleanups, failed_cleanups>>
    BY <1>5 DEF CompileOk, WriteDone, RenameDone, RmDone, RejectRequest, hostVars
  <2> QED BY <2>1, <2>2 DEF NoSandboxLeak
<1>6. ASSUME NEW n \in cleanups, CleanupEnds(n) PROVE NoSandboxLeak'
  <2>1. Holders' = Holders /\ dirty_boxes' = dirty_boxes
    BY <1>6 DEF CleanupEnds, CleanupDone, CleanupFail, jobVars, Holders
  <2>2. n \in host' => n \in failed_cleanups'
    BY <1>6 DEF CleanupEnds, CleanupDone, CleanupFail, SameId
  <2>3. /\ host' \subseteq host /\ cleanups' = cleanups \ {n}
        /\ failed_cleanups \subseteq failed_cleanups'
    BY <1>6 DEF CleanupEnds, CleanupDone, CleanupFail
  <2> QED BY <2>1, <2>2, <2>3 DEF NoSandboxLeak
<1>7. CASE UNCHANGED vars
  BY <1>7 DEF vars, jobVars, hostVars, NoSandboxLeak, Holders
<1> QED BY <1>1, <1>2, <1>3, <1>4, <1>5, <1>6, <1>7, StepCases DEF Moves

LEMMA SandboxInvariant == Spec => []SandboxInv
<1>1. Init => SandboxInv
  BY WorkInit DEF Init, SandboxInv, NoSandboxLeak
<1>2. SandboxInv /\ [Next]_vars => SandboxInv'
  BY WorkStep, LeakStep DEF SandboxInv
<1> QED BY <1>1, <1>2, PTL DEF Spec

(* No sandbox on the host is orphaned (job.js:69-84, 385, 427-437). *)
THEOREM SandboxesNeverLeak == Spec => []NoSandboxLeak
<1>1. SandboxInv => NoSandboxLeak
  BY DEF SandboxInv
<1> QED BY <1>1, SandboxInvariant, PTL

-----------------------------------------------------------------------------
(* What SandboxLostOnlyToReuse says of one job. *)
LossIsReuse(j) ==
    /\ pc[j] \in InSandbox
    /\ pc'[j] \in InSandbox
    /\ box[j] \in host \ host'
    => \E m \in cleanups \cup {box[k] : k \in Holders} :
          /\ SameId(m, box[j])
          /\ m >= box[j] + MAX_BOX_ID \/ box[j] >= m + MAX_BOX_ID

LEMMA LossStep ==
    ASSUME WorkInv, [Next]_vars, NEW j \in Jobs
    PROVE  LossIsReuse(j)
<1>1. ASSUME pc[j] \in InSandbox, pc'[j] \in InSandbox,
             box[j] \in host \ host'
      PROVE  \E m \in cleanups \cup {box[k] : k \in Holders} :
                /\ SameId(m, box[j])
                /\ m >= box[j] + MAX_BOX_ID \/ box[j] >= m + MAX_BOX_ID
  <2>1. /\ CoreType /\ box \in [Jobs -> 0..box_id] /\ box_id \in Nat
        /\ cleanups \subseteq 1..box_id
        /\ SlotInv /\ OwnInv /\ TypeInv
    BY DEF WorkInv, SlotInv, TypeInv, CoreType
  <2>2. j \in Holders /\ box[j] \in Nat /\ box[j] # 0
    BY <1>1, <2>1 DEF Holders, Working, InSandbox, TypeInv, Allocated
  <2>3. ASSUME NEW m \in cleanups \cup {box[k] : k \in Holders},
               SameId(m, box[j]), m # box[j]
        PROVE  m >= box[j] + MAX_BOX_ID \/ box[j] >= m + MAX_BOX_ID
    <3>1. m \in Nat
      <4>1. CASE m \in cleanups
        BY <2>1, <4>1
      <4>2. CASE m \in {box[k] : k \in Holders}
        BY <2>1, <4>2 DEF Holders
      <4> QED BY <2>3, <4>1, <4>2
    <3> QED BY <2>2, <2>3, <3>1, SameIdFarApart
  <2>4. \E m \in cleanups \cup {box[k] : k \in Holders} :
           SameId(m, box[j]) /\ m # box[j]
    <3>1. ASSUME NEW k \in Jobs, InitDone(k) \/ InitFail(k)
          PROVE  \E m \in {box[i] : i \in Holders} :
                    SameId(m, box[j]) /\ m # box[j]
      <4>1. k \in Holders
        BY <3>1 DEF InitDone, InitFail, Holders, Working
      <4>2. host' = HostWith(box[k])
        BY <1>1, <3>1 DEF InitDone, InitFail
      <4>3. SameId(box[k], box[j]) /\ box[k] # box[j]
        BY <1>1, <4>2 DEF HostWith, SameId
      <4> QED BY <4>1, <4>3
    <3>2. ASSUME NEW n \in cleanups, CleanupEnds(n)
          PROVE  SameId(n, box[j]) /\ n # box[j]
      <4>1. SameId(n, box[j])
        BY <1>1, <3>2 DEF CleanupEnds, CleanupDone, CleanupFail, SameId
      <4>2. box[j] \in Own(j) /\ Own(j) \cap cleanups = {}
        BY <2>1, <2>2 DEF Own, OwnInv
      <4> QED BY <4>1, <4>2
    <3>3. CASE UNCHANGED host
      BY <1>1, <3>3
    <3>4. ASSUME NEW k \in Jobs, Moves(k) PROVE InitDone(k) \/ UNCHANGED host
      BY <3>4 DEF Moves, CompileOk, WriteDone, RenameDone, RmDone,
                  RejectRequest, hostVars
    <3>5. ASSUME NEW k \in Jobs, Finishes(k) PROVE InitFail(k) \/ UNCHANGED host
      BY <3>5 DEF Finishes, CompileErrored, RunDone, StepThrows
    <3>6. ASSUME NEW k \in Jobs, PrimeNow(k) \/ PrimeResume(k) \/ PrimeQueue(k)
          PROVE  UNCHANGED host
      BY <3>6 DEF PrimeNow, PrimeResume, PrimeQueue, TakeSlot, hostVars
    <3>7. UNCHANGED vars => UNCHANGED host
      BY DEF vars, hostVars
    <3> QED
      BY <1>1, <3>1, <3>2, <3>3, <3>4, <3>5, <3>6, <3>7, StepCases
  <2> QED BY <2>3, <2>4
<1> QED BY <1>1 DEF LossIsReuse

(* A sandbox at work is destroyed only by an allocation with the same box id
   that is at least MAX_BOX_ID older or younger (job.js:22, 64, 428). *)
THEOREM SandboxesLostOnlyToReuse == Spec => SandboxLostOnlyToReuse
<1>1. WorkInv /\ [Next]_vars => [\A j \in Jobs : LossIsReuse(j)]_vars
  BY LossStep
<1>2. SandboxInv => WorkInv
  BY DEF SandboxInv
<1> QED
  BY <1>1, <1>2, SandboxInvariant, PTL
     DEF Spec, SandboxLostOnlyToReuse, LossIsReuse

-----------------------------------------------------------------------------
(* Over the lives of the server: the sandboxes given out in this life have
   positive ordinals, and none in use shares its id with a leftover.  The
   types are those the argument needs; TypeOK itself does not survive a
   restart, since leftovers have negative ordinals. *)
LifeInv ==
    /\ pc \in [Jobs -> Phases]
    /\ box \in [Jobs -> Int]
    /\ box_id \in Nat
    /\ \A j \in Jobs : pc[j] \in Inits => box[j] > 0
    /\ NeverInLeftover

LEMMA LifeInit == ServerInit => LifeInv
BY DEF ServerInit, Init, LifeInv, NeverInLeftover, Phases, Inits, InSandbox

(* A request enters a sandbox only by isolate --init; the others stay where
   they are, or leave. *)
LEMMA WorkEffect ==
    ASSUME LifeInv, NEW k \in Jobs,
           \/ PrimeNow(k) \/ PrimeResume(k) \/ PrimeQueue(k)
           \/ Finishes(k) \/ (Moves(k) /\ ~InitDone(k))
    PROVE  /\ pc' \in [Jobs -> Phases] /\ box' \in [Jobs -> Int]
           /\ box_id' \in Nat
           /\ \A j \in Jobs : pc'[j] \in Inits => box'[j] > 0
           /\ \A j \in Jobs : pc'[j] \in InSandbox =>
                  pc[j] \in InSandbox /\ box'[j] = box[j]
           /\ \A n \in host' : n < 0 => n \in host
<1> USE DEF LifeInv, Phases, Working, Inits, InSandbox
<1>1. CASE PrimeNow(k) \/ PrimeResume(k)
    BY <1>1 DEF PrimeNow, PrimeResume, TakeSlot, create_isolate_box, hostVars
<1>2. CASE PrimeQueue(k)
    BY <1>2 DEF PrimeQueue, hostVars
<1>3. CASE Finishes(k)
  <2>1. /\ pc' = [pc EXCEPT ![k] = "rm"]
           \/ pc' = [pc EXCEPT ![k] = "rm", ![Head(job_queue)] = "woken"]
        /\ box' = box /\ box_id' = box_id
    BY <1>3 DEF Finishes, InitFail, CompileErrored, RunDone, StepThrows,
                Finish, cleanup
  <2>2. \A j \in Jobs : pc'[j] \in {pc[j], "rm", "woken"}
    BY <2>1
  <2>3. pc' \in [Jobs -> Phases]
    BY <2>1
  <2>4. \A n \in host' : n < 0 => n \in host
    BY <1>3 DEF Finishes, InitFail, CompileErrored, RunDone, StepThrows,
                HostWith
  <2> QED
    BY <2>1, <2>2, <2>3, <2>4
<1>4. CASE CompileOk(k)
    BY <1>4 DEF CompileOk, create_isolate_box, hostVars
<1>5. CASE Moves(k) /\ ~InitDone(k) /\ ~CompileOk(k)
    BY <1>5 DEF Moves, WriteDone, RenameDone, RmDone, RejectRequest, hostVars
<1> QED
    BY <1>1, <1>2, <1>3, <1>4, <1>5

LEMMA LifeStep == LifeInv /\ [ServerNext]_serverVars => LifeInv'
<1> SUFFICES ASSUME LifeInv, [ServerNext]_serverVars PROVE LifeInv'
    OBVIOUS
<1> USE DEF LifeInv, NeverInLeftover, Leftovers
<1>1. ASSUME NEW k \in Jobs,
             \/ PrimeNow(k) \/ PrimeResume(k) \/ PrimeQueue(k)
             \/ Finishes(k) \/ (Moves(k) /\ ~InitDone(k))
      PROVE  LifeInv'
  <2>1. NeverInLeftover'
    BY <1>1, WorkEffect DEF SameId
  <2> QED
    BY <1>1, <2>1, WorkEffect
<1>2. ASSUME NEW k \in Jobs, InitDone(k) PROVE LifeInv'
  <2>1. /\ box' = box /\ box_id' = box_id /\ box[k] > 0
        /\ host' = HostWith(box[k])
        /\ \E p \in {"write", "rename"} : pc' = [pc EXCEPT ![k] = p]
    BY <1>2 DEF InitDone, Inits
  <2>2. ASSUME NEW j \in Jobs, pc'[j] \in InSandbox, NEW n \in host', n < 0
        PROVE  ~SameId(n, box[j])
    <3>1. n \in host /\ ~SameId(n, box[k])
      BY <2>1, <2>2 DEF HostWith
    <3>2. CASE j = k
      BY <3>1, <3>2
    <3>3. CASE j # k
      BY <2>1, <2>2, <3>1, <3>3
    <3> QED
      BY <3>2, <3>3
  <2>3. NeverInLeftover'
    BY <2>1, <2>2 DEF SameId
  <2> QED
    BY <2>1, <2>3 DEF Phases, Working, Inits
<1>3. ASSUME NEW n \in cleanups, CleanupEnds(n) PROVE LifeInv'
  <2>1. host' \subseteq host /\ pc' = pc /\ box' = box /\ box_id' = box_id
    BY <1>3 DEF CleanupEnds, CleanupDone, CleanupFail, jobVars
  <2> QED
    BY <2>1 DEF SameId
<1>4. ASSUME NEW how, ProcessEnds(how) PROVE LifeInv'
    BY <1>4 DEF ProcessEnds, Phases, Inits, InSandbox
<1>5. CASE UNCHANGED vars
    BY <1>5 DEF vars, jobVars, hostVars, SameId
<1>6. CASE JobStep
  <2>1. \/ \E k \in Jobs :
              \/ PrimeNow(k) \/ PrimeResume(k) \/ PrimeQueue(k)
              \/ Finishes(k) \/ Moves(k)
        \/ \E n \in cleanups : CleanupEnds(n)
    BY <1>6 DEF JobStep, Next, Arrive, Progress, Moves, Finishes
  <2> QED
    BY <1>1, <1>2, <1>3, <2>1
<1> QED
    BY <1>4, <1>5, <1>6 DEF ServerNext, serverVars, Sigterm, ListPackages,
                            ListDone, ListFails, Restart

(* For any requests, slots and box ids, and whenever the process ends: no
   request works in a sandbox that an earlier life of the process left
   (job.js:64-86, index.js:96, playground.js:136). *)
THEOREM LeftoversAreNotUsed == ServerSpec => []NeverInLeftover
<1>1. LifeInv => NeverInLeftover
    BY DEF LifeInv
<1> QED
    BY <1>1, LifeInit, LifeStep, PTL DEF ServerSpec

-----------------------------------------------------------------------------
(* A process that ends leaves the next one with the state it starts from,
   but for the host and for the requests that were answered. *)
LEMMA FreshAfterEnd ==
    ASSUME NEW how, ProcessEnds(how), WorkInv
    PROVE  WorkInv'
<1>1. /\ pc' = [j \in Jobs |-> IF response[j] = "none" THEN "idle" ELSE "done"]
      /\ state' = [j \in Jobs |-> "READY"]
      /\ response' = response
      /\ remaining_job_spaces' = MaxConcurrentJobs /\ job_queue' = <<>>
      /\ box_id' = 0 /\ box' = [j \in Jobs |-> 0]
      /\ dirty_boxes' = [j \in Jobs |-> {}]
      /\ cleanups' = {} /\ failed_cleanups' = {}
  BY DEF ProcessEnds
<1>2. response \in [Jobs -> Responses]
  BY DEF WorkInv, SlotInv, TypeInv, CoreType
<1>3. CoreType'
  BY <1>1, <1>2, SlotsAssumption DEF CoreType, Phases, JobStates
<1>4. Holders' = {} /\ Woken' = {} /\ Queued' = {}
  BY <1>1 DEF Holders, Woken, Queued, Working
<1>5. TypeInv'
  BY <1>3, <1>4 DEF TypeInv, Allocated
<1>6. SlotAccounting'
  BY <1>1, <1>4, FS_EmptySet, SlotsAssumption DEF SlotAccounting
<1>7. NoIdleSlotWhileWaiting' /\ WakeupMeansOneSlot'
  BY <1>1, <1>4 DEF NoIdleSlotWhileWaiting, WakeupMeansOneSlot
<1>8. NoWaiterForgotten'
  BY <1>1, <1>4 DEF NoWaiterForgotten, Queued
<1>9. OwnInv'
  BY <1>1 DEF OwnInv, Own, Holders
<1> QED BY <1>5, <1>6, <1>7, <1>8, <1>9 DEF WorkInv, SlotInv

(* Whatever the process does, a request takes a step of Job, or all of them
   are cut off. *)
LEMMA ServerCases ==
    ASSUME [ServerNext]_serverVars
    PROVE  [Next]_vars \/ \E how : ProcessEnds(how)
BY DEF ServerNext, serverVars, JobStep, Sigterm, ListPackages, ListDone,
       ListFails, Restart

LEMMA WorkInvariant == ServerSpec => []WorkInv
<1>1. ServerInit => WorkInv
  BY WorkInit DEF ServerInit
<1>2. WorkInv /\ [ServerNext]_serverVars => WorkInv'
  BY ServerCases, WorkStep, FreshAfterEnd
<1> QED BY <1>1, <1>2, PTL DEF ServerSpec

(* Over all the lives of the process the free slots and the jobs at work add
   up to the configured number: an end of the process, at whatever step,
   loses no slot and counts none twice (job.js:12, 91-98, 422, index.js:96,
   playground.js:136). *)
THEOREM SlotsSurviveRestarts == ServerSpec => []SlotAccounting
<1>1. WorkInv => SlotAccounting
  BY DEF WorkInv, SlotInv
<1> QED BY <1>1, WorkInvariant, PTL

(* Also when the process ends and starts again, with what earlier lives left
   on the host, a sandbox at work is destroyed only by an allocation with the
   same box id at least MAX_BOX_ID older or younger (job.js:22, 64, 428). *)
THEOREM LossesAcrossLives == ServerSpec => SandboxLostOnlyToReuse
<1>1. ASSUME WorkInv, [ServerNext]_serverVars
      PROVE  [\A j \in Jobs : LossIsReuse(j)]_vars
  <2>1. CASE [Next]_vars
    BY <1>1, <2>1, LossStep
  <2>2. ASSUME NEW how, ProcessEnds(how), NEW j \in Jobs PROVE LossIsReuse(j)
    <3>1. pc'[j] \in {"idle", "done"}
      BY <2>2 DEF ProcessEnds
    <3> QED BY <3>1 DEF LossIsReuse, InSandbox
  <2> QED BY <1>1, <2>1, <2>2, ServerCases
<1> QED
  BY <1>1, WorkInvariant, PTL DEF ServerSpec, SandboxLostOnlyToReuse, LossIsReuse
=============================================================================
