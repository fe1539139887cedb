------------------------------- MODULE Server -------------------------------
(***************************************************************************)
(* The process life of the playground API around the requests of Job: it   *)
(* ends at SIGTERM (index.js) and at an unhandled rejection in the handler *)
(* of GET /packages, and the container starts it again (restart: always).  *)
(* With the process go the slots, the queue, the box counter and the       *)
(* isolate processes; what stays is on the container's file system.        *)
(*                                                                         *)
(* The box counter starts anew in each life.  A sandbox left over from an  *)
(* earlier life is named by the negative ordinal that has its box id.      *)
(***************************************************************************)
EXTENDS Job

VARIABLES
    process,    \* "up", or "stopped" by a signal, or "crashed"
    listing     \* a GET /packages awaits the index of packages

serverVars == <<process, listing, vars>>

Leftovers == {n \in host : n < 0}

-----------------------------------------------------------------------------
ServerInit ==
    /\ Init
    /\ process = "up"
    /\ listing = FALSE

Inits == {"init", "init2"}

(* The host when the container's processes are killed: an isolate --init or
   --cleanup that has not reported may have done its work. *)
HostAtEnd ==
    {((host \ gone) \cup made) :
        made \in SUBSET {box[j] : j \in {k \in Jobs : pc[k] \in Inits}},
        gone \in SUBSET {m \in host : \E n \in cleanups : SameId(m, n)}}

(* The process ends.  Each client in flight finds its connection closed and
   may come again; the sandboxes stay, under their ids. *)
ProcessEnds(how) ==
    /\ process = "up"
    /\ process' = how
    /\ listing' = FALSE
    /\ pc' = [j \in Jobs |-> IF response[j] = "none" THEN "idle" ELSE "done"]
    /\ state' = [j \in Jobs |-> "READY"]
    /\ remaining_job_spaces' = MaxConcurrentJobs
    /\ job_queue' = <<>>
    /\ box_id' = 0
    /\ box' = [j \in Jobs |-> 0]
    /\ dirty_boxes' = [j \in Jobs |-> {}]
    /\ cleanups' = {}
    /\ failed_cleanups' = {}
    /\ \E left \in HostAtEnd :
          host' = {get_next_box_id(n) - MAX_BOX_ID : n \in left}
    /\ UNCHANGED response

(* server.close() is not waited for: process.exit(0) runs in the same turn. *)
Sigterm == ProcessEnds("stopped")

(* GET /packages awaits the index of packages outside any try. *)
ListPackages ==
    /\ process = "up" /\ NoMicrotask
    /\ ~listing
    /\ listing' = TRUE
    /\ UNCHANGED <<process, vars>>

ListDone ==
    /\ process = "up" /\ NoMicrotask
    /\ listing
    /\ listing' = FALSE
    /\ UNCHANGED <<process, vars>>

(* The fetch rejects, or a line of the index has no valid version: Node.js
   ends the process at a rejection that nobody handles. *)
ListFails ==
    /\ NoMicrotask
    /\ listing
    /\ ProcessEnds("crashed")

(* The container starts again. *)
Restart ==
    /\ process # "up"
    /\ process' = "up"
    /\ UNCHANGED <<listing, vars>>

JobStep ==
    /\ process = "up"
    /\ Next
    /\ UNCHANGED <<process, listing>>

ServerNext ==
    \/ JobStep
    \/ Sigterm
    \/ ListPackages \/ ListDone \/ ListFails
    \/ Restart

ServerSpec == ServerInit /\ [][ServerNext]_serverVars

-----------------------------------------------------------------------------
(* No request works in a sandbox of an earlier life of the process, with the
   files of another user in it: before a job uses a box id an isolate --init
   has replaced what was there, also when the id was given out before the
   end of a process that had no time to clean up (job.js:64-86, index.js:96,
   playground.js:136). *)
NeverInLeftover ==
    \A j \in Jobs : pc[j] \in InSandbox =>
        \A n \in Leftovers : ~SameId(n, box[j])
=============================================================================
