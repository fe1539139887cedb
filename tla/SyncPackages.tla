---------------------------- MODULE SyncPackages ----------------------------
(***************************************************************************)
(* The workflow that brings language packages from the bucket of develop   *)
(* to the one of production (playground-api-sync-packages.yaml): list and  *)
(* hash what develop has, compare each package with production, copy what  *)
(* differs.  Nothing keeps two dispatches of it apart, and packages are    *)
(* published in develop at any time.                                       *)
(*                                                                         *)
(* The content of a package, known by its hash and size, is the number of  *)
(* the publication it comes from; 0 stands for no such file.  Steps run    *)
(* under bash -e: a command that fails ends the run, unless it is tested.  *)
(***************************************************************************)
EXTENDS Integers, FiniteSets

CONSTANTS
    Packages,
    Runs,           \* bound: dispatches of the workflow at one time
    MaxVersion      \* bound: publications of one package

ASSUME VersionAssumption == MaxVersion \in Nat \ {0}

VARIABLES
    dev,        \* playground_pkgs_dev: the content of each package
    prod,       \* playground_pkgs
    pc,         \* where each run stands
    mode,       \* the input sync_packages: "sync" or "check"
    listed,     \* the hashes the first job found, 0 when not listed
    todo,       \* the packages its loop has still to come to
    copying     \* the package the run copies, and the content it read

bucketVars == <<dev, prod>>
runVars == <<pc, mode, listed, todo, copying>>
syncVars == <<bucketVars, runVars>>

Over == {"idle", "green", "failed"}
NoCopy == [package |-> "none", content |-> 0]

-----------------------------------------------------------------------------
SyncInit ==
    /\ dev = [p \in Packages |-> 0]
    /\ prod = [p \in Packages |-> 0]
    /\ pc = [r \in Runs |-> "idle"]
    /\ mode = [r \in Runs |-> "check"]
    /\ listed = [r \in Runs |-> [p \in Packages |-> 0]]
    /\ todo = [r \in Runs |-> {}]
    /\ copying = [r \in Runs |-> NoCopy]

(* Somebody builds a package and puts it into the bucket of develop. *)
Publish(p) ==
    /\ dev[p] < MaxVersion
    /\ dev' = [dev EXCEPT ![p] = @ + 1]
    /\ UNCHANGED <<prod, runVars>>

Dispatch(r, m) ==
    /\ pc[r] \in Over
    /\ pc' = [pc EXCEPT ![r] = "list"]
    /\ mode' = [mode EXCEPT ![r] = m]
    /\ listed' = [listed EXCEPT ![r] = [p \in Packages |-> 0]]
    /\ todo' = [todo EXCEPT ![r] = {}]
    /\ copying' = [copying EXCEPT ![r] = NoCopy]
    /\ UNCHANGED bucketVars

InDev == {p \in Packages : dev[p] # 0}

(* The first job goes on with the files it found; none at all are taken for an
   empty bucket, which is a success. *)
TakeList(r, found) ==
    /\ pc[r] = "list"
    /\ pc' = [pc EXCEPT ![r] = IF found = {} THEN "green" ELSE "metadata"]
    /\ todo' = [todo EXCEPT ![r] = found]
    /\ UNCHANGED <<mode, listed, copying, bucketVars>>

(* gcloud storage ls of the whole bucket. *)
ListFiles(r) == TakeList(r, InDev)

(* It fails, at the start or half-way: its message goes to /dev/null, its
   status is lost in the pipe, and what it had listed by then is the list. *)
ListFails(r) == \E found \in SUBSET InDev : TakeList(r, found)

(* Mutant: the second job lists the bucket anew. *)
ReadMetadata_ListsAnew(r, p) ==
    /\ pc[r] = "metadata"
    /\ p \in todo[r]
    /\ listed' = [listed EXCEPT ![r][p] = dev[p]]
    /\ IF todo[r] = {p}
       THEN /\ pc' = [pc EXCEPT ![r] = "compare"]
            /\ todo' = [todo EXCEPT ![r] = InDev]
       ELSE /\ pc' = pc
            /\ todo' = [todo EXCEPT ![r] = @ \ {p}]
    /\ UNCHANGED <<mode, copying, bucketVars>>

(* gcloud storage ls -L of one package.  After the last one the second job
   goes through the same list. *)
ReadMetadata(r, p) ==
    /\ pc[r] = "metadata"
    /\ p \in todo[r]
    /\ listed' = [listed EXCEPT ![r][p] = dev[p]]
    /\ IF todo[r] = {p}
       THEN /\ pc' = [pc EXCEPT ![r] = "compare"]
            /\ todo' = [todo EXCEPT ![r] = {q \in Packages : listed'[r][q] # 0}]
       ELSE /\ pc' = pc
            /\ todo' = [todo EXCEPT ![r] = @ \ {p}]
    /\ UNCHANGED <<mode, copying, bucketVars>>

(* Mutant: a package that production has is left alone. *)
UpToDate_Exists(r, p) == prod[p] # 0

(* Hash and size agree with what the first job found in develop. *)
UpToDate(r, p) == prod[p] = listed[r][p]

(* The run has dealt with p; after the last package it is done. *)
Handled(r, p) ==
    /\ todo' = [todo EXCEPT ![r] = @ \ {p}]
    /\ pc' = [pc EXCEPT ![r] = IF todo[r] = {p} THEN "green" ELSE "compare"]

(* The package is up to date, or the mode is check. *)
Skip(r, p) ==
    /\ pc[r] = "compare"
    /\ p \in todo[r]
    /\ UpToDate(r, p) \/ mode[r] = "check"
    /\ Handled(r, p)
    /\ UNCHANGED <<mode, listed, copying, bucketVars>>

(* gcloud storage cp reads what develop has now.  A package is copied when it
   differs, and as well when listing it in production failed, which counts as
   not found, or showed no hash. *)
CopyBegins(r, p) ==
    /\ pc[r] = "compare"
    /\ p \in todo[r]
    /\ mode[r] = "sync"
    /\ pc' = [pc EXCEPT ![r] = "copy"]
    /\ copying' = [copying EXCEPT ![r] = [package |-> p, content |-> dev[p]]]
    /\ UNCHANGED <<mode, listed, todo, bucketVars>>

(* The new object replaces the old one at once. *)
CopyEnds(r) ==
    LET p == copying[r].package
    IN  /\ pc[r] = "copy"
        /\ prod' = [prod EXCEPT ![p] = copying[r].content]
        /\ copying' = [copying EXCEPT ![r] = NoCopy]
        /\ Handled(r, p)
        /\ UNCHANGED <<dev, mode, listed>>

(* Mutant: the loop goes on to the next package. *)
CommandFails_GoesOn(r) ==
    /\ pc[r] \in {"metadata", "compare", "copy"}
    /\ IF pc[r] = "copy"
       THEN Handled(r, copying[r].package)
       ELSE pc' = [pc EXCEPT ![r] = "failed"] /\ todo' = todo
    /\ copying' = [copying EXCEPT ![r] = NoCopy]
    /\ UNCHANGED <<mode, listed, bucketVars>>

(* A command that is not tested fails, or no hash can be read: the run ends
   where it stands. *)
CommandFails(r) ==
    /\ pc[r] \in {"metadata", "compare", "copy"}
    /\ pc' = [pc EXCEPT ![r] = "failed"]
    /\ copying' = [copying EXCEPT ![r] = NoCopy]
    /\ UNCHANGED <<mode, listed, todo, bucketVars>>

-----------------------------------------------------------------------------
Advance(r) ==
    \/ ListFiles(r)
    \/ \E p \in Packages : ReadMetadata(r, p) \/ Skip(r, p) \/ CopyBegins(r, p)
    \/ CopyEnds(r)

Work ==
    \/ \E p \in Packages : Publish(p)
    \/ \E r \in Runs, m \in {"sync", "check"} : Dispatch(r, m)
    \/ \E r \in Runs : Advance(r)

Faults == \E r \in Runs : ListFails(r) \/ CommandFails(r)

SyncNext == Work \/ Faults

SyncSpec == SyncInit /\ [][SyncNext]_syncVars

(* Runs go on, somebody dispatches a synchronisation again and again, and
   faults come to an end. *)
FairSpec ==
    /\ SyncSpec
    /\ \A r \in Runs :
          WF_syncVars(Advance(r)) /\ SF_syncVars(Dispatch(r, "sync"))
    /\ <>[][Work]_syncVars

-----------------------------------------------------------------------------
TypeOK ==
    /\ dev \in [Packages -> 0..MaxVersion]
    /\ prod \in [Packages -> 0..MaxVersion]
    /\ pc \in [Runs -> Over \cup {"list", "metadata", "compare", "copy"}]
    /\ mode \in [Runs -> {"sync", "check"}]
    /\ listed \in [Runs -> [Packages -> 0..MaxVersion]]
    /\ todo \in [Runs -> SUBSET Packages]
    /\ \A r \in Runs : pc[r] = "copy" =>
          copying[r].package \in todo[r] /\ copying[r].content \in 1..MaxVersion
    /\ \A r \in Runs : pc[r] \in {"compare", "copy"} =>
          \A p \in todo[r] : listed[r][p] # 0

(* A synchronisation that ends well has left in production, of each package
   it listed, the content it compared with or a newer one, whatever was
   published in the meantime and whatever an earlier run had copied before it
   failed: as long as no other run was there (yaml:170-244). *)
GreenMeansSynced ==
    \A r \in Runs :
        /\ pc[r] = "green" /\ mode[r] = "sync"
        /\ \A q \in Runs \ {r} : pc[q] = "idle"
        => \A p \in Packages : prod[p] >= listed[r][p]

(* Two runs at a time may bring an old content back: one that began to copy
   before a publication ends after one that began after it.  It does not
   last: when no package is published any more, production ends up with what
   develop has (yaml:170-244). *)
ProductionCatchesUp == <>[](prod = dev)
=============================================================================
