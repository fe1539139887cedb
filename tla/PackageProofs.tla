---------------------------- MODULE PackageProofs ----------------------------
(***************************************************************************)
(* Proofs about language packages on their way to production and to a job: *)
(* InstallPackage, for every output of an environment script, and          *)
(* SyncPackages, for any number of packages, of runs of the workflow and   *)
(* of publications.  The two share no state.                               *)
(***************************************************************************)
EXTENDS InstallPackage, SyncPackages, TLAPS

(* What follows a command that is tested may rely on it: tar works on an
   archive with the right checksum, the environment is set up among all files.
   After a removal that left nothing there is no mark until then. *)
TypeInv ==
    /\ at \in Commands \cup Ends
    /\ pkg \in {"none", "other", "right"}
    /\ files \in {"none", "some", "all"}
    /\ marked \in BOOLEAN /\ cleared \in BOOLEAN /\ runtime \in BOOLEAN

StepInv ==
    /\ at = "tar" => pkg = "right"
    /\ at \in {"env", "state", "exit0"} => files = "all"
    /\ at \in {"curl", "checksum", "tar", "env", "state"} /\ cleared => ~marked
    /\ marked /\ cleared => files = "all"

InstallInv == TypeInv /\ StepInv

LEMMA InstallInit == Init => InstallInv
BY DEF Init, InstallInv, TypeInv, StepInv, Commands

(* Each command of the script and each step of the API keeps InstallInv. *)
LEMMA InstallStep == InstallInv /\ [Next]_vars => InstallInv'
<1> SUFFICES ASSUME InstallInv, [Next]_vars PROVE InstallInv'
    OBVIOUS
<1> USE DEF InstallInv, TypeInv, StepInv, Commands, Ends, disk, api
<1>1. CASE RemoveResidue
    BY <1>1 DEF RemoveResidue
<1>2. CASE Download
    BY <1>2 DEF Download
<1>3. CASE ValidateChecksum
    BY <1>3 DEF ValidateChecksum
<1>4. CASE Extract
    BY <1>4 DEF Extract
<1>5. CASE SetUpEnvironment
    BY <1>5 DEF SetUpEnvironment
<1>6. CASE WriteState
    BY <1>6 DEF WriteState
<1>7. CASE Killed
    BY <1>7 DEF Killed
<1>8. CASE RunAgain
    BY <1>8 DEF RunAgain
<1>9. CASE StartApi \/ StopApi
  <2>1. UNCHANGED <<at, pkg, files, marked, cleared>> /\ runtime' \in BOOLEAN
    BY <1>9, Zenon DEF StartApi, StopApi
  <2> QED
    BY <2>1
<1>10. CASE StartJob
    BY <1>10 DEF StartJob
<1>11. CASE UNCHANGED vars
    BY <1>11 DEF vars
<1> QED
    BY <1>1, <1>2, <1>3, <1>4, <1>5, <1>6, <1>7, <1>8, <1>9, <1>10, <1>11
    DEF Next

(* A successful run of the script leaves all files, and so does a mark in a
   directory whose latest removal was complete: an invariant of the run
   install_package, for every output of the environment script, whatever
   fails and however often the script is killed and run again
   (install_package.sh:14-62, globals.js:82). *)
THEOREM MarksVouchForFiles == Spec => []MarkedMeansVerified
<1>1. InstallInv => MarkedMeansVerified
    BY DEF InstallInv, StepInv, MarkedMeansVerified
<1> QED
    BY <1>1, InstallInit, InstallStep, PTL DEF Spec

-----------------------------------------------------------------------------
(* The API runs only between two runs of the script, so that what a job saw
   of .env is still what .env says: nothing, that there is no file, or what
   the parser makes of it.  Only the first job sees that it stops half-way. *)
SeenByJobs ==
    \/ env_vars = Unset /\ job = NoJob /\ ~thrown
    \/ env_vars = Unset /\ job = Throws /\ thrown /\ env_file = NoFile
    \/ /\ env_vars = <<Parsed.entries>> /\ env_file # NoFile
       /\ thrown = ~Parsed.whole
       /\ job = RunsWith(Parsed.entries) \/ (thrown /\ job = Throws)

EnvInv ==
    /\ printed \in Outputs
    /\ at \in Commands \cup Ends
    /\ runtime \in BOOLEAN /\ thrown \in BOOLEAN
    /\ runtime => at \in Ends
    /\ ~runtime => env_vars = Unset /\ job = NoJob /\ ~thrown
    /\ SeenByJobs

LEMMA EnvInit == Init => EnvInv
BY DEF Init, EnvInv, SeenByJobs, Commands

(* What is parsed, and what was seen of it, changes with .env only. *)
LEMMA SeenUnchanged ==
    ASSUME EnvInv, UNCHANGED <<printed, env_file, env_vars, job, thrown>>
    PROVE  SeenByJobs'
<1>1. Parsed' = Parsed
  BY Zenon DEF Parsed, EnvLines, Blank
<1>2. RunsWith(Parsed.entries)' = RunsWith(Parsed.entries)
  BY <1>1, Zenon DEF RunsWith
<1> QED
  BY <1>1, <1>2 DEF EnvInv, SeenByJobs

(* The script writes only while the API is down. *)
LEMMA SeenNothing ==
    ASSUME EnvInv, at \in Commands, UNCHANGED <<api, printed>>,
           at' \in Commands \cup Ends
    PROVE  EnvInv'
BY DEF EnvInv, SeenByJobs, Commands, Ends, api

(* Each step of the script and of the API keeps EnvInv. *)
LEMMA EnvStep == EnvInv /\ [Next]_vars => EnvInv'
<1> SUFFICES ASSUME EnvInv, [Next]_vars PROVE EnvInv'
    OBVIOUS
<1>1. CASE RemoveResidue
    BY <1>1, SeenNothing DEF RemoveResidue, Commands, Ends
<1>2. CASE Download
    BY <1>2, SeenNothing DEF Download, Commands
<1>3. CASE ValidateChecksum
    BY <1>3, SeenNothing DEF ValidateChecksum, Commands, Ends
<1>4. CASE Extract
    BY <1>4, SeenNothing DEF Extract, Commands, Ends
<1>5. CASE SetUpEnvironment
    BY <1>5, SeenNothing DEF SetUpEnvironment, Commands, Ends
<1>6. CASE WriteState
    BY <1>6, SeenNothing DEF WriteState, Commands, Ends
<1>7. CASE Killed
    BY <1>7, SeenNothing DEF Killed, Commands, Ends
<1>8. CASE RunAgain
  <2>1. /\ UNCHANGED <<printed, env_file, runtime, env_vars, job, thrown>>
        /\ at' = "rm" /\ ~runtime
    BY <1>8 DEF RunAgain, disk, api
  <2> QED
    BY <2>1, SeenUnchanged DEF EnvInv, Commands
<1>9. CASE StartApi \/ StopApi
  <2>1. /\ UNCHANGED <<printed, at>>
        /\ env_vars' = Unset /\ job' = NoJob /\ thrown' = FALSE
        /\ runtime' \in BOOLEAN /\ (runtime' => at \in Ends)
    BY <1>9 DEF StartApi, StopApi
  <2> QED
    BY <2>1 DEF EnvInv, SeenByJobs
<1>10. CASE StartJob
  <2>1. UNCHANGED <<printed, at, env_file, runtime>> /\ runtime
    BY <1>10 DEF StartJob, disk
  <2>2. Parsed' = Parsed
    BY <2>1, Zenon DEF Parsed, EnvLines, Blank
  <2>3. RunsWith(Parsed.entries)' = RunsWith(Parsed.entries)
    BY <2>1, <2>2, Zenon DEF RunsWith
  <2>4. Throws.is = "throws" /\ RunsWith(Parsed.entries).is # "throws"
    BY DEF Throws, RunsWith
  <2>5. Parsed.whole \in BOOLEAN
    BY DEF Parsed
  <2>6. SeenByJobs' /\ thrown' \in BOOLEAN
    <3>1. CASE env_vars = Unset /\ env_file = NoFile
      <4>1. job' = Throws /\ env_vars' = Unset /\ thrown' = TRUE
        BY <1>10, <3>1, <2>4 DEF StartJob, Unset
      <4> QED
        BY <4>1, <3>1, <2>1 DEF SeenByJobs
    <3>2. CASE env_vars = Unset /\ env_file # NoFile
      <4>1. thrown = FALSE
        BY <3>2 DEF EnvInv, SeenByJobs, Unset
      <4>2. /\ env_vars' = <<Parsed.entries>>
            /\ Parsed.whole => job' = RunsWith(Parsed.entries)
            /\ ~Parsed.whole => job' = Throws
            /\ thrown' = (thrown \/ job'.is = "throws")
        BY <1>10, <3>2 DEF StartJob
      <4>3. thrown' = ~Parsed.whole
        BY <4>1, <4>2, <2>4, <2>5
      <4> QED
        BY <4>2, <4>3, <3>2, <2>1, <2>2, <2>3 DEF SeenByJobs
    <3>3. CASE env_vars # Unset
      <4>1. /\ env_vars = <<Parsed.entries>> /\ env_file # NoFile
            /\ thrown = ~Parsed.whole
        BY <3>3 DEF EnvInv, SeenByJobs
      <4>2. /\ job' = RunsWith(Parsed.entries) /\ env_vars' = env_vars
            /\ thrown' = (thrown \/ job'.is = "throws")
        BY <1>10, <3>3, <4>1 DEF StartJob
      <4>3. thrown' = thrown
        BY <4>2, <2>4 DEF EnvInv
      <4> QED
        BY <4>1, <4>2, <4>3, <2>1, <2>2, <2>3, <2>5 DEF SeenByJobs
    <3> QED
      BY <3>1, <3>2, <3>3
  <2> QED
    BY <2>1, <2>6 DEF EnvInv
<1>11. CASE UNCHANGED vars
  <2>1. UNCHANGED <<printed, at, env_file, runtime, env_vars, job, thrown>>
    BY <1>11 DEF vars, disk, api
  <2> QED
    BY <2>1, SeenUnchanged DEF EnvInv
<1> QED
    BY <1>1, <1>2, <1>3, <1>4, <1>5, <1>6, <1>7, <1>8, <1>9, <1>10, <1>11
    DEF Next

(* What there is in a complete .env: lines of items, one at least, with a
   line without "=" for each item that breaks the parser. *)
LEMMA CompleteFile ==
    ASSUME printed \in Outputs, env_file = <<PrintedLines>>
    PROVE  /\ \A i \in DOMAIN printed : i \in Nat /\ printed[i] \in Kinds
           /\ EnvLines = PrintedLines
           /\ \A l \in PrintedLines :
                 l.item \in DOMAIN printed /\ l \in LinesOf(l.item)
           /\ {l \in EnvLines : l.form = "bare"}
                 = {Line(b, "bare") : b \in Breaking}
<1>1. \A i \in DOMAIN printed : i \in Nat /\ printed[i] \in Kinds
  BY OutputsAssumption
<1>2. \A i \in DOMAIN printed : \A l \in LinesOf(i) : l.item = i
  BY <1>1 DEF LinesOf, Line, Kinds
<1>3. PICK i \in DOMAIN printed : printed[i] = "plain"
  BY OutputsAssumption
<1>4. Line(i, "whole") \in PrintedLines
  BY <1>3 DEF LinesOf, PrintedLines
<1>5. EnvLines = PrintedLines
  BY <1>4 DEF EnvLines
<1>6. \A l \in PrintedLines :
          l.item \in DOMAIN printed /\ l \in LinesOf(l.item)
  BY <1>2 DEF PrintedLines
<1>7. \A b \in Breaking : Line(b, "bare") \in PrintedLines
  BY DEF Breaking, PrintedLines, LinesOf
<1>8. ASSUME NEW l \in PrintedLines, l.form = "bare"
      PROVE  l.item \in Breaking /\ l = Line(l.item, "bare")
  BY <1>1, <1>6, <1>8 DEF Breaking, LinesOf, Line, Kinds
<1>9. \A b \in Breaking : Line(b, "bare").form = "bare"
  BY DEF Line
<1> QED
  BY <1>1, <1>5, <1>6, <1>7, <1>8, <1>9

(* The parser reaches the lines of the items up to the first that breaks it,
   and of that one what precedes its line without "=". *)
LEMMA LinesReached ==
    ASSUME printed \in Outputs, env_file = <<PrintedLines>>,
           NEW l \in PrintedLines, l.form # "bare"
    PROVE  (\A b \in Breaking : Before(l, Line(b, "bare")))
               <=> l.item \in Reached
<1>1. /\ \A i \in DOMAIN printed : i \in Nat /\ printed[i] \in Kinds
      /\ l.item \in DOMAIN printed /\ l \in LinesOf(l.item)
  BY CompleteFile
<1>2. \A b \in Breaking : Line(b, "bare").item = b /\ b \in Nat
  BY <1>1 DEF Line, Breaking
<1>3. \A b \in Breaking : l.item = b => l.form = "cut"
  BY <1>1 DEF Breaking, LinesOf, Line
<1>4. \A b \in Breaking : Before(l, Line(b, "bare")) <=> l.item <= b
  <2> TAKE b \in Breaking
  <2>1. Line(b, "bare").item = b /\ Line(b, "bare").form = "bare" /\ b \in Nat
    BY <1>2 DEF Line
  <2>2. l.item = b => l.form = "cut"
    BY <1>3
  <2>3. l.item \in Nat
    BY <1>1
  <2> QED
    BY <2>1, <2>2, <2>3 DEF Before
<1> QED
  BY <1>1, <1>4 DEF Reached

(* From the filter to the job, item by item. *)
LEMMA ItemArrives ==
    ASSUME printed \in Outputs, NEW i \in DOMAIN printed,
           printed[i] # "LANGUAGE"
    PROVE  {Value(l) : l \in {m \in LinesOf(i) : m.form # "bare"}} = Arrives(i)
<1>1. printed[i] \in Kinds
  BY OutputsAssumption
<1> DEFINE V(S) == {Value(l) : l \in {m \in S : m.form # "bare"}}
<1>2. \A f \in {"whole", "cut", "stray"} : Value(Line(i, f)) = Line(i, f)
  BY DEF Value, Line
<1>3. /\ Value(Line(i, "blanks")) = Line(i, "trimmed")
      /\ Value(Line(i, "equals")) = Line(i, "cut")
  BY DEF Value, Line
<1>4. \A f : Line(i, f).form = f
  BY DEF Line
<1>5. CASE printed[i] \in {"plain", "blanks", "equals"}
  <2>1. CASE printed[i] = "plain"
    BY <2>1, <1>2, <1>4 DEF LinesOf, Arrives
  <2>2. CASE printed[i] = "blanks"
    BY <2>2, <1>3, <1>4 DEF LinesOf, Arrives
  <2>3. CASE printed[i] = "equals"
    BY <2>3, <1>3, <1>4 DEF LinesOf, Arrives
  <2> QED
    BY <1>5, <2>1, <2>2, <2>3
<1>6. CASE printed[i] = "newline"
  BY <1>6, <1>2, <1>4 DEF LinesOf, Arrives
<1>7. CASE printed[i] = "assign"
  BY <1>7, <1>2, <1>4 DEF LinesOf, Arrives
<1>8. CASE printed[i] \in {"text", "shell"}
  BY <1>8, <1>4 DEF LinesOf, Arrives
<1> QED
  BY <1>1, <1>5, <1>6, <1>7, <1>8 DEF Kinds

(* What the job of a complete .env runs with. *)
LEMMA EntriesArrive ==
    ASSUME printed \in Outputs, env_file = <<PrintedLines>>
    PROVE  /\ Parsed.whole <=> Breaking = {}
           /\ RunsWith(Parsed.entries).env
                 = (UNION {Arrives(i) : i \in Reached}) \cup {Language}
<1> DEFINE bare == {l \in EnvLines : l.form = "bare"}
           Read == {l \in PrintedLines : l.form # "bare" /\ l.item \in Reached}
<1>1. bare = {Line(b, "bare") : b \in Breaking} /\ EnvLines = PrintedLines
  BY CompleteFile
<1>2. Parsed.whole <=> Breaking = {}
  BY <1>1 DEF Parsed
<1>3. {m \in EnvLines \ bare : \A b \in bare : Before(m, b)} = Read
  <2>1. \A m \in EnvLines \ bare : m \in PrintedLines /\ m.form # "bare"
    BY <1>1
  <2>2. \A m \in PrintedLines : m.form # "bare" => m \in EnvLines \ bare
    BY <1>1
  <2>3. \A m \in EnvLines \ bare :
            (\A b \in bare : Before(m, b)) <=> m.item \in Reached
    <3> TAKE m \in EnvLines \ bare
    <3>1. (\A b \in bare : Before(m, b))
              <=> (\A b \in Breaking : Before(m, Line(b, "bare")))
      BY <1>1
    <3> QED
      BY <3>1, <2>1, LinesReached
  <2> QED
    BY <2>1, <2>2, <2>3, Zenon
<1>4. Parsed.entries = {Value(l) : l \in Read}
  BY <1>3 DEF Parsed
<1>5. \A l : Value(l).item = l.item
  BY DEF Value
<1>6. ASSUME NEW e \in Parsed.entries, printed[e.item] # "LANGUAGE"
      PROVE  \E i \in Reached : e \in Arrives(i)
  <2>1. PICK l \in Read : e = Value(l)
    BY <1>4
  <2>2. /\ l \in LinesOf(l.item) /\ l.item \in DOMAIN printed
        /\ l.item \in Reached /\ l.form # "bare"
    BY CompleteFile
  <2>3. e.item = l.item
    BY <2>1, <1>5
  <2>4. e \in Arrives(l.item)
    BY <2>1, <2>2, <2>3, <1>6, ItemArrives
  <2> QED
    BY <2>2, <2>4
<1>7. ASSUME NEW i \in Reached, NEW e \in Arrives(i)
      PROVE  e \in Parsed.entries /\ printed[e.item] # "LANGUAGE"
  <2>1. i \in DOMAIN printed
    BY DEF Reached
  <2>2. printed[i] # "LANGUAGE"
    BY DEF Arrives
  <2>3. PICK l \in LinesOf(i) : l.form # "bare" /\ e = Value(l)
    BY <2>1, <2>2, ItemArrives
  <2>4. l \in PrintedLines
    BY <2>1, <2>3 DEF PrintedLines
  <2>5. printed[i] \in Kinds
    BY <2>1, OutputsAssumption
  <2>6. l.item = i
    BY <2>3, <2>5 DEF LinesOf, Line, Kinds
  <2> QED
    BY <2>2, <2>3, <2>4, <2>6, <1>4, <1>5
<1>8. RunsWith(Parsed.entries).env
          = {e \in Parsed.entries : printed[e.item] # "LANGUAGE"}
                \cup {Language}
  BY DEF RunsWith
<1>9. {e \in Parsed.entries : printed[e.item] # "LANGUAGE"}
          = (UNION {Arrives(i) : i \in Reached})
  BY <1>6, <1>7
<1> QED
  BY <1>2, <1>8, <1>9

(* From the script's filter to the parser, its cache and the job's own
   environment: the invariant of the run install_package, for every output of
   the environment script (install_package.sh:50-53, runtime.js:176-193,
   job.js:178-181). *)
THEOREM JobsGetExports == Spec => []ExportsReachJobs
<1>1. /\ NoJob.is = "none" /\ Throws.is = "throws"
      /\ RunsWith(Parsed.entries).is = "runs"
  BY DEF NoJob, Throws, RunsWith
<1>2. ASSUME EnvInv, env_file = <<PrintedLines>>
      PROVE  /\ job.is = "throws" \/ thrown => Breaking # {}
             /\ job.is = "runs" =>
                   /\ job.env = (UNION {Arrives(i) : i \in Reached})
                                    \cup {Language}
                   /\ Breaking # {} => thrown
  <2>1. /\ Parsed.whole <=> Breaking = {}
        /\ RunsWith(Parsed.entries).env
              = (UNION {Arrives(i) : i \in Reached}) \cup {Language}
    BY <1>2, EntriesArrive DEF EnvInv
  <2>2. env_file # NoFile
    BY <1>2 DEF NoFile
  <2>3. CASE job = NoJob /\ ~thrown
    BY <2>3, <1>1
  <2>4. CASE /\ thrown = ~Parsed.whole
             /\ job = RunsWith(Parsed.entries) \/ (thrown /\ job = Throws)
    BY <2>1, <1>1, <2>4
  <2> QED
    BY <1>2, <2>2, <2>3, <2>4 DEF EnvInv, SeenByJobs
<1>3. ASSUME EnvInv, env_file \in {NoFile, <<{}>>, <<{Blank}>>},
             job.is = "runs"
      PROVE  thrown
  <2>1. CASE env_file = NoFile
    BY <1>3, <1>1, <2>1 DEF EnvInv, SeenByJobs
  <2>2. CASE env_file \in {<<{}>>, <<{Blank}>>}
    <3>1. EnvLines = {Blank}
      BY <2>2 DEF EnvLines
    <3>2. Blank.form = "bare"
      BY DEF Blank, Line
    <3>3. ~Parsed.whole
      BY <3>1, <3>2 DEF Parsed
    <3>4. env_file # NoFile
      BY <2>2 DEF NoFile
    <3> QED
      BY <1>3, <1>1, <3>3, <3>4 DEF EnvInv, SeenByJobs
  <2> QED
    BY <1>3, <2>1, <2>2
<1>4. EnvInv => ExportsReachJobs
  BY <1>2, <1>3 DEF ExportsReachJobs
<1>5. EnvInv /\ [Next]_vars => EnvInv'
  BY EnvStep
<1> QED
  BY <1>4, <1>5, EnvInit, PTL DEF Spec

-----------------------------------------------------------------------------
(* Production and the hashes a run read come from publications that are in
   develop, which only go up; a run that begins knows no hash. *)
OrderInv ==
    /\ copying \in [Runs -> [package : Packages \cup {"none"},
                             content : 0..MaxVersion]]
    /\ \A p \in Packages : prod[p] <= dev[p]
    /\ \A r \in Runs :
          /\ \A p \in Packages : listed[r][p] <= dev[p]
          /\ pc[r] = "list" => \A p \in Packages : listed[r][p] = 0
          /\ pc[r] = "copy" => copying[r].content <= dev[copying[r].package]

Alone(r) == mode[r] = "sync" /\ \A q \in Runs \ {r} : pc[q] = "idle"

(* A synchronisation that is alone has the packages behind it right, and what
   it copies is neither older than what it listed nor than what is there. *)
DoneRight(r) ==
    /\ pc[r] \in {"compare", "copy"} =>
          \A p \in Packages \ todo[r] : prod[p] >= listed[r][p]
    /\ pc[r] = "copy" =>
          /\ copying[r].content >= listed[r][copying[r].package]
          /\ copying[r].content >= prod[copying[r].package]
    /\ pc[r] = "green" => \A p \in Packages : prod[p] >= listed[r][p]

SyncInv ==
    /\ TypeOK /\ OrderInv
    /\ \A r \in Runs : Alone(r) => DoneRight(r)

LEMMA SyncInvInit == SyncInit => SyncInv
BY VersionAssumption
   DEF SyncInit, SyncInv, TypeOK, OrderInv, DoneRight, Over, NoCopy

(* What is copied was published: OrderInv bounds it by what develop has. *)
LEMMA SyncTypeStep ==
    ASSUME TypeOK, OrderInv,
           [SyncNext]_syncVars
    PROVE  TypeOK'
<1> USE VersionAssumption DEF TypeOK, Over, NoCopy, OrderInv
<1>1. CASE \E p \in Packages : Publish(p)
  BY <1>1 DEF Publish, runVars
<1>2. CASE \E r \in Runs, m \in {"sync", "check"} : Dispatch(r, m)
  BY <1>2 DEF Dispatch, bucketVars
<1>3. ASSUME NEW r \in Runs, NEW found \in SUBSET InDev, TakeList(r, found)
      PROVE  TypeOK'
  <2>1. found \in SUBSET Packages
    BY DEF InDev
  <2>2. /\ pc' = [pc EXCEPT ![r] = IF found = {} THEN "green" ELSE "metadata"]
        /\ todo' = [todo EXCEPT ![r] = found]
        /\ UNCHANGED <<dev, prod, mode, listed, copying>>
    BY <1>3 DEF TakeList, bucketVars
  <2> QED
    BY <2>1, <2>2
<1>4. ASSUME NEW r \in Runs, ListFiles(r) \/ ListFails(r) PROVE TypeOK'
  BY <1>3, <1>4 DEF ListFiles, ListFails
<1>5. ASSUME NEW r \in Runs, NEW p \in Packages, ReadMetadata(r, p)
      PROVE  TypeOK'
  <2> DEFINE found == {q \in Packages : listed'[r][q] # 0}
  <2>1. /\ listed' = [listed EXCEPT ![r][p] = dev[p]]
        /\ UNCHANGED <<dev, prod, mode, copying>>
        /\ pc[r] = "metadata"
    BY <1>5 DEF ReadMetadata, bucketVars
  <2>2. listed' \in [Runs -> [Packages -> 0..MaxVersion]]
    BY <2>1
  <2>3. found \in SUBSET Packages
    OBVIOUS
  <2>4. CASE todo[r] = {p}
    <3>1. /\ pc' = [pc EXCEPT ![r] = "compare"]
          /\ todo' = [todo EXCEPT ![r] = found]
      BY <1>5, <2>4 DEF ReadMetadata
    <3>2. \A q \in found : listed'[r][q] # 0
      OBVIOUS
    <3>3. \A q \in Runs \ {r} : listed'[q] = listed[q]
      BY <2>1
    <3> HIDE DEF found
    <3> QED
      BY <2>1, <2>2, <2>3, <3>1, <3>2, <3>3
  <2>5. CASE todo[r] # {p}
    <3>1. pc' = pc /\ todo' = [todo EXCEPT ![r] = @ \ {p}]
      BY <1>5, <2>5 DEF ReadMetadata
    <3>2. \A q \in Runs \ {r} : listed'[q] = listed[q]
      BY <2>1
    <3> HIDE DEF found
    <3> QED
      BY <2>1, <2>2, <3>1, <3>2
  <2> QED
    BY <2>4, <2>5
<1>6. ASSUME NEW r \in Runs, NEW p \in Packages, Skip(r, p)
      PROVE  TypeOK'
  BY <1>6 DEF Skip, Handled, bucketVars
<1>7. ASSUME NEW r \in Runs, NEW p \in Packages, CopyBegins(r, p)
      PROVE  TypeOK'
  BY <1>7 DEF CopyBegins, bucketVars
<1>8. ASSUME NEW r \in Runs, CopyEnds(r) PROVE TypeOK'
  BY <1>8 DEF CopyEnds, Handled
<1>9. ASSUME NEW r \in Runs, CommandFails(r) PROVE TypeOK'
  BY <1>9 DEF CommandFails, bucketVars
<1>10. CASE UNCHANGED syncVars
  BY <1>10 DEF syncVars, bucketVars, runVars
<1> QED
  BY <1>1, <1>2, <1>3, <1>4, <1>5, <1>6, <1>7, <1>8, <1>9, <1>10
     DEF SyncNext, Work, Faults, Advance

(* Publications only raise what the others are compared with. *)
LEMMA OrderStep ==
    ASSUME TypeOK, OrderInv,
           [SyncNext]_syncVars
    PROVE  OrderInv'
<1> USE VersionAssumption DEF TypeOK, Over, NoCopy, OrderInv
<1>1. CASE \E p \in Packages : Publish(p)
  BY <1>1 DEF Publish, runVars
<1>2. CASE \E r \in Runs, m \in {"sync", "check"} : Dispatch(r, m)
  BY <1>2 DEF Dispatch, bucketVars
<1>3. ASSUME NEW r \in Runs, NEW found \in SUBSET InDev, TakeList(r, found)
      PROVE  OrderInv'
  BY <1>3 DEF TakeList, bucketVars
<1>4. ASSUME NEW r \in Runs, ListFiles(r) \/ ListFails(r) PROVE OrderInv'
  BY <1>3, <1>4 DEF ListFiles, ListFails
<1>5. ASSUME NEW r \in Runs, NEW p \in Packages, ReadMetadata(r, p)
      PROVE  OrderInv'
  BY <1>5 DEF ReadMetadata, bucketVars
<1>6. ASSUME NEW r \in Runs, NEW p \in Packages, Skip(r, p)
      PROVE  OrderInv'
  BY <1>6 DEF Skip, Handled, bucketVars
<1>7. ASSUME NEW r \in Runs, NEW p \in Packages, CopyBegins(r, p)
      PROVE  OrderInv'
  BY <1>7 DEF CopyBegins, bucketVars
<1>8. ASSUME NEW r \in Runs, CopyEnds(r) PROVE OrderInv'
  BY <1>8 DEF CopyEnds, Handled
<1>9. ASSUME NEW r \in Runs, CommandFails(r) PROVE OrderInv'
  BY <1>9 DEF CommandFails, bucketVars
<1>10. CASE UNCHANGED syncVars
  BY <1>10 DEF syncVars, bucketVars, runVars
<1> QED
  BY <1>1, <1>2, <1>3, <1>4, <1>5, <1>6, <1>7, <1>8, <1>9, <1>10
     DEF SyncNext, Work, Faults, Advance

(* A run that is alone was alone before, unless it begins only now: no run is
   idle again. *)
LEMMA AloneStep ==
    ASSUME SyncInv, [SyncNext]_syncVars,
           NEW r \in Runs, Alone(r)'
    PROVE  DoneRight(r)'
<1> USE VersionAssumption DEF SyncInv, TypeOK, Over, NoCopy, OrderInv, Alone,
            DoneRight
<1>1. CASE \E p \in Packages : Publish(p)
  BY <1>1 DEF Publish, runVars
<1>2. CASE \E s \in Runs, m \in {"sync", "check"} : Dispatch(s, m)
  BY <1>2 DEF Dispatch, bucketVars
<1>3. ASSUME NEW s \in Runs, NEW found \in SUBSET InDev, TakeList(s, found)
      PROVE  DoneRight(r)'
  BY <1>3 DEF TakeList, bucketVars
<1>4. ASSUME NEW s \in Runs, ListFiles(s) \/ ListFails(s) PROVE DoneRight(r)'
  BY <1>3, <1>4 DEF ListFiles, ListFails
<1>5. ASSUME NEW s \in Runs, NEW p \in Packages, ReadMetadata(s, p)
      PROVE  DoneRight(r)'
  BY <1>5 DEF ReadMetadata, bucketVars
<1>6. ASSUME NEW s \in Runs, NEW p \in Packages, Skip(s, p)
      PROVE  DoneRight(r)'
  BY <1>6 DEF Skip, Handled, UpToDate, bucketVars
<1>7. ASSUME NEW s \in Runs, NEW p \in Packages, CopyBegins(s, p)
      PROVE  DoneRight(r)'
  BY <1>7 DEF CopyBegins, bucketVars
<1>8. ASSUME NEW s \in Runs, CopyEnds(s) PROVE DoneRight(r)'
  BY <1>8 DEF CopyEnds, Handled
<1>9. ASSUME NEW s \in Runs, CommandFails(s) PROVE DoneRight(r)'
  BY <1>9 DEF CommandFails, bucketVars
<1>10. CASE UNCHANGED syncVars
  BY <1>10 DEF syncVars, bucketVars, runVars
<1> QED
  BY <1>1, <1>2, <1>3, <1>4, <1>5, <1>6, <1>7, <1>8, <1>9, <1>10
     DEF SyncNext, Work, Faults, Advance

LEMMA SyncInvariant == SyncSpec => []SyncInv
<1>1. SyncInv /\ [SyncNext]_syncVars => SyncInv'
  BY SyncTypeStep, OrderStep, AloneStep DEF SyncInv
<1> QED
  BY <1>1, SyncInvInit, PTL DEF SyncSpec

(* The types of SyncPackages, and that a run only copies what it has still to
   deal with and what was published (yaml:170-244). *)
THEOREM PublicationsTyped == SyncSpec => []TypeOK
<1>1. SyncInv => TypeOK
  BY DEF SyncInv
<1> QED
  BY <1>1, SyncInvariant, PTL

(* A synchronisation that ends well and was never joined by another leaves
   nothing older in production than it compared with, for every number of
   packages and of publications meanwhile (yaml:170-244). *)
THEOREM GreenIsSynced == SyncSpec => []GreenMeansSynced
<1>1. SyncInv => GreenMeansSynced
  BY DEF SyncInv, Alone, DoneRight, GreenMeansSynced
<1> QED
  BY <1>1, SyncInvariant, PTL
=============================================================================
