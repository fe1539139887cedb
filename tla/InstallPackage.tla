--------------------------- MODULE InstallPackage ---------------------------
(***************************************************************************)
(* A language package on its way to a job: install_package.sh removes what *)
(* an earlier installation left, downloads, checks and unpacks the         *)
(* package, writes the environment its environment script sets up to .env  *)
(* and marks the directory; the playground API loads marked directories    *)
(* when it starts and hands the variables of .env to each job (runtime.js, *)
(* the getter env_vars, which caches them).                                *)
(*                                                                         *)
(* The script tests few of its commands: any of them may fail here, the    *)
(* removal included, the script may be killed between two of them or       *)
(* inside rm and tar, and it may be run again on what was left.            *)
(***************************************************************************)
EXTENDS Integers, Sequences

CONSTANTS
    Outputs     \* what `source environment && env` may print: sequences of
                \* items, each of one of the Kinds

(* An item is a variable, exported by the package's environment script or
   inherited from the installer (PATH, HOME, DEBIAN_FRONTEND of the
   Dockerfile), or a line of text that the script writes.  The value of a
   variable is plain, has blanks at an end, contains "=", or goes on in a
   second line that has no "=" or one, that of a name of its own; or the
   variable is one of the shell's that the filter drops, or LANGUAGE. *)
Kinds == {"plain", "blanks", "equals", "newline", "assign", "text", "shell",
          "LANGUAGE"}

(* env prints at least the installer's PATH. *)
ASSUME OutputsAssumption ==
    /\ Outputs \subseteq Seq(Kinds)
    /\ \A o \in Outputs : \E i \in DOMAIN o : o[i] = "plain"

VARIABLES
    printed,    \* what `source environment && env` prints for this package
    at,         \* the command the script is about to run, or how it ended
    pkg,        \* pkg.tar.gz: "none", "other" than the checksum's, "right"
    files,      \* what is unpacked of the right archive
    env_file,   \* .env: <<>> if there is none, else <<the set of its lines>>
    marked,     \* .installation-state exists
    cleared,    \* the latest removal left nothing behind
    runtime,    \* the API has loaded the package
    env_vars,   \* runtime._env_vars: <<>> until the first job reads .env, then
                \* <<the set of its entries>>
    job,        \* the latest job: "none", "throws", or "runs" with env
    thrown      \* a job of this process of the API threw

disk == <<pkg, files, env_file, marked, cleared>>
api == <<runtime, env_vars, job, thrown>>
vars == <<printed, at, disk, api>>

Ends == {"exit0", "exit1", "killed"}
Commands == {"rm", "curl", "checksum", "tar", "env", "state"}

(* A line of .env, and an entry made of it: the index of its item and whether
   it is a variable with its whole value, with blanks around it, with only
   what precedes a second "=" or a line break, a second line that looks like a
   variable, or text that has no "=".  A file is the set of its lines: they
   come in the order of the items, the first line of a value before its
   second, and a blank line only ever at the end. *)
Line(i, form) == [item |-> i, form |-> form]
Blank == Line(Len(printed) + 1, "bare")
Before(l, m) ==
    \/ l.item < m.item
    \/ l.item = m.item /\ l.form = "cut" /\ m.form \in {"bare", "stray"}

NoFile == <<>>
Unset == <<>>
NoJob == [is |-> "none", env |-> {}]
Throws == [is |-> "throws", env |-> {}]

(* The runtime's own LANGUAGE takes the place of one from .env. *)
Language == Line(0, "whole")
RunsWith(entries) ==
    [is |-> "runs",
     env |-> {e \in entries : printed[e.item] # "LANGUAGE"} \cup {Language}]

LinesOf(i) ==
    CASE printed[i] \in {"plain", "LANGUAGE"} -> {Line(i, "whole")}
      [] printed[i] = "blanks" -> {Line(i, "blanks")}
      [] printed[i] = "equals" -> {Line(i, "equals")}
      [] printed[i] = "newline" -> {Line(i, "cut"), Line(i, "bare")}
      [] printed[i] = "assign" -> {Line(i, "cut"), Line(i, "stray")}
      [] printed[i] = "text" -> {Line(i, "bare")}
      [] printed[i] = "shell" -> {}

(* The lines that pass the filter. *)
PrintedLines == UNION {LinesOf(i) : i \in DOMAIN printed}

(* What can be there of some lines when printing or writing them breaks off,
   in whole lines. *)
Beginnings(lines) ==
    {s \in SUBSET lines : \A l \in s : \A m \in lines : Before(m, l) => m \in s}

(* When nothing is printed, echo "" writes one blank line. *)
Written == Beginnings(PrintedLines) \cup {{Blank}}

-----------------------------------------------------------------------------
Init ==
    /\ printed \in Outputs
    /\ at = "rm"
    /\ pkg = "none" /\ files = "none" /\ env_file = NoFile
    /\ marked = FALSE /\ cleared = TRUE
    /\ runtime = FALSE /\ env_vars = Unset /\ job = NoJob /\ thrown = FALSE

(* rm -rf of the directory if there is one, which may fail or be killed with
   any part of it left; its status is not tested.  mkdir -p. *)
RemoveResidue ==
    /\ at = "rm"
    /\ at' \in {"curl", "killed"}
    /\ pkg' \in {"none", pkg}
    /\ files' \in IF files = "none" THEN {"none"} ELSE {"none", "some", files}
    /\ env_file' \in {NoFile, env_file}
    /\ marked' \in {FALSE, marked}
    /\ cleared' = (<<pkg', files', env_file', marked'>>
                      = <<"none", "none", NoFile, FALSE>>)
    /\ UNCHANGED <<printed, api>>

(* curl writes the archive, an error page or part of it, or nothing; the
   status that is tested is that of ls. *)
Download ==
    /\ at = "curl"
    /\ at' = "checksum"
    /\ pkg' \in {pkg, "other", "right"}
    /\ UNCHANGED <<printed, files, env_file, marked, cleared, api>>

ValidateChecksum ==
    /\ at = "checksum"
    /\ at' = IF pkg = "right" THEN "tar" ELSE "exit1"
    /\ UNCHANGED <<printed, disk, api>>

(* Mutant: the status of tar is not tested. *)
Extract_Untested ==
    /\ at = "tar"
    /\ at' = "env"
    /\ files' \in {"some", "all"}
    /\ UNCHANGED <<printed, pkg, env_file, marked, cleared, api>>

(* tar unpacks everything over what is there, or stops in the middle, which
   is tested. *)
Extract ==
    /\ at = "tar"
    /\ \/ at' = "env" /\ files' = IF pkg = "right" THEN "all" ELSE "some"
       \/ at' \in {"exit1", "killed"} /\ files' \in {files, "some"}
    /\ UNCHANGED <<printed, pkg, env_file, marked, cleared, api>>

(* cd, touch environment, env and the filter: an error of touch, of the
   environment script or of the write is not tested. *)
SetUpEnvironment ==
    /\ at = "env"
    /\ \/ /\ at' = "exit1"      \* cd fails
          /\ UNCHANGED env_file
       \/ /\ at' \in {"state", "killed"}
          /\ \/ env_file' \in {<<s>> : s \in Written}
             \/ UNCHANGED env_file
    /\ UNCHANGED <<printed, pkg, files, marked, cleared, api>>

(* chown and the two writes of the state file, none of them tested. *)
WriteState ==
    /\ at = "state"
    /\ at' \in {"exit0", "killed"}
    /\ marked' \in {TRUE, marked}
    /\ UNCHANGED <<printed, pkg, files, env_file, cleared, api>>

(* The script is killed before its next command. *)
Killed ==
    /\ at \in Commands
    /\ at' = "killed"
    /\ UNCHANGED <<printed, disk, api>>

(* The script is run again, with the API down. *)
RunAgain ==
    /\ at \in Ends
    /\ ~runtime
    /\ at' = "rm"
    /\ UNCHANGED <<printed, disk, api>>

-----------------------------------------------------------------------------
(* The API starts: it loads the package when it has the state file.  Without
   pkg-info.json, which any part of the files may lack, it does not come up. *)
StartApi ==
    /\ at \in Ends
    /\ ~runtime /\ marked /\ files # "none"
    /\ runtime' = TRUE
    /\ env_vars' = Unset /\ job' = NoJob /\ thrown' = FALSE
    /\ UNCHANGED <<printed, at, disk>>

StopApi ==
    /\ runtime
    /\ runtime' = FALSE
    /\ env_vars' = Unset /\ job' = NoJob /\ thrown' = FALSE
    /\ UNCHANGED <<printed, at, disk>>

(* line.split('=', 2) drops what follows a second "=", trim() the blanks. *)
Value(line) ==
    [line EXCEPT !.form = CASE @ = "equals" -> "cut"
                            [] @ = "blanks" -> "trimmed"
                            [] OTHER -> @]

(* Mutant: no trim(), so that the last line break starts one more line. *)
EnvLines_NoTrim == env_file[1] \cup {Blank}

(* trim() and split('\n'): an empty file has one line, the blank one. *)
EnvLines == IF env_file[1] = {} THEN {Blank} ELSE env_file[1]

(* forEach fills the cache until a line has no "=", where val.trim() throws;
   what was filled in before stays. *)
Parsed ==
    LET bare == {l \in EnvLines : l.form = "bare"}
    IN  [whole |-> bare = {},
         entries |-> {Value(l) : l \in {m \in EnvLines \ bare :
                                            \A b \in bare : Before(m, b)}}]

(* A job reads the runtime's env_vars when it starts isolate --run. *)
StartJob ==
    /\ runtime
    /\ \/ /\ env_vars = Unset /\ env_file = NoFile    \* read_file_sync throws
          /\ job' = Throws
          /\ UNCHANGED env_vars
       \/ /\ env_vars = Unset /\ env_file # NoFile
          /\ env_vars' = <<Parsed.entries>>
          /\ job' = IF Parsed.whole THEN RunsWith(Parsed.entries) ELSE Throws
       \/ /\ env_vars # Unset
          /\ job' = RunsWith(env_vars[1])
          /\ UNCHANGED env_vars
    /\ thrown' = (thrown \/ job'.is = "throws")
    /\ UNCHANGED <<printed, at, disk, runtime>>

Next ==
    \/ RemoveResidue \/ Download \/ ValidateChecksum \/ Extract
    \/ SetUpEnvironment \/ WriteState \/ Killed \/ RunAgain
    \/ StartApi \/ StopApi \/ StartJob

Spec == Init /\ [][Next]_vars

-----------------------------------------------------------------------------
(* A run of the script that ends with status 0, which is all the image's
   build looks at, leaves all files of an archive with the right checksum,
   although the download is not tested and the script may go on over any
   residue.  And the state file, which is all the API looks at, vouches for
   the files of every directory whose latest removal was complete, however
   often the script was killed; after a removal that failed or was killed it
   does not (install_package.sh:14-62, Dockerfile:34-36, globals.js:82). *)
MarkedMeansVerified ==
    /\ at = "exit0" => files = "all"
    /\ marked /\ cleared => files = "all"

(* What becomes of an item, from the shell to the job. *)
Arrives(i) ==
    CASE printed[i] = "plain" -> {Line(i, "whole")}
      [] printed[i] = "blanks" -> {Line(i, "trimmed")}
      [] printed[i] = "equals" -> {Line(i, "cut")}
      [] printed[i] = "newline" -> {Line(i, "cut")}
      [] printed[i] = "assign" -> {Line(i, "cut"), Line(i, "stray")}
      [] OTHER -> {}

(* The items that break the parser, and those it reaches. *)
Breaking == {i \in DOMAIN printed : printed[i] \in {"newline", "text"}}
Reached == {i \in DOMAIN printed : \A b \in Breaking : i <= b}

(* Jobs of a package with a complete .env get the runtime's LANGUAGE and what
   the environment holds, the package's variables and the installer's, each
   single-line value without "=" or outer blanks as it was exported.  Where an
   item has a line without "=", they get what precedes that line, and none of
   them before a job has thrown for it; without such an item no job throws.
   And where the installation went on without the environment, with no .env
   or an empty one, no job runs before one has thrown: the loss is noticed,
   once for each process of the API
   (install_package.sh:50-53, runtime.js:176-193, job.js:178-181). *)
ExportsReachJobs ==
    /\ env_file = <<PrintedLines>> =>
          /\ job.is = "throws" \/ thrown => Breaking # {}
          /\ job.is = "runs" =>
                /\ job.env = (UNION {Arrives(i) : i \in Reached})
                                 \cup {Language}
                /\ Breaking # {} => thrown
    /\ env_file \in {NoFile, <<{}>>, <<{Blank}>>} =>
          (job.is = "runs" => thrown)
=============================================================================
