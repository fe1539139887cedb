------------------------------ MODULE SafeCall ------------------------------
(***************************************************************************)
(* Job.safe_call (job.js:129-329): one isolate --run whose output is       *)
(* gathered through data events, capped, and answered together with what   *)
(* isolate wrote to its metadata file.                                     *)
(*                                                                         *)
(* The child, its two pipes and the caller move independently: data that   *)
(* the child wrote long ago may be delivered before or after the exit      *)
(* event, in any order between the streams, also while the metadata file   *)
(* is being read.  The text of a chunk is abstracted to how many           *)
(* characters it adds to a string and to the stream it came from.  message *)
(* always moves with status and is left out.                               *)
(***************************************************************************)
EXTENDS Integers, Sequences

CONSTANTS
    OutputMaxSize,  \* runtime.output_max_size
    MaxChunk,       \* bound: bytes of one data event
    MaxWrites       \* bound: chunks the child writes to each stream

ASSUME OutputAssumption == OutputMaxSize \in Nat
ASSUME BoundsAssumption == MaxChunk \in Nat \ {0} /\ MaxWrites \in Nat

VARIABLES
    child,      \* "running", "exited", or "unborn" when the spawn failed
    metadata,   \* what isolate has written to the metadata file
    aborted,    \* a SIGABRT was sent to isolate while it ran
    pipe,       \* per stream, the chunks written and not yet delivered
    writes,     \* per stream, how many chunks were written
    caller,     \* "waiting" for exit, "reading" metadata, "returned", "threw"
    text,       \* the strings stdout (at "out") and stderr (at "err")
    output,     \* the string output
    status,     \* the local variable
    received,   \* per stream, the characters handed to the data handlers
    result      \* code, signal and status of the answer

childVars == <<child, metadata, aborted, pipe, writes>>
textVars == <<text, output, received>>

stdout == text["out"]
stderr == text["err"]
vars == <<childVars, caller, textVars, status, result>>

Streams == {"out", "err"}
Null == "null"

(* A string is known by the number of its characters from each stream. *)
Texts == [Streams -> Nat]
Empty == [s \in Streams |-> 0]
Size(string) == string["out"] + string["err"]

(* n bytes decode to at least one character, to fewer than n when some of
   them take several bytes. *)
Chars(n) == IF n = 0 THEN {0} ELSE 1..n

(* The bytes in data.slice(0, end) of a chunk of n: a negative end counts
   from the end of the chunk. *)
SliceSize(n, end) ==
    IF end < 0 THEN (IF n + end > 0 THEN n + end ELSE 0)
    ELSE IF end < n THEN end ELSE n

(* What isolate reports of the process it ran. *)
Outcomes ==
    {[exitcode |-> "0", exitsig |-> Null, status |-> Null],
     [exitcode |-> "1", exitsig |-> Null, status |-> "RE"],
     [exitcode |-> Null, exitsig |-> "SIGSEGV", status |-> "SG"],
     [exitcode |-> Null, exitsig |-> Null, status |-> "TO"]}
(* ... and of itself, when a fatal signal ends it. *)
Interrupted == [exitcode |-> Null, exitsig |-> Null, status |-> "XX"]
NoMetadata == [exitcode |-> Null, exitsig |-> Null, status |-> Null]

NoResult == [code |-> Null, signal |-> Null, status |-> Null]

-----------------------------------------------------------------------------
Init ==
    /\ child = "running"
    /\ metadata = NoMetadata
    /\ aborted = FALSE
    /\ pipe = [s \in Streams |-> <<>>]
    /\ writes = [s \in Streams |-> 0]
    /\ caller = "waiting"
    /\ text = [s \in Streams |-> Empty]
    /\ output = Empty
    /\ status = Null
    /\ received = Empty
    /\ result = NoResult

(* Mutant: no handler for the error event. *)
SpawnFails_Unheard ==
    /\ child = "running"
    /\ writes = [s \in Streams |-> 0]
    /\ caller = "waiting"
    /\ child' = "unborn"
    /\ UNCHANGED <<metadata, aborted, pipe, writes, caller, textVars, status,
                   result>>

(* isolate cannot be spawned: the error event rejects. *)
SpawnFails ==
    /\ child = "running"
    /\ writes = [s \in Streams |-> 0]
    /\ caller = "waiting"
    /\ child' = "unborn"
    /\ caller' = "threw"
    /\ UNCHANGED <<metadata, aborted, pipe, writes, textVars, status, result>>

(* The sandboxed program writes n bytes to stream s. *)
ChildWrites(s, n) ==
    /\ child = "running"
    /\ writes[s] < MaxWrites
    /\ pipe' = [pipe EXCEPT ![s] = Append(@, n)]
    /\ writes' = [writes EXCEPT ![s] = @ + 1]
    /\ UNCHANGED <<child, metadata, aborted, caller, textVars, status, result>>

(* The program ends or reaches a limit, possibly just before a SIGABRT. *)
ChildExits(m) ==
    /\ child = "running"
    /\ child' = "exited"
    /\ metadata' = m
    /\ UNCHANGED <<aborted, pipe, writes, caller, textVars, status, result>>

(* The SIGABRT reaches isolate: it kills the sandbox and reports itself. *)
ChildAborted ==
    /\ aborted
    /\ ChildExits(Interrupted)

-----------------------------------------------------------------------------
(* The handlers run until safe_call has settled; after that nobody looks. *)
Listening == caller \in {"waiting", "reading"}

Plus(string, s, n) == [string EXCEPT ![s] = @ + n]

(* A chunk of stream s that fits is added to its string and to output. *)
DataFits(s) ==
    /\ Listening
    /\ pipe[s] # <<>>
    /\ Size(text[s]) + Head(pipe[s]) <= OutputMaxSize
    /\ pipe' = [pipe EXCEPT ![s] = Tail(@)]
    /\ \E c \in Chars(Head(pipe[s])) :
          /\ text' = [text EXCEPT ![s] = Plus(@, s, c)]
          /\ output' = Plus(output, s, c)
          /\ received' = Plus(received, s, c)
    /\ UNCHANGED <<child, metadata, aborted, writes, caller, status, result>>

(* Mutant: the text meant for message ends up in status. *)
Verdict_Swapped ==
    [s \in Streams |-> IF s = "out" THEN "stdout length exceeded"
                       ELSE "stderr length exceeded"]

(* The handlers' status for a stream that overflows. *)
Verdict == [s \in Streams |-> IF s = "out" THEN "OL" ELSE "EL"]

(* Mutant: the room is that of the stream, the text still goes to stderr. *)
Keep_HalfFixed(s, n) ==
    \E c \in Chars(SliceSize(n, OutputMaxSize - Size(text[s]))) :
        /\ text' = [text EXCEPT !["err"] = Plus(@, s, c)]
        /\ output' = Plus(output, s, c)

(* Mutant: the whole chunk is added to output. *)
Keep_Uncut(s, n) ==
    /\ output' = Plus(output, s, n)
    /\ \E c \in Chars(SliceSize(n, OutputMaxSize - Size(stderr))) :
          text' = [text EXCEPT !["err"] = Plus(@, s, c)]

(* Both handlers put what is left of the chunk into stderr: the one of stdout
   is a copy of the other here (job.js:238-240). *)
Keep(s, n) ==
    \E c \in Chars(SliceSize(n, OutputMaxSize - Size(stderr))) :
        /\ text' = [text EXCEPT !["err"] = Plus(@, s, c)]
        /\ output' = Plus(output, s, c)

(* A chunk that does not fit is cut to the room left in stderr, and isolate
   gets a SIGABRT; the error of process.kill is caught when it is gone. *)
DataOverflows(s) ==
    /\ Listening
    /\ pipe[s] # <<>>
    /\ Size(text[s]) + Head(pipe[s]) > OutputMaxSize
    /\ status' = Verdict[s]
    /\ pipe' = [pipe EXCEPT ![s] = Tail(@)]
    /\ Keep(s, Head(pipe[s]))
    /\ received' = Plus(received, s, Head(pipe[s]))
    /\ aborted' = (aborted \/ child = "running")
    /\ UNCHANGED <<child, metadata, writes, caller, result>>

-----------------------------------------------------------------------------
(* The exit event: safe_call goes on to read the metadata file.  It does not
   wait for the streams to close. *)
ExitEvent ==
    /\ caller = "waiting"
    /\ child = "exited"
    /\ caller' = "reading"
    /\ UNCHANGED <<childVars, textVars, status, result>>

(* Mutant: what isolate reports replaces the verdict of the handlers. *)
FinalStatus_Replaced ==
    IF metadata.status # Null THEN metadata.status ELSE status

(* status = status || value: a verdict of the data handlers stands. *)
FinalStatus == IF status # Null THEN status ELSE metadata.status

(* The metadata is parsed and the answer is put together in one turn. *)
Return ==
    /\ caller = "reading"
    /\ caller' = "returned"
    /\ status' = FinalStatus
    /\ result' = [code |-> metadata.exitcode,
                  signal |-> IF FinalStatus \in {"TO", "OL", "EL"}
                             THEN "SIGKILL" ELSE metadata.exitsig,
                  status |-> FinalStatus]
    /\ UNCHANGED <<childVars, textVars>>

(* The file is missing, or a line of it does not parse. *)
MetadataThrows ==
    /\ caller = "reading"
    /\ caller' = "threw"
    /\ UNCHANGED <<childVars, textVars, status, result>>

-----------------------------------------------------------------------------
ChildEnds == ChildAborted \/ \E m \in Outcomes : ChildExits(m)

Next ==
    \/ SpawnFails
    \/ \E s \in Streams, n \in 1..MaxChunk : ChildWrites(s, n)
    \/ ChildEnds
    \/ \E s \in Streams : DataFits(s) \/ DataOverflows(s)
    \/ ExitEvent
    \/ Return
    \/ MetadataThrows

Spec == Init /\ [][Next]_vars

(* isolate ends every run at its wall-time limit, exit is announced, and
   read_file settles. *)
FairSpec ==
    /\ Spec
    /\ WF_vars(ChildEnds)
    /\ WF_vars(ExitEvent)
    /\ WF_vars(Return \/ MetadataThrows)

-----------------------------------------------------------------------------
TypeOK ==
    /\ child \in {"running", "exited", "unborn"}
    /\ metadata \in Outcomes \cup {Interrupted, NoMetadata}
    /\ aborted \in BOOLEAN
    /\ pipe \in [Streams -> Seq(1..MaxChunk)]
    /\ writes \in [Streams -> 0..MaxWrites]
    /\ caller \in {"waiting", "reading", "returned", "threw"}
    /\ text \in [Streams -> Texts]
    /\ output \in Texts /\ received \in Texts
    /\ status \in {Null, "OL", "EL", "RE", "SG", "TO", "XX"}
    /\ result.code \in {Null, "0", "1"}

(* docs/configuration.md:96 "Maximum size of stdio buffers for each job":
   however many chunks overflow before the kill takes effect, and although an
   overflow of stdout is put into stderr, each string stays within the limit
   and output within twice the limit (job.js:203-212, 231-240). *)
BuffersBounded ==
    /\ Size(stdout) <= OutputMaxSize
    /\ Size(stderr) <= OutputMaxSize
    /\ Size(output) <= 2 * OutputMaxSize

(* Every character of output is in stdout or stderr and the other way round,
   also after overflows (job.js:211-212, 223-224, 239-240, 251-252). *)
OutputIsBoth ==
    \A s \in Streams : output[s] = stdout[s] + stderr[s]

(* Nothing that was received is dropped in silence: an answer without the
   status OL or EL has every received character in the string of its stream,
   whatever status isolate itself reported and whenever the overflow came
   (job.js:207-211, 235-239, 297-299, 321). *)
TruncationReported ==
    caller = "returned" /\ ~(result.status \in {"OL", "EL"} /\ result.signal = "SIGKILL")
        => /\ stdout = [Empty EXCEPT !["out"] = received["out"]]
           /\ stderr = [Empty EXCEPT !["err"] = received["err"]]

(* Every call settles: the program ends at its limits at the latest and one
   of the two events resolves or rejects the promise (job.js:256-268). *)
CallSettles == caller = "waiting" ~> caller \in {"returned", "threw"}
=============================================================================
