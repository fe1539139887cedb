--------------------------- MODULE SafeCallProofs ---------------------------
(***************************************************************************)
(* What TLAPS proves of SafeCall for every limit and every amount of       *)
(* output.                                                                 *)
(***************************************************************************)
EXTENDS SafeCall, TLAPS

(* How many characters Keep and DataFits add. *)
LEMMA SliceFits ==
    ASSUME NEW n \in Nat, NEW end \in Nat, NEW c \in Chars(SliceSize(n, end))
    PROVE  c \in Nat /\ c <= end
BY DEF Chars, SliceSize

LEMMA ChunkFits ==
    ASSUME NEW n \in Nat, NEW c \in Chars(n)
    PROVE  c \in Nat /\ c <= n
BY DEF Chars

LEMMA HeadTail ==
    ASSUME NEW S, NEW q \in Seq(S), q # <<>>
    PROVE  Head(q) \in S /\ Tail(q) \in Seq(S)
OBVIOUS

LEMMA PlusSize ==
    ASSUME NEW string \in Texts, NEW s \in Streams, NEW c \in Nat
    PROVE  /\ Plus(string, s, c) \in Texts
           /\ Size(Plus(string, s, c)) = Size(string) + c
           /\ Size(string) \in Nat
           /\ Plus(string, s, c)[s] = string[s] + c
           /\ \A t \in Streams \ {s} : Plus(string, s, c)[t] = string[t]
BY DEF Plus, Texts, Size, Streams

-----------------------------------------------------------------------------
(* The limits: each string within its own, and output made of both.  The
   room computed from stderr alone is never negative because stderr itself
   is within the limit, whichever handler added to it. *)
LimitInv ==
    /\ pipe \in [Streams -> Seq(1..MaxChunk)]
    /\ text \in [Streams -> Texts]
    /\ output \in Texts
    /\ \A s \in Streams : Size(text[s]) <= OutputMaxSize
    /\ OutputIsBoth

LEMMA LimitInit == Init => LimitInv
BY OutputAssumption
   DEF Init, LimitInv, Texts, Empty, Size, Streams, OutputIsBoth, stdout, stderr

(* Adding c characters of stream s to string t and to output. *)
LEMMA AddKeepsLimits ==
    ASSUME LimitInv, NEW s \in Streams, NEW t \in Streams, NEW c \in Nat,
           Size(text[t]) + c <= OutputMaxSize,
           text' = [text EXCEPT ![t] = Plus(@, s, c)],
           output' = Plus(output, s, c),
           pipe' \in [Streams -> Seq(1..MaxChunk)]
    PROVE  LimitInv'
<1>1. text[t] \in Texts /\ output \in Texts /\ text \in [Streams -> Texts]
  BY DEF LimitInv
<1>2. text' \in [Streams -> Texts] /\ output' \in Texts
  BY <1>1, PlusSize
<1>3. \A u \in Streams : Size(text'[u]) <= OutputMaxSize
  <2>1. Size(text'[t]) = Size(text[t]) + c
    BY <1>1, PlusSize
  <2>2. \A u \in Streams \ {t} : text'[u] = text[u]
    BY <1>1
  <2> QED BY <2>1, <2>2 DEF LimitInv
<1>4. OutputIsBoth'
  <2>1. /\ output'[s] = output[s] + c
        /\ \A u \in Streams \ {s} : output'[u] = output[u]
    BY <1>1, PlusSize
  <2>2. /\ text'[t][s] = text[t][s] + c
        /\ \A u \in Streams \ {s} : text'[t][u] = text[t][u]
        /\ \A u \in Streams \ {t} : text'[u] = text[u]
    <3>1. text'[t] = Plus(text[t], s, c)
      BY <1>1
    <3>2. \A u \in Streams \ {t} : text'[u] = text[u]
      BY <1>1
    <3>3. /\ Plus(text[t], s, c)[s] = text[t][s] + c
          /\ \A u \in Streams \ {s} : Plus(text[t], s, c)[u] = text[t][u]
      BY <1>1, PlusSize
    <3> QED BY <3>1, <3>2, <3>3
  <2>3. \A u \in Streams : output[u] = text["out"][u] + text["err"][u]
    BY DEF LimitInv, OutputIsBoth, stdout, stderr
  <2>4. \A u, v \in Streams : text[u][v] \in Nat
    BY <1>1 DEF Texts
  <2>5. \A u \in Streams : output'[u] = text'["out"][u] + text'["err"][u]
    <3> SUFFICES ASSUME NEW u \in Streams
                 PROVE  output'[u] = text'["out"][u] + text'["err"][u]
      OBVIOUS
    <3>1. output[u] = text["out"][u] + text["err"][u]
      BY <2>3
    <3>2. /\ text["out"][u] \in Nat /\ text["err"][u] \in Nat
          /\ t \in {"out", "err"}
      BY <2>4 DEF Streams
    <3>3. CASE u = s
      <4>1. CASE t = "out"
        BY <2>1, <2>2, <3>1, <3>2, <3>3, <4>1 DEF Streams
      <4>2. CASE t = "err"
        BY <2>1, <2>2, <3>1, <3>2, <3>3, <4>2 DEF Streams
      <4> QED BY <3>2, <4>1, <4>2
    <3>4. CASE u # s
      <4>1. output'[u] = output[u] /\ text'[t][u] = text[t][u]
        BY <2>1, <2>2, <3>4
      <4>2. text'["out"][u] = text["out"][u] /\ text'["err"][u] = text["err"][u]
        BY <2>2, <3>2, <4>1 DEF Streams
      <4> QED BY <3>1, <4>1, <4>2
    <3> QED BY <3>3, <3>4
  <2> QED BY <2>5 DEF OutputIsBoth, stdout, stderr
<1> QED BY <1>2, <1>3, <1>4 DEF LimitInv

LEMMA LimitStep == LimitInv /\ [Next]_vars => LimitInv'
<1> SUFFICES ASSUME LimitInv, [Next]_vars PROVE LimitInv'
  OBVIOUS
<1>1. ASSUME NEW s \in Streams, pipe[s] # <<>>,
             pipe' = [pipe EXCEPT ![s] = Tail(@)]
      PROVE  /\ Head(pipe[s]) \in Nat
             /\ pipe' \in [Streams -> Seq(1..MaxChunk)]
  <2>1. pipe[s] \in Seq(1..MaxChunk)
    BY DEF LimitInv
  <2>2. Head(pipe[s]) \in 1..MaxChunk /\ Tail(pipe[s]) \in Seq(1..MaxChunk)
    BY <1>1, <2>1, HeadTail
  <2> QED BY <1>1, <2>2, BoundsAssumption DEF LimitInv
<1>2. ASSUME NEW s \in Streams, DataFits(s) PROVE LimitInv'
  <2>1. /\ Head(pipe[s]) \in Nat
        /\ pipe' \in [Streams -> Seq(1..MaxChunk)]
    BY <1>1, <1>2 DEF DataFits
  <2>2. PICK c \in Chars(Head(pipe[s])) :
          /\ text' = [text EXCEPT ![s] = Plus(@, s, c)]
          /\ output' = Plus(output, s, c)
    BY <1>2 DEF DataFits
  <2>3. c \in Nat /\ c <= Head(pipe[s])
    BY <2>1, ChunkFits
  <2>4. Size(text[s]) \in Nat
    BY PlusSize, <2>3 DEF LimitInv
  <2>5. Size(text[s]) + c <= OutputMaxSize
    BY <1>2, <2>1, <2>3, <2>4, OutputAssumption DEF DataFits
  <2> QED BY <2>1, <2>2, <2>3, <2>5, AddKeepsLimits
<1>3. ASSUME NEW s \in Streams, DataOverflows(s) PROVE LimitInv'
  <2>1. /\ Head(pipe[s]) \in Nat
        /\ pipe' \in [Streams -> Seq(1..MaxChunk)]
    BY <1>1, <1>3 DEF DataOverflows
  <2> DEFINE room == OutputMaxSize - Size(stderr)
  <2>2. "err" \in Streams /\ stderr = text["err"]
    BY DEF Streams, stderr
  <2>3. Size(stderr) \in Nat /\ Size(stderr) <= OutputMaxSize
    BY <2>2, PlusSize DEF LimitInv
  <2>4. room \in Nat
    BY <2>3, OutputAssumption
  <2>5. PICK c \in Chars(SliceSize(Head(pipe[s]), room)) :
          /\ text' = [text EXCEPT !["err"] = Plus(@, s, c)]
          /\ output' = Plus(output, s, c)
    BY <1>3 DEF DataOverflows, Keep
  <2>6. c \in Nat /\ c <= room
    BY <2>1, <2>4, <2>5, SliceFits
  <2>7. Size(text["err"]) + c <= OutputMaxSize
    BY <2>2, <2>3, <2>6, OutputAssumption
  <2> HIDE DEF room
  <2> QED BY <2>1, <2>2, <2>5, <2>6, <2>7, AddKeepsLimits
<1>4. ASSUME NEW s \in Streams, NEW n \in 1..MaxChunk, ChildWrites(s, n)
      PROVE  LimitInv'
  BY <1>4 DEF ChildWrites, textVars, LimitInv, OutputIsBoth, stdout, stderr
<1>5. CASE SpawnFails \/ ChildEnds \/ ExitEvent \/ Return \/ MetadataThrows
             \/ UNCHANGED vars
  <2>1. UNCHANGED <<pipe, text, output>>
    BY <1>5 DEF SpawnFails, ChildEnds, ChildAborted, ChildExits, ExitEvent,
                Return, MetadataThrows, vars, childVars, textVars
  <2> QED BY <2>1 DEF LimitInv, OutputIsBoth, stdout, stderr
<1> QED BY <1>2, <1>3, <1>4, <1>5 DEF Next

LEMMA LimitInvariant == Spec => []LimitInv
BY LimitInit, LimitStep, PTL DEF Spec

(* Each of stdout and stderr stays within OUTPUT_MAX_SIZE and output within
   twice that, whatever overflows and in whatever order (job.js:200-254). *)
THEOREM OutputStaysBounded == Spec => []BuffersBounded
<1>1. LimitInv => BuffersBounded
  <2> SUFFICES ASSUME LimitInv PROVE BuffersBounded
    OBVIOUS
  <2>1. "out" \in Streams /\ "err" \in Streams
    BY DEF Streams
  <2>2. Size(stdout) <= OutputMaxSize /\ Size(stderr) <= OutputMaxSize
    BY <2>1 DEF LimitInv, stdout, stderr
  <2>3. stdout \in Texts /\ stderr \in Texts
    BY <2>1 DEF LimitInv, stdout, stderr
  <2>4. Size(output) = Size(stdout) + Size(stderr)
    BY <2>1, <2>3 DEF LimitInv, OutputIsBoth, Size, Texts
  <2>5. Size(stdout) \in Nat /\ Size(stderr) \in Nat
    BY <2>1, <2>3 DEF Size, Texts
  <2> QED BY <2>2, <2>4, <2>5, OutputAssumption DEF BuffersBounded
<1> QED BY <1>1, LimitInvariant, PTL

(* output holds exactly the characters of stdout and stderr (job.js:211-212,
   223-224, 239-240, 251-252). *)
THEOREM OutputIsAlwaysBoth == Spec => []OutputIsBoth
<1>1. LimitInv => OutputIsBoth
  BY DEF LimitInv
<1> QED BY <1>1, LimitInvariant, PTL

-----------------------------------------------------------------------------
(* What is received is kept or reported.  Before the answer, status is only
   ever set by the handlers, so as long as it is null nothing was cut; the
   answer keeps a verdict because the metadata never replaces it. *)
Kept ==
    /\ stdout = [Empty EXCEPT !["out"] = received["out"]]
    /\ stderr = [Empty EXCEPT !["err"] = received["err"]]

KeptInv ==
    /\ LimitInv
    /\ received \in Texts
    /\ caller # "returned" => status \in {Null, "OL", "EL"}
    /\ status \in {"OL", "EL"} \/ Kept
    /\ caller = "returned" =>
         /\ result.status = status
         /\ status \in {"OL", "EL"} => result.signal = "SIGKILL"

LEMMA KeptInit == Init => KeptInv
<1> SUFFICES ASSUME Init PROVE KeptInv
  OBVIOUS
<1>1. Kept
  BY DEF Init, Kept, Empty, stdout, stderr, Streams
<1> QED BY <1>1, LimitInit DEF Init, KeptInv, Empty, Texts, Streams

LEMMA KeptStep == KeptInv /\ [Next]_vars => KeptInv'
<1> SUFFICES ASSUME KeptInv, [Next]_vars PROVE KeptInv'
  OBVIOUS
<1>1. LimitInv'
  BY LimitStep DEF KeptInv
<1>2. /\ text \in [Streams -> Texts] /\ received \in Texts
      /\ "out" \in Streams /\ "err" \in Streams
  BY DEF KeptInv, LimitInv, Streams
<1>3. ASSUME NEW s \in Streams, NEW c \in Nat, status \notin {"OL", "EL"},
             text' = [text EXCEPT ![s] = Plus(@, s, c)],
             received' = Plus(received, s, c)
      PROVE  Kept'
  <2>1. Kept
    BY <1>3 DEF KeptInv
  <2>2. CASE s = "out"
    BY <1>2, <1>3, <2>1, <2>2
       DEF Kept, Plus, Texts, Empty, stdout, stderr, Streams
  <2>3. CASE s = "err"
    BY <1>2, <1>3, <2>1, <2>3
       DEF Kept, Plus, Texts, Empty, stdout, stderr, Streams
  <2> QED BY <2>2, <2>3 DEF Streams
<1>4. ASSUME NEW s \in Streams, pipe[s] # <<>> PROVE Head(pipe[s]) \in Nat
  <2>1. pipe[s] \in Seq(1..MaxChunk) /\ pipe[s] # <<>>
    BY <1>4 DEF KeptInv, LimitInv
  <2>2. Head(pipe[s]) \in 1..MaxChunk
    BY <2>1, HeadTail
  <2> QED BY <2>2, BoundsAssumption
<1>5. ASSUME NEW s \in Streams, DataFits(s) PROVE KeptInv'
  <2>1. PICK c \in Chars(Head(pipe[s])) :
          /\ text' = [text EXCEPT ![s] = Plus(@, s, c)]
          /\ received' = Plus(received, s, c)
    BY <1>5 DEF DataFits
  <2>2. c \in Nat
    BY <1>4, <1>5, <2>1, ChunkFits DEF DataFits
  <2>3. received' \in Texts
    BY <1>2, <2>1, <2>2, PlusSize
  <2>4. status \in {"OL", "EL"} \/ Kept'
    BY <1>3, <2>1, <2>2
  <2>5. UNCHANGED <<status, caller, result>> /\ caller # "returned"
    BY <1>5 DEF DataFits, Listening
  <2> QED BY <1>1, <2>3, <2>4, <2>5 DEF KeptInv
<1>6. ASSUME NEW s \in Streams, DataOverflows(s) PROVE KeptInv'
  <2>1. received' = Plus(received, s, Head(pipe[s])) /\ Head(pipe[s]) \in Nat
    BY <1>4, <1>6 DEF DataOverflows
  <2>2. received' \in Texts
    BY <1>2, <2>1, PlusSize
  <2>3. status' \in {"OL", "EL"}
    BY <1>6 DEF DataOverflows, Verdict, Streams
  <2>4. caller' = caller /\ caller # "returned"
    BY <1>6 DEF DataOverflows, Listening
  <2> QED BY <1>1, <2>2, <2>3, <2>4 DEF KeptInv
<1>7. CASE Return
  <2>1. /\ UNCHANGED <<text, received>> /\ caller = "reading"
        /\ caller' = "returned" /\ status' = FinalStatus
        /\ result'.status = FinalStatus
        /\ FinalStatus \in {"OL", "EL"} => result'.signal = "SIGKILL"
    BY <1>7 DEF Return, textVars
  <2>2. status \in {"OL", "EL"} => FinalStatus = status
    BY DEF FinalStatus, Null
  <2>3. status \in {"OL", "EL"} \/ Kept'
    BY <2>1 DEF KeptInv, Kept, stdout, stderr
  <2> QED BY <1>1, <1>2, <2>1, <2>2, <2>3 DEF KeptInv
<1>8. CASE \/ SpawnFails \/ ChildEnds \/ ExitEvent \/ MetadataThrows
           \/ \E s \in Streams, n \in 1..MaxChunk : ChildWrites(s, n)
  <2>1. UNCHANGED <<text, received, status, result>>
        /\ \/ caller' = caller
           \/ caller # "returned" /\ caller' # "returned"
    BY <1>8 DEF SpawnFails, ChildEnds, ChildAborted, ChildExits, ExitEvent,
                MetadataThrows, ChildWrites, childVars, textVars
  <2>2. Kept' <=> Kept
    BY <2>1 DEF Kept, stdout, stderr
  <2> QED BY <1>1, <2>1, <2>2 DEF KeptInv
<1>9. CASE UNCHANGED vars
  BY <1>1, <1>9 DEF vars, textVars, KeptInv, Kept, stdout, stderr
<1> QED BY <1>5, <1>6, <1>7, <1>8, <1>9 DEF Next

(* An answer without OL or EL has all the text that was received, each stream
   in its own string (job.js:207-211, 235-239, 297-299, 321). *)
THEOREM TruncationNeverSilent == Spec => []TruncationReported
<1>1. KeptInv => TruncationReported
  BY DEF KeptInv, Kept, TruncationReported
<1> QED BY <1>1, KeptInit, KeptStep, PTL DEF Spec

-----------------------------------------------------------------------------
(* What LimitInv does not say of the types: the child, its metadata and the
   result.  While the call has not settled the local variable status has no
   value but null or a verdict of the data handlers. *)
StateTypes ==
    /\ child \in {"running", "exited", "unborn"}
    /\ metadata \in Outcomes \cup {Interrupted, NoMetadata}
    /\ aborted \in BOOLEAN
    /\ writes \in [Streams -> 0..MaxWrites]
    /\ caller \in {"waiting", "reading", "returned", "threw"}
    /\ status \in {Null, "OL", "EL", "RE", "SG", "TO", "XX"}
    /\ result.code \in {Null, "0", "1"}

LEMMA MetadataFields ==
    ASSUME NEW d \in Outcomes \cup {Interrupted, NoMetadata}
    PROVE  /\ d.status \in {Null, "RE", "SG", "TO", "XX"}
           /\ d.exitcode \in {Null, "0", "1"}
BY DEF Outcomes, Interrupted, NoMetadata, Null

LEMMA StateInit == Init => StateTypes
<1> SUFFICES ASSUME Init PROVE StateTypes
  OBVIOUS
<1>1. writes \in [Streams -> 0..MaxWrites]
  BY BoundsAssumption DEF Init
<1>2. result.code = Null
  BY DEF Init, NoResult
<1> QED BY <1>1, <1>2 DEF Init, StateTypes

LEMMA StateStep == StateTypes /\ [Next]_vars => StateTypes'
<1> SUFFICES ASSUME StateTypes, [Next]_vars PROVE StateTypes'
  OBVIOUS
<1>1. CASE SpawnFails
  BY <1>1 DEF SpawnFails, StateTypes
<1>2. ASSUME NEW s \in Streams, NEW n \in 1..MaxChunk, ChildWrites(s, n)
      PROVE  StateTypes'
  <2>1. writes[s] \in 0..MaxWrites /\ writes[s] + 1 \in 0..MaxWrites
    BY <1>2, BoundsAssumption DEF ChildWrites, StateTypes
  <2>2. writes' \in [Streams -> 0..MaxWrites]
    BY <1>2, <2>1 DEF ChildWrites, StateTypes
  <2> QED BY <1>2, <2>2 DEF ChildWrites, StateTypes
<1>3. ASSUME NEW d \in Outcomes \cup {Interrupted}, ChildExits(d)
      PROVE  StateTypes'
  BY <1>3 DEF ChildExits, StateTypes
<1>4. ASSUME NEW s \in Streams, DataFits(s) PROVE StateTypes'
  BY <1>4 DEF DataFits, StateTypes
<1>5. ASSUME NEW s \in Streams, DataOverflows(s) PROVE StateTypes'
  <2>1. status' \in {"OL", "EL"}
    BY <1>5 DEF DataOverflows, Verdict, Streams
  <2>2. aborted' \in BOOLEAN
    BY <1>5 DEF DataOverflows, StateTypes
  <2> QED BY <1>5, <2>1, <2>2 DEF DataOverflows, StateTypes
<1>6. CASE ExitEvent
  BY <1>6 DEF ExitEvent, StateTypes, childVars
<1>7. CASE Return
  <2>1. /\ metadata.status \in {Null, "RE", "SG", "TO", "XX"}
        /\ metadata.exitcode \in {Null, "0", "1"}
    BY MetadataFields DEF StateTypes
  <2>2. FinalStatus \in {Null, "OL", "EL", "RE", "SG", "TO", "XX"}
    BY <2>1 DEF FinalStatus, StateTypes
  <2>3. status' = FinalStatus /\ result'.code = metadata.exitcode
    BY <1>7 DEF Return
  <2> QED BY <1>7, <2>1, <2>2, <2>3 DEF Return, StateTypes, childVars
<1>8. CASE MetadataThrows
  BY <1>8 DEF MetadataThrows, StateTypes, childVars
<1>9. CASE UNCHANGED vars
  BY <1>9 DEF vars, childVars, StateTypes
<1>10. ChildEnds => \E d \in Outcomes \cup {Interrupted} : ChildExits(d)
  BY DEF ChildEnds, ChildAborted
<1> QED
  BY <1>1, <1>2, <1>3, <1>4, <1>5, <1>6, <1>7, <1>8, <1>9, <1>10 DEF Next

(* Every variable keeps its type, whatever the child writes and whenever it
   ends; the characters received are counted by natural numbers (job.js:129-329). *)
THEOREM TypeCorrect == Spec => []TypeOK
<1>1. LimitInv /\ KeptInv /\ StateTypes => TypeOK
  BY DEF LimitInv, KeptInv, StateTypes, TypeOK
<1> QED
  BY <1>1, LimitInvariant, KeptInit, KeptStep, StateInit, StateStep, PTL
     DEF Spec
=============================================================================
