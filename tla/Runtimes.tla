------------------------------ MODULE Runtimes ------------------------------
(***************************************************************************)
(* From the environment and the installed packages to the job a request    *)
(* gets: config.js reads and validates the options, index.js loads the     *)
(* packages that are marked as installed, in whatever order the directory  *)
(* lists them, runtime.js computes their limits, and get_job of            *)
(* playground.js validates a request and picks the runtime.                *)
(*                                                                         *)
(* Of the options the model keeps two limits, which stand for all ten, the *)
(* number of concurrent jobs and the overrides.  Versions are numbers, a   *)
(* version selector is the set of versions that satisfy it.                *)
(***************************************************************************)
EXTENDS Integers, Sequences

CONSTANTS
    Environments,   \* what the variables can be: a raw value per option
    Packages,       \* what can be on the disk
    Requests,       \* the bodies of POST /execute
    Undefined,      \* an unset variable, property or runtime
    Malformed,      \* what JSON.parse throws on
    NaN

Limits == {"max_process_count", "output_max_size"}
Default == [max_process_count |-> 64, output_max_size |-> 1024,
            max_concurrent_jobs |-> 64]

(* An array, of whatever it holds. *)
IsArray(a) == a \in Seq({a[i] : i \in DOMAIN a})

(* The version of a package is a number here, and the languages it provides,
   like the files of a request that gets past the first checks, are a list. *)
ASSUME PackagesAssumption ==
    \A p \in Packages :
        /\ p.version \in Nat
        /\ DOMAIN p.limits \subseteq Limits
        /\ p.provides # Undefined => IsArray(p.provides)
ASSUME RequestsAssumption ==
    \A body \in Requests :
        body # Undefined /\ (body.files # Undefined => IsArray(body.files))
ASSUME UndefinedAssumption == Undefined \notin {"base64", "hex"}

VARIABLES
    stage,      \* "booting", "loading", "serving" or "exited"
    env,        \* process.env
    installed,  \* the packages on the disk
    unread,     \* those of them still to be loaded
    config,
    runtimes,
    request,    \* the request answered last
    reply       \* and what get_job made of it

bootVars == <<env, installed>>
vars == <<stage, bootVars, unread, config, runtimes, request, reply>>

-----------------------------------------------------------------------------
(* parseInt: digits at the start, whatever follows them. *)
parse_int(raw) ==
    CASE raw = "0"  -> 0
      [] raw = "1"  -> 1
      [] raw = "-1" -> -1
      [] raw = "7"  -> 7
      [] raw = "3x" -> 3
      [] OTHER      -> NaN

(* The validators of a limit, and of max_concurrent_jobs (NaN > 0 is false). *)
LimitValid(x) == x # NaN
JobsValid(x) == x # NaN /\ x > 0

(* Mutant: for..in over the languages only. *)
parse_overrides_Any(raw) ==
    IF raw = Malformed THEN Undefined
    ELSE [l \in DOMAIN raw |-> [k \in DOMAIN raw[l] |-> parse_int(raw[l][k])]]

(* JSON, and only names of limits as keys; null otherwise. *)
parse_overrides(raw) ==
    IF raw = Malformed \/ \E l \in DOMAIN raw : ~(DOMAIN raw[l] \subseteq Limits)
    THEN Undefined
    ELSE [l \in DOMAIN raw |-> [k \in DOMAIN raw[l] |-> parse_int(raw[l][k])]]

(* The two validators of limit_overrides. *)
validate_overrides(overrides) ==
    /\ overrides # Undefined
    /\ \A l \in DOMAIN overrides :
          \A k \in DOMAIN overrides[l] : LimitValid(overrides[l][k])

Value(option) ==
    IF env[option] = Undefined THEN Default[option] ELSE parse_int(env[option])
Overrides ==
    IF env.limit_overrides = Undefined THEN <<>>
    ELSE parse_overrides(env.limit_overrides)

Options == DOMAIN Default \cup {"limit_overrides"}
Setting(option) ==
    IF option = "limit_overrides" THEN Overrides ELSE Value(option)

LoadConfig ==
    /\ stage = "booting"
    /\ IF /\ \A o \in Limits : LimitValid(Value(o))
          /\ JobsValid(Value("max_concurrent_jobs"))
          /\ validate_overrides(Overrides)
       THEN /\ stage' = "loading"
            /\ config' = [o \in Options |-> Setting(o)]
       ELSE stage' = "exited" /\ UNCHANGED config
    /\ UNCHANGED <<bootVars, unread, runtimes, request, reply>>

-----------------------------------------------------------------------------
(* A property that is there and truthy. *)
Truthy(limits, name) == name \in DOMAIN limits /\ limits[name] # 0

(* The chain of || *)
compute_single_limit(language, name, own) ==
    IF /\ language \in DOMAIN config.limit_overrides
       /\ Truthy(config.limit_overrides[language], name)
    THEN config.limit_overrides[language][name]
    ELSE IF Truthy(own, name) THEN own[name]
    ELSE config[name]

compute_all_limits(language, own) ==
    [name \in Limits |-> compute_single_limit(language, name, own)]

Runtime(language, aliases, version, runtime, own) ==
    [language |-> language, aliases |-> aliases, version |-> version,
     runtime |-> runtime, limits |-> compute_all_limits(language, own)]

(* Mutant: the languages of a package get the limits of the package. *)
RuntimesOf_PackageLimits(p) ==
    IF p.provides = Undefined
    THEN <<Runtime(p.language, p.aliases, p.version, Undefined, p.limits)>>
    ELSE [i \in DOMAIN p.provides |->
            Runtime(p.provides[i].language, p.provides[i].aliases, p.version,
                    p.language, p.limits)]

(* What a package adds to the list: itself, or the languages it provides. *)
RuntimesOf(p) ==
    IF p.provides = Undefined
    THEN <<Runtime(p.language, p.aliases, p.version, Undefined, p.limits)>>
    ELSE [i \in DOMAIN p.provides |->
            Runtime(p.provides[i].language, p.provides[i].aliases, p.version,
                    p.language, p.provides[i].limits)]

load_package(p) ==
    /\ stage = "loading"
    /\ p \in unread
    /\ unread' = unread \ {p}
    /\ runtimes' = IF p.marked THEN runtimes \o RuntimesOf(p) ELSE runtimes
    /\ UNCHANGED <<stage, bootVars, config, request, reply>>

Listen ==
    /\ stage = "loading"
    /\ unread = {}
    /\ stage' = "serving"
    /\ UNCHANGED <<bootVars, unread, config, runtimes, request, reply>>

-----------------------------------------------------------------------------
Named(rt, name) == rt.language = name \/ name \in rt.aliases

Matching(language, versions) ==
    {i \in DOMAIN runtimes :
        Named(runtimes[i], language) /\ runtimes[i].version \in versions}

(* Mutant: compare instead of rcompare. *)
Latest_Oldest(language, versions) ==
    CHOOSE i \in Matching(language, versions) :
        \A j \in Matching(language, versions) : runtimes[i].version <= runtimes[j].version

(* The first in the list of the newest: the sort is stable. *)
Latest(language, versions) ==
    CHOOSE i \in Matching(language, versions) :
        \A j \in Matching(language, versions) :
            \/ runtimes[j].version < runtimes[i].version
            \/ runtimes[j].version = runtimes[i].version /\ i <= j

Rejected(reason) == [status |-> "400", reason |-> reason]

(* The constructor of Job: an encoding it does not know becomes utf8. *)
Encoding(e) == IF e \in {"base64", "hex", "utf8"} THEN e ELSE "utf8"
Job(rt, files) ==
    [status |-> "job", runtime |-> rt,
     files |-> [i \in DOMAIN files |-> Encoding(files[i])]]

(* Mutant: the encoding is not looked at. *)
TextFile_Any(e) == TRUE
TextFile(e) == e = Undefined \/ e = "utf8"

(* A file is given by its encoding; "no content" stands for one whose content
   is not a string. *)
get_job(body) ==
    IF body.language = Undefined THEN Rejected("language")
    ELSE IF body.version = Undefined THEN Rejected("version")
    ELSE IF body.files = Undefined THEN Rejected("files")
    ELSE IF \E i \in DOMAIN body.files : body.files[i] = "no content"
    THEN Rejected("content")
    ELSE IF Matching(body.language, body.version) = {} THEN Rejected("unknown")
    ELSE LET rt == runtimes[Latest(body.language, body.version)]
         IN  IF /\ rt.language # "file"
                /\ ~\E i \in DOMAIN body.files : TextFile(body.files[i])
             THEN Rejected("utf8")
             ELSE Job(rt, body.files)

Execute(body) ==
    /\ stage = "serving"
    /\ request' = body
    /\ reply' = get_job(body)
    /\ UNCHANGED <<stage, bootVars, unread, config, runtimes>>

-----------------------------------------------------------------------------
Init ==
    /\ stage = "booting"
    /\ env \in Environments
    /\ installed \in SUBSET Packages
    /\ unread = installed
    /\ config = Undefined
    /\ runtimes = <<>>
    /\ request = Undefined /\ reply = Undefined

Next ==
    \/ LoadConfig
    \/ \E p \in unread : load_package(p)
    \/ Listen
    \/ \E body \in Requests : Execute(body)

Spec == Init /\ [][Next]_vars

-----------------------------------------------------------------------------
Started == stage \in {"loading", "serving"}

(* A server that starts has numbers for all its limits, in the overrides too,
   and can run at least one job, whatever the environment says
   (config.js:165-252). *)
StartedWithNumbers ==
    Started =>
        /\ \A o \in DOMAIN Default : config[o] \in Int
        /\ config.max_concurrent_jobs >= 1
        /\ \A l \in DOMAIN config.limit_overrides :
              /\ DOMAIN config.limit_overrides[l] \subseteq Limits
              /\ \A k \in DOMAIN config.limit_overrides[l] :
                    config.limit_overrides[l][k] \in Int

(* What a package offers: names, version and its own limits for each of its
   languages, straight from its metadata. *)
Offers(p) ==
    IF p.provides = Undefined
    THEN {[language |-> p.language, names |-> p.aliases \cup {p.language},
           version |-> p.version, limits |-> p.limits]}
    ELSE {[language |-> l.language, names |-> l.aliases \cup {l.language},
           version |-> p.version, limits |-> l.limits] :
              l \in {p.provides[i] : i \in DOMAIN p.provides}}
Offered == UNION {Offers(p) : p \in {q \in installed : q.marked}}
Candidates(body) ==
    {o \in Offered : body.language \in o.names /\ o.version \in body.version}

(* A job gets the newest runtime that any installed package offers under the
   requested name or alias, and "unknown" is answered only when none does,
   whichever order the packages were loaded in (runtime.js:136-163, 207-221). *)
NewestOfferedRuns ==
    request # Undefined =>
        /\ reply.status = "job" =>
              \E o \in Candidates(request) :
                  /\ o.language = reply.runtime.language
                  /\ o.version = reply.runtime.version
                  /\ \A c \in Candidates(request) : c.version <= o.version
        /\ reply.status = "400" =>
              (reply.reason = "unknown" => Candidates(request) = {})

(* The sources of a limit, the most specific first. *)
Sources(language, own) ==
    <<IF language \in DOMAIN config.limit_overrides
      THEN config.limit_overrides[language] ELSE <<>>,
      own, config>>

(* A runtime has each limit from the most specific source that sets it to
   something but 0: the overrides for its own language, then what its package
   says for that language, not for the package or a sibling, then the server
   (runtime.js:39-163). *)
MostSpecificLimit ==
    \A i \in DOMAIN runtimes : \E o \in Offered :
        LET rt == runtimes[i]
            sources == Sources(o.language, o.limits)
            sets(s, name) == name \in DOMAIN sources[s] /\ sources[s][name] # 0
        IN  /\ rt.language = o.language /\ rt.version = o.version
            /\ \A name \in Limits :
                  \/ \E s \in 1..3 :
                        /\ sets(s, name) /\ rt.limits[name] = sources[s][name]
                        /\ \A t \in 1..(s - 1) : ~sets(t, name)
                  \/ rt.limits[name] = 0 /\ \A s \in 1..3 : ~sets(s, name)

(* The stages of a job that get_job lets through have a file to run: execute()
   uses code_files[0] (job.js:341-400).  Jobs of the language "file" take
   any file, but can have none at all. *)
CodeFiles(job) ==
    {i \in DOMAIN job.files : job.runtime.language = "file" \/ job.files[i] = "utf8"}
AcceptedJobsHaveCode ==
    request # Undefined /\ reply.status = "job" /\ request.files # <<>>
        => CodeFiles(reply) # {}
=============================================================================
