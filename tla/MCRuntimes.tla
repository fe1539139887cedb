----------------------------- MODULE MCRuntimes -----------------------------
(***************************************************************************)
(* A small instance of Runtimes for TLC.                                   *)
(***************************************************************************)
EXTENDS Runtimes

None == <<>>

(* Unset, sound, and unsound values, and overrides that override each other. *)
MCEnvironments ==
    [max_process_count : {Undefined, "3x", "x"},
     output_max_size : {Undefined, "0"},
     max_concurrent_jobs : {Undefined, "0"},
     limit_overrides :
        {Undefined, Malformed, None,
         [js |-> [max_process_count |-> "7"], java |-> [output_max_size |-> "-1"]],
         [js |-> [output_max_size |-> "x"]],
         [js |-> [cpu |-> "1"]]}]

Package(language, version, aliases, provides, limits) ==
    [language |-> language, version |-> version, aliases |-> aliases,
     provides |-> provides, limits |-> limits, marked |-> TRUE]
Lang(language, aliases, limits) ==
    [language |-> language, aliases |-> aliases, limits |-> limits]

(* A package that provides two languages, one that is only a language, two
   versions of a third, one of them not completely installed, an alias that
   two packages claim, and the language whose files need not be text. *)
MCPackages ==
    {Package("node", 2, {}, <<Lang("js", {"es"}, [max_process_count |-> 5]),
                              Lang("ts", {}, [output_max_size |-> 9])>>,
             [max_process_count |-> 8]),
     Package("js", 1, {}, Undefined, [output_max_size |-> 6]),
     Package("java", 1, {"es"}, Undefined, None),
     [Package("java", 2, {}, Undefined, None) EXCEPT !.marked = FALSE],
     Package("file", 1, {}, Undefined, None)}

Body(language, version, files) ==
    [language |-> language, version |-> version, files |-> files]
MCRequests ==
    {Body(Undefined, {1}, <<>>), Body("js", Undefined, <<>>),
     Body("js", {1}, Undefined), Body("js", {1}, <<"no content">>)}
    \cup
    {Body(l, v, f) : l \in {"js", "es", "ts", "java", "node", "file"},
                     v \in {{}, {1}, {1, 2}},
                     f \in {<<>>, <<"base64">>, <<"latin1", "hex">>,
                            <<"hex", Undefined>>}}
=============================================================================
