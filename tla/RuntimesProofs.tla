--------------------------- MODULE RuntimesProofs ---------------------------
(***************************************************************************)
(* Proofs about Runtimes, for every environment, every set of packages in  *)
(* every order, and every request: what the list of runtimes holds, which  *)
(* of them a job gets, and with which limits.                              *)
(***************************************************************************)
EXTENDS Runtimes, TLAPS, WellFoundedInduction, SequenceTheorems

(* Before the server listens nobody asks, and before LoadConfig nothing is
   loaded. *)
StageInv ==
    /\ stage \in {"booting", "loading", "serving", "exited"}
    /\ stage # "serving" => request = Undefined
    /\ stage = "serving" => unread = {}
    /\ stage \in {"booting", "exited"} => unread = installed /\ runtimes = <<>>

MarkedOnes == {p \in installed : p.marked}
RuntimesIn(p) == {RuntimesOf(p)[i] : i \in DOMAIN RuntimesOf(p)}

(* The list holds what the marked packages offer, and all that those that are
   loaded offer. *)
ListInv ==
    /\ installed \subseteq Packages
    /\ unread \subseteq installed
    /\ Started =>
          runtimes \in Seq(UNION {RuntimesIn(p) : p \in MarkedOnes})
    /\ \A p \in MarkedOnes \ unread : \A rt \in RuntimesIn(p) :
          \E i \in DOMAIN runtimes : runtimes[i] = rt

(* The versions have an upper bound, as the list is finite. *)
BoundInv ==
    \E B \in Nat : \A i \in DOMAIN runtimes : runtimes[i].version <= B

(* The settings a server runs with. *)
ConfigInv == Started => DOMAIN config = Options

ServerInv == StartedWithNumbers /\ ConfigInv
RuntimesInv == StageInv /\ ListInv /\ BoundInv /\ ServerInv

-----------------------------------------------------------------------------
(* A set of numbers that is not empty has a least one. *)
LEMMA Least ==
    ASSUME NEW T \in SUBSET Nat, T # {}
    PROVE  \E x \in T : \A y \in T : x <= y
<1> DEFINE R == {ss \in Nat \X Nat : ss[1] < ss[2]}
<1>1. IsWellFoundedOn(R, Nat)
  BY NatLessThanWellFounded DEF OpToRel
<1>2. PICK x \in T : \A y \in T : ~(<<y, x>> \in R)
  BY <1>1, WFMin, Zenon
<1>3. ASSUME NEW y \in T PROVE x <= y
  <2>1. ~(<<y, x>> \in R)
    BY <1>2
  <2>2. ~(y < x)
    BY <2>1
  <2> QED
    BY <2>2
<1> QED
  BY <1>3

(* What a package adds to the list is a list of what it offers. *)
LEMMA RuntimesOfArray ==
    ASSUME NEW p \in Packages
    PROVE  RuntimesOf(p) \in Seq(RuntimesIn(p))
<1>1. CASE p.provides = Undefined
  <2>1. /\ RuntimesOf(p) = <<RuntimesOf(p)[1]>>
        /\ RuntimesOf(p)[1] \in RuntimesIn(p)
    BY <1>1 DEF RuntimesOf, RuntimesIn
  <2> HIDE DEF RuntimesOf, RuntimesIn
  <2> QED
    BY <2>1
<1>2. CASE p.provides # Undefined
  <2> DEFINE n == Len(p.provides)
  <2>1. n \in Nat /\ DOMAIN p.provides = 1..n
    BY <1>2, PackagesAssumption, LenProperties DEF IsArray
  <2>2. RuntimesOf(p) = [i \in 1..n |-> RuntimesOf(p)[i]]
    BY <1>2, <2>1 DEF RuntimesOf
  <2>3. \A i \in 1..n : RuntimesOf(p)[i] \in RuntimesIn(p)
    BY <2>2 DEF RuntimesIn
  <2> QED
    BY <2>1, <2>2, <2>3
<1> QED
  BY <1>1, <1>2

(* RuntimesOf as a set. *)
LEMMA Entries ==
    ASSUME NEW p
    PROVE  RuntimesIn(p) =
        IF p.provides = Undefined
        THEN {Runtime(p.language, p.aliases, p.version, Undefined, p.limits)}
        ELSE {Runtime(p.provides[i].language, p.provides[i].aliases, p.version,
                      p.language, p.provides[i].limits) :
                  i \in DOMAIN p.provides}
<1>1. CASE p.provides = Undefined
  <2> DEFINE only ==
        Runtime(p.language, p.aliases, p.version, Undefined, p.limits)
  <2>1. RuntimesOf(p) = <<only>>
    BY <1>1 DEF RuntimesOf
  <2> HIDE DEF only
  <2>2. DOMAIN <<only>> = {1} /\ <<only>>[1] = only
    OBVIOUS
  <2>3. RuntimesIn(p) = {only}
    BY <2>1, <2>2 DEF RuntimesIn
  <2> QED
    BY <1>1, <2>3 DEF only
<1>2. CASE p.provides # Undefined
  <2> DEFINE entry(i) ==
        Runtime(p.provides[i].language, p.provides[i].aliases, p.version,
                p.language, p.provides[i].limits)
  <2>1. RuntimesOf(p) = [i \in DOMAIN p.provides |-> entry(i)]
    BY <1>2 DEF RuntimesOf
  <2> HIDE DEF entry
  <2>2. RuntimesIn(p) = {entry(i) : i \in DOMAIN p.provides}
    BY <2>1 DEF RuntimesIn
  <2> QED
    BY <1>2, <2>2 DEF entry
<1> QED
  BY <1>1, <1>2

(* What it adds is what Offers promises of it, and the other way round. *)
LEMMA OfferOfRuntime ==
    ASSUME NEW p \in Packages, NEW rt \in RuntimesIn(p)
    PROVE  \E o \in Offers(p) :
              /\ rt.language = o.language /\ rt.version = o.version
              /\ \A name : Named(rt, name) <=> name \in o.names
              /\ rt.limits = compute_all_limits(o.language, o.limits)
<1>1. CASE p.provides = Undefined
  BY <1>1, Entries DEF Runtime, Offers, Named
<1>2. CASE p.provides # Undefined
  <2>1. PICK i \in DOMAIN p.provides :
          rt = Runtime(p.provides[i].language, p.provides[i].aliases, p.version,
                      p.language, p.provides[i].limits)
    BY <1>2, Entries
  <2> DEFINE l == p.provides[i]
             o == [language |-> l.language,
                   names |-> l.aliases \cup {l.language},
                   version |-> p.version, limits |-> l.limits]
  <2>2. o \in Offers(p)
    BY <1>2 DEF Offers
  <2>3. /\ rt.language = o.language /\ rt.version = o.version
        /\ \A name : Named(rt, name) <=> name \in o.names
        /\ rt.limits = compute_all_limits(o.language, o.limits)
    BY <2>1 DEF Runtime, Named
  <2> QED
    BY <2>2, <2>3
<1> QED
  BY <1>1, <1>2

LEMMA RuntimeOfOffer ==
    ASSUME NEW p \in Packages, NEW o \in Offers(p)
    PROVE  \E rt \in RuntimesIn(p) :
              /\ rt.language = o.language /\ rt.version = o.version
              /\ \A name : Named(rt, name) <=> name \in o.names
<1>1. CASE p.provides = Undefined
  <2> DEFINE rt ==
        Runtime(p.language, p.aliases, p.version, Undefined, p.limits)
  <2>1. rt \in RuntimesIn(p)
    BY <1>1, Entries
  <2>2. /\ rt.language = o.language /\ rt.version = o.version
        /\ \A name : Named(rt, name) <=> name \in o.names
    BY <1>1 DEF Runtime, Named, Offers
  <2> QED
    BY <2>1, <2>2
<1>2. CASE p.provides # Undefined
  <2>1. PICK i \in DOMAIN p.provides :
          o = [language |-> p.provides[i].language,
               names |-> p.provides[i].aliases \cup {p.provides[i].language},
               version |-> p.version, limits |-> p.provides[i].limits]
    BY <1>2 DEF Offers
  <2> DEFINE rt ==
        Runtime(p.provides[i].language, p.provides[i].aliases, p.version,
                p.language, p.provides[i].limits)
  <2>2. rt \in RuntimesIn(p)
    BY <1>2, Entries
  <2>3. /\ rt.language = o.language /\ rt.version = o.version
        /\ \A name : Named(rt, name) <=> name \in o.names
    BY <2>1 DEF Runtime, Named
  <2> QED
    BY <2>2, <2>3
<1> QED
  BY <1>1, <1>2

LEMMA VersionOfRuntime ==
    ASSUME NEW p \in Packages, NEW rt \in RuntimesIn(p)
    PROVE  rt.version = p.version
BY Entries DEF Runtime

LEMMA RuntimesInit == Init => RuntimesInv
BY DEF Init, RuntimesInv, StageInv, ListInv, BoundInv, ServerInv,
       StartedWithNumbers, Started, MarkedOnes, ConfigInv

(* Only settings that are numbers pass the validators. *)
LEMMA ConfigOK ==
    ASSUME LoadConfig
    PROVE  (StartedWithNumbers /\ ConfigInv)'
<1>1. CASE stage' = "loading"
  <2>1. /\ config' = [o \in Options |-> Setting(o)]
        /\ \A o \in Limits : LimitValid(Value(o))
        /\ JobsValid(Value("max_concurrent_jobs"))
        /\ validate_overrides(Overrides)
    BY <1>1 DEF LoadConfig
  <2>2. DOMAIN Default = Limits \cup {"max_concurrent_jobs"}
    BY DEF Default, Limits
  <2>3. /\ DOMAIN config' = Options
        /\ \A o \in DOMAIN Default : config'[o] = Value(o)
        /\ config'.limit_overrides = Overrides
    BY <2>1, <2>2 DEF Options, Setting, Limits
  <2>4. \A o \in DOMAIN Default : config'[o] \in Int
    BY <2>1, <2>2, <2>3
    DEF LimitValid, JobsValid, Value, parse_int, Default, Limits
  <2>5. config'.max_concurrent_jobs >= 1
    <3>1. /\ config'["max_concurrent_jobs"] = Value("max_concurrent_jobs")
          /\ config'["max_concurrent_jobs"] \in Int
      BY <2>2, <2>3, <2>4
    <3>2. Value("max_concurrent_jobs") > 0
      BY <2>1 DEF JobsValid
    <3> QED
      BY <3>1, <3>2
  <2>6. \A l \in DOMAIN Overrides : 
              /\ DOMAIN Overrides[l] \subseteq Limits
              /\ \A k \in DOMAIN Overrides[l] : Overrides[l][k] \in Int
    <3>1. CASE env.limit_overrides = Undefined
      BY <3>1 DEF Overrides
    <3>2. CASE env.limit_overrides # Undefined
      <4> DEFINE raw == env.limit_overrides
      <4>0. Overrides = parse_overrides(raw) /\ parse_overrides(raw) # Undefined
        BY <2>1, <3>2 DEF Overrides, validate_overrides
      <4> HIDE DEF raw
      <4>1. /\ Overrides = [l \in DOMAIN raw |->
                               [k \in DOMAIN raw[l] |-> parse_int(raw[l][k])]]
            /\ \A l \in DOMAIN raw : DOMAIN raw[l] \subseteq Limits
        BY <4>0 DEF parse_overrides
      <4>2. \A x : parse_int(x) # NaN => parse_int(x) \in Int
        BY DEF parse_int
      <4> QED
        BY <4>1, <4>2, <2>1 DEF validate_overrides, LimitValid
    <3> QED
      BY <3>1, <3>2
  <2> QED
    BY <2>3, <2>4, <2>5, <2>6 DEF StartedWithNumbers, ConfigInv
<1>2. CASE stage' = "exited"
  BY <1>2 DEF StartedWithNumbers, Started, ConfigInv
<1> QED
  BY <1>1, <1>2 DEF LoadConfig

(* A package that is loaded adds its runtimes at the end. *)
LEMMA LoadStep ==
    ASSUME RuntimesInv, NEW p \in unread, load_package(p)
    PROVE  ListInv' /\ BoundInv'
<1> DEFINE S == UNION {RuntimesIn(q) : q \in MarkedOnes}
<1>1. /\ unread' = unread \ {p}
      /\ UNCHANGED <<stage, installed, config>>
      /\ stage = "loading" /\ Started /\ Started'
      /\ runtimes' = IF p.marked THEN runtimes \o RuntimesOf(p) ELSE runtimes
  BY DEF load_package, bootVars, Started
<1>2. /\ MarkedOnes' = MarkedOnes
      /\ \A q : RuntimesIn(q)' = RuntimesIn(q)
      /\ S' = S
  <2>1. ASSUME NEW q
        PROVE  RuntimesIn(q)' = RuntimesIn(q)
    <3>1. config' = config
      BY <1>1
    <3> QED
      BY <3>1 DEF RuntimesIn, RuntimesOf, Runtime, compute_all_limits,
                  compute_single_limit
  <2>2. MarkedOnes' = MarkedOnes
    BY <1>1 DEF MarkedOnes
  <2>3. S' = S
    BY <2>1, <2>2
  <2> QED
    BY <2>1, <2>2, <2>3
<1>3. /\ p \in Packages /\ p \in installed
      /\ installed \subseteq Packages /\ unread \subseteq installed
      /\ runtimes \in Seq(S)
      /\ \A q \in MarkedOnes \ unread : \A rt \in RuntimesIn(q) :
            \E i \in DOMAIN runtimes : runtimes[i] = rt
  BY <1>1 DEF RuntimesInv, ListInv
<1>4. CASE p.marked
  <2> DEFINE add == RuntimesOf(p)
  <2>1. add \in Seq(RuntimesIn(p)) /\ RuntimesIn(p) \subseteq S
    BY <1>3, <1>4, RuntimesOfArray DEF MarkedOnes
  <2>2. RuntimesIn(p) = {add[i] : i \in DOMAIN add}
    BY DEF RuntimesIn
  <2> runtimes' = runtimes \o add
    BY <1>1, <1>4
  <2> HIDE DEF S, add
  <2>3. add \in Seq(S)
    BY <2>1
  <2>4. /\ runtimes' \in Seq(S)
        /\ DOMAIN runtimes = 1..Len(runtimes) /\ DOMAIN add = 1..Len(add)
        /\ DOMAIN runtimes' = 1..(Len(runtimes) + Len(add))
        /\ Len(runtimes) \in Nat /\ Len(add) \in Nat
    BY <1>3, <2>3, ConcatProperties, LenProperties
  <2>5. /\ \A i \in DOMAIN runtimes :
              i \in DOMAIN runtimes' /\ runtimes'[i] = runtimes[i]
        /\ \A i \in DOMAIN add :
              /\ Len(runtimes) + i \in DOMAIN runtimes'
              /\ runtimes'[Len(runtimes) + i] = add[i]
    BY <1>3, <2>3, <2>4, ConcatProperties
  <2>6. \A i \in DOMAIN runtimes' :
          \/ i \in DOMAIN runtimes /\ runtimes'[i] = runtimes[i]
          \/ \E k \in DOMAIN add : runtimes'[i] = add[k]
    BY <1>3, <2>3, <2>4, ConcatProperties
  <2>7. ASSUME NEW q \in MarkedOnes \ (unread \ {p}), NEW rt \in RuntimesIn(q)
        PROVE  \E i \in DOMAIN runtimes' : runtimes'[i] = rt
    <3>1. CASE q = p
      BY <3>1, <2>2, <2>5
    <3>2. CASE q # p
      <4>1. PICK i \in DOMAIN runtimes : runtimes[i] = rt
        BY <1>3, <3>2
      <4> QED
        BY <4>1, <2>5
    <3> QED
      BY <3>1, <3>2
  <2>8. ListInv'
    BY <1>1, <1>2, <1>3, <2>4, <2>7 DEF ListInv, S
  <2>9. BoundInv'
    <3>1. PICK B \in Nat : \A i \in DOMAIN runtimes : runtimes[i].version <= B
      BY DEF RuntimesInv, BoundInv
    <3>2. p.version \in Nat /\ \A k \in DOMAIN add : add[k].version = p.version
      BY <1>3, <2>2, VersionOfRuntime, PackagesAssumption
    <3> DEFINE C == B + p.version
    <3>3. C \in Nat /\ B <= C /\ p.version <= C
      BY <3>2
    <3>4. \A i \in DOMAIN runtimes : runtimes[i].version \in Nat
      BY <1>3, VersionOfRuntime, PackagesAssumption, LenProperties
      DEF S, MarkedOnes
    <3> HIDE DEF C
    <3>5. \A i \in DOMAIN runtimes' : runtimes'[i].version <= C
      BY <2>6, <3>1, <3>2, <3>3, <3>4
    <3> QED
      BY <3>3, <3>5 DEF BoundInv
  <2> QED
    BY <2>8, <2>9
<1>5. CASE ~p.marked
  <2>1. runtimes' = runtimes
    BY <1>1, <1>5
  <2>2. BoundInv'
    BY <2>1 DEF RuntimesInv, BoundInv
  <2>3. MarkedOnes \ unread' = MarkedOnes \ unread
    BY <1>1, <1>5 DEF MarkedOnes
  <2>4. ListInv'
    BY <1>1, <1>2, <1>3, <2>1, <2>3 DEF ListInv
  <2> QED
    BY <2>2, <2>4
<1> QED
  BY <1>4, <1>5

(* Each step keeps RuntimesInv. *)
LEMMA RuntimesStep == RuntimesInv /\ [Next]_vars => RuntimesInv'
<1> SUFFICES ASSUME RuntimesInv, [Next]_vars PROVE RuntimesInv'
    OBVIOUS
<1>1. CASE LoadConfig
  <2>1. /\ runtimes = <<>> /\ unread = installed
        /\ UNCHANGED <<installed, unread, runtimes, request>>
        /\ stage = "booting" /\ stage' \in {"loading", "exited"}
    BY <1>1 DEF LoadConfig, bootVars, RuntimesInv, StageInv
  <2>2. StageInv'
    BY <2>1 DEF RuntimesInv, StageInv
  <2>3. ListInv'
    BY <2>1 DEF RuntimesInv, ListInv, MarkedOnes
  <2>4. BoundInv'
    BY <2>1 DEF BoundInv
  <2> QED
    BY <1>1, <2>2, <2>3, <2>4, ConfigOK DEF RuntimesInv, ServerInv
<1>2. ASSUME NEW p \in unread, load_package(p) PROVE RuntimesInv'
  <2>1. /\ UNCHANGED <<stage, installed, config, request>> /\ stage = "loading"
    BY <1>2 DEF load_package, bootVars
  <2>2. StageInv'
    BY <2>1 DEF RuntimesInv, StageInv
  <2>3. ServerInv'
    BY <2>1 DEF RuntimesInv, ServerInv, StartedWithNumbers, ConfigInv, Started
  <2> QED
    BY <1>2, <2>2, <2>3, LoadStep DEF RuntimesInv
<1>3. ASSUME UNCHANGED <<installed, unread, runtimes, config>>, StageInv',
             Started <=> Started'
      PROVE  RuntimesInv'
  <2>1. ListInv'
    <3>1. ASSUME NEW q
          PROVE  RuntimesIn(q)' = RuntimesIn(q)
      BY <1>3 DEF RuntimesIn, RuntimesOf, Runtime, compute_all_limits,
                  compute_single_limit
    <3> QED
      BY <1>3, <3>1 DEF RuntimesInv, ListInv, MarkedOnes
  <2>2. BoundInv'
    BY <1>3 DEF RuntimesInv, BoundInv
  <2>3. ServerInv'
    BY <1>3 DEF RuntimesInv, ServerInv, StartedWithNumbers, ConfigInv
  <2> QED
    BY <1>3, <2>1, <2>2, <2>3 DEF RuntimesInv
<1>4. CASE Listen
  BY <1>3, <1>4 DEF Listen, bootVars, RuntimesInv, StageInv, Started
<1>5. ASSUME NEW body \in Requests, Execute(body) PROVE RuntimesInv'
  BY <1>3, <1>5 DEF Execute, bootVars, RuntimesInv, StageInv, Started
<1>6. CASE UNCHANGED vars
  BY <1>3, <1>6 DEF vars, bootVars, RuntimesInv, StageInv, Started
<1> QED
  BY <1>1, <1>2, <1>4, <1>5, <1>6 DEF Next

LEMMA RuntimesInvariant == Spec => []RuntimesInv
BY RuntimesInit, RuntimesStep, PTL DEF Spec

(* Whatever the environment says, a server that starts has numbers for all its
   limits and can run a job: the invariant of the run runtimes
   (config.js:165-252). *)
THEOREM ServersStartWithNumbers == Spec => []StartedWithNumbers
<1>1. RuntimesInv => StartedWithNumbers
  BY DEF RuntimesInv, ServerInv
<1> QED
  BY <1>1, RuntimesInvariant, PTL

-----------------------------------------------------------------------------
(* What is in the list was offered, and carries its computed limits. *)
LEMMA ListedWasOffered ==
    ASSUME RuntimesInv, NEW i \in DOMAIN runtimes
    PROVE  /\ Started
           /\ i \in Nat /\ runtimes[i].version \in Nat
           /\ \E o \in Offered :
                /\ runtimes[i].language = o.language
                /\ runtimes[i].version = o.version
                /\ \A name : Named(runtimes[i], name) <=> name \in o.names
                /\ runtimes[i].limits = compute_all_limits(o.language, o.limits)
<1>1. Started
  BY DEF RuntimesInv, StageInv, Started
<1>2. runtimes \in Seq(UNION {RuntimesIn(p) : p \in MarkedOnes})
  BY <1>1 DEF RuntimesInv, ListInv
<1>3. i \in Nat /\ runtimes[i] \in UNION {RuntimesIn(p) : p \in MarkedOnes}
  BY <1>2, LenProperties
<1>4. PICK p \in MarkedOnes : runtimes[i] \in RuntimesIn(p)
  BY <1>3
<1>5. p \in Packages /\ Offers(p) \subseteq Offered
  BY DEF RuntimesInv, ListInv, MarkedOnes, Offered
<1>6. runtimes[i].version \in Nat
  BY <1>4, <1>5, VersionOfRuntime, PackagesAssumption
<1> QED
  BY <1>1, <1>3, <1>4, <1>5, <1>6, OfferOfRuntime

(* When the server listens, every offer of an installed package is there. *)
LEMMA OfferedIsListed ==
    ASSUME RuntimesInv, stage = "serving", NEW o \in Offered
    PROVE  \E i \in DOMAIN runtimes :
              /\ runtimes[i].language = o.language
              /\ runtimes[i].version = o.version
              /\ \A name : Named(runtimes[i], name) <=> name \in o.names
<1>1. PICK p \in MarkedOnes : o \in Offers(p)
  BY DEF Offered, MarkedOnes
<1>2. p \in Packages /\ p \in MarkedOnes \ unread
  BY DEF RuntimesInv, StageInv, ListInv, MarkedOnes
<1>3. PICK rt \in RuntimesIn(p) :
          /\ rt.language = o.language /\ rt.version = o.version
          /\ \A name : Named(rt, name) <=> name \in o.names
  BY <1>1, <1>2, RuntimeOfOffer
<1> QED
  BY <1>2, <1>3 DEF RuntimesInv, ListInv

(* The choice of Latest exists: of the finitely many runtimes that match there
   is a newest version, and of those with that version a first. *)
LEMMA LatestIsNewest ==
    ASSUME RuntimesInv, NEW language, NEW versions,
           Matching(language, versions) # {}
    PROVE  /\ Latest(language, versions) \in Matching(language, versions)
           /\ \A j \in Matching(language, versions) :
                 runtimes[j].version <=
                     runtimes[Latest(language, versions)].version
<1> DEFINE M == Matching(language, versions)
<1>1. M \subseteq DOMAIN runtimes
  BY DEF Matching
<1>2. \A j \in M : j \in Nat /\ runtimes[j].version \in Nat
  BY <1>1, ListedWasOffered
<1>3. PICK B \in Nat : \A j \in M : runtimes[j].version <= B
  BY <1>1 DEF RuntimesInv, BoundInv
<1> HIDE DEF M
<1>4. PICK v \in Nat : /\ \E j \in M : runtimes[j].version = v
                       /\ \A j \in M : runtimes[j].version <= v
  <2> DEFINE T == {B - runtimes[j].version : j \in M}
  <2>1. T \in SUBSET Nat /\ T # {}
    BY <1>2, <1>3 DEF M
  <2>2. PICK x \in T : \A y \in T : x <= y
    BY <2>1, Least
  <2>3. PICK i \in M : x = B - runtimes[i].version
    BY <2>2
  <2>4. \A j \in M : B - runtimes[i].version <= B - runtimes[j].version
    BY <2>2, <2>3
  <2>5. \A j \in M : runtimes[j].version <= runtimes[i].version
    BY <1>2, <1>3, <2>4
  <2> QED
    BY <1>2, <2>5
<1>5. PICK i \in M : /\ runtimes[i].version = v
                     /\ \A j \in M : runtimes[j].version = v => i <= j
  <2> DEFINE T == {j \in M : runtimes[j].version = v}
  <2>1. T \in SUBSET Nat /\ T # {}
    BY <1>2, <1>4
  <2>2. PICK x \in T : \A y \in T : x <= y
    BY <2>1, Least
  <2> QED
    BY <2>2
<1> DEFINE First(k) == \A j \in M :
               \/ runtimes[j].version < runtimes[k].version
               \/ runtimes[j].version = runtimes[k].version /\ k <= j
<1>6. First(i)
  BY <1>2, <1>4, <1>5
<1>7. Latest(language, versions) = CHOOSE k \in M : First(k)
  BY Zenon DEF Latest, M
<1>8. Latest(language, versions) \in M /\ First(Latest(language, versions))
  BY <1>5, <1>6, <1>7
<1> QED
  BY <1>2, <1>8 DEF M

(* Who asks for a language finds a runtime exactly when a package offers it. *)
LEMMA CandidatesMatch ==
    ASSUME RuntimesInv, stage = "serving", NEW body
    PROVE  /\ \A i \in Matching(body.language, body.version) :
                 \E o \in Candidates(body) :
                    /\ o.language = runtimes[i].language
                    /\ o.version = runtimes[i].version
           /\ \A o \in Candidates(body) :
                 \E i \in Matching(body.language, body.version) :
                    runtimes[i].version = o.version
<1>1. ASSUME NEW i \in Matching(body.language, body.version)
      PROVE  \E o \in Candidates(body) : /\ o.language = runtimes[i].language
                                         /\ o.version = runtimes[i].version
  <2>1. /\ i \in DOMAIN runtimes
        /\ Named(runtimes[i], body.language)
        /\ runtimes[i].version \in body.version
    BY DEF Matching
  <2> QED
    BY <2>1, ListedWasOffered DEF Candidates
<1>2. ASSUME NEW o \in Candidates(body)
      PROVE  \E i \in Matching(body.language, body.version) :
                    runtimes[i].version = o.version
  <2>1. o \in Offered /\ body.language \in o.names /\ o.version \in body.version
    BY DEF Candidates
  <2>2. PICK i \in DOMAIN runtimes :
              /\ runtimes[i].version = o.version
              /\ Named(runtimes[i], body.language)
    BY <2>1, OfferedIsListed
  <2> QED
    BY <2>1, <2>2 DEF Matching
<1> QED
  BY <1>1, <1>2

(* NewestOfferedRuns and AcceptedJobsHaveCode for one request. *)
NewestFor(body, answer) ==
    /\ answer.status = "job" =>
          \E o \in Candidates(body) :
              /\ o.language = answer.runtime.language
              /\ o.version = answer.runtime.version
              /\ \A c \in Candidates(body) : c.version <= o.version
    /\ answer.status = "400" =>
          (answer.reason = "unknown" => Candidates(body) = {})

(* The cases of get_job, which has one more reason to refuse, "unknown". *)
Reasons == {"language", "version", "files", "content", "utf8"}

LEMMA Answers ==
    ASSUME NEW body
    PROVE  LET M == Matching(body.language, body.version)
               rt == runtimes[Latest(body.language, body.version)]
           IN  \/ \E reason \in Reasons : get_job(body) = Rejected(reason)
               \/ get_job(body) = Rejected("unknown") /\ M = {}
               \/ /\ get_job(body) = Job(rt, body.files) /\ M # {}
                  /\ body.files # Undefined
                  /\ \/ rt.language = "file"
                     \/ \E i \in DOMAIN body.files : TextFile(body.files[i])
BY Zenon DEF get_job, Reasons

(* get_job on a server that listens. *)
LEMMA AnswerIsNewest ==
    ASSUME RuntimesInv, stage = "serving", NEW body
    PROVE  NewestFor(body, get_job(body))
<1> DEFINE M == Matching(body.language, body.version)
           i == Latest(body.language, body.version)
<1>1. CASE \E reason \in Reasons : get_job(body) = Rejected(reason)
  BY <1>1 DEF Rejected, NewestFor, Reasons
<1>2. CASE get_job(body) = Rejected("unknown") /\ M = {}
  <2>1. Candidates(body) = {}
    BY <1>2, CandidatesMatch
  <2> QED
    BY <1>2, <2>1 DEF Rejected, NewestFor
<1>3. CASE get_job(body) = Job(runtimes[i], body.files) /\ M # {}
  <2>1. i \in M /\ \A j \in M : runtimes[j].version <= runtimes[i].version
    BY <1>3, LatestIsNewest
  <2>2. PICK o \in Candidates(body) : /\ o.language = runtimes[i].language
                                      /\ o.version = runtimes[i].version
    BY <2>1, CandidatesMatch
  <2>3. \A c \in Candidates(body) : c.version <= o.version
    BY <2>1, <2>2, CandidatesMatch
  <2>4. /\ get_job(body).status = "job"
        /\ get_job(body).runtime = runtimes[i]
    BY <1>3 DEF Job
  <2> QED
    BY <2>2, <2>3, <2>4 DEF NewestFor
<1> QED
  BY <1>1, <1>2, <1>3, Answers

CodeFor(body, answer) ==
    answer.status = "job" /\ body.files # <<>> => CodeFiles(answer) # {}

(* A list without an element is the empty list. *)
LEMMA FirstFile ==
    ASSUME NEW a, IsArray(a), a # <<>>
    PROVE  1 \in DOMAIN a
BY LenProperties, EmptySeq DEF IsArray

(* Only files that read as text pass, unless the language is "file". *)
LEMMA AnswerHasCode ==
    ASSUME NEW body \in Requests
    PROVE  CodeFor(body, get_job(body))
<1> DEFINE rt == runtimes[Latest(body.language, body.version)]
<1>1. CASE \E reason \in Reasons \cup {"unknown"} :
              get_job(body) = Rejected(reason)
  BY <1>1 DEF Rejected, CodeFor
<1>2. CASE /\ get_job(body) = Job(rt, body.files)
           /\ body.files # Undefined
           /\ \/ rt.language = "file"
              \/ \E i \in DOMAIN body.files : TextFile(body.files[i])
  <2> DEFINE job == get_job(body)
  <2>1. /\ job.runtime = rt
        /\ DOMAIN job.files = DOMAIN body.files
        /\ \A i \in DOMAIN body.files : job.files[i] = Encoding(body.files[i])
    BY <1>2 DEF Job
  <2>2. CASE rt.language = "file"
    <3>1. body.files # <<>> => 1 \in DOMAIN body.files
      BY <1>2, FirstFile, RequestsAssumption
    <3> QED
      BY <2>1, <2>2, <3>1 DEF CodeFiles, CodeFor
  <2>3. CASE \E i \in DOMAIN body.files : TextFile(body.files[i])
    <3>1. PICK i \in DOMAIN body.files : TextFile(body.files[i])
      BY <2>3
    <3>2. Encoding(body.files[i]) = "utf8"
      BY <3>1, UndefinedAssumption DEF TextFile, Encoding
    <3> QED
      BY <2>1, <3>1, <3>2 DEF CodeFiles, CodeFor
  <2> QED
    BY <1>2, <2>2, <2>3
<1> QED
  BY <1>1, <1>2, Answers

(* Nothing that an answer depends on changes afterwards. *)
AnswerInv ==
    request # Undefined =>
        /\ stage = "serving"
        /\ NewestFor(request, reply) /\ CodeFor(request, reply)

LEMMA AnswerStep == RuntimesInv /\ AnswerInv /\ [Next]_vars => AnswerInv'
<1> SUFFICES ASSUME RuntimesInv, AnswerInv, [Next]_vars PROVE AnswerInv'
    OBVIOUS
<1>1. ASSUME NEW body \in Requests, Execute(body) PROVE AnswerInv'
  <2>1. /\ stage = "serving" /\ stage' = stage /\ installed' = installed
        /\ request' = body /\ reply' = get_job(body)
    BY <1>1 DEF Execute, bootVars
  <2>2. NewestFor(body, get_job(body)) /\ CodeFor(body, get_job(body))
    BY <2>1, AnswerIsNewest, AnswerHasCode
  <2>3. NewestFor(request, reply)' /\ CodeFor(request, reply)'
    <3> DEFINE answer == get_job(body)
    <3>1. reply' = answer /\ NewestFor(body, answer) /\ CodeFor(body, answer)
      BY <2>1, <2>2
    <3> HIDE DEF answer
    <3> QED
      BY <2>1, <3>1
      DEF NewestFor, CodeFor, CodeFiles, Candidates, Offered, Offers
  <2> QED
    BY <2>1, <2>3 DEF AnswerInv
<1>2. ASSUME UNCHANGED <<installed, request, reply>>,
             stage = "serving" => stage' = "serving"
      PROVE  AnswerInv'
  BY <1>2
  DEF AnswerInv, NewestFor, CodeFor, CodeFiles, Candidates, Offered, Offers
<1>3. CASE LoadConfig
  BY <1>2, <1>3 DEF LoadConfig, bootVars
<1>4. CASE \E p \in unread : load_package(p)
  BY <1>2, <1>4 DEF load_package, bootVars
<1>5. CASE Listen
  BY <1>2, <1>5 DEF Listen, bootVars
<1>6. CASE UNCHANGED vars
  BY <1>2, <1>6 DEF vars, bootVars
<1> QED
  BY <1>1, <1>3, <1>4, <1>5, <1>6 DEF Next

LEMMA AnswerInvariant == Spec => []AnswerInv
<1>1. Init => AnswerInv
  BY DEF Init, AnswerInv
<1> QED
  BY <1>1, AnswerStep, RuntimesInvariant, PTL DEF Spec

(* The order in which packages are loaded does not matter: a request gets the
   newest version any of them offers under that name, and "unknown" only when
   none offers it (runtime.js:136-163, 207-221). *)
THEOREM NewestIsChosen == Spec => []NewestOfferedRuns
<1>1. AnswerInv => NewestOfferedRuns
  BY DEF AnswerInv, NewestFor, NewestOfferedRuns
<1> QED
  BY <1>1, AnswerInvariant, PTL

(* A job that get_job lets through with files has one it can run
   (playground.js:50-57, job.js:341-400). *)
THEOREM JobsHaveCode == Spec => []AcceptedJobsHaveCode
<1>1. AnswerInv => AcceptedJobsHaveCode
  BY DEF AnswerInv, CodeFor, AcceptedJobsHaveCode
<1> QED
  BY <1>1, AnswerInvariant, PTL

-----------------------------------------------------------------------------
(* Every runtime has each limit from the override for its language, else from
   the metadata of its language, else from the server: of these the first that
   is not 0 (runtime.js:39-163). *)
THEOREM LimitsAreTheMostSpecific == Spec => []MostSpecificLimit
<1>1. RuntimesInv => MostSpecificLimit
  <2> SUFFICES ASSUME RuntimesInv, NEW i \in DOMAIN runtimes
               PROVE  \E o \in Offered :
        LET rt == runtimes[i]
            sources == Sources(o.language, o.limits)
            sets(s, name) == name \in DOMAIN sources[s] /\ sources[s][name] # 0
        IN  /\ rt.language = o.language /\ rt.version = o.version
            /\ \A name \in Limits :
                  \/ \E s \in 1..3 :
                        /\ sets(s, name) /\ rt.limits[name] = sources[s][name]
                        /\ \A t \in 1..(s - 1) : ~sets(t, name)
                  \/ rt.limits[name] = 0 /\ \A s \in 1..3 : ~sets(s, name)
    BY DEF MostSpecificLimit
  <2>1. PICK o \in Offered :
            /\ runtimes[i].language = o.language
            /\ runtimes[i].version = o.version
            /\ runtimes[i].limits = compute_all_limits(o.language, o.limits)
    BY ListedWasOffered
  <2>2. Limits \subseteq DOMAIN config
    BY ListedWasOffered
    DEF RuntimesInv, ServerInv, ConfigInv, Options, Default, Limits
  <2> DEFINE rt == runtimes[i]
             sources == Sources(o.language, o.limits)
             sets(s, name) == name \in DOMAIN sources[s] /\ sources[s][name] # 0
  <2>3. ASSUME NEW name \in Limits
        PROVE  \/ \E s \in 1..3 :
                        /\ sets(s, name) /\ rt.limits[name] = sources[s][name]
                        /\ \A t \in 1..(s - 1) : ~sets(t, name)
               \/ rt.limits[name] = 0 /\ \A s \in 1..3 : ~sets(s, name)
    <3>1. rt.limits[name] = compute_single_limit(o.language, name, o.limits)
      BY <2>1 DEF compute_all_limits
    <3>2. /\ sets(1, name) <=> /\ o.language \in DOMAIN config.limit_overrides
                               /\ Truthy(config.limit_overrides[o.language],
                                         name)
          /\ sets(1, name) => sources[1] = config.limit_overrides[o.language]
      BY DEF Sources, Truthy
    <3>3. sources[2] = o.limits /\ sources[3] = config
      BY DEF Sources
    <3>4. sets(2, name) <=> Truthy(o.limits, name)
      BY <3>3 DEF Truthy
    <3>5. sets(3, name) <=> config[name] # 0
      BY <3>3, <2>2
    <3> HIDE DEF sources
    <3>6. CASE sets(1, name)
      BY <3>1, <3>2, <3>6 DEF compute_single_limit
    <3>7. CASE ~sets(1, name) /\ sets(2, name)
      BY <3>1, <3>2, <3>3, <3>4, <3>7 DEF compute_single_limit
    <3>8. CASE ~sets(1, name) /\ ~sets(2, name)
      <4>1. rt.limits[name] = sources[3][name]
        BY <3>1, <3>2, <3>3, <3>4, <3>8 DEF compute_single_limit
      <4> QED
        BY <4>1, <3>3, <3>5, <3>8
    <3> QED
      BY <3>6, <3>7, <3>8
  <2> QED
    BY <2>1, <2>3
<1> QED
  BY <1>1, RuntimesInvariant, PTL
=============================================================================
