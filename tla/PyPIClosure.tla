----------------------------- MODULE PyPIClosure -----------------------------
(***************************************************************************)
(* e3.python.pypi: PyPIClosure.requirements_closure and file_closure, that *)
(* resolve requirements for each platform over what PyPI keeps: the links  *)
(* of a project, the candidates of an identifier, the requirements of a    *)
(* candidate and the files, in a directory that outlives the process.      *)
(*                                                                         *)
(* The resolver (resolvelib) is external: it pins identifiers in any order *)
(* and goes back when two requirements conflict.  An identifier is a name  *)
(* and an extra ("" for none); a version has one file.                     *)
(***************************************************************************)
EXTENDS Naturals, FiniteSets

CONSTANTS Projects, Extras, Versions,  \* Versions[name]: what the registry has
          Kind,                     \* <<name, version>> -> "plain", "yanked", "pre"
          Requires,                 \* <<name, version>> -> requirements
          Required,                 \* the requirements added to the closure
          LocalWheels,              \* <<name, version>> of the wheels added to it
          AllowedYanked,
          AllowedPrerelease,        \* kept by PyPIClosure, which does not give it to PyPI
          Platforms, Works,         \* Works[<<name, version>>]: where its file works
          MaxClosures, MaxNetworkFailures

\* A requirement: of a name with an extra, some versions; with a marker, on some
\* platforms and for an extra of the package that requires it.
Requirement(name, extra, versions, on, for) ==
    [name |-> name, extra |-> extra, versions |-> versions, on |-> on, for |-> for]

VARIABLES links,          \* PyPI.cache: name -> versions
          candidate_cache,\* identifier -> versions
          reqs,           \* <<identifier, version>> -> PyPICandidate._reqs
          resources,      \* <<name, version>> -> the file in cache_dir
          closure,        \* the call under way
          spoiled,        \* a call of this object has met a failure
          closures, network_failures

pypiVars == <<links, candidate_cache, reqs, resources, closure, spoiled,
              closures, network_failures>>

Identifiers == Projects \X Extras
AllVersions == UNION {Versions[n] : n \in Projects}
Files == Projects \X AllVersions
RequirementType ==
    [name : Projects, extra : Extras, versions : SUBSET Nat, on : SUBSET Platforms, for : Extras]

\* A wheel that is added takes the place of another one of its name.
ASSUME PyPIAssumption ==
    /\ IsFiniteSet(Projects) /\ IsFiniteSet(Extras) /\ "none" \notin Projects /\ "" \in Extras
    /\ Versions \in [Projects -> SUBSET (Nat \ {0})]
    /\ Requires \in [Files -> SUBSET RequirementType] /\ Required \subseteq RequirementType
    /\ LocalWheels \subseteq Files
    /\ \A w, x \in LocalWheels : w[1] = x[1] => w = x

Unknown == {0}            \* not a set of versions
Unread == {Requirement("none", "", {}, {}, "")}
NoPins == [i \in Identifiers |-> 0]
NoClosure == [pc |-> "idle", platform |-> "none", left |-> {}, pins |-> NoPins,
              at |-> <<>>, locked |-> {}, files |-> {}]

NewObject ==
    /\ candidate_cache' = [i \in Identifiers |-> Unknown]
    /\ reqs' = [c \in Identifiers \X AllVersions |-> Unread]
    /\ spoiled' = FALSE /\ closure' = NoClosure

\* add_wheel: the local wheel is the one link of its name.
WithWheels(cache) ==
    [n \in Projects |-> IF \E w \in LocalWheels : w[1] = n
                     THEN {w[2] : w \in {x \in LocalWheels : x[1] = n}} ELSE cache[n]]

PyPIInit ==
    /\ links = WithWheels([n \in Projects |-> Unknown])
    /\ candidate_cache = [i \in Identifiers |-> Unknown]
    /\ reqs = [c \in Identifiers \X AllVersions |-> Unread]
    /\ resources = [f \in Files |-> "none"]
    /\ closure = NoClosure /\ spoiled = FALSE
    /\ closures = 0 /\ network_failures = 0

StartClosure ==
    /\ closure.pc \in {"idle", "returned", "raised"} /\ closures < MaxClosures
    /\ closures' = closures + 1
    /\ \E p \in Platforms :
          closure' = [NoClosure EXCEPT !.pc = "resolve", !.platform = p,
                                       !.left = Platforms \ {p}]
    /\ UNCHANGED <<links, candidate_cache, reqs, resources, spoiled, network_failures>>

Raise == [closure EXCEPT !.pc = "raised"]
NetworkFails == /\ network_failures < MaxNetworkFailures
                /\ network_failures' = network_failures + 1

-----------------------------------------------------------------------------
(* PyPICandidate.requirements.                                             *)

\* What a candidate of an identifier requires on a platform.
DependenciesOf(known, i, v, platform) ==
    LET here == {r \in known : platform \in r.on}
    IN  IF i[2] = "" THEN {r \in here : r.for = ""}
        ELSE {r \in here : r.for # "" /\ r.for = i[2]}
             \cup {Requirement(i[1], "", {v}, Platforms, "")}

Pinned == {i \in Identifiers : closure.pins[i] # 0}
Active ==
    Required \cup UNION {DependenciesOf(reqs[<<i, closure.pins[i]>>], i, closure.pins[i],
                                        closure.platform) : i \in Pinned}
OnIdentifier(i) == {r \in Active : <<r.name, r.extra>> = i}
\* Variant: one requirement is enough.
SatisfiesSome(v, i) == \E r \in OnIdentifier(i) : v \in r.versions

Satisfies(v, i) == \A r \in OnIdentifier(i) : v \in r.versions
ToPin == {i \in Identifiers \ Pinned : OnIdentifier(i) # {}}
Resolving == closure.pc = "resolve" /\ \A i \in Pinned : Satisfies(closure.pins[i], i)

\* PyPI.fetch_candidates, for the PyPI of a PyPIClosure: made without
\* allowed_prerelease, it discards all pre-releases.
Allowed(name, v) ==
    /\ Kind[<<name, v>>] = "yanked" => name \in AllowedYanked
    /\ Kind[<<name, v>>] # "pre"

\* The candidates of an identifier, that are first set to none.
FetchCandidates(i) ==
    /\ Resolving /\ i \in ToPin /\ candidate_cache[i] = Unknown
    /\ LET found == IF links[i[1]] = Unknown THEN Versions[i[1]] ELSE links[i[1]]
       IN  \/ /\ links' = [links EXCEPT ![i[1]] = found]
              /\ candidate_cache' = [candidate_cache EXCEPT ![i] = {v \in found : Allowed(i[1], v)}]
              /\ UNCHANGED <<closure, spoiled, network_failures>>
           \/ /\ links[i[1]] = Unknown /\ NetworkFails
              /\ candidate_cache' = [candidate_cache EXCEPT ![i] = {}]
              /\ closure' = Raise /\ spoiled' = TRUE /\ UNCHANGED links
    /\ UNCHANGED <<reqs, resources, closures>>

\* find_matches, and the candidate the resolver takes.
Pin(i) ==
    /\ Resolving /\ i \in ToPin /\ candidate_cache[i] # Unknown
    /\ \/ \E v \in candidate_cache[i] :
             /\ Satisfies(v, i)
             /\ closure' = [closure EXCEPT !.pins[i] = v, !.pc = "read", !.at = <<i, v>>]
       \/ /\ \A v \in candidate_cache[i] : ~Satisfies(v, i)
          /\ closure' = IF Pinned = {} THEN Raise
                        ELSE [closure EXCEPT !.pc = "conflict"]
    /\ UNCHANGED <<links, candidate_cache, reqs, resources, spoiled, closures, network_failures>>

\* _reqs is set to none before the file is downloaded and read.
BeforeReading == {}

\* A file that is there is not downloaded again; what is there after an answer
\* that is an error, or after a crash, is not a wheel.
ReadRequirements ==
    LET candidate == closure.at
        f == <<candidate[1][1], candidate[2]>>
    IN  /\ closure.pc = "read"
        /\ \/ /\ reqs[candidate] # Unread \/ resources[f] \in {"none", "whole"}
              /\ resources' = [resources EXCEPT ![f] = IF reqs[candidate] # Unread THEN @ ELSE "whole"]
              /\ reqs' = [reqs EXCEPT ![candidate] = IF @ # Unread THEN @ ELSE Requires[f]]
              /\ closure' = [closure EXCEPT !.pc = "resolve"]
              /\ UNCHANGED <<spoiled, network_failures>>
           \/ /\ reqs[candidate] = Unread
              /\ \/ resources[f] = "none" /\ NetworkFails
                    /\ \E left \in {"none", "bad"} : resources' = [resources EXCEPT ![f] = left]
                 \/ resources[f] = "bad" /\ UNCHANGED <<resources, network_failures>>
              /\ reqs' = [reqs EXCEPT ![candidate] = BeforeReading]
              /\ closure' = Raise /\ spoiled' = TRUE
        /\ UNCHANGED <<links, candidate_cache, closures>>

\* The resolver goes back, or says that the resolution is impossible.
Backtrack ==
    /\ closure.pc = "conflict"
       \/ (closure.pc = "resolve" /\ \E i \in Pinned : ~Satisfies(closure.pins[i], i))
    /\ \/ closure' = [closure EXCEPT !.pc = "resolve", !.pins = NoPins]
       \/ closure' = Raise
    /\ UNCHANGED <<links, candidate_cache, reqs, resources, spoiled, closures, network_failures>>

\* One platform is resolved: its pins, but for extras, are added; after the last
\* the files are downloaded.
NextPlatform ==
    /\ Resolving /\ ToPin = {}
    /\ LET locked == closure.locked \cup
              {<<i[1], closure.pins[i], closure.platform>> : i \in {j \in Pinned : j[2] = ""}}
       IN  IF closure.left = {}
           THEN closure' = [closure EXCEPT !.locked = locked, !.pc = "files"]
           ELSE \E p \in closure.left :
                   closure' = [closure EXCEPT !.locked = locked, !.platform = p, !.pins = NoPins,
                                              !.left = @ \ {p}]
    /\ UNCHANGED <<links, candidate_cache, reqs, resources, spoiled, closures, network_failures>>

\* file_closure: of each version locked, the candidates that work somewhere.
FileClosure ==
    /\ closure.pc = "files"
    /\ LET chosen == {<<l[1], l[2]>> : l \in closure.locked}
           wanted == {f \in chosen : Works[f] \cap Platforms # {}}
       IN  \/ /\ resources' = [f \in Files |-> IF f \in wanted /\ resources[f] = "none"
                                               THEN "whole" ELSE resources[f]]
              /\ closure' = [closure EXCEPT !.pc = "returned", !.files = wanted]
              /\ UNCHANGED <<spoiled, network_failures>>
           \/ /\ NetworkFails /\ \E f \in wanted : resources[f] = "none"
              /\ closure' = Raise /\ spoiled' = TRUE /\ UNCHANGED resources
    /\ UNCHANGED <<links, candidate_cache, reqs, closures>>

\* The object is dropped: __exit__ saves the links.  The next one loads them.
\* Killed, it saves nothing and may leave half a file.
NewClosure ==
    /\ closure.pc \in {"raised", "returned"} /\ closures < MaxClosures
    /\ links' = WithWheels(links) /\ NewObject
    /\ UNCHANGED <<resources, closures, network_failures>>

ClosureKilled ==
    /\ closure.pc \in {"read", "files"} /\ NetworkFails
    /\ NewObject
    /\ links' = WithWheels([n \in Projects |-> Unknown])
    /\ \/ UNCHANGED resources
       \/ closure.pc = "read" /\ reqs[closure.at] = Unread
          /\ resources[<<closure.at[1][1], closure.at[2]>>] = "none"
          /\ resources' = [resources EXCEPT ![<<closure.at[1][1], closure.at[2]>>] = "bad"]
    /\ UNCHANGED closures

PyPINext ==
    \/ StartClosure \/ ReadRequirements \/ Backtrack \/ NextPlatform \/ FileClosure
    \/ NewClosure \/ ClosureKilled
    \/ \E i \in Identifiers : FetchCandidates(i) \/ Pin(i)

PyPISpec == PyPIInit /\ [][PyPINext]_pypiVars

-----------------------------------------------------------------------------
(* Properties.                                                             *)

\* The requirements that hold on a platform when exactly the lock is installed
\* and these identifiers are.
Rules(ids, lock, platform) ==
    Required \cup UNION {UNION {DependenciesOf(Requires[<<i[1], l[2]>>], i, l[2], platform) :
                                  l \in {x \in lock : x[1] = i[1] /\ x[3] = platform}} : i \in ids}

\* What is needed, round after round.
Rounds(lock, platform) ==
    LET needed[n \in 0..Cardinality(Identifiers)] ==
            IF n = 0 THEN {<<r.name, r.extra>> : r \in Required}
            ELSE needed[n - 1] \cup {<<r.name, r.extra>> : r \in Rules(needed[n - 1], lock, platform)}
    IN  needed

Needed(lock, platform) == Rounds(lock, platform)[Cardinality(Identifiers)]

LockIsComplete ==
    closure.pc = "returned" =>
       \A p \in Platforms :
          LET ids == Needed(closure.locked, p)
          IN  /\ \A i \in ids : Cardinality({l \in closure.locked : l[1] = i[1] /\ l[3] = p}) = 1
              /\ \A r \in Rules(ids, closure.locked, p), l \in closure.locked :
                    l[1] = r.name /\ l[3] = p => l[2] \in r.versions

\* What is locked for a platform is all that is needed there and nothing else,
\* one version of each, no pre-release and yanked only if allowed, and a local wheel if there is one, whatever the
\* caches and the files have from calls that were cut or had failed, for an
\* object that has met no failure; its files are all there.
LockRight ==
    closure.pc = "returned" =>
       /\ ~spoiled => LockIsComplete
       /\ \A l \in closure.locked :
             /\ Allowed(l[1], l[2])
             /\ \A w \in LocalWheels : w[1] = l[1] => l[2] = w[2]
             /\ ~spoiled => <<l[1], "">> \in Needed(closure.locked, l[3])
             /\ l[3] \in Works[<<l[1], l[2]>>] => <<l[1], l[2]>> \in closure.files
       /\ \A f \in closure.files : ~spoiled => resources[f] = "whole"

\* "list of package names authorized to be into pre-release": their pre-releases
\* are among the candidates.  They are not.
PrereleasesAllowed ==
    \A i \in Identifiers, v \in AllVersions :
       /\ i[1] \in AllowedPrerelease /\ v \in links[i[1]] /\ Kind[<<i[1], v>>] = "pre"
       /\ candidate_cache[i] \notin {Unknown, {}}
       => v \in candidate_cache[i]

\* "return a list of requirement that can be used as a lock file": nothing that
\* is needed is missing, also after a call that has failed.
AlwaysComplete == LockIsComplete
=============================================================================
