----------------------------- MODULE FetchDebs -----------------------------
(***************************************************************************)
(* fetch_debs.py: packages and all they depend on are looked up in an      *)
(* index and downloaded, unless their files are there already.             *)
(*                                                                         *)
(* One action is one turn of a loop: of resolve's over its queue, of       *)
(* download_debs's over the packages.  A run that failed may be repeated;  *)
(* the files it left stay.  A file's name carries the package's version    *)
(* and architecture, so a package stands for its file.                     *)
(***************************************************************************)
EXTENDS Integers, Sequences, FiniteSets, SequencesExt

CONSTANTS
    Package,    \* names of packages
    BasePkgs,   \* _BASE_PKGS: present on every installation
    Roots,      \* the packages asked for
    Indexes,    \* the indexes a mirror may have
    MaxRuns     \* bound of the model: how often the program is started

\* An index gives each package it has the clauses of its Depends line; a clause
\* is a sequence of alternatives.
ASSUME IndexAssumption ==
    /\ BasePkgs \subseteq Package
    /\ Roots \in Seq(Package)
    /\ \A idx \in Indexes :
           /\ DOMAIN idx \subseteq Package
           /\ \A p \in DOMAIN idx : idx[p] \in Seq(Seq(Package) \ {<<>>})
    /\ MaxRuns \in Nat

VARIABLES
    pc,        \* "start", "index", "resolve", "download", "done", "failed"
    index,     \* what the mirror has
    queue,     \* resolve: names still to look at
    seen,      \* resolve: names looked at, and the base packages
    ordered,   \* resolve: the packages to get
    paths,     \* download_debs: how many of them it has
    file,      \* what is in outdir: "none", "part", "whole"
    runs,      \* how many runs were begun
    failed     \* how many of them failed

resolveVars  == <<queue, seen, ordered>>
downloadVars == <<paths, file>>
vars == <<pc, index, resolveVars, downloadVars, runs, failed>>

----------------------------------------------------------------------------
(* Deliberately wrong variants; PROJECT.json names them to show that each   *)
(* property can fail.                                                       *)

\* A Depends line of which only the first clause is read.
DepsOneClause(p) == IF index[p] = <<>> THEN <<>> ELSE <<index[p][1][1]>>

\* A package that is looked at is not remembered.
SeenWithout(pkg) == seen

\* "continue" before the name is off the queue.
AfterSkipLoops == queue

\* A failed download is skipped.
AfterFailedFetchGoesOn == pc' = "download" /\ paths' = paths + 1 /\ UNCHANGED failed

----------------------------------------------------------------------------
(* main and the index.                                                      *)

Fail == pc' = "failed" /\ failed' = failed + 1

\* Repeated by hand, after a failure or because a file is wanted again
Start ==
    /\ pc \in {"start", "done", "failed"}
    /\ runs < MaxRuns
    /\ runs' = runs + 1
    /\ pc' = "index"
    /\ queue' = <<>> /\ seen' = {} /\ ordered' = <<>>
    /\ paths' = 0
    /\ UNCHANGED <<index, file, failed>>

\* No mirror for these arguments, no answer, or one that cannot be unpacked
IndexFails ==
    /\ pc = "index"
    /\ Fail
    /\ UNCHANGED <<index, resolveVars, downloadVars, runs>>

IndexFetched ==
    /\ pc = "index"
    /\ pc' = "resolve"
    /\ queue' = Roots
    /\ seen' = BasePkgs
    /\ ordered' = <<>>
    /\ UNCHANGED <<index, downloadVars, runs, failed>>

\* parse_index: of every clause its first alternative
Deps(p) == [i \in DOMAIN index[p] |-> index[p][i][1]]

----------------------------------------------------------------------------
(* resolve                                                                  *)

SeenWith(pkg) == seen \cup {pkg}

AfterSkip == Tail(queue)

Skip ==
    /\ Head(queue) \in seen
    /\ queue' = AfterSkip
    /\ UNCHANGED <<seen, ordered>>

\* Not in the index: a warning
Missing ==
    /\ Head(queue) \notin seen \cup DOMAIN index
    /\ queue' = Tail(queue)
    /\ seen' = SeenWith(Head(queue))
    /\ UNCHANGED ordered

Take ==
    /\ Head(queue) \in DOMAIN index \ seen
    /\ queue' = Tail(queue) \o Deps(Head(queue))
    /\ seen' = SeenWith(Head(queue))
    /\ ordered' = Append(ordered, Head(queue))

Resolve ==
    /\ pc = "resolve"
    /\ queue # <<>>
    /\ Skip \/ Missing \/ Take
    /\ UNCHANGED <<pc, index, downloadVars, runs, failed>>

Resolved ==
    /\ pc = "resolve"
    /\ queue = <<>>
    /\ pc' = "download"
    /\ UNCHANGED <<index, resolveVars, downloadVars, runs, failed>>

----------------------------------------------------------------------------
(* download_debs                                                            *)

Current == ordered[paths + 1]

Downloading == pc = "download" /\ paths < Len(ordered)

Cached ==
    /\ Downloading
    /\ file[Current] # "none"
    /\ paths' = paths + 1
    /\ UNCHANGED <<pc, index, resolveVars, file, runs, failed>>

Fetch ==
    /\ Downloading
    /\ file[Current] = "none"
    /\ file' = [file EXCEPT ![Current] = "whole"]
    /\ paths' = paths + 1
    /\ UNCHANGED <<pc, index, resolveVars, runs, failed>>

\* The exception ends the program.
AfterFailedFetch == Fail /\ UNCHANGED paths

\* urlretrieve raises or is interrupted, before it made the file or in the
\* middle of it.
FetchFails ==
    /\ Downloading
    /\ file[Current] = "none"
    /\ \E left \in {"none", "part"} : file' = [file EXCEPT ![Current] = left]
    /\ AfterFailedFetch
    /\ UNCHANGED <<index, resolveVars, runs>>

Printed ==
    /\ pc = "download"
    /\ paths = Len(ordered)
    /\ pc' = "done"
    /\ UNCHANGED <<index, resolveVars, downloadVars, runs, failed>>

----------------------------------------------------------------------------
Init ==
    /\ pc = "start"
    /\ index \in Indexes
    /\ queue = <<>> /\ seen = {} /\ ordered = <<>>
    /\ paths = 0
    /\ file = [p \in Package |-> "none"]
    /\ runs = 0 /\ failed = 0

Next ==
    \/ Start \/ IndexFails \/ IndexFetched
    \/ Resolve \/ Resolved
    \/ Cached \/ Fetch \/ FetchFails \/ Printed

Spec == Init /\ [][Next]_vars

\* The resolving loop runs.  Downloads are owed nothing: urlretrieve has no timeout.
FairSpec == Spec /\ WF_vars(Resolve \/ Resolved)

----------------------------------------------------------------------------
\* The types, and that no package is taken twice.
TypeOK ==
    /\ pc \in {"start", "index", "resolve", "download", "done", "failed"}
    /\ index \in Indexes
    /\ queue \in Seq(Package)
    /\ seen \subseteq Package
    /\ ordered \in Seq(DOMAIN index) /\ IsInjective(ordered)
    /\ paths \in 0 .. Len(ordered)
    /\ file \in [Package -> {"none", "part", "whole"}]
    /\ runs \in 0 .. MaxRuns
    /\ failed \in 0 .. runs

\* Whom the clause c makes wait: none of its alternatives will be installed.
Unmet(c) == \A i \in DOMAIN c : c[i] \notin BasePkgs \cup Range(ordered)

\* Every package asked for is there, and every package has what it depends on.
\* Only what the index lacks is left out, with a warning.
Installable ==
    /\ \A p \in Range(Roots) : p \in DOMAIN index => p \in BasePkgs \cup Range(ordered)
    /\ \A p \in Range(ordered) : \A i \in DOMAIN index[p] :
           Unmet(index[p][i]) => index[p][i][1] \notin DOMAIN index

\* The places of those that ask for the i-th; the roots are asked for at 0.
Askers(i) ==
    {j \in 1 .. Len(ordered) : ordered[i] \in Range(Deps(ordered[j]))}
        \cup (IF ordered[i] \in Range(Roots) THEN {0} ELSE {})

\* Nothing is got that is there already or that nobody before it asked for, and
\* the order is breadth first.
BreadthFirst ==
    \A i \in 1 .. Len(ordered) :
        /\ ordered[i] \notin BasePkgs
        /\ Askers(i) # {} /\ Min(Askers(i)) < i
        /\ \A k \in 1 .. i : Min(Askers(k)) <= Min(Askers(i))

\* What resolve hands to download_debs is just what is needed, in breadth-first
\* order, whatever cycles, diamonds and gaps the index has.
ResolvesNeeded == pc \in {"download", "done"} => Installable /\ BreadthFirst

\* A run that ends well has a file for each package it prints.  Of those, no more
\* are damaged than runs failed before: a file that is there is never looked into.
DamageOnlyByFailedRuns ==
    /\ pc = "done" => paths = Len(ordered) /\ \A p \in Range(ordered) : file[p] # "none"
    /\ Cardinality({p \in Package : file[p] = "part"}) <= failed

\* resolve ends, also when packages depend on each other in a circle.
ResolveEnds == pc = "resolve" ~> pc = "download"
=============================================================================
