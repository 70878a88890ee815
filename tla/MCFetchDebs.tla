----------------------------- MODULE MCFetchDebs ----------------------------
(***************************************************************************)
(* Values for TLC: three packages of which any may be missing from the     *)
(* index, and a base package.  A package has no dependency, one, two, or   *)
(* one with an alternative: circles, diamonds and gaps are among them.     *)
(***************************************************************************)
EXTENDS FetchDebs

MCPackage == {"a", "b", "c", "z"}
MCBase    == {"z"}
MCRoots   == <<"a">>

Depends ==
    {<<>>} \cup {<<<<p>>>> : p \in MCPackage}
    \cup {<<<<p>>, <<q>>>> : p \in {"a", "b"}, q \in {"b", "c", "z"}}
    \cup {<<<<p, q>>>> : p \in {"b", "z"}, q \in {"c"}}

MCIndexes == UNION {[S -> Depends] : S \in SUBSET {"a", "b", "c"}}
=============================================================================
