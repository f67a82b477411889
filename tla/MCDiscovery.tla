---------------------------- MODULE MCDiscovery ----------------------------
(***************************************************************************)
(* Discovery for TLC: repositories 1 and 2.                                *)
(***************************************************************************)
EXTENDS Discovery

CONSTANTS n1, n2

ConstBoth == {1, 2}
ConstFirst == {1}
ConstSecond == {2}
ConstNames == {n1, n2}
ConstAllSources == {"MyRepos", "Starred", "All"}
ConstStarred == {"MyRepos", "Starred"}

\* Both repositories; the first one gone and its name taken over by the second.
ConstGithubs == {<<n1, n2>>, <<NoName, n1>>}
=============================================================================
