---------------------------- MODULE MCTrampoline ----------------------------
(* Two processes on each platform, one of them with two databases, three   *)
(* libraries, the alternative RFC backend and one extension.               *)
EXTENDS Trampoline, TLC

CONSTANTS p1, p2, a, b, c

MCProcesses == {p1, p2}
MCDatabases == {a, b, c}
MCHome == [d \in MCDatabases |-> IF d = c THEN p2 ELSE p1]

(* The two databases of a process are alike.                               *)
EitherDatabase == Permutations({a, b})

MCPlatforms == {"linux", "apple", "windows"}
MCLibraries == <<"icu", "sapnwrfc", "sapucum">>
MCCompanions == <<"proto">>
MCExtensions == <<"erpl_rfc">>
=============================================================================
