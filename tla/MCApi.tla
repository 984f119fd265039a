------------------------------- MODULE MCApi -------------------------------
(***************************************************************************)
(* Instances of Api: three requests share a pool of two connections, one   *)
(* of them overflow, and the database starts at most MaxEpoch times.       *)
(***************************************************************************)
EXTENDS Api, TLC

CONSTANTS r1, r2, r3

ThreeRequests == {r1, r2, r3}
OneRequest == {r1}

Symmetry == Permutations(Request)

Ask(route, flaws) == [route |-> route, flaws |-> flaws]

\* The ways through the code: database or none, refused or not.
EveryWay == {Ask("ready", {}), Ask("search", {}), Ask("detail", {"hidden"}),
             Ask("search", {"domain"})}

OnlySearches == {Ask("search", {})}

TamperedCursors == {Ask("search", {"domain"}), Ask("search", {"foreign_cursor"}), Ask("search", {})}

Readiness == {Ask("ready", {})}
=============================================================================
