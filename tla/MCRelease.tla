----------------------------- MODULE MCRelease ------------------------------
EXTENDS Release, TLC

Symmetric == Permutations(Builders) \cup Permutations(Publishers)

MCTreeOf == [c \in {"c1", "c2"} |-> IF c = "c1" THEN "t1" ELSE "t2"]

At(c) == [head |-> c, index |-> MCTreeOf[c], work |-> MCTreeOf[c]]
\* Either commit checked out and clean, or the first with an edited file.
MCCheckouts == {At("c1"), At("c2"), [At("c1") EXCEPT !.work = "t2"]}

\* A release build with the pack, one of another commit without, one nobody
\* asserted to be publishable, and one for a pull request that is.
Asked == [commit |-> "c1", ref |-> "branch", candidate |-> TRUE, pack |-> TRUE]
MCBuildOrders == {Asked, [Asked EXCEPT !.commit = "c2", !.pack = FALSE],
                  [Asked EXCEPT !.candidate = FALSE, !.ref = "pull"],
                  [Asked EXCEPT !.ref = "pull"]}
MCBudgets == {[moves |-> 2, writes |-> 0], [moves |-> 0, writes |-> 1]}
MCPublishOrders == [commit : {"c1"}, dry_run : BOOLEAN]
=============================================================================
