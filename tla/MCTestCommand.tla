---------------------------- MODULE MCTestCommand ----------------------------
(* A setup that reads a snapshot, a scenario that saves and restores, one that *)
(* checks a precondition, compares, and restores what it never read, and one   *)
(* that is skipped.                                                            *)
EXTENDS TestCommand

CONSTANTS s1, s2, s3, i1

Step(t) == [type |-> t, id |-> i1]

MCSetup == [values |-> <<Step("write")>>, post_values |-> <<>>,
            steps |-> <<Step("assert"), Step("snapshot")>>]
MCPosition == [s \in {s1, s2, s3} |-> CASE s = s1 -> 1 [] s = s2 -> 2 [] s = s3 -> 3]
MCScript ==
    [s \in {s1, s2, s3} |->
        CASE s = s1 -> [skip |-> FALSE, preconditions |-> 0,
                        steps |-> <<Step("snapshot"), Step("assert"), Step("write")>>,
                        cleanup |-> <<Step("unregistered"), Step("restore")>>]
          [] s = s2 -> [skip |-> FALSE, preconditions |-> 1,
                        steps |-> <<Step("assert")>>, cleanup |-> <<Step("restore")>>]
          [] s = s3 -> [skip |-> TRUE, preconditions |-> 0, steps |-> <<>>, cleanup |-> <<>>]]
=============================================================================
