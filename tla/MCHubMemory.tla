---------------------------- MODULE MCHubMemory ----------------------------
(* Instances of HubMemory: who does what.  Tags, rules and the audit log    *)
(* do not affect one another, so no behaviour needs all three.              *)
EXTENDS HubMemory, TLC

CONSTANTS t1, t2, t3

\* One thread looks, two change what it looks at.
TagThreads == (t1 :> {"find_by_tag"}) @@ (t2 :> {"remove_tag"}) @@ (t3 :> {"add_tag"})

RuleThreads == (t1 :> {"evaluate"}) @@ (t2 :> {"delete_rule"})
            @@ (t3 :> {"add_rule", "delete_rule"})

LogThreads == [t \in Threads |-> {"record"}]

WatchedAssignments == {TagThreads, RuleThreads, LogThreads}

\* Two threads add tags.
AddingAssignments == {[t \in Threads |-> {"add_tag"}]}

\* The threads have their roles; the rest is interchangeable.
Symmetry == Permutations(Sensors) \cup Permutations(Keys) \cup Permutations(Rules)
=============================================================================
