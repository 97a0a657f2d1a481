---------------------------- MODULE MCWorkspace ----------------------------
EXTENDS Workspace, TLC

Symmetry == Permutations(Users) \cup Permutations(Requests)

\* Only the text "open" has a placeholder.  With the value of one company it
\* is the text "shut" of another template; without sageConfig it stays.
FilledIn == [t \in Sql |-> [c \in Configs |->
               IF t = "open" /\ c = "company" THEN "shut" ELSE t]]
============================================================================
