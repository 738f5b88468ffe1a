---------------------------- MODULE MCEventChain ----------------------------
\* Instances of EventChain for TLC: the function constants of the configurations.
EXTENDS EventChain, TLC

\* Every event reads back as it was hashed.
MCStable == [e \in Events |-> e]

\* One event does not: its args come back from JSONB in another form.
MCOneReformatted == LET odd == CHOOSE e \in Events : TRUE
                    IN  [e \in Events |-> IF e = odd THEN CHOOSE f \in Events : f # odd ELSE e]

\* Whose agents await their recorders: all, none, or all but one session's.
MCAll == Chains
MCNone == {}
MCAllButOne == Chains \ {NoChain}

MCSymmetry == Permutations(Handlers)
=============================================================================
