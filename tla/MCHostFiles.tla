----------------------------- MODULE MCHostFiles -----------------------------
EXTENDS HostFiles, TLC
CONSTANTS q1, q2
MCOrg == ("p1" :> "o1") @@ ("p2" :> "o2")
MCLength == ("AGENTS" :> 2) @@ ("CLAUDE" :> 1)
EitherBranch == {[files |-> <<"AGENTS">>, lines |-> 16, fromDefault |-> t] : t \in BOOLEAN}
MCSymmetry == Permutations(Readers)
=============================================================================
