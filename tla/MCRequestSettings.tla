-------------------------- MODULE MCRequestSettings --------------------------
EXTENDS RequestSettings
CONSTANTS r1, r2, q1, q2, process

MCFileChoices == {{}, {"disabled", "tool"}, {"ignored"}, {"push", "publish", "tool"}}
MCLayerChoices == {[env |-> {}, extra |-> {}, org |-> {}],
                   [env |-> {"ignored"}, extra |-> {}, org |-> {}],
                   [env |-> {"tool"}, extra |-> {"publish"}, org |-> {"tool"}],
                   [env |-> {"push"}, extra |-> {"tool"}, org |-> {"publish"}]}
MCAutoCommands == <<{"tool"}, {}>>
MCCommentArgs == {{}, {"tool"}}
MCSymmetry == Permutations({r1, r2}) \cup Permutations({q1, q2})
=============================================================================
