--------------------------- MODULE MCThreadBootstrap ---------------------------
EXTENDS ThreadBootstrap

CONSTANTS c1, c2, c3

\* One or two bootstraps and the other calls that may come between their steps.
MCCalls == {<<"draft", "draft", "move">>, <<"draft", "worktree", "delete">>,
            <<"worktree", "send", "move">>, <<"draft", "send", "delete">>}
MCKinds == {(c1 :> k[1]) @@ (c2 :> k[2]) @@ (c3 :> k[3]) : k \in MCCalls}
=============================================================================
