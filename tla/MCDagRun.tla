------------------------------ MODULE MCDagRun ------------------------------
(* Instances of DagRun: every acyclic graph over a few steps (any such graph   *)
(* can be numbered so that edges go up), under each policy.                    *)
EXTENDS DagRun

Up == {e \in Steps \X Steps : e[1] < e[2]}
Leaves(g) == {s \in Steps : \A e \in g : e[1] # s}

Flow(g, sig, off, waits, flaky, policy, risks) ==
    [data |-> g \ sig, signal |-> g \cap sig, off |-> off, waits |-> waits,
     sinks |-> Leaves(g) \ waits, flaky |-> flaky, policy |-> policy, risks |-> risks]

Policies == {"abort", "abort_all", "best_effort"}
Any == SUBSET Up

\* Runs that never wait: any graph under each policy; with trigger edges or a disabled step.
Straight ==
    {Flow(g, {}, {}, {}, {1, 2, 3}, p, {"breaker"}) : g \in Any, p \in Policies}
    \cup {Flow(g, {<<1, 2>>, <<2, 4>>}, {2}, {}, {1}, "abort", {}) : g \in Any}
    \cup {Flow(g, {<<1, 3>>, <<2, 4>>}, {}, {}, {1}, "best_effort", {"breaker"}) : g \in Any}
\* Runs that wait: any graph, one or two wait steps anywhere.
Waiting == {Flow(g, {}, {}, w, {}, "abort", {"breaker"}) : g \in Any, w \in {{1}, {2}, {3}, {1, 3}, {2, 3}}}
\* Runs that wait once, with failures around the wait.
Shaken == {Flow(g, {}, {}, {2}, {1, 3}, p, {"breaker"}) : g \in Any, p \in Policies}
\* Everything at once, on fewer graphs; and a graph the validator should have refused.
Diamond == {<<1, 2>>, <<1, 3>>, <<2, 4>>, <<3, 4>>}
Forks   == {<<1, 2>>, <<1, 3>>, <<3, 4>>}
Stormy  == {Flow(g, {}, {}, w, {1, 3}, p, Risks) :
    g \in {Diamond, Forks, {<<1, 2>>, <<2, 3>>, <<2, 4>>}}, w \in {{}, {2}, {2, 4}}, p \in Policies}
Looped  == {Flow({<<1, 2>>, <<2, 3>>, <<3, 2>>}, {}, off, {}, {}, "abort", {}) : off \in {{}, {3}}}

AllFlows == Straight \cup Waiting \cup Shaken \cup Stormy \cup Looped
=============================================================================
