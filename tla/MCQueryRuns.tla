---------------------------- MODULE MCQueryRuns ----------------------------
(* Instances of QueryRuns: which account owns which run. *)
EXTENDS QueryRuns

CONSTANTS r1, r2, a1

TwoRuns == {r1, r2}

SameOwner == [r \in Runs |-> a1]

\* A panel run and a quick one, of which a behaviour sees only one asked for.
OneAsked == \A r, q \in Runs : r # q => "idle" \in {request[r], request[q]}
PipelineSpec == Init /\ [][Next /\ OneAsked']_vars /\ Fairness

=============================================================================
