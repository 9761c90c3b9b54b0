-------------------------- MODULE MCLocalExecution --------------------------
(* LocalExecution on a small story. *)
EXTENDS LocalExecutionProps, TLC

\* `big` waits for a and b for it; the planner splits it into b1 and b2.
Ids == {"a", "big", "b1", "b2", "c"}
Deps(pairs) == [t \in Ids |-> {p[1] : p \in {q \in pairs : q[2] = t}}]

Original ==
    [order |-> <<"c", "a", "big">>, deps |-> Deps({<<"a", "big">>, <<"big", "c">>}),
     large |-> {"big"}, requirements |-> {{"a"}, {"big", "c"}}]
Decomposed ==
    [order |-> <<"c", "a", "b2", "b1">>,
     deps |-> Deps({<<"a", "b1">>, <<"b1", "b2">>, <<"b1", "c">>, <<"b2", "c">>}),
     large |-> {}, requirements |-> {{"a"}, {"b1", "c"}}]

\* The cloud application replaces `big` in a revision instead: as the planner
\* leaves it after a is done, and when only b2 and c are left.
Replaced(status) == [plan |-> [Decomposed EXCEPT !.order = <<"a", "big", "b1", "b2", "c">>,
                                                 !.requirements = {}],
                     status |-> status]
FirstReady == Replaced([t \in Ids |-> CASE t = "a" -> "completed" [] t = "big" -> "superseded"
                                        [] t = "c" -> "blocked" [] OTHER -> "ready"])

\* The revision of tests/test_cloud_application_service.py: b1 and b2 are ready, and c
\* stays blocked by them.
OfTheTest ==
    [plan |-> [Decomposed EXCEPT !.order = <<"a", "big", "c", "b1", "b2">>, !.requirements = {},
                                 !.deps = Deps({<<"b1", "c">>, <<"b1", "b2">>})],
     status |-> FirstReady.status]

TwoEditions == <<Original, Decomposed>>
RevisionSet == {FirstReady, OfTheTest}
RoleSet == {{"a"}, {"big", "b1", "b2"}}
=============================================================================
