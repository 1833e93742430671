------------------------------- MODULE MCLessons --------------------------------
(* Files for RegressionPins *)
EXTENDS RegressionPins, TLC

Rules == <<"pii", "rules">>
Short == <<"test", "pii">>
Exact == <<"test", "pii", "rules">>

Text == [long |-> FALSE, prose |-> FALSE, load |-> "container", sets |-> {}]
NoTests == [parses |-> TRUE, words |-> {"f"}, literals |-> {}, globals |-> {}, tests |-> {}]

SomeReaders == {[yaml |-> TRUE, reads |-> {<<"f", "bare">>, <<"f", "excused">>}],
                [yaml |-> TRUE, reads |-> {<<"f", "excused">>}]}

SomeSuites ==
    {\* a test in a class, and f: [] in a fixture
     [NoTests EXCEPT !.literals = {[Text EXCEPT !.sets = {<<"f", "list">>}]},
                     !.tests = {"t"}],
     \* no tests, f: x in a fixture, and f: 1 in an invalid one
     [NoTests EXCEPT !.literals = {[Text EXCEPT !.sets = {<<"f", "string">>}],
                                   [Text EXCEPT !.load = "error", !.sets = {<<"f", "integer">>}]}],
     \* a function t and f: [], in a file that does not parse
     [NoTests EXCEPT !.parses = FALSE, !.globals = {"t"}, !.tests = {"t"},
                     !.literals = {[Text EXCEPT !.sets = {<<"f", "list">>}]}]}

Names(s, t, y) == [script |-> s, test |-> t, symbol |-> y]
SomeLessons ==
    {[frontmatter |-> "list", gates |-> {Names(NoFile, Short, "t"), Names(Rules, Exact, "t")}],
     [frontmatter |-> "other", gates |-> {}]}

SomeValidators == {Rules}
SomeTestFiles == {Short, Exact}
=============================================================================
