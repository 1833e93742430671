------------------------------ MODULE MCCommits ------------------------------
(* Messages and files for CommitMessage *)
EXTENDS CommitMessage, TLC

AllFields(v) == [f \in Field |-> v]
NoWaivers == [d \in Domain |-> "none"]

(* A complete answer, a hurried one, and what differs from them in one respect *)
Full == [blank |-> FALSE, subject |-> "fix", optOut |-> "none", fields |-> AllFields("real"),
         names |-> {"regex", "hooks"}, waives |-> [NoWaivers EXCEPT !["yaml"] = "real"],
         noPostmortem |-> "none", refs |-> TRUE]
Bare == [blank |-> FALSE, subject |-> "fix", optOut |-> "none", fields |-> AllFields("none"),
         names |-> {}, waives |-> NoWaivers, noPostmortem |-> "none", refs |-> FALSE]

SomeMessages ==
    {Full, Bare,
     [Bare EXCEPT !.subject = "other"],
     [Bare EXCEPT !.subject = "merge"],
     [Bare EXCEPT !.blank = TRUE],
     [Bare EXCEPT !.optOut = "real", !.noPostmortem = "real"],
     [Full EXCEPT !.optOut = "placeholder"],
     [Full EXCEPT !.fields["Lock-down"] = "placeholder", !.noPostmortem = "real"],
     [Full EXCEPT !.names = {"hooks"}, !.waives["ast"] = "placeholder"]}

Top(l, m) == [local |-> l, scope |-> "top", module |-> m]
Inner(l, m) == [local |-> l, scope |-> "inner", module |-> m]
CallOf(l, a, sc) == [local |-> l, scope |-> sc, attr |-> a]
Py == [kind |-> "py", parses |-> TRUE, imports |-> <<>>, calls |-> {}, quotes |-> {},
       answers |-> FALSE]

SomeSources ==
    {\* import ast; def f(): import yaml as ast; the file's ast.walk(...) reads as yaml's
     [Py EXCEPT !.imports = <<Top("ast", "ast"), Inner("ast", "yaml")>>,
                !.calls = {CallOf("ast", "other", "top")}],
     \* one of the hooks, with import re as r; r.compile(...)
     [Py EXCEPT !.kind = "hooks", !.imports = <<Top("r", "re")>>,
                !.calls = {CallOf("r", "compile", "top")}],
     \* does not parse, and quotes ast.walk( in a comment next to yaml.load(...)
     [Py EXCEPT !.parses = FALSE, !.imports = <<Top("yaml", "yaml")>>,
                !.calls = {CallOf("yaml", "load", "top")},
                !.quotes = {CallOf("ast", "other", "top")}],
     \* a file of templates whose diff reads like an answer
     [Py EXCEPT !.kind = "yaml", !.answers = TRUE]}
=============================================================================
