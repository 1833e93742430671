------------------------------- MODULE MCGates -------------------------------
(* Instances of Gates for TLC *)
EXTENDS Gates

Plain == [valid |-> TRUE, profile |-> "standard", lang |-> "python", sandbox |-> "0",
          remote |-> "0", days |-> "0", cmds |-> {}, via |-> "direct", danger |-> FALSE]

(* A plain config and ones that differ from it: remote with the flag of the     *)
(* sandbox left out, remote and contained, a node and a go project whose        *)
(* commands are the language gate's, a dangerous command, a line that does not  *)
(* load.                                                                        *)
MCConfigs ==
    {Plain,
     [Plain EXCEPT !.valid = FALSE],
     [Plain EXCEPT !.profile = "strict", !.sandbox = "unset", !.remote = "1", !.days = "7", !.cmds = {"lint", "test"}],
     [Plain EXCEPT !.profile = "strict", !.sandbox = "1", !.remote = "1", !.days = "7", !.cmds = {"test"}],
     [Plain EXCEPT !.lang = "node", !.sandbox = "1", !.cmds = {"test"}, !.via = "lang_gate"],
     [Plain EXCEPT !.profile = "strict", !.lang = "go", !.cmds = {"lint", "typecheck"}, !.via = "lang_gate"],
     [Plain EXCEPT !.cmds = {"lint"}, !.danger = TRUE]}

NoPin == [profile |-> "none", sandbox |-> FALSE, remote |-> FALSE, days |-> FALSE]

MCPins ==
    {NoPin, [profile |-> "strict", sandbox |-> FALSE, remote |-> TRUE, days |-> TRUE],
     [NoPin EXCEPT !.profile = "strict", !.sandbox = TRUE]}
==============================================================================
