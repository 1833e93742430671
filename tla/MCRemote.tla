------------------------------ MODULE MCRemote -------------------------------
(* CODEOWNERS files for RemoteTier *)
EXTENDS RemoteTier, TLC

Line(hits, below, who) == [hits |-> hits, below |-> below, owners |-> who]
All(who) == Line(Files, {}, who)

SomeRulings ==
    {[large |-> FALSE, rules |-> <<All({"real"})>>],
     [large |-> TRUE, rules |-> <<All({"real"})>>],
     \* * @your-org/maintainers, then a real owner of everything
     [large |-> FALSE, rules |-> <<All({"placeholder"}), All({"real"})>>],
     \* a real owner, and nobody for the scripts
     [large |-> FALSE, rules |-> <<All({"real"}), Line({"scripts"}, {}, {})>>],
     \* the same, with /scripts for the directory
     [large |-> FALSE, rules |-> <<All({"real"}), Line({}, {"scripts"}, {})>>],
     \* an address without a domain, and a real owner of the rest
     [large |-> FALSE, rules |-> <<All({"invalid"}), Line({"codeowners"}, {}, {"real"})>>]}
=============================================================================
