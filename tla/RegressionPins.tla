--------------------------- MODULE RegressionPins ----------------------------
(***************************************************************************)
(* What pins a lesson in the tree.  check_validator_input_coverage.py asks *)
(* of a validator that is committed that its tests give every YAML field   *)
(* it reads a value that is not a string.                                  *)
(* check_postmortem_gates_resolved.py asks, when a postmortem is           *)
(* committed, that the scripts and tests which it names exist.  Neither is *)
(* asked again when the tests change.                                      *)
(***************************************************************************)
EXTENDS Naturals, Sequences, FiniteSets

CONSTANTS
    Validators,   \* scripts/check_*.py, each by the words of its name
    TestFiles,    \* tests/test_validator_*.py, likewise
    Keys,         \* YAML fields
    Symbols,      \* names of tests and constants
    Readers,      \* what a validator may hold
    Suites,       \* what a test file may hold
    Lessons,      \* what the postmortem may hold
    Gone,         \* there is no such file
    MaxDirty      \* bound on the files that differ from HEAD

Site == {"bare", "excused", "placeholder"}   \* # coverage-opt-out: none, a reason, the template's
Strings == {"string", "empty-string"}
Shape == Strings \cup {"integer", "bool", "float", "null", "list", "dict"}

Reader == [yaml : BOOLEAN,                       \* it imports yaml
           reads : SUBSET (Keys \X Site)]

Literal == [long : BOOLEAN,                      \* over _AST_STRING_PARSE_MAX
            prose : BOOLEAN,                     \* neither a newline nor a colon
            load : {"container", "scalar", "error"},
            sets : SUBSET (Keys \X Shape)]       \* its keys, at any depth

Suite == [parses : BOOLEAN,
          words : SUBSET Keys,                   \* the keys that its text names
          literals : SUBSET Literal,
          globals : SUBSET Symbols,              \* its functions and constants
          tests : SUBSET Symbols]                \* its tests, those of classes too

NoFile == <<>>
NoSymbol == ""
Pinned == [script : Validators \cup {NoFile}, test : TestFiles \cup {NoFile},
           symbol : Symbols \cup {NoSymbol}]
Lesson == [frontmatter : {"list", "other", "empty"}, gates : SUBSET Pinned]

Postmortem == <<"postmortem">>
Paths == Validators \cup TestFiles \cup {Postmortem}

ASSUME PinsAssumption ==
    /\ Validators \subseteq Seq(STRING)
    /\ Readers \subseteq Reader /\ Suites \subseteq Suite /\ Lessons \subseteq Lesson
    /\ Postmortem \notin Validators \cup TestFiles /\ Validators \cap TestFiles = {}
    /\ MaxDirty \in Nat

VARIABLES
    work,    \* the working tree: what each path holds
    kept,    \* HEAD
    since    \* what was not as HEAD has it when a path was last judged, or has changed after

pinsVars == <<work, kept, since>>

May(p) == {Gone} \cup IF p \in Validators THEN Readers
                      ELSE IF p \in TestFiles THEN Suites ELSE Lessons

-----------------------------------------------------------------------------
(* check_validator_input_coverage.py *)

(* _is_validator_script *)
IsValidator(reader) == reader # Gone /\ reader.yaml /\ reader.reads # {}

(* _extract_yaml_fields: the fields that some site reads without a reason *)
YamlFields(reader) ==
    {k \in Keys : \E site \in {"bare", "placeholder"} : <<k, site>> \in reader.reads}

(* _paired_test_file: the words of the validator's name that lead to a file, *)
(* the most of them                                                          *)
Candidates(tree, v) ==
    {n \in 1..Len(v) : <<"test">> \o SubSeq(v, 1, n) \in TestFiles
                       /\ tree[<<"test">> \o SubSeq(v, 1, n)] # Gone}

PairedSuite(tree, v) ==
    LET ns == Candidates(tree, v)
        n == CHOOSE i \in ns : \A j \in ns : j <= i
    IN  IF ns = {} THEN Gone ELSE tree[<<"test">> \o SubSeq(v, 1, n)]

(* _yaml_fixtures_in_test_ast *)
Fixtures(suite) ==
    IF ~suite.parses THEN {}
    ELSE {l \in suite.literals : ~l.long /\ ~l.prose /\ l.load = "container"}

(* _field_shapes_in_fixtures *)
FieldShapes(suite, k) ==
    {shape \in Shape : \E l \in Fixtures(suite) : <<k, shape>> \in l.sets}

\* Faulty variant: any value will do.
FieldCovered_AnyShape(suite, k) == k \in suite.words /\ FieldShapes(suite, k) # {}

(* main() has no finding about the field. *)
FieldCovered(suite, k) == k \in suite.words /\ FieldShapes(suite, k) \ Strings # {}

(* It exits 0 for these files. *)
CoveragePasses(tree, files) ==
    \A v \in files \cap Validators :
        IsValidator(tree[v]) /\ YamlFields(tree[v]) # {} =>
            /\ PairedSuite(tree, v) # Gone
            /\ \A k \in YamlFields(tree[v]) : FieldCovered(PairedSuite(tree, v), k)

-----------------------------------------------------------------------------
(* check_postmortem_gates_resolved.py *)

Standing(tree) == {t \in TestFiles : tree[t] # Gone}

(* _collect_pytest_tests: nothing where pytest is missing, slow or fails, *)
(* as it does over one file that does not parse                           *)
Collected(tree, answers) ==
    IF answers /\ \A t \in Standing(tree) : tree[t].parses
    THEN UNION {tree[t].tests : t \in Standing(tree)} ELSE {}

(* _file_has_symbol *)
FileHasSymbol(suite, symbol) == symbol \in suite.globals

\* Faulty variant: the file is enough.
Resolves_FileOnly(tree, g, tests) ==
    IF g.script # NoFile THEN tree[g.script] # Gone
    ELSE g.test = NoFile \/ tree[g.test] # Gone

(* _resolve_gate: a script that the claim names is all that is looked for; *)
(* a test is looked for in its file, but may be found in any.              *)
Resolves(tree, g, tests) ==
    IF g.script # NoFile THEN tree[g.script] # Gone
    ELSE \/ g.test = NoFile
         \/ /\ tree[g.test] # Gone
            /\ \/ g.symbol \in tests \cup {NoSymbol}
               \/ FileHasSymbol(tree[g.test], g.symbol)

(* main() exits 0. *)
LessonsPass(tree, answers) ==
    tree[Postmortem] # Gone =>
        /\ tree[Postmortem].frontmatter = "list"
        /\ tree[Postmortem].gates # {}
        /\ \A g \in tree[Postmortem].gates : Resolves(tree, g, Collected(tree, answers))

-----------------------------------------------------------------------------
(* Commits *)

Dirty == {p \in Paths : work[p] # kept[p]}

(* What the hooks find on disk: pre-commit puts the unstaged changes of the *)
(* files that git knows away, and leaves the files it does not know.        *)
OnDisk(files) ==
    [p \in Paths |-> IF p \in files \/ kept[p] = Gone THEN work[p] ELSE kept[p]]

(* The author writes or deletes a file. *)
Write(p, content) ==
    /\ content # work[p]
    /\ Cardinality(Dirty \cup {p}) <= MaxDirty
    /\ work' = [work EXCEPT ![p] = content]
    /\ UNCHANGED <<kept, since>>

(* The hooks get the files of the commit that are still there. *)
Record(files, answers) ==
    LET disk == OnDisk(files)
        given == {p \in files : work[p] # Gone}
        now == [p \in Paths |-> IF p \in files THEN work[p] ELSE kept[p]]
        judged == given \cap (Validators \cup {Postmortem})
    IN  /\ files # {} /\ files \subseteq Dirty
        /\ CoveragePasses(disk, given)
        /\ Postmortem \in given => LessonsPass(disk, answers)
        /\ kept' = now
        /\ since' = [p \in DOMAIN since |->
                        IF p \in judged THEN {q \in Paths : disk[q] # now[q]}
                        ELSE since[p] \cup files]
        /\ UNCHANGED work

PinsInit ==
    /\ work = [p \in Paths |-> Gone]
    /\ kept = work
    /\ since = [p \in Validators \cup {Postmortem} |-> {}]

PinsNext ==
    \/ \E p \in Paths : \E content \in May(p) : Write(p, content)
    \/ \E files \in SUBSET Paths, answers \in BOOLEAN : Record(files, answers)

PinsSpec == PinsInit /\ [][PinsNext]_pinsVars

-----------------------------------------------------------------------------
(* Properties *)

PinsTypeOK ==
    /\ DOMAIN work = Paths /\ DOMAIN kept = Paths
    /\ \A p \in Paths : work[p] \in May(p) /\ kept[p] \in May(p)
    /\ since \in [Validators \cup {Postmortem} -> SUBSET Paths]

(* A field is exercised when a YAML text in the file that tests the validator *)
(* gives it something that is not a string.                                   *)
Exercised(tree, v, k) ==
    /\ PairedSuite(tree, v) # Gone
    /\ \E l \in PairedSuite(tree, v).literals :
          l.load = "container" /\ \E shape \in Shape \ Strings : <<k, shape>> \in l.sets

TestsOf(v) == {t \in TestFiles : \E n \in 1..Len(v) : t = <<"test">> \o SubSeq(v, 1, n)}

(* A validator in HEAD reads a field that its tests do not exercise, without   *)
(* a reason, only where a test file that may be its own has changed since it   *)
(* was last committed (a new one with a longer name takes the place of the     *)
(* old), or was there when it was, untracked.                                  *)
CoverageErodes ==
    \A v \in Validators :
        kept[v] # Gone /\ kept[v].yaml =>
            \A k \in YamlFields(kept[v]) : Exercised(kept, v, k) \/ since[v] \cap TestsOf(v) # {}

(* What a claim names is there: the script, or the file and, somewhere, the test *)
Stands(tree, g) ==
    IF g.script # NoFile THEN tree[g.script] # Gone
    ELSE \/ g.test = NoFile
         \/ /\ tree[g.test] # Gone
            /\ \/ g.symbol = NoSymbol
               \/ \E t \in Standing(tree) : g.symbol \in tree[t].globals \cup tree[t].tests

(* A postmortem in HEAD claims a gate that is not there only where scripts or *)
(* tests have changed since it was last committed, or were there, untracked.  *)
ClaimsErode ==
    kept[Postmortem] # Gone =>
        \A g \in kept[Postmortem].gates :
            Stands(kept, g) \/ since[Postmortem] \cap (TestFiles \cup {g.script}) # {}
=============================================================================
