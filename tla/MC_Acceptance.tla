---------------------------- MODULE MC_Acceptance ----------------------------
(* One goal of each kind; a tree of tests, a test at the root, or none, with a   *)
(* pytest configuration that is short, long, not text or not there; and the      *)
(* analyses that meet: a name no profile has, an alias, a needle the model made  *)
(* up, a kind nobody knows, a field of the wrong type, a criterion on the tests. *)
EXTENDS Acceptance

Main == <<"main">>
Conf == <<"conftest">>
RootTest == <<"test_a">>
RootMore == <<"test_b">>
TreeTest == <<"tests", "test_b">>
TreeConf == <<"tests", "conftest">>
Secret == <<"env">>
Guide == <<"docs", "guide">>

MC_Paths == {Main, Conf, RootTest, RootMore, TreeTest, TreeConf, Secret, Guide}
MC_Denied == {Secret}
MC_Unsafe == {<<"..", "x">>}
MC_KeyFiles == {Conf}
MC_Conftest == TreeConf
MC_Commands == <<"lint", "suite">>

Goal(file, tests, tools) ==
  [file |-> file, tests |-> tests, words |-> {"a"}, tools |-> tools]

MC_Requests == {Goal(None, TRUE, {}), Goal(None, FALSE, {"write", "shell"}),
                Goal([path |-> Main, text |-> "a"], TRUE, {"write"})}

File(path, must, same, needle) ==
  [Proposal EXCEPT !.kind = "file_diff", !.path = path, !.must = must,
                   !.same = same, !.needle = needle]

Analysis(proposals) ==
  [criteria |-> proposals, ambiguous |-> FALSE, threshold |-> 1, malformed |-> FALSE]

MC_Replies ==
  {Analysis(<<Gate("pytest"), File(Main, TRUE, None, "b")>>),
   Analysis(<<Gate("suite"), [Proposal EXCEPT !.kind = "policy", !.tools = {"cmd"}]>>),
   Analysis(<<[Gate(None) EXCEPT !.alias = "lint"], [Rubric EXCEPT !.kind = "vibes"],
              [File(Conf, TRUE, None, "a") EXCEPT !.shape = "bad"]>>),
   Analysis(<<File(TreeTest, TRUE, None, "a"), File(Secret, FALSE, None, None)>>),
   Analysis(<<Rubric, File(TreeConf, FALSE, None, None)>>),
   Analysis(<<Rubric, [Proposal EXCEPT !.kind = "tree_digest", !.path = <<"docs">>,
                         !.same = [p \in Paths |-> IF p = Guide THEN <<"b">> ELSE None]]>>),
   Analysis(<<File(Main, TRUE, None, None), File(Main, TRUE, None, "b"),
              [Proposal EXCEPT !.kind = "schema"]>>),
   Analysis(<<>>),
   [Analysis(<<Rubric>>) EXCEPT !.ambiguous = TRUE, !.threshold = 0],
   [Analysis(<<Rubric>>) EXCEPT !.threshold = 3],
   [Analysis(<<Rubric>>) EXCEPT !.malformed = TRUE]}

\* No record for the third criterion, and a demanding one for the first.
MC_Calibration ==
  [i \in {1, 2, 4, 5, 6} |->
     [samples |-> 4, reviewers |-> 2, agreement |-> IF i = 1 THEN 100 ELSE 50]]

Empty == [p \in Paths |-> None]

MC_Disks ==
  {[Empty EXCEPT ![Main] = <<"a", "b">>, ![TreeTest] = <<"a">>, ![Conf] = <<"a", "b">>],
   [Empty EXCEPT ![Main] = <<"a", "a">>, ![RootTest] = <<"a">>, ![RootMore] = <<"b">>,
                 ![Secret] = <<"a">>],
   [Empty EXCEPT ![Main] = <<"a">>, ![TreeTest] = <<"a">>, ![TreeConf] = <<"b">>,
                 ![Conf] = <<"a", "a", "b">>],
   [Empty EXCEPT ![TreeTest] = <<"a">>, ![Conf] = <<NotText>>],
   [Empty EXCEPT ![TreeTest] = <<"a">>, ![Guide] = <<"b">>],
   Empty}

MC_Outages == {{}, {<<"tests">>}, {Main}}

Tool(tool, path, old, new) == [tool |-> tool, path |-> path, old |-> old, new |-> new]

MC_Edits == {Tool("write", TreeTest, "", <<"b">>), Tool("create", TreeConf, "", <<"a", "a">>),
             Tool("replace", Conf, "a", "b"), Tool("replace", Main, "a", "b"),
             Tool("replace", Main, "a", "c"), Tool("replace", Main, "b", "a")}

MC_Scribbles == {[path |-> TreeTest, new |-> <<"b">>], [path |-> Conf, new |-> <<"b">>],
                 [path |-> TreeTest, new |-> None], [path |-> Main, new |-> <<"a">>]}
==============================================================================
