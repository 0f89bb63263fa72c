----------------------------- MODULE Acceptance ------------------------------
(***************************************************************************)
(* What a run is accepted for: the compilation of a request into criteria  *)
(* (application/contracting.py), the work on the files meanwhile, the hard *)
(* gates, the blinded reviewers and the release law                        *)
(* (application/verification, application/release_law.py).                 *)
(*                                                                         *)
(* A criterion is a record; what its kind does not use is None.  A proposal *)
(* is the model's dictionary for one, which may name a kind that does not  *)
(* exist, miss a field or have one too many ("shape").  What the model     *)
(* answers, an exit code and what a command writes are free.               *)
(***************************************************************************)
EXTENDS Workspace

CONSTANTS
  Requests,      \* bound: the goals and tool policies asked for
  Replies,       \* bound: the acceptance analyses a model may return
  Commands,      \* the names of config.commands, in order
  RunsPytest,    \* those whose argv runs pytest
  Tools,         \* the names of the tool registry
  TestNames,     \* the file names test_*.py
  TamperNames,   \* _PYTEST_TAMPER_FILES
  Conftest,      \* the path tests/conftest.py
  MaxPins,       \* the 50 files pinned one by one
  Panel,         \* the number of blinded reviewers
  MinReviewers,  \* MIN_BLINDED_REVIEWERS
  Calibration,   \* the calibration records: a function on criterion positions
  Disks,         \* bound: the files a run may start from
  Outages,       \* bound: the sets of paths that cannot be opened or listed
  Edits,         \* bound: the tool calls of a worker that edit
  Scribbles,     \* bound: the files a command may leave behind
  MaxEdits,      \* bound: how many tool calls may edit
  MaxRestarts    \* bound: attempts that fail, and runs resumed

Kinds     == {"command", "file_diff", "tree_digest", "schema", "policy", "soft_rubric"}
HardKinds == Kinds \ {"soft_rubric"}

Tests == <<"tests">>

Fields(kinds, digests) ==
  [kind : kinds, command : {None} \cup STRING, alias : {None} \cup STRING, exit : Int,
   path : {None} \cup Seq(STRING), must : {None} \cup BOOLEAN, same : {None} \cup digests,
   needle : {None} \cup Words, tools : SUBSET STRING, shape : STRING]

\* The dictionary of a proposal, whatever the model put into it.
Dictionary == Fields({"tree_digest"}, Disk) \cup Fields(STRING \ {"tree_digest"}, Seq(Words))

Known == {c \in Dictionary : c.kind \in Kinds}

\* That a literal is a string is more than the provers know.  What is a file on a disk
\* is no directory.
ASSUME AcceptanceAssumption ==
  /\ Kinds \cup {"ok", "tests"} \subseteq STRING
  /\ Requests \subseteq [file : [path : Paths, text : Words] \cup {None}, tests : BOOLEAN,
                        words : SUBSET Words, tools : SUBSET STRING]
  /\ Replies \subseteq [criteria : Seq(Dictionary), ambiguous : BOOLEAN, threshold : Int,
                       malformed : BOOLEAN]
  /\ None \notin [path : Paths, text : Words] /\ None \notin Replies
  /\ Commands \in Seq(STRING) /\ RunsPytest \subseteq Range(Commands)
  /\ Conftest \in Paths /\ Panel \in Nat /\ MinReviewers \in Nat
  /\ MaxPins \in Nat /\ MaxEdits \in Nat /\ MaxRestarts \in Nat
  /\ Disks \subseteq Disk /\ {} \in Outages
  /\ \A d \in Disks : \A p, q \in Files(d) : ~IsStrictPrefix(p, q)
  /\ Edits \subseteq [tool : {"write", "create"}, path : Paths, old : STRING,
                     new : Seq(Words)]
                  \cup [tool : {"replace"}, path : Paths, old : Words \ {NotText},
                        new : Words \ {NotText}]
  /\ Scribbles \subseteq [path : Paths, new : Seq(Words) \cup {None}]

(***************************************************************************)
(* Proposals.                                                              *)
(***************************************************************************)
Proposal == [kind |-> "soft_rubric", command |-> None, alias |-> None, exit |-> 0,
             path |-> None, must |-> None, same |-> None, needle |-> None,
             tools |-> {}, shape |-> "ok"]

Rubric == Proposal

Gate(name) == [Proposal EXCEPT !.kind = "command", !.command = name]

\* The criterion that a file stays what it is on disk: absent, or the same bytes.
Pin(disk, path) ==
  [Proposal EXCEPT !.kind = "file_diff", !.path = path, !.must = path \in Files(disk),
                   !.same = disk[path]]

PinAll(disk, paths) == [i \in DOMAIN paths |-> Pin(disk, paths[i])]

\* _complete_json: an empty or a cut answer is asked for once more, with four times the
\* tokens; None unless an object comes of it.
CompleteJson(first, second, reply) ==
  LET last == IF first \in {"empty", "cut"} THEN second ELSE first
  IN IF last = "object" THEN reply ELSE None

Answers ==
  LET kinds == {"object", "empty", "cut", "text", "down"}
  IN {CompleteJson(first, second, reply) : first \in kinds, second \in kinds, reply \in Replies}

\* Mutant of Grounded: a criterion counts as asserting existence before it is looked at.
GroundedEager(proposals, request, disk) ==
  LET Look(sofar, c) ==
        LET text  == IF c.path \in Files(disk) THEN Range(disk[c.path]) ELSE {}
            loose == /\ c.kind = "file_diff" /\ c.needle # None
                     /\ c.needle \notin request.words \cup text
            kept  == IF loose THEN [c EXCEPT !.needle = None] ELSE c
            named == IF c.kind = "file_diff" /\ c.must = TRUE
                       THEN sofar.named \cup {c.path} ELSE sofar.named
        IN IF loose /\ c.path \in named /\ c.same = None THEN [sofar EXCEPT !.named = named]
           ELSE [out |-> Append(sofar.out, kept), named |-> named]
  IN FoldLeft(Look, [out |-> <<>>, named |-> {}], proposals).out

\* _drop_ungrounded_content_checks: a needle neither the goal nor the file has is
\* dropped, and with it a criterion that then only says again that a file exists.
Grounded(proposals, request, disk) ==
  LET Look(sofar, c) ==
        LET text  == IF c.path \in Files(disk) THEN Range(disk[c.path]) ELSE {}
            loose == /\ c.kind = "file_diff" /\ c.needle # None
                     /\ c.needle \notin request.words \cup text
            kept  == IF loose THEN [c EXCEPT !.needle = None] ELSE c
            named == IF c.kind = "file_diff" /\ c.must = TRUE
                       THEN sofar.named \cup {c.path} ELSE sofar.named
        IN IF loose /\ c.path \in sofar.named /\ c.same = None THEN sofar
           ELSE [out |-> Append(sofar.out, kept), named |-> named]
  IN FoldLeft(Look, [out |-> <<>>, named |-> {}], proposals).out

\* run_acceptance: a goal that names a file and its text needs no model.
Proposals(request, answer, disk) ==
  IF request.file # None
    THEN <<[Proposal EXCEPT !.kind = "file_diff", !.path = request.file.path,
                            !.must = TRUE, !.needle = request.file.text]>>
  ELSE IF answer = None THEN <<Rubric>>
  ELSE LET known == InOrder(answer.criteria, {c \in Range(answer.criteria) :
                                                c.kind \in Kinds /\ c.shape # "none"})
           kept  == Grounded(known, request, disk)
       IN IF kept = <<>> THEN <<Rubric>> ELSE kept

\* _normalize_command_criteria: looked up before an alias is resolved.
Normalized(proposals) ==
  LET Fix(c) ==
        IF c.kind # "command" \/ c.command \in Range(Commands) THEN <<c>>
        ELSE IF Cardinality(RunsPytest) = 1
             THEN <<[c EXCEPT !.command = CHOOSE name \in RunsPytest : TRUE]>>
             ELSE <<>>
  IN IF Commands = <<>> THEN proposals
     ELSE FlattenSeq([i \in DOMAIN proposals |-> Fix(proposals[i])])

Pytest ==
  IF RunsPytest = {} THEN None
  ELSE Commands[CHOOSE i \in DOMAIN Commands :
         /\ Commands[i] \in RunsPytest
         /\ \A j \in DOMAIN Commands : Commands[j] \in RunsPytest => i <= j]

IsTest(path) == Last(path) \in TestNames

RootTests(disk) == {p \in Files(disk) : Len(p) = 1 /\ IsTest(p)}

Tampers == {p \in Paths : Len(p) = 1 /\ p[1] \in TamperNames}

\* Whether the goal asks for the tests to pass, and there are tests, and pytest.
Upgradable(request, disk) ==
  request.tests /\ Pytest # None /\ (IsDir(disk, Tests) \/ RootTests(disk) # {})

\* A criterion already there on a file: whatever it asserts, no pin is added to it.
Claims(proposals, path) ==
  \E i \in DOMAIN proposals : LET c == proposals[i] IN
    c.kind = "file_diff" /\ c.path = path /\ c.exit = 0

WritesTests(proposals) ==
  \E i \in DOMAIN proposals :
    proposals[i].path # None /\ IsStrictPrefix(Tests, proposals[i].path)

\* The files pinned one by one, of more than there may be.
Few(paths) == First(InOrder(PathOrder, paths), MaxPins)

\* The tests as they are: one digest for the tree, unless the proposals write tests or
\* have a digest; else the first files one by one.
TestPins(proposals, disk) ==
  LET pins(paths) ==
        PinAll(disk, InOrder(paths, {p \in Range(paths) : ~Claims(proposals, p)}))
      digest == [Proposal EXCEPT !.kind = "tree_digest", !.path = Tests,
                                 !.same = TreeDigest(disk, Tests)]
  IN IF ~IsDir(disk, Tests) THEN pins(Few(RootTests(disk)))
     ELSE IF WritesTests(proposals)
          THEN pins(Few({p \in Under(disk, Tests) : IsTest(p)})) \o pins(<<Conftest>>)
     ELSE IF \E i \in DOMAIN proposals : proposals[i].kind = "tree_digest" THEN <<>>
     ELSE <<digest>>

TamperPins(proposals, disk) ==
  PinAll(disk, InOrder(PathOrder, {p \in Tampers : ~Claims(proposals, p)}))

SuiteGate(proposals) ==
  IF \E i \in DOMAIN proposals :
       /\ proposals[i].kind = "command" /\ proposals[i].command = Pytest
       /\ proposals[i].exit = 0
    THEN <<>> ELSE <<Gate(Pytest)>>

Judged(proposals) ==
  IF \E i \in DOMAIN proposals : proposals[i].kind = "soft_rubric" THEN <<>> ELSE <<Rubric>>

\* Mutant of Upgraded: the pins come before the command.
UpgradedPinsFirst(proposals, request, disk) ==
  IF ~Upgradable(request, disk) THEN proposals
  ELSE TestPins(proposals, disk) \o TamperPins(proposals, disk)
         \o proposals \o SuiteGate(proposals) \o Judged(proposals)

\* _upgrade_test_goal_criterion: what it appends to the proposals of a goal that asks
\* for passing tests.
Upgraded(proposals, request, disk) ==
  IF ~Upgradable(request, disk) THEN proposals
  ELSE proposals \o SuiteGate(proposals) \o Judged(proposals)
         \o TestPins(proposals, disk) \o TamperPins(proposals, disk)

\* Whether the upgrade raises: the tests' tree has no digest.
UpgradeRaises(proposals, request, disk) ==
  /\ Upgradable(request, disk) /\ IsDir(disk, Tests) /\ ~WritesTests(proposals)
  /\ ~\E i \in DOMAIN proposals : proposals[i].kind = "tree_digest"
  /\ TreeDigest(disk, Tests) = None

\* _criterion_from_dict: the alias of a command's name, the fields of its kind, and
\* fields nobody knows left out; <<>> when it cannot be parsed.
Parsed(c) ==
  LET named == IF c.command = None THEN [c EXCEPT !.command = c.alias] ELSE c
      must  == IF c.must = None THEN [c EXCEPT !.must = TRUE] ELSE c
  IN CASE c.shape = "bad"                                 -> <<>>
       [] c.kind = "command" /\ named.command = None      -> <<>>
       [] c.kind = "command"                              -> <<named>>
       [] c.kind = "file_diff" /\ c.path = None           -> <<>>
       [] c.kind = "file_diff"                            -> <<must>>
       [] c.kind = "tree_digest" /\ None \in {c.path, c.same} -> <<>>
       [] OTHER                                           -> <<c>>

\* DeterministicSynthesizer: never an empty contract.
Synthesized(proposals) ==
  LET criteria == FlattenSeq([i \in DOMAIN proposals |-> Parsed(proposals[i])])
  IN IF criteria = <<>> THEN <<Rubric>> ELSE criteria

\* ContractValidator.validate: the errors a synthesized contract can have.
Errors(criteria, request, ambiguous, threshold) ==
  {e \in {"tools", "commands", "ambiguity"} :
     \/ e = "tools" /\ ~(request.tools \subseteq Tools)
     \/ /\ e = "commands" /\ Commands # <<>>
        /\ \E i \in DOMAIN criteria :
             criteria[i].kind = "command" /\ criteria[i].command \notin Range(Commands)
     \/ e = "ambiguity" /\ ambiguous /\ threshold <= 0}

\* ModelBackedFalsifier: an outage, an empty text and "none" are no objection; any
\* other text is one, JSON or not.
Objects(reply) == reply \in {"counter", "prose", "no_field"}

(***************************************************************************)
(* Gates, reviewers and the release law.                                   *)
(***************************************************************************)
FileHolds(disk, c) ==
  LET r == Read(disk, c.path)
  IN IF ~r.ok THEN ~c.must /\ r.kind = "not_found"
     ELSE /\ c.must /\ ~r.cut
          /\ c.same # None => r.data = c.same
          /\ IsText(r.data)
          /\ c.needle # None => Has(r.data, c.needle)

TreeHolds(disk, c) ==
  TreeDigest(disk, c.path) # None /\ TreeDigest(disk, c.path) = c.same

\* The gates that need no command: what the runtime artifact of a schema criterion is
\* worth is free, and the only policy there is forbids tools.
Holds(disk, c, used, artifact) ==
  CASE c.kind = "file_diff"   -> FileHolds(disk, c)
    [] c.kind = "tree_digest" -> TreeHolds(disk, c)
    [] c.kind = "schema"      -> artifact
    [] c.kind = "policy"      -> used \cap c.tools = {}
    [] OTHER                  -> TRUE

\* A reviewer that fails, or whose answer cannot be parsed, has not passed it.
Votes(reply) == reply = "passed"

\* SoftRubricChecker: agreement is a percentage of the panel.
Accepted(i, votes) ==
  /\ Panel >= MinReviewers /\ i \in DOMAIN Calibration
  /\ Calibration[i].samples > 0
  /\ Panel >= Calibration[i].reviewers
  /\ 100 * votes >= Calibration[i].agreement * Panel

Soft(criteria) == {i \in DOMAIN criteria : criteria[i].kind = "soft_rubric"}

\* Mutant of Decide: the budget is looked at before the gates.
DecideBudgetFirst(criteria, hard, soft, exceeded) ==
  IF exceeded THEN "abstained"
  ELSE IF \E i \in DOMAIN hard : ~hard[i] THEN "failed"
  ELSE IF \E i \in Soft(criteria) : ~soft[i] THEN "abstained"
  ELSE "verified"

\* ReleaseLaw.decide.  hard and soft are functions on the positions evaluated.
Decide(criteria, hard, soft, exceeded) ==
  IF \/ \E i \in DOMAIN criteria : criteria[i].kind \notin Kinds
     \/ \E i \in DOMAIN criteria : criteria[i].kind \in HardKinds /\ i \notin DOMAIN hard
     \/ ~(Soft(criteria) \subseteq DOMAIN soft)
    THEN "failed"
  ELSE IF \E i \in DOMAIN hard \cap DOMAIN criteria : ~hard[i] THEN "failed"
  ELSE IF exceeded THEN "abstained"
  ELSE IF \E i \in Soft(criteria) : ~soft[i] THEN "abstained"
  ELSE "verified"

(***************************************************************************)
(* The run.                                                                *)
(***************************************************************************)
VARIABLES
  phase,      \* where the run is, or how it ended
  request,    \* the ProjectRequest
  disk,       \* the workspace
  scan,       \* RepoAnalysis: what the scan of intake saw, while compile() has it
  proposed,   \* AcceptanceAnalysis.criteria
  ambiguous,  \* whether some ambiguity is unresolved
  threshold,  \* recommended_abstention_threshold, in halves
  criteria,   \* contract.acceptance_criteria
  reason,     \* why the compilation raised
  left,       \* cells of the graph that have not completed
  called,     \* the tools the conversation of the cell's worker names
  audit,      \* tools_used
  hard,       \* the results of the gates, in order
  soft,       \* the verdicts on the rubrics
  exceeded,   \* usage.exceeds(contract.budget)
  edits,      \* edits made so far
  restarts,   \* attempts that failed and runs resumed so far
  asserted,   \* history: the files the analysis said must exist
  shut,       \* history: what could not be opened or listed during that scan
  compiled,   \* history: the files when the criteria were made
  ran,        \* history: the tools that ran for this contract
  intact      \* history: files a gate saw as compiled, no command having run since

compile == <<scan, proposed, ambiguous, threshold, criteria, reason,
             asserted, compiled, shut>>
work    == <<left, called, audit, edits, restarts, ran>>
gates   == <<hard, soft, intact>>
vars    == <<phase, request, disk, compile, work, gates, exceeded>>

Verdicts == {"verified", "abstained", "failed"}

Compiled == {"proposed", "sound", "working", "verifying"} \cup Verdicts

\* The scan keeps the type Scan gives it, and with shut matters to ViewsSaySo alone.
TypeOK ==
  /\ phase \in {"compiling", "analysed", "rejected"} \cup Compiled
  /\ request \in Requests
  /\ disk \in Disk /\ compiled \in Disk
  /\ proposed \in Seq(Known) /\ criteria \in Seq(Known)
  /\ ambiguous \in BOOLEAN /\ threshold \in Int
  /\ reason \in {"", "analysis", "tree", "threshold", "counter", "invalid"}
  /\ left \in 0 .. 2 /\ (left = 0 => phase \in {"verifying"} \cup Verdicts)
  /\ {called, audit, ran} \subseteq SUBSET {"write", "create", "replace", "cmd"}
  /\ edits \in 0 .. MaxEdits /\ restarts \in 0 .. MaxRestarts
  /\ hard \in Seq(BOOLEAN) /\ Len(hard) <= Len(criteria)
  /\ DOMAIN soft \subseteq Soft(criteria) /\ soft \in [DOMAIN soft -> BOOLEAN]
  /\ phase \in {"verifying"} \cup Verdicts \/ (hard = <<>> /\ soft = <<>>)
  /\ exceeded \in BOOLEAN
  /\ intact \subseteq Paths

Ended == {"rejected", "verified", "abstained", "failed"}

\* What a command may leave of the files.
Touched(files) == {files} \cup {[files EXCEPT ![s.path] = s.new] : s \in Scribbles}

Init ==
  /\ phase = "compiling"
  /\ request \in Requests
  /\ disk \in Disks
  /\ scan = Nothing /\ shut = {}
  /\ proposed = <<>> /\ ambiguous = FALSE /\ threshold = 1
  /\ criteria = <<>> /\ reason = "" /\ compiled = disk
  /\ asserted = {}
  /\ left \in 1 .. 2 /\ called = {} /\ audit = {} /\ edits = 0 /\ restarts = 0 /\ ran = {}
  /\ hard = <<>> /\ soft = <<>> /\ intact = {}
  /\ exceeded = FALSE

Raise(why) == phase' = "rejected" /\ reason' = why

\* What a list of proposals says must exist, in a way that can be parsed.
Asserted(proposals) ==
  {c.path : c \in {d \in Range(proposals) : /\ d.kind = "file_diff" /\ d.must = TRUE
                                           /\ d.path # None /\ d.shape \in {"ok", "extra"}}}

\* gather() of run_requirements, run_repo and run_acceptance, which share nothing.  A
\* failed call leaves the goal as the scope and a rubric as the criterion; a reply
\* whose other fields have the wrong types raises out of gather().  A goal that names
\* a file and its text asks no model.
Analyse ==
  /\ phase = "compiling"
  /\ shut' \in Outages
  /\ scan' = Scan(disk, shut')
  /\ compiled' = disk
  /\ \E answer \in Answers, unclear \in BOOLEAN :
       LET asked == request.file = None /\ answer # None
       IN /\ proposed' = Proposals(request, answer, disk)
          /\ ambiguous' = ((request.file = None /\ unclear) \/ (asked /\ answer.ambiguous))
          /\ asserted' = IF asked THEN Asserted(answer.criteria)
                         ELSE IF request.file # None THEN {request.file.path} ELSE {}
          /\ threshold' = IF asked THEN answer.threshold ELSE threshold
          /\ IF asked /\ answer.malformed
               THEN Raise("analysis") ELSE phase' = "analysed" /\ UNCHANGED reason
  /\ UNCHANGED <<request, disk, criteria, work, gates, exceeded>>

\* compile() from gather() to ContractProposed.
Propose ==
  /\ phase = "analysed"
  /\ LET kept == Normalized(proposed)
     IN IF UpgradeRaises(kept, request, disk) THEN Raise("tree") /\ UNCHANGED criteria
        ELSE IF threshold \notin 0 .. 2 THEN Raise("threshold") /\ UNCHANGED criteria
        ELSE /\ criteria' = Synthesized(Upgraded(kept, request, disk))
             /\ phase' = "proposed" /\ UNCHANGED reason
  /\ scan' = Nothing /\ shut' = {}
  /\ UNCHANGED <<request, disk, proposed, ambiguous, threshold, asserted, compiled,
                 work, gates, exceeded>>

Falsify ==
  /\ phase = "proposed"
  /\ \E reply \in {"down", "empty", "none", "counter", "prose", "no_field"} :
       IF Objects(reply) THEN Raise("counter")
       ELSE phase' = "sound" /\ UNCHANGED reason
  /\ UNCHANGED <<request, disk, scan, proposed, ambiguous, threshold, criteria,
                 asserted, compiled, shut, work, gates, exceeded>>

Validate ==
  /\ phase = "sound"
  /\ IF Errors(criteria, request, ambiguous, threshold) # {}
       THEN Raise("invalid")
       ELSE phase' = "working" /\ UNCHANGED reason
  /\ UNCHANGED <<request, disk, scan, proposed, ambiguous, threshold, criteria,
                 asserted, compiled, shut, work, gates, exceeded>>

Called(tool) == called' = called \cup {tool} /\ ran' = ran \cup {tool}

\* A tool call of a worker that edits a file, or fails and leaves it.
Edit ==
  /\ phase = "working" /\ edits < MaxEdits
  /\ \E e \in Edits :
       /\ disk' = (CASE e.tool = "write"   -> Write(disk, e.path, e.new)
                     [] e.tool = "create"  -> Create(disk, e.path, e.new)
                     [] e.tool = "replace" -> Replace(disk, e.path, e.old, e.new)).disk
       /\ Called(e.tool)
  /\ edits' = edits + 1
  /\ UNCHANGED <<phase, request, compile, left, audit, restarts, gates, exceeded>>

\* A named command the worker runs: it takes the lease, and writes what it likes.
RunCommand ==
  /\ phase = "working" /\ edits < MaxEdits /\ Commands # <<>>
  /\ disk' \in Touched(disk)
  /\ Called("cmd")
  /\ edits' = edits + 1
  /\ UNCHANGED <<phase, request, compile, left, audit, restarts, gates, exceeded>>

\* Compaction drops the oldest rounds of the conversation, calls included: rounds of
\* tools that only read, which are not modelled, push them out.
Compact ==
  /\ phase = "working" /\ called # {}
  /\ \E kept \in SUBSET called : kept # called /\ called' = kept
  /\ UNCHANGED <<phase, request, disk, compile, left, audit, edits, restarts, ran, gates,
                 exceeded>>

\* _tool_names_used reads the conversation the attempt that succeeded came back with.
CompleteCell ==
  /\ phase = "working"
  /\ left' = left - 1
  /\ audit' = audit \cup called
  /\ called' = {}
  /\ phase' = IF left = 1 THEN "verifying" ELSE phase
  /\ IF left = 1 THEN exceeded' \in BOOLEAN ELSE UNCHANGED exceeded
  /\ UNCHANGED <<request, disk, compile, edits, restarts, ran, gates>>

\* An attempt that failed hands its conversation to the next one, one that raised has
\* none to hand on.
FailAttempt ==
  /\ phase = "working" /\ restarts < MaxRestarts
  /\ \E carried \in BOOLEAN : called' = IF carried THEN called ELSE {}
  /\ restarts' = restarts + 1
  /\ UNCHANGED <<phase, request, disk, compile, left, audit, edits, ran, gates, exceeded>>

\* The run stops and resume_async takes its contract into a new one: the cells that
\* completed stay so, tools_used starts empty, and the conversation of the cell at
\* work comes back with its checkpoint.
Resume ==
  /\ phase \in {"working", "verifying", "failed", "abstained"} /\ restarts < MaxRestarts
  /\ phase' = IF left = 0 THEN "verifying" ELSE "working"
  /\ \E checkpoint \in BOOLEAN : called' = IF checkpoint THEN called ELSE {}
  /\ audit' = {}
  /\ hard' = <<>> /\ soft' = <<>> /\ intact' = {}
  /\ restarts' = restarts + 1
  /\ UNCHANGED <<request, disk, compile, left, edits, ran, exceeded>>

\* The files of this criterion that are as they were compiled.
SameAsCompiled(c) ==
  {p \in IF c.kind = "tree_digest" THEN {q \in Paths : IsStrictPrefix(c.path, q)}
         ELSE {c.path} \cap Paths : disk[p] = compiled[p]}

\* HardGateVerifier: the next criterion.  A checker that raises has failed; a command
\* of no profile has too, and is not run.  A rubric is not a gate.
Check ==
  /\ phase = "verifying" /\ Len(hard) < Len(criteria)
  /\ LET c == criteria[Len(hard) + 1]
     IN \/ /\ c.kind = "command" /\ c.command \in Range(Commands)
           /\ \E code \in {0, 1, None} : hard' = Append(hard, code = c.exit)
           /\ disk' \in Touched(disk)
           /\ intact' = {}
        \/ /\ c.kind = "command" /\ c.command \notin Range(Commands)
           /\ hard' = Append(hard, FALSE)
           /\ UNCHANGED <<disk, intact>>
        \/ /\ c.kind # "command"
           /\ \E artifact, crash \in BOOLEAN :
                hard' = Append(hard, ~crash /\ Holds(disk, c, audit, artifact))
           /\ intact' = IF c.kind \in {"file_diff", "tree_digest"}
                          THEN intact \cup SameAsCompiled(c) ELSE intact
           /\ UNCHANGED disk
  /\ UNCHANGED <<phase, request, compile, work, soft, exceeded>>

\* SoftRubricChecker.check: the next rubric, once every criterion went through the
\* gates, whatever they found.  Each reviewer of the panel answers or fails.
Review ==
  /\ phase = "verifying" /\ Len(hard) = Len(criteria)
  /\ \E i \in Soft(criteria) \ DOMAIN soft :
       \E replies \in [1 .. Panel -> {"passed", "refused", "unread", "down"}] :
         LET votes == Cardinality({r \in 1 .. Panel : Votes(replies[r])})
         IN soft' = [j \in DOMAIN soft \cup {i} |->
                       IF j = i THEN Accepted(i, votes) ELSE soft[j]]
  /\ UNCHANGED <<phase, request, disk, compile, work, hard, intact, exceeded>>

Release ==
  /\ phase = "verifying" /\ Len(hard) = Len(criteria)
  /\ DOMAIN soft = Soft(criteria)
  /\ phase' = Decide(criteria, hard, soft, exceeded)
  /\ UNCHANGED <<request, disk, compile, work, gates, exceeded>>

Done == phase \in Ended /\ UNCHANGED vars

Next ==
  \/ Analyse \/ Propose \/ Falsify \/ Validate
  \/ Edit \/ RunCommand \/ Compact \/ CompleteCell \/ FailAttempt \/ Resume
  \/ Check \/ Review \/ Release
  \/ Done

Spec == Init /\ [][Next]_vars

(***************************************************************************)
(* What has to hold.                                                       *)
(***************************************************************************)
\* The files the upgrade keeps as they are.  With no tests/ directory the first MaxPins
\* tests at the root, and no test that is added there; with one the whole of it, what is
\* added too, unless the model proposed a criterion on a path under tests/ (then the
\* first MaxPins tests in it, and its conftest) or a tree_digest, of whatever path (then
\* none).  Next to them the configuration of pytest; and never a file that the model
\* had a file_diff criterion on, whatever it asserts.
Kept ==
  LET asked == Normalized(proposed)
      tests == CASE ~IsDir(compiled, Tests)    -> Range(Few(RootTests(compiled)))
                 [] IsDir(compiled, Tests) /\ WritesTests(asked) ->
                      Range(Few({p \in Under(compiled, Tests) : IsTest(p)})) \cup {Conftest}
                 [] OTHER ->
                      {p \in Paths : /\ IsStrictPrefix(Tests, p)
                                     /\ \A i \in DOMAIN asked : asked[i].kind # "tree_digest"}
  IN {p \in tests \cup Tampers : ~Claims(asked, p)}

\* A run that was to make the tests pass is verified only if a gate saw the kept files as
\* they were compiled, after the last command had run: through edits, commands that
\* write, restarts and resumed runs (contracting.py:924, hard_gates.py:177).
VerifiedTestsAreCompiled ==
  phase = "verified" /\ Upgradable(request, compiled) => Kept \subseteq intact

\* A file the analysis said must exist is asserted by the contract, whatever needle was
\* invented for it; a proposal for the same file that cannot be parsed may take it along
\* (contracting.py:176).
AssertionsSurvive ==
  phase = "proposed" =>
    \A p \in asserted :
      \/ \E i \in DOMAIN proposed : proposed[i].path = p /\ proposed[i].shape = "bad"
      \/ \E j \in DOMAIN criteria :
           criteria[j].kind = "file_diff" /\ criteria[j].path = p /\ criteria[j].must

\* The verdict: verified if every gate passed, every rubric was accepted by a panel
\* that was calibrated for it and the budget held; failed exactly if a gate did not
\* pass, whatever the reviewers and the budget say (release_law.py:15).
VerdictIsEarned ==
  phase \in {"verified", "abstained", "failed"} =>
    /\ DOMAIN hard = DOMAIN criteria /\ criteria # <<>>
    /\ (phase = "failed") <=> (\E i \in DOMAIN hard : ~hard[i])
    /\ phase = "verified" =>
         /\ ~exceeded
         /\ \A i \in Soft(criteria) :
              soft[i] /\ i \in DOMAIN Calibration /\ Calibration[i].samples > 0

\* A bounded view that leaves something out at a bound says so: the scan of intake, a
\* search, a listing.  What cannot be opened or listed is left out without a word of it,
\* itself and nothing but what is under it (intake_scan.py:11, restricted.py:517).
ViewsSaySo ==
  LET seen(out) == {p \in Files(disk) : ~Closed(out, p)}
      near == {p \in seen(shut) : Len(p) <= 2 /\ Skipped \cap Range(p) = {}}
      dirs == {<<>>} \cup {First(p, n) : p \in Paths, n \in 1 .. 2}
  IN /\ phase = "analysed" /\ ~scan.cut => near \subseteq scan.files
     /\ phase = "working" => \A out \in Outages :
          /\ \A w \in Words : LET found == Search(disk, out, w) IN
               ~found.cut => \A p \in seen(out) \ (Denied \cup out) :
                               {p} \X Occurrences(disk[p], w) \subseteq found.hits
          /\ \A d \in dirs : LET list == Listing(disk, out, d) IN
               list.ok /\ ~list.cut =>
                 \A p \in Under(disk, d) : Has(list.data, p[Len(d) + 1])

\* A replacement that succeeds had one place to make it.  A patch of two does what its
\* replacements would do one after the other, and succeeds whenever they do and the file
\* had both old texts from the start; but it succeeds too where they would be refused,
\* when an old text has several places (the first is taken) or, once the other was
\* replaced, none or several (restricted.py:722, 799).
EditsAreUnambiguous ==
  phase \in {"compiling", "working"} =>
    \A e, f \in {x \in Edits : x.tool = "replace"} : e.path = f.path =>
      LET once   == Replace(disk, e.path, e.old, e.new)
          twice  == Replace(once.disk, f.path, f.old, f.new)
          both   == Patch(disk, e.path, <<e, f>>)
          places(files, word) == Cardinality(Occurrences(files[e.path], word))
      IN /\ once.ok /\ e.old # e.new => ~Has(once.disk[e.path], e.old)
         /\ once.ok /\ twice.ok /\ Has(disk[e.path], f.old) => both.ok
         /\ both.ok => \/ once.ok /\ twice.ok /\ both.disk = twice.disk
                       \/ places(disk, e.old) > 1 \/ places(once.disk, f.old) # 1

\* No criterion forbids a tool that ran for the contract of a verified run
\* (hard_gates.py:394: "the authoritative tool audit").
ForbiddenToolNeverRan ==
  phase = "verified" =>
    \A i \in DOMAIN criteria : criteria[i].kind = "policy" => criteria[i].tools \cap ran = {}
==============================================================================
