------------------------------- MODULE Bench -------------------------------
(* The benchmark runner: how cases are prepared, scored and folded into gates.*)
EXTENDS Computation

-----------------------------------------------------------------------------
(***************************************************************************)
(* The benchmark runner (bin/axe-bench.rs): how a case of the manifest is  *)
(* analysed, with evidence from running the fixture where that is asked    *)
(* for, how its findings are matched with what the manifest expects, and   *)
(* how the cases are folded into the gates.  Names are compared without    *)
(* regard to case in the code and are model strings here; an optional      *)
(* constraint of an expectation is the set of values it allows.            *)
(***************************************************************************)

None == "None"
Unbounded == 1000        \* an optional limit that is not given
Scale == 60              \* the fixed point of the grades: 60 stands for 1.0

\* What serde fills in when the manifest leaves a field out.
ExpectedFinding(class, anyKind, anyApi) ==
    [bug_class |-> class, kinds |-> anyKind, apis |-> anyApi, min_status |-> None,
     packet |-> FALSE, evidence_source |-> None, min_rank |-> Unbounded, label |-> class,
     duplicates |-> TRUE, missed_ok |-> FALSE]
DynamicProbe(observed) ==
    [source |-> "safe_fixture_probe", status |-> "reached_only", observed |-> observed]
DynamicJob(kind, observed) ==
    [kind |-> kind, source |-> None, status |-> "reached_only", observed |-> observed]
BenchmarkCase ==
    [expected_clean |-> FALSE, signatures |-> <<>>, expected |-> <<>>, probe |-> <<>>, jobs |-> <<>>,
     allowed_misses |-> Unbounded, fp_cap |-> Unbounded, need_dynamic |-> FALSE,
     need_packets |-> FALSE, top_k |-> 10]

-----------------------------------------------------------------------------
(* Matching one finding.                                                     *)

NoPacket == [status |-> None, sources |-> {}, sink |-> None]

StatusRank(s) == CASE s = "confirmed_trigger" -> 2 [] s = "reached_only" -> 1 [] OTHER -> 0
CountsAsConfirmation(s) == s \in {"confirmed_trigger", "reached_only"}

DynamicStatusFor(f, packet) ==
    IF f.status # None THEN f.status ELSE packet.status
EvidenceSourcesFor(f, packet) == f.sources \cup packet.sources

ShapeMatches(f, e) == f.bug_class = e.bug_class /\ f.kind \in e.kinds /\ f.api \in e.apis

ExpectedFindingMatches(f, packet, e, rank) ==
    /\ rank <= e.min_rank
    /\ ShapeMatches(f, e)
    /\ e.packet => packet # NoPacket
    /\ e.min_status # None =>
         LET status == DynamicStatusFor(f, packet)
         IN  status # None /\ StatusRank(status) >= StatusRank(e.min_status)
    /\ e.evidence_source # None => e.evidence_source \in EvidenceSourcesFor(f, packet)

\* findings.jsonl, best risk first (the sort is stable), cut at top_k.
Before(rows, i) ==
    {j \in DOMAIN rows : rows[j].risk > rows[i].risk \/ (rows[j].risk = rows[i].risk /\ j < i)}
ReadFindings(rows, top_k) ==
    [n \in 1..Min({top_k, Len(rows)}) |->
        rows[CHOOSE i \in DOMAIN rows : Cardinality(Before(rows, i)) = n - 1]]

\* The packets the manifest of packets lists, by finding.
PacketOf(packets, f) == IF f.id \in DOMAIN packets THEN packets[f.id] ELSE NoPacket

-----------------------------------------------------------------------------
(* Evidence from running the fixture.                                        *)

DynamicJobSelected(selector, job) ==
    CASE selector = "off" -> FALSE
      [] selector \in {"auto", "all"} -> TRUE
      [] OTHER -> selector \in {job.kind, job.source}
JobAsProbe(job) ==
    [source |-> IF job.source = None THEN job.kind ELSE job.source,
     status |-> job.status, observed |-> job.observed]
DynamicExecutionRequested(c, args) ==
    c.probe # <<>> \/ \E i \in DOMAIN c.jobs : DynamicJobSelected(args.jobs, c.jobs[i])
DynamicExecutionBlocked(args, c) ==
    args.preset = "real-9" /\ ~args.allow /\ DynamicExecutionRequested(c, args)

\* A run of the fixture ends one way: it cannot be spawned, it outlives its
\* budget and is killed, it fails, its output lacks a marker, or it is good.
RunDynamicProbe(ending) ==
    [error |-> ending = "unspawned", succeeded |-> ending = "good"]

ProbeSatisfiesPolicy(probe, sink, preset) == preset = "real-9" => probe.observed = sink

\* One row per chain and sink, for the findings some expectation that may not
\* be missed allows this source for.
SynthesizeProbeEvidence(findings, packets, expected, probe, preset) ==
    LET SinkOf(f) == IF f.sink # None THEN f.sink ELSE PacketOf(packets, f).sink
        Wanted(r) == \E i \in DOMAIN expected :
                        /\ ~expected[i].missed_ok
                        /\ expected[i].evidence_source \in {None, probe.source}
                        /\ r <= expected[i].min_rank
                        /\ ShapeMatches(findings[r], expected[i])
    IN  {[chain |-> findings[r].chain, sink |-> SinkOf(findings[r]), source |-> probe.source,
          status |-> IF probe.status \in {"confirmed_trigger", "not_observed"} THEN probe.status
                     ELSE "reached_only",
          by |-> probe]
            : r \in {q \in DOMAIN findings :
                       /\ Wanted(q)
                       /\ findings[q].chain # None /\ SinkOf(findings[q]) # None
                       /\ ProbeSatisfiesPolicy(probe, SinkOf(findings[q]), preset)}}

RunDynamicJobs(c, args, endings, findings, packets) ==
    LET ran == {i \in DOMAIN c.jobs : DynamicJobSelected(args.jobs, c.jobs[i])}
    IN  [error |-> \E i \in ran : RunDynamicProbe(endings[i]).error,
         rows |-> UNION {SynthesizeProbeEvidence(findings, packets, c.expected,
                                                 JobAsProbe(c.jobs[i]), args.preset)
                           : i \in {j \in ran : RunDynamicProbe(endings[j]).succeeded}}]

\* The analyser gives a finding the best row of its chain that names its sink.
Confirmed(f, rows) ==
    LET mine == {r \in rows : r.chain = f.chain /\ r.sink = f.sink}
    IN  IF mine = {} THEN f
        ELSE [f EXCEPT !.status = (CHOOSE r \in mine : \A q \in mine :
                                      StatusRank(r.status) >= StatusRank(q.status)).status,
                       !.sources = {r.source : r \in mine}]

\* The static pass, the runs of the fixture, the second pass with their rows.
\* w is what this case's tools do: the rows and packets an analysis writes,
\* whether each of the two passes fails, how each run of the fixture ends.
AnalyseCase(c, args, w) ==
    IF /\ args.preset \in {"real-8", "real-9"}
       /\ DynamicExecutionRequested(c, args)
       /\ ~DynamicExecutionBlocked(args, c)
    THEN LET static == ReadFindings(w.rows, c.top_k)
             probed == c.probe # <<>> /\ RunDynamicProbe(w.endings[1]).succeeded
             jobs == RunDynamicJobs(c, args, Tail(w.endings), static, w.packets)
             rows == jobs.rows \cup
                     (IF probed THEN SynthesizeProbeEvidence(static, w.packets, c.expected, c.probe[1], args.preset)
                      ELSE {})
         IN  [failed |-> \/ w.fails_at \in {"static", "second"}
                         \/ c.probe # <<>> /\ RunDynamicProbe(w.endings[1]).error
                         \/ jobs.error,
              evidence |-> rows,
              rows |-> [i \in DOMAIN w.rows |-> Confirmed(w.rows[i], rows)]]
    ELSE [failed |-> w.fails_at = "second", evidence |-> {}, rows |-> w.rows]

-----------------------------------------------------------------------------
(* One case.                                                                 *)

CaseStatus(c, args, w) ==
    CASE w.prepare = "error" -> IF args.build_fixtures /\ w.build THEN "build_failed" ELSE "input_prepare_failed"
      [] w.prepare = "absent" -> "skipped_missing_input"
      [] AnalyseCase(c, args, w).failed -> "analysis_failed"
      [] OTHER -> "completed"

\* expected_match_counts.
MatchCounts(c, found, packets) ==
    [i \in DOMAIN c.expected |->
        Cardinality({r \in DOMAIN found :
            ExpectedFindingMatches(found[r], PacketOf(packets, found[r]), c.expected[i], r)})]

\* false_positive_findings, as ranks.
FalsePositives(c, found, packets) ==
    {r \in DOMAIN found :
        \/ c.expected_clean
        \/ /\ found[r].bug_class \notin Range(c.signatures)
           /\ \A i \in DOMAIN c.expected : ~ShapeMatches(found[r], c.expected[i])}

Tally(c, found, packets) ==
    LET counts == MatchCounts(c, found, packets)
        dynamic == {r \in DOMAIN found :
                      CountsAsConfirmation(DynamicStatusFor(found[r], PacketOf(packets, found[r])))}
    IN  [counts |-> counts,
         matched_signatures |-> {found[r].bug_class : r \in DOMAIN found} \cap Range(c.signatures),
         matched |-> {i \in DOMAIN counts : counts[i] > 0},
         missed |-> {i \in DOMAIN counts : counts[i] = 0 /\ ~c.expected[i].missed_ok},
         false_positives |-> FalsePositives(c, found, packets),
         packets |-> Cardinality({r \in DOMAIN found : PacketOf(packets, found[r]) # NoPacket}),
         dynamic |-> dynamic,
         sources |-> [r \in dynamic |-> EvidenceSourcesFor(found[r], PacketOf(packets, found[r]))]]

Reason(r, holds) == IF holds THEN {r} ELSE {}
GateReasons(c, args, t) ==
    Reason(<<"missing_required_dynamic_confirmation">>, c.need_dynamic /\ t.dynamic = {})
    \cup Reason(<<"vulnerable_fixture_execution_not_allowed">>, DynamicExecutionBlocked(args, c))
    \cup Reason(<<"missing_required_proof_packets">>, c.need_packets /\ t.packets = 0)
    \cup {<<"missed_expected_finding", c.expected[i].label>> : i \in t.missed}
    \cup {<<"duplicate_expected_match", c.expected[i].label>> :
            i \in {j \in DOMAIN t.counts : t.counts[j] > 1 /\ ~c.expected[j].duplicates}}
    \cup Reason(<<"expected_clean_had_findings">>, c.expected_clean /\ t.false_positives # {})
    \cup Reason(<<"missed_expected_findings_above_allowed">>, Cardinality(t.missed) > c.allowed_misses)
    \cup Reason(<<"false_positive_findings_above_cap">>, Cardinality(t.false_positives) > c.fp_cap)

Required(c) == {i \in DOMAIN c.expected : ~c.expected[i].missed_ok}
ExpectedTotal(c) == Len(c.signatures) + Cardinality(Required(c))

\* A ratio in fixed point; without a denominator a clean case is perfect.
Ratio(n, d, clean) == IF d = 0 THEN (IF clean THEN Scale ELSE 0) ELSE (Scale * n) \div d

\* Mutant: the precision is taken over what matched.
GradeMatched(c, reasons, t) ==
    LET tp == IF c.expected_clean THEN 0
              ELSE Cardinality(t.matched_signatures) + Cardinality(t.matched \cap Required(c))
        fp == Cardinality(t.false_positives)
        precision == Ratio(tp, Max({tp, Cardinality(t.matched)}), c.expected_clean)
        recall == Ratio(tp, ExpectedTotal(c), c.expected_clean)
        grade == Scale + 4 * precision
        level == IF recall >= Scale THEN grade ELSE Min({grade, 4 * Scale})
    IN  [true_positives |-> tp, precision_grade |-> grade, recall |-> recall,
         collapsed |-> Ratio(Cardinality(t.matched), Cardinality(t.matched) + fp, c.expected_clean),
         level |-> IF reasons = {} THEN level ELSE Min({level, 4 * Scale})]

Grade(c, reasons, t) ==
    LET tp == IF c.expected_clean THEN 0
              ELSE Cardinality(t.matched_signatures) + Cardinality(t.matched \cap Required(c))
        fp == Cardinality(t.false_positives)
        precision == Ratio(tp, tp + fp, c.expected_clean)
        recall == Ratio(tp, ExpectedTotal(c), c.expected_clean)
        grade == Scale + 4 * precision
        level == IF recall >= Scale THEN grade ELSE Min({grade, 4 * Scale})
    IN  [true_positives |-> tp, precision_grade |-> grade, recall |-> recall,
         collapsed |-> Ratio(Cardinality(t.matched), Cardinality(t.matched) + fp, c.expected_clean),
         level |-> IF reasons = {} THEN level ELSE Min({level, 4 * Scale})]

ScoreCase(c, args, w) ==
    LET run == AnalyseCase(c, args, w)
        found == ReadFindings(run.rows, c.top_k)
        t == Tally(c, found, w.packets)
        reasons == GateReasons(c, args, t)
    IN  IF CaseStatus(c, args, w) # "completed"
        THEN [status |-> CaseStatus(c, args, w), of |-> c, evidence |-> {}]
        ELSE [status |-> "completed", of |-> c, evidence |-> run.evidence, found |-> found, tally |-> t,
              reasons |-> reasons, grade |-> Grade(c, reasons, t)]

-----------------------------------------------------------------------------
(* All cases.  A mean is compared through its sum.                           *)

MeanAtLeast(total, n, bound) == n > 0 /\ total >= bound * n

MissedLabels(x) == {x.of.expected[i].label : i \in x.tally.missed}

Totals(results) ==
    LET done == {k \in DOMAIN results : results[k].status = "completed"}
    IN  [completed |-> Cardinality(done),
         expected |-> SumFunction([k \in done |-> ExpectedTotal(results[k].of)]),
         matched |-> SumFunction([k \in done |-> LET x == results[k] IN
             Cardinality(x.tally.matched_signatures) +
             Cardinality({i \in Required(x.of) : x.of.expected[i].label \notin MissedLabels(x)})]),
         levels |-> SumFunction([k \in done |-> results[k].grade.level]),
         grades |-> SumFunction([k \in done |-> results[k].grade.precision_grade]),
         collapsed |-> SumFunction([k \in done |-> results[k].grade.collapsed]),
         false_positives |-> SumFunction([k \in done |-> Cardinality(results[k].tally.false_positives)]),
         failures |-> Cardinality({k \in done : results[k].reasons # {}}),
         sources |-> UNION {UNION {results[k].tally.sources[r] : r \in results[k].tally.dynamic} : k \in done},
         non_controlled |-> SumFunction([k \in done |->
             Cardinality({r \in results[k].tally.dynamic :
                             results[k].tally.sources[r] \ {"controlled_fixture"} # {}})]),
         unavailable_counted |-> \E k \in done : \E r \in results[k].tally.dynamic :
                                    results[k].found[r].bug_class = "dynamic_unavailable",
         blocked |-> \E k \in done : <<"vulnerable_fixture_execution_not_allowed">> \in results[k].reasons]

Real5Gate(s) ==
    /\ s.completed > 0 /\ s.expected > 0
    /\ MeanAtLeast(s.levels, s.completed, 5 * Scale)
    /\ 2 * s.grades >= 7 * Scale * s.completed
    /\ s.matched >= s.expected
    /\ s.failures = 0
    /\ ~s.unavailable_counted

Real8GateReasons(s) ==
    UNION {Reason("min_completed_cases", s.completed < 5),
           Reason("min_expected_findings", s.expected < 5),
           Reason("mean_estimated_level_below_5", ~MeanAtLeast(s.levels, s.completed, 5 * Scale)),
           Reason("precision_grade_below_4_5", ~MeanAtLeast(2 * s.grades, s.completed, 9 * Scale)),
           Reason("expected_recall_below_1", s.matched < s.expected),
           Reason("collapsed_precision_below_0_9", ~MeanAtLeast(10 * s.collapsed, s.completed, 9 * Scale)),
           Reason("false_positives_per_binary_above_0_25", 4 * s.false_positives > s.completed),
           Reason("requirement_failures", s.failures # 0),
           Reason("skipped_dynamic_source_counted", s.unavailable_counted),
           Reason("missing_non_controlled_dynamic_confirmation", s.non_controlled = 0)}

Real9DynamicSourceReasons(sources) ==
    Reason("safe_fixture_probe_disallowed", "safe_fixture_probe" \in sources)
    \cup Reason("missing_verified_dynamic_source", sources \cap {"debug_probe", "fuzz", "trace", "concolic"} = {})

Real9GateReasons(s, stageReasons) ==
    Real8GateReasons(s) \cup Real9DynamicSourceReasons(s.sources) \cup stageReasons
    \cup Reason("vulnerable_fixture_execution_not_allowed", s.blocked)

\* The scale of 0 to 10, in halves of the fixed point.
OperationalScale(gates, s) ==
    CASE gates.real9 -> 9 * Scale
      [] gates.real8 -> 8 * Scale
      [] gates.real5 -> 5 * Scale + Scale \div 2
      [] s.completed > 0 -> Min({s.levels \div s.completed, 5 * Scale})
      [] OTHER -> 0

\* The whole run.  Findings that cannot be read back end it with no summary.
RunBenchmark(args, cases, worlds, stageReasons) ==
    LET results == [k \in DOMAIN cases |-> ScoreCase(cases[k], args, worlds[k])]
        s == Totals(results)
        gates == [real5 |-> Real5Gate(s),
                  real8 |-> args.preset = "real-8" /\ Real8GateReasons(s) = {},
                  real9 |-> args.preset = "real-9" /\ Real9GateReasons(s, stageReasons) = {}]
        aborted == \E k \in DOMAIN results : results[k].status = "completed" /\ worlds[k].unreadable
    IN  IF aborted THEN [written |-> IF args.preset = "real-9" THEN {"real9_stage"} ELSE {}, results |-> <<>>]
        ELSE [results |-> results, totals |-> s, gates |-> gates, scale |-> OperationalScale(gates, s),
              written |-> {"benchmark_summary", "benchmark_cases", "benchmark_findings", "benchmark_report"}
                          \cup (IF args.preset = "real-9" THEN {"real9_stage", "real9_grade"} ELSE {})]

-----------------------------------------------------------------------------
(***************************************************************************)
(* What the benchmark runner prepares before it analyses                   *)
(* (bin/axe-bench.rs): the pinned sources of the real-9 cases, checked out *)
(* with git, and the fixture a case is built from.  A case is              *)
(*   [url, ref, pinned, subdir, kind]: "None" where the manifest is silent,*)
(*   pinned when ref is a full SHA.                                        *)
(* w is what the machine answers: git present, the directory may be made,  *)
(* clone, fetch ("ok", "full" when only the second attempt works, "no"),   *)
(* checkout, the commit HEAD is at afterwards, which build files exist.    *)
(***************************************************************************)


StatusReady(s) == s \in {"ready", "fetched", "build_recipe_ready"}
StatusFailed(s) ==
    s \in {"toolchain_unavailable", "source_dir_not_git", "source_root_create_failed", "fetch_failed",
           "checkout_failed", "ref_mismatch", "build_recipe_missing"}

\* The directory of a source: the repository's name and the start of the ref.
SourceDirFor(url, ref) == <<url, ref>>

\* The status, HEAD, and what becomes of the directory.
Staged(s, head, d) == [status |-> s, checked_out |-> head, dir |-> d]

\* The pinned commit is fetched, shallow or whole, and checked out.
CheckoutPinned(ref, dir, w) ==
    IF w.fetch = "no" THEN Staged("fetch_failed", None, dir)
    ELSE IF ~w.checkout THEN Staged("checkout_failed", None, dir)
    ELSE IF w.lands # ref THEN Staged("ref_mismatch", w.lands, w.lands)
    ELSE Staged("fetched", ref, ref)

\* dir is "absent", "plain" (no .git), or the commit of its HEAD ("None" when
\* it has none).
StageGitSource(ref, dir, w) ==
    IF ~w.git THEN Staged("toolchain_unavailable", None, dir)
    ELSE IF dir = "plain" THEN Staged("source_dir_not_git", None, dir)
    ELSE IF dir = ref THEN Staged("ready", dir, dir)
    ELSE IF dir # "absent" THEN CheckoutPinned(ref, dir, w)
    ELSE IF ~w.mkdir THEN Staged("source_root_create_failed", None, dir)
    ELSE IF ~w.clone THEN Staged("fetch_failed", None, dir)
    ELSE CheckoutPinned(ref, None, w)

\* A plan only names commands: nothing is executed while staging.
FtsBuildPlan(c, w) == c.subdir # None /\ w.build_sh
CmakeBuildPlan(c, w) == w.cmake_lists /\ c.kind \in {"cmake_cares_aresfuzz", "cmake_libxml2_xmllint"}
BuildPlanForCase(c, w) == FtsBuildPlan(c, w) \/ CmakeBuildPlan(c, w)

CaseStageStatusForMode(mode, c, source, w) ==
    IF mode # "build" \/ ~StatusReady(source.status) THEN source.status
    ELSE IF BuildPlanForCase(c, w) THEN "build_recipe_ready"
    ELSE IF c.subdir # None THEN "build_recipe_missing"
    ELSE "source_ready_build_not_configured"

\* One case: the sources staged so far are kept by (url, ref).
StageCase(acc, c, mode, w) ==
    LET key == <<c.url, c.ref>>
        where == SourceDirFor(c.url, c.ref)
        source == IF key \in DOMAIN acc.staged THEN acc.staged[key]
                  ELSE StageGitSource(c.ref, acc.dirs[where], w)
        Row(s, head) == [of |-> c, status |-> s, checked_out |-> head]
        Unstaged(s) == [cases |-> Append(acc.cases, Row(s, None)), staged |-> acc.staged, dirs |-> acc.dirs]
    IN  IF c.url = None THEN Unstaged("no_external_source_metadata")
        ELSE IF c.ref = None THEN Unstaged("no_source_ref")
        ELSE IF mode = "off" THEN Unstaged("not_requested")
        ELSE IF ~c.pinned THEN Unstaged("manual_source_ref")
        ELSE [cases |-> Append(acc.cases, Row(CaseStageStatusForMode(mode, c, source, w), source.checked_out)),
              staged |-> [k \in DOMAIN acc.staged \cup {key} |-> IF k = key THEN source ELSE acc.staged[k]],
              dirs |-> IF key \in DOMAIN acc.staged THEN acc.dirs
                       ELSE [acc.dirs EXCEPT ![where] = source.dir]]

OverallStageStatus(mode, cases) ==
    LET failed == {i \in DOMAIN cases : StatusFailed(cases[i].status)}
        manual == {i \in DOMAIN cases : cases[i].status = "manual_source_ref"}
        pinned == {i \in DOMAIN cases : cases[i].of.ref # None /\ cases[i].of.pinned}
        ready  == {i \in DOMAIN cases : StatusReady(cases[i].status)}
    IN  IF cases = <<>> THEN "no_cases"
        ELSE IF mode = "off" THEN "not_requested"
        ELSE IF failed # {} THEN "partial"
        ELSE IF manual # {} THEN "manual_action_required"
        ELSE IF pinned # {} /\ Cardinality(ready) = Cardinality(pinned) THEN "ready"
        ELSE "partial"

StageReport(preset, mode, cases, dirs, w) ==
    IF preset # "real-9" THEN [status |-> "not_applicable", cases |-> <<>>, dirs |-> dirs]
    ELSE LET after[n \in 0..Len(cases)] ==
                 IF n = 0 THEN [cases |-> <<>>, staged |-> <<>>, dirs |-> dirs]
                 ELSE StageCase(after[n - 1], cases[n], mode, w)
             end == after[Len(cases)]
         IN  [status |-> OverallStageStatus(mode, end.cases), cases |-> end.cases, dirs |-> end.dirs]

StageGateReasons(report, mode) ==
    IF report.status = "not_applicable" \/ report.cases = <<>> \/ report.status = "ready" THEN {}
    ELSE IF mode = "build" THEN {"external_fixture_builds_not_ready"} ELSE {"external_sources_not_staged"}

-----------------------------------------------------------------------------
(* The input of a case: built into the fixture directory, or the manifest's  *)
(* own path.  files is the set of {"source", "output", "nominal"} that exist.*)

ShouldBuildFixture(args, files) ==
    \/ args.build_fixtures
    \/ /\ args.preset = "real-9"
       /\ \/ args.build = "always"
          \/ args.build = "missing" /\ "output" \notin files

SelectCCompiler(explicit, installed) == explicit \/ installed # {}

PrepareCaseInput(args, hasBuild, files, w) ==
    LET Use(path) == [ok |-> TRUE, path |-> path, files |-> files]
        built == IF w.writes_output THEN files \cup {"output"} ELSE files
        Fail(after) == [ok |-> FALSE, path |-> "nominal", files |-> after]
    IN  IF ~hasBuild \/ ~ShouldBuildFixture(args, files) THEN Use("nominal")
        ELSE IF args.build = "missing" /\ "output" \in files THEN Use("output")
        ELSE IF "source" \notin files \/ ~SelectCCompiler(w.explicit, w.installed) THEN Fail(files)
        ELSE IF ~w.compiles \/ "output" \notin built THEN Fail(built)
        ELSE [ok |-> TRUE, path |-> "output", files |-> built]

-----------------------------------------------------------------------------
(***************************************************************************)
(* One computation of each kind: a whole run, the staging of the cases,    *)
(* and the preparation of one input, twice in a row.                       *)
(***************************************************************************)

IsList(s) == Len(s) \in Nat /\ DOMAIN s = 1..Len(s)

\* What an analysis writes of its own accord confirms nothing: that is left to
\* the rows of evidence.
IsRow(f) ==
    /\ DOMAIN f = {"id", "bug_class", "kind", "api", "risk", "chain", "sink", "status", "sources"}
    /\ f.risk \in Nat /\ f.status = None
IsWorld(w) ==
    /\ IsList(w.rows) /\ \A i \in DOMAIN w.rows : IsRow(w.rows[i])
    /\ \A id \in DOMAIN w.packets : w.packets[id].status = None
IsCase(c) ==
    /\ IsList(c.expected) /\ IsList(c.signatures) /\ IsList(c.jobs)
    /\ c.expected_clean \in BOOLEAN /\ c.top_k \in Nat

IsScoreInput(x) ==
    /\ IsList(x.cases) /\ \A k \in DOMAIN x.cases : IsCase(x.cases[k])
    /\ IsList(x.worlds) /\ Len(x.worlds) = Len(x.cases)
    /\ \A k \in DOMAIN x.worlds : IsWorld(x.worlds[k])

\* A full SHA is a ref; each pinned source has a directory.
IsStageInput(x) ==
    /\ x.mode \in {"off", "fetch", "build"} /\ IsList(x.cases)
    /\ \A i \in DOMAIN x.cases : LET c == x.cases[i] IN
        c.pinned => c.ref # None /\ (c.url # None => SourceDirFor(c.url, c.ref) \in DOMAIN x.dirs)

IsPrepareInput(x) ==
    /\ x.files \subseteq {"source", "output", "nominal"}
    /\ x.args.build \in {"never", "missing", "always"}

ScoreRun(x) == RunBenchmark(x.args, x.cases, x.worlds, x.reasons)
StageRun(x) == StageReport("real-9", x.mode, x.cases, x.dirs, x.machine)

\* A run, and the same run again on the files it left.
PrepareTwice(x) ==
    LET first == PrepareCaseInput(x.args, x.build, x.files, x.machine)
    IN  <<first, PrepareCaseInput(x.args, x.build, first.files, x.machine)>>

ScoreStep == Compute("bench_score", ScoreRun)
StageStep == Compute("bench_stage", StageRun)
PrepareStep == Compute("bench_prepare", PrepareTwice)

BenchInit ==
    /\ result = NotYet
    /\ \/ family = "bench_score" /\ IsScoreInput(input)
       \/ family = "bench_stage" /\ IsStageInput(input)
       \/ family = "bench_prepare" /\ IsPrepareInput(input)

BenchNext == ScoreStep \/ StageStep \/ PrepareStep

BenchSpec == BenchInit /\ [][BenchNext]_avars

-----------------------------------------------------------------------------
\* A gate that passes hides nothing about the cases that were completed: each
\* found all that was required within its rank, and none has a false positive,
\* although the gates only ask for means, and for a recall counted by label.
PassedGateIsClean ==
    Done("bench_score") /\ result.of.results # <<>> /\ (result.of.gates.real5 \/ result.of.gates.real8 \/ result.of.gates.real9) =>
        \A k \in DOMAIN result.of.results : LET x == result.of.results[k] IN
            x.status = "completed" =>
                /\ x.tally.false_positives = {} /\ x.reasons = {}
                /\ \A i \in DOMAIN x.of.expected : ~x.of.expected[i].missed_ok =>
                     \E r \in DOMAIN x.found : r <= x.of.expected[i].min_rank /\ ShapeMatches(x.found[r], x.of.expected[i])

\* Under real-9 no fixture runs unless that was allowed, and what a run proves
\* is about the sink it was seen at: never a chain whose sink it did not reach.
EvidenceWasObserved ==
    Done("bench_score") /\ input.args.preset = "real-9" =>
        \A k \in DOMAIN result.of.results : LET x == result.of.results[k] IN
            /\ ~input.args.allow => x.evidence = {}
            /\ \A e \in x.evidence : e.by.observed = e.sink
            /\ x.status = "completed" =>
                 \A r \in x.tally.dynamic : \E e \in x.evidence : e.sink = x.found[r].sink

\* A source reported ready is at its pinned commit, and still is when all the
\* cases are staged; the report is ready only if every pinned case is, with a
\* plan for each in build mode: the gate has no other word for it.
Usable(r, dirs, mode, w) ==
    /\ r.checked_out = r.of.ref
    /\ dirs[SourceDirFor(r.of.url, r.of.ref)] = r.of.ref
    /\ mode = "build" => BuildPlanForCase(r.of, w)
ReadyMeansCheckedOut ==
    Done("bench_stage") =>
        LET report == result.of
        IN  \A i \in DOMAIN report.cases :
                \/ StatusReady(report.cases[i].status)
                \/ report.cases[i].of.pinned /\ StageGateReasons(report, input.mode) = {}
                => Usable(report.cases[i], report.dirs, input.mode, input.machine)

\* A built fixture is there when it is analysed, and running again with the
\* same settings analyses it again, unless only missing ones are built: then
\* the second run goes back to the path of the manifest.
RebuiltInputIsSame ==
    Done("bench_prepare") =>
        LET first == result.of[1] again == result.of[2]
        IN  first.ok /\ first.path = "output" =>
              /\ "output" \in first.files
              /\ again.ok
              /\ (input.args.build_fixtures \/ input.args.build # "missing") => again.path = "output"

\* A gate that passes, passes because the cases ran and found what they should.
BenchmarkIsHonest ==
    /\ PassedGateIsClean /\ EvidenceWasObserved
    /\ ReadyMeansCheckedOut /\ RebuiltInputIsSame
=============================================================================
