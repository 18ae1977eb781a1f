----------------------------- MODULE VulnSession -----------------------------
(***************************************************************************)
(* src/vuln/session.rs and what it drives: runs of the vulnerability       *)
(* search over one output directory.  A run takes the candidate chains of  *)
(* its program, builds a harness for each, joins dynamic evidence to them, *)
(* scores, stores the findings and writes the artifacts one file after the *)
(* other.  Between runs the harnesses of the last one are tried, and what  *)
(* is seen is attributed to them and given to the next run.                *)
(*                                                                         *)
(* A call may fail and the process may be killed at any step.  A list      *)
(* whose use is its order is a function on positions, with a hole where    *)
(* the code filters.  Scores are in hundredths, risks in thousandths.      *)
(***************************************************************************)
EXTENDS Integers, FiniteSets, Sequences

CONSTANTS
    Programs,         \* for each run, the chains discover_chains finds, in order
    LifetimeChains,   \* for each run, the chains discover_lifetime_candidates adds
    Contained(_),     \* the names scoring and the fixtures look for, in an API's name
    VulnOptions,      \* the options a run may be given
    Observations,     \* what trying the harnesses may show
    TopN,             \* size of top_findings in the bundle
    MaxRows,          \* bound: rows of explicit evidence
    MaxFaults         \* bound: failed calls and kills

\* The templates of load_v1_0, and LIFETIME_BUG_CLASS_IDS.
MemoryTemplates == {"unchecked_copy_length", "tainted_allocation_size", "integer_overflow_before_alloc",
                    "signed_unsigned_length_confusion", "missing_bounds_check_var_mismatch",
                    "dangerous_memory_perm_transition", "format_string_controlled"}
AuthTemplates == {"auth_check_after_action", "missing_caller_validation"}
V1Templates == MemoryTemplates \cup AuthTemplates \cup
               {"deserialization_to_dangerous_type", "path_traversal_to_file_op", "toctou_file_access"}
Lifetime == {"uaf_candidate", "double_free_candidate"}

Statuses == {"ConfirmedTrigger", "ReachedOnly", "NotObserved", "Unavailable"}

Chain == [id : STRING, template : V1Templates \cup Lifetime, source : STRING, from : Nat, api : STRING,
          function : Nat, site : Nat, mode : {"Exact", "Summary"}, hops : Nat, guards : Nat]

\* A run's chain ids are C-, L-DF- or L-UAF- and a counter: different within a
\* run, and used again for other chains in the next.
ASSUME VulnSessionAssumption ==
    /\ {TopN, MaxRows, MaxFaults} \subseteq Nat
    /\ Programs \in Seq(Seq(Chain)) /\ LifetimeChains \in Seq(Seq(Chain))
    /\ Len(LifetimeChains) = Len(Programs)
    /\ \A r \in DOMAIN Programs :
        LET all == Programs[r] \o LifetimeChains[r] IN
        /\ \A i, j \in DOMAIN all : all[i].id = all[j].id => i = j
        /\ \A i \in DOMAIN all : all[i].template \in Lifetime <=> i > Len(Programs[r])
    /\ VulnOptions # {}
    /\ \A o \in VulnOptions : {o.v1_1, o.lifetime, o.fixture} \subseteq BOOLEAN /\ o.threshold \in Nat
    /\ \A o \in Observations : o.kind \in {"crash", "trace", "solve", "quiet"}

VARIABLES
    stage,       \* "idle", the step the run is at, or "over"
    runs,        \* runs started
    options,     \* VulnOptions of this run
    explicit,    \* options.dynamic_evidence, in order
    chains,      \* chains, lifetime candidates last
    evidence,    \* what orchestrate returns, by position
    confirmations, \* confirmations_by_chain, by the position of the chain
    findings,    \* scored findings above the threshold, by the position of their chain
    at,          \* the artifact being written
    todo,        \* what is left of the store, or of the artifact
    ledger,      \* artifacts marked complete, with their records, in memory
    out_dir,     \* findings.sqlite, the other files by path, and run_status.json
    returned,    \* the last run returned Ok
    faults

session == <<runs, options, chains, evidence, confirmations, findings>>
writing == <<at, todo, ledger>>
vuln_vars == <<stage, session, writing, explicit, out_dir, returned, faults>>

NoFunction == [x \in {} |-> x]

VulnInit ==
    /\ stage = "idle" /\ runs = 0 /\ options \in VulnOptions
    /\ explicit = <<>> /\ chains = <<>> /\ evidence = NoFunction /\ confirmations = NoFunction
    /\ findings = NoFunction
    /\ at = 0 /\ todo = {} /\ ledger = {} /\ returned = FALSE /\ faults = 0
    /\ out_dir = [store |-> {}, files |-> NoFunction, status |-> [run |-> 0, artifacts |-> {}]]

-----------------------------------------------------------------------------
(* What the harnesses show                                                 *)

\* synthesize: H- and the chain's id; binary-only, so it stays a skeleton.
Harness(i) ==
    [chain |-> chains[i].id, bug_class |-> chains[i].template, source |-> chains[i].source, from |-> chains[i].from,
     api |-> chains[i].api, function |-> chains[i].function, site |-> chains[i].site, tier |-> "Skeleton"]

Row(h, status, source) == [chain |-> h.chain, pc |-> h.site, status |-> status, source |-> source]

\* attribute_crash: the fault at the sink confirms, the sink on the stack reaches.
CrashRows(o, h) ==
    IF o.fault = h.site THEN <<Row(h, "ConfirmedTrigger", "fuzz")>>
    ELSE IF h.site \in o.frames THEN <<Row(h, "ReachedOnly", "fuzz")>> ELSE <<>>

\* any_ref_targets_function; records of debuggers and traces carry no address.
Targets(ref, function) ==
    \/ ref.kind \in {"Instruction", "RawAddr", "Section"} /\ ref.va = function
    \/ ref.kind = "Range" /\ ref.start <= function /\ function < ref.end
    \/ ref.kind \in {"function", "function_symbol"} /\ function \in ref.named

\* attribute_event: the hash of the image is known and the event's own, and a
\* reference of the event targets the function of the sink.
TraceRows(o, h) ==
    IF o.expected # "" /\ o.process = o.expected /\ \E ref \in o.refs : Targets(ref, h.function)
    THEN <<Row(h, "ReachedOnly", "trace")>> ELSE <<>>

\* attribute_solve_report: a labelled query that is Sat with a model.
SolveRows(o, h) ==
    IF o.label # "" /\ o.status = "Sat" /\ o.model_bytes > 0 THEN <<Row(h, "ReachedOnly", "concolic")>> ELSE <<>>

\* DynamicEvidence::not_observed leaves the source empty.
QuietRows(h) == <<Row(h, "NotObserved", "")>>

RowsFor(o, h) ==
    CASE o.kind = "crash" -> CrashRows(o, h) [] o.kind = "trace" -> TraceRows(o, h)
      [] o.kind = "solve" -> SolveRows(o, h) [] o.kind = "quiet" -> QuietRows(h)

\* After a run that returned the caller attributes an observation to its harnesses,
\* one after the other: which ones it asks is its choice.
Observe(o, i) ==
    /\ stage = "idle" /\ returned /\ options.v1_1 /\ i \in DOMAIN chains
    /\ RowsFor(o, Harness(i)) # <<>> /\ Len(explicit) < MaxRows
    /\ explicit' = explicit \o RowsFor(o, Harness(i))
    /\ UNCHANGED <<stage, session, writing, out_dir, returned, faults>>

-----------------------------------------------------------------------------
(* Joining the evidence                                                    *)

SourceNames == <<"concolic", "controlled_fixture", "debug_probe", "fuzz", "safe_fixture_probe", "trace">>

\* requested_dynamic_sources: by name, the probes of the fixtures with any of them.
Requested(selector) ==
    LET named == CASE selector \in {"debug_probe", "fuzz", "trace", "concolic"} -> {selector}
                   [] selector = "both" -> {"fuzz", "trace"}
                   [] selector = "all" -> {"debug_probe", "fuzz", "trace", "concolic"}
                   [] OTHER -> {}
    IN  IF named = {} THEN {} ELSE named \cup {"controlled_fixture", "safe_fixture_probe"}

\* route_for_chain: the three planted routes of the controlled target.
Routed(c) ==
    /\ c.source \in {"network_recv", "network_accept_then_recv"}
    /\ \/ c.template = "unchecked_copy_length" /\ "memcpy" \in Contained(c.api)
       \/ c.template = "tainted_allocation_size" /\ "malloc" \in Contained(c.api)
       \/ c.template = "format_string_controlled" /\ "printf" \in Contained(c.api)

\* confirm_controlled_fixture: one row for each template, sink and API that has a route.
Confirmed ==
    {i \in DOMAIN chains :
        /\ options.fixture /\ Routed(chains[i])
        /\ \A j \in DOMAIN chains : j < i /\ Routed(chains[j]) =>
               <<chains[j].template, chains[j].site, chains[j].api>> # <<chains[i].template, chains[i].site, chains[i].api>>}
ControlledRow(i) == Row(Harness(i), "ConfirmedTrigger", "controlled_fixture")

\* explicit_dynamic: the caller's rows, then those of the fixture.
Explicit ==
    LET n == Len(explicit)
    IN  [k \in (1..n) \cup {n + i : i \in Confirmed} |-> IF k <= n THEN explicit[k] ELSE ControlledRow(k - n)]

\* Mutant: the address a row names is not compared with the sink.
MatchesChain(r, i) == r.chain = chains[i].id

\* sink_pc_matches, for the harness of the chain the row names.
Matches(r, i) == r.chain = chains[i].id /\ r.pc = chains[i].site

\* orchestrate, its first loop: the rows that name a chain and its sink, of a source
\* that was asked for.  A row with no source is a legacy one: no selector drops it.
Kept(rows) ==
    LET req == Requested(options.selector)
    IN  {k \in DOMAIN rows : /\ req = {} \/ rows[k].source \in req \cup {""}
                             /\ \E i \in DOMAIN chains : Matches(rows[k], i)}

\* The second loop: every harness and requested source that no row answers gets one
\* that says Unavailable, after the rows kept.
Unanswered ==
    {p \in (DOMAIN chains) \X (DOMAIN SourceNames) :
        /\ SourceNames[p[2]] \in Requested(options.selector)
        /\ ~\E k \in DOMAIN evidence : evidence[k].source = SourceNames[p[2]] /\ Matches(evidence[k], p[1])}
PositionOf(p) == Len(explicit) + Len(chains) + Len(SourceNames) * (p[1] - 1) + p[2]
UnavailableRow(p) == Row(Harness(p[1]), "Unavailable", SourceNames[p[2]])
Answered ==
    [k \in DOMAIN evidence \cup {PositionOf(p) : p \in Unanswered} |->
        IF k \in DOMAIN evidence THEN evidence[k] ELSE UnavailableRow(CHOOSE p \in Unanswered : k = PositionOf(p))]

Weight(status) == CASE status = "ConfirmedTrigger" -> 100 [] status = "ReachedOnly" -> 50 [] OTHER -> 0

Own(i) == {k \in DOMAIN evidence : Matches(evidence[k], i)}

\* max_by: of the rows of the greatest weight, the last.
Strongest(i) ==
    LET own  == Own(i)
        best == {k \in own : \A j \in own : Weight(evidence[j].status) <= Weight(evidence[k].status)}
    IN  CHOOSE k \in best : \A j \in best : j <= k

\* The rows a confirmation rests on: those that score, or if none does, NotObserved.
Contributing(i) ==
    LET scoring == {k \in Own(i) : Weight(evidence[k].status) > 0}
    IN  IF scoring # {} THEN scoring ELSE {k \in Own(i) : evidence[k].status = "NotObserved"}

\* aggregate_for_chain: none without rows, nor when the strongest is Unavailable.
Confirmations ==
    [i \in {i \in DOMAIN chains : Own(i) # {} /\ evidence[Strongest(i)].status # "Unavailable"} |->
        [status |-> evidence[Strongest(i)].status, sources |-> {evidence[k].source : k \in Contributing(i)} \ {""}]]

-----------------------------------------------------------------------------
(* Scores and findings                                                     *)

Clamp(v) == IF v < 30 THEN 30 ELSE IF v > 95 THEN 95 ELSE v

TierOf(t) == IF t \in Lifetime THEN "Candidate"
             ELSE IF t = "deserialization_to_dangerous_type" THEN "BestEffort" ELSE "GroundTruth"

Base(t) == CASE TierOf(t) = "GroundTruth" -> 85 [] TierOf(t) = "BestEffort" -> 70 [] TierOf(t) = "Candidate" -> 50

\* score_chain: what the static evidence is worth; lifetime templates have a cap.
StaticConfidence(c) ==
    LET v == Base(c.template) - 3 - (IF c.mode = "Summary" THEN 5 ELSE 0)
    IN  Clamp(IF c.template \in Lifetime /\ v > 65 THEN 65 ELSE v)

\* The weight of the source's trust boundary; an unknown kind is local and unprivileged.
Trust(source) ==
    CASE source \in {"network_recv", "network_accept_then_recv", "url_or_uri", "dns_response"} -> 100
      [] source = "rpc_inbound" -> 80 [] source = "com_server_ingress" -> 55
      [] source = "registry_value" -> 30 [] OTHER -> 60

\* sink_danger_weight
Danger(api) ==
    LET has(names) == Contained(api) \cap names # {} IN
    IF has({"memcpy", "memmove", "strcpy", "rtlcopymemory", "virtualprotect",
            "writeprocessmemory", "createremotethread"}) THEN 100
    ELSE IF has({"sprintf", "printf"}) THEN 90
    ELSE IF has({"deviceiocontrol", "virtualallocex"}) THEN 85
    ELSE IF has({"createfile", "fopen", "open"}) THEN 60 ELSE 70

\* exploitability_prior, by the category of the template.
Prior(t) == CASE t \in MemoryTemplates -> 100 [] t = "deserialization_to_dangerous_type" -> 90
              [] t \in AuthTemplates -> 80 [] t = "path_traversal_to_file_op" -> 60 [] OTHER -> 50

StaticRisk(c) ==
    LET taint   == IF c.mode = "Exact" THEN 100 ELSE IF c.hops > 8 THEN 30 ELSE 70 - 5 * c.hops
        missing == IF c.guards = 0 THEN 100 ELSE 50
        penalty == CASE TierOf(c.template) = "GroundTruth" -> 0 [] TierOf(c.template) = "BestEffort" -> 10
                     [] TierOf(c.template) = "Candidate" -> 30
    IN  15 * Trust(c.source) + 13 * Danger(c.api) + 10 * taint + 14 * missing + 12 * 100
        + 8 * Prior(c.template) - 10 * penalty

Confirmation(i) ==
    IF i \in DOMAIN confirmations THEN confirmations[i] ELSE [status |-> "None", sources |-> {}]
Support(i) == Weight(Confirmation(i).status)

\* score_chain_v1_1 adds a tenth of the weight of the confirmation, and 1.6 of it to the risk.
Confidence(i) ==
    IF Support(i) = 0 THEN StaticConfidence(chains[i]) ELSE Clamp(StaticConfidence(chains[i]) + Support(i) \div 10)
Risk(i) == StaticRisk(chains[i]) + 16 * Support(i)

\* severity_from_risk
Severity(risk) == IF risk >= 7000 THEN "high" ELSE IF risk >= 4000 THEN "medium" ELSE "low"

\* The selected templates and any lifetime one; at or above the threshold.
Scored == {i \in DOMAIN chains : /\ chains[i].template \in options.templates \cup Lifetime
                                 /\ Confidence(i) >= options.threshold}

\* emit_finding; attach_v1_1_context adds the chain's id, its harness and what confirmed it.
Finding(i, scored) ==
    [id |-> Cardinality({j \in scored : j <= i}), run |-> runs, bug_class |-> chains[i].template,
     from |-> chains[i].from, api |-> chains[i].api, function |-> chains[i].function, site |-> chains[i].site,
     risk |-> Risk(i), severity |-> Severity(Risk(i)), confidence |-> Confidence(i),
     chain |-> IF options.v1_1 THEN chains[i].id ELSE "",
     status |-> Confirmation(i).status, sources |-> Confirmation(i).sources]

\* split_findings_by_lifetime; without v1.1 there are no lifetime chains to split off.
Default == {i \in DOMAIN findings : findings[i].bug_class \notin Lifetime}
Candidates == DOMAIN findings \ Default

-----------------------------------------------------------------------------
(* The artifacts                                                           *)

\* In the order they are written; the store comes before them.
Artifacts ==
    <<"findings.jsonl", "chain_graph.json", "evidence_bundle.json">> \o
    (IF ~options.v1_1 THEN <<>>
     ELSE <<"harnesses", "dynamic_evidence.jsonl", "dynamic_attempts.jsonl", "vuln_packets",
            "patch_suggestions.jsonl", "test_suggestions.jsonl">>
          \o (IF options.lifetime /\ Candidates # {} THEN <<"lifetime_candidates.jsonl">> ELSE <<>>))

\* The position of the manifest, after the packets.
Manifest == Len(chains) + 1

\* The files of an artifact: a skeleton for each chain, a packet for each default
\* finding and then the manifest; the other artifacts are one file.
Parts(a) == CASE a = "harnesses" -> DOMAIN chains [] a = "vuln_packets" -> Default \cup {Manifest} [] OTHER -> {1}

PathOf(a, i) ==
    CASE a = "harnesses" -> <<a, chains[i].id>>
      [] a = "vuln_packets" /\ i # Manifest -> <<a, chains[i].id, findings[i].id>>
      [] OTHER -> <<a>>

\* emit_chain_graph_json: the first finding that names a function labels its node.
GraphLabel(v) ==
    LET touching == {i \in Default : v \in {findings[i].from, findings[i].function}}
    IN  IF \E i \in touching : findings[i].from = v /\ \A j \in touching : i <= j THEN "source" ELSE "sink"
GraphNodes == {[function |-> v, label |-> GraphLabel(v)] :
                  v \in {findings[i].from : i \in Default} \cup {findings[i].function : i \in Default}}
GraphEdges == {[from |-> findings[i].from, to |-> findings[i].function, edge_type |-> findings[i].bug_class,
                finding |-> findings[i].id] : i \in Default}

\* The first top_n of a stable sort by falling risk: of equal risks, the earlier finding.
Top ==
    LET before(j, i) == findings[j].risk > findings[i].risk \/ (findings[j].risk = findings[i].risk /\ j < i)
    IN  {i \in Default : Cardinality({j \in Default : before(j, i)}) < TopN}

\* emit_evidence_bundle_json and its v1.1 form, which counts the candidates it leaves out.
Bundle == [top_findings |-> {findings[i].id : i \in Top}, discovered |-> Cardinality(Default),
           severities |-> [s \in {"high", "medium", "low"} |-> Cardinality({i \in Default : findings[i].severity = s})],
           lifetime |-> Cardinality(Candidates)]

\* attempt_from_evidence: a command was run if it saw something, a reason is given if
\* not, and only rows that score are referred to.
Attempt(k) ==
    LET r == evidence[k]
        scores == Weight(r.status) > 0
    IN  [at |-> k, chain |-> r.chain, pc |-> r.pc, status |-> r.status,
         executor |-> IF r.source = "" THEN "unknown" ELSE r.source,
         command |-> r.source = "controlled_fixture" \/ scores,
         reason |-> ~scores, evidence_ref |-> scores]

\* build_packet: the finding with its chain's confirmation and harness.
Packet(i) == [finding |-> findings[i].id, chain |-> chains[i].id, bug_class |-> findings[i].bug_class,
              site |-> chains[i].site, confirmation |-> Confirmation(i), harness |-> Harness(i)]
ManifestEntry(i) == [finding |-> findings[i].id, chain |-> chains[i].id, bug_class |-> findings[i].bug_class,
                     path |-> PathOf("vuln_packets", i), status |-> Confirmation(i).status]

\* suggest_patches and suggest_tests: one for each finding, by its class alone.
Suggestions == {[at |-> i, bug_class |-> findings[i].bug_class] : i \in Default}

\* What a file of an artifact holds.
Rows(a, i) ==
    CASE a = "findings.jsonl" -> {findings[k] : k \in Default}
      [] a = "chain_graph.json" -> {[nodes |-> GraphNodes, edges |-> GraphEdges]}
      [] a = "evidence_bundle.json" -> {Bundle}
      [] a = "harnesses" -> {Harness(i)}
      [] a = "dynamic_evidence.jsonl" -> {[at |-> k, row |-> evidence[k]] : k \in DOMAIN evidence}
      [] a = "dynamic_attempts.jsonl" -> {Attempt(k) : k \in DOMAIN evidence}
      [] a = "vuln_packets" -> IF i = Manifest THEN {ManifestEntry(k) : k \in Default} ELSE {Packet(i)}
      [] a \in {"patch_suggestions.jsonl", "test_suggestions.jsonl"} -> Suggestions
      [] a = "lifetime_candidates.jsonl" -> {findings[k] : k \in Candidates}

\* The records the ledger is told: the manifest is not counted as a packet.
Records(a) ==
    CASE a = "harnesses" -> Cardinality(DOMAIN chains) [] a = "vuln_packets" -> Cardinality(Default)
      [] OTHER -> Cardinality(Rows(a, 1))

\* Written in place, so that a kill leaves a part; the other files are renamed into place.
InPlace == {"dynamic_evidence.jsonl", "dynamic_attempts.jsonl", "vuln_packets"}

\* A file created or replaced; the files of earlier runs stay in the directories.
Put(files, path, file) == [p \in DOMAIN files \cup {path} |-> IF p = path THEN file ELSE files[p]]

-----------------------------------------------------------------------------
(* The run                                                                 *)

Start(o) ==
    /\ stage = "idle" /\ runs < Len(Programs)
    /\ runs' = runs + 1 /\ options' = o /\ stage' = "discover" /\ ledger' = {} /\ returned' = FALSE
    /\ chains' = <<>> /\ evidence' = NoFunction /\ confirmations' = NoFunction /\ findings' = NoFunction
    /\ UNCHANGED <<explicit, at, todo, out_dir, faults>>

Discover ==
    /\ stage = "discover" /\ stage' = "join"
    /\ chains' = Programs[runs] \o (IF options.v1_1 /\ options.lifetime THEN LifetimeChains[runs] ELSE <<>>)
    /\ UNCHANGED <<runs, options, evidence, confirmations, findings, explicit, writing, out_dir, returned, faults>>

Join ==
    /\ stage = "join" /\ stage' = "answer"
    /\ evidence' = IF options.v1_1 THEN LET rows == Explicit IN [k \in Kept(rows) |-> rows[k]] ELSE NoFunction
    /\ UNCHANGED <<runs, options, chains, confirmations, findings, explicit, writing, out_dir, returned, faults>>

Answer ==
    /\ stage = "answer" /\ stage' = "confirm"
    /\ evidence' = IF options.v1_1 THEN Answered ELSE evidence
    /\ UNCHANGED <<runs, options, chains, confirmations, findings, explicit, writing, out_dir, returned, faults>>

Confirm ==
    /\ stage = "confirm" /\ stage' = "score"
    /\ confirmations' = Confirmations
    /\ UNCHANGED <<runs, options, chains, evidence, findings, explicit, writing, out_dir, returned, faults>>

Score ==
    /\ stage = "score" /\ stage' = "store"
    /\ LET scored == Scored
       IN  /\ findings' = [i \in scored |-> Finding(i, scored)]
           /\ todo' = {i \in scored : chains[i].template \notin Lifetime}
    /\ UNCHANGED <<runs, options, chains, evidence, confirmations, explicit, at, ledger, out_dir, returned, faults>>

\* Mutant: a row that is there is kept.
InsertKeeps(store, f) == IF \E g \in store : g.id = f.id THEN store ELSE store \cup {f}

\* INSERT OR REPLACE by finding_id; rows of an earlier run with other ids stay.
Insert(store, f) == {g \in store : g.id # f.id} \cup {f}

First(i) == i \in todo /\ \A j \in todo : i <= j

StoreOne ==
    /\ stage = "store"
    /\ \E i \in todo :
        /\ First(i) /\ todo' = todo \ {i}
        /\ out_dir' = [out_dir EXCEPT !.store = Insert(@, findings[i])]
    /\ UNCHANGED <<stage, session, at, ledger, explicit, returned, faults>>

StoreDone ==
    /\ stage = "store" /\ todo = {}
    /\ stage' = "write" /\ at' = 1 /\ todo' = Parts(Artifacts[1])
    /\ ledger' = ledger \cup {[name |-> "findings.sqlite", records |-> Cardinality(Default)]}
    /\ UNCHANGED <<session, explicit, out_dir, returned, faults>>

WriteOne ==
    /\ stage = "write" /\ at <= Len(Artifacts)
    /\ \E i \in todo :
        /\ First(i) /\ todo' = todo \ {i}
        /\ out_dir' = [out_dir EXCEPT !.files = Put(@, PathOf(Artifacts[at], i),
                                              [run |-> runs, rows |-> Rows(Artifacts[at], i), whole |-> TRUE])]
    /\ UNCHANGED <<stage, session, at, ledger, explicit, returned, faults>>

\* mark_complete; two artifacts are marked with their successor, and none is marked
\* on disk before Finalize, so that it makes no difference when.
WriteDone ==
    /\ stage = "write" /\ at <= Len(Artifacts) /\ todo = {}
    /\ ledger' = ledger \cup {[name |-> Artifacts[at], records |-> Records(Artifacts[at])]}
    /\ at' = at + 1 /\ todo' = IF at < Len(Artifacts) THEN Parts(Artifacts[at + 1]) ELSE {}
    /\ UNCHANGED <<stage, session, explicit, out_dir, returned, faults>>

\* run_status.json is written last, atomically.
FinalizeRun ==
    /\ stage = "write" /\ at > Len(Artifacts)
    /\ stage' = "idle" /\ returned' = TRUE
    /\ out_dir' = [out_dir EXCEPT !.status = [run |-> runs, artifacts |-> ledger]]
    /\ UNCHANGED <<session, writing, explicit, faults>>

\* A call fails or the process is killed: nothing is rolled back, the ledger is lost,
\* and the file being written in place may be torn.
Fault ==
    /\ stage \notin {"idle", "over"} /\ faults < MaxFaults /\ faults' = faults + 1
    /\ stage' = "idle" /\ todo' = {} /\ ledger' = {}
    /\ \/ UNCHANGED out_dir
       \/ /\ stage = "write" /\ at <= Len(Artifacts) /\ Artifacts[at] \in InPlace
          /\ \E i \in todo : First(i) /\ out_dir' = [out_dir EXCEPT !.files =
                 Put(@, PathOf(Artifacts[at], i), [run |-> runs, rows |-> {}, whole |-> FALSE])]
    /\ UNCHANGED <<session, at, explicit, returned>>

\* The caller has no more runs.
Stop ==
    /\ stage = "idle" /\ runs = Len(Programs) /\ stage' = "over"
    /\ UNCHANGED <<session, writing, explicit, out_dir, returned, faults>>

Over == stage = "over" /\ UNCHANGED vuln_vars

RunStep == Discover \/ Join \/ Answer \/ Confirm \/ Score \/ StoreOne \/ StoreDone \/ WriteOne \/ WriteDone \/ FinalizeRun
VulnNext ==
    \/ RunStep \/ Fault \/ Stop \/ Over
    \/ \E o \in VulnOptions : Start(o)
    \/ \E o \in Observations, i \in DOMAIN chains : Observe(o, i)

VulnSpec == VulnInit /\ [][VulnNext]_vuln_vars

-----------------------------------------------------------------------------
(* Properties                                                              *)

VulnTypeOK ==
    /\ stage \in {"idle", "discover", "join", "answer", "confirm", "score", "store", "write", "over"}
    /\ runs \in 0..Len(Programs) /\ options \in VulnOptions /\ returned \in BOOLEAN
    /\ faults \in 0..MaxFaults /\ Len(explicit) \in 0..MaxRows
    /\ \A k \in DOMAIN explicit : explicit[k].status \in Statuses \ {"Unavailable"}
    /\ \A k \in DOMAIN evidence : evidence[k].status \in Statuses
    /\ DOMAIN findings \subseteq DOMAIN chains /\ DOMAIN evidence \subseteq Nat

InRun == stage \in {"store", "write"}

\* scoring.rs, confirmation.rs, dynamic_orchestrator.rs: a finding scores above its
\* static evidence only if the caller or the fixture gave a row that names its chain
\* and its own sink, was seen by a source that was asked for, and weighs what the
\* score says; rows of an earlier run, whose ids mean other chains, do not leak in.
EvidenceRaisesOwnSink ==
    InRun => \A i \in DOMAIN findings :
        findings[i].confidence > StaticConfidence(chains[i]) =>
            /\ options.v1_1
            /\ LET rows == Explicit IN \E k \in DOMAIN rows :
                LET r == rows[k] IN
                /\ r.chain = chains[i].id /\ r.pc = findings[i].site
                /\ r.status \in {"ConfirmedTrigger", "ReachedOnly"}
                /\ findings[i].confidence <= StaticConfidence(chains[i]) + Weight(r.status) \div 10
                /\ Requested(options.selector) # {} => r.source \in Requested(options.selector) \cup {""}

\* confirmation.rs: a row that confirms a chain at its sink decides, whatever weaker
\* rows of other sources come before or after it.
ConfirmationSticks ==
    InRun /\ options.v1_1 => \A i \in DOMAIN findings :
        (\E k \in DOMAIN evidence : Matches(evidence[k], i) /\ evidence[k].status = "ConfirmedTrigger")
            => findings[i].status = "ConfirmedTrigger"

\* dynamic_orchestrator.rs: every harness has an answer for every source that was
\* asked for, so that a source that did not run is not taken for a clean one.
EverySourceAnswered ==
    InRun /\ options.v1_1 =>
        \A i \in DOMAIN chains, s \in Requested(options.selector) : \E k \in DOMAIN evidence :
            evidence[k].source = s /\ Matches(evidence[k], i)

Idle == stage = "idle" /\ returned
Holds(path, rows) == path \in DOMAIN out_dir.files /\ out_dir.files[path] = [run |-> runs, rows |-> rows, whole |-> TRUE]

\* session.rs: when a run has returned Ok, run_status.json is its own, and every file
\* of every artifact it names is on disk whole, with what this run found, whatever
\* earlier runs or failed ones left in the directory.
StatusMatchesDisk ==
    Idle => /\ out_dir.status.run = runs
            /\ {e.name : e \in out_dir.status.artifacts} = {Artifacts[k] : k \in DOMAIN Artifacts} \cup {"findings.sqlite"}
            /\ \A k \in DOMAIN Artifacts : \A i \in Parts(Artifacts[k]) :
                   Holds(PathOf(Artifacts[k], i), Rows(Artifacts[k], i))

\* finding.rs, proof_packet.rs: a finding of this run is in the store as it was scored,
\* and its skeleton and the packet the manifest names are those of its own sink,
\* though the names of both are counters that every run starts again.
PointersResolve ==
    Idle => \A i \in Default :
        /\ findings[i] \in out_dir.store
        /\ options.v1_1 =>
            /\ \A h \in out_dir.files[<<"harnesses", findings[i].chain>>].rows :
                   h.site = findings[i].site /\ h.bug_class = findings[i].bug_class
            /\ \E e \in out_dir.files[<<"vuln_packets">>].rows :
                   /\ e.finding = findings[i].id
                   /\ \E p \in out_dir.files[e.path].rows : p.site = findings[i].site /\ p.confirmation.status = findings[i].status

\* session.rs, llm_pack.rs: lifetime candidates reach no artifact but their own, in
\* any sequence of runs, failed ones included.
LifetimeKeptApart ==
    /\ \A f \in out_dir.store : f.bug_class \notin Lifetime
    /\ \A p \in DOMAIN out_dir.files : p[1] \in {"findings.jsonl", "vuln_packets", "patch_suggestions.jsonl"} =>
           \A r \in out_dir.files[p].rows : r.bug_class \notin Lifetime

\* Evidence counts for the sink it was seen at, a confirmation is not outvoted,
\* and a source that gave no answer says so.
EvidenceIsHonest == VulnTypeOK /\ EvidenceRaisesOwnSink /\ ConfirmationSticks /\ EverySourceAnswered

\* What a run that returned Ok leaves on disk answers for this run, for its own
\* findings, and, whatever runs failed before it, not for the candidates.  Of the
\* directory of a run that failed or was killed it only says that no candidate is
\* in it: run_status.json is then still the one of the run before.
DirectoryIsThisRun == StatusMatchesDisk /\ PointersResolve /\ LifetimeKeptApart
=============================================================================
