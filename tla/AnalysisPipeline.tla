-------------------------- MODULE AnalysisPipeline --------------------------
(***************************************************************************)
(* src/src/pe.rs, run_analysis: the passes of one static analysis in their *)
(* order, the option that switches each of them, the caps they may hit,    *)
(* the assembly of analysis.json, the files it writes, and the analysis of *)
(* the unpacked image that maybe_run_unpack nests in front of them.        *)
(*                                                                         *)
(* Rows are abstracted to where they come from: rows[a] is the set of      *)
(* passes that produced or refined table a ({} is an empty table), and     *)
(* built[a][b] what table b was when a was built from it.                  *)
(***************************************************************************)
EXTENDS Integers, Sequences, FiniteSets, SequencesExt

CONSTANTS
    OptionSets,  \* the option records a run may be started with
    MaxCaps,     \* bound: caps one run hits
    MaxShort     \* bound: files that end up short without an error

\* The switches of AnalysisOptions the control flow looks at (vuln_out: a
\* --vuln-out directory is given), what the image is (its machine and its
\* format) and whether the progress file was asked for.
Options == [pe : BOOLEAN, amd64 : BOOLEAN, deep : BOOLEAN, semantic : BOOLEAN, second : BOOLEAN,
            unpack : BOOLEAN, vuln : BOOLEAN, vuln_out : BOOLEAN, packs : BOOLEAN, profile : BOOLEAN,
            progress : BOOLEAN]

ASSUME OptionAssumption ==
    /\ OptionSets \subseteq Options
    /\ MaxCaps \in Nat /\ MaxShort \in Nat

\* The default options, each switch of the passes turned, another format, and
\* unpacking runs with the vulnerability pass over two directories or one.
DefaultOptions ==
    [pe |-> TRUE, amd64 |-> TRUE, deep |-> TRUE, semantic |-> TRUE, second |-> TRUE, unpack |-> FALSE,
     vuln |-> FALSE, vuln_out |-> FALSE, packs |-> TRUE, profile |-> FALSE, progress |-> TRUE]
SwitchedOptions ==
    {DefaultOptions, [DefaultOptions EXCEPT !.pe = FALSE], [DefaultOptions EXCEPT !.amd64 = FALSE],
     [DefaultOptions EXCEPT !.deep = FALSE, !.profile = TRUE],
     [DefaultOptions EXCEPT !.semantic = FALSE], [DefaultOptions EXCEPT !.second = FALSE],
     [DefaultOptions EXCEPT !.semantic = FALSE, !.second = FALSE, !.packs = FALSE, !.progress = FALSE],
     [DefaultOptions EXCEPT !.unpack = TRUE, !.vuln = TRUE],
     [DefaultOptions EXCEPT !.unpack = TRUE, !.vuln = TRUE, !.vuln_out = TRUE]}

Frames == {"outer", "nested"}

\* A pass: the switch it runs under, the tables it reads, the ones it
\* replaces, the ones it extends or refines in place, the caps it may hit.
Pass(name, gate, reads, sets, adds, limits) ==
    [name |-> name, gate |-> gate, reads |-> reads, sets |-> sets, adds |-> adds, limits |-> limits]

Enabled(gate, o) ==
    CASE gate = "always"   -> TRUE
      [] gate = "deep64"   -> o.deep /\ o.amd64
      [] gate = "deep"     -> o.deep
      [] gate = "semantic" -> o.semantic
      [] gate = "second"   -> o.second
      [] gate = "deep2"    -> o.deep /\ o.second
      [] gate = "semantic2" -> o.semantic /\ o.second

LoadPasses == <<
    Pass("pe_tables", "always", {}, {"imports", "exports"}, {}, {}),
    Pass("strings", "always", {}, {"strings"}, {}, {"strings"}),
    Pass("disasm", "deep64", {"imports", "strings"}, {"instructions", "ir", "xrefs"}, {}, {"instructions", "xrefs"}),
    Pass("functions", "deep64", {"instructions", "exports", "xrefs"}, {"functions"}, {}, {"functions"}),
    Pass("cfg", "deep64", {"functions", "instructions"}, {"cfg"}, {}, {}) >>

SemanticPasses == <<
    Pass("semantic_index", "always", {"functions", "instructions", "ir", "xrefs", "cfg"}, {"index"}, {}, {}),
    Pass("cpp", "deep", {"strings"}, {"vtables", "rtti"}, {}, {"methods"}),
    Pass("eh", "always", {"imports", "rtti"}, {"eh"}, {}, {}),
    Pass("value_graph", "semantic", {"functions", "index", "ir", "strings"}, {"value_graph"}, {}, {}),
    Pass("wrapper_collapse", "semantic", {"functions", "index", "xrefs"}, {"resolved_calls"}, {}, {}),
    Pass("api_flows", "semantic", {"functions", "index", "ir", "xrefs", "strings", "value_graph", "resolved_calls"},
         {"api_flows"}, {}, {"semantic"}),
    Pass("callgraph", "semantic", {"functions", "index", "xrefs", "resolved_calls"}, {"callgraph"}, {}, {}) >>

HintPasses == <<
    Pass("deobfuscation", "semantic", {"functions", "index", "ir"}, {"recovered_strings"}, {}, {"semantic"}),
    Pass("obfuscation_hints", "semantic", {"functions", "index", "ir"}, {"obfuscation_hints"}, {}, {"semantic"}),
    Pass("structured", "always", {"functions", "cfg", "instructions"}, {"structured_flow"}, {}, {}),
    Pass("pseudo_ir", "always", {"functions", "value_graph", "api_flows", "resolved_calls", "structured_flow"},
         {"provisional_ir"}, {}, {"pseudo_ir"}),
    Pass("dossiers", "always", {"functions", "cfg", "index", "api_flows", "recovered_strings", "resolved_calls",
                                "structured_flow", "provisional_ir"}, {"provisional_dossiers"}, {}, {"semantic", "summaries"}) >>

TargetPasses == <<
    Pass("second_pass", "second", {"functions", "index", "ir", "xrefs", "api_flows", "provisional_dossiers",
                                   "obfuscation_hints", "recovered_strings", "resolved_calls", "structured_flow"},
         {"second_pass_targets", "uncertainties"}, {}, {"targets"}),
    Pass("ssa", "semantic2", {"functions", "index", "ir", "cfg", "second_pass_targets"}, {"ssa"}, {}, {"ssa"}),
    Pass("vsa", "semantic2", {"functions", "index", "ir", "cfg", "strings", "second_pass_targets"},
         {"vsa"}, {}, {"vsa"}),
    Pass("jump_tables", "semantic2", {"functions", "index", "ir", "vsa", "second_pass_targets"},
         {"jump_tables"}, {}, {"entries"}),
    Pass("switches", "always", {"functions", "index", "ir", "jump_tables"}, {"switches"}, {}, {}),
    Pass("api_hash", "semantic2", {"obfuscation_hints", "imports"}, {"api_hash_resolutions"}, {}, {}),
    Pass("decoder", "semantic2", {"obfuscation_hints"}, {"decoded_strings"}, {"recovered_strings"}, {"decoded"}),
    Pass("type_inference", "semantic2", {"api_flows", "second_pass_targets"}, {"type_hints"}, {}, {"types"}) >>

RefinePasses == <<
    Pass("structured_refinement", "second", {"second_pass_targets", "jump_tables"}, {}, {"structured_flow"}, {}),
    Pass("rtti_ownership", "deep2", {"functions", "index", "ir", "second_pass_targets"}, {}, {"vtables"}, {}),
    Pass("virtual_dispatch", "semantic2", {"functions", "index", "ir", "vtables", "second_pass_targets"},
         {}, {"resolved_calls"}, {}),
    Pass("class_dossiers", "always", {"vtables"}, {"class_dossiers"}, {}, {}),
    Pass("behavior", "semantic", {"api_flows", "recovered_strings", "type_hints", "api_hash_resolutions"},
         {"behavior_dossiers"}, {}, {"behaviors"}) >>

FinalPasses == <<
    Pass("final_pseudo_ir", "always", {"functions", "value_graph", "ssa", "api_flows", "resolved_calls",
         "structured_flow", "vsa", "type_hints", "jump_tables", "api_hash_resolutions"}, {"pseudo_ir"}, {}, {"pseudo_ir"}),
    Pass("final_dossiers", "always", {"functions", "cfg", "index", "api_flows", "recovered_strings",
         "resolved_calls", "structured_flow", "pseudo_ir", "behavior_dossiers", "type_hints", "class_dossiers"},
         {"function_dossiers"}, {}, {"semantic", "summaries"}),
    Pass("interesting", "always", {"function_dossiers"}, {"interesting_functions"}, {}, {"interesting"}) >>

\* remaining_uncertainties_after_pass2, then what the disassembly cap and the
\* portable capabilities add.
UncertaintyPasses == <<
    Pass("remaining", "always", {"jump_tables", "api_hash_resolutions", "decoded_strings", "vsa", "resolved_calls"},
         {}, {"uncertainties"}, {}),
    Pass("portable", "always", {"imports", "exports", "strings", "functions", "instructions", "cfg", "ssa",
         "structured_flow", "xrefs", "api_flows"}, {"portable"}, {"uncertainties"}, {"portable"}),
    Pass("scorecard", "always", {"functions", "api_flows", "type_hints", "jump_tables", "uncertainties",
         "obfuscation_hints", "decoded_strings", "behavior_dossiers", "class_dossiers", "structured_flow",
         "second_pass_targets"}, {"scorecard"}, {}, {}) >>

SymbolPasses == <<
    Pass("debug_symbols", "always", {"functions"}, {"symbols"}, {}, {"symbol_rows"}),
    Pass("symbol_graph", "always", {"symbols"}, {"symbol_graph"}, {}, {"symbol_rows"}),
    Pass("class_facts", "always", {"symbols", "vtables", "rtti", "functions", "index", "ir", "strings", "type_hints"},
         {"class_facts"}, {}, {}) >>

\* Mutant: the virtual calls are resolved after the final dossiers.
PassesVirtualLate ==
    LoadPasses \o SemanticPasses \o HintPasses \o TargetPasses
        \o SelectSeq(RefinePasses, LAMBDA p : p.name # "virtual_dispatch") \o FinalPasses
        \o SelectSeq(RefinePasses, LAMBDA p : p.name = "virtual_dispatch") \o UncertaintyPasses

\* Everything before analysis.json is put together.
PassesBeforeAnalysis ==
    LoadPasses \o SemanticPasses \o HintPasses \o TargetPasses \o RefinePasses
        \o FinalPasses \o UncertaintyPasses

Tables == UNION {p.sets : p \in Range(PassesBeforeAnalysis \o SymbolPasses)}

\* The tables whose length analysis_json counts.  Its form for other formats
\* writes 0 for four of them, whatever was found, and has no entry for the
\* targets of the second pass.
CountedTables ==
    {"imports", "exports", "strings", "instructions", "functions", "xrefs", "vtables", "rtti", "api_flows",
     "callgraph", "value_graph", "ssa", "vsa", "jump_tables", "type_hints", "api_hash_resolutions",
     "resolved_calls", "structured_flow", "pseudo_ir", "recovered_strings", "obfuscation_hints",
     "function_dossiers", "class_dossiers", "behavior_dossiers", "second_pass_targets", "uncertainties",
     "portable"}
ZeroOffPe == {"vtables", "rtti", "callgraph", "api_hash_resolutions"}

CountsOf(o, r) ==
    [t \in IF o.pe THEN CountedTables ELSE CountedTables \ {"second_pass_targets"} |->
        IF ~o.pe /\ t \in ZeroOffPe THEN {} ELSE r[t]]

\* The files in the order they are written, analysis.json first.  A table of
\* symbols or of portable capabilities stands for the files made of it.
CoreFiles == <<"analysis", "capability_matrix", "scorecard", "functions", "cfg", "xrefs", "strings", "imports",
               "exports", "symbols", "symbol_graph", "vtables", "eh", "rtti", "function_dossiers",
               "interesting_functions", "api_flows", "callgraph", "value_graph", "ssa", "vsa", "jump_tables",
               "switches", "class_facts", "type_hints", "api_hash_resolutions", "resolved_calls",
               "structured_flow", "pseudo_ir", "recovered_strings", "obfuscation_hints",
               "anti_analysis", "attack_techniques">>

TailFiles == <<"crypto_constants", "resolved_indirect", "class_dossiers", "behavior_dossiers", "portable",
               "fuzz_harnesses", "second_pass_targets", "uncertainties", "triage_report", "case_brief">>

Files == Range(CoreFiles \o TailFiles)

\* The files write_json writes; write_jsonl flushes the others.
JsonFiles == {"analysis", "capability_matrix", "scorecard", "fuzz_harnesses", "case_brief",
              "review_packs", "analysis_profile"}

\* The caps analysis.json has a flag for, those summary.caps_hit of the second
\* pass gathers in one flag, and those that cut rows, lists or entries off
\* without a flag anywhere.
FlaggedCaps == {"strings", "instructions", "functions", "xrefs", "semantic"}
SecondPassCaps == {"targets", "ssa", "vsa", "instructions"}
SilentCaps == {"methods", "summaries", "entries", "decoded", "types", "behaviors", "pseudo_ir",
               "interesting", "portable", "symbol_rows"}
Caps == FlaggedCaps \cup SecondPassCaps \cup SilentCaps

VARIABLES
    frame,       \* whose run_analysis is executing
    opts,        \* options, per frame
    step,        \* where the executing run is
    k,           \* next pass or file of this step
    rows, built, \* tables of the executing run
    caps,        \* caps its passes have hit
    analysis,    \* analysis.json: counts, flags of caps and unpack summary (in memory)
    fresh,       \* files of each frame's directory written by this run
    short,       \* <<frame, file>> written without its last bytes
    findings,    \* the vuln directory of each frame: whose artifacts and rows it holds
    progress,    \* phase the progress file shows
    unpacked,    \* the unpack summary of the outer run
    status       \* running, ok, err or killed, of the whole call

tables == <<rows, built, caps>>
files == <<fresh, short, findings>>
vars == <<frame, opts, step, k, tables, analysis, files, progress, unpacked, status>>

Empty == [t \in Tables |-> {}]
NoAnalysis == [counts |-> [t \in {} |-> {}], caps_hit |-> {}, second_pass |-> FALSE, unpack |-> "none"]

Init ==
    /\ frame = "outer" /\ opts \in [{"outer"} -> OptionSets]
    /\ step = "unpack" /\ k = 1
    /\ rows = Empty /\ built = [t \in Tables |-> <<>>] /\ caps = {}
    /\ analysis = NoAnalysis
    /\ fresh = [f \in Frames |-> {}] /\ short = {}
    /\ findings = [f \in Frames |-> [artifacts |-> "old", rows |-> {"old"}]]
    /\ progress = "old" /\ unpacked = "none" /\ status = "running"

O == opts[frame]

\* write_progress swallows every error, of opening the file (which keeps the old
\* phase) and of writing it (which cuts it off); no path, no write.
WriteProgress(phase) ==
    IF O.progress THEN progress' \in {progress, phase, "cut"} ELSE progress' = progress

Run(s) == status = "running" /\ step = s

\* An error of a fallible step leaves the call, through the outer run as well
\* (the ? after the nested run_analysis).
Err ==
    /\ status' = "err"
    /\ UNCHANGED <<frame, opts, step, k, tables, analysis, files, progress, unpacked>>

-----------------------------------------------------------------------------
(* maybe_run_unpack                                                        *)

\* Mutant: the nested run keeps the progress file.
NestedOptionsKeepProgress(o) == [o EXCEPT !.pe = TRUE, !.unpack = FALSE]

\* The options the unpacked image, always loaded as a PE, is analysed with; the
\* --vuln-out directory is among those it keeps.
NestedOptions(o) == [o EXCEPT !.pe = TRUE, !.unpack = FALSE, !.progress = FALSE]

\* The directory cannot be made, or run_status.json of a skipped session
\* cannot be written.
UnpackFails == Run("unpack") /\ Err

NoUnpack == Run("unpack") /\ ~O.unpack /\ step' = "passes"
    /\ UNCHANGED <<frame, opts, k, tables, analysis, files, progress, unpacked, status>>

\* The session failed, produced no snapshot, or one that does not load: the
\* analysis of the packed image goes on.
UnpackWithoutImage ==
    /\ Run("unpack") /\ O.unpack
    /\ unpacked' \in {"skipped", "no_snapshot", "bad_snapshot"}
    /\ step' = "passes"
    /\ UNCHANGED <<frame, opts, k, tables, analysis, files, progress, status>>

\* The snapshot loads: it is analysed first, in <out>/unpacked_static.
UnpackNested ==
    /\ Run("unpack") /\ O.unpack
    /\ frame' = "nested"
    /\ opts' = [f \in Frames |-> IF f = "outer" THEN O ELSE NestedOptions(O)]
    /\ UNCHANGED <<step, k, tables, analysis, files, progress, unpacked, status>>

-----------------------------------------------------------------------------
(* The passes                                                              *)

\* The tables after pass p, which hits some of its caps or none.
Apply(p) ==
    LET on  == Enabled(p.gate, O)
        new == [t \in Tables |->
                   CASE t \in p.sets -> IF on THEN {p.name} ELSE {}
                     [] t \in p.adds -> IF on THEN rows[t] \cup {p.name} ELSE rows[t]
                     [] OTHER -> rows[t]]
    IN  /\ rows' = new
        /\ built' = [t \in Tables |->
                        IF on /\ t \in p.sets THEN [b \in p.reads |-> rows[b]] ELSE built[t]]
        /\ \E hit \in SUBSET p.limits :
               /\ hit # {} => on /\ Cardinality(caps \cup hit) <= MaxCaps
               /\ caps' = caps \cup hit

RunPass ==
    /\ Run("passes") /\ k \in DOMAIN PassesBeforeAnalysis
    /\ Apply(PassesBeforeAnalysis[k])
    /\ WriteProgress("pass")
    /\ k' = k + 1
    /\ UNCHANGED <<frame, opts, step, analysis, files, unpacked, status>>

\* analysis_json (or its non-PE form), with the counts, the flags of the caps
\* and the unpack summary of the run.
Assemble ==
    /\ Run("passes") /\ k = Len(PassesBeforeAnalysis) + 1
    /\ analysis' = [counts |-> CountsOf(O, rows),
                    caps_hit |-> caps \cap FlaggedCaps,
                    second_pass |-> caps \cap SecondPassCaps # {},
                    unpack |-> IF frame = "outer" THEN unpacked ELSE "none"]
    /\ step' = "symbols" /\ k' = 1
    /\ UNCHANGED <<frame, opts, tables, files, progress, unpacked, status>>

RunSymbolPass ==
    /\ Run("symbols") /\ k \in DOMAIN SymbolPasses
    /\ Apply(SymbolPasses[k])
    /\ k' = k + 1
    /\ UNCHANGED <<frame, opts, step, analysis, files, progress, unpacked, status>>

-----------------------------------------------------------------------------
(* The files                                                               *)

\* write_llm_artifacts, then triage_report; the first error ends the run.
WriteLlmArtifacts ==
    /\ Run("symbols") /\ k = Len(SymbolPasses) + 1
    /\ \/ Err
       \/ /\ WriteProgress("write_outputs")
          /\ step' = "core" /\ k' = 1
          /\ UNCHANGED <<frame, opts, tables, analysis, files, unpacked, status>>

\* The file is created, then filled.  write_json drops its BufWriter without
\* flushing it: a failing write of the last buffer is no error, and the file
\* stays short.
Short(files_cut) ==
    /\ files_cut # {} => Cardinality(short \cup files_cut) <= MaxShort
    /\ short' = short \cup files_cut

WriteFile(list, next) ==
    /\ k \in DOMAIN list
    /\ \/ Err
       \/ /\ fresh' = [fresh EXCEPT ![frame] = @ \cup {list[k]}]
          /\ \E cut \in SUBSET ({<<frame, list[k]>>} \cap (Frames \X JsonFiles)) : Short(cut)
          /\ IF k = Len(list) THEN step' = next /\ k' = 1 ELSE k' = k + 1 /\ step' = step
          /\ UNCHANGED <<frame, opts, tables, analysis, findings, progress, unpacked, status>>

WriteCore == Run("core") /\ WriteFile(CoreFiles, "vuln")

\* The directory of the vulnerability pass: the one --vuln-out names, which is
\* the same for the nested run, or vuln/ below the frame's own.
VulnDir == IF O.vuln_out THEN "outer" ELSE frame

\* The optional vulnerability pass: it adds its rows to the store, then rewrites
\* the artifacts.  When it fails the rows may be in, and some of the artifacts.
VulnPass ==
    /\ Run("vuln")
    /\ \/ /\ O.vuln /\ status' = "err"
          /\ findings' \in {findings} \cup
                {[findings EXCEPT ![VulnDir] = [artifacts |-> a, rows |-> @.rows \cup {frame}]] :
                     a \in {findings[VulnDir].artifacts, "mixed"}}
          /\ WriteProgress("vuln")
          /\ UNCHANGED <<frame, opts, step, k, tables, analysis, fresh, short, unpacked>>
       \/ /\ findings' = IF O.vuln
                THEN [findings EXCEPT ![VulnDir] = [artifacts |-> frame, rows |-> @.rows \cup {frame}]]
                ELSE findings
          /\ IF O.vuln THEN WriteProgress("vuln") ELSE progress' = progress
          /\ step' = "tail"
          /\ UNCHANGED <<frame, opts, k, tables, analysis, fresh, short, unpacked, status>>

WriteTail == Run("tail") /\ WriteFile(TailFiles, "packs")

LastFiles == (IF O.packs THEN {"review_packs"} ELSE {}) \cup (IF O.profile THEN {"analysis_profile"} ELSE {})

\* write_review_packs, then the two best-effort reports (cards and summary)
\* whose errors are dropped, then analysis_profile.json.
WritePacks ==
    /\ Run("packs")
    /\ \/ (O.packs \/ O.profile) /\ Err
       \/ /\ fresh' = [fresh EXCEPT ![frame] = @ \cup LastFiles]
          /\ \E cut \in SUBSET ({frame} \X LastFiles) : Short(cut)
          /\ step' = "finish"
          /\ UNCHANGED <<frame, opts, k, tables, analysis, findings, progress, unpacked, status>>

\* The outer run returns its summary.
FinishOuter ==
    /\ Run("finish") /\ frame = "outer"
    /\ WriteProgress("completed")
    /\ status' = "ok"
    /\ UNCHANGED <<frame, opts, step, k, tables, analysis, files, unpacked>>

\* The nested run returns into maybe_run_unpack, which records where its
\* results are; the outer run starts its own passes.
FinishNested ==
    /\ Run("finish") /\ frame = "nested"
    /\ frame' = "outer" /\ step' = "passes" /\ k' = 1
    /\ rows' = Empty /\ built' = [t \in Tables |-> <<>>] /\ caps' = {}
    /\ analysis' = NoAnalysis /\ unpacked' = "unpacked_static"
    /\ WriteProgress("completed")
    /\ UNCHANGED <<opts, files, status>>

\* The process is killed.
Kill ==
    /\ status = "running" /\ status' = "killed"
    /\ UNCHANGED <<frame, opts, step, k, tables, analysis, files, progress, unpacked>>

Step ==
    \/ UnpackFails \/ NoUnpack \/ UnpackWithoutImage \/ UnpackNested
    \/ RunPass \/ Assemble \/ RunSymbolPass
    \/ WriteLlmArtifacts \/ WriteCore \/ VulnPass \/ WriteTail \/ WritePacks
    \/ FinishOuter \/ FinishNested

Next == Step \/ Kill

Spec == Init /\ [][Next]_vars

-----------------------------------------------------------------------------
(* Properties                                                              *)

\* The state has its shape: passes only name known tables and caps.
TypeOK ==
    /\ frame \in Frames /\ DOMAIN opts \subseteq Frames
    /\ step \in {"unpack", "passes", "symbols", "core", "vuln", "tail", "packs", "finish"}
    /\ DOMAIN rows = Tables /\ caps \subseteq Caps
    /\ \A f \in Frames : fresh[f] \subseteq Files \cup {"review_packs", "analysis_profile"}
    /\ short \subseteq Frames \X JsonFiles
    /\ status \in {"running", "ok", "err", "killed"}

\* From here on the tables are final and the files are written, by the nested
\* run as by the outer one; also the files of a run that then fails or is killed.
Writing == step \in {"core", "vuln", "tail", "packs", "finish"}

\* What second_pass.rs and the first callgraph are meant to see is the state
\* of pass 1: these tables are older than the final resolved calls, recovered
\* strings and structured flow that are written next to them.
PassOneReads ==
    ({"api_flows", "callgraph", "second_pass_targets"} \X {"resolved_calls"})
        \cup {<<"second_pass_targets", "recovered_strings">>, <<"second_pass_targets", "structured_flow">>,
              <<"uncertainties", "recovered_strings">>, <<"uncertainties", "structured_flow">>,
              <<"uncertainties", "resolved_calls">>}

\* Every table a run writes was built from the same rows of the other tables as
\* are written next to it; only what pass 1 computes for the target selection
\* is older.  (run_analysis shadows and mutates the vectors in place, so a pass
\* moved above a refinement silently reads half of it.)
FilesAgree ==
    Writing =>
        \A t \in Tables \cap fresh[frame] : \A b \in DOMAIN built[t] :
            built[t][b] = rows[b] \/ <<t, b>> \in PassOneReads

\* The counts of analysis.json, taken before the files are written, are those
\* of the tables written next to it: all of them for a PE image, and for
\* another format all but the four its form of analysis.json sets to 0
\* although their tables are written.
CountsAgree ==
    Writing =>
        /\ O.pe => DOMAIN analysis.counts = CountedTables
        /\ \A t \in DOMAIN analysis.counts :
               analysis.counts[t] = rows[t] \/ (~O.pe /\ t \in ZeroOffPe)

\* Refuted by an ELF or Mach-O image with any vtable, call or API hash.
EveryCountAgrees == Writing => \A t \in CountedTables \cap DOMAIN analysis.counts : analysis.counts[t] = rows[t]

Reported(c) == c \in analysis.caps_hit \/ (c \in SecondPassCaps /\ analysis.second_pass)

\* An analysis.json has a flag for every cap its passes hit but the silent ones,
\* flags no cap that was not hit (the nested run's least of all), and says what
\* became of the unpack session.
CapsReported ==
    Writing =>
        /\ \A c \in caps \ SilentCaps : Reported(c)
        /\ analysis.caps_hit \subseteq caps
        /\ analysis.second_pass => caps \cap SecondPassCaps # {}
        /\ analysis.unpack = IF frame = "outer" THEN unpacked ELSE "none"

\* Refuted by every silent cap.
EveryCapReported == Writing => \A c \in caps : Reported(c)

\* The progress file says completed only of a finished call whose files were
\* all written by it, the tables to the last row; a file write_json wrote may
\* be short.  Neither the nested run nor an early phase can announce it.
CompletedMeansWritten ==
    progress = "completed" =>
        /\ status = "ok" /\ Files \subseteq fresh["outer"]
        /\ \A t \in Files \ JsonFiles : <<"outer", t>> \notin short

\* Refuted by the unflushed BufWriter of write_json.
CompletedMeansWhole == progress = "completed" => \A t \in Files : <<"outer", t>> \notin short

\* A finished call leaves the artifacts of the outer image in its vuln
\* directory, although with --vuln-out the nested run writes them there first.
\* Of the nested run's rows the store holds some only then.
VulnFindingsAreOuters ==
    status = "ok" /\ opts["outer"].vuln =>
        /\ findings["outer"].artifacts = "outer" /\ "outer" \in findings["outer"].rows
        /\ "nested" \in findings["outer"].rows =>
               opts["outer"].vuln_out /\ unpacked = "unpacked_static"

\* Refuted by a --vuln-out directory and an unpacked image: what the store kept
\* of the nested run is listed with the outer image's findings.
VulnRowsAreOuters == status = "ok" /\ opts["outer"].vuln => "nested" \notin findings["outer"].rows

\* The nested run never unpacks again, and its files are complete when the
\* outer run reports unpacked_static.
NestedOnce ==
    /\ frame = "nested" => ~O.unpack
    /\ unpacked = "unpacked_static" => Files \subseteq fresh["nested"]

\* A reader of the files of a run finds one analysis: the tables agree with each
\* other and with what is counted of them, and the artifacts of the
\* vulnerability pass are not the nested image's.
RunIsConsistent == TypeOK /\ FilesAgree /\ CountsAgree /\ VulnFindingsAreOuters

\* What a run says of itself is true: the caps it has flags for, its unpack
\* outcome and that it has completed.
RunTellsTheTruth == CapsReported /\ CompletedMeansWritten /\ NestedOnce
=============================================================================
