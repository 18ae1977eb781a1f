----------------------- MODULE AnalysisPipeline_proofs -----------------------
(***************************************************************************)
(* Proofs about AnalysisPipeline for every set of options: what a run says *)
(* of itself is true, and the tables it writes are those of one analysis.  *)
(***************************************************************************)
EXTENDS AnalysisPipeline, TLAPS, SequenceTheorems

-----------------------------------------------------------------------------
(* The inductive invariant                                                 *)

\* The first n files of a list have been written.
Written(list, n) == \A i \in 1..n : list[i] \in fresh[frame]

\* The nested run unpacks nothing, has no progress file and shares a --vuln-out.
OptionsOfFrames ==
    /\ frame \in Frames
    /\ {"outer", frame} \subseteq DOMAIN opts
    /\ \A f \in DOMAIN opts : opts[f] \in Options
    /\ frame = "nested" => /\ ~opts["nested"].unpack /\ ~opts["nested"].progress
                           /\ opts["nested"].vuln_out = opts["outer"].vuln_out

\* Where the executing run is tells which of its files it has written.
FilesFollowSteps ==
    /\ k \in Nat \ {0}
    /\ DOMAIN fresh = Frames
    /\ step = "core" => k <= Len(CoreFiles) /\ Written(CoreFiles, k - 1)
    /\ step \in {"vuln", "tail", "packs", "finish"} => Written(CoreFiles, Len(CoreFiles))
    /\ step = "vuln" => k = 1
    /\ step = "tail" => k <= Len(TailFiles) /\ Written(TailFiles, k - 1)
    /\ step \in {"packs", "finish"} => Written(TailFiles, Len(TailFiles))

\* From its assembly on, analysis.json holds the flags of the caps that were hit
\* and the unpack summary, which the outer run only sets before its passes; what
\* the symbols hit after it has no flag.
AnalysisFollowsSteps ==
    /\ step \in {"symbols", "core", "vuln", "tail", "packs", "finish"} =>
           /\ analysis.caps_hit = caps \cap FlaggedCaps
           /\ analysis.second_pass = (caps \cap SecondPassCaps # {})
           /\ analysis.unpack = IF frame = "outer" THEN unpacked ELSE "none"
    /\ frame = "nested" \/ step = "unpack" => unpacked = "none"
    /\ status = "ok" => frame = "outer" /\ step = "finish"

\* Only what write_json writes is ever short.
ShortAreJson == short \subseteq Frames \X JsonFiles

TruthInv ==
    /\ OptionsOfFrames /\ FilesFollowSteps /\ AnalysisFollowsSteps /\ ShortAreJson
    /\ CompletedMeansWritten /\ NestedOnce

-----------------------------------------------------------------------------
(* The lists                                                               *)

Names == {CoreFiles[i] : i \in 1..Len(CoreFiles)} \cup {TailFiles[i] : i \in 1..Len(TailFiles)}

LEMMA FileLists ==
    /\ CoreFiles \in Seq(Names) /\ TailFiles \in Seq(Names)
    /\ Len(CoreFiles) \in Nat \ {0} /\ Len(TailFiles) \in Nat \ {0}
    /\ DOMAIN CoreFiles = 1..Len(CoreFiles) /\ DOMAIN TailFiles = 1..Len(TailFiles)
<1>1. CoreFiles \in Seq({CoreFiles[i] : i \in 1..33}) /\ Len(CoreFiles) = 33
  BY DEF CoreFiles
<1>2. TailFiles \in Seq({TailFiles[i] : i \in 1..10}) /\ Len(TailFiles) = 10
  BY DEF TailFiles
<1>3. CoreFiles \in Seq(Names) /\ TailFiles \in Seq(Names)
  BY <1>1, <1>2 DEF Names
<1> QED BY <1>1, <1>2, <1>3

\* The files are those of the two lists.
LEMMA FilesOfLists ==
    ASSUME NEW S, \A i \in 1..Len(CoreFiles) : CoreFiles[i] \in S,
                  \A i \in 1..Len(TailFiles) : TailFiles[i] \in S
    PROVE  Files \subseteq S
<1> DEFINE c == Len(CoreFiles)
           t == Len(TailFiles)
           all == CoreFiles \o TailFiles
<1>1. c \in Nat /\ t \in Nat
  BY FileLists
<1>2. /\ all \in Seq(Names) /\ Len(all) = c + t
      /\ \A i \in 1..(c + t) : all[i] = IF i <= c THEN CoreFiles[i] ELSE TailFiles[i - c]
  BY FileLists, ConcatProperties
<1>3. DOMAIN all = 1..(c + t)
  BY <1>2
<1>4. ASSUME NEW i \in 1..(c + t) PROVE all[i] \in S
  <2>1. CASE i <= c
    <3>1. i \in 1..c
      BY <2>1, <1>1
    <3> QED BY <3>1, <2>1, <1>2
  <2>2. CASE ~(i <= c)
    <3>1. i - c \in 1..t
      BY <2>2, <1>1
    <3> QED BY <3>1, <2>2, <1>2
  <2> QED BY <2>1, <2>2
<1> QED BY <1>3, <1>4 DEF Files, Range

\* No pass over the debug symbols has a cap with a flag.
LEMMA SymbolPassesSilent == \A i \in DOMAIN SymbolPasses : SymbolPasses[i].limits \subseteq {"symbol_rows"}
  BY DEF SymbolPasses, Pass

\* The options of the nested run.
LEMMA NestedOptionsOff ==
    ASSUME NEW o \in Options
    PROVE  /\ NestedOptions(o) \in Options
           /\ ~NestedOptions(o).unpack /\ ~NestedOptions(o).progress
           /\ NestedOptions(o).vuln_out = o.vuln_out
  BY DEF NestedOptions, Options

-----------------------------------------------------------------------------
(* Every step keeps the invariant                                          *)

LEMMA InitTruth == Init => TruthInv
<1> SUFFICES ASSUME Init PROVE TruthInv
  OBVIOUS
<1>1. OptionsOfFrames
  BY OptionAssumption DEF Init, OptionsOfFrames, Frames
<1>2. FilesFollowSteps
  BY DEF Init, FilesFollowSteps, Frames
<1>3. AnalysisFollowsSteps
  BY DEF Init, AnalysisFollowsSteps
<1> QED BY <1>1, <1>2, <1>3 DEF Init, TruthInv, ShortAreJson, CompletedMeansWritten, NestedOnce

\* A step that only ends the call without success.
LEMMA StoppedTruth ==
    ASSUME TruthInv, status = "running", status' \in {"err", "killed"},
           progress' \in {progress, "vuln", "cut"},
           UNCHANGED <<frame, opts, step, k, caps, analysis, fresh, short, unpacked>>
    PROVE  TruthInv'
<1>1. OptionsOfFrames' /\ FilesFollowSteps' /\ ShortAreJson'
  BY DEF TruthInv, OptionsOfFrames, FilesFollowSteps, Written, ShortAreJson
<1>2. AnalysisFollowsSteps'
  BY DEF TruthInv, AnalysisFollowsSteps
<1>3. CompletedMeansWritten' /\ NestedOnce'
  BY DEF TruthInv, CompletedMeansWritten, NestedOnce, O
<1> QED BY <1>1, <1>2, <1>3 DEF TruthInv

\* An error leaves everything but the status.
LEMMA ErrTruth ==
    ASSUME TruthInv, status = "running", Err
    PROVE  TruthInv'
BY StoppedTruth DEF Err, tables, files

\* A running call has not announced that it is complete, and does so in its
\* last step only.
LEMMA NotYetComplete ==
    ASSUME TruthInv, status = "running", NEW phase \in {"pass", "write_outputs", "vuln"},
           WriteProgress(phase) \/ UNCHANGED progress
    PROVE  CompletedMeansWritten'
  BY DEF TruthInv, CompletedMeansWritten, WriteProgress

\* A step of the passes that leaves the files and the analysis alone.
LEMMA PassTruth ==
    ASSUME TruthInv, RunPass \/ RunSymbolPass
    PROVE  TruthInv'
<1>0. /\ status = "running" /\ step \in {"passes", "symbols"} /\ k' = k + 1
      /\ UNCHANGED <<frame, opts, step, analysis, fresh, short, unpacked, status>>
  BY DEF RunPass, RunSymbolPass, Run, files
<1>1. OptionsOfFrames' /\ ShortAreJson'
  BY <1>0 DEF TruthInv, OptionsOfFrames, ShortAreJson
<1>2. FilesFollowSteps'
  BY <1>0 DEF TruthInv, FilesFollowSteps
<1>3. step = "symbols" => /\ caps' \cap FlaggedCaps = caps \cap FlaggedCaps
                          /\ caps' \cap SecondPassCaps = caps \cap SecondPassCaps
  <2> SUFFICES ASSUME step = "symbols"
               PROVE  /\ caps' \cap FlaggedCaps = caps \cap FlaggedCaps
                      /\ caps' \cap SecondPassCaps = caps \cap SecondPassCaps
    OBVIOUS
  <2>1. k \in DOMAIN SymbolPasses /\ Apply(SymbolPasses[k])
    BY DEF RunPass, RunSymbolPass, Run
  <2>2. PICK hit \in SUBSET SymbolPasses[k].limits : caps' = caps \cup hit
    BY <2>1 DEF Apply
  <2>3. hit \subseteq {"symbol_rows"}
    BY <2>1, <2>2, SymbolPassesSilent
  <2>4. "symbol_rows" \notin FlaggedCaps /\ "symbol_rows" \notin SecondPassCaps
    BY DEF FlaggedCaps, SecondPassCaps
  <2> QED BY <2>2, <2>3, <2>4
<1>4. AnalysisFollowsSteps'
  BY <1>0, <1>3 DEF TruthInv, AnalysisFollowsSteps
<1>5. CompletedMeansWritten'
  <2>1. WriteProgress("pass") \/ UNCHANGED progress
    BY DEF RunPass, RunSymbolPass
  <2> QED BY <1>0, <2>1, NotYetComplete
<1>6. NestedOnce'
  BY <1>0 DEF TruthInv, NestedOnce, O
<1> QED BY <1>1, <1>2, <1>4, <1>5, <1>6 DEF TruthInv

\* Adding files to the directory of the executing run.
LEMMA FreshGrows ==
    ASSUME TruthInv, NEW x, fresh' = [fresh EXCEPT ![frame] = @ \cup x]
    PROVE  /\ frame \in Frames /\ DOMAIN fresh' = Frames
           /\ fresh'[frame] = fresh[frame] \cup x
           /\ \A f \in Frames : fresh[f] \subseteq fresh'[f]
  BY DEF TruthInv, OptionsOfFrames, FilesFollowSteps

\* The next file of a list: what was written stays, and one more is.
LEMMA ListGrows ==
    ASSUME TruthInv, NEW list, NEW n \in Nat, n > 0, Written(list, n - 1),
           fresh' = [fresh EXCEPT ![frame] = @ \cup {list[n]}]
    PROVE  \A i \in 1..n : list[i] \in fresh'[frame]
<1>1. fresh'[frame] = fresh[frame] \cup {list[n]}
  BY FreshGrows
<1> SUFFICES ASSUME NEW i \in 1..n PROVE list[i] \in fresh'[frame]
  OBVIOUS
<1>2. i = n \/ i \in 1..(n - 1)
  OBVIOUS
<1> QED BY <1>1, <1>2 DEF Written

\* Parts of the invariant a step of the running call keeps when it only adds
\* files and moves on among the steps after the assembly.
LEMMA WritingTruth ==
    ASSUME TruthInv, status = "running", NEW x, fresh' = [fresh EXCEPT ![frame] = @ \cup x],
           {step, step'} \subseteq {"core", "vuln", "tail", "packs", "finish"},
           UNCHANGED <<frame, opts, caps, analysis, progress, unpacked, status>>,
           NEW cut, cut \subseteq Frames \X JsonFiles, Short(cut)
    PROVE  /\ OptionsOfFrames' /\ AnalysisFollowsSteps' /\ ShortAreJson'
           /\ CompletedMeansWritten' /\ NestedOnce'
<1>0. ShortAreJson'
  BY DEF TruthInv, ShortAreJson, Short
<1>1. OptionsOfFrames' /\ AnalysisFollowsSteps'
  BY DEF TruthInv, OptionsOfFrames, AnalysisFollowsSteps
<1>2. CompletedMeansWritten'
  BY DEF TruthInv, CompletedMeansWritten
<1>3. fresh["nested"] \subseteq fresh'["nested"]
  BY FreshGrows DEF Frames
<1>4. NestedOnce'
  BY <1>3 DEF TruthInv, NestedOnce, O
<1> QED BY <1>0, <1>1, <1>2, <1>4

\* Writing the next file of the executing run's list.
LEMMA CoreTruth ==
    ASSUME TruthInv, WriteCore
    PROVE  TruthInv'
<1>1. CASE Err
  BY <1>1, ErrTruth DEF WriteCore, Run
<1>2. CASE ~Err
  <2>0. /\ status = "running" /\ step = "core" /\ k \in 1..Len(CoreFiles)
        /\ fresh' = [fresh EXCEPT ![frame] = @ \cup {CoreFiles[k]}]
        /\ IF k = Len(CoreFiles) THEN step' = "vuln" /\ k' = 1 ELSE k' = k + 1 /\ step' = step
        /\ \E cut \in SUBSET ({<<frame, CoreFiles[k]>>} \cap (Frames \X JsonFiles)) : Short(cut)
        /\ UNCHANGED <<frame, opts, caps, analysis, progress, unpacked, status>>
    BY <1>2, FileLists DEF WriteCore, WriteFile, Run, tables
  <2>0a. PICK cut : cut \subseteq Frames \X JsonFiles /\ Short(cut)
    BY <2>0
  <2>1. k \in Nat /\ k > 0 /\ Written(CoreFiles, k - 1)
    BY <2>0 DEF TruthInv, FilesFollowSteps
  <2>2. \A i \in 1..k : CoreFiles[i] \in fresh'[frame]
    BY <2>0, <2>1, ListGrows
  <2>3. DOMAIN fresh' = Frames
    BY <2>0, FreshGrows
  <2>4. ASSUME k = Len(CoreFiles) PROVE FilesFollowSteps'
    <3>1. step' = "vuln" /\ k' = 1 /\ Written(CoreFiles, Len(CoreFiles))'
      BY <2>0, <2>2, <2>4 DEF Written
    <3> QED BY <2>3, <3>1 DEF FilesFollowSteps
  <2>5. ASSUME k # Len(CoreFiles) PROVE FilesFollowSteps'
    <3>0. step' = "core" /\ k' = k + 1
      BY <2>0, <2>5
    <3>1. /\ step' = "core" /\ k' \in Nat \ {0} /\ k' - 1 = k
          /\ k' <= Len(CoreFiles)
      <4>1. Len(CoreFiles) \in Nat
        BY FileLists
      <4> QED BY <2>0, <2>1, <2>5, <3>0, <4>1
    <3>2. Written(CoreFiles, k - 1)'
      BY <2>0, <2>2, <3>1 DEF Written
    <3> QED BY <2>3, <3>1, <3>2 DEF FilesFollowSteps
  <2>6. FilesFollowSteps'
    BY <2>4, <2>5
  <2>7. {step, step'} \subseteq {"core", "vuln", "tail", "packs", "finish"}
    BY <2>0
  <2> QED BY <2>0, <2>0a, <2>6, <2>7, WritingTruth DEF TruthInv
<1> QED BY <1>1, <1>2

LEMMA TailTruth ==
    ASSUME TruthInv, WriteTail
    PROVE  TruthInv'
<1>1. CASE Err
  BY <1>1, ErrTruth DEF WriteTail, Run
<1>2. CASE ~Err
  <2>0. /\ status = "running" /\ step = "tail" /\ k \in 1..Len(TailFiles)
        /\ fresh' = [fresh EXCEPT ![frame] = @ \cup {TailFiles[k]}]
        /\ IF k = Len(TailFiles) THEN step' = "packs" /\ k' = 1 ELSE k' = k + 1 /\ step' = step
        /\ \E cut \in SUBSET ({<<frame, TailFiles[k]>>} \cap (Frames \X JsonFiles)) : Short(cut)
        /\ UNCHANGED <<frame, opts, caps, analysis, progress, unpacked, status>>
    BY <1>2, FileLists DEF WriteTail, WriteFile, Run, tables
  <2>0a. PICK cut : cut \subseteq Frames \X JsonFiles /\ Short(cut)
    BY <2>0
  <2>1. k \in Nat /\ k > 0 /\ Written(TailFiles, k - 1) /\ Written(CoreFiles, Len(CoreFiles))
    BY <2>0 DEF TruthInv, FilesFollowSteps
  <2>2. \A i \in 1..k : TailFiles[i] \in fresh'[frame]
    BY <2>0, <2>1, ListGrows
  <2>3. DOMAIN fresh' = Frames
    BY <2>0, FreshGrows
  <2>4. Written(CoreFiles, Len(CoreFiles))'
    BY <2>0, <2>1, FreshGrows DEF Written
  <2>5. ASSUME k = Len(TailFiles) PROVE FilesFollowSteps'
    <3>1. step' = "packs" /\ k' = 1 /\ Written(TailFiles, Len(TailFiles))'
      BY <2>0, <2>2, <2>5 DEF Written
    <3> QED BY <2>3, <2>4, <3>1 DEF FilesFollowSteps
  <2>6. ASSUME k # Len(TailFiles) PROVE FilesFollowSteps'
    <3>0. step' = "tail" /\ k' = k + 1
      BY <2>0, <2>6
    <3>1. /\ step' = "tail" /\ k' \in Nat \ {0} /\ k' - 1 = k
          /\ k' <= Len(TailFiles)
      <4>1. Len(TailFiles) \in Nat
        BY FileLists
      <4> QED BY <2>0, <2>1, <2>6, <3>0, <4>1
    <3>2. Written(TailFiles, k - 1)'
      BY <2>0, <2>2, <3>1 DEF Written
    <3> QED BY <2>3, <2>4, <3>1, <3>2 DEF FilesFollowSteps
  <2>7. FilesFollowSteps'
    BY <2>5, <2>6
  <2>8. {step, step'} \subseteq {"core", "vuln", "tail", "packs", "finish"}
    BY <2>0
  <2> QED BY <2>0, <2>0a, <2>7, <2>8, WritingTruth DEF TruthInv
<1> QED BY <1>1, <1>2

LEMMA PacksTruth ==
    ASSUME TruthInv, WritePacks
    PROVE  TruthInv'
<1>1. CASE Err
  BY <1>1, ErrTruth DEF WritePacks, Run
<1>2. CASE ~Err
  <2>0. /\ status = "running" /\ step = "packs" /\ step' = "finish"
        /\ fresh' = [fresh EXCEPT ![frame] = @ \cup LastFiles]
        /\ \E cut \in SUBSET ({frame} \X LastFiles) : Short(cut)
        /\ UNCHANGED <<frame, opts, k, caps, analysis, progress, unpacked, status>>
    BY <1>2 DEF WritePacks, Run, tables
  <2>0a. PICK cut : cut \subseteq Frames \X JsonFiles /\ Short(cut)
    <3>1. LastFiles \subseteq JsonFiles /\ frame \in Frames
      BY DEF LastFiles, JsonFiles, TruthInv, OptionsOfFrames
    <3> QED BY <2>0, <3>1
  <2>1. /\ k \in Nat \ {0} /\ Written(TailFiles, Len(TailFiles)) /\ Written(CoreFiles, Len(CoreFiles))
    BY <2>0 DEF TruthInv, FilesFollowSteps
  <2>2. /\ Written(CoreFiles, Len(CoreFiles))' /\ Written(TailFiles, Len(TailFiles))'
        /\ DOMAIN fresh' = Frames
    BY <2>0, <2>1, FreshGrows DEF Written
  <2>3. FilesFollowSteps'
    BY <2>0, <2>1, <2>2 DEF FilesFollowSteps
  <2>4. {step, step'} \subseteq {"core", "vuln", "tail", "packs", "finish"}
    BY <2>0
  <2> QED BY <2>0, <2>0a, <2>3, <2>4, WritingTruth DEF TruthInv
<1> QED BY <1>1, <1>2

\* The steps that change no file: the choice of maybe_run_unpack, the
\* assembly, the write of the LLM artifacts and the vulnerability pass.
LEMMA UnpackTruth ==
    ASSUME TruthInv, UnpackFails \/ NoUnpack \/ UnpackWithoutImage \/ UnpackNested
    PROVE  TruthInv'
<1>1. CASE UnpackFails
  BY <1>1, ErrTruth DEF UnpackFails, Run
<1>2. CASE NoUnpack \/ UnpackWithoutImage
  <2>0. /\ status = "running" /\ step = "unpack" /\ step' = "passes"
        /\ \/ unpacked' = unpacked
           \/ O.unpack /\ unpacked' \in {"skipped", "no_snapshot", "bad_snapshot"}
        /\ UNCHANGED <<frame, opts, k, caps, analysis, fresh, short, progress, status>>
    <3>1. CASE NoUnpack
      BY <3>1 DEF NoUnpack, Run, tables, files
    <3>2. CASE UnpackWithoutImage
      BY <3>2 DEF UnpackWithoutImage, Run, tables, files
    <3> QED BY <1>2, <3>1, <3>2
  <2>1. OptionsOfFrames' /\ FilesFollowSteps' /\ ShortAreJson'
    BY <2>0 DEF TruthInv, ShortAreJson, OptionsOfFrames, FilesFollowSteps
  <2>2. AnalysisFollowsSteps'
    BY <2>0 DEF TruthInv, AnalysisFollowsSteps, NestedOnce
  <2>3. CompletedMeansWritten' /\ NestedOnce'
    BY <2>0 DEF TruthInv, CompletedMeansWritten, NestedOnce, O
  <2> QED BY <2>1, <2>2, <2>3 DEF TruthInv
<1>3. CASE UnpackNested
  <2>0. /\ status = "running" /\ step = "unpack" /\ O.unpack /\ frame' = "nested"
        /\ opts' = [f \in Frames |-> IF f = "outer" THEN O ELSE NestedOptions(O)]
        /\ UNCHANGED <<step, k, caps, analysis, fresh, short, progress, unpacked, status>>
    BY <1>3 DEF UnpackNested, Run, tables, files
  <2>1. FilesFollowSteps' /\ ShortAreJson'
    BY <2>0 DEF TruthInv, FilesFollowSteps, ShortAreJson
  <2>2. AnalysisFollowsSteps'
    BY <2>0 DEF TruthInv, AnalysisFollowsSteps
  <2>3. DOMAIN opts' = Frames /\ opts'["nested"] = NestedOptions(O) /\ opts'["outer"] = O
    BY <2>0 DEF Frames
  <2>3a. O \in Options
    BY DEF TruthInv, OptionsOfFrames, O
  <2>3b. \A f \in Frames : opts'[f] \in Options
    BY <2>3, <2>3a, NestedOptionsOff DEF Frames
  <2>4. /\ ~opts'["nested"].unpack /\ ~opts'["nested"].progress
        /\ opts'["nested"].vuln_out = opts'["outer"].vuln_out
    BY <2>3, <2>3a, NestedOptionsOff
  <2>5. OptionsOfFrames'
    BY <2>0, <2>3, <2>4, <2>3b DEF OptionsOfFrames, Frames
  <2>6. CompletedMeansWritten' /\ NestedOnce'
    BY <2>0, <2>4 DEF TruthInv, CompletedMeansWritten, NestedOnce, O
  <2> QED BY <2>1, <2>2, <2>5, <2>6 DEF TruthInv
<1> QED BY <1>1, <1>2, <1>3

LEMMA BetweenTruth ==
    ASSUME TruthInv, Assemble \/ WriteLlmArtifacts \/ VulnPass
    PROVE  TruthInv'
<1>1. CASE Err
  BY <1>1, ErrTruth DEF Assemble, WriteLlmArtifacts, VulnPass, Run
<1>2. CASE Assemble
  <2>0. /\ status = "running" /\ step = "passes" /\ step' = "symbols" /\ k' = 1
        /\ analysis'.caps_hit = caps \cap FlaggedCaps
        /\ analysis'.second_pass = (caps \cap SecondPassCaps # {})
        /\ analysis'.unpack = IF frame = "outer" THEN unpacked ELSE "none"
        /\ UNCHANGED <<frame, opts, caps, fresh, short, progress, unpacked, status>>
    BY <1>2 DEF Assemble, Run, tables, files
  <2>1. OptionsOfFrames' /\ FilesFollowSteps' /\ ShortAreJson'
    BY <2>0 DEF TruthInv, ShortAreJson, OptionsOfFrames, FilesFollowSteps
  <2>2. AnalysisFollowsSteps'
    BY <2>0 DEF TruthInv, AnalysisFollowsSteps
  <2>3. CompletedMeansWritten' /\ NestedOnce'
    BY <2>0 DEF TruthInv, CompletedMeansWritten, NestedOnce, O
  <2> QED BY <2>1, <2>2, <2>3 DEF TruthInv
<1>3. CASE WriteLlmArtifacts /\ ~Err
  <2>0. /\ status = "running" /\ step = "symbols" /\ step' = "core" /\ k' = 1
        /\ WriteProgress("write_outputs")
        /\ UNCHANGED <<frame, opts, caps, analysis, fresh, short, unpacked, status>>
    BY <1>3 DEF WriteLlmArtifacts, Run, tables, files
  <2>1. FilesFollowSteps'
    <3>1. Written(CoreFiles, k - 1)' /\ 1 <= Len(CoreFiles)
      BY <2>0, FileLists DEF Written
    <3> QED BY <2>0, <3>1 DEF TruthInv, FilesFollowSteps
  <2>2. OptionsOfFrames' /\ AnalysisFollowsSteps' /\ ShortAreJson'
    BY <2>0 DEF TruthInv, OptionsOfFrames, AnalysisFollowsSteps, ShortAreJson
  <2>3. CompletedMeansWritten'
    BY <2>0, NotYetComplete
  <2>4. NestedOnce'
    BY <2>0 DEF TruthInv, NestedOnce, O
  <2> QED BY <2>1, <2>2, <2>3, <2>4 DEF TruthInv
<1>4. CASE VulnPass /\ status' = "err"
  <2>1. progress' \in {progress, "vuln", "cut"} /\ status = "running"
    BY <1>4 DEF VulnPass, Run, WriteProgress
  <2>2. UNCHANGED <<frame, opts, step, k, caps, analysis, fresh, short, unpacked>>
    BY <1>4, <2>1 DEF VulnPass, tables
  <2> QED BY <1>4, <2>1, <2>2, StoppedTruth
<1>5. CASE VulnPass /\ status' # "err"
  <2>0. /\ status = "running" /\ step = "vuln" /\ step' = "tail"
        /\ WriteProgress("vuln") \/ UNCHANGED progress
        /\ UNCHANGED <<frame, opts, k, caps, analysis, fresh, short, unpacked, status>>
    BY <1>5 DEF VulnPass, Run, tables
  <2>1. FilesFollowSteps'
    <3>1. k = 1 /\ k' = 1 /\ Written(CoreFiles, Len(CoreFiles)) /\ DOMAIN fresh' = Frames
      BY <2>0 DEF TruthInv, FilesFollowSteps
    <3>2. Written(TailFiles, k - 1)' /\ 1 <= Len(TailFiles) /\ Written(CoreFiles, Len(CoreFiles))'
      BY <2>0, <3>1, FileLists DEF Written
    <3> QED BY <2>0, <3>1, <3>2 DEF FilesFollowSteps
  <2>2. OptionsOfFrames' /\ AnalysisFollowsSteps' /\ ShortAreJson'
    BY <2>0 DEF TruthInv, OptionsOfFrames, AnalysisFollowsSteps, ShortAreJson
  <2>3. CompletedMeansWritten'
    BY <2>0, NotYetComplete
  <2>4. NestedOnce'
    BY <2>0 DEF TruthInv, NestedOnce, O
  <2> QED BY <2>1, <2>2, <2>3, <2>4 DEF TruthInv
<1> QED BY <1>1, <1>2, <1>3, <1>4, <1>5

\* The end of a run: all its files are there.
LEMMA FinishTruth ==
    ASSUME TruthInv, FinishOuter \/ FinishNested
    PROVE  TruthInv'
<1>1. step = "finish" /\ status = "running"
  BY DEF FinishOuter, FinishNested, Run
<1>2. Files \subseteq fresh[frame]
  BY <1>1, FilesOfLists DEF TruthInv, FilesFollowSteps, Written
<1>3. CASE FinishOuter
  <2>0. /\ frame = "outer" /\ status' = "ok"
        /\ UNCHANGED <<frame, opts, step, k, caps, analysis, fresh, short, unpacked>>
    BY <1>3 DEF FinishOuter, tables, files
  <2>1. OptionsOfFrames' /\ FilesFollowSteps' /\ ShortAreJson'
    BY <2>0 DEF TruthInv, ShortAreJson, OptionsOfFrames, FilesFollowSteps, Written
  <2>2. AnalysisFollowsSteps'
    BY <1>1, <2>0 DEF TruthInv, AnalysisFollowsSteps
  <2>3. Files \subseteq fresh["outer"] /\ \A t \in Files \ JsonFiles : <<"outer", t>> \notin short
    BY <1>2, <2>0 DEF TruthInv, ShortAreJson
  <2>4. CompletedMeansWritten'
    BY <2>0, <2>3 DEF CompletedMeansWritten
  <2>5. NestedOnce'
    BY <2>0 DEF TruthInv, NestedOnce, O
  <2> QED BY <2>1, <2>2, <2>4, <2>5 DEF TruthInv
<1>4. CASE FinishNested
  <2>0. /\ frame = "nested" /\ frame' = "outer" /\ step' = "passes" /\ k' = 1
        /\ unpacked' = "unpacked_static" /\ WriteProgress("completed")
        /\ UNCHANGED <<opts, fresh, short, status>>
    BY <1>4 DEF FinishNested, files
  <2>1. progress' = progress
    BY <2>0 DEF TruthInv, OptionsOfFrames, WriteProgress, O
  <2>2. OptionsOfFrames' /\ FilesFollowSteps' /\ ShortAreJson'
    BY <2>0 DEF TruthInv, ShortAreJson, OptionsOfFrames, FilesFollowSteps, Frames
  <2>3. AnalysisFollowsSteps'
    BY <1>1, <2>0 DEF AnalysisFollowsSteps
  <2>4. CompletedMeansWritten' /\ NestedOnce'
    BY <1>1, <1>2, <2>0, <2>1 DEF TruthInv, CompletedMeansWritten, NestedOnce
  <2> QED BY <2>2, <2>3, <2>4 DEF TruthInv
<1> QED BY <1>3, <1>4

LEMMA NextTruth == TruthInv /\ [Next]_vars => TruthInv'
<1> SUFFICES ASSUME TruthInv, [Next]_vars PROVE TruthInv'
  OBVIOUS
<1>1. CASE UnpackFails \/ NoUnpack \/ UnpackWithoutImage \/ UnpackNested
  BY <1>1, UnpackTruth
<1>2. CASE RunPass \/ RunSymbolPass
  BY <1>2, PassTruth
<1>3. CASE Assemble \/ WriteLlmArtifacts \/ VulnPass
  BY <1>3, BetweenTruth
<1>4. CASE WriteCore
  BY <1>4, CoreTruth
<1>5. CASE WriteTail
  BY <1>5, TailTruth
<1>6. CASE WritePacks
  BY <1>6, PacksTruth
<1>7. CASE FinishOuter \/ FinishNested
  BY <1>7, FinishTruth
<1>8. CASE Kill
  BY <1>8, StoppedTruth DEF Kill, tables, files
<1>9. CASE UNCHANGED vars
  <2>1. OptionsOfFrames' /\ FilesFollowSteps' /\ AnalysisFollowsSteps' /\ ShortAreJson'
    BY <1>9 DEF TruthInv, OptionsOfFrames, FilesFollowSteps, AnalysisFollowsSteps, Written, ShortAreJson,
                vars, tables, files
  <2> QED BY <1>9, <2>1 DEF TruthInv, CompletedMeansWritten, NestedOnce, O, vars, files
<1> QED BY <1>1, <1>2, <1>3, <1>4, <1>5, <1>6, <1>7, <1>8, <1>9 DEF Next, Step

-----------------------------------------------------------------------------
(* The order of the passes                                                 *)

AllPasses == PassesBeforeAnalysis \o SymbolPasses

\* The last pass that writes each table.
LastPass ==
    [imports |-> 1, exports |-> 1, strings |-> 2, instructions |-> 3, ir |-> 3, xrefs |-> 3,
     functions |-> 4, cfg |-> 5, index |-> 6, rtti |-> 7, eh |-> 8, value_graph |-> 9,
     api_flows |-> 11, callgraph |-> 12, obfuscation_hints |-> 14, provisional_ir |-> 16,
     provisional_dossiers |-> 17, second_pass_targets |-> 18, ssa |-> 19, vsa |-> 20,
     jump_tables |-> 21, switches |-> 22, api_hash_resolutions |-> 23, recovered_strings |-> 24,
     decoded_strings |-> 24, type_hints |-> 25, structured_flow |-> 26, vtables |-> 27,
     resolved_calls |-> 28, class_dossiers |-> 29, behavior_dossiers |-> 30, pseudo_ir |-> 31,
     function_dossiers |-> 32, interesting_functions |-> 33, uncertainties |-> 35, portable |-> 35,
     scorecard |-> 36, symbols |-> 37, symbol_graph |-> 38, class_facts |-> 39]

\* The tables pass 2 replaces before anything is written.
Provisional == {"provisional_ir", "provisional_dossiers"}

\* Pass p, run as the n-th: it writes each of its tables for the last time or
\* earlier, and what it reads is final unless its own table is provisional or
\* meant to show pass 1.
Ordered(p, n) ==
    /\ \A b \in p.sets \cup p.adds : b \in DOMAIN LastPass /\ n <= LastPass[b]
    /\ p.reads \subseteq DOMAIN LastPass
    /\ \A t \in p.sets : \A b \in p.reads :
           LastPass[b] < n \/ t \in Provisional \/ <<t, b>> \in PassOneReads
    /\ p.limits \subseteq Caps

LEMMA LoadOrdered == \A i \in 1..5 : Ordered(LoadPasses[i], i)
  BY DEF LoadPasses, Pass, Ordered, LastPass, Caps, FlaggedCaps, SecondPassCaps, SilentCaps

LEMMA SemanticOrdered == \A i \in 1..7 : Ordered(SemanticPasses[i], 5 + i)
  BY DEF SemanticPasses, Pass, Ordered, LastPass, Caps, FlaggedCaps, SecondPassCaps, SilentCaps, PassOneReads

LEMMA HintOrdered == \A i \in 1..5 : Ordered(HintPasses[i], 12 + i)
  BY DEF HintPasses, Pass, Ordered, LastPass, Caps, FlaggedCaps, SecondPassCaps, SilentCaps, Provisional

LEMMA TargetOrdered == \A i \in 1..8 : Ordered(TargetPasses[i], 17 + i)
  BY DEF TargetPasses, Pass, Ordered, LastPass, Caps, FlaggedCaps, SecondPassCaps, SilentCaps, PassOneReads

LEMMA RefineOrdered == \A i \in 1..5 : Ordered(RefinePasses[i], 25 + i)
  BY DEF RefinePasses, Pass, Ordered, LastPass, Caps, FlaggedCaps, SecondPassCaps, SilentCaps

LEMMA FinalOrdered == \A i \in 1..3 : Ordered(FinalPasses[i], 30 + i)
  BY DEF FinalPasses, Pass, Ordered, LastPass, Caps, FlaggedCaps, SecondPassCaps, SilentCaps

LEMMA UncertaintyOrdered == \A i \in 1..3 : Ordered(UncertaintyPasses[i], 33 + i)
  BY DEF UncertaintyPasses, Pass, Ordered, LastPass, Caps, FlaggedCaps, SecondPassCaps, SilentCaps

LEMMA SymbolOrdered == \A i \in 1..3 : Ordered(SymbolPasses[i], 36 + i)
  BY DEF SymbolPasses, Pass, Ordered, LastPass, Caps, FlaggedCaps, SecondPassCaps, SilentCaps

PassRecords ==
    UNION {Range(LoadPasses), Range(SemanticPasses), Range(HintPasses), Range(TargetPasses),
           Range(RefinePasses), Range(FinalPasses), Range(UncertaintyPasses), Range(SymbolPasses)}

\* A tuple is a sequence of its elements.
LEMMA PassLists ==
    /\ LoadPasses \in Seq(PassRecords) /\ Len(LoadPasses) = 5
    /\ SemanticPasses \in Seq(PassRecords) /\ Len(SemanticPasses) = 7
    /\ HintPasses \in Seq(PassRecords) /\ Len(HintPasses) = 5
    /\ TargetPasses \in Seq(PassRecords) /\ Len(TargetPasses) = 8
    /\ RefinePasses \in Seq(PassRecords) /\ Len(RefinePasses) = 5
    /\ FinalPasses \in Seq(PassRecords) /\ Len(FinalPasses) = 3
    /\ UncertaintyPasses \in Seq(PassRecords) /\ Len(UncertaintyPasses) = 3
    /\ SymbolPasses \in Seq(PassRecords) /\ Len(SymbolPasses) = 3
<1>1. LoadPasses \in Seq(Range(LoadPasses)) /\ Len(LoadPasses) = 5
  BY DEF LoadPasses, Range
<1>2. SemanticPasses \in Seq(Range(SemanticPasses)) /\ Len(SemanticPasses) = 7
  BY DEF SemanticPasses, Range
<1>3. HintPasses \in Seq(Range(HintPasses)) /\ Len(HintPasses) = 5
  BY DEF HintPasses, Range
<1>4. TargetPasses \in Seq(Range(TargetPasses)) /\ Len(TargetPasses) = 8
  BY DEF TargetPasses, Range
<1>5. RefinePasses \in Seq(Range(RefinePasses)) /\ Len(RefinePasses) = 5
  BY DEF RefinePasses, Range
<1>6. FinalPasses \in Seq(Range(FinalPasses)) /\ Len(FinalPasses) = 3
  BY DEF FinalPasses, Range
<1>7. UncertaintyPasses \in Seq(Range(UncertaintyPasses)) /\ Len(UncertaintyPasses) = 3
  BY DEF UncertaintyPasses, Range
<1>8. SymbolPasses \in Seq(Range(SymbolPasses)) /\ Len(SymbolPasses) = 3
  BY DEF SymbolPasses, Range
<1>9. ASSUME NEW s, NEW R, s \in Seq(R), R \subseteq PassRecords PROVE s \in Seq(PassRecords)
  BY <1>9
<1>10. /\ Range(LoadPasses) \subseteq PassRecords /\ Range(SemanticPasses) \subseteq PassRecords
       /\ Range(HintPasses) \subseteq PassRecords /\ Range(TargetPasses) \subseteq PassRecords
       /\ Range(RefinePasses) \subseteq PassRecords /\ Range(FinalPasses) \subseteq PassRecords
       /\ Range(UncertaintyPasses) \subseteq PassRecords /\ Range(SymbolPasses) \subseteq PassRecords
  BY DEF PassRecords
<1> QED BY <1>1, <1>2, <1>3, <1>4, <1>5, <1>6, <1>7, <1>8, <1>9, <1>10

\* Two ordered lists, one after the other.
LEMMA ConcatOrdered ==
    ASSUME NEW R, NEW a \in Seq(R), NEW b \in Seq(R),
           \A i \in 1..Len(a) : Ordered(a[i], i),
           \A i \in 1..Len(b) : Ordered(b[i], Len(a) + i)
    PROVE  /\ a \o b \in Seq(R) /\ Len(a \o b) = Len(a) + Len(b)
           /\ \A i \in 1..Len(a \o b) : Ordered((a \o b)[i], i)
           /\ \A i \in 1..Len(a) : (a \o b)[i] = a[i]
           /\ \A i \in 1..Len(b) : (a \o b)[Len(a) + i] = b[i]
           /\ Range(a \o b) = Range(a) \cup Range(b)
<1>1. Len(a) \in Nat /\ Len(b) \in Nat
  OBVIOUS
<1>2. /\ a \o b \in Seq(R) /\ Len(a \o b) = Len(a) + Len(b)
      /\ \A i \in 1..(Len(a) + Len(b)) : (a \o b)[i] = IF i <= Len(a) THEN a[i] ELSE b[i - Len(a)]
  BY ConcatProperties
<1>3. \A i \in 1..Len(a) : (a \o b)[i] = a[i]
  BY <1>1, <1>2
<1>4. \A i \in 1..Len(b) : (a \o b)[Len(a) + i] = b[i]
  <2> SUFFICES ASSUME NEW i \in 1..Len(b) PROVE (a \o b)[Len(a) + i] = b[i]
    OBVIOUS
  <2>1. Len(a) + i \in 1..(Len(a) + Len(b)) /\ ~(Len(a) + i <= Len(a)) /\ (Len(a) + i) - Len(a) = i
    BY <1>1
  <2> QED BY <1>2, <2>1
<1>5. ASSUME NEW i \in 1..(Len(a) + Len(b)), ~(i \in 1..Len(a))
      PROVE  i - Len(a) \in 1..Len(b) /\ Len(a) + (i - Len(a)) = i
  BY <1>1, <1>5
<1>6. \A i \in 1..Len(a \o b) : Ordered((a \o b)[i], i)
  <2> SUFFICES ASSUME NEW i \in 1..(Len(a) + Len(b)) PROVE Ordered((a \o b)[i], i)
    BY <1>2
  <2>1. CASE i \in 1..Len(a)
    BY <2>1, <1>3
  <2>2. CASE ~(i \in 1..Len(a))
    <3>1. PICK j \in 1..Len(b) : Len(a) + j = i
      BY <2>2, <1>5
    <3> QED BY <3>1, <1>4
  <2> QED BY <2>1, <2>2
<1>7. DOMAIN (a \o b) = 1..(Len(a) + Len(b)) /\ DOMAIN a = 1..Len(a) /\ DOMAIN b = 1..Len(b)
  BY <1>2
<1>8. Range(a \o b) \subseteq Range(a) \cup Range(b)
  <2> SUFFICES ASSUME NEW i \in 1..(Len(a) + Len(b)) PROVE (a \o b)[i] \in Range(a) \cup Range(b)
    BY <1>7 DEF Range
  <2>1. CASE i \in 1..Len(a)
    BY <2>1, <1>3, <1>7 DEF Range
  <2>2. CASE ~(i \in 1..Len(a))
    <3>1. PICK j \in 1..Len(b) : Len(a) + j = i
      BY <2>2, <1>5
    <3> QED BY <3>1, <1>4, <1>7 DEF Range
  <2> QED BY <2>1, <2>2
<1>9. Range(a) \cup Range(b) \subseteq Range(a \o b)
  <2>1. \A i \in 1..Len(a) : i \in 1..(Len(a) + Len(b))
    BY <1>1
  <2>2. \A i \in 1..Len(b) : Len(a) + i \in 1..(Len(a) + Len(b))
    BY <1>1
  <2>3. \A i \in 1..Len(a) : a[i] \in Range(a \o b)
    BY <1>3, <1>7, <2>1 DEF Range
  <2>4. \A i \in 1..Len(b) : b[i] \in Range(a \o b)
    BY <1>4, <1>7, <2>2 DEF Range
  <2> QED BY <1>7, <2>3, <2>4 DEF Range
<1> QED BY <1>2, <1>3, <1>4, <1>6, <1>8, <1>9

\* A list of n passes, each after those it has to follow; and one that goes on
\* from the n-th pass to the l-th.
Fits(q, n) ==
    /\ q \in Seq(PassRecords) /\ Len(q) = n
    /\ \A i \in 1..Len(q) : Ordered(q[i], i)

Goes(q, n, l) ==
    /\ q \in Seq(PassRecords) /\ n + Len(q) = l
    /\ \A i \in 1..Len(q) : Ordered(q[i], n + i)

LEMMA Joined ==
    ASSUME NEW n \in Nat, NEW l \in Nat, NEW a, NEW b, Fits(a, n), Goes(b, n, l)
    PROVE  Fits(a \o b, l) /\ Range(a \o b) = Range(a) \cup Range(b)
<1>1. a \in Seq(PassRecords) /\ Len(a) = n /\ \A i \in 1..Len(a) : Ordered(a[i], i)
  BY DEF Fits
<1>2. b \in Seq(PassRecords) /\ Len(a) + Len(b) = l /\ \A i \in 1..Len(b) : Ordered(b[i], Len(a) + i)
  BY <1>1 DEF Goes
<1>3. /\ a \o b \in Seq(PassRecords) /\ Len(a \o b) = Len(a) + Len(b)
      /\ \A i \in 1..Len(a \o b) : Ordered((a \o b)[i], i)
      /\ Range(a \o b) = Range(a) \cup Range(b)
  BY <1>1, <1>2, ConcatOrdered, ZenonT(40)
<1> QED BY <1>2, <1>3, Zenon DEF Fits

LEMMA AllPassesOrdered ==
    /\ Len(PassesBeforeAnalysis) = 36 /\ Len(SymbolPasses) = 3 /\ Len(AllPasses) = 39
    /\ DOMAIN PassesBeforeAnalysis = 1..36 /\ DOMAIN SymbolPasses = 1..3
    /\ \A i \in 1..39 : Ordered(AllPasses[i], i)
    /\ \A i \in 1..36 : AllPasses[i] = PassesBeforeAnalysis[i]
    /\ \A i \in 1..3 : AllPasses[36 + i] = SymbolPasses[i]
    /\ DOMAIN AllPasses = 1..39
    /\ Range(AllPasses) = PassRecords
<1> DEFINE p1 == LoadPasses
           p2 == p1 \o SemanticPasses
           p3 == p2 \o HintPasses
           p4 == p3 \o TargetPasses
           p5 == p4 \o RefinePasses
           p6 == p5 \o FinalPasses
           p7 == p6 \o UncertaintyPasses
           p8 == p7 \o SymbolPasses
<1>1. Fits(p1, 5)
  BY PassLists, LoadOrdered DEF Fits
<1>2. Fits(p2, 12) /\ Range(p2) = Range(LoadPasses) \cup Range(SemanticPasses)
  <2>1. Goes(SemanticPasses, 5, 12)
    BY PassLists, SemanticOrdered DEF Goes
  <2> QED BY <2>1, Joined, <1>1
<1>3. Fits(p3, 17) /\ Range(p3) = Range(p2) \cup Range(HintPasses)
  <2> HIDE DEF p2
  <2>1. Goes(HintPasses, 12, 17)
    BY PassLists, HintOrdered DEF Goes
  <2> QED BY <2>1, Joined, <1>2
<1>4. Fits(p4, 25) /\ Range(p4) = Range(p3) \cup Range(TargetPasses)
  <2> HIDE DEF p3
  <2>1. Goes(TargetPasses, 17, 25)
    BY PassLists, TargetOrdered DEF Goes
  <2> QED BY <2>1, Joined, <1>3
<1>5. Fits(p5, 30) /\ Range(p5) = Range(p4) \cup Range(RefinePasses)
  <2> HIDE DEF p4
  <2>1. Goes(RefinePasses, 25, 30)
    BY PassLists, RefineOrdered DEF Goes
  <2> QED BY <2>1, Joined, <1>4
<1>6. Fits(p6, 33) /\ Range(p6) = Range(p5) \cup Range(FinalPasses)
  <2> HIDE DEF p5
  <2>1. Goes(FinalPasses, 30, 33)
    BY PassLists, FinalOrdered DEF Goes
  <2> QED BY <2>1, Joined, <1>5
<1>7. Fits(p7, 36) /\ Range(p7) = Range(p6) \cup Range(UncertaintyPasses)
  <2> HIDE DEF p6
  <2>1. Goes(UncertaintyPasses, 33, 36)
    BY PassLists, UncertaintyOrdered DEF Goes
  <2> QED BY <2>1, Joined, <1>6
<1>8. /\ Fits(p8, 39) /\ Range(p8) = Range(p7) \cup Range(SymbolPasses)
      /\ \A i \in 1..36 : p8[i] = p7[i]
      /\ \A i \in 1..3 : p8[36 + i] = SymbolPasses[i]
  <2> HIDE DEF p7
  <2>2. /\ Fits(p7, 36) /\ SymbolPasses \in Seq(PassRecords) /\ Len(SymbolPasses) = 3
        /\ \A i \in 1..3 : Ordered(SymbolPasses[i], 36 + i)
    BY <1>7, PassLists, SymbolOrdered
  <2>3. Fits(p8, 39) /\ Range(p8) = Range(p7) \cup Range(SymbolPasses)
    <3>1. Goes(SymbolPasses, 36, 39)
      BY <2>2 DEF Goes
    <3> QED BY Joined, <2>2, <3>1
  <2>4. p7 \in Seq(PassRecords) /\ Len(p7) = 36
    BY <2>2 DEF Fits
  <2>5. Len(p7) + Len(SymbolPasses) = 39 /\ p8 = p7 \o SymbolPasses
    BY <2>2, <2>4
  <2> HIDE DEF p8
  <2>6. \A i \in 1..(Len(p7) + Len(SymbolPasses)) :
            p8[i] = IF i <= Len(p7) THEN p7[i] ELSE SymbolPasses[i - Len(p7)]
    BY <2>2, <2>4, <2>5, ConcatProperties, Zenon
  <2>7. \A i \in 1..39 : p8[i] = IF i <= 36 THEN p7[i] ELSE SymbolPasses[i - 36]
    BY <2>4, <2>5, <2>6
  <2>8. \A i \in 1..36 : p8[i] = p7[i]
    BY <2>7
  <2>9. \A i \in 1..3 : p8[36 + i] = SymbolPasses[i]
    <3> SUFFICES ASSUME NEW i \in 1..3 PROVE p8[36 + i] = SymbolPasses[i]
      OBVIOUS
    <3>1. 36 + i \in 1..39 /\ ~(36 + i <= 36) /\ (36 + i) - 36 = i
      OBVIOUS
    <3> QED BY <2>7, <3>1
  <2> QED BY <2>3, <2>8, <2>9
<1>9. PassesBeforeAnalysis = p7 /\ AllPasses = p8
  BY DEF PassesBeforeAnalysis, AllPasses
<1>10. Range(p8) = PassRecords
  <2> HIDE DEF p1, p2, p3, p4, p5, p6, p7, p8
  <2> QED BY <1>2, <1>3, <1>4, <1>5, <1>6, <1>7, <1>8 DEF PassRecords
<1> HIDE DEF p1, p2, p3, p4, p5, p6, p7, p8
<1>11. /\ Len(p7) = 36 /\ Len(SymbolPasses) = 3 /\ Len(p8) = 39
       /\ DOMAIN p7 = 1..36 /\ DOMAIN SymbolPasses = 1..3 /\ DOMAIN p8 = 1..39
  BY <1>7, <1>8, PassLists DEF Fits
<1>12. \A i \in 1..39 : Ordered(p8[i], i)
  BY <1>8 DEF Fits
<1> QED BY <1>8, <1>9, <1>10, <1>11, <1>12

\* The tables are the ones LastPass names.
LEMMA TablesAre == Tables = DOMAIN LastPass
<1>1. Tables = UNION {p.sets : p \in PassRecords}
  BY AllPassesOrdered DEF Tables, AllPasses
<1>2. \A p \in PassRecords : p.sets \subseteq DOMAIN LastPass
  BY AllPassesOrdered DEF Range, Ordered
<1>3. ASSUME NEW q \in Seq(PassRecords), NEW i \in 1..Len(q) PROVE q[i].sets \subseteq Tables
  <2>1. q[i] \in PassRecords
    OBVIOUS
  <2> QED BY <1>1, <2>1
<1>4. DOMAIN LastPass \subseteq Tables
  <2>1. {"imports", "exports", "strings", "instructions", "ir", "xrefs", "functions", "cfg"} \subseteq Tables
    <3>1. \A i \in 1..5 : LoadPasses[i].sets \subseteq Tables
      BY <1>3, PassLists
    <3> QED BY <3>1 DEF LoadPasses, Pass
  <2>2. {"index", "rtti", "vtables", "eh", "value_graph", "resolved_calls", "api_flows", "callgraph"}
            \subseteq Tables
    <3>1. \A i \in 1..7 : SemanticPasses[i].sets \subseteq Tables
      BY <1>3, PassLists
    <3> QED BY <3>1 DEF SemanticPasses, Pass
  <2>3. {"recovered_strings", "obfuscation_hints", "structured_flow", "provisional_ir",
         "provisional_dossiers"} \subseteq Tables
    <3>1. \A i \in 1..5 : HintPasses[i].sets \subseteq Tables
      BY <1>3, PassLists
    <3> QED BY <3>1 DEF HintPasses, Pass
  <2>4. {"second_pass_targets", "uncertainties", "ssa", "vsa", "jump_tables", "switches",
         "api_hash_resolutions", "decoded_strings", "type_hints"} \subseteq Tables
    <3>1. \A i \in 1..8 : TargetPasses[i].sets \subseteq Tables
      BY <1>3, PassLists
    <3> QED BY <3>1 DEF TargetPasses, Pass
  <2>5. {"class_dossiers", "behavior_dossiers"} \subseteq Tables
    <3>1. \A i \in 1..5 : RefinePasses[i].sets \subseteq Tables
      BY <1>3, PassLists
    <3> QED BY <3>1 DEF RefinePasses, Pass
  <2>6. {"pseudo_ir", "function_dossiers", "interesting_functions"} \subseteq Tables
    <3>1. \A i \in 1..3 : FinalPasses[i].sets \subseteq Tables
      BY <1>3, PassLists
    <3> QED BY <3>1 DEF FinalPasses, Pass
  <2>7. {"portable", "scorecard"} \subseteq Tables
    <3>1. \A i \in 1..3 : UncertaintyPasses[i].sets \subseteq Tables
      BY <1>3, PassLists
    <3> QED BY <3>1 DEF UncertaintyPasses, Pass
  <2>8. {"symbols", "symbol_graph", "class_facts"} \subseteq Tables
    <3>1. \A i \in 1..3 : SymbolPasses[i].sets \subseteq Tables
      BY <1>3, PassLists
    <3> QED BY <3>1 DEF SymbolPasses, Pass
  <2> QED BY <2>1, <2>2, <2>3, <2>4, <2>5, <2>6, <2>7, <2>8 DEF LastPass
<1> QED BY <1>1, <1>2, <1>4

\* No provisional table is written.
LEMMA ProvisionalNotWritten == Provisional \cap (Files \cup {"review_packs", "analysis_profile"}) = {}
<1> DEFINE S == Names \ Provisional
<1>1. \A i \in 1..Len(CoreFiles) : CoreFiles[i] \notin Provisional
  BY DEF CoreFiles, Provisional
<1>2. \A i \in 1..Len(TailFiles) : TailFiles[i] \notin Provisional
  BY DEF TailFiles, Provisional
<1>3. Files \subseteq S
  BY <1>1, <1>2, FilesOfLists DEF Names
<1> QED BY <1>3 DEF Provisional

-----------------------------------------------------------------------------
(* The tables a run writes agree                                           *)

\* The passes the executing run has behind it.
Done ==
    CASE step = "unpack"  -> 0
      [] step = "passes"  -> k - 1
      [] step = "symbols" -> Len(PassesBeforeAnalysis) + (k - 1)
      [] OTHER            -> Len(AllPasses)

\* After n passes, what a table was built from is still so unless one of the
\* passes since has written it.
BuiltUpTo(n) ==
    \A t \in Tables : \A b \in DOMAIN built[t] : \E i \in 1..n :
        /\ t \in AllPasses[i].sets /\ b \in AllPasses[i].reads
        /\ (\A j \in i..n : b \notin AllPasses[j].sets \cup AllPasses[j].adds) => built[t][b] = rows[b]

PassBounds ==
    /\ step = "unpack" => k = 1
    /\ step = "passes" => k <= Len(PassesBeforeAnalysis) + 1
    /\ step = "symbols" => k <= Len(SymbolPasses) + 1

CountsFollowSteps ==
    step \in {"symbols", "core", "vuln", "tail", "packs", "finish"} =>
        /\ DOMAIN analysis.counts = IF O.pe THEN CountedTables ELSE CountedTables \ {"second_pass_targets"}
        /\ \A t \in DOMAIN analysis.counts :
               analysis.counts[t] = rows[t] \/ (~O.pe /\ t \in ZeroOffPe)

FindingsFollowSteps ==
    /\ DOMAIN findings = Frames
    /\ step \in {"tail", "packs", "finish"} /\ frame = "outer" /\ opts["outer"].vuln =>
           findings["outer"].artifacts = "outer" /\ "outer" \in findings["outer"].rows
    /\ "nested" \in findings["outer"].rows =>
           opts["outer"].vuln_out /\ (frame = "nested" \/ unpacked = "unpacked_static")

ConsistentInv ==
    /\ TruthInv /\ TypeOK /\ PassBounds
    /\ DOMAIN built = Tables /\ BuiltUpTo(Done)
    /\ CountsFollowSteps /\ FindingsFollowSteps

\* The parts of a pass.
LEMMA ApplyParts ==
    ASSUME NEW p, Apply(p)
    PROVE  /\ DOMAIN rows' = Tables /\ DOMAIN built' = Tables
           /\ \A t \in Tables : t \notin p.sets \cup p.adds => rows'[t] = rows[t]
           /\ \A t \in Tables : \/ built'[t] = built[t]
                                \/ t \in p.sets /\ built'[t] = [b \in p.reads |-> rows[b]]
           /\ caps \subseteq caps' /\ caps' \subseteq caps \cup p.limits
<1>1. DOMAIN rows' = Tables /\ DOMAIN built' = Tables
  BY DEF Apply
<1>2. \A t \in Tables : t \notin p.sets \cup p.adds => rows'[t] = rows[t]
  BY DEF Apply
<1>3. \A t \in Tables : built'[t] = IF Enabled(p.gate, O) /\ t \in p.sets
                                    THEN [b \in p.reads |-> rows[b]] ELSE built[t]
  BY DEF Apply
<1>4. caps \subseteq caps' /\ caps' \subseteq caps \cup p.limits
  <2>1. PICK hit \in SUBSET p.limits : caps' = caps \cup hit
    BY DEF Apply
  <2> QED BY <2>1
<1> QED BY <1>1, <1>2, <1>3, <1>4

\* One more pass.
LEMMA ApplyBuilds ==
    ASSUME NEW n \in 1..39, DOMAIN built = Tables, caps \subseteq Caps,
           BuiltUpTo(n - 1), Apply(AllPasses[n])
    PROVE  BuiltUpTo(n)' /\ caps' \subseteq Caps
<1> DEFINE p == AllPasses[n]
           Kept(i, m, b) == \A j \in i..m : b \notin AllPasses[j].sets \cup AllPasses[j].adds
<1>0. Ordered(p, n) /\ p.reads \subseteq Tables
  BY AllPassesOrdered, TablesAre DEF Ordered
<1>1. caps' \subseteq Caps
  BY <1>0, ApplyParts DEF Ordered
<1>2. /\ \A t \in Tables : t \notin p.sets \cup p.adds => rows'[t] = rows[t]
      /\ \A t \in Tables : \/ built'[t] = built[t]
                           \/ t \in p.sets /\ built'[t] = [b \in p.reads |-> rows[b]]
  BY ApplyParts
<1> SUFFICES ASSUME NEW t \in Tables, NEW b \in DOMAIN built'[t]
             PROVE  \E i \in 1..n : /\ t \in AllPasses[i].sets /\ b \in AllPasses[i].reads
                                    /\ Kept(i, n, b) => built'[t][b] = rows'[b]
  BY <1>1 DEF BuiltUpTo
<1>3. CASE t \in p.sets /\ built'[t] = [c \in p.reads |-> rows[c]]
  <2>1. b \in p.reads /\ built'[t][b] = rows[b] /\ b \in Tables
    BY <1>3, <1>0
  <2>2. n \in 1..n /\ n \in n..n
    OBVIOUS
  <2>3. Kept(n, n, b) => rows'[b] = rows[b]
    BY <1>2, <2>1, <2>2
  <2> QED BY <1>3, <2>1, <2>2, <2>3
<1>4. CASE built'[t] = built[t]
  <2>1. PICK i \in 1..(n - 1) : /\ t \in AllPasses[i].sets /\ b \in AllPasses[i].reads
                                /\ Kept(i, n - 1, b) => built[t][b] = rows[b]
    BY <1>4 DEF BuiltUpTo
  <2>2. i \in 1..n /\ n \in i..n /\ i \in 1..39 /\ (\A j \in i..(n - 1) : j \in i..n)
    OBVIOUS
  <2>3. b \in Tables
    BY <2>1, <2>2, AllPassesOrdered, TablesAre DEF Ordered
  <2>4. Kept(i, n, b) => Kept(i, n - 1, b) /\ rows'[b] = rows[b]
    BY <1>2, <2>2, <2>3
  <2> HIDE DEF Kept
  <2> QED BY <1>4, <2>1, <2>2, <2>4
<1> QED BY <1>2, <1>3, <1>4

\* The counts of analysis.json are not of tables the symbols fill.
LEMMA SymbolsUncounted ==
    /\ CountedTables \subseteq Tables
    /\ \A i \in 1..3 : CountedTables \cap (SymbolPasses[i].sets \cup SymbolPasses[i].adds) = {}
<1>1. CountedTables \subseteq Tables
  BY TablesAre DEF CountedTables, LastPass
<1>2. \A i \in 1..3 : \A t \in SymbolPasses[i].sets \cup SymbolPasses[i].adds :
          t \in {"symbols", "symbol_graph", "class_facts"}
  BY DEF SymbolPasses, Pass
<1>3. CountedTables \cap {"symbols", "symbol_graph", "class_facts"} = {}
  BY DEF CountedTables
<1> QED BY <1>1, <1>2, <1>3

LEMMA InitConsistent == Init => ConsistentInv
<1> SUFFICES ASSUME Init PROVE ConsistentInv
  OBVIOUS
<1>1. TypeOK
  BY DEF Init, TypeOK, Empty, Frames
<1>2. Done = 0 /\ DOMAIN built = Tables /\ \A t \in Tables : DOMAIN built[t] = {}
  BY DEF Init, Done
<1>3. BuiltUpTo(Done)
  BY <1>2 DEF BuiltUpTo
<1>4. FindingsFollowSteps
  BY DEF Init, FindingsFollowSteps, Frames
<1> QED BY <1>1, <1>2, <1>3, <1>4, InitTruth
        DEF Init, ConsistentInv, PassBounds, CountsFollowSteps

\* A step that leaves the tables alone and the number of passes behind it.
LEMMA TablesKept ==
    ASSUME ConsistentInv, UNCHANGED <<rows, built>>, Done' = Done
    PROVE  DOMAIN rows' = Tables /\ DOMAIN built' = Tables /\ BuiltUpTo(Done)'
  BY DEF ConsistentInv, TypeOK, BuiltUpTo

LEMMA UnpackConsistent ==
    ASSUME ConsistentInv, TruthInv', NoUnpack \/ UnpackWithoutImage \/ UnpackNested
    PROVE  ConsistentInv'
<1>0. /\ status' = "running" /\ step = "unpack" /\ step' \in {"unpack", "passes"}
      /\ frame' \in Frames /\ (opts' = opts \/ DOMAIN opts' = Frames)
      /\ UNCHANGED <<k, rows, built, caps, analysis, fresh, short, findings>>
  BY DEF ConsistentInv, TypeOK, NoUnpack, UnpackWithoutImage, UnpackNested, Run, Frames, tables, files
<1>1. k = 1 /\ k' = 1
  BY <1>0 DEF ConsistentInv, PassBounds
<1>2. Done = 0 /\ Done' = 0
  BY <1>0, <1>1 DEF Done
<1>3. TypeOK'
  BY <1>0 DEF ConsistentInv, TypeOK
<1>4. PassBounds'
  BY <1>0, <1>1, AllPassesOrdered DEF PassBounds
<1>5. "nested" \in findings["outer"].rows => frame = "nested"
  BY <1>0 DEF ConsistentInv, FindingsFollowSteps, TruthInv, AnalysisFollowsSteps
<1>5a. opts'["outer"].vuln_out = opts["outer"].vuln_out /\ (frame = "nested" => frame' = "nested")
  <2>1. CASE NoUnpack \/ UnpackWithoutImage
    BY <2>1 DEF NoUnpack, UnpackWithoutImage
  <2>2. CASE UnpackNested
    <3>1. frame = "outer"
      BY <2>2 DEF UnpackNested, ConsistentInv, TruthInv, NestedOnce, O, TypeOK, Frames
    <3>2. opts' = [f \in Frames |-> IF f = "outer" THEN O ELSE NestedOptions(O)]
      BY <2>2 DEF UnpackNested
    <3>3. opts'["outer"] = opts["outer"]
      BY <3>1, <3>2 DEF O, Frames
    <3> QED BY <3>1, <3>3
  <2> QED BY <2>1, <2>2
<1>5b. CountsFollowSteps' /\ FindingsFollowSteps'
  BY <1>0, <1>5, <1>5a DEF CountsFollowSteps, FindingsFollowSteps, ConsistentInv
<1> QED BY <1>0, <1>5b, <1>2, <1>3, <1>4, <1>5, TablesKept DEF ConsistentInv

LEMMA PassConsistent ==
    ASSUME ConsistentInv, TruthInv', RunPass \/ RunSymbolPass
    PROVE  ConsistentInv'
<1>0. /\ step \in {"passes", "symbols"} /\ k' = k + 1
      /\ UNCHANGED <<frame, opts, step, analysis, fresh, short, findings, unpacked, status>>
      /\ k \in Nat \ {0}
  BY DEF RunPass, RunSymbolPass, Run, ConsistentInv, TruthInv, FilesFollowSteps, files
<1>1. PICK n \in 1..39 : /\ Done = n - 1 /\ Done' = n /\ Apply(AllPasses[n])
                         /\ step = "passes" => k <= 36
                         /\ step = "symbols" => k <= 3 /\ n = 36 + k
  <2>1. CASE step = "passes"
    <3>1. k \in 1..36 /\ Apply(PassesBeforeAnalysis[k])
      BY <2>1, AllPassesOrdered DEF RunPass, RunSymbolPass, Run
    <3>2. Done = k - 1 /\ Done' = k' - 1
      BY <2>1, <1>0 DEF Done
    <3>3. AllPasses[k] = PassesBeforeAnalysis[k]
      BY <3>1, AllPassesOrdered
    <3>4. k \in 1..39 /\ Done' = k /\ k <= 36
      BY <3>1, <3>2, <1>0
    <3> QED BY <2>1, <3>1, <3>2, <3>3, <3>4
  <2>2. CASE step = "symbols"
    <3>1. k \in 1..3 /\ Apply(SymbolPasses[k])
      BY <2>2, AllPassesOrdered DEF RunPass, RunSymbolPass, Run
    <3>2. Done = 36 + (k - 1) /\ Done' = 36 + (k' - 1)
      BY <2>2, <1>0, AllPassesOrdered DEF Done
    <3>3. AllPasses[36 + k] = SymbolPasses[k]
      BY <3>1, AllPassesOrdered
    <3>4. 36 + k \in 1..39 /\ Done' = 36 + k /\ Done = (36 + k) - 1 /\ k <= 3
      BY <3>1, <3>2, <1>0
    <3> QED BY <2>2, <3>1, <3>3, <3>4
  <2> QED BY <1>0, <2>1, <2>2
<1>2. DOMAIN built = Tables /\ caps \subseteq Caps /\ BuiltUpTo(n - 1)
  BY <1>1 DEF ConsistentInv, TypeOK
<1>3. BuiltUpTo(n)' /\ caps' \subseteq Caps
  BY <1>1, <1>2, ApplyBuilds
<1>4. DOMAIN rows' = Tables /\ DOMAIN built' = Tables
  BY <1>1, ApplyParts
<1>5. BuiltUpTo(Done)'
  BY <1>1, <1>3 DEF BuiltUpTo
<1>6. TypeOK'
  BY <1>0, <1>3, <1>4 DEF ConsistentInv, TypeOK
<1>7. PassBounds'
  BY <1>0, <1>1, AllPassesOrdered DEF PassBounds
<1>8. CountsFollowSteps'
  <2>0. O' = O
    BY <1>0 DEF O
  <2> SUFFICES ASSUME step = "symbols"
               PROVE  /\ DOMAIN analysis.counts =
                              IF O.pe THEN CountedTables ELSE CountedTables \ {"second_pass_targets"}
                      /\ \A t \in DOMAIN analysis.counts :
                             analysis.counts[t] = rows'[t] \/ (~O.pe /\ t \in ZeroOffPe)
    BY <1>0, <2>0 DEF CountsFollowSteps
  <2>1. /\ DOMAIN analysis.counts = IF O.pe THEN CountedTables ELSE CountedTables \ {"second_pass_targets"}
        /\ \A t \in DOMAIN analysis.counts :
               analysis.counts[t] = rows[t] \/ (~O.pe /\ t \in ZeroOffPe)
    BY DEF ConsistentInv, CountsFollowSteps
  <2>2. AllPasses[n] = SymbolPasses[k] /\ k \in 1..3
    BY <1>0, <1>1, AllPassesOrdered
  <2>3. \A t \in CountedTables : t \in Tables /\ t \notin AllPasses[n].sets \cup AllPasses[n].adds
    BY <2>2, SymbolsUncounted
  <2>4. \A t \in CountedTables : rows'[t] = rows[t]
    BY <1>1, <2>3, ApplyParts
  <2>5. DOMAIN analysis.counts \subseteq CountedTables
    BY <2>1
  <2> QED BY <2>1, <2>4, <2>5
<1>9. FindingsFollowSteps'
  BY <1>0 DEF ConsistentInv, FindingsFollowSteps
<1> QED BY <1>4, <1>5, <1>6, <1>7, <1>8, <1>9 DEF ConsistentInv

LEMMA ListedAreFiles ==
    /\ \A i \in DOMAIN CoreFiles : CoreFiles[i] \in Files
    /\ \A i \in DOMAIN TailFiles : TailFiles[i] \in Files
<1>1. /\ Len(CoreFiles) \in Nat /\ Len(TailFiles) \in Nat
      /\ DOMAIN CoreFiles = 1..Len(CoreFiles) /\ DOMAIN TailFiles = 1..Len(TailFiles)
  BY FileLists
<1>2. /\ CoreFiles \o TailFiles \in Seq(Names)
      /\ Len(CoreFiles \o TailFiles) = Len(CoreFiles) + Len(TailFiles)
      /\ \A i \in 1..(Len(CoreFiles) + Len(TailFiles)) :
             (CoreFiles \o TailFiles)[i] = IF i <= Len(CoreFiles) THEN CoreFiles[i]
                                           ELSE TailFiles[i - Len(CoreFiles)]
  BY FileLists, ConcatProperties
<1>3. DOMAIN (CoreFiles \o TailFiles) = 1..(Len(CoreFiles) + Len(TailFiles))
  BY <1>2
<1>4. ASSUME NEW i \in 1..Len(CoreFiles) PROVE CoreFiles[i] \in Files
  <2>1. i \in 1..(Len(CoreFiles) + Len(TailFiles)) /\ i <= Len(CoreFiles)
    BY <1>1
  <2> QED BY <1>2, <1>3, <2>1 DEF Files, Range
<1>5. ASSUME NEW i \in 1..Len(TailFiles) PROVE TailFiles[i] \in Files
  <2>1. /\ Len(CoreFiles) + i \in 1..(Len(CoreFiles) + Len(TailFiles))
        /\ ~(Len(CoreFiles) + i <= Len(CoreFiles))
        /\ (Len(CoreFiles) + i) - Len(CoreFiles) = i
    BY <1>1
  <2> QED BY <1>2, <1>3, <2>1 DEF Files, Range
<1> QED BY <1>1, <1>4, <1>5

\* The assembly, the files and the end of the outer run.
LEMMA RestConsistent ==
    ASSUME ConsistentInv, TruthInv',
           \/ Assemble \/ WriteLlmArtifacts \/ WriteCore \/ VulnPass \/ WriteTail \/ WritePacks
           \/ FinishOuter,
           ~Err, status' # "err"
    PROVE  ConsistentInv'
<1>0. /\ UNCHANGED <<frame, opts, rows, built, caps, unpacked>>
      /\ status' \in {"running", "ok"}
      /\ k \in Nat \ {0} /\ frame \in Frames /\ DOMAIN fresh = Frames
  BY DEF Assemble, WriteLlmArtifacts, WriteCore, VulnPass, WriteTail, WriteFile, WritePacks, FinishOuter,
         Run, ConsistentInv, TruthInv, FilesFollowSteps, TypeOK, tables, files
<1>1. \/ Assemble
      \/ step = "symbols" /\ k = 4 /\ step' = "core" /\ UNCHANGED analysis
      \/ /\ {step, step'} \subseteq {"core", "vuln", "tail", "packs", "finish"}
         /\ UNCHANGED analysis
         /\ step = "finish" => step' = "finish"
  <2>1. CASE WriteLlmArtifacts
    BY <2>1, AllPassesOrdered DEF WriteLlmArtifacts, Run
  <2>2. CASE WriteCore \/ WriteTail
    BY <2>2 DEF WriteCore, WriteTail, WriteFile, Run
  <2>3. CASE VulnPass \/ WritePacks \/ FinishOuter
    BY <2>3 DEF VulnPass, WritePacks, FinishOuter, Run
  <2> QED BY <2>1, <2>2, <2>3
<1>2. Assemble => step = "passes" /\ k = 37 /\ step' = "symbols" /\ k' = 1
  BY AllPassesOrdered DEF Assemble, Run
<1>3. Done' = Done
  <2>1. CASE Assemble
    BY <2>1, <1>2, AllPassesOrdered DEF Done
  <2>2. CASE step = "symbols" /\ k = 4 /\ step' = "core"
    BY <2>2, AllPassesOrdered DEF Done
  <2>3. CASE {step, step'} \subseteq {"core", "vuln", "tail", "packs", "finish"}
    BY <2>3 DEF Done
  <2> QED BY <1>1, <2>1, <2>2, <2>3
<1>4. PassBounds'
  BY <1>1, <1>2, AllPassesOrdered DEF PassBounds
<1>5. CountsFollowSteps'
  <2>0. O' = O
    BY <1>0 DEF O
  <2>1. CASE Assemble
    <3>1. analysis'.counts = CountsOf(O, rows)
      BY <2>1 DEF Assemble
    <3>2. /\ DOMAIN CountsOf(O, rows) = IF O.pe THEN CountedTables ELSE CountedTables \ {"second_pass_targets"}
          /\ \A t \in DOMAIN CountsOf(O, rows) :
                 CountsOf(O, rows)[t] = rows[t] \/ (~O.pe /\ t \in ZeroOffPe)
      BY DEF CountsOf
    <3> QED BY <1>0, <2>0, <3>1, <3>2 DEF CountsFollowSteps
  <2>2. CASE ~Assemble
    <3>1. /\ UNCHANGED analysis
          /\ step \in {"symbols", "core", "vuln", "tail", "packs", "finish"}
      BY <1>1, <2>2
    <3> QED BY <1>0, <2>0, <3>1 DEF ConsistentInv, CountsFollowSteps
  <2> QED BY <2>1, <2>2
<1>6. FindingsFollowSteps'
  <2>0. /\ FindingsFollowSteps
        /\ frame = "nested" => opts["nested"].vuln_out = opts["outer"].vuln_out
    BY DEF ConsistentInv, TruthInv, OptionsOfFrames
  <2>1. CASE VulnPass
    <3>1. CASE O.vuln
      <4>1. /\ findings' = [findings EXCEPT ![VulnDir] = [artifacts |-> frame, rows |-> @.rows \cup {frame}]]
            /\ VulnDir \in Frames /\ VulnDir = IF O.vuln_out THEN "outer" ELSE frame
        BY <1>0, <2>1, <3>1 DEF VulnPass, VulnDir, Frames
      <4>2. /\ DOMAIN findings' = Frames
            /\ VulnDir = "outer" => /\ findings'["outer"].artifacts = frame
                                    /\ findings'["outer"].rows = findings["outer"].rows \cup {frame}
            /\ VulnDir # "outer" => findings'["outer"] = findings["outer"]
        BY <2>0, <4>1 DEF FindingsFollowSteps, Frames
      <4>3. CASE frame = "outer"
        BY <1>0, <2>0, <4>1, <4>2, <4>3 DEF FindingsFollowSteps
      <4>4. CASE frame = "nested"
        BY <1>0, <2>0, <4>1, <4>2, <4>4 DEF FindingsFollowSteps, O
      <4> QED BY <1>0, <4>3, <4>4 DEF Frames
    <3>2. CASE ~O.vuln
      <4>1. findings' = findings
        BY <1>0, <2>1, <3>2 DEF VulnPass
      <4> QED BY <1>0, <2>0, <3>2, <4>1 DEF FindingsFollowSteps, O
    <3> QED BY <3>1, <3>2
  <2>2. CASE ~VulnPass
    <3>1. /\ findings' = findings
          /\ step' \in {"tail", "packs", "finish"} => step \in {"tail", "packs", "finish"}
      BY <2>2 DEF Assemble, WriteLlmArtifacts, WriteCore, WriteTail, WriteFile, WritePacks, FinishOuter, Run, files
    <3> QED BY <1>0, <3>1 DEF ConsistentInv, FindingsFollowSteps
  <2> QED BY <2>1, <2>2
<1>7. \A f \in Frames : fresh'[f] \subseteq Files \cup {"review_packs", "analysis_profile"}
  <2>1. \A f \in Frames : fresh[f] \subseteq Files \cup {"review_packs", "analysis_profile"}
    BY DEF ConsistentInv, TypeOK
  <2>2. \/ fresh' = fresh
        \/ \E x : x \subseteq Files \cup {"review_packs", "analysis_profile"}
                  /\ fresh' = [fresh EXCEPT ![frame] = @ \cup x]
    <3>1. CASE WriteCore
      BY <3>1, ListedAreFiles DEF WriteCore, WriteFile
    <3>2. CASE WriteTail
      BY <3>2, ListedAreFiles DEF WriteTail, WriteFile
    <3>3. CASE WritePacks
      <4>1. fresh' = [fresh EXCEPT ![frame] = @ \cup LastFiles]
        BY <3>3 DEF WritePacks
      <4>2. LastFiles \subseteq {"review_packs", "analysis_profile"}
        BY DEF LastFiles
      <4> QED BY <4>1, <4>2
    <3>4. CASE Assemble \/ WriteLlmArtifacts \/ VulnPass \/ FinishOuter
      BY <3>4 DEF Assemble, WriteLlmArtifacts, VulnPass, FinishOuter, files
    <3> QED BY <3>1, <3>2, <3>3, <3>4
  <2> QED BY <1>0, <2>1, <2>2
<1>8. TypeOK'
  <2>1. short' \subseteq Frames \X JsonFiles
    BY DEF TruthInv, ShortAreJson
  <2> QED BY <1>0, <1>1, <1>2, <1>7, <2>1 DEF ConsistentInv, TypeOK
<1> QED BY <1>0, <1>3, <1>4, <1>5, <1>6, <1>8, TablesKept DEF ConsistentInv

\* The nested run returns: the outer one starts with empty tables.
LEMMA NestedConsistent ==
    ASSUME ConsistentInv, TruthInv', FinishNested
    PROVE  ConsistentInv'
<1>0. /\ frame' = "outer" /\ step' = "passes" /\ k' = 1 /\ status' = "running"
      /\ rows' = Empty /\ built' = [t \in Tables |-> <<>>] /\ caps' = {}
      /\ unpacked' = "unpacked_static"
      /\ UNCHANGED <<opts, fresh, short, findings>>
  BY DEF FinishNested, Run, files
<1>1. TypeOK'
  BY <1>0 DEF ConsistentInv, TypeOK, Frames, Empty
<1>2. Done' = 0 /\ DOMAIN built' = Tables /\ \A t \in Tables : DOMAIN built'[t] = {}
  BY <1>0 DEF Done
<1>3. BuiltUpTo(Done)'
  BY <1>2 DEF BuiltUpTo
<1>4. PassBounds'
  BY <1>0, AllPassesOrdered DEF PassBounds
<1> QED BY <1>0, <1>1, <1>2, <1>3, <1>4 DEF ConsistentInv, CountsFollowSteps, FindingsFollowSteps

\* The call ends early, or nothing happens.
LEMMA StoppedConsistent ==
    ASSUME ConsistentInv, TruthInv', status' \in {status, "err", "killed"}, FindingsFollowSteps',
           UNCHANGED <<frame, opts, step, k, rows, built, caps, analysis, fresh, short>>
    PROVE  ConsistentInv'
<1>1. TypeOK'
  BY DEF ConsistentInv, TypeOK
<1>2. Done' = Done
  BY DEF Done
<1>3. O' = O
  BY DEF O
<1> QED BY <1>1, <1>2, <1>3, TablesKept
        DEF ConsistentInv, PassBounds, CountsFollowSteps

\* The vulnerability pass fails: the steps that speak of its results are not
\* reached.
LEMMA VulnFailsConsistent ==
    ASSUME ConsistentInv, TruthInv', VulnPass, status' = "err"
    PROVE  ConsistentInv'
<1>0. /\ step = "vuln" /\ frame \in Frames /\ FindingsFollowSteps
      /\ frame = "nested" => opts["nested"].vuln_out = opts["outer"].vuln_out
      /\ UNCHANGED <<frame, opts, step, k, rows, built, caps, analysis, fresh, short, unpacked>>
  BY DEF VulnPass, Run, ConsistentInv, TruthInv, OptionsOfFrames, tables
<1>1. CASE findings' = findings
  <2>1. FindingsFollowSteps'
    BY <1>0, <1>1 DEF FindingsFollowSteps
  <2> QED BY <1>0, <2>1, StoppedConsistent
<1>2. ASSUME NEW a, findings' = [findings EXCEPT ![VulnDir] = [artifacts |-> a, rows |-> @.rows \cup {frame}]]
      PROVE  ConsistentInv'
  <2>1. VulnDir \in Frames /\ VulnDir = IF O.vuln_out THEN "outer" ELSE frame
    BY <1>0 DEF VulnDir, Frames
  <2>2. /\ DOMAIN findings' = Frames
        /\ VulnDir = "outer" => findings'["outer"].rows = findings["outer"].rows \cup {frame}
        /\ VulnDir # "outer" => findings'["outer"] = findings["outer"]
    BY <1>0, <1>2, <2>1 DEF FindingsFollowSteps, Frames
  <2>3. FindingsFollowSteps'
    <3>1. CASE frame = "outer"
      BY <1>0, <2>1, <2>2, <3>1 DEF FindingsFollowSteps
    <3>2. CASE frame = "nested"
      BY <1>0, <2>1, <2>2, <3>2 DEF FindingsFollowSteps, O
    <3> QED BY <1>0, <3>1, <3>2 DEF Frames
  <2> QED BY <1>0, <2>3, StoppedConsistent
<1>3. \/ findings' = findings
      \/ \E a : findings' = [findings EXCEPT ![VulnDir] = [artifacts |-> a, rows |-> @.rows \cup {frame}]]
  <2>1. status = "running"
    BY DEF VulnPass, Run
  <2> QED BY <2>1 DEF VulnPass
<1> QED BY <1>1, <1>2, <1>3

LEMMA NextConsistent == ConsistentInv /\ [Next]_vars => ConsistentInv'
<1> SUFFICES ASSUME ConsistentInv, [Next]_vars PROVE ConsistentInv'
  OBVIOUS
<1>0. TruthInv'
  BY NextTruth DEF ConsistentInv
<1>1. CASE Err \/ Kill \/ UNCHANGED vars
  <2>1. /\ status' \in {status, "err", "killed"}
        /\ UNCHANGED <<frame, opts, step, k, rows, built, caps, analysis, fresh, short, findings, unpacked>>
    BY <1>1 DEF Err, Kill, vars, tables, files
  <2>2. FindingsFollowSteps'
    BY <2>1 DEF ConsistentInv, FindingsFollowSteps
  <2> QED BY <1>0, <2>1, <2>2, StoppedConsistent
<1>2. CASE NoUnpack \/ UnpackWithoutImage \/ UnpackNested
  BY <1>0, <1>2, UnpackConsistent
<1>3. CASE RunPass \/ RunSymbolPass
  BY <1>0, <1>3, PassConsistent
<1>4. CASE /\ ~Err /\ status' # "err"
           /\ \/ Assemble \/ WriteLlmArtifacts \/ WriteCore \/ VulnPass \/ WriteTail \/ WritePacks
              \/ FinishOuter
  BY <1>0, <1>4, RestConsistent
<1>5. CASE FinishNested
  BY <1>0, <1>5, NestedConsistent
<1>6. CASE VulnPass /\ status' = "err"
  BY <1>0, <1>6, VulnFailsConsistent
<1>7. UnpackFails => Err
  BY DEF UnpackFails
<1>8. Assemble \/ WriteLlmArtifacts \/ WriteCore \/ WriteTail \/ WritePacks \/ FinishOuter =>
          Err \/ status' # "err"
  BY DEF Assemble, WriteLlmArtifacts, WriteCore, WriteTail, WriteFile, WritePacks, FinishOuter, Run
<1> QED BY <1>1, <1>2, <1>3, <1>4, <1>5, <1>6, <1>7, <1>8 DEF Next, Step

\* What a table that is written was built from is what is written.
LEMMA FilesAgreeWhenWritten == ConsistentInv => FilesAgree
<1> SUFFICES ASSUME ConsistentInv, Writing, NEW t \in Tables \cap fresh[frame], NEW b \in DOMAIN built[t]
             PROVE  built[t][b] = rows[b] \/ <<t, b>> \in PassOneReads
  BY DEF FilesAgree
<1>1. Done = 39
  BY AllPassesOrdered DEF Writing, Done
<1>2. PICK i \in 1..39 :
          /\ t \in AllPasses[i].sets /\ b \in AllPasses[i].reads
          /\ (\A j \in i..39 : b \notin AllPasses[j].sets \cup AllPasses[j].adds) => built[t][b] = rows[b]
  <2>1. BuiltUpTo(39)
    BY <1>1 DEF ConsistentInv
  <2> QED BY <2>1, Zenon DEF BuiltUpTo
<1>3. t \notin Provisional
  BY ProvisionalNotWritten DEF ConsistentInv, TypeOK
<1>4. LastPass[b] < i \/ <<t, b>> \in PassOneReads
  BY <1>2, <1>3, AllPassesOrdered DEF Ordered
<1>5. ASSUME LastPass[b] < i, NEW j \in i..39 PROVE b \notin AllPasses[j].sets \cup AllPasses[j].adds
  <2>1. j \in 1..39 /\ Ordered(AllPasses[j], j)
    BY AllPassesOrdered
  <2>2. b \in AllPasses[j].sets \cup AllPasses[j].adds => j <= LastPass[b]
    BY <2>1 DEF Ordered
  <2>3. LastPass[b] \in Nat
    <3>1. b \in DOMAIN LastPass
      BY <1>2, AllPassesOrdered DEF Ordered
    <3> QED BY <3>1 DEF LastPass
  <2> QED BY <1>5, <2>2, <2>3
<1> QED BY <1>2, <1>4, <1>5

\* For every set of options and any bounds: analysis.json has a flag for every
\* cap the passes hit, the silent ones apart, and for no other, and says what
\* became of the unpack session; the progress file says completed only of a
\* finished call whose files are all written and whose tables are whole; the
\* nested run unpacks nothing, and its files are written when the outer run
\* points to them.
THEOREM RunsTellTheTruth == Spec => []RunTellsTheTruth
<1>1. ConsistentInv => CapsReported
  <2> SUFFICES ASSUME ConsistentInv, Writing PROVE CapsReported
    BY DEF CapsReported
  <2>1. /\ analysis.caps_hit = caps \cap FlaggedCaps
        /\ analysis.second_pass = (caps \cap SecondPassCaps # {})
        /\ analysis.unpack = IF frame = "outer" THEN unpacked ELSE "none"
    BY DEF ConsistentInv, TruthInv, AnalysisFollowsSteps, Writing
  <2>2. ASSUME NEW c \in caps \ SilentCaps PROVE Reported(c)
    <3>1. c \in FlaggedCaps \/ c \in SecondPassCaps
      BY DEF ConsistentInv, TypeOK, Caps
    <3> QED BY <2>1, <3>1 DEF Reported
  <2> QED BY <2>1, <2>2 DEF CapsReported
<1>2. ConsistentInv => RunTellsTheTruth
  BY <1>1 DEF ConsistentInv, TruthInv, RunTellsTheTruth
<1> QED BY InitConsistent, NextConsistent, <1>2, PTL DEF Spec

\* For every set of options and any bounds: the tables a run writes were built
\* from the rows written next to them (but for what pass 1 computes for the
\* target selection); the counts of analysis.json are theirs, those apart that
\* its form for other formats sets to 0; and the vuln directory of a finished run
\* holds the artifacts of the outer image.
THEOREM RunsAreConsistent == Spec => []RunIsConsistent
<1>1. ConsistentInv => CountsAgree
  BY DEF ConsistentInv, CountsFollowSteps, CountsAgree, Writing
<1>2. ConsistentInv => VulnFindingsAreOuters
  BY DEF ConsistentInv, TruthInv, AnalysisFollowsSteps, FindingsFollowSteps, VulnFindingsAreOuters
<1>3. ConsistentInv => RunIsConsistent
  BY <1>1, <1>2, FilesAgreeWhenWritten DEF ConsistentInv, RunIsConsistent
<1> QED BY InitConsistent, NextConsistent, <1>3, PTL DEF Spec
=============================================================================
