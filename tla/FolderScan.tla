----------------------------- MODULE FolderScan -----------------------------
(***************************************************************************)
(* src/folder_scan.rs with archive_extract.rs and the Ctrl-C handler of    *)
(* bin/axe.rs: a directory is walked into a heap of files, archives are    *)
(* opened and their members pushed back, contents are analysed once, and   *)
(* the results of the samples are merged into the files of the run.        *)
(*                                                                         *)
(* A file is a name and a content.  What analyze_path does to a content is *)
(* its result and the findings it leaves in the sample directory.  Calls   *)
(* of the file system may fail; the user may press Ctrl-C at any time.     *)
(***************************************************************************)
EXTENDS Integers, FiniteSets, Functions, SequencesExt

CONSTANTS
    Names,            \* names of files, without the extension
    Contents,         \* contents of files, told apart by their SHA-256
    Size,             \* size of each content
    Format,           \* detect_format of each content: a Classification or "None"
    Archived,         \* the members of each content, a sequence of files, if it is an archive
    Findings,         \* the rows of findings.jsonl that analysing a content leaves
    Tree,             \* the files under the root
    ArchiveDepth, MaxFiles, MaxBytes, SingleFileByteLimit, NoExtractArchives,
    MaxFailures       \* bound: failing calls

File == [name : Names, ext : {"exe", "zip", "rar", "bin"}, content : Contents]

\* What a directory can hold: a path names one file, also where an archive has
\* two members of that name and the second is written over the first.
Directory(files) ==
    \A f, g \in files : f.name = g.name /\ f.ext = g.ext => f = g

\* Where the files of Tree are; an extracted file is under the archive's content.
Root == "root"

ASSUME FolderScanAssumption ==
    /\ Size \in [Contents -> Nat] /\ Archived \in [Contents -> Seq(File)]
    /\ Format \in [Contents -> {"Pe", "Elf", "MachO", "None"}]
    /\ \A c \in Contents : IsFiniteSet(Findings[c])
    /\ Tree \subseteq File /\ IsFiniteSet(Tree) /\ Root \notin Contents /\ NoExtractArchives \in BOOLEAN
    /\ Directory(Tree) /\ \A c \in Contents : Directory(ToSet(Archived[c]))
    /\ {ArchiveDepth, MaxFiles, MaxBytes, SingleFileByteLimit, MaxFailures} \subseteq Nat

VARIABLES
    pc,          \* where scan_folder is
    queue,       \* the heap, as a set: pop takes any item of the greatest size
    enqueued,    \* enqueued_paths
    total,       \* total_bytes_enqueued
    skipped,     \* paths in the skipped list
    samples,     \* dedup: from content to its SampleEntry
    opened,      \* history: archives that were extracted
    dropped,     \* history: the item popped when the interrupt was seen
    analysed,    \* history: how often each content was analysed
    flag,        \* the interrupt flag
    interrupted, \* interrupted_flag
    index,       \* case_index.json and folder_attack_surface.json, once written
    failures     \* calls that have failed

heapv == <<queue, enqueued, total>>
outv  == <<samples, opened, dropped, analysed>>
vars  == <<pc, heapv, skipped, outv, flag, interrupted, index, failures>>

Item(where, f, level) == [path |-> <<where, f.name, f.ext>>, content |-> f.content, level |-> level]

Classify(i) ==
    IF Format[i.content] # "None" THEN Format[i.content]
    ELSE IF i.path[3] \in {"zip", "rar"} \/ Archived[i.content] # <<>> THEN "Archive"
    ELSE IF i.path[3] = "exe" THEN "Pe"
    ELSE "Other"

Fails == failures < MaxFailures /\ failures' = failures + 1
Works == UNCHANGED failures

Init ==
    /\ pc = "walk" /\ queue = {} /\ enqueued = {} /\ total = 0 /\ skipped = {}
    /\ samples = [c \in {} |-> {}] /\ opened = {} /\ dropped = {} /\ analysed = [c \in Contents |-> 0]
    /\ flag = FALSE /\ interrupted = FALSE /\ index = [written |-> FALSE]
    /\ failures = 0

-----------------------------------------------------------------------------
(* Filling the heap                                                        *)

Heap == [queue |-> queue, enqueued |-> enqueued, total |-> total, skipped |-> skipped, more |-> TRUE]

\* Mutant: the bytes of extracted files are not added up.
OfferUncounted(h, i, reports) ==
    IF ~h.more \/ i.path \in h.enqueued \/ Cardinality(h.queue) >= MaxFiles
       \/ h.total + Size[i.content] > MaxBytes
    THEN h
    ELSE [h EXCEPT !.queue = @ \cup {i}, !.enqueued = @ \cup {i.path},
                   !.total = IF reports THEN @ + Size[i.content] ELSE @]

\* One round of the loops of walk_into_queue and handle_archive: a limit that is
\* reached ends the loop, and the walk alone lists the file it stopped at.
Offer(h, i, reports) ==
    LET skip == [h EXCEPT !.skipped = @ \cup {i.path}]
        stop == [h EXCEPT !.more = FALSE, !.skipped = IF reports THEN @ \cup {i.path} ELSE @]
    IN  IF ~h.more THEN h
        ELSE IF Cardinality(h.queue) >= MaxFiles THEN stop
        ELSE IF Size[i.content] > SingleFileByteLimit THEN skip
        ELSE IF h.total + Size[i.content] > MaxBytes THEN stop
        ELSE IF i.path \in h.enqueued THEN h
        ELSE [h EXCEPT !.queue = @ \cup {i}, !.enqueued = @ \cup {i.path},
                       !.total = @ + Size[i.content]]

\* The rounds over a list of files, for those that are there.
OfferAll(h, where, files, there, level, reports) ==
    LET offered[n \in 0..Len(files)] ==
            IF n = 0 THEN h
            ELSE IF files[n] \in there THEN Offer(offered[n - 1], Item(where, files[n], level), reports)
            ELSE offered[n - 1]
    IN  offered[Len(files)]

SetHeap(h) ==
    /\ queue' = h.queue /\ enqueued' = h.enqueued /\ total' = h.total /\ skipped' = h.skipped

\* walk_into_queue: the directory is listed in some order.
Walk ==
    /\ pc = "walk"
    /\ \E order \in SetToSeqs(Tree) : SetHeap(OfferAll(Heap, Root, order, Tree, 0, TRUE))
    /\ pc' = "scan" /\ Works
    /\ UNCHANGED <<outv, flag, interrupted, index>>

-----------------------------------------------------------------------------
(* The scan loop: one item a round                                         *)

Biggest == {i \in queue : \A j \in queue : Size[j.content] <= Size[i.content]}

\* The interrupt is seen after the pop: the item is gone.
Interrupted ==
    /\ pc = "scan" /\ flag
    /\ \E i \in Biggest : queue' = queue \ {i} /\ dropped' = {i.path}
    /\ interrupted' = TRUE /\ pc' = "merge" /\ Works
    /\ UNCHANGED <<enqueued, total, skipped, samples, opened, analysed, flag, index>>

\* What every round that does not push anything leaves alone.
Round(i) ==
    /\ pc = "scan" /\ ~flag /\ i \in Biggest
    /\ UNCHANGED <<pc, dropped, flag, interrupted, index>>

\* Mutant: the item is looked at and stays in the heap.
TakePeeks(i) == Round(i) /\ UNCHANGED heapv

Take(i) == Round(i) /\ queue' = queue \ {i} /\ UNCHANGED <<enqueued, total>>

\* fs::read or create_dir_all fails, the archive may not be opened or is of a
\* kind extract_archive refuses, or the file is no binary.
Skip(i) ==
    /\ Take(i)
    /\ \/ Fails
       \/ Works /\ Classify(i) = "Other"
       \/ Works /\ Classify(i) = "Archive" /\ (NoExtractArchives \/ i.level = ArchiveDepth)
       \/ Works /\ Classify(i) = "Archive" /\ i.path[3] = "rar"
    /\ skipped' = skipped \cup {i.path}
    /\ UNCHANGED <<samples, opened, analysed>>

\* extract_zip, extract_7z, extract_tar: every member, or those that could be
\* written; the errors of members, or of the whole archive, do not reach the scan.
ExtractArchive(c) == SUBSET ToSet(Archived[c])

\* handle_archive: extracted files go under the directory of the archive's hash.
HandleArchive(i) ==
    /\ Round(i) /\ Classify(i) = "Archive" /\ ~NoExtractArchives /\ i.level < ArchiveDepth
    /\ i.path[3] # "rar"
    /\ \E files \in ExtractArchive(i.content) :
        /\ IF files = ToSet(Archived[i.content]) THEN Works ELSE Fails
        /\ SetHeap(OfferAll([Heap EXCEPT !.queue = @ \ {i}], i.content, Archived[i.content], files,
                            i.level + 1, FALSE))
    /\ opened' = opened \cup {i}
    /\ UNCHANGED <<samples, analysed>>

Binary(i) == Classify(i) \in {"Pe", "Elf", "MachO"}

\* Mutant: a second copy is passed over.
DuplicateForgotten(i) ==
    /\ Take(i) /\ Binary(i) /\ i.content \in DOMAIN samples
    /\ Works /\ UNCHANGED <<skipped, samples, opened, analysed>>

\* A content that has an entry: the path is added to it.
Duplicate(i) ==
    /\ Take(i) /\ Binary(i) /\ i.content \in DOMAIN samples
    /\ samples' = [samples EXCEPT ![i.content].paths = @ \cup {i.path}]
    /\ Works /\ UNCHANGED <<skipped, opened, analysed>>

\* analyze_path, whose error becomes part of the entry.
Analyse(i) ==
    /\ Take(i) /\ Binary(i) /\ i.content \notin DOMAIN samples
    /\ \E error \in BOOLEAN :
        /\ IF error THEN Fails ELSE Works
        /\ samples' = [c \in DOMAIN samples \cup {i.content} |->
                        IF c = i.content THEN [paths |-> {i.path}, error |-> error] ELSE samples[c]]
    /\ analysed' = [analysed EXCEPT ![i.content] = @ + 1]
    /\ UNCHANGED <<skipped, opened>>

ScanItem == \E i \in queue : Skip(i) \/ HandleArchive(i) \/ Duplicate(i) \/ Analyse(i)

ScanEnds ==
    /\ pc = "scan" /\ queue = {}
    /\ pc' = "merge" /\ Works
    /\ UNCHANGED <<heapv, skipped, outv, flag, interrupted, index>>

-----------------------------------------------------------------------------
(* Merging the samples                                                     *)

\* The findings.jsonl files that can be read: an analysis that failed has none.
Rows(c) == IF samples[c].error THEN {} ELSE Findings[c]

\* aggregate_folder_attack_surface: one record for each source and sink.
Patterns ==
    LET keys == UNION {{r.key : r \in Rows(c)} : c \in DOMAIN samples}
        Of(c, k) == {r \in Rows(c) : r.key = k}
    IN  {[key |-> k,
          binaries  |-> Cardinality({c \in DOMAIN samples : Of(c, k) # {}}),
          count     |-> SumFunction([c \in DOMAIN samples |-> Cardinality(Of(c, k))]),
          confirmed |-> SumFunction([c \in DOMAIN samples |->
                                        Cardinality({r \in Of(c, k) : r.confirmed})])] : k \in keys}

\* The JSONL files of the samples are joined, errors ignored; an error of the
\* attack surface or of case_index.json ends the scan without an index.
Merge ==
    /\ pc = "merge"
    /\ \/ /\ Works /\ pc' = "done"
          /\ index' = [written |-> TRUE, patterns |-> Patterns, samples |-> Cardinality(DOMAIN samples),
                       interrupted |-> interrupted]
       \/ Fails /\ pc' = "err" /\ UNCHANGED index
    /\ UNCHANGED <<heapv, skipped, outv, flag, interrupted>>

Over == pc \in {"done", "err", "exit"}

\* The first Ctrl-C raises the flag, the second ends the process.
CtrlC ==
    /\ ~Over
    /\ IF flag THEN pc' = "exit" /\ UNCHANGED flag ELSE flag' = TRUE /\ UNCHANGED pc
    /\ UNCHANGED <<heapv, skipped, outv, interrupted, index, failures>>

Scan == Walk \/ Interrupted \/ ScanItem \/ ScanEnds \/ Merge
Next == Scan \/ CtrlC

Spec     == Init /\ [][Next]_vars
FairSpec == Spec /\ WF_vars(Scan)

-----------------------------------------------------------------------------
(* Properties                                                              *)

TypeOK ==
    /\ pc \in {"walk", "scan", "merge", "done", "err", "exit"}
    /\ \A i \in queue : i.content \in Contents /\ i.level \in 0..ArchiveDepth
    /\ DOMAIN samples \subseteq Contents /\ total \in Nat
    /\ {i.path : i \in queue \cup opened} \cup dropped \subseteq enqueued
    /\ flag \in BOOLEAN /\ interrupted \in BOOLEAN /\ index.written \in BOOLEAN
    /\ failures \in 0..MaxFailures

\* The report of a scan (ScanResult): every file that entered the heap is in
\* exactly one place, waiting, in the paths of one sample, in the skipped list
\* or opened as an archive, whatever fails; an interrupt loses the one it popped.
EveryFileHasOnePlace ==
    LET places == <<{i.path : i \in queue}, {i.path : i \in opened}, dropped,
                    UNION {samples[c].paths : c \in DOMAIN samples}, skipped \cap enqueued>>
    IN  /\ UNION ToSet(places) = enqueued
        /\ \A m, n \in DOMAIN places : m # n => places[m] \cap places[n] = {}

\* dedup: a content is analysed once, also when its analysis failed and it turns
\* up again, at the root or inside an archive.
ContentAnalysedOnce ==
    \A c \in Contents : analysed[c] = IF c \in DOMAIN samples THEN 1 ELSE 0

\* --max-bytes and --max-files: what waits in the heap, was opened or was
\* analysed stays within the limits, archives inside archives included.
WithinLimits ==
    /\ Cardinality(queue) <= MaxFiles
    /\ SumFunction([i \in queue \cup opened |-> Size[i.content]])
         + SumFunction([c \in DOMAIN samples |-> Size[c] * Cardinality(samples[c].paths)]) <= MaxBytes

\* --archive-depth: an archive inside d archives is opened only if d < ArchiveDepth,
\* so what is extracted lies under at most ArchiveDepth archives.
DepthLimited ==
    \A i \in opened : i.path[1] # Root =>
        \E o \in opened : o.content = i.path[1] /\ o.level < i.level /\ i.level < ArchiveDepth

\* cross_folder_api_patterns: a finding counts once however many copies of its
\* binary the folder holds.
FindingsCountedOnce ==
    index.written =>
        SumFunction([p \in index.patterns |-> p.count]) =
        SumFunction([c \in DOMAIN samples |-> Cardinality(Rows(c))])

\* Every scan ends, with an index, an error, or the second Ctrl-C.
ScanEventuallyEnds == <>Over

\* However archives and copies nest, the work of a scan is bounded by its limits
\* and is done, and counted, once for every content.
WorkIsBounded == TypeOK /\ ContentAnalysedOnce /\ FindingsCountedOnce /\ WithinLimits /\ DepthLimited
=============================================================================
