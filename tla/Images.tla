------------------------------- MODULE Images -------------------------------
(* The binary a run analyses, as the loaders present it: PE files and Aurora *)
(* snapshots, ELF and Mach-O files, and the strings of any of them.          *)
EXTENDS Integers, Sequences, FiniteSets, FiniteSetsExt, SequencesExt

-----------------------------------------------------------------------------
(***************************************************************************)
(* The image the analyser works on (pe.rs): the sections of a PE file or   *)
(* of an Aurora snapshot, the translation of addresses, the tables of the  *)
(* file, and the ranges that are disassembled.                             *)
(*                                                                         *)
(* A file is [len, base, entry, headers, dirs, words]: its length, the     *)
(* section headers, the data directories (index -> [rva, size]), and what  *)
(* stands at an offset: words[o] is a record of the table that starts      *)
(* there.  Records have size one; u32 arithmetic is modulo U32.            *)
(***************************************************************************)

CONSTANTS
    U32,          \* 2^32, scaled down
    OrphanCap     \* orphan_cap of disassembly_ranges

None == -1
Panic == "panic"

SectionRecord(name, rva, va, vsize, raw_start, raw_size, data_size, exec) ==
    [name |-> name, rva |-> rva, va |-> va, virtual_size |-> vsize, raw_start |-> raw_start,
     raw_size |-> raw_size, data_size |-> data_size, executable |-> exec]

ByRva(sections) ==
    LET order == SortSeq([i \in DOMAIN sections |-> i],
                         LAMBDA a, b : sections[a].rva < sections[b].rva
                                       \/ (sections[a].rva = sections[b].rva /\ a < b))
    IN  [i \in DOMAIN sections |-> sections[order[i]]]

\* section_for_rva: the index of the first section whose extent holds rva.
SectionForRva(image, rva) ==
    LET Extent(s) == Max({s.virtual_size, s.raw_size, s.data_size})
        holding == {i \in DOMAIN image.sections :
                       image.sections[i].rva <= rva
                       /\ rva < Min({image.sections[i].rva + Extent(image.sections[i]), U32 - 1})}
    IN  IF holding = {} THEN 0 ELSE Min(holding)

SectionForVa(image, va) == IF va < image.base THEN 0 ELSE SectionForRva(image, (va - image.base) % U32)
ExecutableAt(image, i) == i # 0 /\ image.sections[i].executable

RvaToFileOffset(image, rva) ==
    LET i == SectionForRva(image, rva)
        s == image.sections[i]
    IN  IF i = 0 \/ rva - s.rva >= Max({s.raw_size, s.data_size}) THEN None
        ELSE s.raw_start + (rva - s.rva)

\* The slice of a name that starts past the end of the file panics.
ReadCStringRva(image, rva) ==
    LET start == RvaToFileOffset(image, rva)
    IN  IF start = None THEN "unnamed" ELSE IF start > image.len THEN Panic ELSE "named"

Directory(image, index) ==
    IF index \in DOMAIN image.dirs /\ image.dirs[index].rva # 0 /\ image.dirs[index].size # 0
    THEN RvaToFileOffset(image, image.dirs[index].rva) ELSE None

Word(image, o) == IF o \in DOMAIN image.words THEN image.words[o] ELSE [kind |-> "zero"]

-----------------------------------------------------------------------------
(* PEImage::parse.                                                           *)

\* A header whose data starts past the end of the file is a slice that panics.
ParseSection(file, h) ==
    LET end == Min({h.raw_start + h.raw_size, file.len})
    IN  IF h.raw_start > end THEN Panic
        ELSE SectionRecord(h.name, h.rva, file.base + h.rva, h.virtual_size, h.raw_start, h.raw_size,
                           Max({0, end - h.raw_start}), h.executable)

\* The runtime functions, of the directory or else of .pdata.
ParseExceptions(image) ==
    LET dir == Directory(image, 3)
        pdata == {i \in DOMAIN image.sections : image.sections[i].name = ".pdata"}
        start == IF dir # None THEN dir ELSE IF pdata # {} THEN image.sections[Min(pdata)].raw_start ELSE None
        size == IF dir # None THEN image.dirs[3].size ELSE IF pdata # {} THEN image.sections[Min(pdata)].data_size ELSE 0
        rows == {Word(image, o) : o \in start..(Min({start + size, image.len}) - 1)}
        good == {r \in rows : r.kind = "runtime" /\ r.begin # 0 /\ r.end > r.begin
                              /\ ExecutableAt(image, SectionForRva(image, r.begin))}
    IN  IF start = None THEN {} ELSE {[begin |-> image.base + r.begin, end |-> image.base + r.end] : r \in good}

\* Descriptors up to the empty one, then each one's thunks up to a zero.
ParseImports(image) ==
    LET start == Directory(image, 1)
        Run(o, kind) == {k \in o..(image.len - 1) : \A j \in o..k : Word(image, j).kind = kind}
        Thunks(d) == LET t == RvaToFileOffset(image, IF d.original # 0 THEN d.original ELSE d.first)
                     IN  IF t = None THEN {} ELSE {[va |-> image.base + d.first + (k - t), dll |-> ReadCStringRva(image, d.name)]
                                                     : k \in Run(t, "thunk")}
    IN  IF start = None THEN {} ELSE UNION {Thunks(Word(image, k)) : k \in Run(start, "descriptor")}

ParseExports(image) ==
    LET dir == Directory(image, 0)
        e == Word(image, dir)
    IN  IF dir = None \/ dir >= image.len \/ e.kind # "exports" THEN {}
        ELSE IF None \in {RvaToFileOffset(image, a) : a \in {e.names, e.ordinals, e.functions}} THEN {}
        ELSE {[va |-> image.base + e.targets[i]] : i \in DOMAIN e.targets}

FunctionSeeds(image, exceptions, exports) ==
    ({image.entry_va} \ {0}) \cup {x.begin : x \in exceptions}
    \cup {x.va : x \in {y \in exports : ExecutableAt(image, SectionForVa(image, y.va))}}

OverlayOffset(image) ==
    LET end == Max({0} \cup {image.sections[i].raw_start + image.sections[i].raw_size : i \in DOMAIN image.sections})
    IN  IF end > 0 /\ end < image.len THEN end ELSE None

ParsePe(file) ==
    LET sections == [i \in DOMAIN file.headers |-> ParseSection(file, file.headers[i])]
        image == [len |-> file.len, base |-> file.base, dirs |-> file.dirs, words |-> file.words,
                  entry_va |-> IF file.entry = 0 THEN 0 ELSE file.base + file.entry,
                  sections |-> ByRva(sections)]
    IN  IF \E i \in DOMAIN file.headers : file.headers[i].raw_start > file.len THEN [ok |-> FALSE]
        ELSE LET exceptions == ParseExceptions(image) exports == ParseExports(image)
             IN  [ok |-> TRUE, image |-> image, imports |-> ParseImports(image), exports |-> exports,
                  exceptions |-> exceptions, seeds |-> FunctionSeeds(image, exceptions, exports),
                  overlay |-> OverlayOffset(image)]

-----------------------------------------------------------------------------
(* PEImage::from_snapshot: the regions of a manifest, by address.  A region  *)
(* names its blob; files gives the blobs on disk.                            *)

FromSnapshot(regions, files, oeps) ==
    LET order == SortSeq([i \in DOMAIN regions |-> i],
                         LAMBDA a, b : regions[a].va < regions[b].va \/ (regions[a].va = regions[b].va /\ a < b))
        sorted == [i \in DOMAIN regions |-> regions[order[i]]]
        base == sorted[1].va
        offset[i \in 1..Len(regions)] == IF i = 1 THEN 0 ELSE offset[i - 1] + sorted[i - 1].size
        Intact(r) == r.blob \in DOMAIN files /\ files[r.blob].size = r.size /\ files[r.blob].hash = r.hash
        best == {i \in DOMAIN oeps : \A j \in DOMAIN oeps : oeps[j].score <= oeps[i].score}
    IN  IF regions = <<>> \/ \E i \in DOMAIN regions : ~Intact(regions[i]) THEN [ok |-> FALSE]
        ELSE [ok |-> TRUE,
              image |-> [base |-> base, len |-> offset[Len(regions)] + sorted[Len(regions)].size,
                         entry_va |-> IF best = {} THEN 0 ELSE oeps[Max(best)].va,
                         blobs |-> [i \in DOMAIN sorted |-> sorted[i].blob],
                         sections |-> ByRva([i \in DOMAIN sorted |->
                             SectionRecord(sorted[i].blob, (sorted[i].va - base) % U32, sorted[i].va, sorted[i].size,
                                           offset[i], sorted[i].size, sorted[i].size, sorted[i].executable)])]]

-----------------------------------------------------------------------------
(* disassembly_ranges.                                                       *)

ExceptionRanges(image, exceptions) ==
    {r \in {LET i == SectionForVa(image, x.begin)
                s == image.sections[i]
            IN  IF ~ExecutableAt(image, i) THEN [section |-> 0, start |-> 0, end |-> 0]
                ELSE [section |-> s.rva, start |-> Max({x.begin, s.va}), end |-> Min({x.end, s.va + s.data_size})]
              : x \in exceptions} : r.end > r.start}

\* Mutant: nothing is looked for after the last runtime function.
OrphansBetween(s, covered) ==
    LET items == SetToSortSeq({r \in covered : r.section = s.rva},
                              LAMBDA a, b : a.start < b.start \/ (a.start = b.start /\ a.end < b.end))
        Gap(from, to) == IF to > from THEN {[section |-> s.rva, start |-> from, end |-> Min({to, from + OrphanCap})]} ELSE {}
        walked == FoldLeft(LAMBDA acc, r : [cursor |-> Max({acc.cursor, r.end}),
                                            gaps |-> acc.gaps \cup Gap(acc.cursor, r.start)],
                           [cursor |-> s.va, gaps |-> {}], items)
    IN  walked.gaps

\* What no runtime function covers, each gap cut at OrphanCap.
OrphanRanges(s, covered) ==
    LET items == SetToSortSeq({r \in covered : r.section = s.rva},
                              LAMBDA a, b : a.start < b.start \/ (a.start = b.start /\ a.end < b.end))
        Gap(from, to) == IF to > from THEN {[section |-> s.rva, start |-> from, end |-> Min({to, from + OrphanCap})]} ELSE {}
        walked == FoldLeft(LAMBDA acc, r : [cursor |-> Max({acc.cursor, r.end}),
                                            gaps |-> acc.gaps \cup Gap(acc.cursor, r.start)],
                           [cursor |-> s.va, gaps |-> {}], items)
    IN  walked.gaps \cup Gap(walked.cursor, s.va + s.data_size)

DisassemblyRanges(image, exceptions) ==
    LET executable == {image.sections[i] : i \in {j \in DOMAIN image.sections : image.sections[j].executable}}
        covered == ExceptionRanges(image, exceptions)
    IN  IF exceptions = {} THEN {[section |-> s.rva, start |-> s.va, end |-> s.va + s.data_size] : s \in executable}
        ELSE covered \cup UNION {OrphanRanges(s, covered) : s \in executable}

-----------------------------------------------------------------------------
(***************************************************************************)
(* ELF and Mach-O inputs (elf.rs, macho.rs, image.rs), read through the    *)
(* object crate, and the strings of any image (strings.rs).                *)
(*                                                                         *)
(* A file is [magic, arch, entry, len, sections, exported, symbols]; a     *)
(* section of it is [name, address, size, offset, length, kind], length 0  *)
(* when it has no bytes in the file.  A byte is "p" (printable), "z" (zero)*)
(* or "o" (any other).                                                     *)
(***************************************************************************)

CONSTANTS
    ObjectU32,        \* 2^32, scaled down
    MinLen      \* the shortest string that is reported, in characters

\* detect_format: PE first, then ELF, then the six magic words of Mach-O.
DetectFormat(magic) ==
    CASE magic = "MZ" -> "Pe"
      [] magic = "7fELF" -> "Elf"
      [] magic \in {"FEEDFACE", "FEEDFACF", "CEFAEDFE", "CFFAEDFE", "CAFEBABE", "BEBAFECA"} -> "MachO"
      [] OTHER -> "unknown"

SupportedArch(arch) == arch \in {"X86_64", "I386"}

\* The lowest address of a section that is loaded; the others are at zero.
ImageBase(file) ==
    LET loaded == {file.sections[i].address : i \in DOMAIN file.sections} \ {0}
    IN  IF loaded = {} THEN 0 ELSE Min(loaded)

\* A section that starts past the end of a truncated file keeps its range,
\* which is then no slice of the bytes.
CollectSections(file, base) ==
    [i \in DOMAIN file.sections |->
        LET s == file.sections[i]
        IN  [name |-> s.name, va |-> s.address, rva |-> Max({0, s.address - base}) % ObjectU32,
             virtual_size |-> s.size % ObjectU32, raw_start |-> s.offset % ObjectU32, raw_size |-> s.length,
             data_size |-> s.length,
             data |-> IF s.length > 0 THEN [from |-> s.offset, to |-> Min({s.offset + s.length, file.len})]
                      ELSE [from |-> 0, to |-> 0],
             executable |-> s.kind = "Text",
             writable |-> s.kind \in {"Data", "UninitializedData", "Tls", "TlsVariables"},
             readable |-> s.kind # "Unknown"]]

\* The dynamic symbols that are defined, after the exports; the first of a name.
CollectExports(file) ==
    LET more == SelectSeq(file.symbols, LAMBDA s : s.defined /\ s.kind \in {"Text", "Data"} /\ s.name # "")
    IN  FoldLeft(LAMBDA rows, s : IF \E i \in DOMAIN rows : rows[i].name = s.name THEN rows
                                  ELSE Append(rows, [name |-> s.name, va |-> s.address]),
                 file.exported, more)

ParseObject(format, file) ==
    LET base == ImageBase(file)
        exports == CollectExports(file)
    IN  IF ~SupportedArch(file.arch) THEN [ok |-> FALSE]
        ELSE [ok |-> TRUE, format |-> format, base |-> base, entry_va |-> file.entry,
              sections |-> CollectSections(file, base), exports |-> exports,
              function_seeds |-> {file.entry} \cup {exports[i].va : i \in DOMAIN exports}]
ParseElf(file) == ParseObject("Elf", file)
ParseMachO(file) == ParseObject("MachO", file)

AnalyzePath(file) ==
    CASE DetectFormat(file.magic) = "Elf" -> ParseElf(file)
      [] DetectFormat(file.magic) = "MachO" -> ParseMachO(file)
      [] OTHER -> [ok |-> FALSE]

\* ParsedImage::section_for_va, in 64 bits; 0 when there is none.
ObjectSectionForVa(image, va) ==
    LET holding == {i \in DOMAIN image.sections : LET s == image.sections[i] IN
                       s.va <= va /\ va < s.va + Max({s.virtual_size, s.raw_size, s.data_size})}
    IN  IF holding = {} THEN 0 ELSE Min(holding)

-----------------------------------------------------------------------------
(* Strings.                                                                  *)

StringRow(base, s, enc, begin, size) ==
    [va |-> base + s.rva + begin, file_offset |-> s.raw_start + begin, encoding |-> enc, size |-> size,
     section |-> s.name]

\* Maximal runs of printable bytes, in order.
ScanAscii(base, s, data, max, rows) ==
    LET Push(acc, end) ==
            IF acc.start = 0 \/ Len(acc.rows) >= max \/ end - acc.start < MinLen THEN acc.rows
            ELSE Append(acc.rows, StringRow(base, s, "ASCII", acc.start - 1, end - acc.start))
        scanned == FoldLeft(LAMBDA acc, i :
                       IF data[i] = "p" THEN [acc EXCEPT !.start = IF @ = 0 THEN i ELSE @]
                       ELSE [rows |-> Push(acc, i), start |-> 0],
                   [rows |-> rows, start |-> 0], [i \in DOMAIN data |-> i])
    IN  Push(scanned, Len(data) + 1)

\* Runs of printable units, looked for at even offsets only; what ends a run is
\* skipped.
ScanUtf16(base, s, data, max, rows) ==
    LET Unit(i) == i + 1 <= Len(data) /\ data[i] = "p" /\ data[i + 1] = "z"
        scan[i \in 1..(Len(data) + 3)] ==
            LET run == CHOOSE n \in 0..Len(data) : ~Unit(i + 2 * n) /\ \A k \in 0..(n - 1) : Unit(i + 2 * k)
                next == i + 2 * run + 2
            IN  IF i + 2 * MinLen > Len(data) + 1 THEN <<>>
                ELSE (IF run >= MinLen THEN <<StringRow(base, s, "UTF-16LE", i - 1, 2 * run)>> ELSE <<>>)
                     \o (IF next <= Len(data) THEN scan[next] ELSE <<>>)
        found == scan[1]
    IN  rows \o SubSeq(found, 1, Max({0, Min({Len(found), max - Len(rows)})}))

\* Section by section until the limit is reached.
ExtractStrings(base, sections, dataOf, max) ==
    FoldLeft(LAMBDA rows, i :
                 IF Len(rows) >= max THEN rows
                 ELSE LET ascii == ScanAscii(base, sections[i], dataOf[i], max, rows)
                      IN  IF Len(ascii) >= max THEN ascii ELSE ScanUtf16(base, sections[i], dataOf[i], max, ascii),
             <<>>, [i \in DOMAIN sections |-> i])
=============================================================================
