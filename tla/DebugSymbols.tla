---------------------------- MODULE DebugSymbols ----------------------------
(***************************************************************************)
(* Debug symbols (debug_symbols.rs): the identities an image carries, the  *)
(* providers asked for each format, what each one pushes before it fails,  *)
(* and the symbols that stand in for functions nobody named.  The parsers  *)
(* themselves (object, pdb, ms-pdb, gimli, addr2line) are external: a PDB  *)
(* or a DWARF unit is the sequence of what its iterator yields, "error"    *)
(* where it fails.                                                         *)
(***************************************************************************)
EXTENDS Integers, Sequences, FiniteSets, FiniteSetsExt, SequencesExt

CONSTANTS
    Safe,           \* safe_file_component: a name -> a name
    MaxModules,     \* take(4096) of the modules ms-pdb lists, scaled down
    MaxUnits,       \* DWARF units read (4096), scaled down
    MaxDies,        \* entries read in a unit (100_000), scaled down
    MaxFrames,      \* inline frames of a symbol (32), scaled down
    MaxProbes       \* function symbols looked up by addr2line (256), scaled down

\* DebugSymbolOutput, without its module row.
EmptyOutput == [identities |-> <<>>, symbols |-> <<>>, source_files |-> <<>>, line_entries |-> <<>>,
                inline_scopes |-> <<>>, debug_types |-> <<>>, uncertainties |-> <<>>]

Unmapped == -1      \* an offset with no address, a row with no line

Uncertain(out, provider, code) ==
    [out EXCEPT !.uncertainties = Append(@, [provider |-> provider, code |-> code])]

VaToRva(base, address) == IF base # 0 /\ address >= base THEN address - base ELSE address

SymbolRow(provider, name, start, end, function) ==
    [provider |-> provider, name |-> name, start |-> start, end |-> end, function |-> function]
PushSymbol(out, row) == [out EXCEPT !.symbols = Append(@, row)]

FileId(provider, files, path) == <<provider, Cardinality(DOMAIN files), Safe[path]>>

\* The source file of a line: known, or a row and an id of its own.
\* files maps the paths met so far to their ids.
InternFile(st, provider, path) ==
    IF path \in DOMAIN st.files THEN st
    ELSE LET id == FileId(provider, st.files, path)
         IN  [st EXCEPT !.files = [p \in DOMAIN @ \cup {path} |-> IF p = path THEN id ELSE @[p]],
                        !.out.source_files = Append(@, [id |-> id, provider |-> provider, path |-> path])]

PushLine(st, provider, rva, path) ==
    LET known == InternFile(st, provider, path)
    IN  [known EXCEPT !.out.line_entries =
             Append(@, [provider |-> provider, start |-> rva, file_id |-> known.files[path]])]

-----------------------------------------------------------------------------
(* Identities.                                                               *)

RECURSIVE ScanRsds(_, _, _, _)
\* parse_rsds_records from a position: the bytes are "S" (the signature), 0 (a
\* terminator) and others; fixed is the length of the GUID and the age.
ScanRsds(bytes, fixed, cursor, found) ==
    LET at == {i \in (cursor + 1)..Len(bytes) : bytes[i] = "S"}
        offset == Min(at)
        start == offset + fixed
        zeros == {i \in (start + 1)..Len(bytes) : bytes[i] = "0"}
        pathEnd == IF zeros = {} THEN Len(bytes) + 1 ELSE Min(zeros)
        next == IF pathEnd > Len(bytes) THEN Len(bytes) ELSE pathEnd
        more == IF pathEnd > start + 1
                THEN Append(found, [offset |-> offset, path |-> SubSeq(bytes, start + 1, pathEnd - 1)])
                ELSE found
    IN  IF at = {} \/ start > Len(bytes) THEN found
        ELSE IF next >= Len(bytes) THEN more
        ELSE ScanRsds(bytes, fixed, next, more)

ParseRsdsRecords(bytes, fixed) == ScanRsds(bytes, fixed, 0, <<>>)

\* Names and descriptions end on a multiple of the word.
Align(word, n) == ((n + word - 1) \div word) * word

BuildIdNote == 3    \* ELF_NOTE_GNU_BUILD_ID
Gnu == 7            \* the name of GNU's notes

RECURSIVE ScanNotes(_, _, _)
\* parse_gnu_build_id: data is a sequence of header words (one element each,
\* standing for word bytes) and of name and description bytes.
ScanNotes(data, word, cursor) ==
    LET head == 3
        namesz == data[cursor + 1]
        descsz == data[cursor + 2]
        nameEnd == cursor + head + namesz
        descAt == cursor + head + Align(word, namesz)
        descEnd == descAt + descsz
        isBuildId == data[cursor + 3] = BuildIdNote /\ namesz > 0 /\ data[cursor + 4] = Gnu /\ descsz > 0
    IN  IF cursor + head > Len(data) \/ nameEnd > Len(data) \/ descEnd > Len(data) THEN <<>>
        ELSE IF isBuildId THEN SubSeq(data, descAt + 1, descEnd)
        ELSE ScanNotes(data, word, descAt + Align(word, descsz))

ParseGnuBuildId(data, word) == ScanNotes(data, word, 0)

\* collect_elf_identities: one row for each build id and debuglink, one for all
\* the .debug_ sections.
CollectElfIdentities(image, out) ==
    IF ~image.object_ok THEN out
    ELSE FoldLeft(LAMBDA o, s :
             IF s.content \notin {"build_id", "debuglink", "debug"}
                \/ (s.content = "debug" /\ \E i \in DOMAIN o.identities : o.identities[i].kind = "embedded_dwarf")
             THEN o
             ELSE [o EXCEPT !.identities = Append(@,
                      [kind |-> IF s.content = "debug" THEN "embedded_dwarf" ELSE s.content,
                       found |-> s.content = "debug"])],
             out, image.sections)

\* locate_debug_file: the recorded path, beside the input, then under each
\* symbol path; the first that is a file.  Neither GUID nor age is compared.
LocateDebugFile(hint, input) ==
    LET under(root) == <<<<root, hint.name>>>> \o (IF hint.absolute THEN <<>> ELSE <<<<root, hint.path>>>>)
        candidates == <<<<"", hint.path>>, <<input.parent, hint.name>>>>
                      \o FlattenSeq([i \in DOMAIN input.symbol_paths |-> under(input.symbol_paths[i])])
        files == {i \in DOMAIN candidates : candidates[i] \in DOMAIN input.pdbs}
    IN  IF files = {} THEN <<>> ELSE candidates[Min(files)]

-----------------------------------------------------------------------------
(* Providers.                                                                *)

PdbPublic(st, item) ==
    IF item.rva = Unmapped THEN st
    ELSE [st EXCEPT !.out = PushSymbol(@, SymbolRow("pdb", item.name, item.rva, item.rva + 1, item.code)),
                    !.count = @ + 1]

\* A procedure with no address takes its lines with it, as does a module with
\* no line program.
PdbProcedure(st, item) ==
    IF item.rva = Unmapped THEN [st EXCEPT !.lines = FALSE]
    ELSE [st EXCEPT !.out = PushSymbol(@, SymbolRow("pdb", item.name, item.rva, item.rva + Max({item.len, 1}), TRUE)),
                    !.count = @ + 1, !.lines = item.program]

PdbLine(st, item) ==
    IF ~st.lines \/ item.rva = Unmapped THEN st
    ELSE [PushLine(st, "pdb", item.rva, item.file) EXCEPT !.count = @ + 1]

NoFiles == [p \in {} |-> <<>>]

PdbItem(st, item) ==
    IF ~st.ok THEN st
    ELSE CASE item.ev = "public" -> PdbPublic(st, item)
           [] item.ev = "proc" -> PdbProcedure(st, item)
           [] item.ev = "line" -> PdbLine(st, item)
           [] OTHER -> [st EXCEPT !.ok = FALSE]

\* collect_pdb_provider: the rows pushed before an error stay.
CollectPdbProvider(items, out) ==
    LET st == FoldLeft(PdbItem, [out |-> out, files |-> NoFiles, count |-> 0, lines |-> FALSE, ok |-> TRUE], items)
    IN  CASE ~st.ok -> Uncertain(st.out, "pdb", "PARSE_ERROR")
          [] st.ok /\ st.count = 0 -> Uncertain(st.out, "pdb", "PARTIAL_RESULT")
          [] OTHER -> st.out

\* The TPI and IPI ranges, one type row for each that is not empty.
MsPdbTypes(pdb, out) ==
    LET row(ns, n) == IF n > 0 THEN <<[provider |-> "ms-pdb", namespace |-> ns, size |-> n]>> ELSE <<>>
    IN  [out EXCEPT !.debug_types = @ \o row("pdb_tpi", pdb.tpi) \o row("pdb_ipi", pdb.ipi)]

\* collect_ms_pdb_provider: the modules as source files, then the types; the
\* item range alone does not count as a result.
CollectMsPdbProvider(pdb, out) ==
    LET labels == SelectSeq(SubSeq(pdb.modules, 1, Min({Len(pdb.modules), MaxModules})), LAMBDA l : l # "")
        files == [i \in DOMAIN labels |->
                    [id |-> <<"ms_pdb", i - 1, Safe[labels[i]]>>, provider |-> "ms-pdb", path |-> labels[i]]]
        read == MsPdbTypes(pdb, [out EXCEPT !.source_files = @ \o files])
    IN  CASE ~pdb.opens -> Uncertain(out, "ms-pdb", "PARSE_ERROR")
          [] pdb.opens /\ labels = <<>> /\ pdb.tpi = 0 -> Uncertain(read, "ms-pdb", "INDEX_NOT_READY")
          [] OTHER -> read

\* collect_object_symbols: defined code, data and untyped symbols with a name.
CollectObjectSymbols(image, out) ==
    IF ~image.object_ok THEN Uncertain(out, "object", "UNSUPPORTED_FORMAT")
    ELSE LET kept == SelectSeq(image.symbols, LAMBDA s :
                         s.defined /\ s.kind \in {"Text", "Data", "Unknown"} /\ s.name # "")
             row(s) == LET start == VaToRva(image.base, s.address)
                       IN  SymbolRow("object", s.name, start, start + Max({s.size, 1}), s.kind = "Text")
         IN  [out EXCEPT !.symbols = @ \o [i \in DOMAIN kept |-> row(kept[i])]]

\* A row of a DWARF line program.
DwarfRow(image, st, row) ==
    IF ~st.ok \/ row.end_sequence \/ row.line = Unmapped \/ row.file = "" THEN st
    ELSE PushLine(st, "dwarf", VaToRva(image.base, row.address), row.file)

\* A debugging entry: a subprogram with a range, a type, or anything else.  The
\* name is the name attribute, a linkage name, or one made from the address.
DwarfEntry(image, st, die) ==
    LET start == VaToRva(image.base, die.low)
    IN  CASE ~st.ok -> st
          [] st.ok /\ die.tag = "error" -> [st EXCEPT !.ok = FALSE]
          [] st.ok /\ die.tag = "subprogram" ->
                IF die.low = Unmapped \/ die.high <= die.low THEN st
                ELSE [st EXCEPT !.out = PushSymbol(@, SymbolRow("dwarf", IF die.name = "" THEN "subprogram" ELSE die.name,
                        start, Max({VaToRva(image.base, die.high), start + 1}), TRUE))]
          [] st.ok /\ die.tag = "type" ->
                [st EXCEPT !.out.debug_types = Append(@, [provider |-> "dwarf", namespace |-> "dwarf_die", size |-> 1])]
          [] OTHER -> st

\* A unit: its lines, then its entries up to the budget, which is reported.
DwarfUnit(image, st, unit) ==
    IF ~st.ok \/ st.count >= MaxUnits THEN st
    ELSE LET lines == FoldLeft(LAMBDA s, r : DwarfRow(image, s, r),
                               [st EXCEPT !.ok = ~unit.broken], unit.rows)
             read == FoldLeft(LAMBDA s, d : DwarfEntry(image, s, d), lines,
                              SubSeq(unit.dies, 1, Min({Len(unit.dies), MaxDies})))
             capped == IF read.ok /\ Len(unit.dies) >= MaxDies
                       THEN [read EXCEPT !.out = Uncertain(@, "dwarf", "PARTIAL_RESULT")] ELSE read
         IN  IF capped.ok THEN [capped EXCEPT !.count = @ + 1] ELSE capped

\* collect_dwarf_provider; an error keeps the rows but not the unit count.
CollectDwarf(image, out) ==
    FoldLeft(LAMBDA s, u : DwarfUnit(image, s, u),
             [out |-> out, files |-> NoFiles, count |-> 0, ok |-> image.object_ok],
             IF image.object_ok THEN image.units ELSE <<>>)

\* collect_addr2line_inline_frames: each function symbol is looked up at its
\* start, its frames pushed once per start until one cannot be read; known
\* paths keep their ids.
InlineFrames(image, out) ==
    LET probes == SelectSeq(out.symbols, LAMBDA s : s.function)
        files == [p \in {out.source_files[i].path : i \in DOMAIN out.source_files} |->
                    out.source_files[Max({i \in DOMAIN out.source_files : out.source_files[i].path = p})].id]
        scope(st, s, k) ==
            LET frames == image.frames[s.start]
                known == IF frames[k] = "" THEN st ELSE InternFile(st, "addr2line", frames[k])
                id == <<s.start, k>>
            IN  CASE ~st.ok -> st
                  [] st.ok /\ frames[k] = "error" -> [st EXCEPT !.ok = FALSE]
                  [] st.ok /\ \E i \in DOMAIN st.out.inline_scopes : st.out.inline_scopes[i].id = id -> known
                  [] OTHER -> [known EXCEPT !.out.inline_scopes = Append(@,
                        [id |-> id, call_file_id |-> IF frames[k] = "" THEN <<>> ELSE known.files[frames[k]]])]
        symbolFrames(st, s) ==
            IF s.start \notin DOMAIN image.frames THEN st
            ELSE FoldLeft(LAMBDA t, k : scope(t, s, k), st,
                          [k \in 1..Min({Len(image.frames[s.start]), MaxFrames}) |-> k])
        read == FoldLeft(symbolFrames, [out |-> out, files |-> files, ok |-> image.loader_ok],
                         SubSeq(probes, 1, Min({Len(probes), MaxProbes})))
    IN  IF read.ok THEN read.out ELSE Uncertain(read.out, "addr2line", "PARTIAL_RESULT")

\* DwarfGimliProvider: inline frames only after at least one unit.
DwarfProvider(image, out) ==
    LET read == CollectDwarf(image, out)
    IN  CASE ~read.ok -> Uncertain(read.out, "dwarf", "PARSE_ERROR")
          [] read.ok /\ read.count = 0 -> Uncertain(read.out, "dwarf", "SYMBOL_NOT_FOUND")
          [] OTHER -> InlineFrames(image, read.out)

-----------------------------------------------------------------------------
(* The formats and the whole.                                                *)

CollectPeSymbols(input, out) ==
    LET image == input.image
        identity(o, hint) ==
            LET path == LocateDebugFile(hint, input)
                row == [o EXCEPT !.identities = Append(@, [kind |-> "pdb_rsds", found |-> path # <<>>])]
            IN  IF path = <<>> THEN Uncertain(row, "pdb", "SYMBOL_NOT_FOUND")
                ELSE CollectMsPdbProvider(input.pdbs[path].ms, CollectPdbProvider(input.pdbs[path].items, row))
        start == IF image.rsds = <<>> THEN Uncertain(out, "pdb", "SYMBOL_NOT_FOUND") ELSE out
    IN  CollectObjectSymbols(image, FoldLeft(identity, start, image.rsds))

CollectElfSymbols(input, out) ==
    DwarfProvider(input.image, CollectObjectSymbols(input.image, CollectElfIdentities(input.image, out)))

CollectMachOSymbols(input, out) ==
    CollectObjectSymbols(input.image,
        Uncertain([out EXCEPT !.identities = Append(@, [kind |-> "macho_dsym_locator_pending", found |-> FALSE])],
                  "dwarf", "INDEX_NOT_READY"))

\* add_function_fallback_symbols: a symbol of exactly the function's range, of
\* whatever kind, stands for it.
AddFunctionFallbackSymbols(input, out) ==
    LET base == input.image.base
        Extent(f) == <<VaToRva(base, f.start), Max({VaToRva(base, f.end), VaToRva(base, f.start) + 1})>>
        existing == {<<out.symbols[i].start, out.symbols[i].end>> : i \in DOMAIN out.symbols}
        missing == SelectSeq(input.functions, LAMBDA f : Extent(f) \notin existing)
    IN  [out EXCEPT !.symbols = @ \o [i \in DOMAIN missing |->
            SymbolRow("function_recovery", missing[i].start, Extent(missing[i])[1], Extent(missing[i])[2], TRUE)]]

\* dedup_symbols: the first of each provider, name and range, by range.
DedupSymbols(symbols) ==
    LET Key(s) == <<s.provider, s.name, s.start, s.end>>
        firsts == SelectSeq([i \in DOMAIN symbols |-> i],
                            LAMBDA i : \A j \in 1..(i - 1) : Key(symbols[j]) # Key(symbols[i]))
    IN  SortSeq([i \in DOMAIN firsts |-> symbols[firsts[i]]],
                LAMBDA a, b : a.start < b.start \/ (a.start = b.start /\ a.end < b.end))

BuildDebugSymbols(input) ==
    LET collected == CASE input.image.format = "Pe" -> CollectPeSymbols(input, EmptyOutput)
                       [] input.image.format = "Elf" -> CollectElfSymbols(input, EmptyOutput)
                       [] OTHER -> CollectMachOSymbols(input, EmptyOutput)
        whole == AddFunctionFallbackSymbols(input, collected)
    IN  IF input.mode = "off" THEN EmptyOutput
        ELSE [whole EXCEPT !.symbols = DedupSymbols(@)]
=============================================================================
