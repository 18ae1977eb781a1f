------------------------------ MODULE MCImages ------------------------------
(* Small images of each format, with the debug symbols beside them.          *)
EXTENDS Computation

-----------------------------------------------------------------------------
(* Files of two sections, whole or cut short, with up to three runtime        *)
(* functions; snapshots of up to three regions.                               *)

I == INSTANCE Images WITH U32 <- 16, OrphanCap <- 2, ObjectU32 <- 64, MinLen <- 2

Header(name, rva, vsize, start, size, exec) ==
    [name |-> name, rva |-> rva, virtual_size |-> vsize, raw_start |-> start, raw_size |-> size, executable |-> exec]

Runtimes == {[kind |-> "runtime", begin |-> b, end |-> e] : b \in {2, 4, 5}, e \in {4, 7}}
Import == [kind |-> "descriptor", original |-> 0, first |-> 11, name |-> 11]
Exports(t) == [kind |-> "exports", names |-> 9, ordinals |-> 9, functions |-> 9, targets |-> t]

PeInputs ==
    {[len |-> n, base |-> 10, entry |-> 2, headers |-> <<Header(".text", 2, v, 1, r, TRUE), Header(d, a, 4, 6, 3, x)>>,
      dirs |-> (3 :> [rva |-> k, size |-> 2]) @@ (1 :> [rva |-> 9, size |-> 1]) @@ (0 :> [rva |-> 10, size |-> 1]),
      words |-> (6 :> f) @@ (7 :> g) @@ (8 :> [kind |-> "zero"])] :
        n \in {5, 8, 9}, v \in {3, 6}, r \in {3, 5}, d \in {".pdata", ".data"}, a \in {6, 9}, x \in BOOLEAN,
        k \in {0, 9}, f \in Runtimes, g \in Runtimes}
    \cup
    {[len |-> n, base |-> 10, entry |-> 0, headers |-> <<Header(".text", 2, 3, 1, 3, TRUE), Header(".idata", 9, v, 4, r, FALSE)>>,
      dirs |-> (1 :> [rva |-> 9, size |-> 1]) @@ (0 :> [rva |-> 10, size |-> 1]),
      words |-> (4 :> [Import EXCEPT !.name = m]) @@ (5 :> Exports(<<t>>)) @@ (6 :> [kind |-> "thunk"])] :
        n \in 3..8, v \in {2, 5}, r \in {2, 3}, m \in {0, 9, 11, 13}, t \in {0, 2, 9}}

PeParse(file) ==
    LET parsed == I!ParsePe(file)
    IN  IF ~parsed.ok THEN parsed
        ELSE [ok |-> TRUE, pe |-> parsed, ranges |-> I!DisassemblyRanges(parsed.image, parsed.exceptions)]
PeStep == Compute("pe_image", PeParse)

\* Every byte of executable data is disassembled, except what lies more than
\* orphan_cap behind the last runtime function of its section, and no range leaves
\* the data of its section.
CodeIsCovered ==
    Done("pe_image") /\ result.of.ok =>
        LET image == result.of.pe.image
            ranges == result.of.ranges
            Inside(a, r) == r.start <= a /\ a < r.end
        IN  /\ \A r \in ranges : \E i \in DOMAIN image.sections : LET s == image.sections[i] IN
                  s.executable /\ r.section = s.rva /\ s.va <= r.start /\ r.end <= s.va + s.data_size
            /\ \A i \in DOMAIN image.sections : LET s == image.sections[i] IN
                 s.executable => \A a \in s.va..(s.va + s.data_size - 1) :
                    \/ \E r \in ranges : Inside(a, r)
                    \/ /\ a - 2 >= s.va
                       /\ \A b \in (a - 2)..a : \A x \in result.of.pe.exceptions :
                            I!SectionForVa(image, x.begin) = i => ~(x.begin <= b /\ b < x.end)

\* A file that holds the data its headers promise is loaded, and no name its
\* import table points at makes the loader stop.
WholeFileLoads ==
    Done("pe_image") /\ (\A i \in DOMAIN input.headers : input.headers[i].raw_start + input.headers[i].raw_size <= input.len) =>
        result.of.ok /\ \A m \in result.of.pe.imports : m.dll # I!Panic

-----------------------------------------------------------------------------
Region(b, va, size) == [blob |-> b, va |-> va, size |-> size, hash |-> <<b, size>>, executable |-> TRUE]
Disjoint(rs) ==
    \A i, j \in DOMAIN rs : i # j => rs[i].va + rs[i].size <= rs[j].va \/ rs[j].va + rs[j].size <= rs[i].va

SnapshotInputs ==
    {[regions |-> rs, damage |-> d, oeps |-> o] :
        rs \in {q \in {<<Region("b1", u, m), Region("b2", v, n), Region("b3", w, 1)>> :
                          u \in {3, 6}, v \in {4, 9}, w \in {2, 12, 21}, m \in 1..3, n \in 1..3} : Disjoint(q)}
               \cup {<<>>},
        d \in {"none", "size", "hash", "missing"},
        o \in {<<>>, <<[va |-> 4, score |-> 1], [va |-> 9, score |-> 1], [va |-> 6, score |-> 0]>>}}

\* The blobs on disk, the second one damaged.
Disk(x) ==
    [b \in {x.regions[i].blob : i \in DOMAIN x.regions} \ (IF x.damage = "missing" THEN {"b2"} ELSE {}) |->
        LET r == x.regions[CHOOSE i \in DOMAIN x.regions : x.regions[i].blob = b]
        IN  [size |-> IF b = "b2" /\ x.damage = "size" THEN r.size + 1 ELSE r.size,
             hash |-> IF b = "b2" /\ x.damage = "hash" THEN <<>> ELSE r.hash]]

LoadSnapshot(x) == I!FromSnapshot(x.regions, Disk(x), x.oeps)
SnapshotStep == Compute("snapshot_image", LoadSnapshot)

\* pe.rs:2452-2493: an address of the process is found in the section of its
\* region, at the byte of that region's blob, as long as the regions lie
\* within 4 GiB of the lowest; a damaged snapshot is refused.
SnapshotIsFaithful ==
    Done("snapshot_image") =>
        /\ result.of.ok <=> input.regions # <<>> /\ input.damage = "none"
        /\ result.of.ok =>
             LET image == result.of.image
                 BlobStart(b) == LET k == CHOOSE i \in DOMAIN image.blobs : image.blobs[i] = b
                                     sizes == [i \in 1..(k - 1) |-> (CHOOSE j \in DOMAIN input.regions : input.regions[j].blob = image.blobs[i])]
                                 IN  MapThenSumSet(LAMBDA i : input.regions[sizes[i]].size, 1..(k - 1))
             IN  (\A i \in DOMAIN input.regions : input.regions[i].va + input.regions[i].size - image.base < 16) =>
                   \A i \in DOMAIN input.regions : LET r == input.regions[i] IN
                     \A a \in r.va..(r.va + r.size - 1) :
                        /\ I!SectionForVa(image, a) # 0
                        /\ image.sections[I!SectionForVa(image, a)].name = r.blob
                        /\ I!RvaToFileOffset(image, a - image.base) = BlobStart(r.blob) + (a - r.va)

-----------------------------------------------------------------------------
(* An ELF or Mach-O file of a loaded section, a section with no address and a *)
(* second loaded one, over every content of the first five bytes.             *)

ObjectFile(magic, arch, symbols, second) ==
    [magic |-> magic, arch |-> arch, entry |-> 20, len |-> 11, exported |-> <<[name |-> "f", va |-> 20]>>, symbols |-> symbols,
     sections |-> <<[name |-> ".text", address |-> 20, size |-> 5, offset |-> 0, length |-> 5, kind |-> "Text"],
                    [name |-> ".comment", address |-> 0, size |-> 2, offset |-> 5, length |-> 2, kind |-> "Other"],
                    [name |-> ".data", address |-> second, size |-> 4, offset |-> 7, length |-> 4, kind |-> "Data"]>>]
Symbols ==
    {<<>>, <<[name |-> "f", address |-> 31, kind |-> "Text", defined |-> TRUE],
             [name |-> "g", address |-> 22, kind |-> "Data", defined |-> TRUE],
             [name |-> "h", address |-> 23, kind |-> "Text", defined |-> FALSE]>>}

ObjectInputs ==
    {[file |-> ObjectFile(x[1], x[2], x[3], x[4]), bytes |-> d \o <<"p", "p">> \o t, max |-> m] :
        x \in {"7fELF", "CFFAEDFE", "none"} \X {"X86_64"} \X Symbols \X {30}
              \cup {<<"7fELF", "Aarch64", <<>>, 30>>, <<"7fELF", "I386", <<>>, 14>>},
        d \in [1..5 -> {"p", "z", "o"}], t \in {<<"p", "z", "p", "z">>, <<"o", "p", "p", "p">>}, m \in {2, 9}}

ReadObject(x) ==
    LET image == I!AnalyzePath(x.file)
    IN  IF ~image.ok THEN image
        ELSE [ok |-> TRUE, image |-> image,
              strings |-> I!ExtractStrings(image.base, image.sections,
                  [i \in DOMAIN image.sections |->
                      SubSeq(x.bytes, image.sections[i].data.from + 1, image.sections[i].data.to)], x.max)]
ObjectStep == Compute("object_image", ReadObject)

\* A string's address leads back to the section and to the byte it was read
\* from, for every section that is loaded; one that is not (.comment) is given
\* addresses of the first section.
StringsAreWhereTheySay ==
    Done("object_image") /\ result.of.ok =>
        LET image == result.of.image
        IN  \A k \in DOMAIN result.of.strings : LET r == result.of.strings[k] IN
              r.section # ".comment" =>
                LET i == I!ObjectSectionForVa(image, r.va) s == image.sections[i]
                IN  i # 0 /\ s.name = r.section /\ s.raw_start + (r.va - s.va) = r.file_offset

\* No string is lost below the limit: every maximal printable run and every
\* maximal run of units at even offsets is reported, once; at the limit the
\* reported ones are the first.
StringsAreComplete ==
    Done("object_image") /\ result.of.ok =>
        LET image == result.of.image
            rows == result.of.strings
            ByteOf(s, i) == input.bytes[s.raw_start + i]
            Unit(s, i) == i + 1 <= s.data_size /\ ByteOf(s, i) = "p" /\ ByteOf(s, i + 1) = "z"
            Ascii(s) == {<<"ASCII", s.raw_start + b - 1, e - b + 1>> : <<b, e>> \in
                {q \in (1..s.data_size) \X (1..s.data_size) :
                    /\ q[2] - q[1] + 1 >= 2 /\ \A i \in q[1]..q[2] : ByteOf(s, i) = "p"
                    /\ q[1] > 1 => ByteOf(s, q[1] - 1) # "p"
                    /\ q[2] < s.data_size => ByteOf(s, q[2] + 1) # "p"}}
            Wide(s) == {<<"UTF-16LE", s.raw_start + b - 1, 2 * n>> : <<b, n>> \in
                {q \in (1..s.data_size) \X (2..s.data_size) :
                    /\ q[1] % 2 = 1 /\ \A k \in 0..(q[2] - 1) : Unit(s, q[1] + 2 * k)
                    /\ ~Unit(s, q[1] + 2 * q[2]) /\ q[1] > 2 => ~Unit(s, q[1] - 2)}}
            all == UNION {Ascii(image.sections[i]) \cup Wide(image.sections[i]) : i \in DOMAIN image.sections}
            reported == {<<rows[k].encoding, rows[k].file_offset, rows[k].size>> : k \in DOMAIN rows}
        IN  /\ reported \subseteq all
            /\ Len(rows) = Min({input.max, Cardinality(all)})
            /\ Cardinality(reported) = Len(rows)

-----------------------------------------------------------------------------
(* PE images with none, one or two identities and a PDB that may fail at any   *)
(* item, ELF images whose second unit may be broken, Mach-O images; and every  *)
(* short byte string with signatures in it.                                    *)

\* Two paths that the file-name cleaning makes equal, and the others.
SafeName == [p \in {"a/b", "a_b", "c", "m"} |-> IF p = "a/b" THEN "a_b" ELSE p]
D == INSTANCE DebugSymbols WITH Safe <- SafeName, MaxModules <- 2, MaxUnits <- 2, MaxDies <- 3,
                                MaxFrames <- 2, MaxProbes <- 2

PdbItems ==
    <<[ev |-> "public", name |-> "p", rva |-> 0, code |-> TRUE],
      [ev |-> "proc", name |-> "p", rva |-> 0, len |-> 4, program |-> TRUE],
      [ev |-> "line", rva |-> 0, file |-> "a/b"],
      [ev |-> "line", rva |-> 2, file |-> "a_b"],
      [ev |-> "proc", name |-> "q", rva |-> -1, len |-> 4, program |-> TRUE],
      [ev |-> "line", rva |-> 4, file |-> "c"],
      [ev |-> "proc", name |-> "r", rva |-> 8, len |-> 0, program |-> FALSE],
      [ev |-> "line", rva |-> 8, file |-> "c"]>>
Pdbs ==
    {[items |-> SubSeq(PdbItems, 1, n) \o e, ms |-> [opens |-> o, modules |-> m, tpi |-> t, ipi |-> t]] :
        n \in 0..Len(PdbItems), e \in {<<>>, <<[ev |-> "error"]>>}, o \in BOOLEAN,
        m \in {<<>>, <<"m", "", "c">>}, t \in {0, 2}}

ObjectSymbols ==
    {<<>>, <<[name |-> "p", address |-> 20, size |-> 4, kind |-> "Text", defined |-> TRUE],
             [name |-> "p", address |-> 20, size |-> 4, kind |-> "Text", defined |-> TRUE],
             [name |-> "d", address |-> 28, size |-> 0, kind |-> "Data", defined |-> TRUE],
             [name |-> "u", address |-> 26, size |-> 2, kind |-> "Text", defined |-> FALSE]>>}
Units ==
    {SubSeq(<<[broken |-> FALSE,
               rows |-> <<[address |-> 20, line |-> 1, file |-> "a/b", end_sequence |-> FALSE],
                          [address |-> 22, line |-> 2, file |-> "a_b", end_sequence |-> FALSE],
                          [address |-> 24, line |-> -1, file |-> "c", end_sequence |-> FALSE]>>,
               dies |-> SubSeq(<<[tag |-> "subprogram", low |-> 20, high |-> 24, name |-> "p"], [tag |-> "type", low |-> -1, high |-> -1, name |-> ""],
                          [tag |-> t, low |-> 24, high |-> 24, name |-> ""]>>, 1, k)],
              [broken |-> b, rows |-> <<[address |-> 26, line |-> 1, file |-> "c", end_sequence |-> b]>>, dies |-> <<>>],
              [broken |-> FALSE, rows |-> <<[address |-> 28, line |-> 1, file |-> "c", end_sequence |-> FALSE]>>, dies |-> <<>>]>>, 1, n) :
        t \in {"subprogram", "error"}, b \in BOOLEAN, n \in 0..3, k \in 2..3}

Image(format, objectOk, symbols, rsds, units, frames, loader) ==
    [format |-> format, base |-> 20, object_ok |-> objectOk, symbols |-> symbols, rsds |-> rsds,
     sections |-> <<[content |-> "debug"], [content |-> "build_id"], [content |-> "debug"], [content |-> "text"]>>,
     units |-> units, frames |-> frames, loader_ok |-> loader]
Hint(name) == [name |-> name, path |-> name, absolute |-> FALSE]
Functions2 == <<[start |-> 20, end |-> 24], [start |-> 28, end |-> 29], [start |-> 29, end |-> 29]>>
SymbolInput(image, pdbs) ==
    [image |-> image, functions |-> Functions2, mode |-> "on", symbol_paths |-> <<"s">>, parent |-> "d", pdbs |-> pdbs]

PeSymbolInputs ==
    {SymbolInput(Image("Pe", o, s, r, <<>>, <<>>, TRUE), [q \in {<<"d", "p1">>, <<"s", "p1">>} |-> pdb]) :
        o \in BOOLEAN, s \in ObjectSymbols, r \in {<<>>, <<Hint("p1")>>, <<Hint("p2"), Hint("p1")>>}, pdb \in Pdbs}
ElfSymbolInputs ==
    {SymbolInput(Image("Elf", o, s, <<>>, u, [a \in {0} |-> f], l), <<>>) :
        o \in BOOLEAN, s \in ObjectSymbols, u \in Units,
        f \in {<<"a/b", "">>, <<"", "m", "c">>, <<"m", "error">>}, l \in BOOLEAN}
DebugSymbolInputs ==
    PeSymbolInputs \cup ElfSymbolInputs
    \cup {SymbolInput(Image("MachO", TRUE, s, <<>>, <<>>, <<>>, TRUE), <<>>) : s \in ObjectSymbols}

DebugSymbolsStep == Compute("debug_symbols", D!BuildDebugSymbols)

\* Every line and every inline frame refers to a source file the output has, and
\* a line's file is the one the debug information named for that address, even
\* when two paths become the same file name.  (With two PDBs of one image ids are
\* given out twice: at most one is found here.)
LinesNameTheirFiles ==
    Done("debug_symbols") =>
        LET out == result.of
            Paths(id) == {out.source_files[i].path : i \in {j \in DOMAIN out.source_files : out.source_files[j].id = id}}
            Named(rva) == (IF input.image.format = "Pe"
                           THEN {PdbItems[i].file : i \in {j \in DOMAIN PdbItems : PdbItems[j].ev = "line" /\ PdbItems[j].rva = rva}}
                           ELSE UNION {{u.rows[i].file : i \in {j \in DOMAIN u.rows : u.rows[j].address = 20 + rva}} :
                                       u \in {input.image.units[k] : k \in DOMAIN input.image.units}})
        IN  /\ \A i \in DOMAIN out.line_entries : LET l == out.line_entries[i] IN
                 Cardinality(Paths(l.file_id)) = 1 /\ Paths(l.file_id) \subseteq Named(l.start)
            /\ \A i \in DOMAIN out.inline_scopes : LET f == out.inline_scopes[i].call_file_id IN
                 f = <<>> \/ Cardinality(Paths(f)) = 1

\* No provider fails in silence: one that was asked and left no row of its own
\* has left an uncertainty, and one that met an error has said PARSE_ERROR, also
\* when it had pushed rows before.
ProvidersAnswer ==
    Done("debug_symbols") =>
        LET out == result.of
            Rows(p) == {i \in DOMAIN out.symbols : out.symbols[i].provider = p} # {}
                       \/ {i \in DOMAIN out.source_files : out.source_files[i].provider = p} # {}
                       \/ {i \in DOMAIN out.debug_types : out.debug_types[i].provider = p} # {}
            Said(p) == {out.uncertainties[i].code : i \in {j \in DOMAIN out.uncertainties : out.uncertainties[j].provider = p}}
            found == \E i \in DOMAIN out.identities : out.identities[i].found
            asked == CASE input.image.format = "Pe" -> {"pdb"} \cup (IF found THEN {"ms-pdb"} ELSE {})
                       [] OTHER -> {"dwarf"}
            erred == CASE input.image.format = "Pe" ->
                            found /\ \E p \in DOMAIN input.pdbs : \E i \in DOMAIN input.pdbs[p].items : input.pdbs[p].items[i].ev = "error"
                       [] input.image.format = "Elf" -> ~input.image.object_ok
                       [] OTHER -> FALSE
        IN  /\ \A p \in asked : Rows(p) \/ Said(p) # {}
            /\ erred => "PARSE_ERROR" \in Said(IF input.image.format = "Pe" THEN "pdb" ELSE "dwarf")
            /\ ~input.image.object_ok => Said("object") # {}

\* Every recovered function has a symbol of exactly its range, whatever the debug
\* information says of its start; no symbol is listed twice and they are in
\* address order.
FunctionsKeepTheirRange ==
    Done("debug_symbols") =>
        LET syms == result.of.symbols
        IN  /\ \A k \in DOMAIN input.functions : \E i \in DOMAIN syms :
                 /\ syms[i].start = input.functions[k].start - 20
                 /\ syms[i].end = Max({input.functions[k].end - 20, syms[i].start + 1})
            /\ \A i, j \in DOMAIN syms : i < j =>
                 /\ syms[i].start <= syms[j].start
                 /\ <<syms[i].start, syms[i].end>> = <<syms[j].start, syms[j].end>> =>
                        syms[i].provider # syms[j].provider \/ syms[i].name # syms[j].name

-----------------------------------------------------------------------------
RsdsInputs == UNION {[1..n -> {"S", "0", "c"}] : n \in 0..8}
RsdsStep == Compute("rsds", LAMBDA bytes : D!ParseRsdsRecords(bytes, 1))

\* Every CodeView signature is the start of a reported record, is inside a record
\* (reported or with no path), or is too near the end for one; records do not
\* overlap.
RsdsRecordsAreFound ==
    Done("rsds") =>
        LET found == result.of
            starts == {found[i].offset : i \in DOMAIN found}
            End(r) == r.offset + 1 + Len(r.path) + 1
            Empty(o) == o + 2 <= Len(input) /\ input[o + 2] = "0"
        IN  /\ \A i \in DOMAIN found : input[found[i].offset] = "S" /\ found[i].path # <<>>
            /\ \A i \in 1..(Len(found) - 1) : found[i + 1].offset > End(found[i])
            /\ \A o \in DOMAIN input : input[o] = "S" =>
                 \/ o \in starts \/ o + 2 > Len(input)
                 \/ \E i \in DOMAIN found : found[i].offset < o /\ o <= End(found[i])
                 \/ Empty(o) \/ (o > 1 /\ input[o - 1] = "S" /\ Empty(o - 1))

\* Notes written as the format says, then cut.
NoteBytes(n) ==
    LET pad(k) == [i \in 1..(D!Align(2, k) - k) |-> 0]
    IN  <<n.namesz, n.descsz, n.type>> \o [i \in 1..n.namesz |-> 7] \o pad(n.namesz)
        \o [i \in 1..n.descsz |-> 8] \o pad(n.descsz)
NoteInputs ==
    {[notes |-> ns, cut |-> c] : ns \in [1..2 -> [namesz : 0..2, descsz : 0..3, type : {1, 3}]], c \in {0, 1, 2}}
NoteData(x) == LET all == NoteBytes(x.notes[1]) \o NoteBytes(x.notes[2]) IN SubSeq(all, 1, Len(all) - x.cut)
NotesStep == Compute("build_id", LAMBDA x : D!ParseGnuBuildId(NoteData(x), 2))

\* The build id is that of the first note that has one, whatever the lengths of
\* the notes before it; a note cut short gives none.
BuildIdIsFirst ==
    Done("build_id") =>
        LET good(n) == n.type = 3 /\ n.namesz > 0 /\ n.descsz > 0
            pads(n) == D!Align(2, n.descsz) - n.descsz
            want == {k \in 1..2 : good(input.notes[k])}
            whole(k) == k = 1 \/ pads(input.notes[2]) >= input.cut
        IN  Len(NoteBytes(input.notes[2])) > input.cut =>
              result.of = IF want # {} /\ whole(Min(want)) THEN [i \in 1..input.notes[Min(want)].descsz |-> 8] ELSE <<>>

-----------------------------------------------------------------------------
\* What the loaders hand to the passes is what the file, or the memory it was
\* taken from, holds: code, strings, snapshot, and the symbols of each provider.
ImagesAreFaithful ==
    /\ CodeIsCovered /\ WholeFileLoads /\ SnapshotIsFaithful
    /\ StringsAreWhereTheySay /\ StringsAreComplete
    /\ LinesNameTheirFiles /\ ProvidersAnswer /\ FunctionsKeepTheirRange
    /\ RsdsRecordsAreFound /\ BuildIdIsFirst
=============================================================================
