--------------------------- MODULE TraceAnalysis ---------------------------
(* What the tracer makes of the records of the operating system.             *)
EXTENDS Integers, Sequences, FiniteSets, SequencesExt, FiniteSetsExt, Functions, TLC

-----------------------------------------------------------------------------
(* The normaliser of the tracer (dynamic_trace/normalize.rs, event.rs): raw   *)
(* records of the six ETW providers, or JSON values, become numbered trace    *)
(* events; the collector's callback sends them on if the channel has room.    *)
(*                                                                            *)
(* A raw record is [provider, pid, tid, raw, opcode, fields, schema], its     *)
(* fields a function from the names that parse to their values ("" for an     *)
(* empty text), schema whether the lookup of its schema succeeds.             *)

CONSTANTS
    EpochTicks,   \* FILETIME_TO_UNIX_TICKS
    TickNs,       \* nanoseconds of a tick (100)
    MaxTime,      \* u64::MAX
    PidSize       \* the values of a u32

None == <<>>
Some(x) == <<x>>

-----------------------------------------------------------------------------
(* Entities and event types.                                                  *)

\* The identity of a process is its number (the start time is left empty).
Process(pid, image) == [kind |-> "process", id |-> <<"proc", pid>>, name |-> image]
Entity(kind, text) == [kind |-> kind, id |-> <<kind, text>>, name |-> text]

\* dotted_to_event_type and as_dotted: an event type is its dotted name, given
\* here as area and verb.
DottedTypes ==
    {<<"process", "start">>, <<"process", "exit">>, <<"thread", "start">>, <<"thread", "exit">>,
     <<"image", "load">>, <<"image", "unload">>, <<"dns", "query">>, <<"dns", "response">>} \cup
    ({"file"} \X {"open", "read", "write", "delete", "rename"}) \cup
    ({"registry"} \X {"read", "write", "delete"}) \cup
    ({"network"} \X {"connect", "accept", "send", "recv", "disconnect"})
DottedToEventType(s) == IF s \in DottedTypes THEN Some(s) ELSE None

FileTypes ==
    32 :> "open" @@ 64 :> "open" @@ 36 :> "read" @@ 37 :> "write" @@ 65 :> "delete" @@ 71 :> "rename"
RegistryTypes ==
    10 :> "read" @@ 11 :> "read" @@ 14 :> "write" @@ 12 :> "delete" @@ 15 :> "delete" @@ 16 :> "read"
NetworkTypes == [op \in {10, 11, 12, 13, 15} |-> <<"send", "recv", "connect", "disconnect", "", "accept">>[op - 9]]
ProcessTypes == 1 :> "start" @@ 3 :> "start" @@ 2 :> "exit" @@ 4 :> "exit"
ImageTypes == 10 :> "load" @@ 3 :> "load" @@ 2 :> "unload" @@ 4 :> "unload"

-----------------------------------------------------------------------------
(* The parsers.  Each gives nothing, or what the event says.                  *)

\* The first of the names that parses, empty or not; "" if none does.
FirstField(fields, names) ==
    LET there == SelectSeq(names, LAMBDA n : n \in DOMAIN fields)
    IN  IF there = <<>> THEN "" ELSE fields[Head(there)]
Kept(fields, names) == [n \in names \cap DOMAIN fields |-> fields[n]]
Parsed(area, verb, image, object, args) ==
    Some([type |-> <<area, verb>>, image |-> image, object |-> object, args |-> args])

ParseFileEvent(r) ==
    LET path == FirstField(r.fields, <<"OpenPath", "FileName", "FilePath">>)
    IN  IF r.opcode \notin DOMAIN FileTypes \/ path = "" THEN None
        ELSE Parsed("file", FileTypes[r.opcode], "", Some(Entity("file", path)), Kept(r.fields, {"IoSize"}))

\* A record without a key name is filed under its value name.
ParseRegistryEvent(r) ==
    LET key == FirstField(r.fields, <<"KeyName", "ValueName">>)
    IN  IF r.opcode \notin DOMAIN RegistryTypes \/ key = "" THEN None
        ELSE Parsed("registry", RegistryTypes[r.opcode], "", Some(Entity("registry", key)),
                    Kept([n \in {m \in DOMAIN r.fields : r.fields[m] # ""} |-> r.fields[n]], {"ValueName"}))

ParseNetworkEvent(r) ==
    IF r.opcode \notin DOMAIN NetworkTypes THEN None
    ELSE Parsed("network", NetworkTypes[r.opcode], "",
                Some(Entity("socket", <<FirstField(r.fields, <<"saddr">>), FirstField(r.fields, <<"daddr">>)>>)),
                Kept(r.fields, {"size"}))

ParseDnsEvent(r) ==
    LET qname == FirstField(r.fields, <<"QueryName", "DnsServer">>)
    IN  IF qname = "" THEN None ELSE Parsed("dns", "query", "", Some(Entity("dns", qname)), <<>>)

ParseProcessEvent(r) ==
    IF r.opcode \notin DOMAIN ProcessTypes THEN None
    ELSE LET image == FirstField(r.fields, <<"ImageFileName", "ImageName">>)
             args == Kept(r.fields, {"CommandLine"}) @@ (IF image = "" THEN <<>> ELSE "image" :> image)
         IN  Parsed("process", ProcessTypes[r.opcode], image, None, args)

ParseImageLoadEvent(r) ==
    LET image == FirstField(r.fields, <<"FileName", "ImageFileName">>)
    IN  IF r.opcode \notin DOMAIN ImageTypes \/ image = "" THEN None
        ELSE Parsed("image", ImageTypes[r.opcode], "", Some(Entity("module", image)),
                    Kept(r.fields, {"ImageBase", "ImageSize"}))

ParseEvent(r) ==
    CASE r.provider = "file" -> ParseFileEvent(r)
      [] r.provider = "registry" -> ParseRegistryEvent(r)
      [] r.provider = "network" -> ParseNetworkEvent(r)
      [] r.provider = "dns" -> ParseDnsEvent(r)
      [] r.provider = "process" -> ParseProcessEvent(r)
      [] r.provider = "image" -> ParseImageLoadEvent(r)

\* Times before 1970 are 0, times past the range stay at its end.
EtwTsToNs(raw) ==
    LET ns == (raw - EpochTicks) * TickNs IN IF raw < EpochTicks THEN 0 ELSE IF ns > MaxTime THEN MaxTime ELSE ns

-----------------------------------------------------------------------------
(* The contexts [run_id, filter] of the providers share one counter of event  *)
(* ids, which starts at 0.                                                    *)

NewEvent(counter, ctx, ts, pid, tid, p) ==
    [event_id |-> counter + 1, run_id |-> ctx.run_id, ts_ns |-> ts, pid |-> pid, tid |-> tid, type |-> p.type, operation |-> p.type,
     subject |-> Process(pid, p.image), object |-> p.object, args |-> p.args]

\* Mutant: the id is taken before the record is parsed.
NormalizeEtwCountsFirst(counter, r, ctx) ==
    LET p == ParseEvent(r)
    IN  IF ~r.schema \/ (ctx.filter # None /\ r.pid # ctx.filter[1]) THEN [counter |-> counter, event |-> None]
        ELSE [counter |-> counter + 1,
              event |-> IF p = None THEN None ELSE Some(NewEvent(counter, ctx, EtwTsToNs(r.raw), r.pid, r.tid, p[1]))]
\* A record without a schema, one of another process, or one that says nothing
\* takes no id; nobody counts it.
NormalizeEtw(counter, r, ctx) ==
    LET p == ParseEvent(r)
    IN  IF ~r.schema \/ (ctx.filter # None /\ r.pid # ctx.filter[1]) \/ p = None THEN [counter |-> counter, event |-> None]
        ELSE [counter |-> counter + 1, event |-> Some(NewEvent(counter, ctx, EtwTsToNs(r.raw), r.pid, r.tid, p[1]))]

\* A value with the tracer's own schema is taken as it is, id and all; any
\* other needs a type, a process, a time and a subject.
NormalizeJsonl(counter, v, ctx) ==
    IF v.own # None THEN [counter |-> counter, event |-> IF v.parses THEN v.own ELSE None]
    ELSE IF DottedToEventType(v.type) = None \/ v.pid = None \/ v.ts = None \/ v.subject = None
         THEN [counter |-> counter, event |-> None]
         ELSE [counter |-> counter + 1,
               event |-> Some([event_id |-> counter + 1, run_id |-> ctx.run_id, ts_ns |-> v.ts[1], pid |-> v.pid[1] % PidSize, tid |-> v.tid,
                               type |-> v.type, operation |-> v.type, subject |-> v.subject[1], object |-> v.object,
                               args |-> v.args])]

\* The callback of the collector: an event for which the channel has no room
\* is dropped and counted.
Callback(t, r, ctx, full) ==
    LET n == NormalizeEtw(t.counter, r, ctx)
    IN  IF n.event = None THEN [t EXCEPT !.counter = n.counter]
        ELSE IF full THEN [t EXCEPT !.counter = n.counter, !.drops = @ + 1]
        ELSE [t EXCEPT !.counter = n.counter, !.events = Append(@, n.event[1])]
Collect(records, ctx, full) ==
    LET seen[n \in 0..Len(records)] ==
            IF n = 0 THEN [counter |-> 0, drops |-> 0, events |-> <<>>]
            ELSE Callback(seen[n - 1], records[n], ctx, n \in full)
    IN  seen[Len(records)]

\* The session has received n of the events when its loop ends, at the deadline,
\* by Ctrl-C or at the exit of the target: the rest stays in the channel, and
\* nobody counts it.
Drain(t, n) == [t EXCEPT !.events = SubSeq(@, 1, n)]

\* What the collector has to make of the records: an event for each that is
\* heard and found room, in their order; the ids grow with them, and exactly as
\* many are missing as were dropped.
Heard(r, ctx) == r.schema /\ (ctx.filter = None \/ r.pid = ctx.filter[1]) /\ ParseEvent(r) # None
Tells(ev, r, ctx) == ev = NewEvent(ev.event_id - 1, ctx, EtwTsToNs(r.raw), r.pid, r.tid, ParseEvent(r)[1])
CollectedTruly(t, records, ctx, full) ==
    LET heard == {i \in DOMAIN records : Heard(records[i], ctx)}
        kept == heard \ full
    IN  /\ t.counter = Cardinality(heard) /\ t.counter = Len(t.events) + t.drops
        /\ \A k \in DOMAIN t.events : t.events[k].event_id \in 1..t.counter
        /\ \E at \in [DOMAIN t.events -> kept] :
            /\ \A i \in kept : \E k \in DOMAIN t.events : at[k] = i
            /\ \A k \in DOMAIN t.events : Tells(t.events[k], records[at[k]], ctx)
            /\ \A j, k \in DOMAIN t.events :
                j < k => at[j] < at[k] /\ t.events[j].event_id < t.events[k].event_id

-----------------------------------------------------------------------------
(* What the tracer makes of its events: behaviour facts (behavior_facts.rs),  *)
(* the entity graph and the evidence pack (llm_pack.rs), and the event store  *)
(* (store.rs).  Scores are in hundredths.                                     *)

CONSTANTS
    HasPattern(_, _),    \* whether a text contains a pattern, in any case
    ServiceName(_),    \* the service a registry text is about
    DiscoveryTool(_),  \* whether the file name of an image is one of the tools
    EvidenceCap,       \* the events that stand for exfiltration (8)
    RefCap,            \* the events an edge of the graph names (32)
    StoreRefCap,       \* the events an edge of the store names (128)
    TopCap             \* the events and facts the pack lists (10)

MinOf(a, b) == IF a < b THEN a ELSE b
Take(s, n) == SubSeq(s, 1, MinOf(Len(s), n))
Ids(events) == [i \in DOMAIN events |-> events[i].event_id]

-----------------------------------------------------------------------------
(* Facts.  A detector gives the events that make its claim.                   *)

Object(ev, type, pattern) == ev.type = type /\ ev.object # <<>> /\ HasPattern(ev.object[1].name, pattern)

PersistenceHits(events) ==
    SelectSeq(events, LAMBDA ev : Object(ev, <<"registry", "write">>, "run_key") \/ Object(ev, <<"file", "write">>, "tasks"))
DefenseEvasionHits(events) == SelectSeq(events, LAMBDA ev : Object(ev, <<"registry", "write">>, "defender"))
TempWrites(events) == SelectSeq(events, LAMBDA ev : Object(ev, <<"file", "write">>, "temp"))
OutboundTypes == {<<"network", "send">>, <<"network", "connect">>}
NetworkSends(events) == SelectSeq(events, LAMBDA ev : ev.type \in OutboundTypes)
\* Writes come first: the sends are named as far as the cap leaves room.
ExfilHits(events) ==
    IF TempWrites(events) = <<>> \/ NetworkSends(events) = <<>> THEN <<>>
    ELSE Take(TempWrites(events) \o NetworkSends(events), EvidenceCap)
ProcessImage(ev) == IF "image" \in DOMAIN ev.args THEN ev.args.image ELSE ""
DiscoveryHits(events) ==
    SelectSeq(events, LAMBDA ev : ev.type = <<"process", "start">> /\ DiscoveryTool(ProcessImage(ev)))
\* One event for each service.
ServiceHits(events) ==
    LET writes == SelectSeq(events, LAMBDA ev : Object(ev, <<"registry", "write">>, "services") /\
                                                Object(ev, <<"registry", "write">>, "imagepath"))
        fresh(i) == \A j \in 1..(i - 1) : ServiceName(writes[j].object[1].name) # ServiceName(writes[i].object[1].name)
    IN  FoldLeftDomain(LAMBDA hits, i : IF fresh(i) THEN Append(hits, writes[i]) ELSE hits, <<>>, writes)
BrowserHits(events) ==
    SelectSeq(events, LAMBDA ev : Object(ev, <<"file", "read">>, "browser") \/ Object(ev, <<"file", "open">>, "browser"))

ScoreFromHits(base, hits) == MinOf(base + 4 * MinOf(hits, 4), 96)
ConfidenceBand(score) == CASE score >= 85 -> "high" [] score >= 60 -> "medium" [] score >= 35 -> "low" [] OTHER -> "unknown"

\* Every fact says so when events were dropped.
BuildFact(id, category, base, hits, dropped) ==
    [fact_id |-> id, category |-> category, score |-> ScoreFromHits(base, Len(hits)),
     band |-> ConfidenceBand(ScoreFromHits(base, Len(hits))), evidence |-> Ids(hits), uncertain |-> dropped > 0]
ExtractFacts(events, dropped) ==
    LET detectors == <<<<"persistence", 72, PersistenceHits(events)>>, <<"defense_evasion", 82, DefenseEvasionHits(events)>>,
                       <<"exfil_staging", 55, ExfilHits(events)>>, <<"discovery", 78, DiscoveryHits(events)>>,
                       <<"service_creation", 86, ServiceHits(events)>>, <<"browser_credential_access", 88, BrowserHits(events)>>>>
        found == SelectSeq(detectors, LAMBDA d : d[3] # <<>>)
    IN  [i \in DOMAIN found |-> BuildFact(i, found[i][1], found[i][2], found[i][3], dropped)]

-----------------------------------------------------------------------------
(* The entity graph.                                                          *)

EdgeKey(ev) == <<ev.subject.id, ev.object[1].id, ev.operation>>
GraphNodes(events) ==
    UNION {{events[i].subject.id} \cup (IF events[i].object = <<>> THEN {} ELSE {events[i].object[1].id}) : i \in DOMAIN events}
NewEdge(ev) == [first |-> ev.ts_ns, last |-> ev.ts_ns, count |-> 0, refs |-> <<>>]
AddToEdge(e, ev) ==
    [first |-> MinOf(e.first, ev.ts_ns), last |-> IF e.last < ev.ts_ns THEN ev.ts_ns ELSE e.last,
     count |-> e.count + 1, refs |-> Take(Append(e.refs, ev.event_id), RefCap)]
GraphEdges(events) ==
    LET linked == SelectSeq(events, LAMBDA ev : ev.object # <<>>)
        Of(key) == SelectSeq(linked, LAMBDA ev : EdgeKey(ev) = key)
    IN  [key \in {EdgeKey(linked[i]) : i \in DOMAIN linked} |->
            FoldLeft(AddToEdge, NewEdge(Of(key)[1]), Of(key))]

-----------------------------------------------------------------------------
(* The evidence pack.                                                         *)

\* What is said of the network: that nothing was seen is only said when
\* nothing was lost.
NetworkSentence(sends, dropped) ==
    IF sends > 0 THEN "active" ELSE IF dropped = 0 THEN "none observed" ELSE "insufficient"
\* Of facts with one score the last counts.
HighestFact(facts) ==
    IF facts = <<>> THEN "" ELSE facts[Max({i \in DOMAIN facts : \A j \in DOMAIN facts : facts[j].score <= facts[i].score})].category
BuildSummary(events, facts, dropped) ==
    [network |-> NetworkSentence(Cardinality({i \in DOMAIN events : events[i].type \in OutboundTypes}), dropped),
     highest |-> HighestFact(facts)]
\* That nothing was observed is said only when every record of a connection or of
\* data sent either had no schema, or has its event among those left in the channel:
\* its place among the events is past the taken ones.  No event that the channel had
\* no room for is passed over.
Outbound(r, ctx) == r.provider = "network" /\ r.opcode \in {10, 12} /\ (ctx.filter = None \/ r.pid = ctx.filter[1])
SilenceEarned(summary, records, ctx, taken) ==
    summary.network = "none observed" =>
        \A i \in DOMAIN records :
            Outbound(records[i], ctx) /\ records[i].schema => taken < Cardinality({j \in 1..i : Heard(records[j], ctx)})

FactRefs(facts, id) == SumFunction([i \in DOMAIN facts |-> Cardinality({j \in DOMAIN facts[i].evidence : facts[i].evidence[j] = id})])
FirstOfKind(events, i) == \A j \in 1..(i - 1) : events[j].type # events[i].type
Rarity(type) ==
    CASE type \in {<<"process", "start">>, <<"image", "load">>} -> 50
      [] type \in {<<"file", "write">>, <<"file", "read">>} -> 30
      [] OTHER -> 100
RankScore(events, facts, i) ==
    300 * FactRefs(facts, events[i].event_id) + (IF FirstOfKind(events, i) THEN 200 ELSE 0) + Rarity(events[i].type)
\* Both sorts are stable.
RankTopEvents(events, facts) ==
    LET score == [i \in DOMAIN events |-> RankScore(events, facts, i)]
        order == SetToSortSeq(DOMAIN events, LAMBDA i, j : score[i] > score[j] \/ (score[i] = score[j] /\ i < j))
    IN  Take([k \in DOMAIN order |-> events[order[k]].event_id], TopCap)
TopNFacts(facts) ==
    LET order == SetToSortSeq(DOMAIN facts, LAMBDA i, j : facts[i].score > facts[j].score \/ (facts[i].score = facts[j].score /\ i < j))
    IN  Take([k \in DOMAIN order |-> facts[order[k]].fact_id], TopCap)
BuildUncertainties(facts, dropped, missed) ==
    (IF dropped > 0 THEN {"dropped"} ELSE {}) \cup (IF missed THEN {"symbols"} ELSE {}) \cup {"no stacks"} \cup
    (IF \E i \in DOMAIN facts : facts[i].score < 65 THEN {"low confidence"} ELSE {})

\* The union file: the static facts (the session gives none), then these.
FactUnion(static_facts, facts) ==
    [i \in DOMAIN static_facts |-> [source |-> "static", fact_id |-> static_facts[i].fact_id]] \o
    [i \in DOMAIN facts |-> [source |-> "dynamic", fact_id |-> facts[i].fact_id]]
EmitAll(events, dropped) ==
    LET facts == ExtractFacts(events, dropped)
    IN  [facts |-> facts, union |-> FactUnion(<<>>, facts), nodes |-> GraphNodes(events), edges |-> GraphEdges(events),
         summary |-> BuildSummary(events, facts, dropped), top_events |-> RankTopEvents(events, facts),
         top_facts |-> TopNFacts(facts), uncertainties |-> BuildUncertainties(facts, dropped, FALSE)]

-----------------------------------------------------------------------------
(* The store.  The file of an earlier run is opened again as it is; ids start *)
(* over with every run.                                                       *)

EmptyStore == [events |-> <<>>, edges |-> <<>>]
InsertEvent(store, ev) == [store EXCEPT !.events = (ev.event_id :> ev) @@ @]
Latest(s, n) == SubSeq(s, Len(s) - MinOf(Len(s), n) + 1, Len(s))
\* The first time is kept and the last overwritten; the newest events are named.
TouchEdge(old, ev) ==
    [first |-> old.first, last |-> ev.ts_ns, count |-> old.count + 1, refs |-> Latest(Append(old.refs, ev.event_id), StoreRefCap)]
UpsertEdge(store, ev) ==
    LET key == EdgeKey(ev)
        row == IF key \in DOMAIN store.edges THEN TouchEdge(store.edges[key], ev)
               ELSE [first |-> ev.ts_ns, last |-> ev.ts_ns, count |-> 1, refs |-> <<ev.event_id>>]
    IN  [store EXCEPT !.edges = (key :> row) @@ @]
StoreRun(store, events) == FoldLeft(InsertEvent, store, events)
StoreEdges(store, events) == FoldLeft(UpsertEdge, store, SelectSeq(events, LAMBDA ev : ev.object # <<>>))
=============================================================================
