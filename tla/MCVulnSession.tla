--------------------------- MODULE MCVulnSession ---------------------------
(* Two runs over one directory.  The second program has fewer chains, in     *)
(* another order, so that an id of the first run means another chain.        *)
EXTENDS VulnSession

MCContained(api) ==
    CASE api = "memcpy" -> {"memcpy"} [] api = "vfprintf" -> {"printf"} [] OTHER -> {}

C(id, t, site, function, mode, source) ==
    [id |-> id, template |-> t, source |-> source, from |-> 10, function |-> function, site |-> site, mode |-> mode,
     api |-> IF t = "unchecked_copy_length" THEN "memcpy" ELSE IF t \in Lifetime THEN "free" ELSE "vfprintf",
     hops |-> IF mode = "Exact" THEN 0 ELSE 2, guards |-> IF site = 1 THEN 0 ELSE 1]

MCPrograms == <<
    <<C("C-1", "unchecked_copy_length", 1, 10, "Exact", "network_recv"),
      C("C-2", "format_string_controlled", 2, 20, "Summary", "network_recv"),
      C("C-3", "format_string_controlled", 2, 20, "Summary", "argv")>>,
    <<C("C-1", "format_string_controlled", 2, 20, "Exact", "argv"),
      C("C-2", "unchecked_copy_length", 1, 10, "Summary", "network_recv")>> >>

MCLifetimeChains == <<
    <<C("L-UAF-1", "uaf_candidate", 1, 10, "Exact", "free")>>,
    <<C("L-DF-1", "double_free_candidate", 2, 20, "Exact", "free")>> >>

Opt(v, l, s, f, t) == [v1_1 |-> v, lifetime |-> l, selector |-> s, fixture |-> f, templates |-> t, threshold |-> 45]
MCOptions == {
    Opt(FALSE, FALSE, "off", FALSE, V1Templates),
    Opt(FALSE, FALSE, "off", FALSE, {"unchecked_copy_length"}),
    Opt(TRUE, TRUE, "off", TRUE, V1Templates),
    Opt(TRUE, FALSE, "fuzz", TRUE, V1Templates),
    Opt(TRUE, TRUE, "all", FALSE, {"format_string_controlled"}) }

MCObservations ==
    {[kind |-> "crash", fault |-> f, frames |-> {2}] : f \in {0, 1}} \cup
    {[kind |-> "trace", expected |-> "image", process |-> "image",
      refs |-> {[kind |-> "DebugRecord"], [kind |-> "Range", start |-> 10, end |-> 20]}],
     [kind |-> "trace", expected |-> "image", process |-> "other", refs |-> {[kind |-> "RawAddr", va |-> 20]}],
     [kind |-> "solve", label |-> "q", status |-> "Sat", model_bytes |-> 1],
     [kind |-> "solve", label |-> "q", status |-> "Unsat", model_bytes |-> 0],
     [kind |-> "quiet"]}
=============================================================================
