----------------------------- MODULE MCServing ------------------------------
(***************************************************************************)
(* Values for the constants of Serving: every list of up to two backends   *)
(* of six kinds, with an allow-list for some, and lists of three where     *)
(* kinds repeat; engines whose window is below or beyond 2^32 (8 here).    *)
(***************************************************************************)
EXTENDS Serving

CONSTANTS m1, m2, free

Entry(kind, allow) == [kind |-> kind, allow |-> allow]
Open    == {Entry(kind, Models) : kind \in Kinds}
Limited == {Entry("vllm", {m1, free}), Entry("openrouter", {m1, free})}
Triples == {Entry("vllm", Models), Entry("ollama", Models),
            Entry("openrouter", {m1, free})}

MCConfigs == UNION {[1..n -> Open \cup Limited] : n \in 0..2} \cup [1..3 -> Triples]

MCListings == {{m1}, {m2, free}, Models}

MCMachines == {[limit |-> 4, trained |-> 6, loaded |-> "yes"],
               [limit |-> 4, trained |-> 6, loaded |-> "no"],
               [limit |-> 4, trained |-> 6, loaded |-> "null"],
               [limit |-> 9, trained |-> 9, loaded |-> "yes"]}
=============================================================================
