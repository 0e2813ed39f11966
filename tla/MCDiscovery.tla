---------------------------- MODULE MCDiscovery ----------------------------
(***************************************************************************)
(* Values for the constants of Discovery: lists of up to three backends of *)
(* three kinds, one of them remote, each with or without an allow-list.    *)
(***************************************************************************)
EXTENDS Discovery

CONSTANTS m1, m2, free

MCKinds   == {"vllm", "ollama", "openrouter"}
Entries   == [kind : MCKinds, allow : {Models, {m1, free}}]
MCConfigs == UNION {[1..n -> Entries] : n \in 0..3}
=============================================================================
