--------------------------- MODULE MCOrchestrator ---------------------------
(* Orchestrator on small instances. *)
EXTENDS Orchestrator, TLC

Entry(restart, max, health, retries, deps) ==
    [restart |-> restart, max |-> max, health |-> health, retries |-> retries,
     deps |-> deps]

(* No service, a watched service that is always to run, alone and with      *)
(* another one that depends on it (twice); some values are out of range.    *)
(* Three services that are started once and a fourth one too many, which    *)
(* nobody or the first one depends on.                                      *)
Watched == Entry("always", -1, TRUE, 0, <<>>)
Once(deps) == Entry("no", 0, FALSE, 0, deps)
SmallSpecs ==
    {<<>>, <<Watched>>, <<Entry("on-failure", 1, FALSE, 3, <<2, 2>>), Watched>>,
     <<Once(<<2>>), Once(<<>>), Once(<<1>>), Watched>>,
     <<Once(<<4>>), Once(<<>>), Once(<<>>), Watched>>}

(* A service that keeps failing. *)
OneSpec == {<<Entry("always", 0, FALSE, 0, <<>>)>>}

(* Up to two dependencies of each of three services; 0 is an unknown name. *)
AllGraphs == {<<>>} \cup [1 .. 3 -> UNION {[1 .. n -> 0 .. 3] : n \in 0 .. 2}]
NoGraphs  == {}
=============================================================================
