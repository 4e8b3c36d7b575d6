---------------------------- MODULE Orchestrator ----------------------------
(***************************************************************************)
(* The orchestrator of orchestrator.c: a spec of services with             *)
(* dependencies is checked, started, watched by a monitor thread that runs *)
(* health checks and restarts, and taken down, while the user goes on      *)
(* using the containers by hand.                                           *)
(*                                                                         *)
(* Both threads take g_lock for a moment and make the calls into the       *)
(* container manager without it; every critical section and every such     *)
(* call is one step here.  The manager is reduced to what the orchestrator *)
(* sees of it: a container is listed or not, runs or has stopped with or   *)
(* without an error (its own races are those of ContainerManager and       *)
(* ContainerWeb).  Services are numbered as in the spec and have distinct  *)
(* names.  Time is left out: a check may be due at any tick.               *)
(***************************************************************************)
EXTENDS Integers, Sequences, SequencesExt, FiniteSets

CONSTANTS
    N,          \* ORCH_MAX_SERVICES
    Texts,      \* the specs that are run: what the JSON file says
    Graphs,     \* the dependencies that validate and graph are tried on, as
                \* parsed
    MaxDeps,    \* ORCH_MAX_DEPS
    IntBits,    \* width of int
    MaxStarts,  \* bound: number of containers started in a session
    MaxCmds,    \* bound: number of commands typed in a session
    MaxFails    \* bound: number of failed health checks of a container

ASSUME NAssumption == N \in Nat \ {0}
ASSUME WidthAssumption == IntBits \in Nat /\ IntBits > 1
ASSUME BoundsAssumption == MaxStarts \in Nat /\ MaxCmds \in Nat /\ MaxFails \in Nat
                            /\ MaxDeps \in Nat
ASSUME TextsAssumption ==
    Texts \subseteq Seq([restart : STRING, max : Int, health : BOOLEAN,
                         retries : Int, deps : Seq(Int)])
ASSUME GraphsAssumption ==
    Graphs \subseteq Seq(Seq(Int)) /\ \A deps \in Graphs : Len(deps) <= N

S   == 1 .. N
Ids == 1 .. MaxStarts

VARIABLES
    running,    \* g_running
    conf,       \* g_spec: what was parsed for each service
    sorted,     \* the order of its services
    cid,        \* container_id of each service, 0 when empty
    svc,        \* ServiceState of each service
    count,      \* restart_count
    fails,      \* health_fail_count
    mon,        \* where the monitor thread is, and its work items
    cli,        \* where the command line is
    out,        \* what validate or graph has printed
    box,        \* the manager's containers
    next,       \* next_sequence
    starts,     \* containers started so far
    cmds,       \* commands typed so far
    restarted,  \* history: services the user has restarted
    reused      \* history: was a number handed out again that a service had?

parsed  == <<conf, sorted>>
spec    == <<parsed, cid, svc, count, fails>>
manager == <<box, next, starts>>
history == <<restarted, reused>>
vars    == <<running, spec, mon, cli, out, manager, cmds, history>>

SvcStates == {"PENDING", "RUNNING", "HEALTHY", "UNHEALTHY", "STOPPED",
              "FAILED", "RESTARTING"}

(* A stopped container exited with code 0 ("OK") or another one ("BAD").    *)
(* History: for which service a container was started, 0 if by the user,    *)
(* Hand if the user has started a service's container again; how many       *)
(* health checks of it failed since the last good one.                      *)
Stopped == {"OK", "BAD"}
Hand    == -1
Box     == [st : {"NONE", "RUNNING"} \cup Stopped,
            own : S \cup {0, Hand}, bad : 0 .. MaxFails]
NoBox   == [st |-> "NONE", own |-> 0, bad |-> 0]

WorkItem == [restart : BOOLEAN, idx : S, cid : Ids, backoff : Int]

TypeOK ==
    /\ running \in BOOLEAN
    /\ conf \in Seq([restart : {"always", "on-failure", "never"}, max : Nat,
                       health : BOOLEAN, retries : Nat, deps : Seq(S)])
    /\ sorted \in Seq(S)
    /\ cid \in [S -> 0 .. MaxStarts]
    /\ svc \in [S -> SvcStates]
    /\ count \in [S -> Nat] /\ fails \in [S -> Nat]
    /\ mon.at \in {"none", "sleep", "work", "exec", "checked", "backoff",
                   "delete", "run", "set"}
    /\ mon.work \in SUBSET WorkItem /\ mon.hc \in BOOLEAN /\ mon.new \in 0 .. MaxStarts
    /\ cli.at \in {"prompt", "up", "join", "down", "rstop", "rdelete", "rrun", "rset"}
    /\ cli.todo \in Seq(S) /\ cli.idx \in S /\ cli.id \in 0 .. MaxStarts
    /\ box \in [Ids -> Box]
    /\ next \in 1 .. (MaxStarts + 1) /\ starts \in 0 .. MaxStarts /\ cmds \in 0 .. MaxCmds
    /\ restarted \in SUBSET S /\ reused \in BOOLEAN

NoMonitor == [at |-> "none", work |-> {}, hc |-> FALSE, new |-> 0]
Prompt    == [at |-> "prompt", todo |-> <<>>, idx |-> 1, id |-> 0]

Init ==
    /\ running = FALSE
    /\ conf = <<>> /\ sorted = <<>>
    /\ cid = [s \in S |-> 0] /\ svc = [s \in S |-> "PENDING"]
    /\ count = [s \in S |-> 0] /\ fails = [s \in S |-> 0]
    /\ mon = NoMonitor /\ cli = Prompt /\ out = <<>>
    /\ box = [b \in Ids |-> NoBox] /\ next = 1 /\ starts = 0
    /\ cmds = 0 /\ restarted = {} /\ reused = FALSE

-----------------------------------------------------------------------------
(* orch_parse_spec and orch_validate *)

Clamp(x, lo, hi) == IF x < lo THEN lo ELSE IF x > hi THEN hi ELSE x

(* What is kept of a service's entry; dependencies beyond ORCH_MAX_DEPS are *)
(* dropped.                                                                 *)
parse_service(t) ==
    [restart |-> IF t.restart \in {"always", "on-failure"} THEN t.restart ELSE "never",
     max     |-> Clamp(t.max, 0, 1000),
     health  |-> t.health,
     retries |-> IF t.health THEN Clamp(t.retries, 1, 100) ELSE 0,
     deps    |-> SubSeq(t.deps, 1, Clamp(Len(t.deps), 0, MaxDeps))]

(* Services beyond ORCH_MAX_SERVICES are dropped too, and so a dependency   *)
(* on one of them is on an unknown name.                                    *)
orch_parse_spec(text) == [s \in 1 .. Clamp(Len(text), 0, N) |-> parse_service(text[s])]

(* find_svc returns -1 for a name that is no service: a number that is no    *)
(* index of the spec.                                                       *)
Known(deps, s) == {d \in DOMAIN deps[s] : deps[s][d] \in DOMAIN deps}
Times(deps, s, t) == Cardinality({d \in DOMAIN deps[s] : deps[s][d] = t})

(* A set of services in the order of the spec. *)
InOrder(T) == CHOOSE q \in [1 .. Cardinality(T) -> T] :
                  \A i, j \in DOMAIN q : i < j => q[i] < q[j]

(* Mutant: a dependency named twice is counted down once. *)
TakeOff_Once(deps, indegree, cur) ==
    [s \in DOMAIN deps |-> IF Times(deps, s, cur) > 0 THEN indegree[s] - 1 ELSE indegree[s]]

(* cur has been taken off the queue: a service is released once for every   *)
(* mention of cur among its dependencies.                                   *)
TakeOff(deps, indegree, cur) ==
    [s \in DOMAIN deps |-> indegree[s] - Times(deps, s, cur)]

(* Kahn's algorithm: step[k] has taken k services off the queue, which are  *)
(* the first k of order[].                                                  *)
Kahn(deps) ==
    LET n == Len(deps)
        step[k \in 0 .. n] ==
            IF k = 0
            THEN LET indegree == [s \in DOMAIN deps |-> Cardinality(Known(deps, s))]
                 IN  [indegree |-> indegree,
                      queue    |-> InOrder({s \in 1 .. n : indegree[s] = 0})]
            ELSE LET prev == step[k - 1]
                 IN  IF k > Len(prev.queue) THEN prev
                     ELSE LET left == TakeOff(deps, prev.indegree, prev.queue[k])
                          IN  [indegree |-> left,
                               queue    |-> prev.queue \o InOrder(
                                              {s \in 1 .. n : prev.indegree[s] > 0 /\ left[s] = 0})]
    IN  step[n].queue

(* The result -1: a cycle. *)
NoOrder == <<-1>>

topo_sort(deps) ==
    LET order == Kahn(deps) IN IF Len(order) = Len(deps) THEN order ELSE NoOrder

Deps(c) == [s \in DOMAIN c |-> c[s].deps]

(* Images and commands are taken to be there. *)
orch_validate(deps) ==
    /\ \A s \in DOMAIN deps : ToSet(deps[s]) \subseteq DOMAIN deps
    /\ topo_sort(deps) # NoOrder

(* orch validate and orch graph: no side effect but the printed answer.     *)
(* graph does not validate, and ignores names it does not know.  What they  *)
(* are given is parsed, as in orch_run.  Bound: the first command of a      *)
(* session.                                                                 *)
Inspect ==
    /\ cli.at = "prompt" /\ cmds = 0 /\ out = <<>>
    /\ \E deps \in Graphs :
        out' = [deps |-> deps, valid |-> orch_validate(deps), order |-> topo_sort(deps)]
    /\ UNCHANGED <<running, spec, mon, cli, manager, cmds, history>>

-----------------------------------------------------------------------------
(* The container manager, as its callers see it *)

(* The numbers that the orchestrator knows containers by. *)
Held == {cid[s] : s \in S} \cup {w.cid : w \in mon.work} \cup {cli.id, mon.new}

(* container_run_background for service s, or for the user (0).  A failure  *)
(* uses up a number too, but the caller does not learn it; that a record in *)
(* state CREATED may be left behind then is of no consequence here.         *)
container_run_background(s, ok) ==
    /\ starts < MaxStarts
    /\ starts' = starts + 1
    /\ box' = [box EXCEPT ![next] = IF ok THEN [st |-> "RUNNING", own |-> s, bad |-> 0]
                                    ELSE NoBox]
    /\ next' = next + 1
    /\ reused' = (reused \/ next \in Held)

Runs(b) == box[b].st = "RUNNING"

(* container_stop of number b, if there is such a container and it runs. *)
StopBox(bx, b, how) ==
    IF b \in Ids /\ bx[b].st = "RUNNING" THEN [bx EXCEPT ![b].st = how] ELSE bx

(* container_delete refuses a running one. *)
DeleteBox(bx, b) ==
    IF b \in Ids /\ bx[b].st # "RUNNING" THEN [bx EXCEPT ![b] = NoBox] ELSE bx

(* A container ends by itself, or the user stops it. *)
BoxExits(b) ==
    /\ Runs(b)
    /\ \E how \in Stopped : box' = StopBox(box, b, how)
    /\ UNCHANGED <<running, spec, mon, cli, out, next, starts, cmds, history>>

-----------------------------------------------------------------------------
(* Commands of the user that do not go through the orchestrator *)

Typed == cli.at = "prompt" /\ cmds < MaxCmds /\ cmds' = cmds + 1 /\ out' = <<>>

UserRun ==
    /\ Typed
    /\ container_run_background(0, TRUE)
    /\ UNCHANGED <<running, spec, mon, cli, restarted>>

UserStart(b) ==
    /\ Typed /\ box[b] # NoBox /\ ~Runs(b)
    /\ box' = [box EXCEPT ![b].st = "RUNNING", ![b].own = IF @ = 0 THEN 0 ELSE Hand]
    /\ UNCHANGED <<running, spec, mon, cli, next, starts, history>>

(* Mutant: the numbering starts at 1, whatever is still running. *)
container_prune_all_FromOne ==
    /\ Typed
    /\ box' = [b \in Ids |-> IF Runs(b) THEN box[b] ELSE NoBox]
    /\ next' = 1
    /\ UNCHANGED <<running, spec, mon, cli, starts, history>>

(* Everything that does not run is deleted, and the numbering wound back.   *)
(* (The command delete does less than that.)                                *)
container_prune_all ==
    /\ Typed
    /\ box' = [b \in Ids |-> IF Runs(b) THEN box[b] ELSE NoBox]
    /\ next' = CHOOSE n \in 1 .. (MaxStarts + 1) :
                    /\ \A b \in Ids : Runs(b) => b < n
                    /\ n = 1 \/ Runs(n - 1)
    /\ UNCHANGED <<running, spec, mon, cli, starts, history>>

-----------------------------------------------------------------------------
(* orch_run *)

orch_run(text) ==
    /\ Typed /\ ~running
    /\ LET c == orch_parse_spec(text)
       IN  /\ orch_validate(Deps(c))
           /\ conf' = c /\ sorted' = topo_sort(Deps(c))
           /\ cli' = [Prompt EXCEPT !.at = "up", !.todo = topo_sort(Deps(c))]
    /\ cid' = [s \in S |-> 0] /\ svc' = [s \in S |-> "PENDING"]
    /\ count' = [s \in S |-> 0] /\ fails' = [s \in S |-> 0]
    /\ UNCHANGED <<running, mon, manager, history>>

(* Nobody sees the state STARTING in between: the monitor does not run yet, *)
(* and status reports nothing before g_running is set.  After a failure the *)
(* services that depend on this one are started all the same.               *)
StartService ==
    /\ cli.at = "up" /\ cli.todo # <<>>
    /\ LET s == Head(cli.todo)
       IN  \E ok \in BOOLEAN :
            /\ container_run_background(s, ok)
            /\ cid' = [cid EXCEPT ![s] = IF ok THEN next ELSE 0]
            /\ svc' = [svc EXCEPT ![s] = IF ok THEN "RUNNING" ELSE "FAILED"]
    /\ cli' = [cli EXCEPT !.todo = Tail(@)]
    /\ UNCHANGED <<running, parsed, count, fails, mon, out, cmds, restarted>>

(* The monitor thread starts, or cannot be created. *)
SpecUp ==
    /\ cli.at = "up" /\ cli.todo = <<>>
    /\ running' = TRUE
    /\ mon' \in {NoMonitor, [NoMonitor EXCEPT !.at = "sleep"]}
    /\ cli' = Prompt
    /\ UNCHANGED <<spec, out, manager, cmds, history>>

-----------------------------------------------------------------------------
(* monitor_thread: collecting work *)

(* 1 << restart_count in an int.  Into the sign bit and past the width the  *)
(* shift is undefined; the build's shift counts modulo the width, and the   *)
(* sign bit alone is the smallest int (written as a sum for TLC's sake).    *)
Shift1(k) ==
    LET e == k % IntBits
    IN  IF e = IntBits - 1 THEN -(2 ^ (e - 1)) - 2 ^ (e - 1) ELSE 2 ^ e

Backoff(k) == IF Shift1(k) > 30 THEN 30 ELSE Shift1(k)

(* container_get_info of a service's container; a container that is gone    *)
(* from the list is passed over.                                            *)
BoxOf(s) == IF cid[s] = 0 THEN "NONE" ELSE box[cid[s]].st

(* The service's container has stopped behind its back. *)
ExitSeen(s) ==
    /\ BoxOf(s) \in Stopped
    /\ svc[s] \in {"RUNNING", "HEALTHY", "UNHEALTHY"}

WantsRestart(s) ==
    /\ conf[s].restart = "always" \/ (conf[s].restart = "on-failure" /\ BoxOf(s) = "BAD")
    /\ conf[s].max = 0 \/ count[s] < conf[s].max

Checkable(s) ==
    /\ BoxOf(s) = "RUNNING"
    /\ svc[s] \in {"RUNNING", "HEALTHY", "UNHEALTHY"}

(* One pass over the services under g_lock.  Those in due are past their    *)
(* start period and their interval.                                         *)
MonTick ==
    /\ mon.at = "sleep" /\ running
    /\ \E due \in SUBSET {s \in S : Checkable(s) /\ conf[s].health} :
        LET restarts == {s \in S : ExitSeen(s) /\ WantsRestart(s)}
        IN  /\ mon' = [mon EXCEPT !.at = "work",
                         !.work = {[restart |-> s \in restarts, idx |-> s, cid |-> cid[s],
                                    backoff |-> IF s \in restarts THEN Backoff(count[s]) ELSE 0] :
                                   s \in restarts \cup due}]
            /\ svc' = [s \in S |->
                        CASE s \in restarts -> "RESTARTING"
                          [] ExitSeen(s) /\ s \notin restarts ->
                                IF BoxOf(s) = "OK" THEN "STOPPED" ELSE "FAILED"
                          [] Checkable(s) /\ ~conf[s].health /\ svc[s] = "RUNNING" -> "HEALTHY"
                          [] OTHER -> svc[s]]
    /\ UNCHANGED <<running, parsed, cid, count, fails, cli, out, manager, cmds, history>>

(* Mutant: the loop goes on. *)
MonExit_Continue ==
    /\ mon.at = "sleep" /\ ~running
    /\ mon' = [mon EXCEPT !.at = "work"]
    /\ UNCHANGED <<running, spec, cli, out, manager, cmds, history>>

(* orch_down has been called: the thread ends. *)
MonExit ==
    /\ mon.at = "sleep" /\ ~running
    /\ mon' = NoMonitor
    /\ UNCHANGED <<running, spec, cli, out, manager, cmds, history>>

-----------------------------------------------------------------------------
(* monitor_thread: the work, item by item, without g_lock *)

(* The items are in the order of the spec. *)
Item == CHOOSE w \in mon.work : \A v \in mon.work : w.idx <= v.idx
NextItem == [mon EXCEPT !.at = "work", !.work = @ \ {Item}, !.hc = FALSE, !.new = 0]

MonItem ==
    /\ mon.at = "work"
    /\ mon' = IF mon.work = {} \/ ~running
              THEN [mon EXCEPT !.at = "sleep", !.work = {}]
              ELSE [mon EXCEPT !.at = IF Item.restart THEN "backoff" ELSE "exec"]
    /\ UNCHANGED <<running, spec, cli, out, manager, cmds, history>>

(* container_exec_quiet ends; a container that does not run fails at once.  *)
(* It waits for the command with no limit: timeout_ms is not used.  Bound:  *)
(* failed checks of one container.                                          *)
MonExec(ok) ==
    /\ mon.at = "exec"
    /\ IF ok THEN Runs(Item.cid) ELSE box[Item.cid].bad < MaxFails
    /\ mon' = [mon EXCEPT !.at = "checked", !.hc = ok]
    /\ box' = IF box[Item.cid] = NoBox THEN box
              ELSE [box EXCEPT ![Item.cid].bad = IF ok THEN 0 ELSE @ + 1]
    /\ UNCHANGED <<running, spec, cli, out, next, starts, cmds, history>>

(* Mutant: the result is not checked to be of the service's container. *)
MonChecked_AnyContainer ==
    /\ mon.at = "checked"
    /\ LET s == Item.idx
           n == fails[s] + 1
       IN  IF ~running
           THEN UNCHANGED <<svc, fails>>
           ELSE IF mon.hc
           THEN svc' = [svc EXCEPT ![s] = "HEALTHY"] /\ fails' = [fails EXCEPT ![s] = 0]
           ELSE /\ fails' = [fails EXCEPT ![s] = n]
                /\ svc' = [svc EXCEPT ![s] = IF n >= conf[s].retries THEN "UNHEALTHY" ELSE @]
    /\ mon' = NextItem
    /\ UNCHANGED <<running, parsed, cid, count, cli, out, manager, cmds, history>>

(* The result counts if the service still has the container that was        *)
(* probed, whatever state it is in by now.                                  *)
MonChecked ==
    /\ mon.at = "checked"
    /\ LET s == Item.idx
           n == fails[s] + 1
       IN  IF ~running \/ cid[s] # Item.cid
           THEN UNCHANGED <<svc, fails>>
           ELSE IF mon.hc
           THEN svc' = [svc EXCEPT ![s] = "HEALTHY"] /\ fails' = [fails EXCEPT ![s] = 0]
           ELSE /\ fails' = [fails EXCEPT ![s] = n]
                /\ svc' = [svc EXCEPT ![s] = IF n >= conf[s].retries THEN "UNHEALTHY" ELSE @]
    /\ mon' = NextItem
    /\ UNCHANGED <<running, parsed, cid, count, cli, out, manager, cmds, history>>

(* The back-off is over. *)
MonWake ==
    /\ mon.at = "backoff"
    /\ mon' = IF running THEN [mon EXCEPT !.at = "delete"] ELSE NextItem
    /\ UNCHANGED <<running, spec, cli, out, manager, cmds, history>>

(* Mutant: the container is deleted and no other one started. *)
MonDelete_Only ==
    /\ mon.at = "delete"
    /\ box' = DeleteBox(box, Item.cid)
    /\ mon' = NextItem
    /\ UNCHANGED <<running, spec, cli, out, next, starts, cmds, history>>

MonDelete ==
    /\ mon.at = "delete"
    /\ box' = DeleteBox(box, Item.cid)
    /\ mon' = [mon EXCEPT !.at = "run"]
    /\ UNCHANGED <<running, spec, cli, out, next, starts, cmds, history>>

MonRun ==
    /\ mon.at = "run"
    /\ \E ok \in BOOLEAN :
        /\ container_run_background(Item.idx, ok)
        /\ mon' = [mon EXCEPT !.at = "set", !.new = IF ok THEN next ELSE 0]
    /\ UNCHANGED <<running, spec, cli, out, cmds, restarted>>

(* Mutant: a container started after orch_down began is left alone. *)
MonSet_NoUndo ==
    /\ mon.at = "set"
    /\ LET s == Item.idx
       IN  IF ~running
           THEN UNCHANGED <<cid, svc, count, fails, box>>
           ELSE /\ UNCHANGED box
                /\ cid' = [cid EXCEPT ![s] = mon.new] /\ svc' = [svc EXCEPT ![s] = "RUNNING"]
                /\ fails' = [fails EXCEPT ![s] = 0] /\ count' = [count EXCEPT ![s] = @ + 1]
    /\ mon' = NextItem
    /\ UNCHANGED <<running, parsed, cli, out, next, starts, cmds, history>>

(* The new container is recorded, over whatever the service has by now.     *)
MonSet ==
    /\ mon.at = "set"
    /\ LET s == Item.idx
       IN  CASE ~running ->
                /\ box' = DeleteBox(StopBox(box, mon.new, "BAD"), mon.new)
                /\ UNCHANGED <<cid, svc, count, fails>>
             [] running /\ mon.new # 0 ->
                /\ cid' = [cid EXCEPT ![s] = mon.new]
                /\ svc' = [svc EXCEPT ![s] = "RUNNING"]
                /\ fails' = [fails EXCEPT ![s] = 0]
                /\ count' = [count EXCEPT ![s] = @ + 1]
                /\ UNCHANGED box
             [] running /\ mon.new = 0 ->
                /\ svc' = [svc EXCEPT ![s] = "FAILED"]
                /\ UNCHANGED <<cid, count, fails, box>>
    /\ mon' = NextItem
    /\ UNCHANGED <<running, parsed, cli, out, next, starts, cmds, history>>

-----------------------------------------------------------------------------
(* orch_down *)

orch_down ==
    /\ Typed /\ running
    /\ running' = FALSE
    /\ cli' = [Prompt EXCEPT !.at = "join"]
    /\ UNCHANGED <<spec, mon, manager, history>>

(* Mutant: the services are stopped in the order in which they started. *)
Join_Forward ==
    /\ cli.at = "join" /\ mon = NoMonitor
    /\ cli' = [cli EXCEPT !.at = "down", !.todo = sorted]
    /\ UNCHANGED <<running, spec, mon, out, manager, cmds, history>>

(* topo_sort is called again for the same spec. *)
Join ==
    /\ cli.at = "join" /\ mon = NoMonitor
    /\ cli' = [cli EXCEPT !.at = "down", !.todo = Reverse(sorted)]
    /\ UNCHANGED <<running, spec, mon, out, manager, cmds, history>>

(* Mutant: a service that is not well is passed over. *)
StopService_OnlyHealthy ==
    /\ cli.at = "down" /\ cli.todo # <<>>
    /\ LET s == Head(cli.todo)
       IN  IF svc[s] \notin {"RUNNING", "HEALTHY"} THEN UNCHANGED <<box, svc, cid>>
           ELSE /\ box' = DeleteBox(StopBox(box, cid[s], "BAD"), cid[s])
                /\ svc' = [svc EXCEPT ![s] = "STOPPED"]
                /\ cid' = [cid EXCEPT ![s] = 0]
    /\ cli' = [cli EXCEPT !.todo = Tail(@)]
    /\ UNCHANGED <<running, parsed, count, fails, mon, out, next, starts, cmds, history>>

StopService ==
    /\ cli.at = "down" /\ cli.todo # <<>>
    /\ LET s == Head(cli.todo)
       IN  /\ box' = DeleteBox(StopBox(box, cid[s], "BAD"), cid[s])
           /\ svc' = [svc EXCEPT ![s] = IF cid[s] = 0 THEN @ ELSE "STOPPED"]
           /\ cid' = [cid EXCEPT ![s] = 0]
    /\ cli' = [cli EXCEPT !.todo = Tail(@)]
    /\ UNCHANGED <<running, parsed, count, fails, mon, out, next, starts, cmds, history>>

SpecDown ==
    /\ cli.at = "down" /\ cli.todo = <<>>
    /\ cli' = Prompt
    /\ UNCHANGED <<running, spec, mon, out, manager, cmds, history>>

-----------------------------------------------------------------------------
(* orch_restart_service *)

orch_restart_service(s) ==
    /\ Typed /\ running
    /\ svc' = [svc EXCEPT ![s] = "RESTARTING"]
    /\ cli' = [Prompt EXCEPT !.at = "rstop", !.idx = s, !.id = cid[s]]
    /\ restarted' = restarted \cup {s}
    /\ UNCHANGED <<running, parsed, cid, count, fails, mon, manager, reused>>

RestartStop ==
    /\ cli.at = "rstop"
    /\ \E how \in Stopped : box' = StopBox(box, cli.id, how)
    /\ cli' = [cli EXCEPT !.at = "rdelete"]
    /\ UNCHANGED <<running, spec, mon, out, next, starts, cmds, history>>

RestartDelete ==
    /\ cli.at = "rdelete"
    /\ box' = DeleteBox(box, cli.id)
    /\ cli' = [cli EXCEPT !.at = "rrun"]
    /\ UNCHANGED <<running, spec, mon, out, next, starts, cmds, history>>

RestartRun ==
    /\ cli.at = "rrun"
    /\ \E ok \in BOOLEAN :
        /\ container_run_background(cli.idx, ok)
        /\ cli' = [cli EXCEPT !.at = "rset", !.id = IF ok THEN next ELSE 0]
    /\ UNCHANGED <<running, spec, mon, out, cmds, restarted>>

(* After a failure the service keeps the number of the deleted container. *)
RestartSet ==
    /\ cli.at = "rset"
    /\ IF cli.id = 0
       THEN /\ svc' = [svc EXCEPT ![cli.idx] = "FAILED"]
            /\ UNCHANGED <<cid, count, fails>>
       ELSE /\ cid' = [cid EXCEPT ![cli.idx] = cli.id]
            /\ svc' = [svc EXCEPT ![cli.idx] = "RUNNING"]
            /\ fails' = [fails EXCEPT ![cli.idx] = 0]
            /\ count' = [count EXCEPT ![cli.idx] = @ + 1]
    /\ cli' = Prompt
    /\ UNCHANGED <<running, parsed, mon, out, manager, cmds, history>>

-----------------------------------------------------------------------------
Monitor ==
    \/ MonTick \/ MonExit \/ MonItem \/ MonChecked
    \/ MonWake \/ MonDelete \/ MonRun \/ MonSet

CliStep ==
    \/ StartService \/ SpecUp \/ Join \/ StopService \/ SpecDown
    \/ RestartStop \/ RestartDelete \/ RestartRun \/ RestartSet

User ==
    \/ Inspect \/ orch_down \/ UserRun \/ container_prune_all
    \/ \E t \in Texts : orch_run(t)
    \/ \E s \in DOMAIN conf : orch_restart_service(s)
    \/ \E b \in Ids : UserStart(b)

Next ==
    \/ User \/ CliStep \/ Monitor
    \/ \E ok \in BOOLEAN : MonExec(ok)
    \/ \E b \in Ids : BoxExits(b)

Spec == Init /\ [][Next]_vars

(* Both threads keep running.  Nothing is assumed of the user, of the       *)
(* containers, or of the commands that are run as health checks.            *)
FairSpec == Spec /\ WF_vars(Monitor) /\ WF_vars(CliStep)

-----------------------------------------------------------------------------
(* Properties *)

(* The orders in which every service comes after those it depends on. *)
Orders(deps) ==
    {q \in SetToSeqs(DOMAIN deps) :
        \A i \in DOMAIN q : \A d \in Known(deps, q[i]) :
            \E j \in 1 .. (i - 1) : q[j] = deps[q[i]][d]}

(* topo_sort against a reference: it fails exactly when there is no such    *)
(* order (dependencies on oneself and repeated ones included), returns one  *)
(* of them otherwise, and orch_validate accepts exactly the specs that can  *)
(* be ordered and name no unknown service.                                  *)
OrderFound ==
    out # <<>> =>
        /\ out.order \in Orders(out.deps) \cup {NoOrder}
        /\ out.order = NoOrder <=> Orders(out.deps) = {}
        /\ out.valid <=> /\ Orders(out.deps) # {}
                         /\ \A s \in DOMAIN out.deps :
                                Known(out.deps, s) = DOMAIN out.deps[s]

(* Every container that runs for a service is the one the service names, so *)
(* that orch_down and the monitor can reach it, or the one the monitor has  *)
(* just started and is about to record.  The exceptions are services that   *)
(* the user restarts while the monitor does, or whose container the user    *)
(* starts by hand.                                                          *)
NoStrayContainer ==
    TypeOK /\ \A b \in Ids : Runs(b) /\ box[b].own \in S \ restarted =>
        cid[box[b].own] = b \/ mon.new = b

(* orch_down stops what the spec has started, also what the monitor starts  *)
(* while it is told to end.                                                 *)
DownLeavesNone ==
    [][SpecDown => \A b \in Ids : Runs(b) => box[b].own \notin S \ restarted]_vars

(* What the help text says of orch down: "stop all orchestrated services".  *)
(* Containers that the user has started by hand are not counted.            *)
DownStopsAll ==
    [][SpecDown => \A b \in Ids : Runs(b) => box[b].own \notin S]_vars

(* Services start after the ones they depend on were tried, and stop before *)
(* them: when orch_down stops a container none that depends on it runs.     *)
DependencyOrder ==
    [][\A s \in DOMAIN conf : \A t \in ToSet(conf[s].deps) :
        /\ svc[s] = "PENDING" /\ svc'[s] # "PENDING" => svc[t] # "PENDING"
        /\ StopService /\ Head(cli.todo) = t /\ cid[s] # 0 /\ Runs(cid[s])
             => box[cid[s]].own # s]_vars

(* A service is UNHEALTHY because its present container failed as many      *)
(* checks in a row as the spec asks for, never because of checks of the     *)
(* container it had before.  (A check of a container that is gone fails    *)
(* too, and one that succeeded may be about to be recorded.)                *)
UnhealthyEarned ==
    running => \A s \in DOMAIN conf : svc[s] = "UNHEALTHY" =>
        \/ box[cid[s]].bad >= conf[s].retries
        \/ BoxOf(s) = "NONE"
        \/ mon.at = "checked" /\ mon.hc /\ Item.cid = cid[s]
        \/ reused

(* No step of the orchestrator stops, deletes or replaces a container of    *)
(* the user, unless prune has given it a number that a service still had.   *)
ForeignUntouched ==
    [][\A b \in Ids :
        box[b].own = 0 /\ box[b] # NoBox /\ ~reused /\ cmds' = cmds =>
            box'[b] = box[b] \/ BoxExits(b)]_vars

(* A health check hangs: container_exec_quiet waits without a limit.  (Or   *)
(* the bound on failed checks is reached.)                                  *)
Hangs == [](mon.at = "exec")

(* orch_down comes to its end, whatever the monitor is doing, unless a      *)
(* health check hangs: the join waits for it (or the bound on containers is *)
(* reached).                                                                *)
DownEnds == (cli.at = "join") ~> (cli.at # "join" \/ Hangs \/ starts = MaxStarts)

(* A container that ended although it is to run always is replaced: another *)
(* one is recorded for the service, or the start of it has failed.  The     *)
(* exceptions: the spec goes down; the user deletes or starts the container *)
(* before the monitor has seen that it ended, or prune gives its number to  *)
(* another one; there is no monitor, or it hangs in a health check.         *)
RestartHappens ==
    \A s \in S, c \in Ids :
        (/\ running /\ s \in DOMAIN conf /\ cid[s] = c /\ ExitSeen(s)
         /\ conf[s].restart = "always" /\ conf[s].max = 0)
        ~> (\/ cid[s] # c \/ svc[s] = "FAILED" \/ ~running
            \/ svc[s] # "RESTARTING" /\ BoxOf(s) \notin Stopped
            \/ reused \/ mon.at = "none" \/ Hangs \/ starts = MaxStarts)

(* "restart policies with exponential backoff" (orchestrator.h): the wait   *)
(* before a restart is between 1 and 30 seconds.                            *)
BackoffInRange ==
    \A w \in mon.work : w.restart => w.backoff \in 1 .. 30

=============================================================================
