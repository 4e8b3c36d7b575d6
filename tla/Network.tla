------------------------------ MODULE Network -------------------------------
(***************************************************************************)
(* The containers' network: the bridge, the pool of addresses, the veth    *)
(* pairs and the DNAT rules of bridge.c, as the starts, stops and restarts *)
(* of container.c use them.  Links and rules belong to the kernel: they    *)
(* outlive the simulator, and a link goes with the process that holds its  *)
(* other end, while a rule stays until it is deleted.                      *)
(*                                                                         *)
(* The command line and the orchestrator's monitor start containers at the *)
(* same time and share g_next_ip_host without a lock.  Every command that  *)
(* is run (ip, iptables) is a step of a start that may fail; deletions of  *)
(* rules and links succeed, a cleanup is one step, and start, delete and   *)
(* prune keep away from a container that the other thread is starting.     *)
(***************************************************************************)
EXTENDS Integers, Sequences, FiniteSetsExt, SeqFilter

CONSTANTS
    MaxIds,     \* bound: container numbers
    Texts,      \* the port lists that users give: sequences of host ports
    MaxPort,    \* 65535
    MaxMaps,    \* MAX_PORT_MAPS
    LastHost,   \* 254: last address of the pool
    MaxProcs,   \* bound: processes cloned
    MaxCrashes  \* bound: ends of the simulator

ASSUME IdsAssumption == MaxIds \in Nat /\ MaxProcs \in Nat /\ MaxCrashes \in Nat
ASSUME PortsAssumption == MaxPort \in Nat /\ MaxMaps \in Nat /\ Texts \subseteq Seq(Int)
ASSUME PoolAssumption == LastHost \in Nat /\ LastHost >= 2

C       == 1 .. MaxIds
Pids    == 1 .. MaxProcs
Threads == {"cli", "mon"}

VARIABLES
    running,    \* is the simulator running?
    bridge,     \* csbr0: no link, a link that is not up, or up
    pool,       \* g_next_ip_host
    rec,        \* the container list
    next,       \* next_sequence
    saved,      \* containers.meta
    proc,       \* the processes and their addresses, 0 for none
    link,       \* the host end veth<id>: which process has the other end
    chain,      \* PREROUTING: how often it has each DNAT rule
    job,        \* where a thread's start_container_by_id is
    procs,      \* processes cloned so far
    crashes,    \* ends of the simulator so far
    leaked,     \* history: rules forgotten in one of the known ways
    odd,        \* history: containers started while PAUSED, or in the middle
                \* of a start when the simulator died
    twice       \* history: addresses drawn while both threads were drawing

kernel  == <<bridge, proc, link, chain>>
history == <<leaked, odd, twice>>
netVars == <<running, kernel, pool, rec, next, saved, job, procs, crashes, history>>

-----------------------------------------------------------------------------
(* Published ports *)

(* Entries out of range are passed over; the rest is cut at MAX_PORT_MAPS. *)
bridge_parse_port_maps(text) ==
    LET valid == Filter(text, {i \in DOMAIN text : text[i] >= 1 /\ text[i] <= MaxPort})
    IN  SubSeq(valid, 1, IF Len(valid) < MaxMaps THEN Len(valid) ELSE MaxMaps)

Ports    == {bridge_parse_port_maps(t) : t \in Texts}

(* The addresses that are drawn: one more than the pool has, when two       *)
(* threads draw at once.                                                    *)
Hosts    == 2 .. (LastHost + 1)

(* A rule sends a port to an address, or to ":port" with none before it.    *)
Dnat     == [port : 1 .. MaxPort, ip : {0} \cup Hosts]
Rules(r) == {[port |-> r.ports[i], ip |-> r.ip] : i \in DOMAIN r.ports}
Has(ch, r) == r \in Dnat /\ ch[r] > 0

Active  == {"RUNNING", "PAUSED"}
NoProc  == 0
Host    == -1           \* the other end has not been moved yet
Nobody  == [st |-> "NONE", ip |-> 0, ports |-> <<>>, pid |-> NoProc]
Idle    == [at |-> "idle", c |-> 1, pid |-> NoProc, ip |-> 0, i |-> 1]

Records == [st : {"NONE", "CREATED", "STOPPED"} \cup Active, ip : {0} \cup Hosts,
            ports : Ports \cup {<<>>}, pid : Pids \cup {NoProc}]
Jobs    == [at : {"idle", "setup", "draw", "store", "veth", "hand", "check", "forward",
                  "save", "trigger"},
            c : Nat, pid : Pids \cup {NoProc}, ip : {0} \cup Hosts, i : Nat]

NetTypeOK ==
    /\ running \in BOOLEAN /\ bridge \in {"none", "half", "up"}
    /\ pool \in 2 .. (LastHost + 2) /\ next \in 1 .. (MaxIds + 1) /\ procs \in 0 .. MaxProcs
    /\ rec \in [C -> Records] /\ saved \in [C -> Records]
    /\ proc \in [Pids -> [st : {"none", "start", "run", "dead"}, ip : {0} \cup Hosts]]
    /\ link \in [C -> Pids \cup {NoProc, Host}] /\ chain \in [Dnat -> Nat]
    /\ job \in [Threads -> Jobs]

NetInit ==
    /\ running = TRUE /\ bridge = "none" /\ pool = 2
    /\ rec = [c \in C |-> Nobody] /\ next = 1 /\ saved = rec
    /\ proc = [p \in Pids |-> [st |-> "none", ip |-> 0]]
    /\ link = [c \in C |-> NoProc] /\ chain = [r \in Dnat |-> 0]
    /\ job = [t \in Threads |-> Idle]
    /\ procs = 0 /\ crashes = 0 /\ leaked = {} /\ odd = {} /\ twice = {}

-----------------------------------------------------------------------------
(* The list, the rules and the links together *)

Now == [rec |-> rec, chain |-> chain, link |-> link]

Become(n) == rec' = n.rec /\ chain' = n.chain /\ link' = n.link

(* A process dies and takes its network namespace with it. *)
Without(lk, p) == [c \in C |-> IF lk[c] = p THEN NoProc ELSE lk[c]]

Dead == [st |-> "dead", ip |-> 0]

Kill(p) == proc' = [proc EXCEPT ![p] = Dead]

(* The port entries that rule r is made for, of those of the containers S   *)
(* that have an address.                                                    *)
Entries(l, S, r) ==
    {e \in S \X (1 .. MaxMaps) :
        /\ l[e[1]].ip # 0
        /\ e[2] \in DOMAIN l[e[1]].ports /\ l[e[1]].ports[e[2]] = r.port /\ l[e[1]].ip = r.ip}

(* Mutant: the address is cleared before it is used. *)
cleanup_container_network_ClearFirst(n, S) ==
    [rec   |-> [c \in C |-> IF c \in S THEN [n.rec[c] EXCEPT !.ip = 0] ELSE n.rec[c]],
     chain |-> n.chain,
     link  |-> [c \in C |-> IF c \in S /\ n.rec[c].ip # 0 THEN NoProc ELSE n.link[c]]]

(* Called for each of the containers S.  veth_host is set and cleared with  *)
(* ip_address.  iptables -D deletes one of the rules that match, if any.    *)
cleanup_container_network(n, S) ==
    [rec   |-> [c \in C |-> IF c \in S THEN [n.rec[c] EXCEPT !.ip = 0] ELSE n.rec[c]],
     chain |-> [r \in Dnat |-> LET k == Cardinality(Entries(n.rec, S, r))
                               IN  IF n.chain[r] > k THEN n.chain[r] - k ELSE 0],
     link  |-> [c \in C |-> IF c \in S /\ n.rec[c].ip # 0 THEN NoProc ELSE n.link[c]]]

Stopped(r) == [r EXCEPT !.st = "STOPPED", !.pid = NoProc]

MarkStopped(n, S) ==
    LET m == cleanup_container_network(n, S)
    IN  [m EXCEPT !.rec = [c \in C |-> IF c \in S THEN Stopped(m.rec[c]) ELSE m.rec[c]]]

(* poll_states: processes that have ended are noticed, PAUSED ones are not. *)
Ended  == {c \in C : rec[c].st = "RUNNING" /\ proc[rec[c].pid].st = "dead"}
Polled == MarkStopped(Now, Ended)

SaveIfChanged(n) == saved' = IF n.rec # rec THEN n.rec ELSE saved

(* stop_container_process: SIGTERM, SIGKILL, cleanup and save. *)
StopProcess(n, c) ==
    IF n.rec[c].st \in Active
    THEN LET p == n.rec[c].pid
             m == MarkStopped([n EXCEPT !.link = Without(n.link, p)], {c})
         IN  Kill(p) /\ Become(m) /\ saved' = m.rec
    ELSE Become(n) /\ saved' = saved /\ UNCHANGED proc

-----------------------------------------------------------------------------
(* net init and net teardown *)

(* A failure after `ip link add` calls bridge_teardown, which returns at    *)
(* once since the bridge is not up; the link that stays makes every later   *)
(* `ip link add` fail.                                                      *)
bridge_init ==
    /\ running /\ bridge # "up"
    /\ bridge' \in IF bridge = "half" THEN {"half"} ELSE {"half", "up"}
    /\ UNCHANGED <<running, proc, link, chain, pool, rec, next, saved, job, procs, crashes, history>>

bridge_teardown ==
    /\ running /\ bridge = "up"
    /\ bridge' = "none"
    /\ UNCHANGED <<running, proc, link, chain, pool, rec, next, saved, job, procs, crashes, history>>

-----------------------------------------------------------------------------
(* start_container_by_id *)

At(t, from, to) == running /\ job[t].at = from /\ job' = [job EXCEPT ![t].at = to]

Loopback(t) == job' = [job EXCEPT ![t].at = "hand", ![t].ip = 0]
End(t)      == job' = [job EXCEPT ![t] = Idle]

Busy(c) == \E t \in Threads : job[t].at # "idle" /\ job[t].c = c
Strict(c) == rec[c].ports # <<>>

(* The fields of the last run are reset and a child is cloned.  n is the    *)
(* list after the poll, and any record that was just created is in it.      *)
Begin(t, c, n) ==
    /\ procs < MaxProcs
    /\ procs' = procs + 1
    /\ proc' = [proc EXCEPT ![procs'].st = "start"]
    /\ Become([n EXCEPT !.rec[c].ip = 0])
    /\ job' = [job EXCEPT ![t] = [at |-> "setup", c |-> c, pid |-> procs', ip |-> 0, i |-> 1]]
    /\ leaked' = leaked \cup {r \in Rules(n.rec[c]) : Has(n.chain, r)}
    /\ odd' = IF n.rec[c].st = "PAUSED" THEN odd \cup {c} ELSE odd
    /\ UNCHANGED <<running, bridge, pool, crashes, twice>>

(* start *)
Start(c) ==
    /\ running /\ job["cli"].at = "idle" /\ ~Busy(c)
    /\ Polled.rec[c].st \in {"CREATED", "STOPPED", "PAUSED"}
    /\ Begin("cli", c, Polled)
    /\ SaveIfChanged(Polled)
    /\ UNCHANGED next

Created(n, ports) == [n EXCEPT !.rec[next] = [Nobody EXCEPT !.st = "CREATED", !.ports = ports]]

(* run, runbg, and the starts of the orchestrator: create, save, start. *)
Run(t, ports) ==
    /\ running /\ job[t].at = "idle" /\ next <= MaxIds
    /\ LET n == Created(Polled, ports) IN Begin(t, next, n) /\ saved' = n.rec
    /\ next' = next + 1

(* The child is killed; address and state of the record stay as they are. *)
AbortStart(t) ==
    /\ Kill(job[t].pid)
    /\ link' = Without(link, job[t].pid)
    /\ End(t)

(* container_net_setup after a failure: only a container that publishes     *)
(* ports gives up, others run with a loopback alone.                        *)
NoNetwork(t) ==
    /\ IF Strict(job[t].c) THEN AbortStart(t) ELSE Loopback(t) /\ UNCHANGED <<proc, link>>
    /\ UNCHANGED <<running, bridge, chain, pool, rec, next, saved, procs, crashes, history>>

(* The bridge is down or bridge_preflight misses something, or the pool is  *)
(* exhausted.                                                               *)
NetSetupFails(t) ==
    /\ running /\ job[t].at = "setup"
    /\ NoNetwork(t)

(* bridge_alloc_ip: the end of the pool is tested ... *)
AllocCheck(t) ==
    /\ bridge = "up" /\ pool <= LastHost
    /\ At(t, "setup", "draw")
    /\ UNCHANGED <<running, kernel, pool, rec, next, saved, procs, crashes, history>>

(* ... then g_next_ip_host++ in two steps: load ... *)
AllocLoad(t) ==
    /\ running /\ job[t].at = "draw"
    /\ job' = [job EXCEPT ![t].at = "store", ![t].ip = pool]
    /\ twice' = twice \cup UNION {{job[u].ip, pool} : u \in {u \in Threads \ {t} : job[u].at = "store"}}
    /\ UNCHANGED <<running, kernel, pool, rec, next, saved, procs, crashes, leaked, odd>>

(* ... and store. *)
AllocStore(t) ==
    /\ At(t, "store", "veth")
    /\ pool' = job[t].ip + 1
    /\ UNCHANGED <<running, kernel, rec, next, saved, procs, crashes, history>>

(* Mutant: the pair is not deleted when a later step fails. *)
VethFails_NoDelete(t) ==
    /\ running /\ job[t].at = "veth" /\ link[job[t].c] = NoProc
    /\ link' = [link EXCEPT ![job[t].c] = Host]
    /\ IF Strict(job[t].c) THEN Kill(job[t].pid) /\ End(t) ELSE Loopback(t) /\ UNCHANGED proc
    /\ UNCHANGED <<running, bridge, chain, pool, rec, next, saved, procs, crashes, history>>

(* bridge_setup_veth fails, in any case when the name is taken.  What it has *)
(* made is deleted; the address stays used.                                 *)
VethFails(t) ==
    /\ running /\ job[t].at = "veth"
    /\ NoNetwork(t)

bridge_setup_veth(t) ==
    /\ At(t, "veth", "hand")
    /\ link[job[t].c] = NoProc /\ proc[job[t].pid].st = "start"
    /\ link' = [link EXCEPT ![job[t].c] = job[t].pid]
    /\ rec' = [rec EXCEPT ![job[t].c].ip = job[t].ip]
    /\ UNCHANGED <<running, bridge, proc, chain, pool, next, saved, procs, crashes, history>>

HandshakeFails(t) ==
    /\ running /\ job[t].at = "hand"
    /\ AbortStart(t)
    /\ UNCHANGED <<running, bridge, chain, pool, rec, next, saved, procs, crashes, history>>

(* The child has configured its address and waits for the trigger. *)
Handshake(t) ==
    /\ At(t, "hand", "check")
    /\ proc[job[t].pid].st = "start"
    /\ proc' = [proc EXCEPT ![job[t].pid].ip = job[t].ip]
    /\ rec' = [rec EXCEPT ![job[t].c].st = "RUNNING", ![job[t].c].pid = job[t].pid]
    /\ UNCHANGED <<running, bridge, link, chain, pool, next, saved, procs, crashes, history>>

(* Ports are published if there is an address at this point. *)
CheckAddress(t) ==
    /\ At(t, "check", IF rec[job[t].c].ip = 0 THEN "save" ELSE "forward")
    /\ UNCHANGED <<running, kernel, pool, rec, next, saved, procs, crashes, history>>

(* bridge_add_port_forward fails: the container is stopped. *)
ForwardFails(t) ==
    /\ running /\ job[t].at = "forward" /\ job[t].i <= Len(rec[job[t].c].ports)
    /\ StopProcess(Now, job[t].c)
    /\ End(t)
    /\ UNCHANGED <<running, bridge, pool, next, procs, crashes, history>>

(* One iptables -A for every port.  When a poll or a stop of the other      *)
(* thread has cleared the address in the meantime the rule sends the port   *)
(* to ":port", which iptables takes, and no cleanup deletes it.             *)
Forward(t) ==
    LET r    == rec[job[t].c]
        rule == [port |-> r.ports[job[t].i], ip |-> r.ip] IN
    /\ running /\ job[t].at = "forward"
    /\ IF job[t].i <= Len(r.ports)
       THEN /\ chain' = [chain EXCEPT ![rule] = @ + 1]
            /\ job' = [job EXCEPT ![t].i = @ + 1]
            /\ leaked' = IF r.ip = 0 THEN leaked \cup {rule} ELSE leaked
       ELSE job' = [job EXCEPT ![t].at = "save", ![t].i = 1] /\ UNCHANGED <<chain, leaked>>
    /\ UNCHANGED <<running, bridge, proc, link, pool, rec, next, saved, procs, crashes, odd, twice>>

Save(t) ==
    /\ At(t, "save", "trigger")
    /\ saved' = rec
    /\ UNCHANGED <<running, kernel, pool, rec, next, procs, crashes, history>>

(* namespace_trigger_exec; the program may not be found. *)
Trigger(t) ==
    /\ running /\ job[t].at = "trigger" /\ proc[job[t].pid].st = "start"
    /\ End(t)
    /\ proc' = [proc EXCEPT ![job[t].pid].st = "run"]
    /\ UNCHANGED <<running, bridge, link, chain, pool, rec, next, saved, procs, crashes, history>>

(* The metadata cannot be saved or the program not be executed. *)
StartFails(t) ==
    /\ running /\ job[t].at \in {"save", "trigger"}
    /\ StopProcess(Now, job[t].c)
    /\ End(t)
    /\ UNCHANGED <<running, bridge, pool, next, procs, crashes, history>>

-----------------------------------------------------------------------------
(* Other commands *)

(* A thread that is in no start runs a command; it starts with a poll. *)
Command(t) == running /\ job[t].at = "idle" /\ UNCHANGED <<running, bridge, pool, job, procs, crashes>>

container_create(ports) ==
    /\ Command("cli") /\ next <= MaxIds
    /\ LET n == Created(Polled, ports) IN Become(n) /\ saved' = n.rec
    /\ next' = next + 1
    /\ UNCHANGED <<proc, history>>

(* ps, stats, and every command that changes nothing else. *)
poll_states(t) ==
    /\ Command(t) /\ Polled # Now
    /\ Become(Polled) /\ saved' = Polled.rec
    /\ UNCHANGED <<proc, next, history>>

container_stop(t, c) ==
    /\ Command(t)
    /\ Polled.rec[c].st \in Active
    /\ StopProcess(Polled, c)
    /\ UNCHANGED <<next, history>>

container_pause(c) ==
    /\ Command("cli")
    /\ Polled.rec[c].st = "RUNNING"
    /\ LET n == [Polled EXCEPT !.rec[c].st = "PAUSED"] IN Become(n) /\ saved' = n.rec
    /\ UNCHANGED <<proc, next, history>>

container_unpause(c) ==
    /\ Command("cli")
    /\ Polled.rec[c].st = "PAUSED"
    /\ LET n == [Polled EXCEPT !.rec[c].st = "RUNNING"] IN Become(n) /\ saved' = n.rec
    /\ UNCHANGED <<proc, next, history>>

container_delete(t, c) ==
    /\ Command(t) /\ ~Busy(c)
    /\ Polled.rec[c].st \in {"CREATED", "STOPPED"}
    /\ LET n == [cleanup_container_network(Polled, {c}) EXCEPT !.rec[c] = Nobody]
       IN  Become(n) /\ saved' = n.rec
    /\ UNCHANGED <<proc, next, history>>

(* update_next_sequence for each of the containers S, and the loop of prune. *)
NumberAfter(S) == Min({k \in 1 .. (MaxIds + 1) : \A c \in S : c < k})

(* No cleanup, and the numbering starts again after the last number in use. *)
container_prune_all ==
    LET n    == Polled
        gone == {c \in C : n.rec[c].st \notin Active}
        left == [c \in C |-> IF c \in gone THEN Nobody ELSE n.rec[c]] IN
    /\ Command("cli") /\ \A c \in gone : ~Busy(c)
    /\ Become([n EXCEPT !.rec = left])
    /\ saved' = left
    /\ next' = NumberAfter(C \ gone)
    /\ leaked' = leaked \cup UNION {{r \in Rules(n.rec[c]) : Has(n.chain, r)} : c \in gone}
    /\ UNCHANGED <<proc, odd, twice>>

-----------------------------------------------------------------------------
(* Ends and restarts of the simulator *)

Exit(p) ==
    /\ proc[p].st \in {"start", "run"}
    /\ Kill(p)
    /\ link' = Without(link, p)
    /\ UNCHANGED <<running, bridge, chain, pool, rec, next, saved, job, procs, crashes, history>>

Down ==
    /\ running' = FALSE /\ crashes' = crashes + 1
    /\ rec' = [c \in C |-> Nobody] /\ next' = 1 /\ pool' = 2
    /\ job' = [t \in Threads |-> Idle]

(* exit: the monitor is joined and every active container is stopped. *)
ExitCommand ==
    LET act  == {c \in C : Polled.rec[c].st \in Active}
        pids == {Polled.rec[c].pid : c \in act}
        n    == MarkStopped(Polled, act) IN
    /\ running /\ \A t \in Threads : job[t].at = "idle"
    /\ crashes < MaxCrashes /\ Down
    /\ proc' = [p \in Pids |-> IF p \in pids THEN Dead ELSE proc[p]]
    /\ chain' = n.chain
    /\ link' = [c \in C |-> IF n.link[c] \in pids THEN NoProc ELSE n.link[c]]
    /\ saved' = n.rec
    /\ UNCHANGED <<bridge, procs, history>>

(* SIGKILL.  A child that waits for its trigger waits on: it holds the write *)
(* end of the pipe itself.  A veth pair may be left half made.              *)
Crashed ==
    LET busy == {t \in Threads : job[t].at # "idle"} IN
    /\ running /\ crashes < MaxCrashes /\ Down
    /\ \E half \in SUBSET {job[t].c : t \in {t \in busy : job[t].at = "veth"}} :
          link' = [c \in C |-> IF c \in half /\ link[c] = NoProc THEN Host ELSE link[c]]
    /\ odd' = odd \cup {job[t].c : t \in busy}
    /\ leaked' = leaked \cup UNION {Rules(rec[job[t].c]) : t \in busy}
    /\ UNCHANGED <<bridge, proc, chain, saved, procs, twice>>

(* Mutant: an address equal to the next one is not skipped. *)
bridge_mark_ip_used_Greater(used) ==
    Min({h \in 2 .. (LastHost + 2) : \A ip \in used : ip <= h})

(* Called for each address of the file: the pool goes on after the last. *)
bridge_mark_ip_used(used) ==
    Min({h \in 2 .. (LastHost + 2) : \A ip \in used : ip < h})

(* container_manager_init: a container found dead keeps its address, its    *)
(* rules and nothing else.                                                  *)
Restart ==
    /\ ~running /\ running' = TRUE
    /\ rec' = [c \in C |-> IF saved[c].st = "RUNNING" /\ proc[saved[c].pid].st = "dead"
                            THEN [saved[c] EXCEPT !.st = "STOPPED", !.pid = NoProc]
                            ELSE saved[c]]
    /\ pool' = bridge_mark_ip_used({saved[c].ip : c \in C})
    /\ next' = NumberAfter({c \in C : saved[c].st # "NONE"})
    /\ UNCHANGED <<kernel, saved, job, procs, crashes, history>>

-----------------------------------------------------------------------------
StartStep(t) ==
    \/ NetSetupFails(t) \/ AllocCheck(t) \/ AllocLoad(t) \/ AllocStore(t)
    \/ VethFails(t) \/ bridge_setup_veth(t) \/ HandshakeFails(t) \/ Handshake(t)
    \/ CheckAddress(t) \/ Forward(t) \/ ForwardFails(t)
    \/ Save(t) \/ Trigger(t) \/ StartFails(t)

NetNext ==
    \/ bridge_init \/ bridge_teardown \/ ExitCommand \/ Crashed \/ Restart
    \/ \E t \in Threads : StartStep(t) \/ poll_states(t)
    \/ \E t \in Threads, ports \in Ports : Run(t, ports)
    \/ \E t \in Threads, c \in C : container_stop(t, c) \/ container_delete(t, c)
    \/ \E ports \in Ports : container_create(ports)
    \/ \E c \in C : Start(c) \/ container_pause(c) \/ container_unpause(c)
    \/ container_prune_all
    \/ \E p \in Pids : Exit(p)

NetSpec == NetInit /\ [][NetNext]_netVars

-----------------------------------------------------------------------------
(* Properties *)

(* The processes that active containers record, those of odd starts aside. *)
Listed == {rec[c].pid : c \in {c \in C \ odd : rec[c].st \in Active}}

(* No two containers that run have the same address, whatever starts,       *)
(* failures, crashes and restarts came before, unless it was drawn from the *)
(* pool while the other thread was drawing one, too.                        *)
UniqueAddress ==
    running => \A p, q \in Listed :
                   p # q /\ proc[p].ip = proc[q].ip => proc[p].ip \in twice \cup {0}

(* Rules and records agree: a rule in the chain leads to a container that   *)
(* has that address and has published that port, and a container that       *)
(* publishes ports and runs has an address and all of its rules.  Known to  *)
(* be forgotten are the rules of a container that is started while it still *)
(* has an address, or pruned, those of a start that a crash cuts off, and   *)
(* those without an address, which a start adds when its container is       *)
(* stopped while it publishes the ports; of two containers with the same    *)
(* address one may delete the other's.                                      *)
RulesMatch ==
    /\ NetTypeOK
    /\ running =>
        /\ \A r \in Dnat \ leaked : Has(chain, r) => \E c \in C : r \in Rules(rec[c])
        /\ \A c \in C \ odd : rec[c].st = "RUNNING" /\ ~Busy(c) /\ Strict(c) =>
                /\ rec[c].ip # 0
                /\ rec[c].ip \in twice \/ \A r \in Rules(rec[c]) : Has(chain, r)

(* A host end that is left behind would make every later start of the same  *)
(* number fail: there is one only for a container that knows its address or *)
(* is being started.                                                        *)
LinksOwned ==
    running => \A c \in C \ odd : link[c] # NoProc => rec[c].ip # 0 \/ Busy(c)

=============================================================================
