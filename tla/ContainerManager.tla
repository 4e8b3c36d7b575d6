-------------------------- MODULE ContainerManager --------------------------
(***************************************************************************)
(* The container manager of container.c: the list of containers, the       *)
(* metadata file it is saved to, and the processes of the host kernel, as  *)
(* the thread of the command line drives them.                             *)
(*                                                                         *)
(* Every command is a sequence of steps (variable cli) between which       *)
(* processes exit and the simulator itself may be killed; a restart reads  *)
(* the metadata file back.  Names, limits, ports, time stamps and printed  *)
(* text are abstracted away.  The calls into the scheduler are modelled in *)
(* module Scheduler, the events in module EventBus.                        *)
(***************************************************************************)
EXTENDS Naturals, FiniteSets

CONSTANTS
    Pids,       \* the process ids of the host that the model looks at
    NoPid,      \* the pid -1 of a container without a process
    MaxSeq,     \* bound: the largest container number that is handed out
    PidReuse    \* may the kernel give out a pid that a record still names?

ASSUME PidAssumption == NoPid \notin Pids
ASSUME SeqAssumption == MaxSeq \in Nat \ {0}
ASSUME ReuseAssumption == PidReuse \in BOOLEAN

Ids == 1 .. MaxSeq

VARIABLES
    up,         \* is a simulator process running?
    state,      \* Container.state of each listed id, "NONE" if not listed
    pid,        \* Container.pid
    nextSeq,    \* next_sequence
    there,      \* does METADATA_FILE exist?
    fstate,     \* the state column of METADATA_FILE
    fpid,       \* its pid column
    procs,      \* what the kernel runs under each pid
    kids,       \* the pids that are children of the running simulator
    cli,        \* where the command line is
    lost,       \* history: user processes that no record names any more
    dirty       \* history: the records that METADATA_FILE may have wrong

memory == <<up, state, pid, nextSeq>>
disk   == <<there, fstate, fpid>>
kernel == <<procs, kids>>
vars   == <<memory, disk, kernel, cli, lost, dirty>>

States == {"NONE", "CREATED", "RUNNING", "PAUSED", "STOPPED"}

(* A process in "setup" is a clone that waits for the exec trigger; a       *)
(* "live" one runs the user's command; "host" is a process that has nothing *)
(* to do with the simulator.                                                *)
ProcStates == {"free", "setup", "live", "zombie", "host"}

Points == {"prompt", "start", "handshake", "save", "trigger", "wait",
           "stop", "term", "grace", "kill", "final",
           "delete", "prune", "pause", "unpause", "closing"}

(* id and child are meaningful at the points that use them; fg marks a      *)
(* foreground run, closing the shutdown, todo what cleanup has yet to visit. *)
CliState == [at : Points, id : Ids, child : Pids \cup {NoPid}, fg : BOOLEAN,
             closing : BOOLEAN, todo : SUBSET Ids]

Idle == [at |-> "prompt", id |-> 1, child |-> NoPid, fg |-> FALSE,
         closing |-> FALSE, todo |-> {}]

TypeOK ==
    /\ up \in BOOLEAN
    /\ state \in [Ids -> States]
    /\ pid \in [Ids -> Pids \cup {NoPid}]
    /\ nextSeq \in 1 .. (MaxSeq + 1)
    /\ there \in BOOLEAN
    /\ fstate \in [Ids -> States]
    /\ fpid \in [Ids -> Pids \cup {NoPid}]
    /\ procs \in [Pids -> ProcStates]
    /\ kids \in SUBSET Pids
    /\ cli \in CliState
    /\ lost \in SUBSET Pids
    /\ dirty \in SUBSET Ids

-----------------------------------------------------------------------------
(* Shorthands *)

Active(c)  == state[c] \in {"RUNNING", "PAUSED"}
FActive(c) == fstate[c] \in {"RUNNING", "PAUSED"}

(* A process that kill(2) finds: a zombie still counts. *)
is_pid_alive(p) == p \in Pids /\ procs[p] # "free"

(* The pids that some record names; without PidReuse the kernel is assumed  *)
(* to be far from coming round to one of them again.                        *)
Named == {pid[c] : c \in Ids} \cup {fpid[c] : c \in Ids}
Allocatable(p) == procs[p] = "free" /\ (PidReuse \/ p \notin Named)

(* The list's memory after free or before it is filled. *)
NoStates == [c \in Ids |-> "NONE"]
NoPids   == [c \in Ids |-> NoPid]

(* 1 + the largest listed number: update_next_sequence and the loop of      *)
(* container_prune_all.                                                     *)
NextAfter(st) ==
    CHOOSE n \in 1 .. (MaxSeq + 1) :
        /\ \A c \in Ids : st[c] # "NONE" => c < n
        /\ n = 1 \/ (n - 1 \in Ids /\ st[n - 1] # "NONE")

(* save_metadata: write a temporary file and rename it over the old one.    *)
Written(st, pd) == there' = TRUE /\ fstate' = st /\ fpid' = pd
Erased          == there' = FALSE /\ fstate' = NoStates /\ fpid' = NoPids

SaveOK(st, pd) == Written(st, pd) /\ dirty' = {}

(* It fails before the rename, or the rename fails twice: then the old      *)
(* file has been unlinked and there is none.                                *)
SaveFails == (UNCHANGED disk \/ Erased) /\ dirty' = Ids

(* As called by those who ignore what it returns. *)
save_metadata(st, pd) == SaveOK(st, pd) \/ SaveFails

-----------------------------------------------------------------------------
(* The start of the program, and its end *)

Init ==
    /\ up = FALSE
    /\ state = NoStates /\ pid = NoPids /\ nextSeq = 1
    /\ there = FALSE /\ fstate = NoStates /\ fpid = NoPids
    /\ procs = [p \in Pids |-> "free"] /\ kids = {}
    /\ cli = Idle
    /\ lost = {} /\ dirty = {}

(* container_manager_init: the records come from the file; only those that  *)
(* say RUNNING are checked for a process.  poll_states then finds nothing   *)
(* to change, and nothing is saved: the file still says RUNNING of those.   *)
Recovered(c) == fstate[c] = "RUNNING" /\ ~is_pid_alive(fpid[c])

container_manager_init ==
    /\ ~up
    /\ up' = TRUE
    /\ state' = [c \in Ids |-> IF Recovered(c) THEN "STOPPED" ELSE fstate[c]]
    /\ pid' = [c \in Ids |-> IF Recovered(c) THEN NoPid ELSE fpid[c]]
    /\ nextSeq' = NextAfter(fstate)
    /\ cli' = Idle
    /\ lost' = IF there THEN lost ELSE {p \in Pids : procs[p] = "live"}
    /\ dirty' = {c \in Ids : Recovered(c)}
    /\ UNCHANGED <<disk, kernel>>

(* The simulator's process ends: its memory is gone, the kernel hands its   *)
(* children to init, which reaps the zombies.                               *)
ProcessEnds ==
    /\ up' = FALSE
    /\ state' = NoStates /\ pid' = NoPids /\ nextSeq' = 1
    /\ cli' = Idle
    /\ kids' = {}
    /\ procs' = [p \in Pids |-> IF procs[p] = "zombie" THEN "free" ELSE procs[p]]
    /\ UNCHANGED lost

(* It is killed, at any point. *)
Crash == up /\ ProcessEnds /\ UNCHANGED <<disk, dirty>>

-----------------------------------------------------------------------------
(* The rest of the host *)

(* A process of the simulator ends by itself or by a signal from outside. *)
ProcExit(p) ==
    /\ procs[p] \in {"setup", "live"}
    /\ procs' = [procs EXCEPT ![p] = IF p \in kids THEN "zombie" ELSE "free"]
    /\ UNCHANGED <<memory, disk, kids, cli, lost, dirty>>

(* Some other program of the host comes and goes. *)
HostSpawn(p) ==
    /\ Allocatable(p)
    /\ procs' = [procs EXCEPT ![p] = "host"]
    /\ UNCHANGED <<memory, disk, kids, cli, lost, dirty>>

HostExit(p) ==
    /\ procs[p] = "host"
    /\ procs' = [procs EXCEPT ![p] = "free"]
    /\ UNCHANGED <<memory, disk, kids, cli, lost, dirty>>

-----------------------------------------------------------------------------
(* poll_states, with which most commands begin *)

(* Mutant: waitpid returning 0 (still running) is taken for an exit. *)
sync_container_state_AnyResult(c) == state[c] = "RUNNING" /\ pid[c] # NoPid

(* sync_container_state: a RUNNING container's child has exited and is      *)
(* reaped, or the process is no child (it was restored) and is gone.  A     *)
(* PAUSED container is never looked at.                                     *)
sync_container_state(c) ==
    /\ state[c] = "RUNNING" /\ pid[c] # NoPid
    /\ IF pid[c] \in kids THEN procs[pid[c]] = "zombie" ELSE ~is_pid_alive(pid[c])

Exited == {c \in Ids : sync_container_state(c)}
ReapedPids == {pid[c] : c \in Exited} \cap kids

(* Mutant: the changes are not saved. *)
poll_states_NoSave ==
    /\ state' = [c \in Ids |-> IF c \in Exited THEN "STOPPED" ELSE state[c]]
    /\ pid' = [c \in Ids |-> IF c \in Exited THEN NoPid ELSE pid[c]]
    /\ procs' = [p \in Pids |-> IF p \in ReapedPids THEN "free" ELSE procs[p]]
    /\ kids' = kids \ ReapedPids
    /\ UNCHANGED <<disk, dirty>>

poll_states ==
    /\ state' = [c \in Ids |-> IF c \in Exited THEN "STOPPED" ELSE state[c]]
    /\ pid' = [c \in Ids |-> IF c \in Exited THEN NoPid ELSE pid[c]]
    /\ procs' = [p \in Pids |-> IF p \in ReapedPids THEN "free" ELSE procs[p]]
    /\ kids' = kids \ ReapedPids
    /\ IF Exited # {} THEN save_metadata(state', pid') ELSE UNCHANGED <<disk, dirty>>

(* A command is typed: it polls, and finds container c in the list.  Its    *)
(* other steps follow below.  list, stats, inspect, exec do nothing more.   *)
Issue(op, c) ==
    /\ up /\ cli.at = "prompt"
    /\ op \in {"start", "stop", "delete", "pause", "unpause"} => state[c] # "NONE"
    /\ poll_states
    /\ cli' = [Idle EXCEPT !.at = IF op = "list" THEN "prompt" ELSE op, !.id = c,
                           !.closing = (op = "closing"),
                           !.todo = IF op = "closing" THEN Ids ELSE {}]
    /\ UNCHANGED <<up, nextSeq, lost>>

Command ==
    \/ \E op \in {"start", "stop", "delete", "pause", "unpause"}, c \in Ids : Issue(op, c)
    \/ \E op \in {"list", "prune", "closing"} : Issue(op, 1)

(* The command is turned down and changes nothing. *)
Refused ==
    /\ \/ cli.at = "start" /\ state[cli.id] = "RUNNING"
       \/ cli.at = "stop" /\ ~Active(cli.id)
       \/ cli.at = "delete" /\ Active(cli.id)
       \/ cli.at = "pause" /\ state[cli.id] # "RUNNING"
       \/ cli.at = "unpause" /\ state[cli.id] # "PAUSED"
       \/ /\ cli.at \in {"pause", "unpause"}      \* kill fails: ESRCH or EPERM
          /\ pid[cli.id] \in Pids => procs[pid[cli.id]] \in {"free", "host"}
    /\ cli' = Idle
    /\ UNCHANGED <<memory, disk, kernel, lost, dirty>>

-----------------------------------------------------------------------------
(* create, run, runbg *)

(* container_create: the number is used up even when the rootfs cannot be   *)
(* prepared or the save fails and the record is taken off the list again.   *)
(* run and runbg go on to start the container.                              *)
container_create(next, fg) ==
    /\ up /\ cli.at = "prompt" /\ nextSeq <= MaxSeq
    /\ nextSeq' = nextSeq + 1
    /\ LET created == [state EXCEPT ![nextSeq] = "CREATED"]
           pids    == [pid EXCEPT ![nextSeq] = NoPid]
       IN  \/ /\ cli' = Idle
              /\ UNCHANGED <<state, pid>>
              /\ SaveFails \/ UNCHANGED <<disk, dirty>>
           \/ /\ state' = created /\ pid' = pids
              /\ \/ SaveOK(created, pids)
                 \/ /\ next = "start" /\ ~fg      \* runbg saves again, and this fails
                    /\ Written(created, pids) \/ Erased
                    /\ dirty' = Ids
              /\ cli' = [Idle EXCEPT !.at = next, !.id = nextSeq, !.fg = fg]
    /\ UNCHANGED <<up, kernel, lost>>

Create == container_create("prompt", FALSE)
Run    == \E fg \in BOOLEAN : container_create("start", fg)

-----------------------------------------------------------------------------
(* start_container_by_id *)

(* namespace_start_container clones the child, which sets itself up.  Only  *)
(* a RUNNING container is refused.                                          *)
StartClone(p) ==
    /\ cli.at = "start" /\ state[cli.id] # "RUNNING"
    /\ Allocatable(p)
    /\ procs' = [procs EXCEPT ![p] = "setup"]
    /\ kids' = kids \cup {p}
    /\ lost' = lost \ {p}
    /\ cli' = [cli EXCEPT !.at = "handshake", !.child = p]
    /\ UNCHANGED <<memory, disk, dirty>>

(* No memory, no pipe, no clone. *)
StartCloneFails ==
    /\ cli.at = "start" /\ state[cli.id] # "RUNNING"
    /\ cli' = Idle
    /\ UNCHANGED <<memory, disk, kernel, lost, dirty>>

(* The child reports an error or the parent kills it.  It is reaped, unless *)
(* SIGINT interrupts the waitpid, and the record keeps the state it had.    *)
HandshakeFails ==
    /\ cli.at = "handshake"
    /\ \/ /\ procs' = [procs EXCEPT ![cli.child] = "free"]
          /\ kids' = kids \ {cli.child}
       \/ /\ procs' = [procs EXCEPT ![cli.child] = "zombie"]
          /\ UNCHANGED kids
    /\ cli' = Idle
    /\ UNCHANGED <<memory, disk, lost, dirty>>

(* The child has reported ready (and may have died since): the record takes *)
(* its pid, over the pid of a container that was PAUSED.  When its ports    *)
(* cannot be published it is stopped again, and not saved before.           *)
HandshakeReady ==
    /\ cli.at = "handshake"
    /\ state' = [state EXCEPT ![cli.id] = "RUNNING"]
    /\ pid' = [pid EXCEPT ![cli.id] = cli.child]
    /\ lost' = lost \cup {p \in Pids : p = pid[cli.id] /\ procs[p] = "live"}
    /\ \/ cli' = [cli EXCEPT !.at = "save"] /\ UNCHANGED dirty
       \/ cli' = [cli EXCEPT !.at = "term"] /\ dirty' = dirty \cup {cli.id}
    /\ UNCHANGED <<up, nextSeq, disk, kernel>>

(* Mutant: the trigger follows whatever save_metadata returned. *)
StartSave_Unchecked ==
    /\ cli.at = "save"
    /\ save_metadata(state, pid)
    /\ cli' = [cli EXCEPT !.at = "trigger"]
    /\ UNCHANGED <<memory, kernel, lost>>

StartSave ==
    /\ cli.at = "save"
    /\ \/ SaveOK(state, pid) /\ cli' = [cli EXCEPT !.at = "trigger"]
       \/ SaveFails /\ cli' = [cli EXCEPT !.at = "term"]
    /\ UNCHANGED <<memory, kernel, lost>>

(* namespace_trigger_exec: the child replaces itself by the user's command, *)
(* or fails to and ends.                                                    *)
TriggerExec ==
    /\ cli.at = "trigger" /\ procs[cli.child] = "setup"
    /\ \/ /\ procs' = [procs EXCEPT ![cli.child] = "live"]
          /\ cli' = IF cli.fg THEN [cli EXCEPT !.at = "wait"] ELSE Idle
       \/ /\ procs' = [procs EXCEPT ![cli.child] = "zombie"]
          /\ cli' = [cli EXCEPT !.at = "term"]
    /\ UNCHANGED <<memory, disk, kids, lost, dirty>>

(* The child is dead: nobody reads the trigger pipe, and the write kills    *)
(* the simulator by SIGPIPE, which it neither ignores nor handles.          *)
TriggerBrokenPipe ==
    /\ cli.at = "trigger" /\ procs[cli.child] = "zombie"
    /\ ProcessEnds
    /\ UNCHANGED <<disk, dirty>>

(* wait_for_container_process of a foreground run. *)
WaitForeground ==
    /\ cli.at = "wait"
    /\ procs[cli.child] = "zombie"
    /\ procs' = [procs EXCEPT ![cli.child] = "free"]
    /\ kids' = kids \ {cli.child}
    /\ state' = [state EXCEPT ![cli.id] = "STOPPED"]
    /\ pid' = [pid EXCEPT ![cli.id] = NoPid]
    /\ save_metadata(state', pid')
    /\ cli' = Idle
    /\ UNCHANGED <<up, nextSeq, lost>>

(* SIGINT interrupts the wait (main.c installs its handler without          *)
(* SA_RESTART): the container goes on in the background.                    *)
WaitInterrupted ==
    /\ cli.at = "wait"
    /\ cli' = Idle
    /\ UNCHANGED <<memory, disk, kernel, lost, dirty>>

-----------------------------------------------------------------------------
(* stop_container_process, for stop, for a start that failed and for exit *)

Target == pid[cli.id]

AfterStop == IF cli.closing THEN [Idle EXCEPT !.at = "closing", !.closing = TRUE, !.todo = cli.todo]
                            ELSE Idle

StopBegin ==
    /\ cli.at = "stop" /\ Active(cli.id)
    /\ cli' = [cli EXCEPT !.at = "term"]
    /\ UNCHANGED <<memory, disk, kernel, lost, dirty>>

(* SIGTERM; if it cannot be sent the grace period is skipped. *)
SendTerm ==
    /\ cli.at = "term" /\ Target \in Pids
    /\ \/ procs[Target] # "free" /\ cli' = [cli EXCEPT !.at = "grace"]
       \/ procs[Target] \in {"free", "host"} /\ cli' = [cli EXCEPT !.at = "kill"]
    /\ UNCHANGED <<memory, disk, kernel, lost, dirty>>

(* Mutant: it returns as soon as the child is reaped. *)
GraceReap_EarlyReturn ==
    /\ cli.at = "grace" /\ Target \in kids /\ procs[Target] = "zombie"
    /\ procs' = [procs EXCEPT ![Target] = "free"]
    /\ kids' = kids \ {Target}
    /\ cli' = AfterStop
    /\ UNCHANGED <<memory, disk, lost, dirty>>

(* waitpid(pid, WNOHANG) every 100 ms: it reaps the child... *)
GraceReap ==
    /\ cli.at = "grace" /\ Target \in kids /\ procs[Target] = "zombie"
    /\ procs' = [procs EXCEPT ![Target] = "free"]
    /\ kids' = kids \ {Target}
    /\ cli' = [cli EXCEPT !.at = "final"]
    /\ UNCHANGED <<memory, disk, lost, dirty>>

(* Mutant: the record is finished without SIGKILL. *)
GraceTimeout_NoKill ==
    /\ cli.at = "grace" /\ Target \in kids
    /\ cli' = [cli EXCEPT !.at = "final"]
    /\ UNCHANGED <<memory, disk, kernel, lost, dirty>>

(* ... or the ticks run out; ... *)
GraceTimeout ==
    /\ cli.at = "grace" /\ Target \in kids
    /\ cli' = [cli EXCEPT !.at = "kill"]
    /\ UNCHANGED <<memory, disk, kernel, lost, dirty>>

(* ... for a process that is no child it fails with ECHILD and the loop is  *)
(* left at once.                                                            *)
GraceNoChild ==
    /\ cli.at = "grace" /\ Target \in Pids \ kids
    /\ cli' = [cli EXCEPT !.at = "kill"]
    /\ UNCHANGED <<memory, disk, kernel, lost, dirty>>

(* SIGKILL and a blocking waitpid, which may find no such child. *)
SendKill ==
    /\ cli.at = "kill" /\ Target \in Pids
    /\ procs' = [procs EXCEPT ![Target] = "free"]
    /\ kids' = kids \ {Target}
    /\ cli' = [cli EXCEPT !.at = "final"]
    /\ UNCHANGED <<memory, disk, lost, dirty>>

(* The pid belongs to a process that may not be signalled: the stop fails   *)
(* and the record stays as it is.                                           *)
KillDenied ==
    /\ cli.at = "kill" /\ Target \in Pids /\ procs[Target] = "host"
    /\ cli' = AfterStop
    /\ UNCHANGED <<memory, disk, kernel, lost, dirty>>

(* SIGINT interrupts the waitpid after SIGKILL: the stop fails as well, and *)
(* the record names a dead child.                                           *)
KillInterrupted ==
    /\ cli.at = "kill" /\ Target \in kids
    /\ procs' = [procs EXCEPT ![Target] = "zombie"]
    /\ cli' = AfterStop
    /\ UNCHANGED <<memory, disk, kids, lost, dirty>>

(* Mutant: the record is cleared and not saved. *)
StopFinal_NoSave ==
    /\ cli.at = "final"
    /\ state' = [state EXCEPT ![cli.id] = "STOPPED"]
    /\ pid' = [pid EXCEPT ![cli.id] = NoPid]
    /\ cli' = AfterStop
    /\ UNCHANGED <<up, nextSeq, disk, kernel, lost, dirty>>

StopFinal ==
    /\ cli.at = "final"
    /\ state' = [state EXCEPT ![cli.id] = "STOPPED"]
    /\ pid' = [pid EXCEPT ![cli.id] = NoPid]
    /\ save_metadata(state', pid')
    /\ cli' = AfterStop
    /\ UNCHANGED <<up, nextSeq, kernel, lost>>

StopStep ==
    \/ SendTerm \/ GraceReap \/ GraceTimeout \/ GraceNoChild
    \/ SendKill \/ KillDenied \/ KillInterrupted \/ StopFinal

-----------------------------------------------------------------------------
(* delete, prune, pause, unpause, exit *)

(* Mutant: an active container is deleted as well. *)
container_delete_Unguarded ==
    /\ cli.at = "delete"
    /\ state' = [state EXCEPT ![cli.id] = "NONE"]
    /\ pid' = [pid EXCEPT ![cli.id] = NoPid]
    /\ SaveOK(state', pid')
    /\ cli' = Idle
    /\ UNCHANGED <<up, nextSeq, kernel, lost>>

(* container_delete puts the record back when the save fails. *)
container_delete ==
    /\ cli.at = "delete" /\ ~Active(cli.id)
    /\ \/ /\ state' = [state EXCEPT ![cli.id] = "NONE"]
          /\ pid' = [pid EXCEPT ![cli.id] = NoPid]
          /\ SaveOK(state', pid')
       \/ SaveFails /\ UNCHANGED <<state, pid>>
    /\ cli' = Idle
    /\ UNCHANGED <<up, nextSeq, kernel, lost>>

(* Mutant: the numbering starts from 1 again. *)
container_prune_all_FromOne ==
    /\ cli.at = "prune"
    /\ state' = [c \in Ids |-> IF Active(c) THEN state[c] ELSE "NONE"]
    /\ pid' = [c \in Ids |-> IF Active(c) THEN pid[c] ELSE NoPid]
    /\ nextSeq' = 1
    /\ save_metadata(state', pid')
    /\ cli' = Idle
    /\ UNCHANGED <<up, kernel, lost>>

(* container_prune_all also winds the numbering back. *)
container_prune_all ==
    /\ cli.at = "prune"
    /\ state' = [c \in Ids |-> IF Active(c) THEN state[c] ELSE "NONE"]
    /\ pid' = [c \in Ids |-> IF Active(c) THEN pid[c] ELSE NoPid]
    /\ nextSeq' = NextAfter(state')
    /\ save_metadata(state', pid')
    /\ cli' = Idle
    /\ UNCHANGED <<up, kernel, lost>>

(* SIGSTOP or SIGCONT reaches any process that has the pid. *)
SetPaused(op, from, to) ==
    /\ cli.at = op /\ state[cli.id] = from /\ is_pid_alive(pid[cli.id])
    /\ state' = [state EXCEPT ![cli.id] = to]
    /\ save_metadata(state', pid)
    /\ cli' = Idle
    /\ UNCHANGED <<up, pid, nextSeq, kernel, lost>>

container_pause   == SetPaused("pause", "RUNNING", "PAUSED")
container_unpause == SetPaused("unpause", "PAUSED", "RUNNING")

(* Mutant: PAUSED containers are passed over. *)
CloseVisit_RunningOnly(c) ==
    /\ cli.at = "closing" /\ c \in cli.todo
    /\ cli' = [cli EXCEPT !.at = IF state[c] = "RUNNING" THEN "term" ELSE "closing",
                          !.id = c, !.todo = cli.todo \ {c}]
    /\ UNCHANGED <<memory, disk, kernel, lost, dirty>>

(* Mutant: the walk does not leave a record whose stop failed. *)
CloseVisit_Again(c) ==
    /\ cli.at = "closing" /\ c \in cli.todo
    /\ cli' = [cli EXCEPT !.at = IF Active(c) THEN "term" ELSE "closing", !.id = c,
                          !.todo = IF Active(c) THEN cli.todo ELSE cli.todo \ {c}]
    /\ UNCHANGED <<memory, disk, kernel, lost, dirty>>

(* cleanup_all_containers visits every record, stops the active ones, saves *)
(* and frees the list; then the program ends.                               *)
CloseVisit(c) ==
    /\ cli.at = "closing" /\ c \in cli.todo
    /\ cli' = [cli EXCEPT !.at = IF Active(c) THEN "term" ELSE "closing",
                          !.id = c, !.todo = cli.todo \ {c}]
    /\ UNCHANGED <<memory, disk, kernel, lost, dirty>>

CloseEnd ==
    /\ cli.at = "closing" /\ cli.todo = {}
    /\ save_metadata(state, pid)
    /\ ProcessEnds

-----------------------------------------------------------------------------
CliStep ==
    \/ Refused
    \/ StartCloneFails \/ HandshakeFails \/ HandshakeReady \/ StartSave
    \/ \E p \in Pids : StartClone(p)
    \/ TriggerExec \/ TriggerBrokenPipe \/ WaitForeground \/ WaitInterrupted
    \/ StopBegin \/ StopStep
    \/ container_delete \/ container_prune_all \/ container_pause \/ container_unpause
    \/ CloseEnd \/ \E c \in Ids : CloseVisit(c)

Environment == \E p \in Pids : ProcExit(p) \/ HostSpawn(p) \/ HostExit(p)

Next ==
    \/ container_manager_init
    \/ Command \/ Create \/ Run
    \/ CliStep
    \/ Environment
    \/ Crash

Spec == Init /\ [][Next]_vars

(* The thread of the command line keeps running while the simulator is up.  *)
(* Nothing is assumed of the processes, of the user or of the next start.   *)
FairSpec == Spec /\ WF_vars(StopStep) /\ WF_vars(CloseEnd)
                 /\ WF_vars(\E c \in Ids : CloseVisit(c))

-----------------------------------------------------------------------------
(* Properties *)

(* A container number is given to one container at a time: every listed     *)
(* number is below the next one, whatever create failed, whatever prune     *)
(* wound back and whatever the file brought (next_sequence).                *)
FreshIds == \A c \in Ids : state[c] # "NONE" => c < nextSeq

(* While the simulator is up, every process that runs a user's command is   *)
(* the process of a RUNNING or PAUSED record, so that stop, delete and exit *)
(* can reach it; the only ones it lost track of are those a start took over *)
(* from a PAUSED record or that a vanished metadata file no longer names.   *)
NoForgottenProcess ==
    up => \A p \in Pids : procs[p] = "live" /\ p \notin lost =>
                \E c \in Ids : Active(c) /\ pid[c] = p

(* start_container_by_id saves the metadata before it lets the child exec:  *)
(* at every instant at which the simulator can be killed, every process     *)
(* that runs a user's command is in the metadata file with its pid, as long *)
(* as the file exists.                                                      *)
ExecRecorded ==
    there => \A p \in Pids : procs[p] = "live" /\ p \notin lost =>
                \E c \in Ids : FActive(c) /\ fpid[c] = p

(* Back at the prompt the file says of every container what the list says  *)
(* of it, state and pid, but for the records in dirty: every one after a    *)
(* save_metadata that failed, those container_manager_init found dead and   *)
(* did not save, and one whose start failed before its save and whose stop  *)
(* then failed too.  The next save that succeeds takes all of them out.     *)
SavedAtPrompt ==
    up /\ cli.at = "prompt" =>
        \A c \in Ids \ dirty : fstate[c] = state[c] /\ fpid[c] = pid[c]

(* A zombie keeps its pid until it is waited for, so a record may trust its *)
(* pid as long as nobody else reaps the process.  A child that a record     *)
(* names is reaped by code that works on a record with that pid, which is   *)
(* STOPPED in the same step or is about to be (stop_container_process), and *)
(* never behind its back.  With pid reuse a restored record, whose process  *)
(* is gone, may share its pid with one started since or about to start.     *)
ReapedByOwner ==
    [][\A c \in Ids : Active(c) /\ pid[c] \in kids \ kids' /\ up' =>
        \/ cli.at = "handshake" /\ cli.child = pid[c]
        \/ \E d \in Ids :
            /\ pid[d] = pid[c]
            /\ state'[d] = "STOPPED" \/ (cli'.at = "final" /\ cli'.id = d)]_vars

(* exit stops what it started: when cleanup_all_containers is through, no   *)
(* user process is left but the lost ones.                                  *)
CleanExit == [][CloseEnd => \A p \in Pids : procs[p] = "live" => p \in lost]_vars

(* stop_container_process ends the process it was called for, however the   *)
(* process reacts to SIGTERM, unless the simulator is killed meanwhile.     *)
StopKills ==
    \A p \in Pids :
        (cli.at = "term" /\ Target = p /\ procs[p] = "live") ~> (procs[p] # "live" \/ ~up)

(* exit comes to its end. *)
ExitEnds == (cli.at = "closing") ~> ~up

(* The inductive invariant behind NoForgottenProcess and ExecRecorded; it   *)
(* also holds while web threads poll.                                       *)

(* A simulator that is not running has no list and no command. *)
DownIsEmpty == ~up => state = NoStates /\ cli = Idle

(* From the clone on the command line knows its child.  Once the record has *)
(* been filled in, it names the child as long as nobody has reaped it       *)
(* (another thread may, see ContainerWeb), and so does the file by the time *)
(* of the trigger.                                                          *)
ChildReaped == cli.child \notin kids /\ procs[cli.child] \in {"free", "host"}

ChildKnown ==
    /\ cli.at \in {"handshake", "save", "trigger", "wait"} =>
            cli.child \in Pids /\ (cli.child \in kids \/ ChildReaped)
    /\ cli.at \in {"save", "trigger", "wait"} =>
            \/ state[cli.id] = "RUNNING" /\ pid[cli.id] = cli.child
            \/ pid[cli.id] = NoPid /\ ChildReaped
    /\ cli.at = "trigger" /\ there =>
            (FActive(cli.id) /\ fpid[cli.id] = cli.child) \/ ChildReaped

(* The container a command works on stays in the list. *)
IdListed == cli.at \notin {"prompt", "prune", "closing"} => state[cli.id] # "NONE"

(* When stop_container_process clears the record its process is dead. *)
FinalIsDead == cli.at = "final" => \A p \in Pids : p = Target => procs[p] # "live"

IInv ==
    /\ TypeOK
    /\ DownIsEmpty
    /\ FreshIds
    /\ NoForgottenProcess
    /\ ExecRecorded
    /\ ChildKnown
    /\ IdListed
    /\ FinalIsDead
=============================================================================
