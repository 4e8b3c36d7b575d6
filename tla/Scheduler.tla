------------------------------ MODULE Scheduler ------------------------------
(***************************************************************************)
(* The round-robin scheduler of scheduler.c, with the commands of          *)
(* container.c and main.c that feed it.  Its thread stops one process and  *)
(* resumes the next by signals; it picks the two under its mutex and sends *)
(* the signals after releasing it, so that a command may come in between.  *)
(*                                                                         *)
(* Containers are 1..N in the order of the manager's list.  Each runs one  *)
(* process, named by the same number, and is started once: a pid does not  *)
(* come back.  Foreground runs, which are never targets and during which   *)
(* no command is read, are left out, and so is the length of a slice.      *)
(***************************************************************************)
EXTENDS Naturals, Sequences, SequencesExt, FiniteSets, SeqFilter

CONSTANTS
    N,          \* number of containers
    MaxCmds     \* bound: number of commands typed in a session

ASSUME NAssumption == N \in Nat \ {0}
ASSUME CmdsAssumption == MaxCmds \in Nat

C == 1 .. N

VARIABLES
    enabled,    \* g_state.enabled
    targets,    \* g_state.targets[0 .. target_count)
    index,      \* g_state.current_index
    stopReq,    \* g_state.stop_requested
    thread,     \* where the scheduler's thread is
    current,    \* its local variables: whom to stop
    next,       \* ... and whom to resume
    state,      \* Container.state
    proc,       \* what the kernel does with each container's process
    restored,   \* containers read from the metadata file at startup, still
                \* running but no children of this simulator
    cli,        \* where the command line is
    cmds,       \* commands typed so far
    pauses      \* history: has a container been paused?

sched == <<enabled, targets, index, stopReq>>
local == <<thread, current, next>>
vars  == <<sched, local, state, proc, restored, cli, cmds, pauses>>

TypeOK ==
    /\ enabled \in BOOLEAN /\ stopReq \in BOOLEAN
    /\ targets \in Seq(C) /\ index \in 0 .. N
    /\ thread \in {"none", "loop", "stop", "cont", "exited"}
    /\ current \in C /\ next \in C
    /\ state \in [C -> {"CREATED", "RUNNING", "PAUSED", "STOPPED"}]
    /\ proc \in [C -> {"none", "run", "stopped", "zombie", "gone"}]
    /\ restored \in SUBSET C
    /\ cli \in [at : {"prompt", "enable", "clear", "add", "signal",
                      "stopping", "reaped", "join", "done"},
                i : 1 .. (N + 1), first : 0 .. N]
    /\ cmds \in 0 .. MaxCmds /\ pauses \in BOOLEAN

Prompt == [at |-> "prompt", i |-> 1, first |-> 0]

Init ==
    /\ enabled = FALSE /\ targets = <<>> /\ index = 0 /\ stopReq = FALSE
    /\ thread = "none" /\ current = 1 /\ next = 1
    /\ restored \in SUBSET C
    /\ state = [c \in C |-> IF c \in restored THEN "RUNNING" ELSE "CREATED"]
    /\ proc = [c \in C |-> IF c \in restored THEN "run" ELSE "none"]
    /\ cli = Prompt /\ cmds = 0 /\ pauses = FALSE

-----------------------------------------------------------------------------
(* The kernel *)

(* pid_is_alive: a zombie still answers to kill(pid, 0). *)
pid_is_alive(c) == proc[c] \in {"run", "stopped", "zombie"}

Sigstop(c) == [proc EXCEPT ![c] = IF @ = "run" THEN "stopped" ELSE @]
Sigcont(S) == [c \in C |-> IF c \in S /\ proc[c] = "stopped" THEN "run" ELSE proc[c]]

(* A process ends while it runs, not while it is stopped.  init reaps the   *)
(* restored ones.                                                           *)
ProcExit(c) ==
    /\ proc[c] = "run"
    /\ proc' = [proc EXCEPT ![c] = IF c \in restored THEN "gone" ELSE "zombie"]
    /\ UNCHANGED <<sched, local, state, restored, cli, cmds, pauses>>

-----------------------------------------------------------------------------
(* The target list, each operation under the mutex *)

Add(s, c) == IF c \in ToSet(s) THEN s ELSE Append(s, c)

(* Mutant: the last target is cut off, but not moved into the gap. *)
Drop_NoSwap(s, c) ==
    IF c \notin ToSet(s) THEN s ELSE SubSeq(s, 1, Len(s) - 1)

(* The last target takes the place of the removed one. *)
Drop(s, c) ==
    IF c \notin ToSet(s) THEN s
    ELSE LET k == CHOOSE j \in DOMAIN s : s[j] = c
         IN  SubSeq([s EXCEPT ![k] = s[Len(s)]], 1, Len(s) - 1)

(* current_index starts again from 0 when it is past the end. *)
InRange(k, s) == IF k >= Len(s) THEN 0 ELSE k

scheduler_add_target(c) == targets' = Add(targets, c) /\ UNCHANGED index

scheduler_remove_target(c) ==
    /\ targets' = Drop(targets, c)
    /\ index' = InRange(index, targets')

scheduler_clear_targets == targets' = <<>> /\ index' = 0

-----------------------------------------------------------------------------
(* scheduler_thread_main *)

(* prune_dead_locked *)
Pruned == Filter(targets, {k \in DOMAIN targets : pid_is_alive(targets[k])})

(* Mutant: the request is looked at only while scheduling is on. *)
ThreadExit_WhenEnabled ==
    /\ thread = "loop" /\ stopReq /\ enabled
    /\ thread' = "exited"
    /\ UNCHANGED <<sched, current, next, state, proc, cli, cmds, restored, pauses>>

(* One round under the mutex.  Inactive, or with a single target, it        *)
(* resumes everyone; else it picks the two processes to signal.             *)
ThreadExit ==
    /\ thread = "loop" /\ stopReq
    /\ thread' = "exited"
    /\ UNCHANGED <<sched, current, next, state, proc, cli, cmds, restored, pauses>>

(* Mutant: nobody is resumed. *)
ThreadIdle_NoResume ==
    /\ thread = "loop" /\ ~stopReq
    /\ ~enabled \/ Len(Pruned) < 2
    /\ targets' = Pruned /\ index' = InRange(index, Pruned)
    /\ UNCHANGED <<enabled, stopReq, local, state, proc, cli, cmds, restored, pauses>>

ThreadIdle ==
    /\ thread = "loop" /\ ~stopReq
    /\ ~enabled \/ Len(Pruned) < 2
    /\ targets' = Pruned /\ index' = InRange(index, Pruned)
    /\ proc' = Sigcont(ToSet(Pruned))
    /\ UNCHANGED <<enabled, stopReq, local, state, cli, cmds, restored, pauses>>

ThreadPick ==
    /\ thread = "loop" /\ ~stopReq
    /\ enabled /\ Len(Pruned) >= 2
    /\ targets' = Pruned
    /\ LET k == InRange(index, Pruned)
       IN  /\ current' = Pruned[k + 1]
           /\ index' = (k + 1) % Len(Pruned)
           /\ next' = Pruned[index' + 1]
    /\ thread' = "stop"
    /\ UNCHANGED <<enabled, stopReq, state, proc, cli, cmds, restored, pauses>>

(* Mutant: the process whose slice is over is not stopped. *)
ThreadStop_NoSignal ==
    /\ thread = "stop"
    /\ thread' = "cont"
    /\ UNCHANGED <<sched, current, next, state, proc, cli, cmds, restored, pauses>>

(* The signals, without the mutex. *)
ThreadStop ==
    /\ thread = "stop"
    /\ proc' = Sigstop(current)
    /\ thread' = "cont"
    /\ UNCHANGED <<sched, current, next, state, cli, cmds, restored, pauses>>

ThreadCont ==
    /\ thread = "cont"
    /\ proc' = Sigcont({next})
    /\ thread' = "loop"
    /\ UNCHANGED <<sched, current, next, state, cli, cmds, restored, pauses>>

ThreadStep == ThreadExit \/ ThreadIdle \/ ThreadPick \/ ThreadStop \/ ThreadCont

-----------------------------------------------------------------------------
(* The commands *)

(* poll_states, with which the commands on containers begin, has reaped     *)
(* every RUNNING container that has exited ...                              *)
Polled == \A c \in C : state[c] = "RUNNING" => proc[c] \notin {"zombie", "gone"}

(* ... one by one: sync_container_state tells the scheduler about a child   *)
(* it has reaped, ...                                                       *)
PollReap(c) ==
    /\ cli.at = "prompt" /\ state[c] = "RUNNING" /\ proc[c] = "zombie"
    /\ proc' = [proc EXCEPT ![c] = "gone"]
    /\ state' = [state EXCEPT ![c] = "STOPPED"]
    /\ scheduler_remove_target(c)
    /\ UNCHANGED <<enabled, stopReq, local, cli, cmds, restored, pauses>>

(* ... but not about a process that was no child and is found gone. *)
PollGone(c) ==
    /\ cli.at = "prompt" /\ state[c] = "RUNNING" /\ proc[c] = "gone"
    /\ state' = [state EXCEPT ![c] = "STOPPED"]
    /\ UNCHANGED <<sched, local, proc, cli, cmds, restored, pauses>>

Typed ==
    /\ cli.at = "prompt" /\ cmds < MaxCmds
    /\ cmds' = cmds + 1

(* start_container_by_id with schedule_target set. *)
container_start(c) ==
    /\ Typed /\ Polled /\ state[c] = "CREATED"
    /\ state' = [state EXCEPT ![c] = "RUNNING"]
    /\ proc' = [proc EXCEPT ![c] = "run"]
    /\ scheduler_add_target(c)
    /\ UNCHANGED <<enabled, stopReq, local, cli, restored, pauses>>

(* pause and unpause leave the target list alone. *)
container_pause(c) ==
    /\ Typed /\ Polled /\ state[c] = "RUNNING"
    /\ proc' = Sigstop(c)
    /\ state' = [state EXCEPT ![c] = "PAUSED"]
    /\ pauses' = TRUE
    /\ UNCHANGED <<sched, local, cli, restored>>

container_unpause(c) ==
    /\ Typed /\ Polled /\ state[c] = "PAUSED"
    /\ proc' = Sigcont({c})
    /\ state' = [state EXCEPT ![c] = "RUNNING"]
    /\ UNCHANGED <<sched, local, cli, restored, pauses>>

(* stop_container_process: a PAUSED container is resumed so that SIGTERM    *)
(* reaches it; one that the scheduler has stopped is not.                   *)
container_stop(c) ==
    /\ Typed /\ Polled /\ state[c] \in {"RUNNING", "PAUSED"}
    /\ proc' = IF state[c] = "PAUSED" THEN Sigcont({c}) ELSE proc
    /\ cli' = [cli EXCEPT !.at = "stopping", !.i = c]
    /\ UNCHANGED <<sched, local, state, restored, pauses>>

(* It has exited in the grace period or is killed, and is reaped. *)
StopReap ==
    /\ cli.at = "stopping"
    /\ proc' = [proc EXCEPT ![cli.i] = "gone"]
    /\ cli' = [cli EXCEPT !.at = "reaped"]
    /\ UNCHANGED <<sched, local, state, cmds, restored, pauses>>

(* Mutant: the scheduler is not told. *)
StopFinal_KeepsTarget ==
    /\ cli.at = "reaped"
    /\ state' = [state EXCEPT ![cli.i] = "STOPPED"]
    /\ cli' = Prompt
    /\ UNCHANGED <<sched, local, proc, cmds, restored, pauses>>

StopFinal ==
    /\ cli.at = "reaped"
    /\ scheduler_remove_target(cli.i)
    /\ state' = [state EXCEPT ![cli.i] = "STOPPED"]
    /\ cli' = Prompt
    /\ UNCHANGED <<enabled, stopReq, local, proc, cmds, restored, pauses>>

(* sched on: scheduler_start, set_enabled, refresh. *)
SchedOn ==
    /\ Typed
    /\ thread' = IF thread = "none" THEN "loop" ELSE thread
    /\ cli' = [Prompt EXCEPT !.at = "enable"]
    /\ UNCHANGED <<sched, current, next, state, proc, restored, pauses>>

SetEnabled ==
    /\ cli.at = "enable"
    /\ enabled' = TRUE
    /\ cli' = [Prompt EXCEPT !.at = "clear"]
    /\ UNCHANGED <<targets, index, stopReq, local, state, proc, cmds, restored, pauses>>

(* sched off: set_enabled, refresh. *)
SchedOff ==
    /\ Typed
    /\ enabled' = FALSE
    /\ cli' = [Prompt EXCEPT !.at = "clear"]
    /\ UNCHANGED <<targets, index, stopReq, local, state, proc, restored, pauses>>

-----------------------------------------------------------------------------
(* container_scheduler_refresh_targets *)

RefreshClear ==
    /\ cli.at = "clear"
    /\ scheduler_clear_targets
    /\ cli' = [Prompt EXCEPT !.at = "add"]
    /\ UNCHANGED <<enabled, stopReq, local, state, proc, cmds, restored, pauses>>

(* The first loop: every RUNNING container becomes a target. *)
RefreshAdd ==
    /\ cli.at = "add" /\ cli.i <= N
    /\ IF state[cli.i] = "RUNNING"
       THEN /\ scheduler_add_target(cli.i)
            /\ cli' = [cli EXCEPT !.i = cli.i + 1, !.first = IF cli.first = 0 THEN cli.i ELSE cli.first]
       ELSE /\ cli' = [cli EXCEPT !.i = cli.i + 1]
            /\ UNCHANGED <<targets, index>>
    /\ UNCHANGED <<enabled, stopReq, local, state, proc, cmds, restored, pauses>>

RefreshAdded ==
    /\ cli.at = "add" /\ cli.i = N + 1
    /\ cli' = [cli EXCEPT !.at = "signal", !.i = 1]
    /\ UNCHANGED <<sched, local, state, proc, cmds, restored, pauses>>

(* The second loop: stop all but the first, or resume all. *)
RefreshSignal ==
    /\ cli.at = "signal" /\ cli.i <= N
    /\ proc' = CASE state[cli.i] # "RUNNING" -> proc
                 [] state[cli.i] = "RUNNING" /\ ~enabled -> Sigcont({cli.i})
                 [] OTHER -> IF cli.i = cli.first THEN proc ELSE Sigstop(cli.i)
    /\ cli' = [cli EXCEPT !.i = cli.i + 1]
    /\ UNCHANGED <<sched, local, state, cmds, restored, pauses>>

RefreshFirst ==
    /\ cli.at = "signal" /\ cli.i = N + 1
    /\ proc' = IF enabled /\ cli.first # 0 THEN Sigcont({cli.first}) ELSE proc
    /\ cli' = Prompt
    /\ UNCHANGED <<sched, local, state, cmds, restored, pauses>>

Refresh == RefreshClear \/ RefreshAdd \/ RefreshAdded \/ RefreshSignal \/ RefreshFirst

-----------------------------------------------------------------------------
(* exit: when cleanup_all_containers has stopped everything, scheduler_stop *)
(* asks the thread to end and joins it.                                     *)
SchedulerStop ==
    /\ cli.at = "prompt"
    /\ \A c \in C : state[c] \in {"CREATED", "STOPPED"}
    /\ IF thread = "none"
       THEN cli' = [Prompt EXCEPT !.at = "done"] /\ UNCHANGED stopReq
       ELSE cli' = [Prompt EXCEPT !.at = "join"] /\ stopReq' = TRUE
    /\ UNCHANGED <<enabled, targets, index, local, state, proc, cmds, restored, pauses>>

SchedulerJoin ==
    /\ cli.at = "join" /\ thread = "exited"
    /\ stopReq' = FALSE
    /\ thread' = "none"
    /\ cli' = [Prompt EXCEPT !.at = "done"]
    /\ UNCHANGED <<enabled, targets, index, current, next, state, proc, cmds, restored, pauses>>

-----------------------------------------------------------------------------
(* What the command line does by itself once a command is typed. *)
CliStep == StopReap \/ StopFinal \/ SetEnabled \/ Refresh \/ SchedulerJoin

User ==
    \/ \E c \in C : \/ PollReap(c) \/ PollGone(c) \/ container_start(c) \/ container_stop(c)
                    \/ container_pause(c) \/ container_unpause(c)
    \/ SchedOn \/ SchedOff \/ SchedulerStop

Next == ThreadStep \/ CliStep \/ User \/ \E c \in C : ProcExit(c)

Spec == Init /\ [][Next]_vars

(* The two threads are scheduled by the kernel; users and processes are     *)
(* under no obligation.                                                     *)
FairSpec == Spec /\ WF_vars(ThreadStep) /\ WF_vars(CliStep)

-----------------------------------------------------------------------------
(* Properties *)

(* The target list has no duplicates, and the index the thread uses without *)
(* looking is within it, whatever add, remove by swap, prune and clear did. *)
(* The targets are processes of containers that the manager still has as    *)
(* RUNNING or PAUSED: the list keeps no pid that the kernel may give to a   *)
(* stranger.  (The two pids that the thread has read and signals after it   *)
(* released the mutex are not on the list.)  The exception are restored     *)
(* containers, which sync_container_state does not take off the list.       *)
TargetsOK ==
    /\ TypeOK
    /\ IsInjective(targets)
    /\ index = 0 \/ index < Len(targets)
    /\ \A c \in ToSet(targets) \ restored : state[c] \in {"RUNNING", "PAUSED"}

(* Unless pause is used: a RUNNING process that is stopped is a target, so  *)
(* that the thread will come to it, or a refresh is about to add it.        *)
StoppedIsTarget ==
    ~pauses => \A c \in C :
        state[c] = "RUNNING" /\ proc[c] = "stopped" =>
            \/ c \in ToSet(targets)
            \/ cli.at = "add" /\ cli.i <= c

(* Unless pause is used, no RUNNING container stays stopped for ever: it    *)
(* gets its slice while scheduling is on and is resumed when it is off.     *)
NoStarvation ==
    \A c \in C : (state[c] = "RUNNING" /\ proc[c] = "stopped") ~>
                    (proc[c] # "stopped" \/ state[c] # "RUNNING" \/ pauses)

(* Time is shared one at a time: if commands and exits cease, then from     *)
(* some round on at most one target runs whenever the thread sleeps.        *)
OneAtATime ==
    <>[][ThreadStep]_vars =>
        <>[](thread = "loop" /\ enabled /\ Len(targets) >= 2 =>
                Cardinality({c \in ToSet(targets) : proc[c] = "run"}) <= 1)

(* scheduler_stop returns: the thread sees the request and is joined. *)
JoinReturns == (cli.at = "join") ~> (cli.at = "done")

=============================================================================
