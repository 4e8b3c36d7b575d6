------------------------------ MODULE Launcher ------------------------------
(***************************************************************************)
(* The hand-shake of namespace.c by which a thread of the simulator starts *)
(* a container: four pipes between the thread and the child it clones.     *)
(* The command line and the orchestrator's monitor may launch at the same  *)
(* time.  A clone copies the whole table of file descriptors, so a child   *)
(* holds the ends of its own pipes that it never uses and, if it is cloned *)
(* in the middle of the other launch, ends of the other one's pipes.       *)
(*                                                                         *)
(* What the child does to isolate itself is one step that may fail.        *)
(***************************************************************************)
EXTENDS Naturals

CONSTANT N              \* bound: number of launches in a session

ASSUME NAssumption == N \in Nat

(* The odd ones are those of the command line, the even ones those of the   *)
(* monitor.                                                                 *)
Launches == 1 .. N

VARIABLES
    up,         \* is the simulator running?
    pc,         \* where the thread of a launch is
    child,      \* where its child is
    msg,        \* what waits in each pipe, "" when empty
    sim,        \* the ends of pipes that the simulator has open
    fds,        \* those that each child has open
    cloexec,    \* the launches whose exec_pipe[1] is marked FD_CLOEXEC
    marked      \* those marked in the copy of the table that a child has

marks == <<cloexec, marked>>
vars  == <<up, pc, child, msg, sim, fds, marks>>

Pipes == {"continue", "status", "trigger", "exec"}
Ends  == Launches \X Pipes \X {"r", "w"}

Of(l, S) == {e \in S : e[1] = l}
Both(l, p) == {<<l, p, "r">>, <<l, p, "w">>}

(* A launch has returned: the container runs, it could not be started, or   *)
(* start_container_by_id gave it up after the hand-shake.                   *)
Returned == {"ok", "failed", "givenup"}

(* A child that is gone: its program has ended, it was killed from outside  *)
(* before it ran any, or it gave up by itself or was stopped by its launch. *)
Gone == {"exited", "killed", "dead"}

TypeOK ==
    /\ up \in BOOLEAN
    /\ pc \in [Launches -> {"idle", "pipe1", "pipe2", "pipe3", "pipe4", "opened", "cloned",
                            "closed", "continue", "status", "ready", "exec", "kill", "reap"}
                           \cup Returned]
    /\ child \in [Launches -> {"none", "continue", "setup", "trigger", "exec", "runs"} \cup Gone]
    /\ msg \in [Launches \X Pipes -> {"", "1", "ready", "error"}]
    /\ sim \in SUBSET Ends
    /\ fds \in [Launches -> SUBSET Ends]
    /\ cloexec \in SUBSET Launches
    /\ marked \in [Launches -> SUBSET Launches]

Init ==
    /\ up = TRUE
    /\ pc = [l \in Launches |-> "idle"]
    /\ child = [l \in Launches |-> "none"]
    /\ msg = [p \in Launches \X Pipes |-> ""]
    /\ sim = {}
    /\ fds = [l \in Launches |-> {}]
    /\ cloexec = {}
    /\ marked = [l \in Launches |-> {}]

-----------------------------------------------------------------------------
(* Pipes *)

(* Does any process have this end of the pipe? *)
Open(l, p, dir) == <<l, p, dir>> \in sim \cup UNION {fds[k] : k \in Launches}

(* A read returns a message, or 0 at the end of file. *)
CanRead(l, p) == msg[<<l, p>>] # "" \/ ~Open(l, p, "w")

Put(l, p, m) == msg' = [msg EXCEPT ![<<l, p>>] = m]
Take(l, p)   == Put(l, p, "")

-----------------------------------------------------------------------------
(* namespace_start_container *)

(* A thread does one launch after the other. *)
Free(l) == \A k \in Launches : k # l /\ k % 2 = l % 2 => pc[k] \in Returned \cup {"idle"}

Go(l, from, to) == up /\ pc[l] = from /\ pc' = [pc EXCEPT ![l] = to]

(* OPEN_PIPE: four calls of pipe(2). *)
PipeCalls == {<<"idle", "pipe1", "status">>, <<"pipe1", "pipe2", "exec">>,
              <<"pipe2", "pipe3", "continue">>, <<"pipe3", "pipe4", "trigger">>}

OpenPipe(l) ==
    /\ Free(l)
    /\ \E call \in PipeCalls :
         /\ Go(l, call[1], call[2])
         /\ sim' = sim \cup Both(l, call[3])
    /\ UNCHANGED <<up, child, msg, fds, marks>>

(* fcntl marks exec_pipe[1].  A child that the other thread has cloned      *)
(* since pipe(2) has it unmarked.                                           *)
MarkExec(l) ==
    /\ Go(l, "pipe4", "opened")
    /\ cloexec' = cloexec \cup {l}
    /\ UNCHANGED <<up, child, msg, sim, fds, marked>>

(* No more descriptors, fcntl or the clone fails: fail_pipes. *)
OpenFails(l) ==
    /\ Free(l)
    /\ \E from \in {"idle", "pipe1", "pipe2", "pipe3", "pipe4", "opened"} : Go(l, from, "failed")
    /\ sim' = sim \ Of(l, Ends)
    /\ UNCHANGED <<up, child, msg, fds, marks>>

Clone(l) ==
    /\ Go(l, "opened", "cloned")
    /\ child' = [child EXCEPT ![l] = "continue"]
    /\ fds' = [fds EXCEPT ![l] = sim]
    /\ marked' = [marked EXCEPT ![l] = cloexec]
    /\ UNCHANGED <<up, msg, sim, cloexec>>

CloseEnds(l) ==
    /\ Go(l, "cloned", "closed")
    /\ sim' = sim \ {<<l, "exec", "w">>, <<l, "status", "w">>,
                     <<l, "continue", "r">>, <<l, "trigger", "r">>}
    /\ UNCHANGED <<up, child, msg, fds, marks>>

(* configure_user_namespace and the set-up of the network. *)
Configure(l) ==
    /\ Go(l, "closed", "continue") \/ Go(l, "closed", "kill")
    /\ UNCHANGED <<up, child, msg, sim, fds, marks>>

(* The simulator ends: killed, or by the SIGPIPE of a write to a pipe that  *)
(* nobody reads, which it neither ignores nor handles.                      *)
SimulatorEnds ==
    /\ up' = FALSE /\ sim' = {}
    /\ UNCHANGED <<pc, child, msg, fds, marks>>

SendContinue(l) ==
    /\ Open(l, "continue", "r")
    /\ Go(l, "continue", "status")
    /\ Put(l, "continue", "1")
    /\ sim' = sim \ {<<l, "continue", "w">>}
    /\ UNCHANGED <<up, child, fds, marks>>

(* read_status: the child is ready, or it says what went wrong or has died  *)
(* without a word; then the ends that are left are closed and the child is  *)
(* waited for.                                                              *)
ReadStatus(l) ==
    /\ CanRead(l, "status")
    /\ \/ /\ msg[<<l, "status">>] = "ready" /\ Go(l, "status", "ready")
          /\ sim' = sim \ {<<l, "status", "r">>}
       \/ /\ msg[<<l, "status">>] # "ready" /\ Go(l, "status", "reap")
          /\ sim' = sim \ Of(l, Ends)
    /\ Take(l, "status")
    /\ UNCHANGED <<up, child, fds, marks>>

(* Mutant: the child is not killed. *)
FailKill_NoKill(l) ==
    /\ Go(l, "kill", "reap")
    /\ sim' = sim \ Of(l, Ends)
    /\ UNCHANGED <<up, child, msg, fds, marks>>

(* fail_kill *)
FailKill(l) ==
    /\ Go(l, "kill", "reap")
    /\ sim' = sim \ Of(l, Ends)
    /\ child' = [child EXCEPT ![l] = "dead"]
    /\ fds' = [fds EXCEPT ![l] = {}]
    /\ UNCHANGED <<up, msg, marks>>

(* waitpid *)
Reap(l) ==
    /\ child[l] \in Gone
    /\ Go(l, "reap", "failed")
    /\ UNCHANGED <<up, child, msg, sim, fds, marks>>

-----------------------------------------------------------------------------
(* The rest of start_container_by_id *)

(* The ports cannot be published or the metadata not be saved: the child is *)
(* killed, and the two descriptors of the result are forgotten.             *)
GiveUp(l) ==
    /\ Go(l, "ready", "givenup")
    /\ child' = [child EXCEPT ![l] = "dead"]
    /\ fds' = [fds EXCEPT ![l] = {}]
    /\ UNCHANGED <<up, msg, sim, marks>>

(* namespace_trigger_exec *)
SendTrigger(l) ==
    /\ Open(l, "trigger", "r")
    /\ Go(l, "ready", "exec")
    /\ Put(l, "trigger", "1")
    /\ sim' = sim \ {<<l, "trigger", "w">>}
    /\ UNCHANGED <<up, child, fds, marks>>

(* Mutant: an empty pipe is taken for its end. *)
ReadExec_NoWait(l) ==
    /\ msg[<<l, "exec">>] = "" /\ Go(l, "exec", "ok")
    /\ sim' = sim \ {<<l, "exec", "r">>}
    /\ UNCHANGED <<up, child, msg, fds, marks>>

(* Mutant: the descriptor is left open. *)
ReadExec_NoClose(l) ==
    /\ CanRead(l, "exec")
    /\ \/ msg[<<l, "exec">>] = "" /\ Go(l, "exec", "ok") /\ UNCHANGED <<child, fds>>
       \/ /\ msg[<<l, "exec">>] # "" /\ Go(l, "exec", "failed")
          /\ child' = [child EXCEPT ![l] = "dead"]
          /\ fds' = [fds EXCEPT ![l] = {}]
    /\ Take(l, "exec")
    /\ UNCHANGED <<up, sim, marks>>

(* read_exec_status: the end of file means that the exec has succeeded;     *)
(* after an error the container is stopped.                                 *)
ReadExec(l) ==
    /\ CanRead(l, "exec")
    /\ \/ msg[<<l, "exec">>] = "" /\ Go(l, "exec", "ok") /\ UNCHANGED <<child, fds>>
       \/ /\ msg[<<l, "exec">>] # "" /\ Go(l, "exec", "failed")
          /\ child' = [child EXCEPT ![l] = "dead"]
          /\ fds' = [fds EXCEPT ![l] = {}]
    /\ Take(l, "exec")
    /\ sim' = sim \ {<<l, "exec", "r">>}
    /\ UNCHANGED <<up, marks>>

(* A write to a pipe that nobody reads. *)
BrokenPipe(l) ==
    /\ up
    /\ \/ pc[l] = "continue" /\ ~Open(l, "continue", "r")
       \/ pc[l] = "ready" /\ ~Open(l, "trigger", "r")
    /\ SimulatorEnds

Crash == up /\ SimulatorEnds

-----------------------------------------------------------------------------
(* namespace_child *)

ChildEnds(l, how) ==
    /\ child' = [child EXCEPT ![l] = how]
    /\ fds' = [fds EXCEPT ![l] = {}]

ChildDies(l) == ChildEnds(l, "dead")

(* It closes the end it has read from, and gives up at an end of file. *)
ReadContinue(l) ==
    /\ child[l] = "continue" /\ CanRead(l, "continue")
    /\ IF msg[<<l, "continue">>] = "1"
       THEN /\ child' = [child EXCEPT ![l] = "setup"]
            /\ fds' = [fds EXCEPT ![l] = @ \ {<<l, "continue", "r">>}]
            /\ Take(l, "continue")
       ELSE Put(l, "status", "error") /\ ChildDies(l)
    /\ UNCHANGED <<up, pc, sim, marks>>

(* Isolation, limits and security, and the report to the parent. *)
Setup(l) ==
    /\ child[l] = "setup"
    /\ \/ /\ child' = [child EXCEPT ![l] = "trigger"]
          /\ fds' = [fds EXCEPT ![l] = @ \ {<<l, "status", "w">>}]
          /\ Put(l, "status", "ready")
       \/ Put(l, "status", "error") /\ ChildDies(l)
    /\ UNCHANGED <<up, pc, sim, marks>>

ReadTrigger(l) ==
    /\ child[l] = "trigger" /\ CanRead(l, "trigger")
    /\ IF msg[<<l, "trigger">>] = "1"
       THEN /\ child' = [child EXCEPT ![l] = "exec"]
            /\ fds' = [fds EXCEPT ![l] = @ \ {<<l, "trigger", "r">>}]
            /\ Take(l, "trigger")
       ELSE ChildDies(l) /\ UNCHANGED msg
    /\ UNCHANGED <<up, pc, sim, marks>>

(* Mutant: exec_pipe[1] is never marked. *)
Exec_NoCloexec(l) ==
    /\ child[l] = "exec"
    /\ \/ child' = [child EXCEPT ![l] = "runs"] /\ UNCHANGED <<msg, fds>>
       \/ Put(l, "exec", "error") /\ ChildDies(l)
    /\ UNCHANGED <<up, pc, sim, marks>>

(* execvp closes the ends marked FD_CLOEXEC when the child was cloned: its  *)
(* own exec_pipe[1] and those of other launches past their fcntl.           *)
Exec(l) ==
    /\ child[l] = "exec"
    /\ \/ /\ child' = [child EXCEPT ![l] = "runs"]
          /\ fds' = [fds EXCEPT ![l] = @ \ {<<k, "exec", "w">> : k \in marked[l]}]
          /\ UNCHANGED msg
       \/ Put(l, "exec", "error") /\ ChildDies(l)
    /\ UNCHANGED <<up, pc, sim, marks>>

(* A child is killed from outside, or the program it runs ends. *)
Killed(l) ==
    /\ child[l] \notin Gone \cup {"none"}
    /\ ChildEnds(l, IF child[l] = "runs" THEN "exited" ELSE "killed")
    /\ UNCHANGED <<up, pc, msg, sim, marks>>

-----------------------------------------------------------------------------
Thread(l) ==
    \/ OpenPipe(l) \/ MarkExec(l) \/ OpenFails(l) \/ Clone(l) \/ CloseEnds(l) \/ Configure(l)
    \/ SendContinue(l) \/ ReadStatus(l) \/ FailKill(l) \/ Reap(l)
    \/ GiveUp(l) \/ SendTrigger(l) \/ ReadExec(l) \/ BrokenPipe(l)

Child(l) == ReadContinue(l) \/ Setup(l) \/ ReadTrigger(l) \/ Exec(l)

Next ==
    \/ \E l \in Launches : Thread(l) \/ Child(l) \/ Killed(l)
    \/ Crash

Spec == Init /\ [][Next]_vars

(* Threads and children keep running.  Nothing is assumed of the programs   *)
(* that the containers run.                                                 *)
FairSpec == Spec /\ \A l \in Launches : WF_vars(Thread(l)) /\ WF_vars(Child(l))

-----------------------------------------------------------------------------
(* Properties *)

(* What a launch reports is true of the child.  A success means that the    *)
(* child has come past the exec, with one exception that read_exec_status   *)
(* does not see (its comment: "EOF (CLOEXEC after execvp) -> success"): a   *)
(* child that was killed from outside between its report and the exec also  *)
(* ends the file.  No child is left waiting behind the back of a RUNNING    *)
(* record, and none that gave up by itself counts as started.  A failure    *)
(* leaves no process behind.                                                *)
ResultTrue ==
    /\ TypeOK
    /\ \A l \in Launches :
         /\ pc[l] = "ok" => child[l] \in {"runs", "exited", "killed"}
         /\ pc[l] \in {"failed", "givenup"} => child[l] \in Gone \cup {"none"}

(* The simulator starts containers all day long: a launch that has returned *)
(* leaves no descriptor open, except that one given up after the hand-shake *)
(* leaves two.                                                              *)
DescriptorsClosed ==
    \A l \in Launches : up /\ pc[l] \in Returned =>
        Of(l, sim) = IF pc[l] = "givenup"
                     THEN {<<l, "trigger", "w">>, <<l, "exec", "r">>} ELSE {}

(* The program of another container keeps this end of the pipe open. *)
HeldBy(l, p) == \E k \in Launches \ {l} : child[k] = "runs" /\ <<l, p, "w">> \in fds[k]

(* read_status waits for a child that was killed before its report. *)
SilentDeath(l) ==
    /\ pc[l] = "status" /\ child[l] = "killed" /\ msg[<<l, "status">>] = ""
    /\ HeldBy(l, "status")

(* read_exec_status waits although the child has come past its exec or is   *)
(* dead: the other container was cloned between pipe(2) and fcntl.          *)
ExecUnseen(l) ==
    /\ pc[l] = "exec" /\ child[l] \in {"runs", "exited", "killed"} /\ msg[<<l, "exec">>] = ""
    /\ HeldBy(l, "exec")

(* A launch returns, unless the simulator ends.  The only two ways to hang  *)
(* are those above, in which the launch waits as long as the program of the *)
(* other container runs.                                                    *)
LaunchReturns ==
    \A l \in Launches :
        \/ []<>(pc[l] \in Returned \cup {"idle"} \/ ~up)
        \/ <>[](SilentDeath(l) \/ ExecUnseen(l))

(* A child that waits for its parent, which holds the write ends of the     *)
(* pipes it reads from and so never sees their end of file, is released or  *)
(* killed as long as the simulator lives.                                   *)
WaitersEnd ==
    \A l \in Launches : (child[l] \in {"continue", "trigger"})
                            ~> (child[l] \notin {"continue", "trigger"} \/ ~up)

=============================================================================
