---------------------------- MODULE ContainerWeb ----------------------------
(***************************************************************************)
(* The container manager while the web server is on.  Every API request is *)
(* served by a thread of its own that first calls container_refresh_state  *)
(* (webserver.c); nothing locks the list, so a poll may come between any   *)
(* two steps of the command line, reap the process that the command works  *)
(* on and set its pid to -1.  The steps below are what the code of the     *)
(* command line then does.  A poll is one step here: torn reads of a       *)
(* record, and two threads writing the temporary file at once, are not     *)
(* modelled.                                                               *)
(*                                                                         *)
(* A POST of stop sends SIGTERM, whose effect is ProcExit.                 *)
(***************************************************************************)
EXTENDS ContainerManager

(* handle_connection: a poll with something to find. *)
WebPoll ==
    /\ up /\ Exited # {}
    /\ poll_states
    /\ UNCHANGED <<up, nextSeq, cli, lost>>

(* The trigger is written after the child was reaped: still SIGPIPE. *)
WebBrokenPipe ==
    /\ cli.at = "trigger" /\ cli.child \notin kids
    /\ ProcessEnds
    /\ UNCHANGED <<disk, dirty>>

(* wait_for_container_process.  The poll came before the check of the state *)
(* and the pid: there is nothing to wait for.                               *)
WaitTooLate ==
    /\ cli.at = "wait" /\ Target = NoPid
    /\ cli' = Idle
    /\ UNCHANGED <<memory, disk, kernel, lost, dirty>>

FinishAgain ==
    /\ state' = [state EXCEPT ![cli.id] = "STOPPED"]
    /\ pid' = [pid EXCEPT ![cli.id] = NoPid]
    /\ save_metadata(state', pid')
    /\ cli' = Idle
    /\ UNCHANGED <<up, nextSeq, lost>>

(* It came while waitpid waited, which fails with ECHILD: the container is  *)
(* finished a second time.                                                  *)
WaitReaped == cli.at = "wait" /\ cli.child \notin kids /\ FinishAgain /\ UNCHANGED kernel

(* It came between the check and the call: waitpid(-1) waits for any child, *)
(* and the zombie of another container is taken for this one's.             *)
WaitReapsAny(p) ==
    /\ cli.at = "wait" /\ Target = NoPid
    /\ p \in kids /\ procs[p] = "zombie"
    /\ procs' = [procs EXCEPT ![p] = "free"]
    /\ kids' = kids \ {p}
    /\ FinishAgain

-----------------------------------------------------------------------------
(* stop_container_process with a pid that has become -1 *)

NoTarget(point) == cli.at = point /\ Target = NoPid

(* The poll came before the check of the pid: there is nothing to stop. *)
StopTooLate ==
    /\ NoTarget("term")
    /\ cli' = AfterStop
    /\ UNCHANGED <<memory, disk, kernel, lost, dirty>>

(* It came after it: kill(-1, SIGTERM). *)
TermAll ==
    /\ NoTarget("term")
    /\ cli' = [cli EXCEPT !.at = "grace"]
    /\ UNCHANGED <<memory, disk, kernel, lost, dirty>>

(* waitpid(-1, WNOHANG) takes the zombie of any container ... *)
GraceReapAny(p) ==
    /\ NoTarget("grace") /\ p \in kids /\ procs[p] = "zombie"
    /\ procs' = [procs EXCEPT ![p] = "free"]
    /\ kids' = kids \ {p}
    /\ cli' = [cli EXCEPT !.at = "final"]
    /\ UNCHANGED <<memory, disk, lost, dirty>>

(* ... or there is no child, or the ticks run out. *)
GraceEndsAny ==
    /\ NoTarget("grace")
    /\ cli' = [cli EXCEPT !.at = "kill"]
    /\ UNCHANGED <<memory, disk, kernel, lost, dirty>>

(* kill(-1, SIGKILL) as root ends every process, and waitpid(-1) reaps one  *)
(* of the children, unless there is none or SIGINT interrupts it.           *)
KillAll ==
    /\ NoTarget("kill")
    /\ \E one \in SUBSET kids :
        /\ \/ (kids = {} \/ Cardinality(one) = 1) /\ cli' = [cli EXCEPT !.at = "final"]
           \/ kids # {} /\ one = {} /\ cli' = AfterStop
        /\ procs' = [p \in Pids |-> IF p \in kids \ one THEN "zombie" ELSE "free"]
        /\ kids' = kids \ one
    /\ UNCHANGED <<memory, disk, lost, dirty>>

-----------------------------------------------------------------------------
WebStep ==
    \/ WebPoll \/ WebBrokenPipe \/ WaitTooLate \/ WaitReaped
    \/ StopTooLate \/ TermAll \/ GraceEndsAny \/ KillAll
    \/ \E p \in Pids : GraceReapAny(p) \/ WaitReapsAny(p)

WebNext == Next \/ WebStep

WebSpec == Init /\ [][WebNext]_vars

-----------------------------------------------------------------------------
(* Properties: NoForgottenProcess and SavedAtPrompt of the manager, and     *)
(* what polls from other threads break.                                     *)

(* What stop_container_process says of its second phase: SIGKILL is sent    *)
(* "if container is still alive".  Whatever the signal ends is then the     *)
(* container's own process.                                                 *)
KillsItsContainer ==
    [][cli.at = "kill" /\ cli'.at = "final" =>
        \A p \in Pids : procs[p] = "live" /\ procs'[p] # "live" => p = pid[cli.id]]_vars
=============================================================================
