------------------------ MODULE ContainerManager_proofs ------------------------
(***************************************************************************)
(* Proofs about ContainerManager, for any number of pids and containers    *)
(* and whether or not pids are reused.                                     *)
(***************************************************************************)
EXTENDS ContainerWeb, WellFoundedInduction, TLAPS

(* The number that follows a list is above every listed one: what           *)
(* update_next_sequence and the loop of container_prune_all leave in        *)
(* next_sequence.                                                           *)
LEMMA NextAfterAbove ==
    ASSUME NEW st \in [Ids -> States]
    PROVE  /\ NextAfter(st) \in 1 .. (MaxSeq + 1)
           /\ \A c \in Ids : st[c] # "NONE" => c < NextAfter(st)
<1> DEFINE Above(n) == \A c \in Ids : st[c] # "NONE" => c < n
           T == {n \in 1 .. (MaxSeq + 1) : Above(n)}
           R == OpToRel(<, Nat)
<1>1. T \subseteq Nat /\ T # {}
  <2>1. MaxSeq + 1 \in T
    BY SeqAssumption DEF Ids
  <2> QED BY <2>1
<1>2. PICK n \in T : \A m \in T : ~(<<m, n>> \in R)
  <2> HIDE DEF T
  <2>1. IsWellFoundedOn(R, Nat)
    BY NatLessThanWellFounded
  <2> HIDE DEF R
  <2> QED BY <1>1, <2>1, WFMin
<1>3. \A m \in T : ~(m < n)
  BY <1>1, <1>2 DEF OpToRel
<1>4. n = 1 \/ (n - 1 \in Ids /\ st[n - 1] # "NONE")
  <2> SUFFICES ASSUME n # 1 PROVE n - 1 \in Ids /\ st[n - 1] # "NONE"
    OBVIOUS
  <2>1. n - 1 \in 1 .. MaxSeq /\ n - 1 < n
    BY SeqAssumption
  <2>2. n - 1 \notin T
    BY <1>3, <2>1
  <2>3. ~Above(n - 1)
    BY <2>1, <2>2, SeqAssumption
  <2>4. PICK c \in Ids : st[c] # "NONE" /\ ~(c < n - 1)
    BY <2>3
  <2>5. c < n
    BY <2>4
  <2>6. c = n - 1
    BY <2>4, <2>5, SeqAssumption DEF Ids
  <2> QED BY <2>4, <2>6
<1>5. \E k \in 1 .. (MaxSeq + 1) : Above(k) /\ (k = 1 \/ (k - 1 \in Ids /\ st[k - 1] # "NONE"))
  BY <1>4
<1> QED BY <1>5 DEF NextAfter

-----------------------------------------------------------------------------
(* Type correctness *)

(* What save_metadata may leave on disk is well typed. *)
LEMMA SaveTyped ==
    ASSUME TypeOK, NEW st \in [Ids -> States], NEW pd \in [Ids -> Pids \cup {NoPid}],
           SaveOK(st, pd) \/ SaveFails \/ UNCHANGED <<disk, dirty>>
    PROVE  /\ there' \in BOOLEAN /\ dirty' \in SUBSET Ids
           /\ fstate' \in [Ids -> States]
           /\ fpid' \in [Ids -> Pids \cup {NoPid}]
BY DEF TypeOK, SaveOK, SaveFails, Written, Erased, disk, NoStates, NoPids, States

(* An idle command line is well typed, ... *)
LEMMA IdleTyped == Idle \in CliState
BY SeqAssumption DEF Idle, CliState, Points, Ids

(* ... and so is one that has finished a stop. *)
LEMMA AfterStopTyped == TypeOK => AfterStop \in CliState
<1> SUFFICES ASSUME TypeOK PROVE AfterStop \in CliState
  OBVIOUS
<1>1. cli.todo \in SUBSET Ids
  BY DEF TypeOK, CliState
<1>2. CASE cli.closing
  <2>1. AfterStop = [at |-> "closing", id |-> 1, child |-> NoPid, fg |-> FALSE,
                     closing |-> TRUE, todo |-> cli.todo]
    BY <1>2 DEF AfterStop, Idle
  <2> QED BY <1>1, <2>1, SeqAssumption DEF CliState, Points, Ids
<1>3. CASE ~cli.closing
  BY <1>3, IdleTyped DEF AfterStop
<1> QED BY <1>2, <1>3

(* So are an empty list and a kernel without processes. *)
LEMMA EmptyTyped ==
    /\ NoStates \in [Ids -> States] /\ NoPids \in [Ids -> Pids \cup {NoPid}]
    /\ 1 \in Ids /\ 1 \in 1 .. (MaxSeq + 1)
    /\ [p \in Pids |-> "free"] \in [Pids -> ProcStates]
BY SeqAssumption DEF NoStates, NoPids, States, ProcStates, Ids

(* The steps that leave everything but the command line alone. *)
LEMMA CliOnlyTyped ==
    ASSUME TypeOK, cli' \in CliState, UNCHANGED <<memory, disk, kernel, lost, dirty>>
    PROVE  TypeOK'
BY DEF TypeOK, memory, disk, kernel

(* The end of the simulator's process keeps the types. *)
LEMMA EndTyped ==
    ASSUME TypeOK, ProcessEnds
    PROVE  /\ up' \in BOOLEAN /\ state' \in [Ids -> States]
           /\ pid' \in [Ids -> Pids \cup {NoPid}] /\ nextSeq' \in 1 .. (MaxSeq + 1)
           /\ procs' \in [Pids -> ProcStates] /\ kids' \in SUBSET Pids
           /\ cli' \in CliState /\ lost' \in SUBSET Pids
<1>1. procs' \in [Pids -> ProcStates]
  BY DEF TypeOK, ProcessEnds, ProcStates
<1> QED BY <1>1, IdleTyped, EmptyTyped DEF TypeOK, ProcessEnds

(* Every step keeps every variable in its type. *)
LEMMA TypeStep == TypeOK /\ [Next]_vars => TypeOK'
<1> SUFFICES ASSUME TypeOK, [Next]_vars PROVE TypeOK'
  OBVIOUS
<1> USE IdleTyped, SeqAssumption
<1>1. CASE container_manager_init
  <2>1. NextAfter(fstate) \in 1 .. (MaxSeq + 1)
    BY NextAfterAbove DEF TypeOK
  <2> QED BY <1>1, <2>1 DEF container_manager_init, TypeOK, disk, kernel, States
<1>2. ASSUME NEW op \in {"start", "stop", "delete", "pause", "unpause", "list", "prune", "closing"},
             NEW c \in Ids, Issue(op, c)
      PROVE  TypeOK'
  <2>1. state' \in [Ids -> States] /\ pid' \in [Ids -> Pids \cup {NoPid}]
    BY <1>2 DEF Issue, poll_states, TypeOK, States
  <2>2. /\ there' \in BOOLEAN /\ dirty' \in SUBSET Ids /\ fstate' \in [Ids -> States]
        /\ fpid' \in [Ids -> Pids \cup {NoPid}]
    BY <1>2, <2>1, SaveTyped DEF Issue, poll_states, save_metadata
  <2>3. cli' \in CliState
    BY <1>2 DEF Issue, Idle, CliState, Points
  <2> QED BY <1>2, <2>1, <2>2, <2>3 DEF Issue, poll_states, TypeOK, ProcStates
<1>3. ASSUME NEW next \in {"prompt", "start"}, NEW fg \in BOOLEAN, container_create(next, fg)
      PROVE  TypeOK'
  <2> DEFINE created == [state EXCEPT ![nextSeq] = "CREATED"]
             pids    == [pid EXCEPT ![nextSeq] = NoPid]
  <2>1. created \in [Ids -> States] /\ pids \in [Ids -> Pids \cup {NoPid}]
        /\ nextSeq \in Ids /\ nextSeq' \in 1 .. (MaxSeq + 1)
    BY <1>3 DEF container_create, TypeOK, States, Ids
  <2>2. CASE /\ cli' = Idle
             /\ UNCHANGED <<state, pid>>
             /\ SaveFails \/ UNCHANGED <<disk, dirty>>
    BY <1>3, <2>1, <2>2, SaveTyped DEF container_create, TypeOK, kernel
  <2>3. CASE /\ state' = created /\ pid' = pids
             /\ \/ SaveOK(created, pids)
                \/ /\ Written(created, pids) \/ Erased
                   /\ dirty' = Ids
             /\ cli' = [Idle EXCEPT !.at = next, !.id = nextSeq, !.fg = fg]
    <3>1. cli' \in CliState
      BY <2>1, <2>3 DEF Idle, CliState, Points
    <3> HIDE DEF created, pids
    <3>2. /\ there' \in BOOLEAN /\ dirty' \in SUBSET Ids /\ fstate' \in [Ids -> States]
          /\ fpid' \in [Ids -> Pids \cup {NoPid}]
      BY <2>1, <2>3 DEF SaveOK, Written, Erased, NoStates, NoPids, States
    <3> QED BY <1>3, <2>1, <2>3, <3>1, <3>2 DEF container_create, TypeOK, kernel
  <2> QED BY <1>3, <2>2, <2>3 DEF container_create
<1>4. ASSUME Refused \/ StartCloneFails \/ WaitInterrupted \/ StopBegin \/ SendTerm
             \/ GraceTimeout \/ GraceNoChild \/ KillDenied \/ \E c \in Ids : CloseVisit(c)
      PROVE  TypeOK'
  <2>1. cli' \in CliState
    <3>1. CASE Refused \/ StartCloneFails \/ WaitInterrupted \/ KillDenied
      BY <3>1, AfterStopTyped DEF Refused, StartCloneFails, WaitInterrupted, KillDenied
    <3>2. CASE StopBegin
      BY <3>2 DEF StopBegin, TypeOK, CliState, Points
    <3>3. CASE SendTerm
      <4>1. PICK a \in {"grace", "kill"} : cli' = [cli EXCEPT !.at = a]
        BY <3>3 DEF SendTerm
      <4> QED BY <4>1 DEF TypeOK, CliState, Points
    <3>4. ASSUME NEW c \in Ids, CloseVisit(c) PROVE cli' \in CliState
      <4>1. PICK a \in {"term", "closing"} :
              cli' = [cli EXCEPT !.at = a, !.id = c, !.todo = cli.todo \ {c}]
        BY <3>4 DEF CloseVisit
      <4> QED BY <4>1 DEF TypeOK, CliState, Points
    <3>5. CASE GraceTimeout
      BY <3>5 DEF GraceTimeout, TypeOK, CliState, Points
    <3>6. CASE GraceNoChild
      BY <3>6 DEF GraceNoChild, TypeOK, CliState, Points
    <3> QED BY <1>4, <3>1, <3>2, <3>3, <3>4, <3>5, <3>6
  <2> QED BY <1>4, <2>1, CliOnlyTyped
          DEF Refused, StartCloneFails, WaitInterrupted, StopBegin, SendTerm, GraceTimeout,
              GraceNoChild, KillDenied, CloseVisit
<1>5. ASSUME NEW p \in Pids, StartClone(p) PROVE TypeOK'
  <2>1. cli' \in CliState
    BY <1>5 DEF StartClone, TypeOK, CliState, Points
  <2> QED BY <1>5, <2>1 DEF StartClone, TypeOK, memory, disk, ProcStates
<1>6. CASE HandshakeFails
  BY <1>6 DEF HandshakeFails, TypeOK, memory, disk, ProcStates
<1>7. CASE HandshakeReady
  <2>1. cli' \in CliState /\ cli.id \in Ids /\ cli.child \in Pids \cup {NoPid}
    BY <1>7 DEF HandshakeReady, TypeOK, CliState, Points
  <2> QED BY <1>7, <2>1 DEF HandshakeReady, TypeOK, disk, kernel, States
<1>8. CASE StartSave
  <2>1. cli' \in CliState
    BY <1>8 DEF StartSave, TypeOK, CliState, Points
  <2> QED BY <1>8, <2>1, SaveTyped DEF StartSave, TypeOK, memory, kernel
<1>9. CASE TriggerExec
  <2>1. cli' \in CliState
    BY <1>9 DEF TriggerExec, TypeOK, CliState, Points
  <2> QED BY <1>9, <2>1 DEF TriggerExec, TypeOK, memory, disk, ProcStates
<1>10. CASE TriggerBrokenPipe \/ Crash
  BY <1>10, EndTyped DEF TriggerBrokenPipe, Crash, TypeOK, disk
<1>11. CASE WaitForeground \/ StopFinal
  <2>1. /\ state' \in [Ids -> States] /\ pid' \in [Ids -> Pids \cup {NoPid}]
        /\ cli' \in CliState
    <3>1. cli' \in CliState
      BY <1>11, AfterStopTyped DEF WaitForeground, StopFinal
    <3> QED BY <1>11, <3>1 DEF WaitForeground, StopFinal, TypeOK, States
  <2> QED BY <1>11, <2>1, SaveTyped
          DEF WaitForeground, StopFinal, save_metadata, TypeOK, kernel, ProcStates
<1>12. CASE GraceReap \/ SendKill
  <2>1. cli' \in CliState
    BY <1>12 DEF GraceReap, SendKill, TypeOK, CliState, Points
  <2> QED BY <1>12, <2>1 DEF GraceReap, SendKill, TypeOK, memory, disk, ProcStates
<1>13. CASE container_delete \/ container_prune_all \/ container_pause \/ container_unpause
  <2>1. state' \in [Ids -> States] /\ pid' \in [Ids -> Pids \cup {NoPid}]
    BY <1>13 DEF container_delete, container_prune_all, container_pause, container_unpause,
                 SetPaused, TypeOK, States
  <2>2. nextSeq' \in 1 .. (MaxSeq + 1)
    BY <1>13, <2>1, NextAfterAbove
       DEF container_delete, container_prune_all, container_pause, container_unpause,
           SetPaused, TypeOK
  <2>3. /\ there' \in BOOLEAN /\ dirty' \in SUBSET Ids /\ fstate' \in [Ids -> States]
        /\ fpid' \in [Ids -> Pids \cup {NoPid}]
    <3>1. SaveOK(state', pid') \/ SaveFails
      BY <1>13 DEF container_delete, container_prune_all, container_pause, container_unpause,
                   SetPaused, save_metadata
    <3> QED BY <2>1, <3>1, SaveTyped
  <2> QED BY <1>13, <2>1, <2>2, <2>3
          DEF container_delete, container_prune_all, container_pause, container_unpause,
              SetPaused, TypeOK, kernel
<1>14. CASE CloseEnd
  <2>1. /\ there' \in BOOLEAN /\ dirty' \in SUBSET Ids /\ fstate' \in [Ids -> States]
        /\ fpid' \in [Ids -> Pids \cup {NoPid}]
    BY <1>14, SaveTyped DEF CloseEnd, save_metadata, TypeOK
  <2> QED BY <1>14, <2>1, EndTyped DEF CloseEnd, TypeOK
<1>15. CASE Environment
  BY <1>15 DEF Environment, ProcExit, HostSpawn, HostExit, TypeOK, memory, disk, ProcStates
<1>16. CASE UNCHANGED vars
  BY <1>16 DEF vars, memory, disk, kernel, TypeOK
<1>17. CASE KillInterrupted
  BY <1>17, AfterStopTyped DEF KillInterrupted, TypeOK, memory, disk, ProcStates
<1>18. 1 \in Ids
  BY EmptyTyped
<1> QED
  BY <1>1, <1>2, <1>3, <1>4, <1>5, <1>6, <1>7, <1>8, <1>9, <1>10, <1>11, <1>12, <1>13,
     <1>14, <1>15, <1>16, <1>17, <1>18
     DEF Next, Command, Create, Run, CliStep, StopStep

(* The variables of the container manager keep their types. *)
THEOREM TypeCorrect == Spec => []TypeOK
<1>1. Init => TypeOK
  BY IdleTyped, EmptyTyped DEF Init, TypeOK
<1> QED BY <1>1, TypeStep, PTL DEF Spec

-----------------------------------------------------------------------------
(* No process is forgotten, and none runs unrecorded *)

(* No process starts a user's command, and no running one is found again. *)
NoNewLive ==
    \A p \in Pids : procs'[p] = "live" /\ p \notin lost' => procs[p] = "live" /\ p \notin lost

(* Where commands, and stops during exit, return to. *)
LEMMA PromptPoints == Idle.at = "prompt" /\ AfterStop.at \in {"prompt", "closing"}
BY DEF Idle, AfterStop

(* At the prompt and at the points that follow it nothing is claimed. *)
LEMMA PromptClaimsNothing ==
    ASSUME cli'.at \in {"prompt", "prune", "closing"}, up'
    PROVE  DownIsEmpty' /\ ChildKnown' /\ IdListed' /\ FinalIsDead'
BY DEF DownIsEmpty, ChildKnown, IdListed, FinalIsDead

(* A command in progress means that the simulator is up. *)
LEMMA BusyIsUp == ASSUME IInv, cli.at # "prompt" PROVE up
BY DEF IInv, DownIsEmpty, Idle

(* Steps that touch neither the list nor the file. *)
LEMMA QuietStep ==
    ASSUME IInv, UNCHANGED <<memory, disk>>, NoNewLive
    PROVE  FreshIds' /\ NoForgottenProcess' /\ ExecRecorded'
<1>1. FreshIds'
  BY DEF IInv, FreshIds, memory
<1>2. NoForgottenProcess'
  BY DEF IInv, NoForgottenProcess, NoNewLive, Active, memory
<1>3. ExecRecorded'
  BY DEF IInv, ExecRecorded, NoNewLive, FActive, disk
<1> QED BY <1>1, <1>2, <1>3

(* If the list has every process, so has the file, whether the list is      *)
(* saved, the save fails or nothing is saved.                               *)
LEMMA SaveKeepsRecord ==
    ASSUME IInv, NoNewLive, up', NoForgottenProcess',
           SaveOK(state', pid') \/ SaveFails \/ UNCHANGED <<disk, dirty>>
    PROVE  ExecRecorded'
<1>1. CASE SaveOK(state', pid')
  BY <1>1 DEF SaveOK, Written, NoForgottenProcess, ExecRecorded, Active, FActive
<1>2. CASE SaveFails /\ Erased
  BY <1>2 DEF Erased, ExecRecorded
<1>3. CASE UNCHANGED disk
  BY <1>3 DEF IInv, ExecRecorded, NoNewLive, FActive, disk
<1> QED BY <1>1, <1>2, <1>3 DEF SaveFails, disk

(* The end of the simulator's process forgets the list, not the file. *)
LEMMA EndKeepsRecord ==
    ASSUME IInv, ProcessEnds,
           SaveOK(state, pid) \/ SaveFails \/ UNCHANGED <<disk, dirty>>,
           up
    PROVE  IInv'
<1>1. NoNewLive
  BY DEF NoNewLive, ProcessEnds, IInv, TypeOK
<1>2. TypeOK'
  <2>1. /\ there' \in BOOLEAN /\ dirty' \in SUBSET Ids
        /\ fstate' \in [Ids -> States] /\ fpid' \in [Ids -> Pids \cup {NoPid}]
    BY SaveTyped DEF IInv, TypeOK
  <2> QED BY <2>1, EndTyped DEF IInv, TypeOK
<1>3. ExecRecorded'
  <2>1. CASE SaveOK(state, pid)
    BY <1>1, <2>1 DEF IInv, SaveOK, Written, NoForgottenProcess, ExecRecorded, NoNewLive,
                      Active, FActive
  <2>2. CASE SaveFails /\ Erased
    BY <2>2 DEF Erased, ExecRecorded
  <2>3. CASE UNCHANGED disk
    BY <1>1, <2>3 DEF IInv, ExecRecorded, NoNewLive, FActive, disk
  <2> QED BY <2>1, <2>2, <2>3 DEF SaveFails, disk
<1>4. DownIsEmpty' /\ ChildKnown' /\ IdListed' /\ FinalIsDead'
  BY PromptPoints DEF ProcessEnds, DownIsEmpty, ChildKnown, IdListed, FinalIsDead
<1>5. FreshIds' /\ NoForgottenProcess'
  BY DEF ProcessEnds, FreshIds, NoForgottenProcess, NoStates
<1> QED BY <1>2, <1>3, <1>4, <1>5 DEF IInv

(* A poll drops only processes that do not run, and saves what it changed. *)
LEMMA PollKeeps ==
    ASSUME IInv, up, poll_states, UNCHANGED <<up, nextSeq, lost>>
    PROVE  NoForgottenProcess' /\ ExecRecorded' /\ FreshIds'
<1>0. TypeOK
  BY DEF IInv
<1>1. NoNewLive
  BY <1>0 DEF poll_states, NoNewLive, TypeOK
<1>2. NoForgottenProcess'
  <2> SUFFICES ASSUME NEW p \in Pids, procs'[p] = "live", p \notin lost'
               PROVE  \E d \in Ids : Active(d)' /\ pid'[d] = p
    BY DEF NoForgottenProcess
  <2>1. procs[p] = "live" /\ p \notin lost
    BY <1>1 DEF NoNewLive
  <2>2. PICK d \in Ids : Active(d) /\ pid[d] = p
    BY <2>1 DEF IInv, NoForgottenProcess
  <2>3. d \notin Exited
    BY <2>1, <2>2 DEF Exited, sync_container_state, is_pid_alive
  <2> QED BY <2>2, <2>3 DEF poll_states, Active
<1>3. ExecRecorded'
  BY <1>1, <1>2, SaveKeepsRecord DEF poll_states, save_metadata
<1>4. FreshIds'
  BY <1>0 DEF IInv, FreshIds, poll_states, Exited, sync_container_state
<1> QED BY <1>2, <1>3, <1>4

(* A record whose process does not run is marked STOPPED and saved: the end *)
(* of a foreground run and of stop_container_process.                       *)
LEMMA FinishKeeps ==
    ASSUME IInv, up, UNCHANGED <<up, nextSeq, lost>>, NoNewLive,
           cli.id \in Ids, state[cli.id] # "NONE",
           state' = [state EXCEPT ![cli.id] = "STOPPED"],
           pid' = [pid EXCEPT ![cli.id] = NoPid],
           save_metadata(state', pid'),
           \A p \in Pids : p = pid[cli.id] => procs[p] # "live"
    PROVE  FreshIds' /\ NoForgottenProcess' /\ ExecRecorded'
<1>0. TypeOK
  BY DEF IInv
<1>1. FreshIds'
  BY <1>0 DEF IInv, FreshIds, TypeOK
<1>2. NoForgottenProcess'
  <2> SUFFICES ASSUME NEW p \in Pids, procs'[p] = "live", p \notin lost'
               PROVE  \E d \in Ids : Active(d)' /\ pid'[d] = p
    BY DEF NoForgottenProcess
  <2>1. PICK d \in Ids : Active(d) /\ pid[d] = p
    BY DEF NoNewLive, IInv, NoForgottenProcess
  <2>2. d # cli.id
    BY <2>1 DEF NoNewLive
  <2> QED BY <1>0, <2>1, <2>2 DEF Active, TypeOK
<1>3. ExecRecorded'
  BY <1>2, SaveKeepsRecord DEF save_metadata
<1> QED BY <1>1, <1>2, <1>3

(* Every step keeps the inductive invariant. *)
LEMMA InvStep == IInv /\ [Next]_vars => IInv'
<1> SUFFICES ASSUME IInv, [Next]_vars PROVE IInv'
  OBVIOUS
<1>0. TypeOK /\ TypeOK'
  BY TypeStep DEF IInv
<1>1. CASE container_manager_init
  <2>1. FreshIds'
    <3>1. \A c \in Ids : fstate[c] # "NONE" => c < NextAfter(fstate)
      BY <1>0, NextAfterAbove DEF TypeOK
    <3> QED BY <1>1, <3>1 DEF container_manager_init, FreshIds, Recovered
  <2>2. NoForgottenProcess'
    <3> SUFFICES ASSUME NEW p \in Pids, procs'[p] = "live", p \notin lost'
                 PROVE  \E c \in Ids : Active(c)' /\ pid'[c] = p
      BY DEF NoForgottenProcess
    <3>1. there /\ procs[p] = "live" /\ p \notin lost
      BY <1>1 DEF container_manager_init, kernel
    <3>2. PICK c \in Ids : FActive(c) /\ fpid[c] = p
      BY <3>1 DEF IInv, ExecRecorded
    <3>3. ~Recovered(c)
      BY <3>1, <3>2 DEF Recovered, is_pid_alive
    <3> QED BY <1>1, <3>2, <3>3 DEF container_manager_init, Active, FActive
  <2>3. ExecRecorded'
    BY <1>1 DEF container_manager_init, IInv, ExecRecorded, FActive, disk, kernel
  <2>4. DownIsEmpty' /\ ChildKnown' /\ IdListed' /\ FinalIsDead'
    BY <1>1, PromptPoints, PromptClaimsNothing DEF container_manager_init
  <2> QED BY <1>0, <2>1, <2>2, <2>3, <2>4 DEF IInv
<1>2. ASSUME NEW op \in {"start", "stop", "delete", "pause", "unpause", "list", "prune", "closing"},
             NEW c \in Ids, Issue(op, c)
      PROVE  IInv'
  <2>1. NoForgottenProcess' /\ ExecRecorded' /\ FreshIds'
    BY <1>2, PollKeeps DEF Issue
  <2>5. up' /\ cli'.at \in {"prompt", "start", "stop", "delete", "pause", "unpause", "prune", "closing"}
    BY <1>2 DEF Issue, Idle
  <2>6. IdListed'
    <3> SUFFICES ASSUME cli'.at \notin {"prompt", "prune", "closing"} PROVE state'[cli'.id] # "NONE"
      BY DEF IdListed
    <3>1. op \in {"start", "stop", "delete", "pause", "unpause"} /\ cli'.id = c
      BY <1>2 DEF Issue, Idle
    <3> QED BY <1>2, <3>1 DEF Issue, poll_states
  <2>7. DownIsEmpty' /\ ChildKnown' /\ FinalIsDead'
    BY <2>5 DEF DownIsEmpty, ChildKnown, FinalIsDead
  <2> QED BY <1>0, <2>1, <2>6, <2>7 DEF IInv
<1>3. ASSUME NEW next \in {"prompt", "start"}, NEW fg \in BOOLEAN, container_create(next, fg)
      PROVE  IInv'
  <2>1. NoNewLive
    BY <1>3 DEF container_create, NoNewLive, kernel
  <2>2. nextSeq \in Ids /\ state[nextSeq] = "NONE"
    BY <1>0, <1>3 DEF IInv, FreshIds, TypeOK, Ids, container_create
  <2>3. FreshIds'
    BY <1>0, <1>3, <2>2 DEF IInv, FreshIds, TypeOK, Ids, container_create
  <2>4. NoForgottenProcess'
    <3> SUFFICES ASSUME NEW p \in Pids, procs'[p] = "live", p \notin lost'
                 PROVE  \E d \in Ids : Active(d)' /\ pid'[d] = p
      BY DEF NoForgottenProcess
    <3>1. procs[p] = "live" /\ p \notin lost /\ up
      BY <1>3, <2>1 DEF NoNewLive, container_create
    <3>2. PICK d \in Ids : Active(d) /\ pid[d] = p
      BY <3>1 DEF IInv, NoForgottenProcess
    <3>3. d # nextSeq
      BY <2>2, <3>2 DEF Active
    <3> QED BY <1>0, <1>3, <3>2, <3>3 DEF container_create, Active, TypeOK
  <2>5. ExecRecorded'
    <3>1. CASE SaveFails \/ UNCHANGED <<disk, dirty>> \/ SaveOK(state', pid')
      BY <1>3, <2>1, <2>4, <3>1, SaveKeepsRecord DEF container_create
    <3>2. CASE Written(state', pid')
      BY <1>3, <2>4, <3>2 DEF Written, NoForgottenProcess, ExecRecorded, Active, FActive,
                               container_create
    <3>3. CASE Erased
      BY <3>3 DEF Erased, ExecRecorded
    <3> QED BY <1>3, <3>1, <3>2, <3>3 DEF container_create
  <2>6. DownIsEmpty' /\ ChildKnown' /\ IdListed' /\ FinalIsDead'
    <3>1. up'
      BY <1>3 DEF container_create
    <3>2. CASE cli' = Idle
      BY <3>1, <3>2, PromptPoints, PromptClaimsNothing
    <3>3. CASE /\ cli' = [Idle EXCEPT !.at = next, !.id = nextSeq, !.fg = fg]
               /\ state' = [state EXCEPT ![nextSeq] = "CREATED"]
      <4>1. cli'.at \in {"prompt", "start"} /\ cli'.id = nextSeq
        BY <3>3 DEF Idle
      <4>2. state'[cli'.id] # "NONE"
        BY <1>0, <2>2, <3>3, <4>1 DEF TypeOK
      <4> QED BY <3>1, <4>1, <4>2 DEF DownIsEmpty, ChildKnown, IdListed, FinalIsDead
    <3> QED BY <1>3, <3>2, <3>3 DEF container_create
  <2> QED BY <1>0, <2>3, <2>4, <2>5, <2>6 DEF IInv
<1>4. ASSUME Refused \/ StartCloneFails \/ WaitInterrupted \/ StopBegin \/ SendTerm
             \/ GraceTimeout \/ GraceNoChild \/ KillDenied \/ \E c \in Ids : CloseVisit(c)
      PROVE  IInv'
  <2>1. UNCHANGED <<memory, disk, kernel, lost, dirty>> /\ cli.at # "prompt"
    BY <1>4 DEF Refused, StartCloneFails, WaitInterrupted, StopBegin, SendTerm, GraceTimeout,
                GraceNoChild, KillDenied, CloseVisit
  <2>2. NoNewLive
    BY <2>1 DEF NoNewLive, kernel
  <2>3. up /\ up' /\ state' = state
    BY <2>1, BusyIsUp DEF memory
  <2>4. DownIsEmpty' /\ ChildKnown' /\ IdListed' /\ FinalIsDead'
    <3>1. CASE Refused \/ StartCloneFails \/ WaitInterrupted \/ KillDenied
      <4>1. cli'.at \in {"prompt", "closing"}
        BY <3>1, PromptPoints DEF Refused, StartCloneFails, WaitInterrupted, KillDenied
      <4> QED BY <2>3, <4>1, PromptClaimsNothing
    <3>2. CASE StopBegin \/ SendTerm \/ GraceTimeout \/ GraceNoChild
      <4>1. /\ cli.at \in {"stop", "term", "grace"} /\ cli'.id = cli.id
            /\ cli'.at \in {"term", "grace", "kill"}
        BY <1>0, <3>2 DEF StopBegin, SendTerm, GraceTimeout, GraceNoChild, TypeOK, CliState
      <4> QED BY <2>3, <4>1 DEF IInv, DownIsEmpty, ChildKnown, IdListed, FinalIsDead
    <3>3. ASSUME NEW c \in Ids, CloseVisit(c)
          PROVE  DownIsEmpty' /\ ChildKnown' /\ IdListed' /\ FinalIsDead'
      <4>1. \/ cli'.at = "closing"
            \/ cli'.at = "term" /\ cli'.id = c /\ Active(c)
        BY <1>0, <3>3 DEF CloseVisit, TypeOK, CliState
      <4> QED BY <2>3, <4>1 DEF DownIsEmpty, ChildKnown, IdListed, FinalIsDead, Active
    <3> QED BY <1>4, <3>1, <3>2, <3>3
  <2> QED BY <1>0, <2>1, <2>2, <2>4, QuietStep DEF IInv
<1>5. ASSUME NEW p \in Pids, StartClone(p) PROVE IInv'
  <2>1. NoNewLive
    BY <1>0, <1>5 DEF StartClone, NoNewLive, TypeOK
  <2>2. /\ cli'.at = "handshake" /\ cli'.child = p /\ cli'.id = cli.id
        /\ up' /\ state[cli.id] # "NONE"
    BY <1>0, <1>5, BusyIsUp DEF StartClone, TypeOK, CliState, memory, IInv, IdListed
  <2>3. DownIsEmpty' /\ ChildKnown' /\ IdListed' /\ FinalIsDead'
    BY <1>5, <2>2 DEF StartClone, memory, DownIsEmpty, ChildKnown, IdListed, FinalIsDead
  <2> QED BY <1>0, <1>5, <2>1, <2>3, QuietStep DEF StartClone, IInv
<1>6. CASE HandshakeFails \/ KillInterrupted
  <2>1. NoNewLive
    BY <1>0, <1>6 DEF HandshakeFails, KillInterrupted, NoNewLive, TypeOK
  <2>2. up' /\ cli'.at \in {"prompt", "closing"} /\ UNCHANGED <<memory, disk>>
    BY <1>6, BusyIsUp, PromptPoints DEF HandshakeFails, KillInterrupted, memory
  <2> QED BY <1>0, <2>1, <2>2, QuietStep, PromptClaimsNothing DEF IInv
<1>7. CASE HandshakeReady
  <2>1. cli.child \in Pids /\ cli.id \in Ids /\ up /\ state[cli.id] # "NONE"
    BY <1>0, <1>7, BusyIsUp DEF HandshakeReady, IInv, ChildKnown, IdListed, TypeOK, CliState
  <2>2. NoNewLive
    BY <1>7 DEF HandshakeReady, NoNewLive, kernel
  <2>3. NoForgottenProcess'
    <3> SUFFICES ASSUME NEW p \in Pids, procs'[p] = "live", p \notin lost'
                 PROVE  \E d \in Ids : Active(d)' /\ pid'[d] = p
      BY DEF NoForgottenProcess
    <3>1. procs[p] = "live" /\ p \notin lost /\ p # pid[cli.id]
      BY <1>7 DEF HandshakeReady, kernel
    <3>2. PICK d \in Ids : Active(d) /\ pid[d] = p
      BY <2>1, <3>1 DEF IInv, NoForgottenProcess
    <3> QED BY <1>0, <1>7, <3>1, <3>2 DEF HandshakeReady, Active, TypeOK
  <2>4. FreshIds'
    BY <1>0, <1>7, <2>1 DEF HandshakeReady, IInv, FreshIds, TypeOK
  <2>5. ExecRecorded'
    BY <1>7, <2>2 DEF HandshakeReady, IInv, ExecRecorded, NoNewLive, FActive, disk
  <2>6. /\ cli'.at \in {"save", "term"} /\ cli'.child = cli.child /\ cli'.id = cli.id
        /\ up' /\ state'[cli.id] = "RUNNING" /\ pid'[cli.id] = cli.child
    BY <1>0, <1>7, <2>1 DEF HandshakeReady, TypeOK, CliState
  <2>7. DownIsEmpty' /\ ChildKnown' /\ IdListed' /\ FinalIsDead'
    <3>1. UNCHANGED kernel /\ cli.at = "handshake"
      BY <1>7 DEF HandshakeReady
    <3>2. ChildKnown'
      BY <2>1, <2>6, <3>1 DEF IInv, ChildKnown, ChildReaped, kernel
    <3> QED BY <2>1, <2>6, <3>2 DEF DownIsEmpty, IdListed, FinalIsDead
  <2> QED BY <1>0, <2>3, <2>4, <2>5, <2>7 DEF IInv
<1>8. CASE StartSave
  <2>1. NoNewLive
    BY <1>8 DEF StartSave, NoNewLive, kernel
  <2>2. up /\ up' /\ state[cli.id] # "NONE"
    BY <1>8, BusyIsUp DEF StartSave, memory, IInv, IdListed
  <2>3. FreshIds' /\ NoForgottenProcess'
    BY <1>8, <2>1 DEF StartSave, memory, IInv, FreshIds, NoForgottenProcess, NoNewLive, Active
  <2>4. ExecRecorded'
    BY <1>8, <2>1, <2>2, <2>3, SaveKeepsRecord DEF StartSave, memory
  <2>5. /\ cli'.id = cli.id /\ cli'.child = cli.child
        /\ \/ cli'.at = "trigger" /\ SaveOK(state, pid)
           \/ cli'.at = "term"
    BY <1>0, <1>8 DEF StartSave, TypeOK, CliState
  <2>6. DownIsEmpty' /\ ChildKnown' /\ IdListed' /\ FinalIsDead'
    <3>1. ChildKnown'
      BY <1>8, <2>5 DEF StartSave, memory, kernel, SaveOK, Written, IInv, ChildKnown,
                        ChildReaped, FActive
    <3> QED BY <1>8, <2>2, <2>5, <3>1 DEF StartSave, memory, DownIsEmpty, IdListed, FinalIsDead
  <2> QED BY <1>0, <2>3, <2>4, <2>6 DEF IInv
<1>9. CASE TriggerExec
  <2>1. /\ up /\ up' /\ cli.child \in Pids /\ cli.id \in Ids
        /\ Active(cli.id) /\ pid[cli.id] = cli.child
        /\ there => FActive(cli.id) /\ fpid[cli.id] = cli.child
        /\ cli.child \in kids /\ state[cli.id] = "RUNNING"
    <3>1. ~ChildReaped /\ cli.at = "trigger"
      BY <1>9 DEF TriggerExec, ChildReaped
    <3>2. up /\ up'
      BY <1>9, BusyIsUp DEF TriggerExec, memory
    <3> QED BY <1>0, <3>1, <3>2 DEF IInv, ChildKnown, Active, TypeOK, CliState
  <2>2. \A p \in Pids : procs'[p] = "live" /\ p \notin lost' =>
            p = cli.child \/ (procs[p] = "live" /\ p \notin lost)
    BY <1>0, <1>9 DEF TriggerExec, TypeOK
  <2>3. FreshIds'
    BY <1>9 DEF TriggerExec, memory, IInv, FreshIds
  <2>4. NoForgottenProcess'
    BY <1>9, <2>1, <2>2 DEF TriggerExec, memory, IInv, NoForgottenProcess, Active
  <2>5. ExecRecorded'
    BY <1>9, <2>1, <2>2 DEF TriggerExec, disk, IInv, ExecRecorded, FActive
  <2>6. DownIsEmpty' /\ ChildKnown' /\ IdListed' /\ FinalIsDead'
    <3>1. CASE cli' = Idle
      BY <2>1, <3>1, PromptPoints, PromptClaimsNothing
    <3>2. ASSUME NEW a \in {"wait", "term"}, cli' = [cli EXCEPT !.at = a]
          PROVE  DownIsEmpty' /\ ChildKnown' /\ IdListed' /\ FinalIsDead'
      <4>1. cli'.at = a /\ cli'.id = cli.id /\ cli'.child = cli.child
        BY <1>0, <3>2 DEF TypeOK, CliState
      <4>2. ChildKnown'
        BY <1>9, <2>1, <4>1 DEF TriggerExec, memory, ChildKnown
      <4> QED BY <1>9, <2>1, <4>1, <4>2 DEF TriggerExec, memory, DownIsEmpty, IdListed,
                                            FinalIsDead, Active
    <3> QED BY <1>9, <3>1, <3>2 DEF TriggerExec
  <2> QED BY <1>0, <2>3, <2>4, <2>5, <2>6 DEF IInv
<1>10. CASE TriggerBrokenPipe \/ Crash
  BY <1>10, BusyIsUp, EndKeepsRecord DEF TriggerBrokenPipe, Crash
<1>11. CASE WaitForeground \/ StopFinal
  <2>1. /\ up /\ up' /\ cli.id \in Ids
        /\ cli'.at \in {"prompt", "closing"}
        /\ state' = [state EXCEPT ![cli.id] = "STOPPED"]
        /\ pid' = [pid EXCEPT ![cli.id] = NoPid]
        /\ state[cli.id] # "NONE"
    BY <1>0, <1>11, BusyIsUp, PromptPoints
       DEF WaitForeground, StopFinal, TypeOK, CliState, IInv, IdListed
  <2>2. NoNewLive
    BY <1>0, <1>11 DEF WaitForeground, StopFinal, kernel, NoNewLive, TypeOK
  <2>3. \A p \in Pids : p = pid[cli.id] => procs[p] # "live"
    <3>1. CASE WaitForeground
      BY <3>1, PidAssumption DEF WaitForeground, IInv, ChildKnown
    <3>2. CASE StopFinal
      BY <3>2 DEF StopFinal, IInv, FinalIsDead, Target
    <3> QED BY <1>11, <3>1, <3>2
  <2>4. FreshIds' /\ NoForgottenProcess' /\ ExecRecorded'
    BY <1>11, <2>1, <2>2, <2>3, FinishKeeps DEF WaitForeground, StopFinal
  <2> QED BY <1>0, <2>1, <2>4, PromptClaimsNothing DEF IInv
<1>12. CASE GraceReap \/ SendKill
  <2>1. NoNewLive
    BY <1>0, <1>12 DEF GraceReap, SendKill, NoNewLive, TypeOK
  <2>2. /\ up' /\ cli'.at = "final" /\ cli'.id = cli.id /\ state[cli.id] # "NONE"
        /\ UNCHANGED <<memory, disk>>
    BY <1>0, <1>12, BusyIsUp DEF GraceReap, SendKill, memory, TypeOK, CliState, IInv, IdListed
  <2>3. \A p \in Pids : p = pid[cli.id] => procs'[p] = "free"
    BY <1>0, <1>12 DEF GraceReap, SendKill, Target, TypeOK
  <2>4. DownIsEmpty' /\ ChildKnown' /\ IdListed' /\ FinalIsDead'
    BY <2>2, <2>3 DEF memory, DownIsEmpty, ChildKnown, IdListed, FinalIsDead, Target
  <2> QED BY <1>0, <2>1, <2>2, <2>4, QuietStep DEF IInv
<1>13. CASE container_delete \/ container_prune_all \/ container_pause \/ container_unpause
  <2>1. up /\ up' /\ cli'.at = "prompt" /\ cli.id \in Ids
    BY <1>0, <1>13, BusyIsUp, PromptPoints
       DEF container_delete, container_prune_all, container_pause, container_unpause, SetPaused,
           TypeOK, CliState
  <2>2. NoNewLive
    BY <1>13 DEF container_delete, container_prune_all, container_pause, container_unpause,
                 SetPaused, NoNewLive, kernel
  <2>3. \A d \in Ids : Active(d) => Active(d)' /\ pid'[d] = pid[d]
    BY <1>0, <1>13, <2>1
       DEF container_delete, container_prune_all, container_pause, container_unpause, SetPaused,
           Active, TypeOK
  <2>4. NoForgottenProcess'
    BY <2>1, <2>2, <2>3 DEF IInv, NoForgottenProcess, NoNewLive
  <2>5. ExecRecorded'
    <3>1. SaveOK(state', pid') \/ SaveFails
      BY <1>13 DEF container_delete, container_prune_all, container_pause, container_unpause,
                   SetPaused, save_metadata
    <3> QED BY <2>1, <2>2, <2>4, <3>1, SaveKeepsRecord
  <2>6. FreshIds'
    <3>1. CASE container_prune_all
      BY <1>0, <3>1, NextAfterAbove DEF container_prune_all, FreshIds, TypeOK
    <3>2. CASE container_delete \/ container_pause \/ container_unpause
      BY <1>0, <2>1, <3>2
         DEF container_delete, container_pause, container_unpause, SetPaused,
             IInv, FreshIds, TypeOK
    <3> QED BY <1>13, <3>1, <3>2
  <2> QED BY <1>0, <2>1, <2>4, <2>5, <2>6, PromptClaimsNothing DEF IInv
<1>14. CASE CloseEnd
  BY <1>14, BusyIsUp, EndKeepsRecord DEF CloseEnd, save_metadata
<1>15. CASE Environment
  <2>1. NoNewLive /\ UNCHANGED <<memory, disk, cli>>
    BY <1>0, <1>15 DEF Environment, ProcExit, HostSpawn, HostExit, NoNewLive, TypeOK
  <2>2. \A p \in Pids : procs[p] # "live" => procs'[p] # "live"
    BY <1>0, <1>15 DEF Environment, ProcExit, HostSpawn, HostExit, TypeOK
  <2>3. DownIsEmpty' /\ ChildKnown' /\ IdListed' /\ FinalIsDead'
    <3>1. \A p \in Pids : procs[p] \in {"free", "host"} => procs'[p] \in {"free", "host"}
      BY <1>0, <1>15 DEF Environment, ProcExit, HostSpawn, HostExit, TypeOK
    <3>2. kids' = kids
      BY <1>15 DEF Environment, ProcExit, HostSpawn, HostExit
    <3>3. ChildKnown'
      BY <2>1, <3>1, <3>2 DEF IInv, ChildKnown, ChildReaped, FActive, memory, disk
    <3> QED BY <2>1, <2>2, <3>3 DEF IInv, DownIsEmpty, IdListed, FinalIsDead, Target, memory
  <2> QED BY <1>0, <2>1, <2>3, QuietStep DEF IInv
<1>16. CASE UNCHANGED vars
  <2>1. NoNewLive
    BY <1>16 DEF vars, kernel, NoNewLive
  <2>2. DownIsEmpty' /\ ChildKnown' /\ IdListed' /\ FinalIsDead'
    BY <1>16 DEF IInv, DownIsEmpty, ChildKnown, ChildReaped, IdListed, FinalIsDead, Target,
                 FActive, vars, memory, disk, kernel
  <2> QED BY <1>0, <1>16, <2>1, <2>2, QuietStep DEF vars, IInv
<1> QED
  BY <1>1, <1>2, <1>3, <1>4, <1>5, <1>6, <1>7, <1>8, <1>9, <1>10, <1>11, <1>12, <1>13,
     <1>14, <1>15, <1>16, EmptyTyped
     DEF Next, Command, Create, Run, CliStep, StopStep

(* The inductive invariant holds at first, ... *)
LEMMA InvInit == Init => IInv
<1> SUFFICES ASSUME Init PROVE IInv
  OBVIOUS
<1>1. TypeOK
  BY IdleTyped, EmptyTyped DEF Init, TypeOK
<1>2. cli.at = "prompt"
  BY PromptPoints DEF Init
<1> QED BY <1>1, <1>2
        DEF Init, IInv, DownIsEmpty, FreshIds, NoForgottenProcess, ExecRecorded, ChildKnown,
            IdListed, FinalIsDead, NoStates

(* ... and hence always. *)
LEMMA Invariance == Spec => []IInv
BY InvInit, InvStep, PTL DEF Spec

(* No two containers ever get the same number. *)
THEOREM IdsAreFresh == Spec => []FreshIds
<1>1. IInv => FreshIds
  BY DEF IInv
<1> QED BY <1>1, Invariance, PTL

(* The list has every user process that was not taken over from a PAUSED    *)
(* record or lost with the file.                                            *)
THEOREM NothingForgotten == Spec => []NoForgottenProcess
<1>1. IInv => NoForgottenProcess
  BY DEF IInv
<1> QED BY <1>1, Invariance, PTL

(* So has the metadata file, at every instant: what a restart reads names   *)
(* every process that a crash left behind.                                  *)
THEOREM NothingUnrecorded == Spec => []ExecRecorded
<1>1. IInv => ExecRecorded
  BY DEF IInv
<1> QED BY <1>1, Invariance, PTL

-----------------------------------------------------------------------------
(* What exit leaves, and what the file says *)

(* cleanup_all_containers goes through the records without going back: no   *)
(* record behind it, other than the one it is stopping, has a process that  *)
(* runs a user's command.                                                   *)
ClosedDead ==
    /\ cli.at = "closing" => cli.closing
    /\ cli.closing => cli.at \in {"closing", "term", "grace", "kill", "final"}
    /\ cli.closing => \A c \in Ids \ cli.todo, p \in Pids :
            Active(c) /\ pid[c] = p /\ procs[p] = "live" =>
                cli.at # "closing" /\ c = cli.id

(* The file's line of a container says what its record says. *)
SameLine(c) == fstate[c] = state[c] /\ fpid[c] = pid[c]

(* Between any two steps the file has every record but the dirty ones and   *)
(* the one that a start has filled in and is about to save.                 *)
SavedAlways ==
    up => \A c \in Ids \ dirty : SameLine(c) \/ (cli.at = "save" /\ c = cli.id)

FileInv == ClosedDead /\ SavedAlways

(* Where a command may go after the prompt. *)
LEMMA IssuedAt ==
    ASSUME NEW op \in {"start", "stop", "delete", "pause", "unpause", "list", "prune", "closing"},
           NEW c \in Ids, Issue(op, c)
    PROVE  /\ cli'.at \in {"prompt", "start", "stop", "delete", "pause", "unpause", "prune", "closing"}
           /\ cli'.closing = (op = "closing") /\ cli'.todo = IF op = "closing" THEN Ids ELSE {}
           /\ cli'.at = "closing" <=> op = "closing"
BY DEF Issue, Idle

(* So may create, run and runbg. *)
LEMMA CreatedAt ==
    ASSUME NEW next \in {"prompt", "start"}, NEW fg \in BOOLEAN, container_create(next, fg)
    PROVE  cli'.at \in {"prompt", "start"} /\ ~cli'.closing
<1>1. cli' = Idle \/ cli' = [Idle EXCEPT !.at = next, !.id = nextSeq, !.fg = fg]
  BY DEF container_create
<1>2. CASE cli' = Idle
  BY <1>2 DEF Idle
<1>3. CASE cli' = [Idle EXCEPT !.at = next, !.id = nextSeq, !.fg = fg]
  BY <1>3 DEF Idle
<1> QED BY <1>1, <1>2, <1>3

(* Exit does not leave a live process behind in a record it has visited. *)
LEMMA ClosedStep == IInv /\ ClosedDead /\ [Next]_vars => ClosedDead'
<1> SUFFICES ASSUME IInv, ClosedDead, [Next]_vars PROVE ClosedDead'
  OBVIOUS
<1>0. TypeOK
  BY DEF IInv
<1>1. ASSUME ~cli'.closing, cli'.at # "closing" PROVE ClosedDead'
  BY <1>1 DEF ClosedDead
<1>2. ~Idle.closing /\ Idle.at # "closing"
  BY DEF Idle
<1>3. CASE cli' = Idle
  BY <1>1, <1>2, <1>3
<1>4. ASSUME NEW op \in {"start", "stop", "delete", "pause", "unpause", "list", "prune", "closing"},
             NEW c \in Ids, Issue(op, c)
      PROVE  ClosedDead'
  BY <1>4, IssuedAt DEF ClosedDead
<1>5. ASSUME NEW next \in {"prompt", "start"}, NEW fg \in BOOLEAN, container_create(next, fg)
      PROVE  ClosedDead'
  <2>1. cli'.at \in {"prompt", "start"} /\ ~cli'.closing
    BY <1>5, CreatedAt
  <2> QED BY <1>1, <2>1
<1>6. ASSUME ~cli.closing, cli'.closing = cli.closing, cli'.at # "closing" PROVE ClosedDead'
  BY <1>1, <1>6
<1>7. ASSUME cli.at \in {"start", "stop", "handshake", "save", "trigger"} PROVE ~cli.closing
  BY <1>7 DEF ClosedDead
<1>8. ASSUME \/ StopBegin \/ HandshakeReady \/ StartSave \/ TriggerExec
             \/ \E p \in Pids : StartClone(p)
      PROVE  ClosedDead'
  <2>1. ~cli.closing
    BY <1>7, <1>8 DEF StopBegin, HandshakeReady, StartSave, TriggerExec, StartClone
  <2>2. cli' = Idle \/ (cli'.closing = cli.closing /\ cli'.at # "closing")
    BY <1>0, <1>8 DEF StopBegin, HandshakeReady, StartSave, TriggerExec, StartClone,
                      TypeOK, CliState
  <2> QED BY <1>3, <1>6, <2>1, <2>2
<1>9. CASE Refused \/ StartCloneFails \/ HandshakeFails \/ WaitForeground \/ WaitInterrupted
           \/ TriggerBrokenPipe \/ Crash \/ CloseEnd
           \/ container_delete \/ container_prune_all \/ container_pause \/ container_unpause
           \/ container_manager_init
  BY <1>3, <1>9
     DEF Refused, StartCloneFails, HandshakeFails, WaitForeground, WaitInterrupted,
         TriggerBrokenPipe, Crash, CloseEnd, ProcessEnds, container_delete, container_prune_all,
         container_pause, container_unpause, SetPaused, container_manager_init
<1>10. CASE SendTerm \/ GraceTimeout \/ GraceNoChild
  <2>1. /\ cli'.at \in {"grace", "kill"} /\ cli'.id = cli.id /\ cli'.closing = cli.closing
        /\ cli'.todo = cli.todo /\ cli.at # "closing"
        /\ UNCHANGED <<state, pid, procs>>
    BY <1>0, <1>10 DEF SendTerm, GraceTimeout, GraceNoChild, TypeOK, CliState, memory, kernel
  <2> QED BY <2>1 DEF ClosedDead, Active
<1>11. CASE GraceReap \/ SendKill
  <2>1. /\ cli'.at = "final" /\ cli'.id = cli.id /\ cli'.closing = cli.closing
        /\ cli'.todo = cli.todo /\ cli.at # "closing"
        /\ UNCHANGED <<state, pid>>
        /\ \A p \in Pids : procs'[p] = "live" => procs[p] = "live"
    BY <1>0, <1>11 DEF GraceReap, SendKill, TypeOK, CliState, memory
  <2> QED BY <2>1 DEF ClosedDead, Active
<1>12. CASE KillDenied \/ KillInterrupted \/ StopFinal
  <2>1. CASE ~cli.closing
    BY <1>3, <1>12, <2>1 DEF KillDenied, KillInterrupted, StopFinal, AfterStop
  <2>2. CASE cli.closing
    <3>1. cli'.at = "closing" /\ cli'.closing /\ cli'.todo = cli.todo /\ cli.id \in Ids
      BY <1>0, <1>12, <2>2 DEF KillDenied, KillInterrupted, StopFinal, AfterStop, Idle,
                               TypeOK, CliState
    <3>2. \A p \in Pids : procs'[p] = "live" => procs[p] = "live"
      BY <1>0, <1>12 DEF KillDenied, KillInterrupted, StopFinal, kernel, TypeOK
    <3>3. ASSUME NEW c \in Ids, Active(c)'
          PROVE  Active(c) /\ pid'[c] = pid[c]
      BY <1>0, <1>12, <3>1, <3>3
         DEF KillDenied, KillInterrupted, StopFinal, memory, Active, TypeOK
    <3>4. ASSUME NEW p \in Pids, state'[cli.id] \in {"RUNNING", "PAUSED"}, pid'[cli.id] = p
          PROVE  procs'[p] # "live"
      <4>1. CASE KillDenied
        BY <3>4, <4>1 DEF KillDenied, kernel, memory, Target
      <4>2. CASE KillInterrupted
        BY <1>0, <3>4, <4>2 DEF KillInterrupted, memory, Target, TypeOK
      <4>3. CASE StopFinal
        BY <1>0, <3>1, <3>4, <4>3 DEF StopFinal, TypeOK
      <4> QED BY <1>12, <4>1, <4>2, <4>3
    <3>5. ASSUME NEW c \in Ids \ cli'.todo, NEW p \in Pids, Active(c)', pid'[c] = p,
                 procs'[p] = "live"
          PROVE  FALSE
      <4>1. c = cli.id
        BY <2>2, <3>1, <3>2, <3>3, <3>5 DEF ClosedDead
      <4> QED BY <3>4, <3>5, <4>1 DEF Active
    <3> QED BY <3>1, <3>5 DEF ClosedDead
  <2> QED BY <2>1, <2>2
<1>13. ASSUME NEW c \in Ids, CloseVisit(c) PROVE ClosedDead'
  <2>1. /\ cli'.at = (IF Active(c) THEN "term" ELSE "closing") /\ cli'.id = c
        /\ cli'.closing = cli.closing /\ cli'.todo = cli.todo \ {c}
        /\ cli.at = "closing" /\ UNCHANGED <<state, pid, procs>>
    BY <1>0, <1>13 DEF CloseVisit, TypeOK, CliState, memory, kernel
  <2> QED BY <2>1 DEF ClosedDead, Active
<1>14. CASE Environment
  <2>1. UNCHANGED <<state, pid, cli>> /\ \A p \in Pids : procs'[p] = "live" => procs[p] = "live"
    BY <1>0, <1>14 DEF Environment, ProcExit, HostSpawn, HostExit, TypeOK, memory
  <2> QED BY <2>1 DEF ClosedDead, Active
<1>15. CASE UNCHANGED vars
  BY <1>15 DEF vars, memory, kernel, ClosedDead, Active
<1> QED
  BY <1>4, <1>5, <1>8, <1>9, <1>10, <1>11, <1>12, <1>13, <1>14, <1>15, EmptyTyped
     DEF Next, Command, Create, Run, CliStep, StopStep

(* After a save of the list the file says what the list says. *)
LEMMA SaveSaved == ASSUME SaveOK(state', pid') \/ SaveFails PROVE SavedAlways'
BY DEF SaveOK, SaveFails, Written, SavedAlways, SameLine

(* Steps that touch neither the list nor the file, nor leave a start that   *)
(* is about to save.                                                        *)
LEMMA QuietSaved ==
    ASSUME SavedAlways, UNCHANGED <<memory, disk, dirty>>, cli.at # "save" \/ cli' = cli
    PROVE  SavedAlways'
BY DEF SavedAlways, SameLine, memory, disk

(* Every step keeps the file as good as the list. *)
LEMMA SavedStep == IInv /\ SavedAlways /\ [Next]_vars => SavedAlways'
<1> SUFFICES ASSUME IInv, SavedAlways, [Next]_vars PROVE SavedAlways'
  OBVIOUS
<1>0. TypeOK
  BY DEF IInv
<1>1. CASE container_manager_init
  <2>1. /\ state' = [c \in Ids |-> IF Recovered(c) THEN "STOPPED" ELSE fstate[c]]
        /\ pid' = [c \in Ids |-> IF Recovered(c) THEN NoPid ELSE fpid[c]]
        /\ fstate' = fstate /\ fpid' = fpid
        /\ dirty' = {c \in Ids : Recovered(c)}
    BY <1>1 DEF container_manager_init, disk
  <2>2. ASSUME NEW c \in Ids, ~Recovered(c) PROVE SameLine(c)'
    BY <2>1, <2>2 DEF SameLine
  <2> QED BY <2>1, <2>2 DEF SavedAlways
<1>2. ASSUME NEW op \in {"start", "stop", "delete", "pause", "unpause", "list", "prune", "closing"},
             NEW c \in Ids, Issue(op, c)
      PROVE  SavedAlways'
  <2>1. CASE Exited # {}
    BY <1>2, <2>1, SaveSaved DEF Issue, poll_states, save_metadata
  <2>2. CASE Exited = {}
    <3>1. UNCHANGED <<memory, disk, dirty>> /\ cli.at = "prompt"
      BY <1>0, <1>2, <2>2 DEF Issue, poll_states, TypeOK, memory
    <3> QED BY <3>1, QuietSaved
  <2> QED BY <2>1, <2>2
<1>3. ASSUME NEW next \in {"prompt", "start"}, NEW fg \in BOOLEAN, container_create(next, fg)
      PROVE  SavedAlways'
  <2>1. cli.at = "prompt" /\ up' = up
    BY <1>3 DEF container_create
  <2>2. \/ UNCHANGED <<state, pid>> /\ UNCHANGED <<disk, dirty>>
        \/ SaveFails \/ SaveOK(state', pid') \/ dirty' = Ids
    BY <1>3 DEF container_create
  <2>3. CASE SaveFails \/ SaveOK(state', pid')
    BY <2>3, SaveSaved
  <2>4. CASE dirty' = Ids
    BY <2>4 DEF SavedAlways
  <2>5. CASE UNCHANGED <<state, pid>> /\ UNCHANGED <<disk, dirty>>
    BY <2>1, <2>5 DEF SavedAlways, SameLine, disk
  <2> QED BY <2>2, <2>3, <2>4, <2>5
<1>4. CASE \/ Refused \/ StartCloneFails \/ HandshakeFails \/ TriggerExec \/ WaitInterrupted
           \/ StopBegin \/ SendTerm \/ GraceReap \/ GraceTimeout \/ GraceNoChild \/ SendKill
           \/ KillDenied \/ KillInterrupted
           \/ (\E p \in Pids : StartClone(p)) \/ (\E c \in Ids : CloseVisit(c))
  <2>1. cli.at # "save" /\ UNCHANGED <<memory, disk, dirty>>
    BY <1>4 DEF Refused, StartCloneFails, HandshakeFails, TriggerExec, WaitInterrupted, StopBegin,
                SendTerm, GraceReap, GraceTimeout, GraceNoChild, SendKill, KillDenied,
                KillInterrupted, StartClone, CloseVisit
  <2> QED BY <2>1, QuietSaved
<1>5. CASE HandshakeReady
  <2>1. /\ cli.at = "handshake" /\ cli'.id = cli.id
        /\ (cli'.at = "save" /\ dirty' = dirty) \/ dirty' = dirty \cup {cli.id}
        /\ state' = [state EXCEPT ![cli.id] = "RUNNING"]
        /\ pid' = [pid EXCEPT ![cli.id] = cli.child]
        /\ UNCHANGED <<up, disk>>
    BY <1>0, <1>5 DEF HandshakeReady, TypeOK, CliState
  <2>2. ASSUME NEW c \in Ids, c # cli.id, SameLine(c) PROVE SameLine(c)'
    BY <1>0, <2>1, <2>2 DEF SameLine, disk, TypeOK
  <2> QED BY <2>1, <2>2 DEF SavedAlways
<1>6. CASE StartSave
  BY <1>6, SaveSaved DEF StartSave, memory
<1>7. CASE TriggerBrokenPipe \/ Crash \/ CloseEnd
  BY <1>7 DEF TriggerBrokenPipe, Crash, CloseEnd, ProcessEnds, SavedAlways
<1>8. CASE WaitForeground \/ StopFinal
  BY <1>8, SaveSaved DEF WaitForeground, StopFinal, save_metadata
<1>9. CASE container_delete \/ container_prune_all \/ container_pause \/ container_unpause
  <2>1. SaveOK(state', pid') \/ SaveFails
    BY <1>9 DEF container_delete, container_prune_all, container_pause, container_unpause,
                SetPaused, save_metadata
  <2> QED BY <2>1, SaveSaved
<1>10. CASE Environment \/ UNCHANGED vars
  <2>1. UNCHANGED <<memory, disk, cli, dirty>>
    BY <1>10 DEF Environment, ProcExit, HostSpawn, HostExit, vars
  <2> QED BY <2>1, QuietSaved
<1> QED
  BY <1>1, <1>2, <1>3, <1>4, <1>5, <1>6, <1>7, <1>8, <1>9, <1>10, EmptyTyped
     DEF Next, Command, Create, Run, CliStep, StopStep

(* Both hold throughout. *)
LEMMA FileInvariance == Spec => []FileInv
<1>1. Init => FileInv
  <2> SUFFICES ASSUME Init PROVE FileInv
    OBVIOUS
  <2>1. cli.at = "prompt" /\ ~cli.closing
    BY DEF Init, Idle
  <2> QED BY <2>1 DEF Init, FileInv, ClosedDead, SavedAlways
<1>2. IInv /\ FileInv /\ [Next]_vars => FileInv'
  BY ClosedStep, SavedStep DEF FileInv
<1> QED BY <1>1, <1>2, Invariance, PTL DEF Spec

(* At the prompt the file says what the list says of every record but the   *)
(* dirty ones: no stop, wait, poll, pause, delete or prune ends without its *)
(* save.                                                                    *)
THEOREM PromptIsSaved == Spec => []SavedAtPrompt
<1>1. FileInv => SavedAtPrompt
  BY DEF FileInv, SavedAlways, SavedAtPrompt, SameLine
<1> QED BY <1>1, FileInvariance, PTL

(* Once every record has been visited, no user process is left but the lost *)
(* ones.                                                                    *)
LEMMA ClosedIsClean ==
    IInv /\ ClosedDead => (CloseEnd => \A p \in Pids : procs[p] = "live" => p \in lost)
<1> SUFFICES ASSUME IInv, ClosedDead, CloseEnd, NEW p \in Pids, procs[p] = "live", p \notin lost
             PROVE  FALSE
  OBVIOUS
<1>1. up /\ cli.at = "closing" /\ cli.todo = {}
  BY BusyIsUp DEF CloseEnd
<1>2. PICK c \in Ids : Active(c) /\ pid[c] = p
  BY <1>1 DEF IInv, NoForgottenProcess
<1> QED BY <1>1, <1>2 DEF ClosedDead

(* exit leaves no user process behind but the lost ones. *)
THEOREM ExitIsClean == Spec => CleanExit
<1> DEFINE Clean == CloseEnd => \A p \in Pids : procs[p] = "live" => p \in lost
<1>1. IInv /\ FileInv => [Clean]_vars
  BY ClosedIsClean DEF FileInv
<1> QED BY <1>1, Invariance, FileInvariance, PTL DEF CleanExit

(* A child that a record names is reaped by the code that works on a record *)
(* with its pid.                                                            *)
THEOREM OwnersReap == Spec => ReapedByOwner
<1> DEFINE Owned == \A c \in Ids : Active(c) /\ pid[c] \in kids \ kids' /\ up' =>
              \/ cli.at = "handshake" /\ cli.child = pid[c]
              \/ \E d \in Ids :
                    /\ pid[d] = pid[c]
                    /\ state'[d] = "STOPPED" \/ (cli'.at = "final" /\ cli'.id = d)
<1>1. IInv /\ [Next]_vars => Owned
  <2> SUFFICES ASSUME IInv, [Next]_vars PROVE Owned
    OBVIOUS
  <2>0. TypeOK
    BY DEF IInv
  <2>1. ASSUME kids \subseteq kids' \/ ~up' PROVE Owned
    BY <2>1
  <2>2. ASSUME NEW op \in {"start", "stop", "delete", "pause", "unpause", "list", "prune", "closing"},
               NEW c \in Ids, Issue(op, c)
        PROVE  Owned
    <3>1. /\ kids' = kids \ ReapedPids
          /\ state' = [d \in Ids |-> IF d \in Exited THEN "STOPPED" ELSE state[d]]
      BY <2>2 DEF Issue, poll_states
    <3>2. Exited \subseteq Ids
      BY DEF Exited
    <3> QED BY <3>1, <3>2 DEF ReapedPids
  <2>3. CASE HandshakeFails
    BY <2>3 DEF HandshakeFails
  <2>4. CASE WaitForeground
    <3>1. /\ cli.id \in Ids /\ pid[cli.id] = cli.child /\ kids' = kids \ {cli.child}
          /\ state'[cli.id] = "STOPPED"
      <4>1. cli.at = "wait" /\ ~ChildReaped
        BY <2>4 DEF WaitForeground, ChildReaped
      <4> QED BY <2>0, <2>4, <4>1 DEF WaitForeground, IInv, ChildKnown, TypeOK, CliState
    <3> QED BY <3>1
  <2>5. CASE GraceReap \/ SendKill
    <3>1. /\ cli.id \in Ids /\ kids' = kids \ {pid[cli.id]} /\ cli'.at = "final"
          /\ cli'.id = cli.id
      BY <2>0, <2>5 DEF GraceReap, SendKill, Target, TypeOK, CliState
    <3> QED BY <3>1
  <2>6. CASE \/ container_manager_init \/ Create \/ Run \/ Refused \/ StartCloneFails
             \/ HandshakeReady \/ StartSave \/ TriggerExec \/ WaitInterrupted \/ StopBegin
             \/ SendTerm \/ GraceTimeout \/ GraceNoChild \/ KillDenied \/ KillInterrupted
             \/ StopFinal \/ container_delete \/ container_prune_all \/ container_pause
             \/ container_unpause \/ UNCHANGED vars
             \/ (\E p \in Pids : StartClone(p)) \/ (\E c \in Ids : CloseVisit(c))
    <3>1. kids \subseteq kids'
      BY <2>6 DEF container_manager_init, Create, Run, container_create, Refused,
           StartCloneFails, HandshakeReady, StartSave, TriggerExec, WaitInterrupted, StopBegin,
           SendTerm, GraceTimeout, GraceNoChild, KillDenied, KillInterrupted, StopFinal,
           container_delete, container_prune_all, container_pause, container_unpause, SetPaused,
           StartClone, CloseVisit, vars, kernel
    <3> QED BY <2>1, <3>1
  <2>7. CASE TriggerBrokenPipe \/ Crash \/ CloseEnd
    BY <2>1, <2>7 DEF TriggerBrokenPipe, Crash, CloseEnd, ProcessEnds
  <2>8. CASE Environment
    BY <2>1, <2>8 DEF Environment, ProcExit, HostSpawn, HostExit
  <2> HIDE DEF Owned
  <2> QED
    BY <2>2, <2>3, <2>4, <2>5, <2>6, <2>7, <2>8, EmptyTyped
       DEF Next, Command, CliStep, StopStep
<1>2. IInv /\ [Next]_vars => [Owned]_vars
  BY <1>1
<1> QED BY <1>2, Invariance, PTL DEF Spec, ReapedByOwner

-----------------------------------------------------------------------------
(* The same while web threads poll between any two steps *)

(* Which points the steps of a stop without a target lead to. *)
LEMMA NoTargetAt ==
    ASSUME TypeOK, StopTooLate \/ TermAll \/ GraceEndsAny \/ KillAll \/ \E p \in Pids : GraceReapAny(p)
    PROVE  /\ cli.at \in {"term", "grace", "kill"} /\ Target = NoPid /\ UNCHANGED <<memory, disk, lost, dirty>>
           /\ \/ cli' = AfterStop
              \/ /\ \E a \in {"grace", "kill", "final"} : cli' = [cli EXCEPT !.at = a]
                 /\ cli'.id = cli.id /\ cli'.closing = cli.closing /\ cli'.todo = cli.todo
                 /\ cli'.at \in {"grace", "kill", "final"}
           /\ \A p \in Pids : procs'[p] = "live" => procs[p] = "live"
<1>1. CASE StopTooLate
  BY <1>1 DEF StopTooLate, NoTarget, kernel
<1>2. CASE TermAll
  BY <1>2 DEF TermAll, NoTarget, kernel, TypeOK, CliState
<1>3. CASE GraceEndsAny
  BY <1>3 DEF GraceEndsAny, NoTarget, kernel, TypeOK, CliState
<1>4. CASE KillAll
  <2>1. PICK one \in SUBSET kids :
          /\ \/ cli' = [cli EXCEPT !.at = "final"]
             \/ cli' = AfterStop
          /\ procs' = [p \in Pids |-> IF p \in kids \ one THEN "zombie" ELSE "free"]
          /\ kids' = kids \ one
    BY <1>4 DEF KillAll
  <2>2. \A p \in Pids : procs'[p] # "live"
    BY <2>1
  <2>3. /\ cli.at = "kill" /\ Target = NoPid /\ UNCHANGED <<memory, disk, lost, dirty>>
    BY <1>4 DEF KillAll, NoTarget
  <2> QED BY <2>1, <2>2, <2>3 DEF TypeOK, CliState
<1>5. ASSUME NEW q \in Pids, GraceReapAny(q)
      PROVE  /\ cli.at = "grace" /\ Target = NoPid /\ UNCHANGED <<memory, disk, lost, dirty>>
             /\ cli' = [cli EXCEPT !.at = "final"]
             /\ cli'.id = cli.id /\ cli'.closing = cli.closing /\ cli'.todo = cli.todo
             /\ cli'.at = "final"
             /\ \A p \in Pids : procs'[p] = "live" => procs[p] = "live"
  BY <1>5 DEF GraceReapAny, NoTarget, TypeOK, CliState
<1> QED BY <1>1, <1>2, <1>3, <1>4, <1>5

(* The steps of ContainerWeb keep the types. *)
LEMMA WebTypeStep == TypeOK /\ WebStep => TypeOK'
<1> SUFFICES ASSUME TypeOK, WebStep PROVE TypeOK'
  OBVIOUS
<1>1. CASE WebPoll
  <2>1. state' \in [Ids -> States] /\ pid' \in [Ids -> Pids \cup {NoPid}]
    BY <1>1 DEF WebPoll, poll_states, TypeOK, States
  <2>2. /\ there' \in BOOLEAN /\ dirty' \in SUBSET Ids /\ fstate' \in [Ids -> States]
        /\ fpid' \in [Ids -> Pids \cup {NoPid}]
    BY <1>1, <2>1, SaveTyped DEF WebPoll, poll_states, save_metadata
  <2> QED BY <1>1, <2>1, <2>2 DEF WebPoll, poll_states, TypeOK, ProcStates
<1>2. CASE WebBrokenPipe
  BY <1>2, EndTyped DEF WebBrokenPipe, TypeOK, disk
<1>3. CASE WaitReaped \/ \E p \in Pids : WaitReapsAny(p)
  <2>1. state' \in [Ids -> States] /\ pid' \in [Ids -> Pids \cup {NoPid}] /\ cli' \in CliState
    BY <1>3, IdleTyped DEF WaitReaped, WaitReapsAny, FinishAgain, TypeOK, States
  <2>2. procs' \in [Pids -> ProcStates] /\ kids' \in SUBSET Pids
    BY <1>3 DEF WaitReaped, WaitReapsAny, TypeOK, kernel, ProcStates
  <2>3. /\ there' \in BOOLEAN /\ dirty' \in SUBSET Ids /\ fstate' \in [Ids -> States]
        /\ fpid' \in [Ids -> Pids \cup {NoPid}]
    BY <1>3, <2>1, SaveTyped DEF WaitReaped, WaitReapsAny, FinishAgain, save_metadata
  <2> QED BY <1>3, <2>1, <2>2, <2>3 DEF WaitReaped, WaitReapsAny, FinishAgain, TypeOK
<1>4. CASE StopTooLate \/ TermAll \/ GraceEndsAny \/ KillAll \/ \E p \in Pids : GraceReapAny(p)
  <2>1. cli' \in CliState
    <3>1. CASE cli' = AfterStop
      BY <3>1, AfterStopTyped
    <3>2. ASSUME NEW a \in {"grace", "kill", "final"}, cli' = [cli EXCEPT !.at = a]
          PROVE  cli' \in CliState
      BY <3>2 DEF TypeOK, CliState, Points
    <3> QED BY <1>4, <3>1, <3>2, NoTargetAt
  <2>2. procs' \in [Pids -> ProcStates] /\ kids' \in SUBSET Pids
    BY <1>4 DEF StopTooLate, TermAll, GraceEndsAny, KillAll, GraceReapAny, kernel, TypeOK,
                ProcStates
  <2>3. UNCHANGED <<memory, disk, lost, dirty>>
    BY <1>4, NoTargetAt
  <2> QED BY <2>1, <2>2, <2>3 DEF TypeOK, memory, disk
<1>5. CASE WaitTooLate
  BY <1>5, CliOnlyTyped, IdleTyped DEF WaitTooLate
<1> QED BY <1>1, <1>2, <1>3, <1>4, <1>5 DEF WebStep

(* They keep the inductive invariant of the manager. *)
LEMMA WebInvStep == IInv /\ WebStep => IInv'
<1> SUFFICES ASSUME IInv, WebStep PROVE IInv'
  OBVIOUS
<1>0. TypeOK /\ TypeOK'
  BY WebTypeStep DEF IInv
<1>1. CASE WebPoll
  <2>1. /\ up /\ up' /\ poll_states /\ UNCHANGED <<up, nextSeq, lost>> /\ cli' = cli
        /\ state' = [c \in Ids |-> IF c \in Exited THEN "STOPPED" ELSE state[c]]
        /\ pid' = [c \in Ids |-> IF c \in Exited THEN NoPid ELSE pid[c]]
        /\ procs' = [p \in Pids |-> IF p \in ReapedPids THEN "free" ELSE procs[p]]
        /\ kids' = kids \ ReapedPids
        /\ SaveOK(state', pid') \/ SaveFails
    BY <1>1 DEF WebPoll, poll_states, save_metadata
  <2>2. NoForgottenProcess' /\ ExecRecorded' /\ FreshIds'
    BY <2>1, PollKeeps
  <2>3. DownIsEmpty' /\ IdListed'
    BY <1>0, <2>1 DEF IInv, DownIsEmpty, IdListed, TypeOK, CliState
  <2>4. FinalIsDead'
    BY <1>0, <2>1, PidAssumption DEF IInv, FinalIsDead, Target, TypeOK, CliState
  <2>5. ChildKnown'
    <3> SUFFICES ASSUME cli.at \in {"handshake", "save", "trigger", "wait"} PROVE ChildKnown'
      BY <2>1 DEF ChildKnown
    <3>1. cli.child \in Pids /\ cli.id \in Ids /\ (cli.child \in kids \/ ChildReaped)
      BY <1>0 DEF IInv, ChildKnown, TypeOK, CliState
    <3>2. ChildReaped => ChildReaped'
      BY <2>1, <3>1 DEF ChildReaped
    <3>3. cli.child \in kids => cli'.child \in kids' \/ ChildReaped'
      BY <2>1, <3>1 DEF ChildReaped
    <3>4. ASSUME cli.at \in {"save", "trigger", "wait"}, cli.id \in Exited, ~ChildReaped
          PROVE  ChildReaped'
      <4>1. state[cli.id] = "RUNNING" /\ pid[cli.id] = cli.child /\ cli.child \in kids
        BY <3>1, <3>4 DEF IInv, ChildKnown
      <4>2. cli.child \in ReapedPids
        BY <3>4, <4>1 DEF ReapedPids
      <4> QED BY <2>1, <3>1, <4>2 DEF ChildReaped
    <3>5. cli.at \in {"save", "trigger", "wait"} =>
              \/ state'[cli.id] = "RUNNING" /\ pid'[cli.id] = cli.child
              \/ pid'[cli.id] = NoPid /\ ChildReaped'
      BY <2>1, <3>1, <3>2, <3>4 DEF IInv, ChildKnown
    <3>6. cli.at = "trigger" /\ there' =>
              (fstate'[cli.id] \in {"RUNNING", "PAUSED"} /\ fpid'[cli.id] = cli.child) \/ ChildReaped'
      <4>1. CASE SaveOK(state', pid')
        BY <3>5, <4>1 DEF SaveOK, Written
      <4>2. CASE SaveFails /\ UNCHANGED disk
        BY <3>2, <4>2 DEF IInv, ChildKnown, FActive, disk
      <4>3. CASE Erased
        BY <4>3 DEF Erased
      <4> QED BY <2>1, <4>1, <4>2, <4>3 DEF SaveFails
    <3> QED BY <2>1, <3>1, <3>2, <3>3, <3>5, <3>6 DEF ChildKnown, FActive
  <2> QED BY <1>0, <2>2, <2>3, <2>4, <2>5 DEF IInv
<1>2. CASE WebBrokenPipe
  BY <1>2, BusyIsUp, EndKeepsRecord DEF WebBrokenPipe
<1>3. CASE WaitReaped \/ \E p \in Pids : WaitReapsAny(p)
  <2>1. /\ up /\ up' /\ cli.id \in Ids /\ cli'.at = "prompt" /\ state[cli.id] # "NONE"
        /\ state' = [state EXCEPT ![cli.id] = "STOPPED"]
        /\ pid' = [pid EXCEPT ![cli.id] = NoPid]
        /\ save_metadata(state', pid') /\ UNCHANGED <<up, nextSeq, lost>>
    BY <1>0, <1>3, BusyIsUp, PromptPoints
       DEF WaitReaped, WaitReapsAny, FinishAgain, TypeOK, CliState, IInv, IdListed
  <2>2. NoNewLive
    BY <1>0, <1>3, <2>1 DEF NoNewLive, kernel, WaitReaped, WaitReapsAny, TypeOK
  <2>3. \A p \in Pids : p = pid[cli.id] => procs[p] # "live"
    BY <1>3, PidAssumption DEF WaitReaped, WaitReapsAny, Target, IInv, ChildKnown, ChildReaped
  <2>4. FreshIds' /\ NoForgottenProcess' /\ ExecRecorded'
    BY <2>1, <2>2, <2>3, FinishKeeps
  <2> QED BY <1>0, <2>1, <2>4, PromptClaimsNothing DEF IInv
<1>4. CASE StopTooLate \/ TermAll \/ GraceEndsAny \/ KillAll \/ \E p \in Pids : GraceReapAny(p)
  <2>1. /\ cli.at \in {"term", "grace", "kill"} /\ Target = NoPid /\ UNCHANGED <<memory, disk, lost, dirty>>
        /\ \A p \in Pids : procs'[p] = "live" => procs[p] = "live"
        /\ up /\ up' /\ state[cli.id] # "NONE"
    BY <1>0, <1>4, NoTargetAt, BusyIsUp DEF IInv, IdListed, memory
  <2>2. NoNewLive
    BY <2>1 DEF NoNewLive
  <2>3. DownIsEmpty' /\ ChildKnown' /\ IdListed' /\ FinalIsDead'
    <3>1. CASE cli' = AfterStop
      BY <2>1, <3>1, PromptPoints, PromptClaimsNothing
    <3>2. CASE cli'.id = cli.id /\ cli'.at \in {"grace", "kill", "final"}
      BY <2>1, <3>2, PidAssumption DEF DownIsEmpty, ChildKnown, IdListed, FinalIsDead, Target, memory
    <3> QED BY <1>0, <1>4, <3>1, <3>2, NoTargetAt
  <2> QED BY <1>0, <2>1, <2>2, <2>3, QuietStep DEF IInv
<1>5. CASE WaitTooLate
  <2>1. /\ up /\ up' /\ cli'.at = "prompt" /\ UNCHANGED <<memory, disk, kernel, lost, dirty>>
    BY <1>5, BusyIsUp, PromptPoints DEF WaitTooLate, memory
  <2>2. NoNewLive
    BY <2>1 DEF NoNewLive, kernel
  <2> QED BY <1>0, <2>1, <2>2, QuietStep, PromptClaimsNothing DEF IInv
<1> QED BY <1>1, <1>2, <1>3, <1>4, <1>5 DEF WebStep

(* Hence it holds while web threads poll. *)
LEMMA WebInvariance == WebSpec => []IInv
<1>1. IInv /\ [WebNext]_vars => IInv'
  BY InvStep, WebInvStep DEF WebNext
<1> QED BY <1>1, InvInit, PTL DEF WebSpec

(* No poll makes the command line lose a process. *)
THEOREM WebNothingForgotten == WebSpec => []NoForgottenProcess
<1>1. IInv => NoForgottenProcess
  BY DEF IInv
<1> QED BY <1>1, WebInvariance, PTL

(* The polls save the list from other threads, and still every process that *)
(* runs a user's command is in the file at every instant.                   *)
THEOREM WebNothingUnrecorded == WebSpec => []ExecRecorded
<1>1. IInv => ExecRecorded
  BY DEF IInv
<1> QED BY <1>1, WebInvariance, PTL

(* Nor does exit pass over a live process because of a poll. *)
LEMMA WebClosedStep == IInv /\ ClosedDead /\ WebStep => ClosedDead'
<1> SUFFICES ASSUME IInv, ClosedDead, WebStep PROVE ClosedDead'
  OBVIOUS
<1>0. TypeOK
  BY DEF IInv
<1>1. CASE WebPoll
  <2>1. /\ cli' = cli
        /\ \A c \in Ids : Active(c)' => Active(c) /\ pid'[c] = pid[c]
        /\ \A p \in Pids : procs'[p] = "live" => procs[p] = "live"
    BY <1>0, <1>1 DEF WebPoll, poll_states, Active, TypeOK
  <2> QED BY <2>1 DEF ClosedDead
<1>2. CASE WebBrokenPipe \/ WaitTooLate \/ WaitReaped \/ \E p \in Pids : WaitReapsAny(p)
  BY <1>2 DEF WebBrokenPipe, ProcessEnds, WaitTooLate, WaitReaped, WaitReapsAny, FinishAgain,
              ClosedDead, Idle
<1>3. CASE StopTooLate \/ TermAll \/ GraceEndsAny \/ KillAll \/ \E p \in Pids : GraceReapAny(p)
  <2>1. /\ cli.at \in {"term", "grace", "kill"} /\ Target = NoPid
        /\ UNCHANGED <<state, pid>>
        /\ \A p \in Pids : procs'[p] = "live" => procs[p] = "live"
    BY <1>0, <1>3, NoTargetAt DEF memory
  <2>2. CASE cli' = AfterStop /\ ~cli.closing
    BY <2>2 DEF ClosedDead, AfterStop, Idle
  <2>3. CASE cli' = AfterStop /\ cli.closing
    <3>1. cli'.at = "closing" /\ cli'.closing /\ cli'.todo = cli.todo
      BY <2>3 DEF AfterStop, Idle
    <3> QED BY <2>1, <2>3, <3>1, PidAssumption DEF ClosedDead, Active, Target
  <2>4. CASE /\ cli'.id = cli.id /\ cli'.closing = cli.closing /\ cli'.todo = cli.todo
             /\ cli'.at \in {"grace", "kill", "final"}
    BY <2>1, <2>4 DEF ClosedDead, Active
  <2> QED BY <1>0, <1>3, <2>2, <2>3, <2>4, NoTargetAt
<1> QED BY <1>1, <1>2, <1>3 DEF WebStep

(* exit is clean whatever the web threads do meanwhile. *)
THEOREM WebExitIsClean == WebSpec => CleanExit
<1> DEFINE Clean == CloseEnd => \A p \in Pids : procs[p] = "live" => p \in lost
<1>1. Init => ClosedDead
  BY DEF Init, Idle, ClosedDead
<1>2. IInv /\ ClosedDead /\ [WebNext]_vars => ClosedDead'
  BY ClosedStep, WebClosedStep DEF WebNext
<1>3. IInv /\ ClosedDead => Clean
  BY ClosedIsClean
<1>4. IInv /\ ClosedDead => [Clean]_vars
  BY <1>3
<1> QED BY <1>1, <1>2, <1>4, WebInvariance, PTL DEF WebSpec, CleanExit

(* They keep the file as good as the list. *)
LEMMA WebSavedStep == IInv /\ SavedAlways /\ WebStep => SavedAlways'
<1> SUFFICES ASSUME IInv, SavedAlways, WebStep PROVE SavedAlways'
  OBVIOUS
<1>0. TypeOK
  BY DEF IInv
<1>1. CASE WebPoll \/ WaitReaped \/ \E p \in Pids : WaitReapsAny(p)
  BY <1>1, SaveSaved DEF WebPoll, poll_states, WaitReaped, WaitReapsAny, FinishAgain, save_metadata
<1>2. CASE WebBrokenPipe
  BY <1>2 DEF WebBrokenPipe, ProcessEnds, SavedAlways
<1>3. CASE WaitTooLate
  BY <1>3, QuietSaved DEF WaitTooLate
<1>4. CASE StopTooLate \/ TermAll \/ GraceEndsAny \/ KillAll \/ \E p \in Pids : GraceReapAny(p)
  BY <1>0, <1>4, NoTargetAt, QuietSaved
<1> QED BY <1>1, <1>2, <1>3, <1>4 DEF WebStep

(* Polls do not make file and list differ at the prompt. *)
THEOREM WebPromptIsSaved == WebSpec => []SavedAtPrompt
<1>1. Init => SavedAlways
  BY DEF Init, SavedAlways
<1>2. IInv /\ SavedAlways /\ [WebNext]_vars => SavedAlways'
  BY SavedStep, WebSavedStep DEF WebNext
<1>3. SavedAlways => SavedAtPrompt
  BY DEF SavedAlways, SavedAtPrompt, SameLine
<1> QED BY <1>1, <1>2, <1>3, WebInvariance, PTL DEF WebSpec
=============================================================================
