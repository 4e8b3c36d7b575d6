---------------------------- MODULE Start_proofs ----------------------------
(***************************************************************************)
(* Proofs about the two layers below start_container_by_id.  Of Launcher,  *)
(* for any number of launches: what a launch returns is true, and its      *)
(* descriptors are closed.  Of Network, for any number of containers,      *)
(* addresses, ports and processes: addresses are unique, rules and records *)
(* agree, and links have owners.                                           *)
(***************************************************************************)
EXTENDS Launcher, Network, SeqFilter_proofs, FiniteSetTheorems, TLAPS

-----------------------------------------------------------------------------
(* LAUNCHER *)

(* The points of a launch before the child is let go, and before the        *)
(* trigger is written.                                                      *)
Opening   == {"idle", "pipe1", "pipe2", "pipe3", "pipe4", "opened"}
Early     == Opening \cup {"cloned", "closed", "continue", "kill"}
Untouched == Early \cup {"status", "ready"}

(* Where the child can be while the thread is at a point.                   *)
ChildAt(p) ==
    CASE p \in Opening                                  -> {"none"}
      [] p \in {"cloned", "closed", "continue", "kill"} -> {"continue", "killed", "dead"}
      [] p = "status"              -> {"continue", "setup", "trigger", "killed", "dead"}
      [] p = "ready"               -> {"trigger", "killed", "dead"}
      [] p = "exec"                -> {"trigger", "exec", "runs", "exited", "killed", "dead"}
      [] p = "ok"                  -> {"runs", "exited", "killed"}
      [] p = "failed"              -> Gone \cup {"none"}
      [] OTHER                     -> Gone

(* The ends of its own pipes that the simulator has open at a point. *)
OpenAt(l, p) ==
    CASE p = "pipe1" -> Both(l, "status")
      [] p = "pipe2" -> Both(l, "status") \cup Both(l, "exec")
      [] p = "pipe3" -> Both(l, "status") \cup Both(l, "exec") \cup Both(l, "continue")
      [] p \in {"pipe4", "opened", "cloned"} -> Of(l, Ends)
      [] p \in {"closed", "continue", "kill"} ->
            {<<l, "exec", "r">>, <<l, "status", "r">>, <<l, "continue", "w">>, <<l, "trigger", "w">>}
      [] p = "status" -> {<<l, "exec", "r">>, <<l, "status", "r">>, <<l, "trigger", "w">>}
      [] p \in {"ready", "givenup"} -> {<<l, "exec", "r">>, <<l, "trigger", "w">>}
      [] p = "exec"   -> {<<l, "exec", "r">>}
      [] OTHER        -> {}

(* A token is in its pipe only when the thread has written it. *)
TokensSent(l) ==
    /\ pc[l] \in Early => msg[<<l, "continue">>] # "1"
    /\ pc[l] \in Untouched => msg[<<l, "trigger">>] = ""

(* Thread and child are never further apart than the protocol allows. *)
InStep(l) == child[l] \in ChildAt(pc[l])

(* A child before its exec holds the write end of exec_pipe, one before its *)
(* report that of status_pipe: their end of file tells of an exec or of the *)
(* child's death.                                                           *)
WritersHeld(l) ==
    /\ child[l] \in {"continue", "setup", "trigger", "exec"} => <<l, "exec", "w">> \in fds[l]
    /\ child[l] \in {"continue", "setup"} => <<l, "status", "w">> \in fds[l]

(* The report in status_pipe is the child's last word. *)
ReportTrue(l) ==
    /\ msg[<<l, "status">>] = "ready" => pc[l] = "status" /\ child[l] \in {"trigger", "killed", "dead"}
    /\ msg[<<l, "status">>] \in {"1", "error"} => child[l] = "dead"
    /\ pc[l] = "status" /\ child[l] = "trigger" => msg[<<l, "status">>] = "ready"

(* While the simulator is up no child gives up between its report and its   *)
(* exec: the trigger pipe does not end, and a failed exec is reported.      *)
NoneGivesUp(l) ==
    /\ up /\ msg[<<l, "status">>] = "ready" => child[l] # "dead"
    /\ up /\ pc[l] = "ready" => child[l] # "dead"
    /\ up /\ pc[l] = "exec" /\ child[l] = "trigger" => msg[<<l, "trigger">>] = "1"
    /\ up /\ pc[l] = "exec" /\ child[l] = "dead" => msg[<<l, "exec">>] # ""

(* What is known of a launch. *)
Known(l) == TokensSent(l) /\ InStep(l) /\ WritersHeld(l) /\ ReportTrue(l) /\ NoneGivesUp(l)

(* The simulator's table of descriptors. *)
TableKnown == up => \A l \in Launches : Of(l, sim) = OpenAt(l, pc[l])

(* The inductive invariant. *)
IInv == TypeOK /\ (\A l \in Launches : Known(l)) /\ TableKnown

-----------------------------------------------------------------------------
(* A step of a child that moves on: it writes to a pipe or empties one, and *)
(* closes an end.                                                           *)
LEMMA ChildMoves ==
    ASSUME TypeOK, NEW l \in Launches, NEW S, NEW p \in Pipes,
           NEW c \in {"setup", "trigger", "exec"}, NEW m \in {"", "ready"},
           child' = [child EXCEPT ![l] = c],
           fds' = [fds EXCEPT ![l] = fds[l] \ S],
           msg' = [msg EXCEPT ![<<l, p>>] = m],
           UNCHANGED <<up, pc, sim, marks>>
    PROVE  TypeOK'
<1>1. fds' \in [Launches -> SUBSET Ends]
  BY DEF TypeOK
<1>2. msg' \in [Launches \X Pipes -> {"", "1", "ready", "error"}]
  BY DEF TypeOK
<1> QED BY <1>1, <1>2 DEF TypeOK, marks

(* The points and the pipe of a call of pipe(2). *)
LEMMA CallIs ==
    ASSUME NEW call \in PipeCalls
    PROVE  /\ call[1] \in Opening /\ call[2] \in {"pipe1", "pipe2", "pipe3", "pipe4"}
           /\ call[3] \in Pipes
<1>1. CASE call = <<"idle", "pipe1", "status">>
  BY <1>1 DEF Opening, Pipes
<1>2. CASE call = <<"pipe1", "pipe2", "exec">>
  BY <1>2 DEF Opening, Pipes
<1>3. CASE call = <<"pipe2", "pipe3", "continue">>
  BY <1>3 DEF Opening, Pipes
<1>4. CASE call = <<"pipe3", "pipe4", "trigger">>
  BY <1>4 DEF Opening, Pipes
<1> QED BY <1>1, <1>2, <1>3, <1>4 DEF PipeCalls

(* A child that ends keeps child and fds in their types. *)
LEMMA EndTyped ==
    ASSUME TypeOK, NEW l \in Launches, NEW how \in Gone,
           child' = [child EXCEPT ![l] = how], fds' = [fds EXCEPT ![l] = {}]
    PROVE  /\ child' \in [Launches -> {"none", "continue", "setup", "trigger", "exec", "runs"} \cup Gone]
           /\ fds' \in [Launches -> SUBSET Ends]
BY DEF TypeOK

(* A thread that moves on keeps pc in its type. *)
LEMMA PointTyped ==
    ASSUME TypeOK, NEW l \in Launches, pc' = pc \/ \E from :
           \E to \in {"idle", "pipe1", "pipe2", "pipe3", "pipe4", "opened", "cloned", "closed",
                     "continue", "status", "ready", "exec", "kill", "reap"} \cup Returned :
               Go(l, from, to)
    PROVE  pc' \in [Launches -> {"idle", "pipe1", "pipe2", "pipe3", "pipe4", "opened", "cloned",
                                 "closed", "continue", "status", "ready", "exec", "kill", "reap"}
                                \cup Returned]
BY DEF TypeOK, Go

(* Every step keeps every variable in its type. *)
LEMMA TypeStep == TypeOK /\ [Next]_vars => TypeOK'
<1> SUFFICES ASSUME TypeOK, [Next]_vars PROVE TypeOK'
  OBVIOUS
<1> USE DEF TypeOK, Go, Put, Take, Of, Ends, Pipes, Returned, Gone, marks
<1>1. ASSUME NEW l \in Launches, OpenPipe(l) \/ MarkExec(l) \/ OpenFails(l) \/ Clone(l) \/ CloseEnds(l)
      PROVE  TypeOK'
  <2>1. CASE OpenPipe(l)
    <3>1. PICK call \in PipeCalls : Go(l, call[1], call[2]) /\ sim' = sim \cup Both(l, call[3])
      BY <2>1 DEF OpenPipe
    <3>2. call[2] \in {"pipe1", "pipe2", "pipe3", "pipe4"} /\ call[3] \in Pipes
      BY CallIs
    <3>3. Both(l, call[3]) \subseteq Ends
      <4> DEFINE q == call[3]
      <4>1. \A x \in Both(l, q) : x = <<l, q, "r">> \/ x = <<l, q, "w">>
        BY DEF Both
      <4>2. q \in Pipes
        BY <3>2
      <4> HIDE DEF q
      <4>3. <<l, q, "r">> \in Ends /\ <<l, q, "w">> \in Ends
        BY <4>2
      <4> QED BY <4>1, <4>3 DEF q
    <3> HIDE DEF Ends
    <3> QED BY <3>3, <2>1, <3>1, <3>2 DEF OpenPipe
  <2>2. CASE MarkExec(l)
    BY <2>2 DEF MarkExec
  <2>3. CASE OpenFails(l) \/ CloseEnds(l)
    BY <2>3 DEF OpenFails, CloseEnds
  <2>4. CASE Clone(l)
    BY <2>4 DEF Clone
  <2> QED BY <1>1, <2>1, <2>2, <2>3, <2>4
<1>2. ASSUME NEW l \in Launches, Configure(l) \/ SendContinue(l) \/ Reap(l) PROVE TypeOK'
  BY <1>2 DEF Configure, SendContinue, Reap
<1>3. ASSUME NEW l \in Launches, ReadStatus(l) PROVE TypeOK'
  BY <1>3 DEF ReadStatus
<1>4. ASSUME NEW l \in Launches, FailKill(l) \/ GiveUp(l) PROVE TypeOK'
  <2>1. /\ child' = [child EXCEPT ![l] = "dead"] /\ fds' = [fds EXCEPT ![l] = {}]
        /\ \E from : \E to \in {"reap", "givenup"} : Go(l, from, to)
        /\ UNCHANGED <<up, msg, marks>> /\ sim' \subseteq sim
    BY <1>4 DEF FailKill, GiveUp
  <2> HIDE DEF Go, Ends, Of, Put, Take
  <2> QED BY <2>1, EndTyped, PointTyped
<1>5. ASSUME NEW l \in Launches, SendTrigger(l) PROVE TypeOK'
  BY <1>5 DEF SendTrigger
<1>6. ASSUME NEW l \in Launches, ReadExec(l) PROVE TypeOK'
  <2>1. /\ \/ UNCHANGED <<child, fds>>
           \/ child' = [child EXCEPT ![l] = "dead"] /\ fds' = [fds EXCEPT ![l] = {}]
        /\ \E from : \E to \in {"ok", "failed"} : Go(l, from, to)
        /\ UNCHANGED <<up, marks>> /\ sim' \subseteq sim
        /\ msg' = [msg EXCEPT ![<<l, "exec">>] = ""]
    BY <1>6 DEF ReadExec
  <2> HIDE DEF Go, Ends, Of, Put, Take
  <2> QED BY <2>1, EndTyped, PointTyped
<1>7. ASSUME NEW l \in Launches, BrokenPipe(l) \/ Crash PROVE TypeOK'
  BY <1>7 DEF BrokenPipe, Crash, SimulatorEnds
<1>8. ASSUME NEW l \in Launches, ReadContinue(l) PROVE TypeOK'
  <2>1. CASE msg[<<l, "continue">>] = "1"
    <3> HIDE DEF TypeOK, Ends
    <3>1. fds' = [fds EXCEPT ![l] = fds[l] \ {<<l, "continue", "r">>}]
      BY <1>8, <2>1 DEF ReadContinue
    <3>2. msg' = [msg EXCEPT ![<<l, "continue">>] = ""]
      BY <1>8, <2>1 DEF ReadContinue
    <3> QED BY <1>8, <2>1, <3>1, <3>2, ChildMoves DEF ReadContinue
  <2>2. CASE msg[<<l, "continue">>] # "1"
    BY <1>8, <2>2 DEF ReadContinue, ChildDies, ChildEnds
  <2> QED BY <2>1, <2>2
<1>9. ASSUME NEW l \in Launches, Setup(l) PROVE TypeOK'
  <2>1. CASE Put(l, "status", "error") /\ ChildDies(l)
    BY <1>9, <2>1 DEF Setup, ChildDies, ChildEnds
  <2>2. CASE ~(Put(l, "status", "error") /\ ChildDies(l))
    <3> HIDE DEF TypeOK, Ends
    <3>1. fds' = [fds EXCEPT ![l] = fds[l] \ {<<l, "status", "w">>}]
      BY <1>9, <2>2 DEF Setup
    <3>2. msg' = [msg EXCEPT ![<<l, "status">>] = "ready"]
      BY <1>9, <2>2 DEF Setup
    <3> QED BY <1>9, <2>2, <3>1, <3>2, ChildMoves DEF Setup
  <2> QED BY <2>1, <2>2
<1>10. ASSUME NEW l \in Launches, ReadTrigger(l) PROVE TypeOK'
  <2>1. CASE msg[<<l, "trigger">>] = "1"
    <3> HIDE DEF TypeOK, Ends
    <3>1. fds' = [fds EXCEPT ![l] = fds[l] \ {<<l, "trigger", "r">>}]
      BY <1>10, <2>1 DEF ReadTrigger
    <3>2. msg' = [msg EXCEPT ![<<l, "trigger">>] = ""]
      BY <1>10, <2>1 DEF ReadTrigger
    <3> QED BY <1>10, <2>1, <3>1, <3>2, ChildMoves DEF ReadTrigger
  <2>2. CASE msg[<<l, "trigger">>] # "1"
    BY <1>10, <2>2 DEF ReadTrigger, ChildDies, ChildEnds
  <2> QED BY <2>1, <2>2
<1>11. ASSUME NEW l \in Launches, Exec(l) \/ Killed(l) PROVE TypeOK'
  <2>1. CASE Killed(l)
    <3>1. \E how \in Gone : child' = [child EXCEPT ![l] = how]
      BY <2>1 DEF Killed, ChildEnds
    <3>2. fds' = [fds EXCEPT ![l] = {}] /\ UNCHANGED <<up, pc, msg, sim, marks>>
      BY <2>1 DEF Killed, ChildEnds
    <3> HIDE DEF Ends, Gone
    <3> QED BY <3>1, <3>2, EndTyped
  <2>2. CASE Put(l, "exec", "error") /\ ChildDies(l) /\ Exec(l)
    BY <2>2 DEF Exec, ChildDies, ChildEnds
  <2>3. CASE Exec(l) /\ ~(Put(l, "exec", "error") /\ ChildDies(l))
    <3>1. /\ child' = [child EXCEPT ![l] = "runs"] /\ UNCHANGED <<up, pc, msg, sim, marks>>
          /\ fds' = [fds EXCEPT ![l] = fds[l] \ {<<k, "exec", "w">> : k \in marked[l]}]
      BY <2>3 DEF Exec
    <3> HIDE DEF Ends
    <3> QED BY <3>1
  <2> QED BY <1>11, <2>1, <2>2, <2>3
<1>12. CASE Crash
  BY <1>12 DEF Crash, SimulatorEnds
<1>13. CASE UNCHANGED vars
  BY <1>13 DEF vars
<1> QED BY <1>1, <1>2, <1>3, <1>4, <1>5, <1>6, <1>7, <1>8, <1>9, <1>10, <1>11, <1>12, <1>13
        DEF Next, Thread, Child

-----------------------------------------------------------------------------
(* The thread moves on and closes ends of its own pipes: the table is the   *)
(* one of the new point if those are the ends that make the difference.     *)
LEMMA TableStep ==
    ASSUME TypeOK, TableKnown, NEW l \in Launches, NEW T, NEW to,
           \A e \in T : e[1] = l,
           up' = up, sim' = sim \ T, pc' = [pc EXCEPT ![l] = to],
           OpenAt(l, to) = OpenAt(l, pc[l]) \ T
    PROVE  TableKnown'
<1> SUFFICES ASSUME up, NEW k \in Launches PROVE Of(k, sim') = OpenAt(k, pc'[k])
  BY DEF TableKnown
<1>1. CASE k = l
  <2>1. Of(l, sim \ T) = Of(l, sim) \ T
    BY DEF Of
  <2> QED BY <1>1, <2>1 DEF TableKnown, TypeOK
<1>2. CASE k # l
  <2>1. Of(k, sim \ T) = Of(k, sim)
    BY <1>2 DEF Of
  <2> QED BY <1>2, <2>1 DEF TableKnown, TypeOK
<1> QED BY <1>1, <1>2

(* What is known of a launch is kept by a step that leaves it alone. *)
Alone(l) ==
    /\ pc'[l] = pc[l] /\ child'[l] = child[l] /\ fds'[l] = fds[l]
    /\ \A p \in Pipes : msg'[<<l, p>>] = msg[<<l, p>>]
    /\ up' => up

(* What is known of a launch stays true when a step leaves it alone. *)
LEMMA KnownAlone == ASSUME NEW l, Known(l), Alone(l) PROVE Known(l)'
BY DEF Known, Alone, TokensSent, InStep, WritersHeld, ReportTrue, NoneGivesUp, Pipes

(* A step of one launch leaves the others alone. *)
LEMMA OthersAlone ==
    ASSUME TypeOK, NEW l \in Launches, NEW k \in Launches, k # l,
           Thread(l) \/ Child(l) \/ Killed(l)
    PROVE  Alone(k)
<1> USE DEF TypeOK, Alone, Go, Put, Take, Pipes
<1>1. CASE OpenPipe(l) \/ MarkExec(l) \/ OpenFails(l) \/ Clone(l) \/ CloseEnds(l) \/ Configure(l)
  BY <1>1 DEF OpenPipe, MarkExec, OpenFails, Clone, CloseEnds, Configure
<1>2. CASE SendContinue(l) \/ ReadStatus(l) \/ FailKill(l) \/ Reap(l)
  BY <1>2 DEF SendContinue, ReadStatus, FailKill, Reap
<1>3. CASE GiveUp(l) \/ SendTrigger(l) \/ ReadExec(l)
  BY <1>3 DEF GiveUp, SendTrigger, ReadExec
<1>4. CASE BrokenPipe(l)
  BY <1>4 DEF BrokenPipe, SimulatorEnds
<1>5. CASE ReadContinue(l)
  <2>1. CASE msg[<<l, "continue">>] = "1"
    BY <1>5, <2>1 DEF ReadContinue
  <2>2. CASE msg[<<l, "continue">>] # "1"
    <3>1. /\ msg' = [msg EXCEPT ![<<l, "status">>] = "error"]
          /\ child' = [child EXCEPT ![l] = "dead"] /\ fds' = [fds EXCEPT ![l] = {}]
          /\ UNCHANGED <<up, pc>>
      BY <1>5, <2>2 DEF ReadContinue, ChildDies, ChildEnds
    <3> QED BY <3>1
  <2> QED BY <2>1, <2>2
<1>6. CASE Setup(l)
  BY <1>6 DEF Setup, ChildDies, ChildEnds
<1>7. CASE ReadTrigger(l)
  BY <1>7 DEF ReadTrigger, ChildDies, ChildEnds
<1>8. CASE Exec(l)
  BY <1>8 DEF Exec, ChildDies, ChildEnds
<1>9. CASE Killed(l)
  BY <1>9 DEF Killed, ChildEnds
<1> QED BY <1>1, <1>2, <1>3, <1>4, <1>5, <1>6, <1>7, <1>8, <1>9 DEF Thread, Child

(* The step of a thread or of its child keeps what is known of the launch.  *)
LEMMA KnownStep ==
    ASSUME IInv, NEW l \in Launches, Thread(l) \/ Child(l) \/ Killed(l)
    PROVE  Known(l)'
<1> USE DEF IInv, TypeOK, Known, TokensSent, InStep, WritersHeld, ReportTrue, NoneGivesUp,
            ChildAt, Opening, Early, Gone, Untouched, Returned, Pipes, Go, Put, Take
<1>a. Known(l)
  OBVIOUS
<1>b. /\ pc[l] \in Untouched \cup Returned \cup {"exec", "reap"}
      /\ \A p \in Pipes : msg[<<l, p>>] \in {"", "1", "ready", "error"}
  OBVIOUS
<1>1. CASE OpenPipe(l) \/ MarkExec(l)
  <2>1. /\ pc[l] \in Opening /\ pc'[l] \in Opening /\ child' = child /\ msg' = msg /\ fds' = fds
        /\ up' = up
    <3>1. CASE MarkExec(l)
      BY <3>1 DEF MarkExec
    <3>2. CASE OpenPipe(l)
      <4>1. PICK call \in PipeCalls : Go(l, call[1], call[2])
        BY <3>2 DEF OpenPipe
      <4>2. call[1] \in Opening /\ call[2] \in Opening
        BY CallIs
      <4> QED BY ZenonT(40), <3>2, <4>1, <4>2 DEF OpenPipe
    <3> QED BY <1>1, <3>1, <3>2
  <2> HIDE DEF IInv, TypeOK
  <2> QED BY <1>a, <2>1
<1>2. CASE OpenFails(l)
  <2>1. /\ pc[l] \in Opening /\ pc'[l] = "failed" /\ child' = child /\ msg' = msg /\ fds' = fds
    BY <1>2 DEF OpenFails
  <2> HIDE DEF IInv, TypeOK
  <2> QED BY <1>a, <1>b, <2>1
<1>3. CASE Clone(l)
  BY <1>3 DEF Clone, TableKnown, OpenAt, Of, Ends
<1>4. CASE CloseEnds(l)
  <2>1. pc[l] = "cloned" /\ pc'[l] = "closed" /\ UNCHANGED <<up, child, msg, fds>>
    BY <1>4 DEF CloseEnds
  <2> HIDE DEF IInv, TypeOK
  <2> QED BY <1>a, <1>b, <2>1
<1>5. CASE Configure(l)
  <2>1. pc[l] = "closed" /\ pc'[l] \in {"continue", "kill"} /\ UNCHANGED <<up, child, msg, fds>>
    BY <1>5 DEF Configure
  <2> HIDE DEF IInv, TypeOK
  <2> QED BY <1>a, <1>b, <2>1
<1>6. CASE SendContinue(l)
  <2>1. /\ pc[l] = "continue" /\ pc'[l] = "status" /\ UNCHANGED <<up, child, fds>>
        /\ msg'[<<l, "continue">>] = "1"
        /\ \A p \in Pipes \ {"continue"} : msg'[<<l, p>>] = msg[<<l, p>>]
    BY <1>6 DEF SendContinue
  <2> HIDE DEF IInv, TypeOK
  <2> QED BY <1>a, <1>b, <2>1
<1>7. CASE ReadStatus(l)
  <2>1. /\ pc[l] = "status" /\ UNCHANGED <<up, child, fds>>
        /\ \/ msg[<<l, "status">>] = "ready" /\ pc'[l] = "ready"
           \/ msg[<<l, "status">>] # "ready" /\ pc'[l] = "reap"
        /\ msg'[<<l, "status">>] = ""
        /\ \A p \in Pipes \ {"status"} : msg'[<<l, p>>] = msg[<<l, p>>]
    BY <1>7 DEF ReadStatus
  <2>2. msg[<<l, "status">>] = "" => <<l, "status", "w">> \notin fds[l]
    BY <1>7 DEF ReadStatus, CanRead, Open
  <2>3. up
    BY <1>7 DEF ReadStatus
  <2> HIDE DEF IInv, TypeOK
  <2> QED BY <1>a, <1>b, <2>1, <2>2, <2>3
<1>8. CASE FailKill(l)
  <2>1. /\ pc[l] = "kill" /\ pc'[l] = "reap" /\ UNCHANGED <<up, msg>>
        /\ child'[l] = "dead" /\ fds'[l] = {}
    BY <1>8 DEF FailKill
  <2> HIDE DEF IInv, TypeOK
  <2> QED BY <1>a, <1>b, <2>1
<1>9. CASE Reap(l)
  <2>1. /\ pc[l] = "reap" /\ pc'[l] = "failed" /\ child[l] \in Gone
        /\ UNCHANGED <<up, child, msg, fds>>
    BY <1>9 DEF Reap
  <2> HIDE DEF IInv, TypeOK
  <2> QED BY <1>a, <1>b, <2>1
<1>10. CASE GiveUp(l)
  <2>1. /\ pc[l] = "ready" /\ pc'[l] = "givenup" /\ UNCHANGED <<up, msg>>
        /\ child'[l] = "dead" /\ fds'[l] = {}
    BY <1>10 DEF GiveUp
  <2> HIDE DEF IInv, TypeOK
  <2> QED BY <1>a, <1>b, <2>1
<1>11. CASE SendTrigger(l)
  <2>1. /\ pc[l] = "ready" /\ pc'[l] = "exec" /\ UNCHANGED <<up, child, fds>>
        /\ msg'[<<l, "trigger">>] = "1"
        /\ \A p \in Pipes \ {"trigger"} : msg'[<<l, p>>] = msg[<<l, p>>]
    BY <1>11 DEF SendTrigger
  <2> HIDE DEF IInv, TypeOK
  <2> QED BY <1>a, <1>b, <2>1
<1>12. CASE ReadExec(l)
  <2>1. CASE msg[<<l, "exec">>] = ""
    <3>1. <<l, "exec", "w">> \notin fds[l]
      BY <1>12, <2>1 DEF ReadExec, CanRead, Open
    <3>2. child[l] \in {"runs", "exited", "killed"}
      <4>1. up /\ pc[l] = "exec"
        BY <1>12 DEF ReadExec
      <4> HIDE DEF IInv, TypeOK
      <4> QED BY <1>a, <2>1, <3>1, <4>1
    <3>3. /\ pc[l] = "exec" /\ pc'[l] = "ok" /\ UNCHANGED <<up, child, fds>>
          /\ \A p \in Pipes \ {"exec"} : msg'[<<l, p>>] = msg[<<l, p>>]
      BY <1>12, <2>1 DEF ReadExec
    <3> HIDE DEF IInv, TypeOK
    <3> QED BY <1>a, <1>b, <3>2, <3>3
  <2>2. CASE msg[<<l, "exec">>] # ""
    <3>1. /\ pc'[l] = "failed" /\ child'[l] = "dead" /\ fds'[l] = {}
          /\ \A p \in Pipes \ {"exec"} : msg'[<<l, p>>] = msg[<<l, p>>]
          /\ pc[l] = "exec"
      BY ZenonT(40), <1>12, <2>2 DEF ReadExec
    <3> HIDE DEF IInv, TypeOK
    <3> QED BY <1>a, <1>b, <3>1
  <2> QED BY <2>1, <2>2
<1>13. CASE BrokenPipe(l)
  <2>1. ~up' /\ UNCHANGED <<pc, child, msg, fds>>
    BY <1>13 DEF BrokenPipe, SimulatorEnds
  <2> HIDE DEF IInv, TypeOK
  <2> QED BY <1>a, <1>b, <2>1
<1>14. CASE ReadContinue(l)
  <2>1. CASE msg[<<l, "continue">>] = "1"
    <3>1. /\ child'[l] = "setup" /\ pc'[l] = pc[l]
          /\ fds'[l] = fds[l] \ {<<l, "continue", "r">>}
          /\ msg' = [msg EXCEPT ![<<l, "continue">>] = ""]
      BY <1>14, <2>1 DEF ReadContinue
    <3>2. msg'[<<l, "continue">>] = "" /\ \A p \in Pipes \ {"continue"} : msg'[<<l, p>>] = msg[<<l, p>>]
      BY <3>1
    <3> HIDE DEF IInv, TypeOK
    <3>3. pc[l] = "status" /\ msg[<<l, "status">>] = ""
      BY <1>14, <1>a, <1>b, <2>1 DEF ReadContinue
    <3> QED BY <1>14, <1>a, <3>1, <3>2, <3>3 DEF ReadContinue
  <2>2. CASE ~(msg[<<l, "continue">>] = "1")
    <3>0. /\ child[l] = "continue" /\ child' = [child EXCEPT ![l] = "dead"]
          /\ fds' = [fds EXCEPT ![l] = {}] /\ UNCHANGED <<up, pc>>
          /\ msg' = [msg EXCEPT ![<<l, "status">>] = "error"]
      BY <1>14, <2>2 DEF ReadContinue, ChildDies, ChildEnds
    <3>1. child'[l] = "dead" /\ fds'[l] = {}
      BY <3>0
    <3>2. msg \in [Launches \X Pipes -> {"", "1", "ready", "error"}]
      OBVIOUS
    <3> HIDE DEF IInv, TypeOK, Known
    <3>3. /\ msg'[<<l, "status">>] = "error"
          /\ \A p \in Pipes \ {"status"} : msg'[<<l, p>>] = msg[<<l, p>>]
      BY <3>0, <3>2
    <3>4. msg'[<<l, "continue">>] = msg[<<l, "continue">>] /\ msg'[<<l, "trigger">>] = msg[<<l, "trigger">>]
      BY <3>3
    <3>5. pc[l] \in {"cloned", "closed", "continue", "kill", "status"}
      BY <1>a, <1>b, <3>0 DEF Known
    <3>6. TokensSent(l)'
      BY <1>a, <3>0, <3>4, <3>5 DEF Known
    <3>7. InStep(l)' /\ WritersHeld(l)'
      BY <3>0, <3>1, <3>5
    <3>8. ReportTrue(l)'
      BY <3>1, <3>3
    <3>9. NoneGivesUp(l)'
      BY <3>0, <3>1, <3>3, <3>5
    <3> QED BY <3>6, <3>7, <3>8, <3>9 DEF Known
  <2> QED BY <2>1, <2>2
<1>15. CASE Setup(l)
  <2>1. CASE ~(Put(l, "status", "error") /\ ChildDies(l))
    <3>1. /\ child'[l] = "trigger" /\ pc'[l] = pc[l]
          /\ fds'[l] = fds[l] \ {<<l, "status", "w">>}
          /\ msg' = [msg EXCEPT ![<<l, "status">>] = "ready"]
      BY <1>15, <2>1 DEF Setup
    <3>2. msg'[<<l, "status">>] = "ready" /\ \A p \in Pipes \ {"status"} : msg'[<<l, p>>] = msg[<<l, p>>]
      BY <3>1
    <3> HIDE DEF IInv, TypeOK
    <3>3. pc[l] = "status"
      BY <1>15, <1>a, <1>b DEF Setup
    <3> QED BY <1>15, <1>a, <3>1, <3>2, <3>3 DEF Setup
  <2>2. CASE Put(l, "status", "error") /\ ChildDies(l)
    BY <1>15, <2>2 DEF Setup, ChildDies, ChildEnds
  <2> QED BY <2>1, <2>2
<1>16. CASE ReadTrigger(l)
  <2>1. CASE msg[<<l, "trigger">>] = "1"
    <3>1. /\ child'[l] = "exec" /\ pc'[l] = pc[l]
          /\ fds'[l] = fds[l] \ {<<l, "trigger", "r">>}
          /\ msg' = [msg EXCEPT ![<<l, "trigger">>] = ""]
      BY <1>16, <2>1 DEF ReadTrigger
    <3>2. msg'[<<l, "trigger">>] = "" /\ \A p \in Pipes \ {"trigger"} : msg'[<<l, p>>] = msg[<<l, p>>]
      BY <3>1
    <3> HIDE DEF IInv, TypeOK
    <3>3. pc[l] = "exec"
      BY <1>16, <1>a, <1>b, <2>1 DEF ReadTrigger
    <3> QED BY <1>16, <1>a, <1>b, <3>1, <3>2, <3>3 DEF ReadTrigger
  <2>2. CASE ~(msg[<<l, "trigger">>] = "1")
    <3>1. /\ child[l] = "trigger" /\ child'[l] = "dead" /\ pc'[l] = pc[l] /\ msg' = msg
          /\ fds'[l] = {} /\ up' = up
          /\ ~Open(l, "trigger", "w") \/ msg[<<l, "trigger">>] # ""
      BY <1>16, <2>2 DEF ReadTrigger, ChildDies, ChildEnds, CanRead
    <3>2. pc[l] \in {"status", "ready", "exec"}
      BY <3>1
    <3>3. up => pc[l] = "exec"
      <4> SUFFICES ASSUME up, pc[l] \in {"status", "ready"} PROVE FALSE
        BY <3>2
      <4>1. <<l, "trigger", "w">> \in Of(l, sim)
        BY DEF TableKnown, OpenAt
      <4> QED BY <3>1, <4>1, <2>2 DEF Of, Open
    <3> HIDE DEF IInv, TypeOK
    <3> QED BY <1>a, <1>b, <2>2, <3>1, <3>2, <3>3
  <2> QED BY <2>1, <2>2
<1>17. CASE Exec(l)
  <2>1. pc[l] \in {"exec"} /\ child[l] = "exec" /\ pc'[l] = pc[l] /\ up' = up
    BY <1>17 DEF Exec
  <2>2. CASE Put(l, "exec", "error") /\ ChildDies(l)
    <3>1. /\ child'[l] = "dead" /\ fds'[l] = {} /\ msg'[<<l, "exec">>] = "error"
          /\ \A p \in Pipes \ {"exec"} : msg'[<<l, p>>] = msg[<<l, p>>]
      BY <2>2 DEF ChildDies, ChildEnds
    <3> HIDE DEF IInv, TypeOK
    <3> QED BY <1>a, <1>b, <2>1, <3>1
  <2>3. CASE ~(Put(l, "exec", "error") /\ ChildDies(l))
    <3>1. child'[l] = "runs" /\ msg' = msg
      BY <1>17, <2>3 DEF Exec
    <3> HIDE DEF IInv, TypeOK
    <3> QED BY <1>a, <1>b, <2>1, <3>1
  <2> QED BY <2>2, <2>3
<1>18. CASE Killed(l)
  BY <1>18 DEF Killed, ChildDies, ChildEnds, Gone
<1> QED BY <1>1, <1>2, <1>3, <1>4, <1>5, <1>6, <1>7, <1>8, <1>9, <1>10, <1>11, <1>12, <1>13,
           <1>14, <1>15, <1>16, <1>17, <1>18 DEF Thread, Child

(* Every step keeps the table of descriptors known. *)
LEMMA TableKept == IInv /\ [Next]_vars => TableKnown'
<1> SUFFICES ASSUME IInv, [Next]_vars PROVE TableKnown'
  OBVIOUS
<1> USE DEF IInv
<1>1. ASSUME up' = FALSE PROVE TableKnown'
  BY <1>1 DEF TableKnown
<1>2. ASSUME UNCHANGED <<up, pc, sim>> PROVE TableKnown'
  BY <1>2 DEF TableKnown
<1>3. ASSUME NEW l \in Launches, OpenPipe(l) PROVE TableKnown'
  <2> SUFFICES ASSUME up, NEW k \in Launches PROVE Of(k, sim') = OpenAt(k, pc'[k])
    BY <1>3 DEF TableKnown, OpenPipe
  <2>1. PICK call \in PipeCalls : Go(l, call[1], call[2]) /\ sim' = sim \cup Both(l, call[3])
    BY <1>3 DEF OpenPipe
  <2>2. CASE k = l
    <3>1. Of(l, sim \cup Both(l, call[3])) = OpenAt(l, call[1]) \cup Both(l, call[3])
      BY <2>1 DEF TableKnown, Go, Of, Both
    <3>2. OpenAt(l, call[1]) \cup Both(l, call[3]) = OpenAt(l, call[2])
      BY DEF PipeCalls, OpenAt, Both, Of, Ends, Pipes
    <3> QED BY <2>1, <2>2, <3>1, <3>2 DEF Go, TypeOK
  <2>3. CASE k # l
    <3>1. Of(k, sim \cup Both(l, call[3])) = Of(k, sim)
      BY <2>3 DEF Of, Both
    <3> QED BY <2>1, <2>3, <3>1 DEF Go, TableKnown, TypeOK
  <2> QED BY <2>2, <2>3
<1>4. ASSUME NEW l \in Launches, NEW to, UNCHANGED up, pc' = [pc EXCEPT ![l] = to],
             sim' = sim \ Of(l, Ends), OpenAt(l, to) = {}
      PROVE  TableKnown'
  <2>1. OpenAt(l, pc[l]) \ Of(l, Ends) = {}
    BY DEF OpenAt, Of, Ends, Pipes, Both
  <2>2. \A e \in Of(l, Ends) : e[1] = l
    BY DEF Of
  <2> QED BY <1>4, <2>1, <2>2, TableStep
<1>5. ASSUME NEW l \in Launches, OpenFails(l) \/ FailKill(l) PROVE TableKnown'
  BY <1>4, <1>5 DEF OpenFails, FailKill, Go, OpenAt
<1>6. ASSUME NEW l \in Launches, MarkExec(l) \/ Clone(l) \/ Configure(l) \/ Reap(l) \/ GiveUp(l)
      PROVE  TableKnown'
  <2> DEFINE T == {}
  <2>1. PICK to : pc' = [pc EXCEPT ![l] = to] /\ OpenAt(l, to) = OpenAt(l, pc[l])
    BY <1>6 DEF MarkExec, Clone, Configure, Reap, GiveUp, Go, OpenAt
  <2>2. up' = up /\ sim' = sim \ T
    BY <1>6 DEF MarkExec, Clone, Configure, Reap, GiveUp, Go
  <2>3. OpenAt(l, to) = OpenAt(l, pc[l]) \ T
    BY <2>1
  <2>4. \A e \in T : e[1] = l
    OBVIOUS
  <2> HIDE DEF T
  <2> QED BY <2>1, <2>2, <2>3, <2>4, TableStep
<1>7. ASSUME NEW l \in Launches, CloseEnds(l) PROVE TableKnown'
  <2> DEFINE T == {<<l, "exec", "w">>, <<l, "status", "w">>,
                   <<l, "continue", "r">>, <<l, "trigger", "r">>}
  <2>1. OpenAt(l, "closed") = OpenAt(l, "cloned") \ T
    BY DEF OpenAt, Of, Ends, Pipes
  <2>2. \A e \in T : e[1] = l
    OBVIOUS
  <2>3. up' = up /\ sim' = sim \ T /\ pc[l] = "cloned" /\ pc' = [pc EXCEPT ![l] = "closed"]
    BY <1>7 DEF CloseEnds, Go
  <2> HIDE DEF T
  <2> QED BY <2>1, <2>2, <2>3, TableStep
<1>8. ASSUME NEW l \in Launches, SendContinue(l) PROVE TableKnown'
  <2> DEFINE T == {<<l, "continue", "w">>}
  <2>1. OpenAt(l, "status") = OpenAt(l, "continue") \ T
    BY DEF OpenAt
  <2>2. \A e \in T : e[1] = l
    OBVIOUS
  <2>3. up' = up /\ sim' = sim \ T /\ pc[l] = "continue" /\ pc' = [pc EXCEPT ![l] = "status"]
    BY <1>8 DEF SendContinue, Go
  <2> HIDE DEF T
  <2> QED BY <2>1, <2>2, <2>3, TableStep
<1>9. ASSUME NEW l \in Launches, ReadStatus(l) PROVE TableKnown'
  <2> DEFINE T == {<<l, "status", "r">>}
  <2>1. OpenAt(l, "ready") = OpenAt(l, "status") \ T
    BY DEF OpenAt
  <2>2. \A e \in T : e[1] = l
    OBVIOUS
  <2>3. CASE msg[<<l, "status">>] = "ready"
    <3>1. up' = up /\ sim' = sim \ T /\ pc[l] = "status" /\ pc' = [pc EXCEPT ![l] = "ready"]
      BY <1>9, <2>3 DEF ReadStatus, Go
    <3> HIDE DEF T
    <3> QED BY <2>1, <2>2, <3>1, TableStep
  <2>4. CASE msg[<<l, "status">>] # "ready"
    BY <1>4, <1>9, <2>4 DEF ReadStatus, Go, OpenAt
  <2> QED BY <2>3, <2>4
<1>10. ASSUME NEW l \in Launches, SendTrigger(l) PROVE TableKnown'
  <2> DEFINE T == {<<l, "trigger", "w">>}
  <2>1. OpenAt(l, "exec") = OpenAt(l, "ready") \ T
    BY DEF OpenAt
  <2>2. \A e \in T : e[1] = l
    OBVIOUS
  <2>3. up' = up /\ sim' = sim \ T /\ pc[l] = "ready" /\ pc' = [pc EXCEPT ![l] = "exec"]
    BY <1>10 DEF SendTrigger, Go
  <2> HIDE DEF T
  <2> QED BY <2>1, <2>2, <2>3, TableStep
<1>14. ASSUME NEW l \in Launches, ReadExec(l) PROVE TableKnown'
  <2> DEFINE T == {<<l, "exec", "r">>}
  <2>1. PICK to \in {"ok", "failed"} : pc[l] = "exec" /\ pc' = [pc EXCEPT ![l] = to]
    BY <1>14 DEF ReadExec, Go
  <2>2. OpenAt(l, to) = OpenAt(l, "exec") \ T
    BY DEF OpenAt
  <2>3. \A e \in T : e[1] = l
    OBVIOUS
  <2>4. up' = up /\ sim' = sim \ T
    BY <1>14 DEF ReadExec, Go
  <2> HIDE DEF T
  <2> QED BY <2>1, <2>2, <2>3, <2>4, TableStep
<1>11. ASSUME NEW l \in Launches, BrokenPipe(l) \/ Crash PROVE TableKnown'
  BY <1>11, <1>1 DEF BrokenPipe, Crash, SimulatorEnds
<1>12. ASSUME NEW l \in Launches, Child(l) \/ Killed(l) PROVE TableKnown'
  BY <1>12, <1>2 DEF Child, ReadContinue, Setup, ReadTrigger, Exec, Killed
<1>13. CASE Crash \/ UNCHANGED vars
  BY <1>13, <1>1, <1>2 DEF Crash, SimulatorEnds, vars
<1> QED BY <1>3, <1>5, <1>6, <1>7, <1>8, <1>9, <1>10, <1>11, <1>12, <1>13, <1>14 DEF Next, Thread

-----------------------------------------------------------------------------
(* The inductive invariant holds at the start and is kept by every step. *)
LEMMA InvInit == Init => IInv
<1> SUFFICES ASSUME Init PROVE IInv
  OBVIOUS
<1>1. TypeOK
  BY DEF Init, TypeOK, Returned
<1>2. ASSUME NEW l \in Launches PROVE Known(l)
  BY DEF Init, Known, TokensSent, InStep, WritersHeld, ReportTrue, NoneGivesUp, ChildAt, Opening, Pipes
<1>3. TableKnown
  BY DEF Init, TableKnown, OpenAt, Of
<1> QED BY <1>1, <1>2, <1>3 DEF IInv

(* Every step keeps what is known of every launch. *)
LEMMA InvStep == IInv /\ [Next]_vars => IInv'
<1> SUFFICES ASSUME IInv, [Next]_vars PROVE IInv'
  OBVIOUS
<1>1. ASSUME NEW k \in Launches PROVE Known(k)'
  <2>1. Known(k)
    BY DEF IInv
  <2>2. CASE \E l \in Launches : Thread(l) \/ Child(l) \/ Killed(l)
    <3>1. PICK l \in Launches : Thread(l) \/ Child(l) \/ Killed(l)
      BY <2>2
    <3>2. CASE k = l
      BY <3>1, <3>2, KnownStep
    <3>3. CASE k # l
      BY <2>1, <3>1, <3>3, OthersAlone, KnownAlone DEF IInv
    <3> QED BY <3>2, <3>3
  <2>3. CASE Crash \/ UNCHANGED vars
    BY <2>1, <2>3, KnownAlone DEF Alone, Crash, SimulatorEnds, vars
  <2> QED BY <2>2, <2>3 DEF Next
<1> QED BY <1>1, TypeStep, TableKept DEF IInv

(* What a launch reports to its caller is true of the child, whatever       *)
(* descriptors the children inherit from each other and whenever a child or *)
(* the simulator dies: after a success of read_exec_status the child has    *)
(* come past the exec or was killed from outside before it, and a failure   *)
(* leaves no child behind.                                                  *)
THEOREM ResultsAreTrue == Spec => []ResultTrue
<1>1. IInv => ResultTrue
  BY DEF IInv, ResultTrue, Known, InStep, ChildAt, Opening, Returned, Gone
<1> QED BY <1>1, InvInit, InvStep, PTL DEF Spec

(* A launch that has returned has closed its ends of the four pipes, in     *)
(* every path through namespace_start_container and the rest of the start,  *)
(* except the two that start_container_by_id forgets when it gives up.      *)
THEOREM NoLeakedDescriptors == Spec => []DescriptorsClosed
<1>1. IInv => DescriptorsClosed
  BY DEF IInv, DescriptorsClosed, TableKnown, OpenAt, Returned
<1> QED BY <1>1, InvInit, InvStep, PTL DEF Spec

-----------------------------------------------------------------------------
(* NETWORK *)

(* Intervals of addresses are small: they are expanded wherever they occur. *)
USE DEF Hosts

(* A start before its handshake, and in the middle of its draw. *)
Before  == {"setup", "draw", "store", "veth", "hand"}
Drawing == {"store", "veth"}

(* Thread t is starting c. *)
In(t, c) == job[t].at # "idle" /\ job[t].c = c

Lives(pr, p) == pr[p].st \in {"start", "run"}

(* The lists l (in memory), f (in the file), the links lk, the chain ch and *)
(* the processes pr have their types.                                       *)
Kernel(ch, lk, pr) ==
    /\ ch \in [Dnat -> Nat] /\ lk \in [C -> Pids \cup {NoProc, Host}]
    /\ pr \in [Pids -> [st : {"none", "start", "run", "dead"}, ip : {0} \cup Hosts]]
Typed(l, f, ch, lk, pr) == l \in [C -> Records] /\ f \in [C -> Records] /\ Kernel(ch, lk, pr)

(* A number that is not in use has an empty record. *)
Blank(l) == \A c \in C : l[c].st = "NONE" => l[c] = Nobody

(* A container that runs has a process of its own time. *)
Sane(l) == \A c \in C : l[c].pid <= procs /\ (l[c].st \in Active => l[c].pid # NoProc)

(* No address is in the list twice, unless it was drawn by two at once. *)
Apart(l) == \A c, d \in C : c # d /\ l[c].ip = l[d].ip => l[c].ip \in twice \cup {0}

(* A container that publishes ports does not run without an address. *)
Given(l) == \A c \in C \ odd : l[c].st \in Active /\ l[c].ports # <<>> => l[c].ip # 0

Sound(l) == Blank(l) /\ Sane(l) /\ Apart(l) /\ Given(l)

(* Processes not yet cloned are none, and only a process has an address. *)
ProcInv(pr) == \A p \in Pids : (p > procs => pr[p].st = "none") /\ (pr[p].ip # 0 => Lives(pr, p))

(* The starts of the two threads are of different containers and children. *)
JobInv ==
    \A t \in Threads : job[t].at # "idle" =>
        /\ job[t].c \in C /\ job[t].pid \in 1 .. procs
        /\ \A u \in Threads \ {t} : job[u].at # "idle" => job[t].c # job[u].c /\ job[t].pid # job[u].pid
        /\ job[t].i >= 1 /\ (job[t].at # "forward" => job[t].i = 1)
        /\ job[t].at \in Drawing => job[t].ip >= 2

(* What a start in progress knows about the record of its container: it is  *)
(* listed, has no address before it is attached, does not run before the    *)
(* handshake, has the address of the start then, and loses it when another  *)
(* thread stops it.                                                         *)
JobList(l) ==
    \A t \in Threads : job[t].at # "idle" =>
        LET r == l[job[t].c] IN
        /\ r.st # "NONE"
        /\ job[t].at \in {"setup", "draw", "store", "veth"} => r.ip = 0
        /\ job[t].at \in Before /\ job[t].c \notin odd => r.st \notin Active
        /\ job[t].at = "hand" /\ job[t].c \notin odd =>
              r.ip = job[t].ip /\ (r.ports # <<>> => r.ip # 0)
        /\ job[t].at \notin Before /\ r.st \notin Active => r.ip = 0

(* Before the handshake nothing names the child. *)
Unnamed(l) == \A t \in Threads : job[t].at \in Before => \A d \in C : l[d].pid # job[t].pid

(* The file has the address and the ports of the list. *)
Kept(l, f, c) == f[c].ip = l[c].ip /\ f[c].ports = l[c].ports

(* Before the trigger the record is saved. *)
JobFile(l, f) == \A t \in Threads : job[t].at = "trigger" => Kept(l, f, job[t].c)

(* The counter is ahead of every address in use, and a thread that has      *)
(* loaded it, too.                                                          *)
PoolInv(l) ==
    /\ \A t \in Threads : job[t].at \in Drawing /\ job[t].ip \notin twice =>
         /\ \A d \in C : l[d].ip # job[t].ip
         /\ \A u \in Threads \ {t} : job[u].at \in Drawing => job[u].ip # job[t].ip
    /\ \A t \in Threads : job[t].at = "veth" /\ job[t].ip \notin twice =>
         /\ pool > job[t].ip
         /\ \A u \in Threads : job[u].at = "store" => job[u].ip > job[t].ip
    /\ \A t, u \in Threads : t # u /\ job[t].at = "store" /\ job[u].at = "store" => job[t].ip \in twice
    /\ \A d \in C : l[d].ip \notin twice \cup {0} =>
         /\ pool > l[d].ip
         /\ \A u \in Threads : job[u].at = "store" => job[u].ip > l[d].ip

(* A record that a restart would take as active. *)
Survives(r, pr) == r.st = "PAUSED" \/ (r.st = "RUNNING" /\ pr[r.pid].st # "dead")

(* The start of c, if there is one, has saved its record. *)
Settled(c) == \A t \in Threads : In(t, c) => job[t].at = "trigger"

(* List and file agree on the containers that run, starts in progress aside. *)
FileInv(l, f, pr) ==
    \A c \in C \ odd : /\ Survives(f[c], pr) => l[c] = f[c]
                       /\ l[c].st \in Active /\ Settled(c) => f[c] = l[c]

(* The process of a container has no other address than the container. *)
HeldInv(l, pr) == \A c \in C \ odd : l[c].st \in Active => pr[l[c].pid].ip \in {0, l[c].ip}

(* A link ends with its process. *)
LinksLive(lk, pr) == \A c \in C : lk[c] \in Pids => Lives(pr, lk[c])

(* The link of a container leads to the process it records, or to the child *)
(* that waits for its handshake.                                            *)
Holds(r, p) == r.st \in Active /\ r.pid = p /\ r.ip # 0
LinkInv(l, lk) ==
    \A c \in C \ odd : lk[c] # NoProc =>
        \/ \E t \in Threads : job[t].at = "hand" /\ job[t].c = c /\ lk[c] = job[t].pid /\ l[c].ip # 0
        \/ Holds(l[c], lk[c]) /\ \A t \in Threads : In(t, c) => job[t].at \notin Before

(* Has the rule for port entry i of c been added? *)
Laid(c, i) == \A t \in Threads : In(t, c) =>
                  job[t].at \in {"save", "trigger"} \/ (job[t].at = "forward" /\ i < job[t].i)

(* The entries that rule r may be in the chain for: those laid by a start   *)
(* in progress, or known to the file.                                       *)
Owed(l, f, r) == {e \in Entries(l, C, r) : Laid(e[1], e[2]) /\ (Busy(e[1]) \/ Kept(l, f, e[1]))}

(* No rule is in the chain more often than somebody is there to delete it. *)
CountInv(l, f, ch) == \A r \in Dnat \ leaked : ch[r] <= Cardinality(Owed(l, f, r))

Ready(l, ch, c, i) == Has(ch, [port |-> l[c].ports[i], ip |-> l[c].ip])

(* Every rule that was added for a container that runs is still there. *)
RuleInv(l, ch) ==
    \A c \in C \ odd : l[c].st \in Active /\ l[c].ip \notin twice \cup {0} =>
        \A i \in DOMAIN l[c].ports : Laid(c, i) => Ready(l, ch, c, i)

(* While the simulator runs. *)
On(l, f, ch, lk, pr) ==
    /\ Typed(l, f, ch, lk, pr) /\ Sound(l) /\ Sound(f) /\ ProcInv(pr)
    /\ JobInv /\ JobList(l) /\ Unnamed(l) /\ Unnamed(f) /\ JobFile(l, f)
    /\ PoolInv(l) /\ FileInv(l, f, pr) /\ HeldInv(l, pr)
    /\ LinksLive(lk, pr) /\ LinkInv(l, lk) /\ CountInv(l, f, ch) /\ RuleInv(l, ch)

(* While it does not, the file tells what there is in the kernel. *)
Off(f, ch, lk, pr) ==
    /\ rec = [c \in C |-> Nobody] /\ job = [t \in Threads |-> Idle]
    /\ Sound(f) /\ ProcInv(pr) /\ LinksLive(lk, pr)
    /\ \A c \in C \ odd : Survives(f[c], pr) => pr[f[c].pid].ip \in {0, f[c].ip}
    /\ \A c \in C \ odd : lk[c] # NoProc => Survives(f[c], pr) /\ Holds(f[c], lk[c])
    /\ \A r \in Dnat \ leaked : ch[r] <= Cardinality(Entries(f, C, r))
    /\ \A c \in C \ odd : Survives(f[c], pr) /\ f[c].ip \notin twice \cup {0} =>
          \A i \in DOMAIN f[c].ports : Ready(f, ch, c, i)

(* Numbers from next on are free. *)
Numbered == \A c \in C : c >= next => rec[c].st = "NONE"

NetInv ==
    /\ NetTypeOK
    /\ running => On(rec, saved, chain, link, proc) /\ Numbered
    /\ ~running => Off(saved, chain, link, proc)
-----------------------------------------------------------------------------
(* Helpers *)

(* A parsed list of ports has at most MAX_PORT_MAPS ports, all in range. *)
LEMMA PortsTyped ==
    ASSUME NEW p \in Ports \cup {<<>>}
    PROVE  p \in Seq(1 .. MaxPort) /\ Len(p) <= MaxMaps
<1>1. CASE p = <<>>
  BY <1>1, PortsAssumption
<1>2. CASE p \in Ports
  <2>1. PICK text \in Texts : p = bridge_parse_port_maps(text)
    BY <1>2 DEF Ports
  <2>2. text \in Seq(Int)
    BY <2>1, PortsAssumption
  <2> DEFINE S == {i \in DOMAIN text : text[i] >= 1 /\ text[i] <= MaxPort}
             valid == Filter(text, S)
  <2>3. valid \in Seq(Int) /\ \E g : Keeps(g, valid, text, S, Len(text))
    BY <2>2, FilterKeeps
  <2>4. PICK g : Keeps(g, valid, text, S, Len(text))
    BY <2>3
  <2>5. p = SubSeq(valid, 1, IF Len(valid) < MaxMaps THEN Len(valid) ELSE MaxMaps)
    BY <2>1 DEF bridge_parse_port_maps
  <2> HIDE DEF valid
  <2>6. ASSUME NEW i \in 1 .. Len(valid) PROVE valid[i] \in 1 .. MaxPort
    <3>1. valid[i] = text[g[i]] /\ g[i] \in S
      BY <2>4 DEF Keeps
    <3>2. g[i] \in DOMAIN text /\ text[g[i]] >= 1 /\ text[g[i]] <= MaxPort
      BY <3>1
    <3>3. text[g[i]] \in Int
      BY <2>2, <3>2
    <3> QED BY <3>1, <3>2, <3>3, PortsAssumption
  <2>7. valid \in Seq(1 .. MaxPort)
    <3>1. Len(valid) \in Nat /\ valid \in [1 .. Len(valid) -> Int]
      BY <2>3, LenProperties
    <3>2. valid \in [1 .. Len(valid) -> 1 .. MaxPort]
      BY <2>6, <3>1
    <3> QED BY <3>1, <3>2, SeqDef
  <2> QED BY <2>5, <2>7, PortsAssumption
<1> QED BY <1>1, <1>2

(* The fields of a record. *)
LEMMA RecordFields ==
    ASSUME NEW r \in Records
    PROVE  /\ r.st \in {"NONE", "CREATED", "STOPPED", "RUNNING", "PAUSED"} /\ r.ip \in {0} \cup Hosts
           /\ r.ip # 0 => r.ip \in Hosts
           /\ r.pid \in Pids \cup {NoProc} /\ r.ports \in Ports \cup {<<>>}
           /\ DOMAIN r.ports = 1 .. Len(r.ports) /\ Len(r.ports) \in Nat /\ Len(r.ports) <= MaxMaps
           /\ \A i \in DOMAIN r.ports : r.ports[i] \in 1 .. MaxPort /\ i \in 1 .. MaxMaps
<1>1. /\ r.st \in {"NONE", "CREATED", "STOPPED", "RUNNING", "PAUSED"} /\ r.ip \in {0} \cup Hosts
      /\ r.ip # 0 => r.ip \in Hosts
      /\ r.pid \in Pids \cup {NoProc} /\ r.ports \in Ports \cup {<<>>}
  BY PoolAssumption DEF Records, Active
<1>2. r.ports \in Seq(1 .. MaxPort) /\ Len(r.ports) <= MaxMaps
  BY <1>1, PortsTyped
<1> QED BY <1>1, <1>2, PortsAssumption

(* A record with another address. *)
LEMMA Readdressed ==
    ASSUME NEW r \in Records, NEW a \in {0} \cup Hosts
    PROVE  /\ [r EXCEPT !.ip = a] \in Records /\ [r EXCEPT !.ip = a].ip = a
           /\ [r EXCEPT !.ip = a].st = r.st /\ [r EXCEPT !.ip = a].pid = r.pid
           /\ [r EXCEPT !.ip = a].ports = r.ports
BY DEF Records

(* A record in another state. *)
LEMMA Restated ==
    ASSUME NEW r \in Records, NEW s \in {"STOPPED", "RUNNING", "PAUSED"}
    PROVE  /\ [r EXCEPT !.st = s] \in Records /\ [r EXCEPT !.st = s].st = s
           /\ [r EXCEPT !.st = s].ip = r.ip /\ [r EXCEPT !.st = s].pid = r.pid
           /\ [r EXCEPT !.st = s].ports = r.ports
BY DEF Records, Active

(* The fields of a start. *)
LEMMA JobFields ==
    ASSUME job \in [Threads -> Jobs], NEW t \in Threads
    PROVE  /\ job[t].at \in {"idle", "setup", "draw", "store", "veth", "hand", "check", "forward",
                            "save", "trigger"}
           /\ job[t].c \in Nat /\ job[t].pid \in Pids \cup {NoProc}
           /\ job[t].ip \in {0} \cup Hosts /\ job[t].i \in Nat
BY DEF Jobs

(* Deleting one rule for every entry of E. *)
LEMMA Shrink ==
    ASSUME NEW A, NEW E, NEW T, IsFiniteSet(A), IsFiniteSet(E), IsFiniteSet(T), A \ E \subseteq T,
           NEW k \in Nat, k <= Cardinality(A)
    PROVE  (IF k > Cardinality(E) THEN k - Cardinality(E) ELSE 0) <= Cardinality(T)
<1>1. Cardinality(A) \in Nat /\ Cardinality(E) \in Nat /\ Cardinality(T) \in Nat
  BY FS_CardinalityType
<1>2. IsFiniteSet(A \ E) /\ Cardinality(A \ E) <= Cardinality(T)
  <2>1. A \ E \in SUBSET T
    OBVIOUS
  <2> QED BY <2>1, FS_Subset
<1>3. IsFiniteSet(A \cap E) /\ Cardinality(A \cap E) <= Cardinality(E)
  <2>1. A \cap E \in SUBSET E
    OBVIOUS
  <2> QED BY <2>1, FS_Subset
<1>4. Cardinality(A \ E) = Cardinality(A) - Cardinality(A \cap E)
  BY FS_Difference
<1>5. Cardinality(A \cap E) \in Nat /\ Cardinality(A \ E) \in Nat
  BY <1>2, <1>3, FS_CardinalityType
<1> QED BY <1>1, <1>2, <1>3, <1>4, <1>5

(* There are finitely many port entries. *)
LEMMA EntriesFinite ==
    ASSUME NEW S \in SUBSET C, NEW l, NEW r
    PROVE  IsFiniteSet(Entries(l, S, r))
<1>1. IsFiniteSet(C) /\ IsFiniteSet(1 .. MaxMaps)
  BY FS_Interval, IdsAssumption, PortsAssumption DEF C
<1>2. IsFiniteSet(C \X (1 .. MaxMaps))
  BY <1>1, FS_Product
<1>3. Entries(l, S, r) \in SUBSET (C \X (1 .. MaxMaps))
  BY DEF Entries
<1> QED BY <1>2, <1>3, FS_Subset

(* There are finitely many entries that a rule is owed to. *)
LEMMA OwedFinite == ASSUME NEW l, NEW f, NEW r PROVE IsFiniteSet(Owed(l, f, r))
<1>1. IsFiniteSet(Entries(l, C, r))
  BY EntriesFinite
<1>2. Owed(l, f, r) \in SUBSET Entries(l, C, r)
  BY DEF Owed
<1> QED BY <1>1, <1>2, FS_Subset

(* What is owed for in one state and still in the next. *)
LEMMA OwedGrows ==
    ASSUME NEW A, NEW B, IsFiniteSet(B), A \subseteq B, NEW k \in Nat, k <= Cardinality(A)
    PROVE  k <= Cardinality(B)
<1>1. IsFiniteSet(A) /\ Cardinality(A) <= Cardinality(B)
  <2>1. A \in SUBSET B
    OBVIOUS
  <2> QED BY <2>1, FS_Subset
<1>2. Cardinality(A) \in Nat /\ Cardinality(B) \in Nat
  BY <1>1, FS_CardinalityType
<1> QED BY <1>1, <1>2
-----------------------------------------------------------------------------
(* Commands are made of a few changes, each of which keeps On: a process is *)
(* killed, the list is saved, containers are marked as stopped.             *)

(* What the threads and the counters have to be. *)
Steady == job \in [Threads -> Jobs] /\ procs \in 0 .. MaxProcs /\ pool \in 2 .. (LastHost + 2)

(* A process dies. *)
LEMMA KillTyped ==
    ASSUME NEW lk, NEW ch, NEW pr, Kernel(ch, lk, pr), NEW P \in SUBSET Pids, NEW lk2, NEW pr2,
           lk2 = [c \in C |-> IF lk[c] \in P THEN NoProc ELSE lk[c]],
           pr2 = [p \in Pids |-> IF p \in P THEN Dead ELSE pr[p]]
    PROVE  Kernel(ch, lk2, pr2)
<1>1. lk2 \in [C -> Pids \cup {NoProc, Host}]
  BY DEF Kernel
<1>2. Dead \in [st : {"none", "start", "run", "dead"}, ip : {0} \cup Hosts]
  BY PoolAssumption DEF Dead
<1>3. pr2 \in [Pids -> [st : {"none", "start", "run", "dead"}, ip : {0} \cup Hosts]]
  BY <1>2 DEF Kernel
<1> QED BY <1>1, <1>3 DEF Kernel

(* The processes P die, and their links with them. *)
LEMMA KillKeeps ==
    ASSUME NEW l, NEW f, NEW ch, NEW lk, NEW pr, On(l, f, ch, lk, pr), Steady,
           NEW P \in SUBSET (1 .. procs), NEW lk2, NEW pr2,
           lk2 = [c \in C |-> IF lk[c] \in P THEN NoProc ELSE lk[c]],
           pr2 = [p \in Pids |-> IF p \in P THEN Dead ELSE pr[p]]
    PROVE  On(l, f, ch, lk2, pr2)
<1>1. P \subseteq Pids /\ \A p \in P : p <= procs
  BY IdsAssumption DEF Steady, Pids
<1>2. Kernel(ch, lk2, pr2)
  BY <1>1, KillTyped DEF On, Typed
<1>3. \A p \in Pids : /\ p \in P => pr2[p].st = "dead" /\ pr2[p].ip = 0
                      /\ p \notin P => pr2[p] = pr[p]
  BY DEF Dead
<1>4. \A c \in C : lk2[c] = IF lk[c] \in P THEN NoProc ELSE lk[c]
  OBVIOUS
<1>5. \A c \in C : /\ l[c].pid \in Pids \cup {NoProc} /\ f[c].pid \in Pids \cup {NoProc}
  BY RecordFields DEF On, Typed
<1>6. \A c \in C : (l[c].st \in Active => l[c].pid \in Pids) /\ (f[c].st \in Active => f[c].pid \in Pids)
  BY <1>5 DEF On, Sound, Sane
<1>7. ProcInv(pr2)
  <2> SUFFICES ASSUME NEW p \in Pids
               PROVE  (p > procs => pr2[p].st = "none") /\ (pr2[p].ip # 0 => Lives(pr2, p))
    BY DEF ProcInv
  <2>1. (p > procs => pr[p].st = "none") /\ (pr[p].ip # 0 => Lives(pr, p))
    BY DEF On, ProcInv
  <2>2. CASE p \in P
    <3>1. p \in 1 .. procs /\ procs \in Nat
      BY <2>2 DEF Steady
    <3> QED BY <1>3, <2>2, <3>1
  <2>3. CASE p \notin P
    BY <1>3, <2>1, <2>3 DEF Lives
  <2> QED BY <2>2, <2>3
<1>8. \A c \in C : Survives(f[c], pr2) => Survives(f[c], pr)
  BY <1>3, <1>6 DEF Survives, Active
<1>9. FileInv(l, f, pr2)
  BY <1>8 DEF On, FileInv
<1>10. HeldInv(l, pr2)
  BY <1>3, <1>6 DEF On, HeldInv
<1>11. LinksLive(lk2, pr2)
  BY <1>3, <1>4 DEF On, LinksLive, Lives, Pids, NoProc
<1>12. LinkInv(l, lk2)
  BY <1>4 DEF On, LinkInv
<1> QED BY <1>2, <1>7, <1>9, <1>10, <1>11, <1>12 DEF On, Typed

(* The list is saved. *)
LEMMA SaveKeeps ==
    ASSUME NEW l, NEW f, NEW ch, NEW lk, NEW pr, On(l, f, ch, lk, pr)
    PROVE  On(l, l, ch, lk, pr)
<1>1. JobFile(l, l)
  BY DEF JobFile, Kept
<1>2. FileInv(l, l, pr)
  BY DEF FileInv
<1>3. CountInv(l, l, ch)
  <2> SUFFICES ASSUME NEW r \in Dnat \ leaked PROVE ch[r] <= Cardinality(Owed(l, l, r))
    BY DEF CountInv
  <2>1. ch[r] \in Nat /\ ch[r] <= Cardinality(Owed(l, f, r))
    BY DEF On, CountInv, Typed, Kernel
  <2>2. Owed(l, f, r) \subseteq Owed(l, l, r)
    BY DEF Owed, Kept
  <2> QED BY <2>1, <2>2, OwedFinite, OwedGrows
<1> QED BY <1>1, <1>2, <1>3 DEF On, Typed

(* MarkStopped, field by field. *)
LEMMA MarkStoppedIs ==
    ASSUME NEW l \in [C -> Records], NEW ch \in [Dnat -> Nat], NEW lk \in [C -> Pids \cup {NoProc, Host}],
           NEW n, n = [rec |-> l, chain |-> ch, link |-> lk], NEW S \in SUBSET C,
           NEW m, m = MarkStopped(n, S)
    PROVE  /\ m = [rec |-> m.rec, chain |-> m.chain, link |-> m.link]
           /\ m.rec \in [C -> Records] /\ m.chain \in [Dnat -> Nat]
           /\ m.link \in [C -> Pids \cup {NoProc, Host}]
           /\ \A c \in S : /\ m.rec[c].st = "STOPPED" /\ m.rec[c].pid = NoProc
                           /\ m.rec[c].ip = 0 /\ m.rec[c].ports = l[c].ports
                           /\ m.link[c] = IF l[c].ip # 0 THEN NoProc ELSE lk[c]
           /\ \A c \in C \ S : m.rec[c] = l[c] /\ m.link[c] = lk[c]
           /\ \A r \in Dnat : m.chain[r] = IF ch[r] > Cardinality(Entries(l, S, r))
                                           THEN ch[r] - Cardinality(Entries(l, S, r)) ELSE 0
<1> DEFINE k(r) == Cardinality(Entries(l, S, r))
           l1 == [c \in C |-> IF c \in S THEN [l[c] EXCEPT !.ip = 0] ELSE l[c]]
           ch1 == [r \in Dnat |-> IF ch[r] > k(r) THEN ch[r] - k(r) ELSE 0]
           lk1 == [c \in C |-> IF c \in S /\ l[c].ip # 0 THEN NoProc ELSE lk[c]]
           l2 == [c \in C |-> IF c \in S THEN Stopped(l1[c]) ELSE l1[c]]
<1>1. cleanup_container_network(n, S) = [rec |-> l1, chain |-> ch1, link |-> lk1]
  BY DEF cleanup_container_network
<1>2. m = [rec |-> l2, chain |-> ch1, link |-> lk1]
  <2> HIDE DEF l1, ch1, lk1
  <2>1. [[rec |-> l1, chain |-> ch1, link |-> lk1] EXCEPT !.rec = l2]
            = [rec |-> l2, chain |-> ch1, link |-> lk1]
    OBVIOUS
  <2>2. [rec |-> l1, chain |-> ch1, link |-> lk1].rec = l1
    OBVIOUS
  <2> QED BY <1>1, <2>1, <2>2, Zenon DEF MarkStopped
<1>3. \A r \in Dnat : k(r) \in Nat
  BY EntriesFinite, FS_CardinalityType
<1>4. ch1 \in [Dnat -> Nat]
  <2> HIDE DEF k
  <2> QED BY <1>3
<1>5. \A c \in C : l1[c] \in Records /\ (c \notin S => l1[c] = l[c])
                   /\ (c \in S => l1[c].ip = 0 /\ l1[c].ports = l[c].ports)
  <2> SUFFICES ASSUME NEW c \in C
               PROVE  l1[c] \in Records /\ (c \notin S => l1[c] = l[c])
                      /\ (c \in S => l1[c].ip = 0 /\ l1[c].ports = l[c].ports)
    OBVIOUS
  <2>1. l[c] \in Records /\ l1[c] = IF c \in S THEN [l[c] EXCEPT !.ip = 0] ELSE l[c]
    OBVIOUS
  <2>2. 0 \in {0} \cup Hosts
    BY PoolAssumption
  <2>3. /\ [l[c] EXCEPT !.ip = 0] \in Records /\ [l[c] EXCEPT !.ip = 0].ip = 0
        /\ [l[c] EXCEPT !.ip = 0].ports = l[c].ports
    BY <2>1, <2>2, Readdressed
  <2> HIDE DEF l1
  <2>4. CASE c \in S
    <3>1. l1[c] = [l[c] EXCEPT !.ip = 0]
      BY <2>1, <2>4
    <3> QED BY <2>3, <2>4, <3>1
  <2> QED BY <2>1, <2>4
<1>6. \A c \in C : l2[c] \in Records /\ (c \notin S => l2[c] = l[c])
                   /\ (c \in S => /\ l2[c].st = "STOPPED" /\ l2[c].pid = NoProc
                                  /\ l2[c].ip = 0 /\ l2[c].ports = l[c].ports)
  <2> HIDE DEF l1
  <2> QED BY <1>5 DEF Stopped, Records
<1>7. l2 \in [C -> Records] /\ lk1 \in [C -> Pids \cup {NoProc, Host}]
  <2> HIDE DEF l1
  <2> QED BY <1>6
<1> HIDE DEF k, l1, l2
<1>8. /\ m.rec = l2 /\ m.chain = ch1 /\ m.link = lk1
  BY <1>2
<1>9. \A r \in Dnat : m.chain[r] = IF ch[r] > k(r) THEN ch[r] - k(r) ELSE 0
  BY <1>8
<1> QED BY <1>2, <1>4, <1>6, <1>7, <1>8, <1>9 DEF k

(* Containers are marked as stopped, and the list is saved. *)
LEMMA StopKeeps ==
    ASSUME NEW l, NEW f, NEW ch, NEW lk, NEW pr, On(l, f, ch, lk, pr), Steady,
           NEW n, n = [rec |-> l, chain |-> ch, link |-> lk], NEW S \in SUBSET C,
           \A c \in S : l[c].st \in Active \/ ~Busy(c),
           NEW m, m = MarkStopped(n, S)
    PROVE  On(m.rec, m.rec, m.chain, m.link, pr)
<1> DEFINE l2 == m.rec
           ch2 == m.chain
           lk2 == m.link
<1>1. l \in [C -> Records] /\ ch \in [Dnat -> Nat] /\ lk \in [C -> Pids \cup {NoProc, Host}]
  BY DEF On, Typed, Kernel
<1>2. /\ l2 \in [C -> Records] /\ ch2 \in [Dnat -> Nat]
      /\ lk2 \in [C -> Pids \cup {NoProc, Host}]
      /\ \A c \in S : /\ l2[c].st = "STOPPED" /\ l2[c].pid = NoProc
                      /\ l2[c].ip = 0 /\ l2[c].ports = l[c].ports
                      /\ lk2[c] = IF l[c].ip # 0 THEN NoProc ELSE lk[c]
      /\ \A c \in C \ S : l2[c] = l[c] /\ lk2[c] = lk[c]
      /\ \A r \in Dnat : ch2[r] = IF ch[r] > Cardinality(Entries(l, S, r))
                                  THEN ch[r] - Cardinality(Entries(l, S, r)) ELSE 0
  BY <1>1, MarkStoppedIs
<1> HIDE DEF l2, ch2, lk2
<1>3. Typed(l2, l2, ch2, lk2, pr)
  BY <1>2 DEF On, Typed, Kernel
<1>4. Sound(l2)
  <2>1. Blank(l2) /\ Given(l2)
    BY <1>2 DEF On, Sound, Blank, Given, Active
  <2>2. Sane(l2)
    BY <1>2 DEF On, Sound, Sane, Active, NoProc, Steady
  <2>3. Apart(l2)
    BY <1>2 DEF On, Sound, Apart
  <2> QED BY <2>1, <2>2, <2>3 DEF Sound
<1>5. JobList(l2)
  <2> SUFFICES ASSUME NEW t \in Threads, job[t].at # "idle", job[t].c \in C PROVE
        LET r == l2[job[t].c] IN
        /\ r.st # "NONE"
        /\ job[t].at \in {"setup", "draw", "store", "veth"} => r.ip = 0
        /\ job[t].at \in Before /\ job[t].c \notin odd => r.st \notin Active
        /\ job[t].at = "hand" /\ job[t].c \notin odd =>
              r.ip = job[t].ip /\ (r.ports # <<>> => r.ip # 0)
        /\ job[t].at \notin Before /\ r.st \notin Active => r.ip = 0
    BY DEF JobList, On, JobInv
  <2>1. CASE job[t].c \in S
    <3>1. job[t].at \in Before => job[t].c \in odd
      BY <2>1 DEF On, JobList, Busy
    <3> QED BY <1>2, <2>1, <3>1 DEF Active, Before
  <2>2. CASE job[t].c \notin S
    BY <1>2, <2>2 DEF On, JobList
  <2> QED BY <2>1, <2>2
<1>6. Unnamed(l2)
  BY <1>2 DEF On, Unnamed, JobInv, Before, NoProc, Steady
<1>7. JobFile(l2, l2)
  BY DEF JobFile, Kept
<1>8. PoolInv(l2)
  <2>1. \A t \in Threads : job[t].at \in Drawing => job[t].ip # 0
    BY JobFields DEF On, JobInv, Drawing, Steady
  <2>2. \A c \in C : l2[c].ip = 0 \/ l2[c].ip = l[c].ip
    BY <1>2
  <2> QED BY <2>1, <2>2 DEF On, PoolInv
<1>9. FileInv(l2, l2, pr)
  BY DEF FileInv
<1>10. HeldInv(l2, pr)
  BY <1>2 DEF On, HeldInv, Active
<1>11. LinksLive(lk2, pr)
  BY <1>2 DEF On, LinksLive, Pids, NoProc
<1>12. LinkInv(l2, lk2)
  <2> SUFFICES ASSUME NEW c \in C \ odd, lk2[c] # NoProc PROVE c \notin S
    BY <1>2 DEF On, LinkInv
  <2> SUFFICES ASSUME c \in S PROVE FALSE
    OBVIOUS
  <2>1. l[c].ip = 0 /\ lk[c] # NoProc
    BY <1>2
  <2> QED BY <2>1 DEF On, LinkInv, Holds
<1>13. CountInv(l2, l2, ch2)
  <2> SUFFICES ASSUME NEW r \in Dnat \ leaked PROVE ch2[r] <= Cardinality(Owed(l2, l2, r))
    BY DEF CountInv
  <2>1. ch[r] \in Nat /\ ch[r] <= Cardinality(Owed(l, f, r))
    BY DEF On, CountInv, Typed, Kernel
  <2>2. Owed(l, f, r) \ Entries(l, S, r) \subseteq Owed(l2, l2, r)
    BY <1>2 DEF Owed, Kept, Entries
  <2> HIDE DEF On
  <2> QED BY <1>2, <2>1, <2>2, OwedFinite, EntriesFinite, Shrink
<1>14. RuleInv(l2, ch2)
  <2> SUFFICES ASSUME NEW c \in C \ odd, l2[c].st \in Active, l2[c].ip \notin twice \cup {0},
                      NEW i \in DOMAIN l2[c].ports, Laid(c, i)
               PROVE  Ready(l2, ch2, c, i)
    BY DEF RuleInv
  <2>1. c \notin S /\ l2[c] = l[c]
    BY <1>2 DEF Active
  <2> DEFINE r == [port |-> l[c].ports[i], ip |-> l[c].ip]
  <2>2. r \in Dnat /\ ch[r] > 0
    BY <2>1 DEF On, RuleInv, Ready, Has
  <2>3. Entries(l, S, r) = {}
    <3> SUFFICES ASSUME NEW e \in Entries(l, S, r) PROVE FALSE
      OBVIOUS
    <3>1. e[1] \in S /\ l[e[1]].ip = l[c].ip
      BY DEF Entries
    <3> QED BY <2>1, <3>1 DEF On, Sound, Apart
  <2>4. Cardinality(Entries(l, S, r)) = 0
    BY <2>3, FS_EmptySet
  <2> HIDE DEF r
  <2>5. ch2[r] = ch[r] /\ ch[r] \in Nat
    BY <1>1, <1>2, <2>2, <2>4
  <2> QED BY <2>1, <2>2, <2>5 DEF Ready, Has, r
<1>15. On(l2, l2, ch2, lk2, pr)
  BY <1>3, <1>4, <1>5, <1>6, <1>7, <1>8, <1>9, <1>10, <1>11, <1>12, <1>13, <1>14 DEF On
<1> QED BY <1>15 DEF l2, ch2, lk2

(* A container is paused or resumed, and the list is saved. *)
LEMMA PauseKeeps ==
    ASSUME NEW l, NEW ch, NEW lk, NEW pr, On(l, l, ch, lk, pr),
           NEW c \in C, l[c].st \in Active, NEW s \in Active, NEW l2, l2 = [l EXCEPT ![c].st = s]
    PROVE  On(l2, l2, ch, lk, pr)
<1>1. l \in [C -> Records]
  BY DEF On, Typed
<1>2. l2 \in [C -> Records] /\ \A d \in C : /\ l2[d].st = IF d = c THEN s ELSE l[d].st
                                            /\ l2[d].ip = l[d].ip /\ l2[d].pid = l[d].pid
                                            /\ l2[d].ports = l[d].ports
                                            /\ d # c => l2[d] = l[d]
  <2>1. l[c] \in Records /\ s \in {"STOPPED", "RUNNING", "PAUSED"}
    BY <1>1 DEF Active
  <2> DEFINE r2 == [l[c] EXCEPT !.st = s]
  <2>2. /\ r2 \in Records /\ r2.st = s /\ r2.ip = l[c].ip /\ r2.pid = l[c].pid
        /\ r2.ports = l[c].ports
    BY <2>1, Restated
  <2>3. l2 = [l EXCEPT ![c] = r2]
    OBVIOUS
  <2> HIDE DEF r2
  <2> QED BY <1>1, <2>2, <2>3
<1>3. \A d \in C : (l2[d].st \in Active) <=> (l[d].st \in Active)
  BY <1>2 DEF Active
<1>4. Typed(l2, l2, ch, lk, pr)
  BY <1>2 DEF On, Typed
<1>5. Sound(l2)
  <2>1. Blank(l2)
    BY <1>2 DEF On, Sound, Blank, Active
  <2>2. Sane(l2) /\ Given(l2)
    BY <1>2, <1>3 DEF On, Sound, Sane, Given
  <2>3. Apart(l2)
    BY <1>2 DEF On, Sound, Apart
  <2> QED BY <2>1, <2>2, <2>3 DEF Sound
<1>6. JobList(l2)
  <2>1. \A d \in C : l2[d].st = "NONE" => l[d].st = "NONE"
    BY <1>2 DEF Active
  <2> QED BY <1>2, <1>3, <2>1 DEF On, JobInv, JobList
<1>7. Unnamed(l2)
  BY <1>2 DEF On, Unnamed
<1>8. JobFile(l2, l2) /\ FileInv(l2, l2, pr)
  BY DEF JobFile, FileInv, Kept
<1>9. PoolInv(l2)
  BY <1>2 DEF On, PoolInv
<1>10. HeldInv(l2, pr)
  BY <1>2, <1>3 DEF On, HeldInv
<1>11. LinkInv(l2, lk)
  BY <1>2, <1>3 DEF On, LinkInv, Holds
<1>12. CountInv(l2, l2, ch)
  <2>1. \A r : Owed(l, l, r) = Owed(l2, l2, r)
    BY <1>2 DEF Owed, Kept, Entries
  <2> QED BY <2>1 DEF On, CountInv
<1>13. RuleInv(l2, ch)
  BY <1>2, <1>3 DEF On, RuleInv, Ready
<1> QED BY <1>4, <1>5, <1>6, <1>7, <1>8, <1>9, <1>10, <1>11, <1>12, <1>13 DEF On

(* The record of a new container. *)
Fresh(ports) == [st |-> "CREATED", ip |-> 0, ports |-> ports, pid |-> NoProc]

(* A container is created, and the list is saved. *)
LEMMA CreateKeeps ==
    ASSUME NEW l, NEW ch, NEW lk, NEW pr, On(l, l, ch, lk, pr), Steady,
           NEW c \in C, l[c].st = "NONE", NEW ports \in Ports, NEW l2,
           l2 = [l EXCEPT ![c] = Fresh(ports)]
    PROVE  On(l2, l2, ch, lk, pr)
<1>1. l \in [C -> Records] /\ l[c] = Nobody
  BY DEF On, Typed, Sound, Blank
<1>2. /\ Fresh(ports).st = "CREATED" /\ Fresh(ports).ip = 0 /\ Fresh(ports).pid = NoProc
      /\ Fresh(ports).ports = ports
  BY DEF Fresh
<1>3. Fresh(ports) \in Records
  <2>1. 0 \in {0} \cup Hosts
    BY PoolAssumption
  <2> QED BY <2>1 DEF Records, Fresh
<1>4. /\ l2 \in [C -> Records] /\ l2[c].st = "CREATED" /\ l2[c].ip = 0 /\ l2[c].pid = NoProc
      /\ \A d \in C : d # c => l2[d] = l[d]
  BY <1>1, <1>2, <1>3
<1>5. l[c].ip = 0 /\ l[c].pid = NoProc /\ l[c].ports = <<>>
  BY <1>1 DEF Nobody
<1>6. \A t \in Threads : job[t].at # "idle" => job[t].c # c
  BY DEF On, JobList
<1>7. Typed(l2, l2, ch, lk, pr)
  BY <1>4 DEF On, Typed
<1>8. Sound(l2)
  <2>1. Blank(l2) /\ Given(l2)
    BY <1>4 DEF On, Sound, Blank, Given, Active
  <2>2. Sane(l2)
    BY <1>4 DEF On, Sound, Sane, Active, NoProc, Steady
  <2>3. Apart(l2)
    BY <1>4 DEF On, Sound, Apart
  <2> QED BY <2>1, <2>2, <2>3 DEF Sound
<1>9. JobList(l2)
  BY <1>4, <1>6 DEF On, JobInv, JobList
<1>10. Unnamed(l2)
  BY <1>4 DEF On, Unnamed, JobInv, Before, NoProc, Steady
<1>11. JobFile(l2, l2) /\ FileInv(l2, l2, pr)
  BY DEF JobFile, FileInv, Kept
<1>12. PoolInv(l2)
  <2>1. \A d \in C : l2[d].ip = l[d].ip
    BY <1>4, <1>5
  <2> QED BY <2>1 DEF On, PoolInv
<1>13. HeldInv(l2, pr)
  BY <1>4 DEF On, HeldInv, Active
<1>14. LinkInv(l2, lk)
  BY <1>4, <1>5, <1>6 DEF On, LinkInv, Holds, Active
<1>15. CountInv(l2, l2, ch)
  <2> SUFFICES ASSUME NEW r \in Dnat \ leaked PROVE ch[r] <= Cardinality(Owed(l2, l2, r))
    BY DEF CountInv
  <2>1. ch[r] \in Nat /\ ch[r] <= Cardinality(Owed(l, l, r))
    BY DEF On, CountInv, Typed, Kernel
  <2>2. Owed(l, l, r) \subseteq Owed(l2, l2, r)
    BY <1>4, <1>5 DEF Owed, Kept, Entries
  <2> QED BY <2>1, <2>2, OwedFinite, OwedGrows
<1>16. RuleInv(l2, ch)
  BY <1>4 DEF On, RuleInv, Ready, Active
<1> QED BY <1>7, <1>8, <1>9, <1>10, <1>11, <1>12, <1>13, <1>14, <1>15, <1>16 DEF On

-----------------------------------------------------------------------------
(* The poll *)

Alive == On(rec, saved, chain, link, proc)

(* poll_states keeps the invariant, whether or not it has to save the list. *)
LEMMA PollKeeps ==
    ASSUME Alive, Steady
    PROVE  /\ Polled = [rec |-> Polled.rec, chain |-> Polled.chain, link |-> Polled.link]
           /\ On(Polled.rec, Polled.rec, Polled.chain, Polled.link, proc)
           /\ On(Polled.rec, IF Polled.rec # rec THEN Polled.rec ELSE saved,
                 Polled.chain, Polled.link, proc)
           /\ \A c \in C : Polled.rec[c].st = "NONE" => rec[c].st = "NONE"
           /\ \A c \in C : rec[c].st = "NONE" => Polled.rec[c].st = "NONE"
<1>1. rec \in [C -> Records] /\ chain \in [Dnat -> Nat] /\ link \in [C -> Pids \cup {NoProc, Host}]
  BY DEF Alive, On, Typed, Kernel
<1>2. Ended \in SUBSET C /\ \A c \in Ended : rec[c].st = "RUNNING" /\ rec[c].st \in Active
  BY DEF Ended, Active
<1>3. Now = [rec |-> rec, chain |-> chain, link |-> link] /\ Polled = MarkStopped(Now, Ended)
  BY DEF Now, Polled
<1>4. On(Polled.rec, Polled.rec, Polled.chain, Polled.link, proc)
  BY <1>2, <1>3, StopKeeps DEF Alive
<1>5. /\ Polled = [rec |-> Polled.rec, chain |-> Polled.chain, link |-> Polled.link]
      /\ Polled.rec \in [C -> Records] /\ Polled.chain \in [Dnat -> Nat]
      /\ Polled.link \in [C -> Pids \cup {NoProc, Host}]
      /\ \A c \in Ended : Polled.rec[c].st = "STOPPED"
      /\ \A c \in C \ Ended : Polled.rec[c] = rec[c] /\ Polled.link[c] = link[c]
      /\ \A r \in Dnat : Polled.chain[r] = IF chain[r] > Cardinality(Entries(rec, Ended, r))
                                           THEN chain[r] - Cardinality(Entries(rec, Ended, r)) ELSE 0
  BY <1>1, <1>2, <1>3, MarkStoppedIs
<1>6. /\ \A c \in C : Polled.rec[c].st = "NONE" => rec[c].st = "NONE"
      /\ \A c \in C : rec[c].st = "NONE" => Polled.rec[c].st = "NONE"
  BY <1>2, <1>5
<1>7. ASSUME Polled.rec = rec
      PROVE  Polled.chain = chain /\ Polled.link = link
  <2>1. Ended = {}
    BY <1>2, <1>5, <1>7
  <2>2. \A r : Entries(rec, Ended, r) = {}
    BY <2>1 DEF Entries
  <2>3. \A r \in Dnat : Polled.chain[r] = chain[r]
    <3> TAKE r \in Dnat
    <3>1. Cardinality(Entries(rec, Ended, r)) = 0
      BY <2>2, FS_EmptySet
    <3>2. chain[r] \in Nat
      BY <1>1
    <3> QED BY <1>5, <3>1, <3>2
  <2>4. \A c \in C : Polled.link[c] = link[c]
    BY <1>5, <2>1
  <2> QED BY <1>1, <1>5, <2>3, <2>4
<1>8. On(Polled.rec, IF Polled.rec # rec THEN Polled.rec ELSE saved, Polled.chain, Polled.link, proc)
  <2>1. CASE Polled.rec = rec
    BY <1>7, <2>1 DEF Alive
  <2>2. CASE Polled.rec # rec
    BY <1>4, <2>2
  <2> QED BY <2>1, <2>2
<1> QED BY <1>4, <1>5, <1>6, <1>8

(* What holds of the lists and the kernel still holds when nothing else     *)
(* changes.                                                                 *)
LEMMA Becomes ==
    ASSUME NEW l, NEW f, NEW ch, NEW lk, NEW pr, On(l, f, ch, lk, pr),
           rec' = l, saved' = f, chain' = ch, link' = lk, proc' = pr,
           job' = job, pool' = pool, procs' = procs, leaked' = leaked, odd' = odd, twice' = twice
    PROVE  Alive'
<1>1. Typed(l, f, ch, lk, pr)' /\ ProcInv(pr)'
  BY DEF On, Typed, Kernel, ProcInv, Lives
<1>2. Sound(l)' /\ Sound(f)'
  BY DEF On, Sound, Blank, Sane, Apart, Given
<1>3. JobInv' /\ JobList(l)' /\ Unnamed(l)' /\ Unnamed(f)' /\ JobFile(l, f)'
  BY DEF On, JobInv, JobList, Unnamed, JobFile, Kept
<1>4. PoolInv(l)'
  BY DEF On, PoolInv
<1>5. FileInv(l, f, pr)' /\ HeldInv(l, pr)'
  BY DEF On, FileInv, HeldInv, Survives, Settled, In
<1>6. LinksLive(lk, pr)' /\ LinkInv(l, lk)'
  BY DEF On, LinksLive, LinkInv, Holds, In, Lives
<1>7. CountInv(l, f, ch)'
  BY DEF On, CountInv, Owed, Laid, Busy, Kept, Entries, In
<1>8. RuleInv(l, ch)'
  BY DEF On, RuleInv, Laid, Ready, Has, In
<1>9. On(l, f, ch, lk, pr)'
  BY <1>1, <1>2, <1>3, <1>4, <1>5, <1>6, <1>7, <1>8 DEF On
<1> QED BY <1>9 DEF Alive, On

(* Containers that neither run nor are being started leave the list.  Rules *)
(* that are then forgotten are counted as leaked.                           *)
LEMMA WipeKeeps ==
    ASSUME NEW l, NEW ch, NEW lk, NEW pr, On(l, l, ch, lk, pr), Steady,
           NEW W \in SUBSET C, \A c \in W : l[c].st \notin Active /\ ~Busy(c),
           rec' = [c \in C |-> IF c \in W THEN Nobody ELSE l[c]], saved' = rec',
           chain' = ch, link' = lk, proc' = pr,
           job' = job, pool' = pool, procs' = procs, odd' = odd, twice' = twice, leaked \subseteq leaked',
           \A r \in Dnat \ leaked' : ch[r] = 0 \/ Entries(l, W, r) = {}
    PROVE  Alive'
<1>1. Nobody \in Records
  <2>1. 0 \in {0} \cup Hosts
    BY PoolAssumption
  <2> QED BY <2>1 DEF Nobody, Records
<1>2. Nobody.st = "NONE" /\ Nobody.ip = 0 /\ Nobody.pid = NoProc /\ Nobody.ports = <<>>
  BY DEF Nobody
<1>3. rec' \in [C -> Records] /\ saved' \in [C -> Records] /\ l \in [C -> Records]
  BY <1>1 DEF On, Typed
<1>4. (\A c \in W : rec'[c] = Nobody) /\ (\A c \in C \ W : rec'[c] = l[c])
  OBVIOUS
<1>5. \A t \in Threads : job[t].at # "idle" => job[t].c \notin W
  BY DEF Busy
<1>6. Typed(rec, saved, chain, link, proc)' /\ ProcInv(proc)'
  BY <1>3 DEF On, Typed, Kernel, ProcInv, Lives
<1>7. Sound(rec)'
  <2>1. Blank(rec)' /\ Given(rec)'
    BY <1>2, <1>4 DEF On, Sound, Blank, Given, Active
  <2>2. Sane(rec)'
    BY <1>2, <1>4 DEF On, Sound, Sane, Active, NoProc, Steady
  <2>3. Apart(rec)'
    BY <1>2, <1>4 DEF On, Sound, Apart
  <2> QED BY <2>1, <2>2, <2>3 DEF Sound
<1>8. Sound(saved)'
  BY <1>7 DEF Sound, Blank, Given, Sane, Apart
<1>9. JobInv' /\ JobList(rec)'
  BY <1>4, <1>5 DEF On, JobInv, JobList
<1>10. Unnamed(rec)' /\ Unnamed(saved)'
  BY <1>2, <1>4 DEF On, Unnamed, JobInv, Before, NoProc, Steady
<1>11. JobFile(rec, saved)' /\ FileInv(rec, saved, proc)'
  BY DEF JobFile, FileInv, Kept
<1>12. PoolInv(rec)'
  <2>1. \A c \in C : rec'[c].ip = 0 \/ rec'[c].ip = l[c].ip
    BY <1>2, <1>4
  <2>2. \A t \in Threads : job[t].at \in Drawing => job[t].ip # 0
    BY JobFields DEF On, JobInv, Drawing, Steady
  <2> QED BY <2>1, <2>2 DEF On, PoolInv
<1>13. HeldInv(rec, proc)'
  BY <1>2, <1>4 DEF On, HeldInv, Active
<1>14. LinksLive(link, proc)'
  BY DEF On, LinksLive, Lives
<1>15. LinkInv(rec, link)'
  <2> SUFFICES ASSUME NEW c \in C \ odd, lk[c] # NoProc PROVE c \notin W
    BY <1>4 DEF On, LinkInv, Holds, In
  <2> QED BY <1>5 DEF On, LinkInv, Holds
<1>16. CountInv(rec, saved, chain)'
  <2> SUFFICES ASSUME NEW r \in Dnat \ leaked' PROVE ch[r] <= Cardinality(Owed(rec, saved, r)')
    BY DEF CountInv
  <2>1. ch[r] \in Nat /\ ch[r] <= Cardinality(Owed(l, l, r))
    BY DEF On, CountInv, Typed, Kernel
  <2>2. IsFiniteSet(Owed(rec, saved, r)')
    <3>1. Owed(rec, saved, r)' \in SUBSET Entries(rec', C, r)
      BY DEF Owed, Entries
    <3> QED BY <3>1, EntriesFinite, FS_Subset
  <2>3. CASE ch[r] = 0
    BY <2>2, <2>3, FS_CardinalityType
  <2>4. CASE Entries(l, W, r) = {}
    <3>1. Owed(l, l, r) \subseteq Owed(rec, saved, r)'
      <4> SUFFICES ASSUME NEW e \in Owed(l, l, r) PROVE e \in Owed(rec, saved, r)'
        OBVIOUS
      <4>1. e \in Entries(l, C, r) /\ Laid(e[1], e[2])
        BY DEF Owed
      <4>2. e[1] \notin W
        BY <2>4, <4>1 DEF Entries
      <4> QED BY <1>4, <4>1, <4>2 DEF Owed, Entries, Laid, In, Kept
    <3> QED BY <2>1, <2>2, <3>1, OwedGrows
  <2> QED BY <2>3, <2>4
<1>17. RuleInv(rec, chain)'
  BY <1>2, <1>4 DEF On, RuleInv, Ready, Has, Laid, In, Active
<1> QED BY <1>6, <1>7, <1>8, <1>9, <1>10, <1>11, <1>12, <1>13, <1>14, <1>15, <1>16, <1>17 DEF Alive, On

-----------------------------------------------------------------------------
(* Commands *)

(* The invariant while the simulator runs. *)
Safe ==
    /\ running = TRUE /\ bridge \in {"none", "half", "up"} /\ next \in 1 .. (MaxIds + 1)
    /\ Steady /\ Alive /\ Numbered

(* stop_container_process *)
LEMMA StopProcessKeeps ==
    ASSUME NEW l, NEW f, NEW ch, NEW lk, On(l, f, ch, lk, proc), Steady,
           NEW n, n = [rec |-> l, chain |-> ch, link |-> lk], NEW c \in C,
           f = saved \/ l[c].st \in Active, StopProcess(n, c)
    PROVE  /\ On(rec', saved', chain', link', proc')
           /\ rec'[c].st \notin Active /\ (\A d \in C \ {c} : rec'[d] = l[d])
           /\ l[c].st \in Active => rec'[c].ip = 0 /\ rec'[c].st = "STOPPED"
           /\ l[c].st \notin Active => rec' = l /\ saved' = saved
<1>0. n.rec = l /\ n.chain = ch /\ n.link = lk
  OBVIOUS
<1>1. CASE l[c].st \in Active
  <2> DEFINE p == l[c].pid
             lk1 == Without(lk, p)
             n1 == [n EXCEPT !.link = Without(n.link, n.rec[c].pid)]
             m == MarkStopped(n1, {c})
  <2>1. Kill(p) /\ Become(m) /\ saved' = m.rec
    BY <1>0, <1>1 DEF StopProcess
  <2>2. p \in 1 .. procs /\ p \in Pids
    <3>1. l[c].pid \in Pids \cup {NoProc} /\ l[c].pid # NoProc /\ l[c].pid <= procs
      BY <1>1, RecordFields DEF On, Typed, Sound, Sane
    <3> QED BY <3>1 DEF Pids, Steady
  <2>3. proc' = [q \in Pids |-> IF q \in {p} THEN Dead ELSE proc[q]]
    BY <2>1, <2>2 DEF Kill, On, Typed, Kernel
  <2>4. lk1 = [d \in C |-> IF lk[d] \in {p} THEN NoProc ELSE lk[d]]
    BY DEF Without
  <2>5. On(l, f, ch, lk1, proc')
    <3> HIDE DEF p, lk1
    <3>1. {p} \in SUBSET (1 .. procs)
      BY <2>2
    <3> QED BY <2>3, <2>4, <3>1, KillKeeps
  <2>6. n1 = [rec |-> l, chain |-> ch, link |-> lk1]
    BY <1>0
  <2> HIDE DEF p, lk1, n1, m
  <2>7. m = MarkStopped(n1, {c})
    BY DEF m
  <2>8. On(m.rec, m.rec, m.chain, m.link, proc')
    BY <1>1, <2>5, <2>6, <2>7, StopKeeps
  <2>9. /\ m.rec[c].st = "STOPPED" /\ m.rec[c].ip = 0
        /\ \A d \in C \ {c} : m.rec[d] = l[d]
    <3>1. l \in [C -> Records] /\ ch \in [Dnat -> Nat] /\ lk1 \in [C -> Pids \cup {NoProc, Host}]
      BY <2>5 DEF On, Typed, Kernel
    <3> QED BY SMTT(30), <2>6, <2>7, <3>1, MarkStoppedIs
  <2>10. rec' = m.rec /\ chain' = m.chain /\ link' = m.link /\ saved' = m.rec
    BY <2>1 DEF Become
  <2> QED BY <1>1, <2>8, <2>9, <2>10 DEF Active
<1>2. CASE l[c].st \notin Active
  BY <1>0, <1>2 DEF StopProcess, Become
<1> QED BY <1>1, <1>2

(* The poll that every command starts with. *)
LEMMA PollStep ==
    ASSUME Safe, NEW t \in Threads, poll_states(t) PROVE Safe'
<1>1. Alive'
  BY PollKeeps, Becomes DEF Safe, poll_states, Command, Become, history
<1>2. Numbered'
  BY PollKeeps DEF Safe, Numbered, poll_states, Become
<1> QED BY <1>1, <1>2 DEF Safe, Steady, poll_states, Command

(* stop *)
LEMMA StopStep ==
    ASSUME Safe, NEW t \in Threads, NEW c \in C, container_stop(t, c) PROVE Safe'
<1>1. /\ On(Polled.rec, Polled.rec, Polled.chain, Polled.link, proc)
      /\ Polled = [rec |-> Polled.rec, chain |-> Polled.chain, link |-> Polled.link]
      /\ Polled.rec[c].st \in Active /\ StopProcess(Polled, c)
  BY PollKeeps DEF Safe, container_stop
<1>2. /\ On(rec', saved', chain', link', proc') /\ rec'[c].st = "STOPPED"
      /\ \A d \in C \ {c} : rec'[d] = Polled.rec[d]
  BY <1>1, StopProcessKeeps DEF Safe
<1>3. Alive'
  BY <1>2, Becomes DEF Safe, container_stop, Command, history
<1>4. Numbered'
  <2>1. rec[c].st # "NONE"
    BY <1>1, PollKeeps DEF Safe, Active
  <2> QED BY <1>2, <2>1, PollKeeps DEF Safe, Numbered, container_stop
<1> QED BY <1>3, <1>4 DEF Safe, Steady, container_stop, Command

(* The list with a new container. *)
LEMMA CreatedIs ==
    ASSUME NEW l, NEW ch, NEW lk, NEW n, n = [rec |-> l, chain |-> ch, link |-> lk], NEW ports
    PROVE  Created(n, ports) = [rec |-> [l EXCEPT ![next] = Fresh(ports)], chain |-> ch, link |-> lk]
<1>1. [Nobody EXCEPT !.st = "CREATED"] = [st |-> "CREATED", ip |-> 0, ports |-> <<>>, pid |-> NoProc]
  BY DEF Nobody
<1>2. [[st |-> "CREATED", ip |-> 0, ports |-> <<>>, pid |-> NoProc] EXCEPT !.ports = ports] = Fresh(ports)
  BY DEF Fresh
<1>3. [Nobody EXCEPT !.st = "CREATED", !.ports = ports] = Fresh(ports)
  BY <1>1, <1>2
<1> DEFINE r2 == [Nobody EXCEPT !.st = "CREATED", !.ports = ports]
<1>4. Created(n, ports) = [n EXCEPT !.rec[next] = r2]
  BY DEF Created
<1>5. r2 = Fresh(ports)
  BY <1>3
<1> HIDE DEF r2
<1> QED BY <1>4, <1>5

(* create and the first half of run. *)
LEMMA CreatedKeeps ==
    ASSUME Safe, next <= MaxIds, NEW ports \in Ports, NEW n, n = Created(Polled, ports)
    PROVE  /\ next \in C /\ n = [rec |-> n.rec, chain |-> n.chain, link |-> n.link]
           /\ On(n.rec, n.rec, n.chain, n.link, proc)
           /\ n.rec[next] = Fresh(ports) /\ \A c \in C \ {next} : n.rec[c] = Polled.rec[c]
           /\ \A t \in Threads : job[t].at # "idle" => job[t].c # next
<1>1. /\ On(Polled.rec, Polled.rec, Polled.chain, Polled.link, proc) /\ Steady
      /\ Polled = [rec |-> Polled.rec, chain |-> Polled.chain, link |-> Polled.link]
      /\ \A c \in C : rec[c].st = "NONE" => Polled.rec[c].st = "NONE"
  BY PollKeeps DEF Safe
<1>2. next \in C /\ rec[next].st = "NONE" /\ Polled.rec[next].st = "NONE"
  <2>1. next \in C /\ next >= next
    BY IdsAssumption DEF Safe, C
  <2> QED BY <1>1, <2>1 DEF Safe, Numbered
<1> DEFINE l2 == [Polled.rec EXCEPT ![next] = Fresh(ports)]
<1>3. n = [rec |-> l2, chain |-> Polled.chain, link |-> Polled.link]
  BY <1>1, CreatedIs
<1>4. On(l2, l2, Polled.chain, Polled.link, proc)
  <2> HIDE DEF l2
  <2>1. l2 = [Polled.rec EXCEPT ![next] = Fresh(ports)]
    BY DEF l2
  <2> QED BY <1>1, <1>2, <2>1, CreateKeeps
<1>5. l2[next] = Fresh(ports) /\ \A c \in C \ {next} : l2[c] = Polled.rec[c]
  <2>1. Polled.rec \in [C -> Records]
    BY <1>1 DEF On, Typed
  <2> QED BY <1>2, <2>1
<1>6. \A t \in Threads : job[t].at # "idle" => job[t].c # next
  BY <1>2 DEF Safe, Alive, On, JobList
<1> HIDE DEF l2
<1>7. n.rec = l2 /\ n.chain = Polled.chain /\ n.link = Polled.link
  BY <1>3
<1> QED BY <1>2, <1>3, <1>4, <1>5, <1>6, <1>7

(* create *)
LEMMA CreateStep ==
    ASSUME Safe, NEW ports \in Ports, container_create(ports) PROVE Safe'
<1> DEFINE n == Created(Polled, ports)
<1>1. Become(n) /\ saved' = n.rec /\ next' = next + 1 /\ next <= MaxIds /\ proc' = proc
  BY DEF container_create
<1> HIDE DEF n
<1>2. /\ next \in C /\ On(n.rec, n.rec, n.chain, n.link, proc)
      /\ n.rec[next] = Fresh(ports) /\ \A c \in C \ {next} : n.rec[c] = Polled.rec[c]
  BY <1>1, CreatedKeeps DEF n
<1>3. Alive'
  BY <1>1, <1>2, Becomes DEF container_create, Command, Become, history
<1>4. Numbered' /\ next' \in 1 .. (MaxIds + 1)
  <2>1. next' \in 1 .. (MaxIds + 1)
    BY <1>1, <1>2, IdsAssumption DEF C
  <2>2. ASSUME NEW c \in C, c >= next + 1 PROVE rec'[c].st = "NONE"
    <3>1. c # next /\ c >= next
      BY <1>2, <2>2, IdsAssumption DEF C
    <3> QED BY <1>1, <1>2, <3>1, PollKeeps DEF Safe, Numbered, Become
  <2> QED BY <1>1, <2>1, <2>2 DEF Numbered
<1> QED BY <1>3, <1>4 DEF Safe, Steady, container_create, Command

(* pause and unpause *)
LEMMA PauseStep ==
    ASSUME Safe, NEW c \in C, container_pause(c) \/ container_unpause(c) PROVE Safe'
<1>1. PICK s \in Active : /\ Become([Polled EXCEPT !.rec[c].st = s])
                          /\ saved' = [Polled EXCEPT !.rec[c].st = s].rec
  BY DEF container_pause, container_unpause, Active
<1>2. /\ Command("cli") /\ Polled.rec[c].st \in Active
      /\ proc' = proc /\ next' = next /\ leaked' = leaked /\ odd' = odd /\ twice' = twice
  BY DEF container_pause, container_unpause, Active, history
<1>3. /\ On(Polled.rec, Polled.rec, Polled.chain, Polled.link, proc)
      /\ Polled = [rec |-> Polled.rec, chain |-> Polled.chain, link |-> Polled.link]
  BY PollKeeps DEF Safe
<1> DEFINE l2 == [Polled.rec EXCEPT ![c].st = s]
<1>4. [Polled EXCEPT !.rec[c].st = s] = [rec |-> l2, chain |-> Polled.chain, link |-> Polled.link]
  BY <1>3
<1> HIDE DEF l2
<1>5. rec' = l2 /\ saved' = l2 /\ chain' = Polled.chain /\ link' = Polled.link
  BY <1>1, <1>4 DEF Become
<1>6. l2 = [Polled.rec EXCEPT ![c].st = s]
  BY DEF l2
<1>7. On(l2, l2, Polled.chain, Polled.link, proc)
  BY <1>2, <1>3, <1>6, PauseKeeps
<1>8. Alive'
  BY <1>2, <1>5, <1>7, Becomes DEF Command
<1>9. Numbered'
  <2>1. rec[c].st # "NONE"
    BY <1>2, PollKeeps DEF Safe, Active
  <2>2. \A d \in C \ {c} : l2[d] = Polled.rec[d]
    BY <1>3 DEF On, Typed, l2
  <2> QED BY <1>2, <1>5, <2>1, <2>2, PollKeeps DEF Safe, Numbered
<1> QED BY <1>2, <1>8, <1>9 DEF Safe, Steady, Command

(* A set of numbers has a least one. *)
LEMMA LeastIn ==
    ASSUME NEW S \in SUBSET Nat, S # {}
    PROVE  Min(S) \in S
<1> DEFINE R == OpToRel(<, Nat)
<1>1. PICK k \in S : \A i \in S : ~(<<i, k>> \in R)
  <2>1. IsWellFoundedOn(R, Nat)
    BY NatLessThanWellFounded
  <2> HIDE DEF R
  <2> QED BY <2>1, WFMin
<1>2. \A i \in S : ~(i < k) /\ i \in Nat /\ k \in Nat
  BY <1>1 DEF OpToRel
<1>3. k \in S /\ \A i \in S : k <= i
  BY <1>2
<1> QED BY <1>3 DEF Min

(* update_next_sequence: the number after those in use. *)
LEMMA NumberIs ==
    ASSUME NEW S \in SUBSET C
    PROVE  NumberAfter(S) \in 1 .. (MaxIds + 1) /\ \A c \in S : c < NumberAfter(S)
<1> DEFINE K == {k \in 1 .. (MaxIds + 1) : \A c \in S : c < k}
<1>1. MaxIds + 1 \in K
  BY IdsAssumption DEF C
<1>2. Min(K) \in K
  BY <1>1, LeastIn, IdsAssumption
<1> QED BY <1>2 DEF NumberAfter

(* delete: the network is released, then the record goes. *)
LEMMA DeleteStep ==
    ASSUME Safe, NEW t \in Threads, NEW c \in C, container_delete(t, c) PROVE Safe'
<1> DEFINE k == cleanup_container_network(Polled, {c})
           n == [k EXCEPT !.rec[c] = Nobody]
           m == MarkStopped(Polled, {c})
           l2 == [d \in C |-> IF d \in {c} THEN Nobody ELSE m.rec[d]]
<1>1. /\ Command(t) /\ ~Busy(c) /\ Polled.rec[c].st \in {"CREATED", "STOPPED"}
      /\ Become(n) /\ saved' = n.rec
      /\ proc' = proc /\ next' = next /\ leaked' = leaked /\ odd' = odd /\ twice' = twice
  BY DEF container_delete, history
<1>2. /\ On(Polled.rec, Polled.rec, Polled.chain, Polled.link, proc) /\ Steady
      /\ Polled = [rec |-> Polled.rec, chain |-> Polled.chain, link |-> Polled.link]
      /\ Polled.rec \in [C -> Records] /\ Polled.chain \in [Dnat -> Nat]
      /\ Polled.link \in [C -> Pids \cup {NoProc, Host}]
  BY PollKeeps DEF Safe, On, Typed, Kernel
<1>3. On(m.rec, m.rec, m.chain, m.link, proc)
  <2> HIDE DEF m
  <2>1. m = MarkStopped(Polled, {c})
    BY DEF m
  <2> QED BY <1>1, <1>2, <2>1, StopKeeps
<1>4. /\ m.rec \in [C -> Records] /\ m.rec[c].st = "STOPPED" /\ m.rec[c].ip = 0
      /\ \A d \in C \ {c} : m.rec[d] = Polled.rec[d]
  <2> HIDE DEF m
  <2>1. m = MarkStopped(Polled, {c})
    BY DEF m
  <2> QED BY SMTT(30), <1>2, <2>1, MarkStoppedIs
<1>5. n = [rec |-> l2, chain |-> m.chain, link |-> m.link]
  <2> DEFINE R == [d \in C |-> IF d \in {c} THEN [Polled.rec[d] EXCEPT !.ip = 0] ELSE Polled.rec[d]]
             M == [d \in C |-> IF d \in {c} THEN Stopped(k.rec[d]) ELSE k.rec[d]]
  <2>1. k = [rec |-> R, chain |-> k.chain, link |-> k.link]
    BY DEF cleanup_container_network
  <2>2. m = [k EXCEPT !.rec = M]
    BY DEF MarkStopped
  <2> HIDE DEF k, m
  <2>3. m = [rec |-> M, chain |-> k.chain, link |-> k.link]
    <3> HIDE DEF M, R
    <3> QED BY <2>1, <2>2
  <2>4. n = [rec |-> [R EXCEPT ![c] = Nobody], chain |-> k.chain, link |-> k.link]
    <3> HIDE DEF M, R
    <3> QED BY <2>1
  <2>5. \A d \in C \ {c} : R[d] = Polled.rec[d]
    OBVIOUS
  <2>6. R = [d \in C |-> R[d]]
    OBVIOUS
  <2> HIDE DEF R, M
  <2>7. [R EXCEPT ![c] = Nobody] = l2
    <3>1. \A d \in C \ {c} : m.rec[d] = R[d]
      BY <1>4, <2>5
    <3>2. [R EXCEPT ![c] = Nobody] = [d \in C |-> IF d = c THEN Nobody ELSE R[d]]
      BY <2>6
    <3> QED BY <3>1, <3>2
  <2>8. m.chain = k.chain /\ m.link = k.link
    BY <2>3
  <2> HIDE DEF n, l2
  <2> QED BY <2>4, <2>7, <2>8
<1>6. \A r \in Dnat : Entries(m.rec, {c}, r) = {}
  BY <1>4, PoolAssumption DEF Entries, Dnat
<1> HIDE DEF k, m, n
<1>7. rec' = l2 /\ saved' = l2 /\ chain' = m.chain /\ link' = m.link
  BY <1>1, <1>5 DEF Become
<1>8. \A d \in {c} : m.rec[d].st \notin Active /\ ~Busy(d)
  BY <1>1, <1>4 DEF Active
<1>9. Alive'
  <2>1. {c} \in SUBSET C /\ leaked \subseteq leaked'
    BY <1>1
  <2> QED BY SMTT(30), <1>1, <1>2, <1>3, <1>6, <1>7, <1>8, <2>1, WipeKeeps DEF Command
<1>10. Numbered'
  <2>1. rec'[c].st = "NONE" /\ \A d \in C \ {c} : rec'[d] = Polled.rec[d]
    BY <1>4, <1>7 DEF Nobody
  <2> QED BY <1>1, <2>1, PollKeeps DEF Safe, Numbered
<1> QED BY <1>1, <1>9, <1>10 DEF Safe, Steady, Command

(* prune: what the rules of the removed containers leave is leaked. *)
LEMMA PruneStep == ASSUME Safe, container_prune_all PROVE Safe'
<1> DEFINE n == Polled
           gone == {c \in C : n.rec[c].st \notin Active}
           l2 == [c \in C |-> IF c \in gone THEN Nobody ELSE n.rec[c]]
<1>1. /\ Command("cli") /\ \A c \in gone : ~Busy(c)
      /\ Become([n EXCEPT !.rec = l2]) /\ saved' = l2 /\ next' = NumberAfter(C \ gone)
      /\ leaked' = leaked \cup UNION {{r \in Rules(n.rec[c]) : Has(n.chain, r)} : c \in gone}
      /\ proc' = proc /\ odd' = odd /\ twice' = twice
  BY DEF container_prune_all
<1>2. /\ On(n.rec, n.rec, n.chain, n.link, proc) /\ Steady
      /\ n = [rec |-> n.rec, chain |-> n.chain, link |-> n.link]
  BY PollKeeps DEF Safe
<1> HIDE DEF n
<1>3. [n EXCEPT !.rec = l2] = [rec |-> l2, chain |-> n.chain, link |-> n.link]
  BY <1>2
<1>4. rec' = l2 /\ chain' = n.chain /\ link' = n.link
  BY <1>1, <1>3 DEF Become
<1>5. ASSUME NEW r \in Dnat \ leaked', n.chain[r] # 0 PROVE Entries(n.rec, gone, r) = {}
  <2> SUFFICES ASSUME NEW e \in Entries(n.rec, gone, r) PROVE FALSE
    OBVIOUS
  <2>1. /\ e[1] \in gone /\ e[2] \in DOMAIN n.rec[e[1]].ports
        /\ n.rec[e[1]].ports[e[2]] = r.port /\ n.rec[e[1]].ip = r.ip
    BY DEF Entries
  <2>2. r = [port |-> r.port, ip |-> r.ip]
    BY DEF Dnat
  <2>3. r \in Rules(n.rec[e[1]])
    BY <2>1, <2>2 DEF Rules
  <2>4. Has(n.chain, r)
    BY <1>2, <1>5 DEF Has, On, Typed, Kernel
  <2> QED BY <1>1, <2>1, <2>3, <2>4
<1>6. Alive'
  <2>1. /\ gone \in SUBSET C /\ leaked \subseteq leaked'
        /\ \A c \in gone : n.rec[c].st \notin Active /\ ~Busy(c)
        /\ \A r \in Dnat \ leaked' : n.chain[r] = 0 \/ Entries(n.rec, gone, r) = {}
    BY <1>1, <1>5
  <2> HIDE DEF gone
  <2> QED BY <1>1, <1>2, <1>4, <2>1, WipeKeeps DEF Command
<1>7. Numbered' /\ next' \in 1 .. (MaxIds + 1)
  <2>1. C \ gone \in SUBSET C
    OBVIOUS
  <2>2. next' \in 1 .. (MaxIds + 1) /\ \A c \in C \ gone : c < next'
    BY <1>1, <2>1, NumberIs
  <2>3. ASSUME NEW c \in C, c >= next' PROVE rec'[c].st = "NONE"
    <3>1. c \in gone
      BY <2>2, <2>3, IdsAssumption DEF C
    <3> QED BY <1>4, <3>1 DEF Nobody
  <2> QED BY <2>2, <2>3 DEF Numbered
<1> QED BY <1>1, <1>6, <1>7 DEF Safe, Steady, Command

-----------------------------------------------------------------------------
(* The start of a container *)

(* A start begins: a child is cloned, the address of the last run forgotten. *)
LEMMA BeginKeeps ==
    ASSUME NEW l, NEW f, NEW ch, NEW lk, On(l, f, ch, lk, proc), Steady,
           NEW n, n = [rec |-> l, chain |-> ch, link |-> lk],
           NEW t \in Threads, job[t].at = "idle", NEW c \in C, ~Busy(c),
           l[c].st \in {"CREATED", "STOPPED", "PAUSED"}, Begin(t, c, n), saved' = f
    PROVE  Alive' /\ Steady' /\ \A d \in C : rec'[d].st = l[d].st
<1> DEFINE q == procs + 1
           r0 == [l[c] EXCEPT !.ip = 0]
           j0 == [at |-> "setup", c |-> c, pid |-> q, ip |-> 0, i |-> 1]
<1>1. /\ procs < MaxProcs /\ procs' = q /\ Become([n EXCEPT !.rec[c].ip = 0])
      /\ proc' = [proc EXCEPT ![q].st = "start"] /\ job' = [job EXCEPT ![t] = j0]
      /\ leaked' = leaked \cup {r \in Rules(l[c]) : Has(ch, r)}
      /\ odd' = (IF l[c].st = "PAUSED" THEN odd \cup {c} ELSE odd)
      /\ pool' = pool /\ twice' = twice
  BY DEF Begin
<1>2. /\ l \in [C -> Records] /\ f \in [C -> Records] /\ Kernel(ch, lk, proc)
      /\ l[c] \in Records
  BY DEF On, Typed
<1>3. /\ r0 \in Records /\ r0.ip = 0 /\ r0.st = l[c].st /\ r0.pid = l[c].pid /\ r0.ports = l[c].ports
  <2>1. 0 \in {0} \cup Hosts
    BY PoolAssumption
  <2> QED BY <1>2, <2>1, Readdressed
<1>4. [n EXCEPT !.rec[c].ip = 0] = [rec |-> [l EXCEPT ![c] = r0], chain |-> ch, link |-> lk]
  OBVIOUS
<1> HIDE DEF r0
<1>5. rec' = [l EXCEPT ![c] = r0] /\ chain' = ch /\ link' = lk
  BY <1>1, <1>4 DEF Become
<1>6. rec' \in [C -> Records] /\ rec'[c] = r0 /\ \A d \in C \ {c} : rec'[d] = l[d]
  BY <1>2, <1>3, <1>5
<1>7. /\ procs \in Nat /\ q \in Nat /\ q \in Pids /\ q # NoProc /\ q > procs
      /\ procs' \in 0 .. MaxProcs /\ \A p \in 1 .. procs : p # q
  BY <1>1, IdsAssumption DEF Steady, Pids, NoProc
<1>8. /\ j0.at = "setup" /\ j0.c = c /\ j0.pid = q /\ j0.ip = 0 /\ j0.i = 1 /\ j0 \in Jobs
  <2>1. 0 \in {0} \cup Hosts /\ c \in Nat /\ 1 \in Nat
    BY PoolAssumption, IdsAssumption DEF C
  <2> HIDE DEF q
  <2> QED BY <1>7, <2>1 DEF Jobs
<1> HIDE DEF j0
<1>9. job' \in [Threads -> Jobs] /\ job'[t] = j0 /\ \A u \in Threads \ {t} : job'[u] = job[u]
  BY <1>1, <1>8 DEF Steady
<1>10. Steady'
  BY <1>1, <1>7, <1>9 DEF Steady
<1>11. proc[q].st = "none" /\ proc[q].ip = 0
  BY <1>7 DEF On, ProcInv, Lives
<1>12. /\ Kernel(ch, lk, proc') /\ proc'[q].st = "start" /\ proc'[q].ip = 0
       /\ \A p \in Pids : p # q => proc'[p] = proc[p]
  <2>1. proc \in [Pids -> [st : {"none", "start", "run", "dead"}, ip : {0} \cup Hosts]]
    BY <1>2 DEF Kernel
  <2> HIDE DEF q
  <2> QED BY <1>1, <1>2, <1>7, <1>11, <2>1 DEF Kernel
<1>13. \A d \in C : /\ l[d].pid \in Pids \cup {NoProc} /\ f[d].pid \in Pids \cup {NoProc}
                    /\ l[d].pid # q /\ f[d].pid # q
  <2> TAKE d \in C
  <2>1. l[d].pid \in Pids \cup {NoProc} /\ f[d].pid \in Pids \cup {NoProc}
    BY <1>2, RecordFields
  <2>2. l[d].pid <= procs /\ f[d].pid <= procs
    BY DEF On, Sound, Sane
  <2> QED BY <1>7, <2>1, <2>2 DEF Pids, NoProc
<1>14. odd \subseteq odd' /\ odd' \subseteq odd \cup {c} /\ (c \notin odd' => l[c].st \notin Active)
  BY <1>1 DEF Active
<1>15. \A u \in Threads : job[u].at # "idle" => u # t /\ job[u].c # c
  BY DEF Busy
<1> HIDE DEF q
<1>16. Typed(rec, saved, chain, link, proc)'
  BY <1>2, <1>5, <1>6, <1>12 DEF Typed
<1>17. Sound(rec)'
  <2>1. Blank(rec)' /\ Apart(rec)'
    BY <1>1, <1>3, <1>6 DEF On, Sound, Blank, Apart
  <2>2. Given(rec)'
    BY <1>3, <1>6, <1>14 DEF On, Sound, Given
  <2>3. Sane(rec)'
    <3>1. \A d \in C : rec'[d].pid = l[d].pid /\ rec'[d].st = l[d].st
      BY <1>3, <1>6
    <3>2. \A d \in C : rec'[d].pid <= procs'
      <4> TAKE d \in C
      <4>1. l[d].pid <= procs /\ l[d].pid \in Int
        BY <1>13 DEF On, Sound, Sane, Pids, NoProc
      <4> QED BY <1>1, <1>7, <3>1, <4>1
    <3> QED BY <3>1, <3>2 DEF On, Sound, Sane
  <2> QED BY <2>1, <2>2, <2>3 DEF Sound
<1>18. Sound(saved)'
  <2>1. Blank(saved)' /\ Apart(saved)' /\ Given(saved)'
    BY <1>1, <1>14 DEF On, Sound, Blank, Apart, Given
  <2>2. Sane(saved)'
    <3>1. \A d \in C : f[d].pid <= procs'
      <4> TAKE d \in C
      <4>1. f[d].pid <= procs /\ f[d].pid \in Int
        BY <1>13 DEF On, Sound, Sane, Pids, NoProc
      <4> QED BY <1>1, <1>7, <4>1
    <3> QED BY <3>1 DEF On, Sound, Sane
  <2> QED BY <2>1, <2>2 DEF Sound
<1>19. ProcInv(proc)'
  <2> SUFFICES ASSUME NEW p \in Pids
               PROVE  (p > q => proc'[p].st = "none") /\ (proc'[p].ip # 0 => Lives(proc', p))
    BY <1>1 DEF ProcInv, Lives
  <2>1. CASE p = q
    BY <1>7, <1>12, <2>1
  <2>2. CASE p # q
    <3>1. p > q => p > procs
      BY <1>7 DEF Pids
    <3> QED BY <1>12, <2>2, <3>1 DEF On, ProcInv, Lives
  <2> QED BY <2>1, <2>2
<1>20. JobInv'
  <2> SUFFICES ASSUME NEW v \in Threads, job'[v].at # "idle" PROVE
        /\ job'[v].c \in C /\ job'[v].pid \in 1 .. procs'
        /\ \A u \in Threads \ {v} : job'[u].at # "idle" => job'[v].c # job'[u].c /\ job'[v].pid # job'[u].pid
        /\ job'[v].i >= 1 /\ (job'[v].at # "forward" => job'[v].i = 1)
        /\ job'[v].at \in Drawing => job'[v].ip >= 2
    BY DEF JobInv
  <2>1. CASE v = t
    <3>1. \A u \in Threads \ {t} : job[u].at # "idle" => job[u].c # c /\ job[u].pid # q
      BY <1>7, <1>15 DEF On, JobInv
    <3> QED BY <1>1, <1>7, <1>8, <1>9, <2>1, <3>1 DEF Drawing
  <2>2. CASE v # t
    <3>1. job'[v] = job[v] /\ job[v].at # "idle"
      BY <1>9, <2>2
    <3>2. job[v].c # c /\ job[v].pid # q /\ job[v].pid \in 1 .. procs /\ job[v].c \in C
      BY <1>7, <1>15, <3>1 DEF On, JobInv
    <3>3. job[v].pid \in 1 .. procs'
      BY <1>1, <1>7, <3>2
    <3>4. \A u \in Threads \ {v} : job'[u].at # "idle" => job[v].c # job'[u].c /\ job[v].pid # job'[u].pid
      BY <1>8, <1>9, <3>1, <3>2 DEF On, JobInv
    <3> QED BY <3>1, <3>2, <3>3, <3>4 DEF On, JobInv
  <2> QED BY <2>1, <2>2
<1>21. JobList(rec)'
  <2>1. \A v \in Threads \ {t} : job[v].at # "idle" => job[v].c # c /\ job[v].c \in C
    BY <1>15 DEF On, JobInv
  <2> QED BY <1>3, <1>6, <1>8, <1>9, <1>14, <2>1 DEF On, JobList, Before
<1>22. Unnamed(rec)' /\ Unnamed(saved)'
  BY <1>3, <1>6, <1>8, <1>9, <1>13 DEF On, Unnamed
<1>23. JobFile(rec, saved)'
  BY <1>6, <1>8, <1>9, <1>15 DEF On, JobFile, JobInv, Kept
<1>24. PoolInv(rec)'
  <2>1. \A d \in C : rec'[d].ip = 0 \/ rec'[d].ip = l[d].ip
    BY <1>3, <1>6
  <2>2. \A v \in Threads : job'[v].at \in Drawing \/ job'[v].at = "store" \/ job'[v].at = "veth"
            => v # t /\ job'[v] = job[v]
    BY <1>8, <1>9 DEF Drawing
  <2>3. \A v \in Threads : job[v].at \in Drawing => job[v].ip # 0
    BY JobFields DEF On, JobInv, Drawing, Steady
  <2> QED BY <1>1, <2>1, <2>2, <2>3 DEF On, PoolInv
<1>25. \A d \in C : Survives(f[d], proc') => Survives(f[d], proc)
  <2>1. \A d \in C : f[d].st = "RUNNING" => f[d].pid \in Pids
    BY <1>13 DEF On, Sound, Sane, Active
  <2> QED BY <1>12, <1>13, <2>1 DEF Survives
<1>26. FileInv(rec, saved, proc)'
  <2> SUFFICES ASSUME NEW d \in C \ odd'
               PROVE  /\ Survives(f[d], proc') => rec'[d] = f[d]
                      /\ rec'[d].st \in Active /\ Settled(d)' => f[d] = rec'[d]
    BY DEF FileInv, Survives
  <2>1. /\ Survives(f[d], proc) => l[d] = f[d]
        /\ l[d].st \in Active /\ Settled(d) => f[d] = l[d]
    BY <1>14 DEF On, FileInv
  <2>2. CASE d = c
    <3>1. rec'[d].st \notin Active /\ l[d].st \notin Active
      BY <1>3, <1>6, <1>14, <2>2
    <3> QED BY <1>25, <2>1, <3>1 DEF Survives, Active
  <2>3. CASE d # c
    <3>1. Settled(d)' => Settled(d)
      BY <1>9, <1>15 DEF Settled, In
    <3> QED BY <1>6, <1>25, <2>1, <2>3, <3>1
  <2> QED BY <2>2, <2>3
<1>27. HeldInv(rec, proc)'
  <2> SUFFICES ASSUME NEW d \in C \ odd', rec'[d].st \in Active
               PROVE  proc'[rec'[d].pid].ip \in {0, rec'[d].ip}
    BY DEF HeldInv
  <2>1. d # c /\ d \notin odd /\ rec'[d] = l[d]
    BY <1>3, <1>6, <1>14
  <2>2. l[d].pid \in Pids /\ l[d].pid # q
    BY <1>13, <2>1 DEF On, Sound, Sane
  <2> QED BY <1>12, <2>1, <2>2 DEF On, HeldInv
<1>28. LinksLive(link, proc)'
  BY <1>5, <1>11, <1>12 DEF On, LinksLive, Lives
<1>29. LinkInv(rec, link)'
  <2> SUFFICES ASSUME NEW d \in C \ odd', lk[d] # NoProc PROVE
        \/ \E v \in Threads : job'[v].at = "hand" /\ job'[v].c = d /\ lk[d] = job'[v].pid /\ rec'[d].ip # 0
        \/ Holds(rec'[d], lk[d]) /\ \A v \in Threads : In(v, d)' => job'[v].at \notin Before
    BY <1>5 DEF LinkInv, Holds
  <2>1. \/ \E v \in Threads : job[v].at = "hand" /\ job[v].c = d /\ lk[d] = job[v].pid /\ l[d].ip # 0
        \/ Holds(l[d], lk[d]) /\ \A v \in Threads : In(v, d) => job[v].at \notin Before
    BY <1>14 DEF On, LinkInv
  <2>2. d # c
    BY <1>14, <1>15, <2>1 DEF Holds
  <2>3. CASE \E v \in Threads : job[v].at = "hand" /\ job[v].c = d /\ lk[d] = job[v].pid /\ l[d].ip # 0
    BY <1>6, <1>9, <1>15, <2>2, <2>3
  <2>4. CASE Holds(l[d], lk[d]) /\ \A v \in Threads : In(v, d) => job[v].at \notin Before
    BY <1>6, <1>8, <1>9, <2>2, <2>4 DEF In
  <2> QED BY <2>1, <2>3, <2>4
<1>30. CountInv(rec, saved, chain)'
  <2> SUFFICES ASSUME NEW r \in Dnat \ leaked' PROVE ch[r] <= Cardinality(Owed(rec, saved, r)')
    BY <1>5 DEF CountInv
  <2>1. ch[r] \in Nat /\ ch[r] <= Cardinality(Owed(l, f, r))
    BY <1>1 DEF On, CountInv, Typed, Kernel
  <2>2. IsFiniteSet(Owed(rec, saved, r)')
    <3>1. Owed(rec, saved, r)' \in SUBSET Entries(rec', C, r)
      BY DEF Owed, Entries
    <3> QED BY <3>1, EntriesFinite, FS_Subset
  <2>3. CASE ch[r] = 0
    BY <2>2, <2>3, FS_CardinalityType
  <2>4. CASE ch[r] # 0
    <3>1. Owed(l, f, r) \subseteq Owed(rec, saved, r)'
      <4> SUFFICES ASSUME NEW e \in Owed(l, f, r) PROVE e \in Owed(rec, saved, r)'
        OBVIOUS
      <4>1. /\ e \in Entries(l, C, r) /\ Laid(e[1], e[2])
            /\ Busy(e[1]) \/ Kept(l, f, e[1])
        BY DEF Owed
      <4>2. e[1] # c
        <5> SUFFICES ASSUME e[1] = c PROVE FALSE
          OBVIOUS
        <5>1. r = [port |-> l[c].ports[e[2]], ip |-> l[c].ip] /\ e[2] \in DOMAIN l[c].ports
          BY <4>1 DEF Entries, Dnat
        <5>2. r \in Rules(l[c]) /\ Has(ch, r)
          BY <2>1, <2>4, <5>1 DEF Rules, Has
        <5> QED BY <1>1, <5>2
      <4>3. e \in Entries(rec', C, r)
        BY <1>6, <4>1, <4>2 DEF Entries
      <4>4. Laid(e[1], e[2])'
        BY <1>8, <1>9, <4>1, <4>2 DEF Laid, In
      <4>5. Busy(e[1])' \/ Kept(rec, saved, e[1])'
        <5>1. Busy(e[1]) => Busy(e[1])'
          BY <1>9, <1>15 DEF Busy
        <5>2. Kept(l, f, e[1]) => Kept(rec, saved, e[1])'
          <6>1. e[1] \in C
            BY <4>1 DEF Entries
          <6> QED BY <1>6, <4>2, <6>1 DEF Kept
        <5> QED BY <4>1, <5>1, <5>2
      <4> QED BY <4>3, <4>4, <4>5 DEF Owed, Entries
    <3> QED BY <2>1, <2>2, <3>1, OwedGrows
  <2> QED BY <2>3, <2>4
<1>31. RuleInv(rec, chain)'
  <2> SUFFICES ASSUME NEW d \in C \ odd', rec'[d].st \in Active, rec'[d].ip \notin twice \cup {0},
                      NEW i \in DOMAIN rec'[d].ports, Laid(d, i)'
               PROVE  Ready(rec', ch, d, i)
    BY <1>1, <1>5 DEF RuleInv, Ready, Has
  <2>1. d # c /\ d \notin odd /\ rec'[d] = l[d]
    BY <1>3, <1>6, <1>14
  <2>2. Laid(d, i)
    BY <1>9, <1>15, <2>1 DEF Laid, In
  <2>3. Ready(l, ch, d, i)
    BY <2>1, <2>2 DEF On, RuleInv
  <2> QED BY <2>1, <2>3 DEF Ready
<1>32. Alive'
  BY <1>16, <1>17, <1>18, <1>19, <1>20, <1>21, <1>22, <1>23, <1>24, <1>26, <1>27, <1>28, <1>29,
     <1>30, <1>31 DEF Alive, On
<1> QED BY <1>3, <1>6, <1>10, <1>32

(* start: the fields are reset and the child is cloned. *)
LEMMA StartBegins == ASSUME Safe, NEW c \in C, Start(c) PROVE Safe'
<1> DEFINE f == IF Polled.rec # rec THEN Polled.rec ELSE saved
<1>1. /\ job["cli"].at = "idle" /\ ~Busy(c) /\ Polled.rec[c].st \in {"CREATED", "STOPPED", "PAUSED"}
      /\ Begin("cli", c, Polled) /\ saved' = f /\ next' = next
      /\ running' = running /\ bridge' = bridge
  BY DEF Start, SaveIfChanged, Begin
<1>2. /\ On(Polled.rec, f, Polled.chain, Polled.link, proc) /\ Steady
      /\ Polled = [rec |-> Polled.rec, chain |-> Polled.chain, link |-> Polled.link]
      /\ \A d \in C : rec[d].st = "NONE" => Polled.rec[d].st = "NONE"
  BY PollKeeps DEF Safe
<1> HIDE DEF f
<1>3. Alive' /\ Steady' /\ \A d \in C : rec'[d].st = Polled.rec[d].st
  <2>1. "cli" \in Threads
    BY DEF Threads
  <2> QED BY <1>1, <1>2, <2>1, BeginKeeps
<1>4. Numbered'
  BY <1>1, <1>2, <1>3 DEF Safe, Numbered
<1> QED BY <1>1, <1>3, <1>4 DEF Safe

(* run, and the starts of the orchestrator. *)
LEMMA RunStep == ASSUME Safe, NEW t \in Threads, NEW ports \in Ports, Run(t, ports) PROVE Safe'
<1> DEFINE n == Created(Polled, ports)
<1>1. /\ job[t].at = "idle" /\ next <= MaxIds /\ Begin(t, next, n) /\ saved' = n.rec
      /\ next' = next + 1 /\ running' = running /\ bridge' = bridge
  BY DEF Run, Begin
<1> HIDE DEF n
<1>2. /\ next \in C /\ On(n.rec, n.rec, n.chain, n.link, proc)
      /\ n = [rec |-> n.rec, chain |-> n.chain, link |-> n.link]
      /\ n.rec[next] = Fresh(ports) /\ \A c \in C \ {next} : n.rec[c] = Polled.rec[c]
      /\ \A u \in Threads : job[u].at # "idle" => job[u].c # next
  BY <1>1, CreatedKeeps DEF n
<1>3. ~Busy(next) /\ n.rec[next].st \in {"CREATED", "STOPPED", "PAUSED"} /\ Steady
  BY <1>2 DEF Busy, Fresh, Safe
<1>4. Alive' /\ Steady' /\ \A d \in C : rec'[d].st = n.rec[d].st
  BY <1>1, <1>2, <1>3, BeginKeeps
<1>5. next' \in 1 .. (MaxIds + 1)
  BY <1>1, <1>2, IdsAssumption DEF C
<1>6. Numbered'
  <2> SUFFICES ASSUME NEW c \in C, c >= next + 1 PROVE rec'[c].st = "NONE"
    BY <1>1 DEF Numbered
  <2>1. c # next /\ c >= next
    BY <1>2, IdsAssumption DEF C
  <2> QED BY <1>2, <1>4, <2>1, PollKeeps DEF Safe, Numbered
<1> QED BY <1>1, <1>4, <1>5, <1>6 DEF Safe

(* A start goes on before its handshake: what is not about the addresses    *)
(* that are drawn is as it was.                                             *)
LEMMA EarlyMoves ==
    ASSUME Safe, NEW t \in Threads, job[t].at \in Before \ {"hand"}, NEW j \in Jobs,
           j.at \in Before, j.c = job[t].c, j.pid = job[t].pid, j.i = 1, j.at \in Drawing => j.ip >= 2,
           j.at = "hand" /\ j.c \notin odd => j.ip = 0 /\ rec[j.c].ports = <<>>,
           job' = [job EXCEPT ![t] = j],
           running' = running, bridge' = bridge, next' = next,
           rec' = rec, saved' = saved, chain' = chain, link' = link, proc' = proc, procs' = procs,
           leaked' = leaked, odd' = odd, twice \subseteq twice',
           pool' \in 2 .. (LastHost + 2), PoolInv(rec)'
    PROVE  Safe'
<1>1. On(rec, saved, chain, link, proc) /\ Steady
  BY DEF Safe, Alive
<1>2. /\ job' \in [Threads -> Jobs] /\ job'[t] = j /\ \A u \in Threads \ {t} : job'[u] = job[u]
      /\ job[t].at # "idle" /\ j.at # "idle"
  BY <1>1 DEF Steady, Before
<1>3. \A u \in Threads : /\ job'[u].c = job[u].c /\ job'[u].pid = job[u].pid
                         /\ (job'[u].at # "idle") <=> (job[u].at # "idle")
                         /\ (job'[u].at \in Before) <=> (job[u].at \in Before)
                         /\ (job'[u].at = "trigger") <=> (job[u].at = "trigger")
                         /\ (job'[u].at \in {"save", "trigger"}) <=> (job[u].at \in {"save", "trigger"})
                         /\ (job'[u].at = "forward") <=> (job[u].at = "forward")
  BY <1>2 DEF Before
<1>4. \A u \in Threads : job'[u].at = "forward" => job'[u] = job[u]
  BY <1>2 DEF Before
<1>5. /\ \A u \in Threads, c \in C : In(u, c)' <=> In(u, c)
      /\ \A c \in C : Busy(c)' <=> Busy(c)
      /\ \A c \in C : Settled(c)' <=> Settled(c)
  BY <1>3 DEF In, Busy, Settled
<1>6. ASSUME NEW c \in C, NEW i PROVE Laid(c, i)' <=> Laid(c, i)
  BY <1>3, <1>4 DEF Laid, In
<1>7. Typed(rec, saved, chain, link, proc)' /\ ProcInv(proc)'
  BY <1>1 DEF On, Typed, Kernel, ProcInv, Lives
<1>8. Sound(rec)' /\ Sound(saved)'
  BY <1>1 DEF On, Sound, Blank, Sane, Apart, Given
<1>9. JobInv'
  <2> SUFFICES ASSUME NEW v \in Threads, job'[v].at # "idle" PROVE
        /\ job'[v].c \in C /\ job'[v].pid \in 1 .. procs
        /\ \A u \in Threads \ {v} : job'[u].at # "idle" => job'[v].c # job'[u].c /\ job'[v].pid # job'[u].pid
        /\ job'[v].i >= 1 /\ (job'[v].at # "forward" => job'[v].i = 1)
        /\ job'[v].at \in Drawing => job'[v].ip >= 2
    BY DEF JobInv
  <2>1. /\ job[v].c \in C /\ job[v].pid \in 1 .. procs
        /\ \A u \in Threads \ {v} : job[u].at # "idle" => job[v].c # job[u].c /\ job[v].pid # job[u].pid
        /\ job[v].i >= 1 /\ (job[v].at # "forward" => job[v].i = 1)
        /\ job[v].at \in Drawing => job[v].ip >= 2
    BY <1>1, <1>3 DEF On, JobInv
  <2>2. /\ job'[v].c \in C /\ job'[v].pid \in 1 .. procs
        /\ \A u \in Threads \ {v} : job'[u].at # "idle" => job'[v].c # job'[u].c /\ job'[v].pid # job'[u].pid
    BY <1>3, <2>1
  <2>3. /\ job'[v].i >= 1 /\ (job'[v].at # "forward" => job'[v].i = 1)
        /\ job'[v].at \in Drawing => job'[v].ip >= 2
    BY <1>2, <2>1 DEF Before
  <2> QED BY <2>2, <2>3
<1>10. JobList(rec)'
  <2> SUFFICES ASSUME NEW v \in Threads, job'[v].at # "idle" PROVE
        LET r == rec[job'[v].c] IN
        /\ r.st # "NONE"
        /\ job'[v].at \in {"setup", "draw", "store", "veth"} => r.ip = 0
        /\ job'[v].at \in Before /\ job'[v].c \notin odd => r.st \notin Active
        /\ job'[v].at = "hand" /\ job'[v].c \notin odd =>
              r.ip = job'[v].ip /\ (r.ports # <<>> => r.ip # 0)
        /\ job'[v].at \notin Before /\ r.st \notin Active => r.ip = 0
    BY DEF JobList
  <2>1. CASE v # t
    BY <1>1, <1>2, <2>1 DEF On, JobList
  <2>2. CASE v = t
    <3>1. rec[j.c].st # "NONE" /\ rec[j.c].ip = 0 /\ (j.c \notin odd => rec[j.c].st \notin Active)
      BY <1>1, <1>2 DEF On, JobList, Before
    <3> QED BY <1>2, <2>2, <3>1
  <2> QED BY <2>1, <2>2
<1>11. Unnamed(rec)' /\ Unnamed(saved)' /\ JobFile(rec, saved)'
  BY <1>1, <1>3 DEF On, Unnamed, JobFile, Kept
<1>12. FileInv(rec, saved, proc)' /\ HeldInv(rec, proc)'
  BY <1>1, <1>5 DEF On, FileInv, HeldInv, Survives
<1>13. LinksLive(link, proc)'
  BY <1>1 DEF On, LinksLive, Lives
<1>14. LinkInv(rec, link)'
  <2> SUFFICES ASSUME NEW c \in C \ odd, link[c] # NoProc PROVE
        \/ \E v \in Threads : job'[v].at = "hand" /\ job'[v].c = c /\ link[c] = job'[v].pid /\ rec[c].ip # 0
        \/ Holds(rec[c], link[c]) /\ \A v \in Threads : In(v, c)' => job'[v].at \notin Before
    BY DEF LinkInv, Holds
  <2>1. \/ \E v \in Threads : job[v].at = "hand" /\ job[v].c = c /\ link[c] = job[v].pid /\ rec[c].ip # 0
        \/ Holds(rec[c], link[c]) /\ \A v \in Threads : In(v, c) => job[v].at \notin Before
    BY <1>1 DEF On, LinkInv
  <2>2. \A v \in Threads : job[v].at = "hand" => job'[v] = job[v]
    BY <1>2
  <2> QED BY <1>3, <1>5, <2>1, <2>2
<1>15. CountInv(rec, saved, chain)'
  <2>1. \A r : Owed(rec, saved, r)' = Owed(rec, saved, r)
    BY <1>5, <1>6 DEF Owed, Entries, Kept
  <2> QED BY <1>1, <2>1 DEF On, CountInv
<1>16. RuleInv(rec, chain)'
  BY <1>1, <1>6 DEF On, RuleInv, Ready, Has
<1>17. Alive'
  BY <1>7, <1>8, <1>9, <1>10, <1>11, <1>12, <1>13, <1>14, <1>15, <1>16 DEF Alive, On
<1>18. Steady' /\ Numbered'
  BY <1>2 DEF Safe, Steady, Numbered
<1> QED BY <1>17, <1>18 DEF Safe

(* bridge_alloc_ip finds the pool not exhausted. *)
LEMMA AllocCheckStep == ASSUME Safe, NEW t \in Threads, AllocCheck(t) PROVE Safe'
<1> DEFINE j == [job[t] EXCEPT !.at = "draw"]
<1>1. On(rec, saved, chain, link, proc) /\ Steady /\ job[t] \in Jobs /\ job[t].at = "setup"
  BY DEF Safe, Alive, Steady, AllocCheck, At
<1>2. /\ j \in Jobs /\ j.at = "draw" /\ j.c = job[t].c /\ j.pid = job[t].pid /\ j.i = job[t].i
  <2> DEFINE x == job[t]
  <2>1. x \in Jobs
    BY <1>1
  <2> HIDE DEF x
  <2>2. LET y == [x EXCEPT !.at = "draw"] IN
        y \in Jobs /\ y.at = "draw" /\ y.c = x.c /\ y.pid = x.pid /\ y.i = x.i
    BY <2>1 DEF Jobs
  <2> QED BY <2>2 DEF x
<1>3. job' = [job EXCEPT ![t] = j]
  BY DEF AllocCheck, At
<1> HIDE DEF j
<1>4. job'[t] = j /\ \A u \in Threads \ {t} : job'[u] = job[u]
  BY <1>1, <1>3 DEF Steady
<1>5. job[t].i = 1
  BY <1>1 DEF On, JobInv
<1>6. /\ running' = running /\ bridge' = bridge /\ next' = next /\ rec' = rec /\ saved' = saved
      /\ chain' = chain /\ link' = link /\ proc' = proc /\ procs' = procs
      /\ leaked' = leaked /\ odd' = odd /\ twice' = twice /\ pool' = pool
  BY DEF AllocCheck, kernel, history
<1>7. PoolInv(rec)'
  <2>1. \A u \in Threads : job'[u].at = "store" \/ job'[u].at = "veth" => job'[u] = job[u]
    BY <1>2, <1>4
  <2>2. \A u \in Threads : job'[u].at \in Drawing => job'[u] = job[u]
    BY <2>1 DEF Drawing
  <2> QED BY <1>1, <1>6, <2>1, <2>2 DEF On, PoolInv
<1>8. pool' \in 2 .. (LastHost + 2)
  BY <1>1, <1>6 DEF Steady
<1> QED BY <1>1, <1>2, <1>3, <1>5, <1>6, <1>7, <1>8, EarlyMoves DEF Before, Drawing

(* It is at its last address at most when a thread takes one: two threads   *)
(* that have both found it not exhausted take one past the end, and no more.*)
DrawInv ==
    \A t \in Threads :
        /\ job[t].at = "draw" =>
              /\ pool <= LastHost + 1
              /\ \A u \in Threads \ {t} : job[u].at \in {"draw", "store"} => pool <= LastHost
        /\ job[t].at = "store" =>
              \/ job[t].ip <= LastHost
              \/ pool > LastHost /\ \A u \in Threads \ {t} : job[u].at \notin {"draw", "store"}

(* It loads the counter: an address that is not drawn by two is ahead of    *)
(* every address in use.                                                    *)
LEMMA AllocLoadStep == ASSUME Safe, DrawInv, NEW t \in Threads, AllocLoad(t) PROVE Safe'
<1> DEFINE j == [job[t] EXCEPT !.at = "store", !.ip = pool]
<1>1. On(rec, saved, chain, link, proc) /\ Steady /\ job[t] \in Jobs
  BY DEF Safe, Alive, Steady
<1>2. /\ job[t].at = "draw" /\ pool >= 2 /\ pool \in {0} \cup Hosts /\ pool \in Nat
  <2>1. job[t].at = "draw" /\ pool <= LastHost + 1
    BY DEF AllocLoad, DrawInv
  <2> QED BY <1>1, <2>1, PoolAssumption DEF Steady
<1>3. /\ j \in Jobs /\ j.at = "store" /\ j.ip = pool /\ j.c = job[t].c /\ j.pid = job[t].pid
      /\ j.i = job[t].i
  <2> DEFINE x == job[t]
  <2>1. x \in Jobs
    BY <1>1
  <2> HIDE DEF x
  <2>2. LET y == [x EXCEPT !.at = "store", !.ip = pool] IN
        /\ y \in Jobs /\ y.at = "store" /\ y.ip = pool /\ y.c = x.c /\ y.pid = x.pid /\ y.i = x.i
    BY <1>2, <2>1 DEF Jobs
  <2> QED BY <2>2 DEF x
<1>4. job' = [job EXCEPT ![t] = j]
  BY DEF AllocLoad
<1> HIDE DEF j
<1>5. job'[t] = j /\ \A u \in Threads \ {t} : job'[u] = job[u]
  BY <1>1, <1>4 DEF Steady
<1>6. twice \subseteq twice' /\ \A u \in Threads \ {t} : job[u].at = "store" => job[u].ip \in twice' /\ pool \in twice'
  BY DEF AllocLoad
<1>7. pool' = pool /\ rec' = rec
  BY DEF AllocLoad
<1>8. \A u \in Threads : job[u].ip \in Nat
  BY <1>1, JobFields, PoolAssumption DEF Steady
<1>9. \A d \in C : rec[d].ip \in Nat
  BY <1>1, RecordFields, PoolAssumption DEF On, Typed
<1>10. PoolInv(rec)'
  <2>1. ASSUME NEW v \in Threads, job'[v].at \in Drawing, job'[v].ip \notin twice'
        PROVE  /\ \A d \in C : rec[d].ip # job'[v].ip
               /\ \A u \in Threads \ {v} : job'[u].at \in Drawing => job'[u].ip # job'[v].ip
    <3>1. CASE v = t
      <4>1. job'[v].ip = pool /\ pool \notin twice
        BY <1>3, <1>5, <1>6, <2>1, <3>1
      <4>2. \A d \in C : rec[d].ip # pool
        BY <1>1, <1>2, <1>9, <4>1 DEF On, PoolInv
      <4>3. ASSUME NEW u \in Threads \ {t}, job[u].at \in Drawing PROVE job[u].ip # pool
        <5>1. job[u].at = "veth"
          BY <1>6, <2>1, <4>1, <4>3 DEF Drawing
        <5> QED BY <1>1, <1>2, <1>8, <4>1, <5>1 DEF On, PoolInv
      <4> QED BY <1>5, <3>1, <4>1, <4>2, <4>3
    <3>2. CASE v # t
      <4>1. job'[v] = job[v] /\ job[v].ip \notin twice
        BY <1>5, <1>6, <2>1, <3>2
      <4>2. job[v].at = "veth"
        BY <1>6, <2>1, <3>2, <4>1 DEF Drawing
      <4>3. job[v].ip # pool
        BY <1>1, <1>2, <1>8, <4>1, <4>2 DEF On, PoolInv
      <4>4. \A d \in C : rec[d].ip # job[v].ip
        BY <1>1, <4>1, <4>2 DEF On, PoolInv, Drawing
      <4>5. ASSUME NEW u \in Threads \ {v}, job'[u].at \in Drawing PROVE job'[u].ip # job[v].ip
        <5>1. CASE u = t
          BY <1>3, <1>5, <4>3, <5>1
        <5>2. CASE u # t
          BY <1>1, <1>5, <4>1, <4>2, <4>5, <5>2 DEF On, PoolInv, Drawing
        <5> QED BY <5>1, <5>2
      <4> QED BY <4>1, <4>4, <4>5
    <3> QED BY <3>1, <3>2
  <2>2. ASSUME NEW v \in Threads, job'[v].at = "veth", job'[v].ip \notin twice'
        PROVE  /\ pool > job'[v].ip
               /\ \A u \in Threads : job'[u].at = "store" => job'[u].ip > job'[v].ip
    <3>1. v # t /\ job'[v] = job[v] /\ job[v].ip \notin twice
      BY <1>3, <1>5, <1>6, <2>2
    <3>2. pool > job[v].ip /\ \A u \in Threads : job[u].at = "store" => job[u].ip > job[v].ip
      BY <1>1, <2>2, <3>1 DEF On, PoolInv
    <3> QED BY <1>3, <1>5, <3>1, <3>2
  <2>3. ASSUME NEW v \in Threads, NEW u \in Threads, v # u, job'[v].at = "store", job'[u].at = "store"
        PROVE  job'[v].ip \in twice'
    <3>1. CASE v = t
      BY <1>3, <1>5, <1>6, <2>3, <3>1
    <3>2. CASE v # t
      <4>1. job'[v] = job[v] /\ job[v].at = "store"
        BY <1>5, <2>3, <3>2
      <4> QED BY <1>6, <3>2, <4>1
    <3> QED BY <3>1, <3>2
  <2>4. ASSUME NEW d \in C, rec[d].ip \notin twice' \cup {0}
        PROVE  /\ pool > rec[d].ip
               /\ \A u \in Threads : job'[u].at = "store" => job'[u].ip > rec[d].ip
    <3>1. pool > rec[d].ip /\ \A u \in Threads : job[u].at = "store" => job[u].ip > rec[d].ip
      BY <1>1, <1>6, <2>4 DEF On, PoolInv
    <3> QED BY <1>3, <1>5, <3>1
  <2> QED BY <1>7, <2>1, <2>2, <2>3, <2>4 DEF PoolInv
<1>11. job[t].i = 1
  BY <1>1, <1>2 DEF On, JobInv
<1>12. /\ running' = running /\ bridge' = bridge /\ next' = next /\ rec' = rec /\ saved' = saved
       /\ chain' = chain /\ link' = link /\ proc' = proc /\ procs' = procs
       /\ leaked' = leaked /\ odd' = odd /\ pool' = pool
  BY DEF AllocLoad, kernel
<1>13. pool' \in 2 .. (LastHost + 2)
  BY <1>1, <1>7 DEF Steady
<1> QED BY <1>2, <1>3, <1>4, <1>6, <1>10, <1>11, <1>12, <1>13, EarlyMoves DEF Before, Drawing

(* It stores the counter, moved past the address. *)
LEMMA AllocStoreStep == ASSUME Safe, NEW t \in Threads, AllocStore(t) PROVE Safe'
<1> DEFINE j == [job[t] EXCEPT !.at = "veth"]
<1>1. On(rec, saved, chain, link, proc) /\ Steady /\ job[t] \in Jobs /\ job[t].at = "store"
  BY DEF Safe, Alive, Steady, AllocStore, At
<1>2. /\ j \in Jobs /\ j.at = "veth" /\ j.ip = job[t].ip /\ j.c = job[t].c /\ j.pid = job[t].pid
      /\ j.i = job[t].i
  <2> DEFINE x == job[t]
  <2>1. x \in Jobs
    BY <1>1
  <2> HIDE DEF x
  <2>2. LET y == [x EXCEPT !.at = "veth"] IN
        /\ y \in Jobs /\ y.at = "veth" /\ y.ip = x.ip /\ y.c = x.c /\ y.pid = x.pid /\ y.i = x.i
    BY <2>1 DEF Jobs
  <2> QED BY <2>2 DEF x
<1>3. job' = [job EXCEPT ![t] = j] /\ pool' = job[t].ip + 1
  BY DEF AllocStore, At
<1> HIDE DEF j
<1>4. job'[t] = j /\ \A u \in Threads \ {t} : job'[u] = job[u]
  BY <1>1, <1>3 DEF Steady
<1>5. /\ job[t].i = 1 /\ job[t].ip >= 2 /\ job[t].ip \in {0} \cup Hosts
  BY <1>1, JobFields DEF On, JobInv, Drawing, Steady
<1>6. pool' \in 2 .. (LastHost + 2)
  BY <1>3, <1>5, PoolAssumption
<1>7. /\ running' = running /\ bridge' = bridge /\ next' = next /\ rec' = rec /\ saved' = saved
      /\ chain' = chain /\ link' = link /\ proc' = proc /\ procs' = procs
      /\ leaked' = leaked /\ odd' = odd /\ twice' = twice
  BY DEF AllocStore, kernel, history
<1>8. \A u \in Threads : job[u].ip \in Nat
  BY <1>1, JobFields, PoolAssumption DEF Steady
<1>9. \A d \in C : rec[d].ip \in Nat
  BY <1>1, RecordFields, PoolAssumption DEF On, Typed
<1>10. \A u \in Threads : /\ job'[u].ip = job[u].ip
                          /\ (job'[u].at \in Drawing) <=> (job[u].at \in Drawing)
                          /\ job'[u].at = "store" => u # t /\ job[u].at = "store"
  BY <1>1, <1>2, <1>4 DEF Drawing
<1>11. PoolInv(rec)'
  <2>1. ASSUME NEW v \in Threads, job'[v].at \in Drawing, job'[v].ip \notin twice
        PROVE  /\ \A d \in C : rec[d].ip # job'[v].ip
               /\ \A u \in Threads \ {v} : job'[u].at \in Drawing => job'[u].ip # job'[v].ip
    BY <1>1, <1>10, <2>1 DEF On, PoolInv
  <2>2. ASSUME NEW v \in Threads, job'[v].at = "veth", job'[v].ip \notin twice
        PROVE  /\ pool' > job'[v].ip
               /\ \A u \in Threads : job'[u].at = "store" => job'[u].ip > job'[v].ip
    <3>1. CASE v = t
      <4>1. job[t].ip \notin twice
        BY <1>10, <2>2, <3>1
      <4>2. \A u \in Threads \ {t} : job[u].at # "store"
        BY <1>1, <4>1 DEF On, PoolInv
      <4>3. pool' > job[t].ip
        BY <1>3, <1>8
      <4> QED BY <1>10, <3>1, <4>2, <4>3
    <3>2. CASE v # t
      <4>1. job[v].at = "veth" /\ job[v].ip \notin twice
        BY <1>4, <2>2, <3>2
      <4>2. job[t].ip > job[v].ip /\ \A u \in Threads : job[u].at = "store" => job[u].ip > job[v].ip
        BY <1>1, <4>1 DEF On, PoolInv
      <4>3. pool' > job[v].ip
        BY <1>3, <1>8, <4>2
      <4> QED BY <1>10, <4>2, <4>3
    <3> QED BY <3>1, <3>2
  <2>3. ASSUME NEW v \in Threads, NEW u \in Threads, v # u, job'[v].at = "store", job'[u].at = "store"
        PROVE  job'[v].ip \in twice
    BY <1>1, <1>10, <2>3 DEF On, PoolInv
  <2>4. ASSUME NEW d \in C, rec[d].ip \notin twice \cup {0}
        PROVE  /\ pool' > rec[d].ip
               /\ \A u \in Threads : job'[u].at = "store" => job'[u].ip > rec[d].ip
    <3>1. job[t].ip > rec[d].ip /\ \A u \in Threads : job[u].at = "store" => job[u].ip > rec[d].ip
      BY <1>1, <2>4 DEF On, PoolInv
    <3>2. pool' > rec[d].ip
      BY <1>3, <1>8, <1>9, <3>1
    <3> QED BY <1>10, <3>1, <3>2
  <2> QED BY <1>7, <2>1, <2>2, <2>3, <2>4 DEF PoolInv
<1> QED BY <1>1, <1>2, <1>3, <1>5, <1>6, <1>7, <1>11, EarlyMoves DEF Before, Drawing

(* A container that publishes no ports goes on without a network. *)
LEMMA LoopbackStep ==
    ASSUME Safe, NEW t \in Threads, job[t].at \in {"setup", "veth"}, ~Strict(job[t].c), Loopback(t),
           proc' = proc, link' = link, running' = running, bridge' = bridge, chain' = chain,
           pool' = pool, rec' = rec, next' = next, saved' = saved, procs' = procs, history' = history
    PROVE  Safe'
<1> DEFINE j == [job[t] EXCEPT !.at = "hand", !.ip = 0]
<1>1. On(rec, saved, chain, link, proc) /\ Steady /\ job[t] \in Jobs
  BY DEF Safe, Alive, Steady
<1>2. /\ j \in Jobs /\ j.at = "hand" /\ j.ip = 0 /\ j.c = job[t].c /\ j.pid = job[t].pid
      /\ j.i = job[t].i
  <2> DEFINE x == job[t]
  <2>1. x \in Jobs /\ 0 \in {0} \cup Hosts
    BY <1>1, PoolAssumption
  <2> HIDE DEF x
  <2>2. LET y == [x EXCEPT !.at = "hand", !.ip = 0] IN
        /\ y \in Jobs /\ y.at = "hand" /\ y.ip = 0 /\ y.c = x.c /\ y.pid = x.pid /\ y.i = x.i
    BY <2>1 DEF Jobs
  <2> QED BY <2>2 DEF x
<1>3. job' = [job EXCEPT ![t] = j]
  BY DEF Loopback
<1> HIDE DEF j
<1>4. job'[t] = j /\ \A u \in Threads \ {t} : job'[u] = job[u]
  BY <1>1, <1>3 DEF Steady
<1>5. job[t].i = 1 /\ rec[j.c].ports = <<>>
  BY <1>1, <1>2 DEF On, JobInv, Strict
<1>6. leaked' = leaked /\ odd' = odd /\ twice' = twice
  BY DEF history
<1>7. PoolInv(rec)'
  <2>1. \A u \in Threads : job'[u].at \in Drawing \/ job'[u].at = "store" \/ job'[u].at = "veth"
            => job'[u] = job[u]
    BY <1>2, <1>4 DEF Drawing
  <2> QED BY <1>1, <1>6, <2>1 DEF On, PoolInv
<1>8. pool' \in 2 .. (LastHost + 2)
  BY <1>1 DEF Steady
<1> QED BY <1>2, <1>3, <1>5, <1>6, <1>7, <1>8, EarlyMoves DEF Before, Drawing

(* A start ends: before its handshake, after another thread has stopped the *)
(* container, or with the program running.                                  *)
LEMMA EndKeeps ==
    ASSUME NEW l, NEW f, NEW ch, NEW lk, NEW pr, On(l, f, ch, lk, pr), Steady,
           NEW t \in Threads, job[t].at # "idle",
           \/ job[t].at \in Before /\ \A d \in C : lk[d] # job[t].pid
           \/ job[t].at \notin Before /\ l[job[t].c].st \notin Active
           \/ job[t].at = "trigger",
           End(t), rec' = l, saved' = f, chain' = ch, link' = lk, proc' = pr,
           pool' = pool, procs' = procs, leaked' = leaked, odd' = odd, twice' = twice
    PROVE  Alive' /\ Steady'
<1> DEFINE c == job[t].c
<1>1. /\ Idle \in Jobs /\ Idle.at = "idle"
  <2>1. 0 \in {0} \cup Hosts /\ 1 \in Nat
    BY PoolAssumption
  <2> QED BY <2>1 DEF Idle, Jobs
<1>2. job' \in [Threads -> Jobs] /\ job'[t].at = "idle" /\ \A u \in Threads \ {t} : job'[u] = job[u]
  BY <1>1 DEF End, Steady
<1>3. c \in C /\ \A u \in Threads \ {t} : job[u].at # "idle" => job[u].c # c
  BY DEF On, JobInv
<1> HIDE DEF c
<1>4. \A u \in Threads : job'[u].at # "idle" => u # t /\ job'[u] = job[u] /\ job[u].c # c
  BY <1>2, <1>3
<1>5. \A u \in Threads, d \in C : In(u, d)' <=> (d # c /\ In(u, d))
  BY <1>2, <1>3 DEF In, c
<1>6. ASSUME NEW d \in C, d # c
      PROVE  (Settled(d)' <=> Settled(d)) /\ (Busy(d)' <=> Busy(d)) /\ (\A i : Laid(d, i)' <=> Laid(d, i))
  <2>1. \A u \in Threads : In(u, d)' <=> In(u, d)
    BY <1>5, <1>6
  <2>2. \A u \in Threads : In(u, d) => job'[u] = job[u]
    BY <1>2, <1>6 DEF In, c
  <2>3. Busy(d)' <=> Busy(d)
    BY <2>1 DEF Busy, In
  <2> QED BY <2>1, <2>2, <2>3 DEF Settled, Laid
<1>7. Steady'
  BY <1>2 DEF Steady
<1>8. Typed(rec, saved, chain, link, proc)' /\ ProcInv(proc)'
  BY DEF On, Typed, Kernel, ProcInv, Lives
<1>9. Sound(rec)' /\ Sound(saved)'
  BY DEF On, Sound, Blank, Sane, Apart, Given
<1>10. JobInv' /\ JobList(rec)'
  BY <1>4 DEF On, JobInv, JobList
<1>11. Unnamed(rec)' /\ Unnamed(saved)' /\ JobFile(rec, saved)'
  <2>1. \A u \in Threads : job'[u].at \in Before \/ job'[u].at = "trigger" => job'[u] = job[u]
    BY <1>4 DEF Before
  <2> QED BY <2>1 DEF On, Unnamed, JobFile, Kept
<1>12. PoolInv(rec)'
  <2>1. \A u \in Threads : job'[u].at \in Drawing \/ job'[u].at = "store" \/ job'[u].at = "veth"
            => job'[u] = job[u]
    BY <1>4 DEF Drawing
  <2> QED BY <2>1 DEF On, PoolInv
<1>13. c \notin odd /\ l[c].st \in Active => job[t].at = "trigger"
  BY DEF On, JobList, c
<1>14. FileInv(rec, saved, proc)'
  <2> SUFFICES ASSUME NEW d \in C \ odd
               PROVE  /\ Survives(f[d], pr) => l[d] = f[d]
                      /\ l[d].st \in Active /\ Settled(d)' => f[d] = l[d]
    BY DEF FileInv, Survives
  <2>1. /\ Survives(f[d], pr) => l[d] = f[d]
        /\ l[d].st \in Active /\ Settled(d) => f[d] = l[d]
    BY DEF On, FileInv
  <2>2. CASE d # c
    BY <1>6, <2>1, <2>2
  <2>3. CASE d = c
    <3>1. l[d].st \in Active => Settled(d)
      BY <1>3, <1>13, <2>3 DEF Settled, In
    <3> QED BY <2>1, <3>1
  <2> QED BY <2>2, <2>3
<1>15. HeldInv(rec, proc)' /\ LinksLive(link, proc)'
  BY DEF On, HeldInv, LinksLive, Lives
<1>16. LinkInv(rec, link)'
  <2> SUFFICES ASSUME NEW d \in C \ odd, lk[d] # NoProc PROVE
        \/ \E v \in Threads : job'[v].at = "hand" /\ job'[v].c = d /\ lk[d] = job'[v].pid /\ l[d].ip # 0
        \/ Holds(l[d], lk[d]) /\ \A v \in Threads : In(v, d)' => job'[v].at \notin Before
    BY DEF LinkInv, Holds
  <2>1. CASE \E v \in Threads : job[v].at = "hand" /\ job[v].c = d /\ lk[d] = job[v].pid /\ l[d].ip # 0
    <3>1. PICK v \in Threads : job[v].at = "hand" /\ job[v].c = d /\ lk[d] = job[v].pid /\ l[d].ip # 0
      BY <2>1
    <3>2. v # t
      BY <3>1 DEF Before
    <3> QED BY <1>2, <3>1, <3>2
  <2>2. CASE Holds(l[d], lk[d]) /\ \A v \in Threads : In(v, d) => job[v].at \notin Before
    <3>1. \A v \in Threads : In(v, d)' => In(v, d) /\ job'[v] = job[v]
      BY <1>2, <1>5 DEF In
    <3> QED BY <2>2, <3>1
  <2> QED BY <2>1, <2>2 DEF On, LinkInv
<1>17. CountInv(rec, saved, chain)'
  <2> SUFFICES ASSUME NEW r \in Dnat \ leaked PROVE ch[r] <= Cardinality(Owed(rec, saved, r)')
    BY DEF CountInv
  <2>1. ch[r] \in Nat /\ ch[r] <= Cardinality(Owed(l, f, r))
    BY DEF On, CountInv, Typed, Kernel
  <2>2. IsFiniteSet(Owed(rec, saved, r)')
    <3>1. Owed(rec, saved, r)' \in SUBSET Entries(rec', C, r)
      BY DEF Owed, Entries
    <3> QED BY <3>1, EntriesFinite, FS_Subset
  <2>3. Owed(l, f, r) \subseteq Owed(rec, saved, r)'
    <3> SUFFICES ASSUME NEW e \in Owed(l, f, r) PROVE e \in Owed(rec, saved, r)'
      OBVIOUS
    <3>1. /\ e \in Entries(l, C, r) /\ e[1] \in C /\ Laid(e[1], e[2]) /\ l[e[1]].ip = r.ip
          /\ Busy(e[1]) \/ Kept(l, f, e[1])
      BY DEF Owed, Entries
    <3>2. CASE e[1] # c
      <4>1. Laid(e[1], e[2])' /\ (Busy(e[1]) => Busy(e[1])')
        BY <1>6, <3>1, <3>2
      <4> QED BY <3>1, <4>1 DEF Owed, Entries, Kept
    <3>3. CASE e[1] = c
      <4>1. In(t, c)
        BY DEF In, c
      <4>2. job[t].at \notin Before
        BY <3>1, <3>3, <4>1 DEF Laid, Before
      <4>3. l[c].ip # 0
        BY <3>1, <3>3 DEF Entries
      <4>4. job[t].at = "trigger"
        BY <4>2, <4>3 DEF On, JobList, c
      <4>5. Kept(l, f, c)
        BY <4>4 DEF On, JobFile, c
      <4>6. Laid(e[1], e[2])'
        BY <1>5, <3>1, <3>3 DEF Laid
      <4> QED BY <3>1, <3>3, <4>5, <4>6 DEF Owed, Entries, Kept
    <3> QED BY <3>2, <3>3
  <2> QED BY <2>1, <2>2, <2>3, OwedGrows
<1>18. RuleInv(rec, chain)'
  <2> SUFFICES ASSUME NEW d \in C \ odd, l[d].st \in Active, l[d].ip \notin twice \cup {0},
                      NEW i \in DOMAIN l[d].ports, Laid(d, i)'
               PROVE  Ready(l, ch, d, i)
    BY DEF RuleInv, Ready, Has
  <2>1. Laid(d, i)
    <3>1. CASE d # c
      BY <1>6, <3>1
    <3>2. CASE d = c
      BY <1>3, <1>13, <3>2 DEF Laid, In
    <3> QED BY <3>1, <3>2
  <2> QED BY <2>1 DEF On, RuleInv
<1>19. Alive'
  BY <1>8, <1>9, <1>10, <1>11, <1>12, <1>14, <1>15, <1>16, <1>17, <1>18 DEF Alive, On
<1> QED BY <1>7, <1>19

(* The child is killed and the start given up. *)
LEMMA AbortStep ==
    ASSUME Safe, NEW t \in Threads, job[t].at \in Before, AbortStart(t),
           running' = running, bridge' = bridge, chain' = chain,
           pool' = pool, rec' = rec, next' = next, saved' = saved, procs' = procs, history' = history
    PROVE  Safe'
<1> DEFINE p == job[t].pid
<1>1. On(rec, saved, chain, link, proc) /\ Steady /\ job[t].at # "idle"
  BY DEF Safe, Alive, Before
<1>2. p \in 1 .. procs /\ p \in Pids /\ p # NoProc
  <2>1. p \in 1 .. procs
    BY <1>1 DEF On, JobInv
  <2> QED BY <1>1, <2>1, IdsAssumption DEF Steady, Pids, NoProc
<1>3. link' = [c \in C |-> IF link[c] \in {p} THEN NoProc ELSE link[c]]
  BY DEF AbortStart, Without
<1>4. proc' = [q \in Pids |-> IF q \in {p} THEN Dead ELSE proc[q]]
  BY <1>1, <1>2 DEF AbortStart, Kill, On, Typed, Kernel
<1>5. \A d \in C : link'[d] # p
  BY <1>2, <1>3
<1> HIDE DEF p
<1>6. On(rec, saved, chain, link', proc')
  BY ZenonT(40), <1>1, <1>2, <1>3, <1>4, KillKeeps
<1>7. Alive' /\ Steady'
  <2>1. \A d \in C : link'[d] # job[t].pid
    BY <1>5 DEF p
  <2> QED BY <1>1, <1>6, <2>1, EndKeeps DEF AbortStart, history
<1>8. Numbered'
  BY DEF Safe, Numbered
<1> QED BY <1>7, <1>8 DEF Safe

(* The network cannot be set up. *)
LEMMA NoNetworkStep ==
    ASSUME Safe, NEW t \in Threads, NetSetupFails(t) \/ VethFails(t) PROVE Safe'
<1>1. job[t].at \in {"setup", "veth"} /\ NoNetwork(t)
  BY DEF NetSetupFails, VethFails
<1>2. CASE Strict(job[t].c)
  BY <1>1, <1>2, AbortStep DEF NoNetwork, Before
<1>3. CASE ~Strict(job[t].c)
  BY <1>1, <1>3, LoopbackStep DEF NoNetwork
<1> QED BY <1>2, <1>3

(* The handshake fails. *)
LEMMA HandshakeFailsStep == ASSUME Safe, NEW t \in Threads, HandshakeFails(t) PROVE Safe'
BY AbortStep DEF HandshakeFails, Before

(* A start fails after its handshake: the container is stopped. *)
LEMMA FailStep ==
    ASSUME Safe, NEW t \in Threads, ForwardFails(t) \/ StartFails(t) PROVE Safe'
<1> DEFINE c == job[t].c
<1>1. On(rec, saved, chain, link, proc) /\ Steady
  BY DEF Safe, Alive
<1>2. /\ job[t].at \notin Before /\ job[t].at # "idle" /\ StopProcess(Now, c) /\ End(t)
      /\ running' = running /\ bridge' = bridge /\ pool' = pool /\ next' = next /\ procs' = procs
      /\ leaked' = leaked /\ odd' = odd /\ twice' = twice
  BY DEF ForwardFails, StartFails, Before, history
<1>3. c \in C /\ rec[c].st # "NONE"
  BY <1>1, <1>2 DEF On, JobInv, JobList
<1> HIDE DEF c
<1>4. Now = [rec |-> rec, chain |-> chain, link |-> link]
  BY DEF Now
<1>5. /\ On(rec', saved', chain', link', proc') /\ rec'[c].st \notin Active
      /\ \A d \in C \ {c} : rec'[d] = rec[d]
      /\ rec[c].st \in Active => rec'[c].st = "STOPPED"
      /\ rec[c].st \notin Active => rec' = rec
  BY <1>1, <1>2, <1>3, <1>4, StopProcessKeeps
<1>6. Alive' /\ Steady'
  <2>1. rec'[job[t].c].st \notin Active
    BY <1>5 DEF c
  <2> QED BY <1>1, <1>2, <1>5, <2>1, EndKeeps
<1>7. Numbered'
  BY <1>2, <1>3, <1>5 DEF Safe, Numbered
<1> QED BY <1>2, <1>6, <1>7 DEF Safe

(* The container is attached to the bridge with the address that was drawn. *)
LEMMA VethStep == ASSUME Safe, NEW t \in Threads, bridge_setup_veth(t) PROVE Safe'
<1> DEFINE c == job[t].c
           a == job[t].ip
           p == job[t].pid
<1>1. On(rec, saved, chain, link, proc) /\ Steady /\ job[t].at = "veth"
  BY DEF Safe, Alive, bridge_setup_veth, At
<1>2. /\ c \in C /\ p \in 1 .. procs /\ a >= 2 /\ job[t].i = 1 /\ a \in {0} \cup Hosts
      /\ \A u \in Threads \ {t} : job[u].at # "idle" => job[u].c # c /\ job[u].pid # p
  BY <1>1, JobFields DEF On, JobInv, Drawing, Steady
<1>3. p \in Pids /\ p # NoProc /\ a \in Hosts /\ a # 0
  BY <1>1, <1>2, IdsAssumption, PoolAssumption DEF Steady, Pids, NoProc
<1>4. /\ job' \in [Threads -> Jobs] /\ job'[t].at = "hand"
      /\ \A u \in Threads : /\ job'[u].c = job[u].c /\ job'[u].ip = job[u].ip
                            /\ job'[u].pid = job[u].pid /\ job'[u].i = job[u].i
      /\ \A u \in Threads \ {t} : job'[u] = job[u]
  <2>1. job \in [Threads -> Jobs] /\ job' = [job EXCEPT ![t].at = "hand"]
    BY <1>1 DEF bridge_setup_veth, At, Steady
  <2> QED BY <2>1 DEF Jobs
<1>5. /\ rec[c] \in Records /\ rec[c].st # "NONE" /\ rec[c].ip = 0
      /\ c \notin odd => rec[c].st \notin Active
  BY <1>1, <1>2 DEF On, Typed, JobList, Before
<1>6. /\ rec' = [rec EXCEPT ![c] = [rec[c] EXCEPT !.ip = a]] /\ link' = [link EXCEPT ![c] = p]
      /\ link[c] = NoProc /\ proc[p].st = "start"
      /\ running' = running /\ bridge' = bridge /\ proc' = proc /\ chain' = chain /\ pool' = pool
      /\ next' = next /\ saved' = saved /\ procs' = procs
      /\ leaked' = leaked /\ odd' = odd /\ twice' = twice
  BY DEF bridge_setup_veth, history
<1> HIDE DEF c, a, p
<1>7. /\ rec' \in [C -> Records] /\ rec'[c].ip = a /\ rec'[c].st = rec[c].st
      /\ rec'[c].pid = rec[c].pid /\ rec'[c].ports = rec[c].ports
      /\ \A d \in C \ {c} : rec'[d] = rec[d]
  <2>1. rec \in [C -> Records]
    BY <1>1 DEF On, Typed
  <2>2. LET r == [rec[c] EXCEPT !.ip = a] IN
        r \in Records /\ r.ip = a /\ r.st = rec[c].st /\ r.pid = rec[c].pid /\ r.ports = rec[c].ports
    BY <1>3, <1>5, Readdressed
  <2>3. rec'[c] = [rec[c] EXCEPT !.ip = a]
    BY <1>2, <1>6, <2>1
  <2> QED BY <1>2, <1>6, <2>1, <2>2, <2>3
<1>8. /\ link' \in [C -> Pids \cup {NoProc, Host}] /\ link'[c] = p
      /\ \A d \in C \ {c} : link'[d] = link[d]
  BY <1>1, <1>2, <1>3, <1>6 DEF On, Typed, Kernel
<1>9. Typed(rec, saved, chain, link, proc)' /\ ProcInv(proc)'
  BY <1>1, <1>6, <1>7, <1>8 DEF On, Typed, Kernel, ProcInv, Lives
<1>10. Sound(rec)' /\ Sound(saved)'
  <2>1. Blank(rec)' /\ Given(rec)'
    BY <1>1, <1>3, <1>5, <1>6, <1>7 DEF On, Sound, Blank, Given
  <2>2. Sane(rec)'
    BY <1>1, <1>6, <1>7 DEF On, Sound, Sane
  <2>3. a \notin twice => \A d \in C : rec[d].ip # a
    BY <1>1 DEF On, PoolInv, Drawing, a
  <2>4. Apart(rec)'
    <3> SUFFICES ASSUME NEW d \in C, NEW e \in C, d # e, rec'[d].ip = rec'[e].ip
                 PROVE  rec'[d].ip \in twice \cup {0}
      BY <1>6 DEF Apart
    <3>1. CASE d # c /\ e # c
      BY <1>1, <1>7, <3>1 DEF On, Sound, Apart
    <3>2. CASE d = c \/ e = c
      BY <1>7, <2>3, <3>2
    <3> QED BY <3>1, <3>2
  <2>5. Sound(saved)'
    BY <1>1, <1>6 DEF On, Sound, Blank, Sane, Apart, Given
  <2> QED BY <2>1, <2>2, <2>4, <2>5 DEF Sound
<1>11. JobInv'
  <2>1. \A u \in Threads : /\ (job'[u].at # "idle") <=> (job[u].at # "idle")
                           /\ (job'[u].at # "forward") <=> (job[u].at # "forward")
                           /\ job'[u].at \in Drawing => job[u].at \in Drawing
    BY <1>1, <1>4 DEF Drawing
  <2> QED BY <1>1, <1>4, <1>6, <2>1 DEF On, JobInv
<1>12. JobList(rec)'
  <2> SUFFICES ASSUME NEW v \in Threads, job'[v].at # "idle" PROVE
        LET r == rec'[job'[v].c] IN
        /\ r.st # "NONE"
        /\ job'[v].at \in {"setup", "draw", "store", "veth"} => r.ip = 0
        /\ job'[v].at \in Before /\ job'[v].c \notin odd => r.st \notin Active
        /\ job'[v].at = "hand" /\ job'[v].c \notin odd =>
              r.ip = job'[v].ip /\ (r.ports # <<>> => r.ip # 0)
        /\ job'[v].at \notin Before /\ r.st \notin Active => r.ip = 0
    BY <1>6 DEF JobList
  <2>1. CASE v = t
    <3>1. job'[v].c = c /\ job'[v].ip = a /\ job'[v].at = "hand"
      BY <1>4, <2>1 DEF a, c
    <3> QED BY <1>3, <1>5, <1>7, <3>1 DEF Before
  <2>2. CASE v # t
    <3>1. job'[v] = job[v] /\ job[v].c \in C \ {c}
      BY <1>1, <1>2, <1>4, <2>2 DEF On, JobInv
    <3>2. rec'[job'[v].c] = rec[job[v].c]
      BY <1>7, <3>1
    <3> QED BY <1>1, <3>1, <3>2 DEF On, JobList
  <2> QED BY <2>1, <2>2
<1>13. \A u \in Threads : (job'[u].at \in Before) <=> (job[u].at \in Before)
  BY <1>1, <1>4 DEF Before
<1>14. Unnamed(rec)' /\ Unnamed(saved)'
  <2>1. \A d \in C : rec'[d].pid = rec[d].pid
    BY <1>7
  <2> QED BY <1>1, <1>4, <1>6, <1>13, <2>1 DEF On, Unnamed
<1>15. JobFile(rec, saved)'
  <2> SUFFICES ASSUME NEW v \in Threads, job'[v].at = "trigger" PROVE Kept(rec', saved, job[v].c)
    BY <1>4, <1>6 DEF JobFile, Kept
  <2>1. job[v].at = "trigger" /\ job[v].c \in C \ {c}
    BY <1>1, <1>2, <1>4 DEF On, JobInv
  <2> QED BY <1>1, <1>7, <2>1 DEF On, JobFile, Kept
<1>16. PoolInv(rec)'
  <2>0. \A u \in Threads : job'[u].at \in Drawing => u # t /\ job'[u] = job[u]
    BY <1>4 DEF Drawing
  <2>1. ASSUME NEW v \in Threads, job'[v].at \in Drawing, job'[v].ip \notin twice
        PROVE  /\ \A d \in C : rec'[d].ip # job'[v].ip
               /\ \A u \in Threads \ {v} : job'[u].at \in Drawing => job'[u].ip # job'[v].ip
    <3>1. v # t /\ job'[v] = job[v] /\ a # job[v].ip
      BY <1>1, <2>0, <2>1 DEF On, PoolInv, Drawing, a
    <3> QED BY <1>1, <1>7, <2>0, <2>1, <3>1 DEF On, PoolInv
  <2>2. ASSUME NEW v \in Threads, job'[v].at = "veth", job'[v].ip \notin twice
        PROVE  /\ pool > job'[v].ip
               /\ \A u \in Threads : job'[u].at = "store" => job'[u].ip > job'[v].ip
    BY <1>1, <2>0, <2>2 DEF On, PoolInv, Drawing
  <2>3. ASSUME NEW v \in Threads, NEW u \in Threads, v # u, job'[v].at = "store", job'[u].at = "store"
        PROVE  job'[v].ip \in twice
    BY <1>1, <2>0, <2>3 DEF On, PoolInv, Drawing
  <2>4. ASSUME NEW d \in C, rec'[d].ip \notin twice \cup {0}
        PROVE  /\ pool > rec'[d].ip
               /\ \A u \in Threads : job'[u].at = "store" => job'[u].ip > rec'[d].ip
    <3>1. CASE d = c
      <4>1. job[t].ip \notin twice /\ rec'[d].ip = job[t].ip
        BY <1>7, <2>4, <3>1 DEF a
      <4> QED BY <1>1, <2>0, <4>1 DEF On, PoolInv, Drawing
    <3>2. CASE d # c
      <4>1. rec'[d] = rec[d]
        BY <1>7, <3>2
      <4> QED BY <1>1, <2>0, <2>4, <4>1 DEF On, PoolInv, Drawing
    <3> QED BY <3>1, <3>2
  <2> QED BY <1>6, <2>1, <2>2, <2>3, <2>4 DEF PoolInv
<1>17. /\ \A u \in Threads, d \in C : In(u, d)' <=> In(u, d)
       /\ \A d \in C : (Busy(d)' <=> Busy(d)) /\ (Settled(d)' <=> Settled(d))
  <2>1. \A u \in Threads : /\ (job'[u].at # "idle") <=> (job[u].at # "idle")
                           /\ (job'[u].at = "trigger") <=> (job[u].at = "trigger")
    BY <1>1, <1>4
  <2> QED BY <1>4, <2>1 DEF In, Busy, Settled
<1>18. ASSUME NEW d \in C, NEW i PROVE Laid(d, i)' <=> Laid(d, i)
  BY <1>1, <1>4, <1>17 DEF Laid
<1>19. In(t, c)
  BY <1>1 DEF In, c
<1>20. FileInv(rec, saved, proc)'
  <2> SUFFICES ASSUME NEW d \in C \ odd
               PROVE  /\ Survives(saved[d], proc) => rec'[d] = saved[d]
                      /\ rec'[d].st \in Active /\ Settled(d)' => saved[d] = rec'[d]
    BY <1>6 DEF FileInv, Survives
  <2>1. CASE d = c
    BY <1>1, <1>5, <1>7, <2>1 DEF On, FileInv, Survives, Active
  <2>2. CASE d # c
    BY <1>1, <1>7, <1>17, <2>2 DEF On, FileInv
  <2> QED BY <2>1, <2>2
<1>21. HeldInv(rec, proc)'
  BY <1>1, <1>5, <1>6, <1>7 DEF On, HeldInv
<1>22. LinksLive(link, proc)'
  BY <1>1, <1>6, <1>8 DEF On, LinksLive, Lives
<1>23. LinkInv(rec, link)'
  <2> SUFFICES ASSUME NEW d \in C \ odd, link'[d] # NoProc PROVE
        \/ \E v \in Threads : job'[v].at = "hand" /\ job'[v].c = d /\ link'[d] = job'[v].pid /\ rec'[d].ip # 0
        \/ Holds(rec'[d], link'[d]) /\ \A v \in Threads : In(v, d)' => job'[v].at \notin Before
    BY <1>6 DEF LinkInv, Holds
  <2>1. CASE d = c
    <3>1. job'[t].at = "hand" /\ job'[t].c = d /\ link'[d] = job'[t].pid /\ rec'[d].ip # 0
      BY <1>3, <1>4, <1>7, <1>8, <2>1 DEF c, p
    <3> QED BY <3>1
  <2>2. CASE d # c
    <3>1. rec'[d] = rec[d] /\ link'[d] = link[d]
      BY <1>7, <1>8, <2>2
    <3>2. \/ \E v \in Threads : job[v].at = "hand" /\ job[v].c = d /\ link[d] = job[v].pid /\ rec[d].ip # 0
          \/ Holds(rec[d], link[d]) /\ \A v \in Threads : In(v, d) => job[v].at \notin Before
      BY <1>1, <3>1 DEF On, LinkInv
    <3>3. \A v \in Threads : job[v].at = "hand" => job'[v] = job[v]
      BY <1>1, <1>4
    <3> QED BY <1>13, <1>17, <3>1, <3>2, <3>3
  <2> QED BY <2>1, <2>2
<1>24. CountInv(rec, saved, chain)'
  <2> SUFFICES ASSUME NEW r \in Dnat \ leaked PROVE chain[r] <= Cardinality(Owed(rec, saved, r)')
    BY <1>6 DEF CountInv
  <2>1. chain[r] \in Nat /\ chain[r] <= Cardinality(Owed(rec, saved, r))
    BY <1>1 DEF On, CountInv, Typed, Kernel
  <2>2. IsFiniteSet(Owed(rec, saved, r)')
    <3>1. Owed(rec, saved, r)' \in SUBSET Entries(rec', C, r)
      BY DEF Owed, Entries
    <3> QED BY <3>1, EntriesFinite, FS_Subset
  <2>3. Owed(rec, saved, r) \subseteq Owed(rec, saved, r)'
    <3> SUFFICES ASSUME NEW e \in Owed(rec, saved, r) PROVE e \in Owed(rec, saved, r)'
      OBVIOUS
    <3>1. /\ e \in Entries(rec, C, r) /\ e[1] \in C /\ Laid(e[1], e[2])
          /\ Busy(e[1]) \/ Kept(rec, saved, e[1])
      BY DEF Owed, Entries
    <3>2. e[1] # c
      BY <1>1, <1>19, <3>1 DEF Laid
    <3>3. rec'[e[1]] = rec[e[1]]
      BY <1>7, <3>1, <3>2
    <3>4. Laid(e[1], e[2])' /\ (Busy(e[1]) => Busy(e[1])')
      BY <1>17, <1>18, <3>1
    <3> QED BY <1>6, <3>1, <3>3, <3>4 DEF Owed, Entries, Kept
  <2> QED BY <2>1, <2>2, <2>3, OwedGrows
<1>25. RuleInv(rec, chain)'
  <2> SUFFICES ASSUME NEW d \in C \ odd, rec'[d].st \in Active, rec'[d].ip \notin twice \cup {0},
                      NEW i \in DOMAIN rec'[d].ports, Laid(d, i)'
               PROVE  Ready(rec', chain, d, i)
    BY <1>6 DEF RuleInv, Ready, Has
  <2>1. d # c /\ rec'[d] = rec[d]
    BY <1>5, <1>7
  <2> QED BY <1>1, <1>18, <2>1 DEF On, RuleInv, Ready
<1>26. Alive'
  BY <1>9, <1>10, <1>11, <1>12, <1>14, <1>15, <1>16, <1>20, <1>21, <1>22, <1>23, <1>24, <1>25 DEF Alive, On
<1>27. Steady' /\ Numbered'
  BY <1>1, <1>4, <1>5, <1>6, <1>7 DEF Safe, Steady, Numbered
<1> QED BY <1>6, <1>26, <1>27 DEF Safe

(* The handshake: the child has its address, and the record names it. *)
LEMMA HandshakeStep == ASSUME Safe, NEW t \in Threads, Handshake(t) PROVE Safe'
<1> DEFINE c == job[t].c
           a == job[t].ip
           p == job[t].pid
           to == "check"
<1>1. On(rec, saved, chain, link, proc) /\ Steady /\ job[t].at = "hand"
  BY DEF Safe, Alive, Handshake, At
<1>2. /\ c \in C /\ p \in 1 .. procs /\ job[t].i = 1 /\ a \in {0} \cup Hosts
      /\ \A u \in Threads \ {t} : job[u].at # "idle" => job[u].c # c /\ job[u].pid # p
  BY <1>1, JobFields DEF On, JobInv, Steady
<1>3. p \in Pids /\ p # NoProc /\ p <= procs
  BY <1>1, <1>2, IdsAssumption DEF Steady, Pids, NoProc
<1>4. /\ job' \in [Threads -> Jobs] /\ job'[t].at = to
      /\ \A u \in Threads : /\ job'[u].c = job[u].c /\ job'[u].ip = job[u].ip
                            /\ job'[u].pid = job[u].pid /\ job'[u].i = job[u].i
      /\ \A u \in Threads \ {t} : job'[u] = job[u]
  <2>1. job \in [Threads -> Jobs] /\ job' = [job EXCEPT ![t].at = to]
    BY <1>1 DEF Handshake, At, Steady
  <2> QED BY <2>1 DEF Jobs
<1>5. /\ rec[c] \in Records /\ rec[c].st # "NONE"
      /\ c \notin odd => rec[c].st \notin Active /\ rec[c].ip = a /\ (rec[c].ports # <<>> => rec[c].ip # 0)
  BY <1>1, <1>2 DEF On, Typed, JobList, Before
<1>6. /\ rec' = [rec EXCEPT ![c] = [rec[c] EXCEPT !.st = "RUNNING", !.pid = p]]
      /\ proc' = [proc EXCEPT ![p].ip = a] /\ proc[p].st = "start"
      /\ running' = running /\ bridge' = bridge /\ link' = link /\ chain' = chain /\ pool' = pool
      /\ next' = next /\ saved' = saved /\ procs' = procs
      /\ leaked' = leaked /\ odd' = odd /\ twice' = twice
  <2>1. rec \in [C -> Records] /\ c \in C
    BY <1>1, <1>2 DEF On, Typed
  <2>2. rec' = [rec EXCEPT ![c].st = "RUNNING", ![c].pid = p]
    BY DEF Handshake
  <2>3. rec' = [rec EXCEPT ![c] = [rec[c] EXCEPT !.st = "RUNNING", !.pid = p]]
    <3> HIDE DEF c, p
    <3> QED BY <2>1, <2>2
  <2> QED BY <2>3 DEF Handshake, history
<1> HIDE DEF c, a, p
<1>7. to = "check"
  OBVIOUS
<1> HIDE DEF to
<1>8. /\ rec' \in [C -> Records] /\ rec'[c].ip = rec[c].ip /\ rec'[c].st = "RUNNING"
      /\ rec'[c].pid = p /\ rec'[c].ports = rec[c].ports
      /\ \A d \in C \ {c} : rec'[d] = rec[d]
  <2>1. rec \in [C -> Records]
    BY <1>1 DEF On, Typed
  <2> DEFINE x == rec[c]
             y == [x EXCEPT !.st = "RUNNING", !.pid = p]
  <2>2. x \in Records
    BY <1>5
  <2>3. rec'[c] = y
    BY <1>2, <1>6, <2>1
  <2> HIDE DEF x
  <2>4. y \in Records /\ y.ip = x.ip /\ y.st = "RUNNING" /\ y.pid = p /\ y.ports = x.ports
    BY <1>3, <2>2 DEF Records, Active
  <2> QED BY <1>2, <1>6, <2>1, <2>3, <2>4 DEF x
<1>9. /\ proc' \in [Pids -> [st : {"none", "start", "run", "dead"}, ip : {0} \cup Hosts]]
      /\ proc'[p].ip = a /\ proc'[p].st = "start"
      /\ \A q \in Pids \ {p} : proc'[q] = proc[q]
      /\ \A q \in Pids : proc'[q].st = proc[q].st
  BY <1>1, <1>2, <1>3, <1>6 DEF On, Typed, Kernel
<1>10. Typed(rec, saved, chain, link, proc)'
  BY <1>1, <1>6, <1>8, <1>9 DEF On, Typed, Kernel
<1>11. ProcInv(proc)'
  BY <1>1, <1>6, <1>9 DEF On, ProcInv, Lives
<1>12. Sound(rec)' /\ Sound(saved)'
  <2>1. Blank(rec)'
    BY <1>1, <1>8 DEF On, Sound, Blank
  <2>2. Given(rec)'
    BY <1>1, <1>5, <1>6, <1>8 DEF On, Sound, Given
  <2>3. Sane(rec)'
    BY <1>1, <1>3, <1>6, <1>8 DEF On, Sound, Sane
  <2>4. Apart(rec)'
    <3>1. \A d \in C : rec'[d].ip = rec[d].ip
      BY <1>8
    <3> QED BY <1>1, <1>6, <3>1 DEF On, Sound, Apart
  <2>5. Sound(saved)'
    BY <1>1, <1>6 DEF On, Sound, Blank, Sane, Apart, Given
  <2> QED BY <2>1, <2>2, <2>3, <2>4, <2>5 DEF Sound
<1>13. JobInv'
  <2>1. \A u \in Threads : /\ (job'[u].at # "idle") <=> (job[u].at # "idle")
                           /\ job'[u].at \in Drawing => job[u].at \in Drawing
    BY <1>1, <1>4, <1>7 DEF Drawing
  <2>2. \A u \in Threads : job'[u].at # "idle" /\ job'[u].at # "forward" => job'[u].i = 1
    BY <1>1, <1>2, <1>4 DEF On, JobInv
  <2> QED BY <1>1, <1>4, <1>6, <2>1, <2>2 DEF On, JobInv
<1>14. \A u \in Threads : u # t => job'[u] = job[u] /\ (job[u].at # "idle" => job[u].c \in C \ {c})
  BY <1>1, <1>2, <1>4 DEF On, JobInv
<1>15. JobList(rec)'
  <2> SUFFICES ASSUME NEW v \in Threads, job'[v].at # "idle" PROVE
        LET r == rec'[job'[v].c] IN
        /\ r.st # "NONE"
        /\ job'[v].at \in {"setup", "draw", "store", "veth"} => r.ip = 0
        /\ job'[v].at \in Before /\ job'[v].c \notin odd => r.st \notin Active
        /\ job'[v].at = "hand" /\ job'[v].c \notin odd =>
              r.ip = job'[v].ip /\ (r.ports # <<>> => r.ip # 0)
        /\ job'[v].at \notin Before /\ r.st \notin Active => r.ip = 0
    BY <1>6 DEF JobList
  <2>1. CASE v = t
    <3>1. job'[v].c = c /\ job'[v].at = "check"
      BY <1>4, <1>7, <2>1 DEF c
    <3> QED BY <1>8, <3>1 DEF Before, Active
  <2>2. CASE v # t
    <3>1. job'[v] = job[v] /\ rec'[job'[v].c] = rec[job[v].c]
      BY <1>8, <1>14, <2>2
    <3> QED BY <1>1, <3>1 DEF On, JobList
  <2> QED BY <2>1, <2>2
<1>16. \A u \in Threads : job'[u].at \in Before => u # t /\ job'[u] = job[u]
  BY <1>4, <1>7 DEF Before
<1>17. Unnamed(rec)' /\ Unnamed(saved)'
  <2> SUFFICES ASSUME NEW v \in Threads, job'[v].at \in Before, NEW d \in C
               PROVE  rec'[d].pid # job'[v].pid /\ saved[d].pid # job'[v].pid
    BY <1>6 DEF Unnamed
  <2>1. v # t /\ job'[v] = job[v] /\ job[v].pid # p
    BY <1>2, <1>16 DEF Before
  <2> QED BY <1>1, <1>8, <2>1 DEF On, Unnamed
<1>18. JobFile(rec, saved)'
  <2> SUFFICES ASSUME NEW v \in Threads, job'[v].at = "trigger" PROVE Kept(rec', saved, job[v].c)
    BY <1>4, <1>6 DEF JobFile, Kept
  <2>1. v # t /\ job[v].at = "trigger" /\ job[v].c \in C \ {c}
    BY <1>4, <1>7, <1>14
  <2> QED BY <1>1, <1>8, <2>1 DEF On, JobFile, Kept
<1>19. PoolInv(rec)'
  <2>1. \A d \in C : rec'[d].ip = rec[d].ip
    BY <1>8
  <2>2. \A u \in Threads : job'[u].at \in Drawing \/ job'[u].at = "store" \/ job'[u].at = "veth"
            => job'[u] = job[u]
    BY <1>4, <1>7 DEF Drawing
  <2> QED BY <1>1, <1>6, <2>1, <2>2 DEF On, PoolInv
<1>20. \A u \in Threads, d \in C : In(u, d)' <=> In(u, d)
  BY <1>1, <1>4, <1>7 DEF In
<1>21. ASSUME NEW d \in C, d # c
       PROVE  (Settled(d)' <=> Settled(d)) /\ (\A i : Laid(d, i)' <=> Laid(d, i))
  <2>1. \A u \in Threads : In(u, d) => job'[u] = job[u]
    BY <1>4, <1>21 DEF In, c
  <2> QED BY <1>20, <2>1 DEF Settled, Laid
<1>22. In(t, c)
  BY <1>1 DEF In, c
<1>23. \A d \in C : Survives(saved[d], proc') <=> Survives(saved[d], proc)
  <2>1. \A d \in C : saved[d].st = "RUNNING" => saved[d].pid \in Pids
    <3>1. \A d \in C : saved[d].pid \in Pids \cup {NoProc}
      BY <1>1, RecordFields DEF On, Typed
    <3> QED BY <1>1, <3>1 DEF On, Sound, Sane, Active
  <2> QED BY <1>9, <2>1 DEF Survives
<1>24. FileInv(rec, saved, proc)'
  <2> SUFFICES ASSUME NEW d \in C \ odd
               PROVE  /\ Survives(saved[d], proc') => rec'[d] = saved[d]
                      /\ rec'[d].st \in Active /\ Settled(d)' => saved[d] = rec'[d]
    BY <1>6 DEF FileInv, Survives
  <2>1. CASE d = c
    <3>0. In(t, d)'
      BY <1>2, <1>20, <1>22, <2>1
    <3>1. ~Settled(d)'
      BY <1>4, <1>7, <3>0 DEF Settled
    <3>2. ~Survives(saved[d], proc)
      BY <1>1, <1>5, <2>1 DEF On, FileInv, Survives, Active
    <3> QED BY <1>23, <3>1, <3>2
  <2>2. CASE d # c
    BY <1>1, <1>8, <1>21, <1>23, <2>2 DEF On, FileInv
  <2> QED BY <2>1, <2>2
<1>25. HeldInv(rec, proc)'
  <2> SUFFICES ASSUME NEW d \in C \ odd, rec'[d].st \in Active
               PROVE  proc'[rec'[d].pid].ip \in {0, rec'[d].ip}
    BY <1>6 DEF HeldInv
  <2>1. CASE d = c
    BY <1>5, <1>8, <1>9, <2>1
  <2>2. CASE d # c
    <3>1. rec'[d] = rec[d] /\ rec[d].pid # p
      BY <1>1, <1>8, <2>2 DEF On, Unnamed, Before, p
    <3>2. rec[d].pid \in Pids
      <4>1. rec[d].pid \in Pids \cup {NoProc}
        BY <1>1, RecordFields DEF On, Typed
      <4> QED BY <1>1, <3>1, <4>1 DEF On, Sound, Sane
    <3> QED BY <1>1, <1>9, <3>1, <3>2 DEF On, HeldInv
  <2> QED BY <2>1, <2>2
<1>26. LinksLive(link, proc)'
  BY <1>1, <1>6, <1>9 DEF On, LinksLive, Lives
<1>27. LinkInv(rec, link)'
  <2> SUFFICES ASSUME NEW d \in C \ odd, link[d] # NoProc PROVE
        \/ \E v \in Threads : job'[v].at = "hand" /\ job'[v].c = d /\ link[d] = job'[v].pid /\ rec'[d].ip # 0
        \/ Holds(rec'[d], link[d]) /\ \A v \in Threads : In(v, d)' => job'[v].at \notin Before
    BY <1>6 DEF LinkInv, Holds
  <2>1. \/ \E v \in Threads : job[v].at = "hand" /\ job[v].c = d /\ link[d] = job[v].pid /\ rec[d].ip # 0
        \/ Holds(rec[d], link[d]) /\ \A v \in Threads : In(v, d) => job[v].at \notin Before
    BY <1>1 DEF On, LinkInv
  <2>2. CASE d = c
    <3>1. PICK v \in Threads : job[v].at = "hand" /\ job[v].c = d /\ link[d] = job[v].pid /\ rec[d].ip # 0
      BY <1>1, <1>22, <2>1, <2>2 DEF Before
    <3>2. v = t
      BY <1>2, <2>2, <3>1
    <3>3. Holds(rec'[d], link[d])
      BY <1>8, <2>2, <3>1, <3>2 DEF Holds, Active, p
    <3>4. \A u \in Threads : In(u, d)' => job'[u].at \notin Before
      BY <1>2, <1>16, <1>20, <2>2 DEF In
    <3> QED BY <3>3, <3>4
  <2>3. CASE d # c
    <3>1. rec'[d] = rec[d]
      BY <1>8, <2>3
    <3>2. \A u \in Threads : job[u].c = d => job'[u] = job[u]
      BY <1>4, <2>3 DEF c
    <3> QED BY <1>20, <2>1, <3>1, <3>2 DEF In
  <2> QED BY <2>2, <2>3
<1>28. CountInv(rec, saved, chain)'
  <2> SUFFICES ASSUME NEW r \in Dnat \ leaked PROVE chain[r] <= Cardinality(Owed(rec, saved, r)')
    BY <1>6 DEF CountInv
  <2>1. chain[r] \in Nat /\ chain[r] <= Cardinality(Owed(rec, saved, r))
    BY <1>1 DEF On, CountInv, Typed, Kernel
  <2>2. IsFiniteSet(Owed(rec, saved, r)')
    <3>1. Owed(rec, saved, r)' \in SUBSET Entries(rec', C, r)
      BY DEF Owed, Entries
    <3> QED BY <3>1, EntriesFinite, FS_Subset
  <2>3. Owed(rec, saved, r) \subseteq Owed(rec, saved, r)'
    <3> SUFFICES ASSUME NEW e \in Owed(rec, saved, r) PROVE e \in Owed(rec, saved, r)'
      OBVIOUS
    <3>1. /\ e \in Entries(rec, C, r) /\ e[1] \in C /\ Laid(e[1], e[2])
          /\ Busy(e[1]) \/ Kept(rec, saved, e[1])
      BY DEF Owed, Entries
    <3>2. e[1] # c
      BY <1>1, <1>22, <3>1 DEF Laid
    <3>3. rec'[e[1]] = rec[e[1]]
      BY <1>8, <3>1, <3>2
    <3>4. Laid(e[1], e[2])' /\ (Busy(e[1]) => Busy(e[1])')
      BY <1>20, <1>21, <3>1, <3>2 DEF Busy, In
    <3> QED BY <1>6, <3>1, <3>3, <3>4 DEF Owed, Entries, Kept
  <2> QED BY <2>1, <2>2, <2>3, OwedGrows
<1>29. RuleInv(rec, chain)'
  <2> SUFFICES ASSUME NEW d \in C \ odd, rec'[d].st \in Active, rec'[d].ip \notin twice \cup {0},
                      NEW i \in DOMAIN rec'[d].ports, Laid(d, i)'
               PROVE  Ready(rec', chain, d, i)
    BY <1>6 DEF RuleInv, Ready, Has
  <2>1. CASE d = c
    <3>0. In(t, d)'
      BY <1>2, <1>20, <1>22, <2>1
    <3> QED BY <1>4, <1>7, <3>0 DEF Laid
  <2>2. CASE d # c
    <3>1. rec'[d] = rec[d] /\ Laid(d, i)
      BY <1>8, <1>21, <2>2
    <3> QED BY <1>1, <3>1 DEF On, RuleInv, Ready
  <2> QED BY <2>1, <2>2
<1>30. Alive'
  BY <1>10, <1>11, <1>12, <1>13, <1>15, <1>17, <1>18, <1>19, <1>24, <1>25, <1>26, <1>27, <1>28, <1>29
  DEF Alive, On
<1>31. Steady' /\ Numbered'
  BY <1>1, <1>4, <1>5, <1>6, <1>8 DEF Safe, Steady, Numbered
<1> QED BY <1>6, <1>30, <1>31 DEF Safe

(* A start goes on after its handshake: what is not about rules and the     *)
(* file is as it was.                                                       *)
LEMMA LateMoves ==
    ASSUME Safe, NEW t \in Threads, job[t].at \in {"check", "forward", "save"}, NEW j \in Jobs,
           j.at \in {"forward", "save", "trigger"}, j.c = job[t].c, j.pid = job[t].pid,
           j.i >= 1, j.at # "forward" => j.i = 1, job' = [job EXCEPT ![t] = j],
           running' = running, bridge' = bridge, next' = next, pool' = pool, rec' = rec,
           saved' = saved \/ saved' = rec, chain' \in [Dnat -> Nat],
           link' = link, proc' = proc, procs' = procs, odd' = odd, twice' = twice,
           JobFile(rec, saved)', FileInv(rec, saved, proc)', CountInv(rec, saved, chain)', RuleInv(rec, chain)'
    PROVE  Safe'
<1>1. On(rec, saved, chain, link, proc) /\ Steady
  BY DEF Safe, Alive
<1>2. job' \in [Threads -> Jobs] /\ job'[t] = j /\ \A u \in Threads \ {t} : job'[u] = job[u]
  BY <1>1 DEF Steady
<1>3. \A u \in Threads : /\ job'[u].c = job[u].c /\ job'[u].pid = job[u].pid
                         /\ (job'[u].at # "idle") <=> (job[u].at # "idle")
                         /\ (job'[u].at \in Before) <=> (job[u].at \in Before)
                         /\ job'[u].at \in Before => job'[u] = job[u]
                         /\ job'[u].at \in Drawing => job'[u] = job[u]
  BY <1>2 DEF Before, Drawing
<1>4. Typed(rec, saved, chain, link, proc)' /\ ProcInv(proc)'
  BY <1>1 DEF On, Typed, Kernel, ProcInv, Lives
<1>5. Sound(rec)' /\ Sound(saved)'
  BY <1>1 DEF On, Sound, Blank, Sane, Apart, Given
<1>6. JobInv'
  <2> SUFFICES ASSUME NEW v \in Threads, job'[v].at # "idle" PROVE
        /\ job'[v].c \in C /\ job'[v].pid \in 1 .. procs
        /\ \A u \in Threads \ {v} : job'[u].at # "idle" => job'[v].c # job'[u].c /\ job'[v].pid # job'[u].pid
        /\ job'[v].i >= 1 /\ (job'[v].at # "forward" => job'[v].i = 1)
        /\ job'[v].at \in Drawing => job'[v].ip >= 2
    BY DEF JobInv
  <2>1. /\ job[v].c \in C /\ job[v].pid \in 1 .. procs
        /\ \A u \in Threads \ {v} : job[u].at # "idle" => job[v].c # job[u].c /\ job[v].pid # job[u].pid
        /\ job[v].i >= 1 /\ (job[v].at # "forward" => job[v].i = 1)
        /\ job[v].at \in Drawing => job[v].ip >= 2
    BY <1>1, <1>3 DEF On, JobInv
  <2>2. /\ job'[v].c \in C /\ job'[v].pid \in 1 .. procs
        /\ \A u \in Threads \ {v} : job'[u].at # "idle" => job'[v].c # job'[u].c /\ job'[v].pid # job'[u].pid
    BY <1>3, <2>1
  <2>3. /\ job'[v].i >= 1 /\ (job'[v].at # "forward" => job'[v].i = 1)
        /\ job'[v].at \in Drawing => job'[v].ip >= 2
    BY <1>2, <1>3, <2>1
  <2> QED BY <2>2, <2>3
<1>7. JobList(rec)'
  <2> SUFFICES ASSUME NEW v \in Threads, job'[v].at # "idle" PROVE
        LET r == rec[job'[v].c] IN
        /\ r.st # "NONE"
        /\ job'[v].at \in {"setup", "draw", "store", "veth"} => r.ip = 0
        /\ job'[v].at \in Before /\ job'[v].c \notin odd => r.st \notin Active
        /\ job'[v].at = "hand" /\ job'[v].c \notin odd =>
              r.ip = job'[v].ip /\ (r.ports # <<>> => r.ip # 0)
        /\ job'[v].at \notin Before /\ r.st \notin Active => r.ip = 0
    BY DEF JobList
  <2>1. CASE v # t
    BY <1>1, <1>2, <2>1 DEF On, JobList
  <2>2. CASE v = t
    <3>1. rec[j.c].st # "NONE" /\ (rec[j.c].st \notin Active => rec[j.c].ip = 0)
      BY <1>1 DEF On, JobList, Before
    <3> QED BY <1>2, <2>2, <3>1 DEF Before
  <2> QED BY <2>1, <2>2
<1>8. Unnamed(rec)' /\ Unnamed(saved)'
  BY <1>1, <1>3 DEF On, Unnamed
<1>9. PoolInv(rec)'
  <2>1. \A u \in Threads : job'[u].at = "store" \/ job'[u].at = "veth" => job'[u] = job[u]
    BY <1>3 DEF Drawing
  <2> QED BY <1>1, <1>3, <2>1 DEF On, PoolInv
<1>10. HeldInv(rec, proc)' /\ LinksLive(link, proc)'
  BY <1>1 DEF On, HeldInv, LinksLive, Lives
<1>11. LinkInv(rec, link)'
  <2> SUFFICES ASSUME NEW c \in C \ odd, link[c] # NoProc PROVE
        \/ \E v \in Threads : job'[v].at = "hand" /\ job'[v].c = c /\ link[c] = job'[v].pid /\ rec[c].ip # 0
        \/ Holds(rec[c], link[c]) /\ \A v \in Threads : In(v, c)' => job'[v].at \notin Before
    BY DEF LinkInv, Holds
  <2>1. \/ \E v \in Threads : job[v].at = "hand" /\ job[v].c = c /\ link[c] = job[v].pid /\ rec[c].ip # 0
        \/ Holds(rec[c], link[c]) /\ \A v \in Threads : In(v, c) => job[v].at \notin Before
    BY <1>1 DEF On, LinkInv
  <2>2. \A v \in Threads : job[v].at = "hand" => job'[v] = job[v]
    BY <1>2
  <2>3. \A v \in Threads : In(v, c)' <=> In(v, c)
    BY <1>3 DEF In
  <2> QED BY <1>3, <2>1, <2>2, <2>3
<1>12. Alive'
  BY <1>4, <1>5, <1>6, <1>7, <1>8, <1>9, <1>10, <1>11 DEF Alive, On
<1>13. Steady' /\ Numbered'
  BY <1>1, <1>2 DEF Safe, Steady, Numbered
<1> QED BY <1>12, <1>13 DEF Safe

(* The list is saved before the trigger. *)
LEMMA SaveStep == ASSUME Safe, NEW t \in Threads, Save(t) PROVE Safe'
<1> DEFINE j == [job[t] EXCEPT !.at = "trigger"]
<1>1. On(rec, saved, chain, link, proc) /\ Steady /\ job[t].at = "save" /\ job[t] \in Jobs
  BY DEF Safe, Alive, Save, At, Steady
<1>2. On(rec, rec, chain, link, proc)
  BY <1>1, SaveKeeps
<1>3. job[t].i = 1
  BY <1>1 DEF On, JobInv
<1>4. job' = [job EXCEPT ![t] = j]
  BY DEF Save, At
<1>5. j \in Jobs /\ j.at = "trigger" /\ j.i = 1 /\ j.c = job[t].c /\ j.pid = job[t].pid
  <2> DEFINE x == job[t]
  <2>1. x \in Jobs /\ x.i = 1
    BY <1>1, <1>3
  <2> HIDE DEF x
  <2>2. LET y == [x EXCEPT !.at = "trigger"] IN
        y \in Jobs /\ y.at = "trigger" /\ y.i = 1 /\ y.c = x.c /\ y.pid = x.pid
    BY <2>1 DEF Jobs
  <2> QED BY <2>2 DEF x
<1> HIDE DEF j
<1>6. job'[t] = j /\ \A u \in Threads \ {t} : job'[u] = job[u]
  BY <1>1, <1>4 DEF Steady
<1>7. /\ running' = running /\ bridge' = bridge /\ next' = next /\ pool' = pool /\ rec' = rec
      /\ saved' = rec /\ chain' = chain /\ link' = link /\ proc' = proc /\ procs' = procs
      /\ leaked' = leaked /\ odd' = odd /\ twice' = twice
  BY DEF Save, kernel, history
<1>8. JobFile(rec, saved)' /\ FileInv(rec, saved, proc)'
  BY <1>7 DEF JobFile, Kept, FileInv
<1>9. \A u \in Threads : /\ job'[u].c = job[u].c
                         /\ (job'[u].at # "idle") <=> (job[u].at # "idle")
                         /\ (job'[u].at \in {"save", "trigger"}) <=> (job[u].at \in {"save", "trigger"})
                         /\ job'[u].at = "forward" => job'[u] = job[u]
                         /\ job[u].at = "forward" => job'[u] = job[u]
  BY <1>1, <1>5, <1>6
<1>10. ASSUME NEW c \in C, NEW i PROVE (Laid(c, i)' <=> Laid(c, i)) /\ (Busy(c)' <=> Busy(c))
  BY <1>9 DEF Laid, In, Busy
<1>11. CountInv(rec, saved, chain)'
  <2>1. ASSUME NEW r PROVE Owed(rec, saved, r)' = Owed(rec, rec, r)
    BY <1>7, <1>10 DEF Owed, Entries, Kept
  <2> QED BY <1>2, <1>7, <2>1 DEF On, CountInv
<1>12. RuleInv(rec, chain)'
  BY <1>1, <1>7, <1>10 DEF On, RuleInv, Ready, Has
<1>13. chain' \in [Dnat -> Nat]
  BY <1>1, <1>7 DEF On, Typed, Kernel
<1>14. /\ job[t].at \in {"check", "forward", "save"} /\ j \in Jobs /\ j.at \in {"forward", "save", "trigger"}
       /\ j.c = job[t].c /\ j.pid = job[t].pid /\ j.i >= 1 /\ (j.at # "forward" => j.i = 1)
  BY <1>1, <1>5
<1> QED BY <1>4, <1>7, <1>8, <1>11, <1>12, <1>13, <1>14, LateMoves

(* Without an address there is nothing to publish. *)
LEMMA CheckAddressStep == ASSUME Safe, NEW t \in Threads, CheckAddress(t) PROVE Safe'
<1> DEFINE c == job[t].c
           to == IF rec[c].ip = 0 THEN "save" ELSE "forward"
           j == [job[t] EXCEPT !.at = to]
<1>1. On(rec, saved, chain, link, proc) /\ Steady /\ job[t].at = "check" /\ job[t] \in Jobs
  BY DEF Safe, Alive, CheckAddress, At, Steady
<1>2. c \in C /\ job[t].i = 1 /\ \A u \in Threads \ {t} : job[u].at # "idle" => job[u].c # c
  BY <1>1 DEF On, JobInv
<1>3. job' = [job EXCEPT ![t] = j]
  BY DEF CheckAddress, At
<1>4. to \in {"save", "forward"} /\ (to = "save" => rec[c].ip = 0)
  OBVIOUS
<1>5. j \in Jobs /\ j.at = to /\ j.i = 1 /\ j.c = c /\ j.pid = job[t].pid
  <2> DEFINE x == job[t]
  <2>1. x \in Jobs /\ x.i = 1
    BY <1>1, <1>2
  <2> HIDE DEF x, to
  <2>2. LET y == [x EXCEPT !.at = to] IN
        y \in Jobs /\ y.at = to /\ y.i = 1 /\ y.c = x.c /\ y.pid = x.pid
    BY <1>4, <2>1 DEF Jobs
  <2> QED BY <2>2 DEF x
<1> HIDE DEF j, to
<1>6. job'[t] = j /\ \A u \in Threads \ {t} : job'[u] = job[u]
  BY <1>1, <1>3 DEF Steady
<1>7. /\ running' = running /\ bridge' = bridge /\ next' = next /\ pool' = pool /\ rec' = rec
      /\ saved' = saved /\ chain' = chain /\ link' = link /\ proc' = proc /\ procs' = procs
      /\ leaked' = leaked /\ odd' = odd /\ twice' = twice
  BY DEF CheckAddress, kernel, history
<1>8. \A u \in Threads : /\ job'[u].c = job[u].c
                         /\ (job'[u].at # "idle") <=> (job[u].at # "idle")
                         /\ (job'[u].at = "trigger") <=> (job[u].at = "trigger")
  BY <1>1, <1>4, <1>5, <1>6
<1>9. \A u \in Threads, d \in C : In(u, d)' <=> In(u, d)
  BY <1>8 DEF In
<1>10. \A d \in C : (Busy(d)' <=> Busy(d)) /\ (Settled(d)' <=> Settled(d))
  BY <1>8, <1>9 DEF Busy, Settled
<1>11. In(t, c) /\ \A d \in C : In(t, d) => d = c
  BY <1>1 DEF In
<1>12. ASSUME NEW d \in C, NEW i \in Nat, i >= 1, rec[d].ip # 0 PROVE Laid(d, i)' <=> Laid(d, i)
  <2>1. CASE d # c
    <3>1. \A u \in Threads : In(u, d) => job'[u] = job[u]
      BY <1>6, <1>11, <2>1
    <3> QED BY <1>9, <3>1 DEF Laid
  <2>2. CASE d = c
    <3>1. ~Laid(d, i)
      BY <1>1, <1>11, <2>2 DEF Laid
    <3>2. In(t, d)' /\ job'[t].at = "forward" /\ job'[t].i = 1
      BY <1>4, <1>5, <1>6, <1>9, <1>11, <1>12, <2>2
    <3>3. ~(Laid(d, i)')
      BY <1>12, <3>2 DEF Laid
    <3> QED BY <3>1, <3>3
  <2> QED BY <2>1, <2>2
<1>13. JobFile(rec, saved)' /\ FileInv(rec, saved, proc)'
  BY <1>1, <1>7, <1>8, <1>10 DEF On, JobFile, Kept, FileInv, Survives
<1>14. RuleInv(rec, chain)'
  <2> SUFFICES ASSUME NEW d \in C \ odd, rec[d].st \in Active, rec[d].ip \notin twice \cup {0},
                      NEW i \in DOMAIN rec[d].ports, Laid(d, i)'
               PROVE  Ready(rec, chain, d, i)
    BY <1>7 DEF RuleInv, Ready, Has
  <2>1. rec[d] \in Records
    BY <1>1 DEF On, Typed
  <2>2. i \in Nat /\ i >= 1
    BY <2>1, RecordFields
  <2>3. Laid(d, i)
    BY <1>12, <2>2
  <2> QED BY <1>1, <2>3 DEF On, RuleInv
<1>15. CountInv(rec, saved, chain)'
  <2>1. ASSUME NEW r PROVE Owed(rec, saved, r)' = Owed(rec, saved, r)
    <3>1. \A e \in Entries(rec, C, r) : e[1] \in C /\ e[2] \in Nat /\ e[2] >= 1 /\ rec[e[1]].ip # 0
      BY DEF Entries
    <3>2. Entries(rec, C, r)' = Entries(rec, C, r)
      BY <1>7 DEF Entries
    <3>3. ASSUME NEW e \in Entries(rec, C, r)
          PROVE  /\ Laid(e[1], e[2])' <=> Laid(e[1], e[2])
                 /\ (Busy(e[1]) \/ Kept(rec, saved, e[1]))' <=> Busy(e[1]) \/ Kept(rec, saved, e[1])
      BY <1>7, <1>10, <1>12, <3>1 DEF Kept
    <3> QED BY <3>2, <3>3 DEF Owed
  <2> QED BY <1>1, <1>7, <2>1 DEF On, CountInv
<1>16. /\ job[t].at \in {"check", "forward", "save"} /\ j \in Jobs /\ j.at \in {"forward", "save", "trigger"}
       /\ j.c = job[t].c /\ j.pid = job[t].pid /\ j.i >= 1 /\ (j.at # "forward" => j.i = 1)
  BY <1>1, <1>4, <1>5
<1>17. (saved' = saved \/ saved' = rec) /\ chain' \in [Dnat -> Nat]
  BY <1>1, <1>7 DEF On, Typed, Kernel
<1> QED BY <1>3, <1>7, <1>13, <1>14, <1>15, <1>16, <1>17, LateMoves

(* One more rule, which the entry that asks for it owes; or all are there. *)
LEMMA ForwardStep == ASSUME Safe, NEW t \in Threads, Forward(t) PROVE Safe'
<1> DEFINE c == job[t].c
           k == job[t].i
           x == job[t]
<1>1. /\ On(rec, saved, chain, link, proc) /\ Steady /\ job[t].at = "forward" /\ x \in Jobs
      /\ chain \in [Dnat -> Nat]
  BY DEF Safe, Alive, Forward, Steady, On, Typed, Kernel
<1>2. /\ c \in C /\ k \in Nat /\ k >= 1 /\ rec[c] \in Records
      /\ \A u \in Threads \ {t} : job[u].at # "idle" => job[u].c # c
  BY <1>1, JobFields DEF On, Typed, JobInv, Steady
<1>3. /\ running' = running /\ bridge' = bridge /\ next' = next /\ pool' = pool /\ rec' = rec
      /\ saved' = saved /\ link' = link /\ proc' = proc /\ procs' = procs
      /\ odd' = odd /\ twice' = twice
  BY DEF Forward
<1>4. /\ DOMAIN rec[c].ports = 1 .. Len(rec[c].ports) /\ Len(rec[c].ports) \in Nat
      /\ \A i \in DOMAIN rec[c].ports : rec[c].ports[i] \in 1 .. MaxPort /\ i \in 1 .. MaxMaps
      /\ rec[c].ip # 0 => rec[c].ip \in Hosts
  BY <1>2, RecordFields
<1>5. CASE k <= Len(rec[c].ports)
  <2> DEFINE j == [x EXCEPT !.i = @ + 1]
             q == [port |-> rec[c].ports[k], ip |-> rec[c].ip]
  <2>1. /\ chain' = [chain EXCEPT ![q] = @ + 1] /\ job' = [job EXCEPT ![t] = j]
        /\ leaked' = IF rec[c].ip = 0 THEN leaked \cup {q} ELSE leaked
    BY <1>5 DEF Forward
  <2>2. j \in Jobs /\ j.at = "forward" /\ j.i = k + 1 /\ j.c = c /\ j.pid = job[t].pid
    <3>1. x \in Jobs /\ x.at = "forward" /\ x.i \in Nat
      BY <1>1, <1>2
    <3> HIDE DEF x
    <3>2. LET y == [x EXCEPT !.i = @ + 1] IN
          y \in Jobs /\ y.at = "forward" /\ y.i = x.i + 1 /\ y.c = x.c /\ y.pid = x.pid
      BY <3>1 DEF Jobs
    <3> QED BY <3>2 DEF x
  <2>3. q \in Dnat /\ k \in DOMAIN rec[c].ports /\ q.port = rec[c].ports[k] /\ q.ip = rec[c].ip
    <3>1. k \in DOMAIN rec[c].ports
      BY <1>2, <1>4, <1>5
    <3> QED BY <1>4, <2>1, <3>1 DEF Dnat
  <2> HIDE DEF j, q, k, c, x
  <2>4. job'[t] = j /\ \A u \in Threads \ {t} : job'[u] = job[u]
    BY <1>1, <2>1 DEF Steady
  <2>5. /\ chain' \in [Dnat -> Nat] /\ chain'[q] = chain[q] + 1
        /\ \A r \in Dnat : r # q => chain'[r] = chain[r]
    BY <1>1, <2>1, <2>3
  <2>6. \A r \in Dnat : chain[r] > 0 => chain'[r] > 0
    BY <1>1, <2>5
  <2>7. In(t, c) /\ job[t].i = k /\ job[t].c = c
    BY <1>1 DEF In, c, k
  <2>8. \A u \in Threads : job'[u].c = job[u].c /\ job'[u].at = job[u].at
    BY <1>1, <2>2, <2>4, <2>7
  <2>9. \A u \in Threads, d \in C : In(u, d)' <=> In(u, d)
    BY <2>8 DEF In
  <2>10. \A d \in C : (Busy(d)' <=> Busy(d)) /\ (Settled(d)' <=> Settled(d))
    BY <2>8, <2>9 DEF Busy, Settled
  <2>11. ASSUME NEW d \in C, d # c, NEW i PROVE Laid(d, i)' <=> Laid(d, i)
    <3>1. \A u \in Threads : In(u, d) => job'[u] = job[u]
      BY <2>4, <2>7, <2>11 DEF In
    <3> QED BY <2>9, <3>1 DEF Laid
  <2>12. ASSUME NEW i \in Nat PROVE /\ Laid(c, i) <=> i < k
                                    /\ \A d \in C : d = c => (Laid(d, i)' <=> i < k + 1)
    <3>1. \A u \in Threads : In(u, c) <=> u = t
      BY <1>2, <2>7 DEF In
    <3>2. Laid(c, i) <=> i < k
      BY <1>1, <2>7, <3>1 DEF Laid
    <3>3. ASSUME NEW d \in C, d = c PROVE Laid(d, i)' <=> i < k + 1
      <4>1. \A u \in Threads : In(u, d)' <=> u = t
        BY <2>9, <3>1, <3>3
      <4> QED BY <2>2, <2>4, <4>1 DEF Laid
    <3> QED BY <3>2, <3>3
  <2>13. JobFile(rec, saved)' /\ FileInv(rec, saved, proc)'
    BY <1>1, <1>3, <2>8, <2>10 DEF On, JobFile, Kept, FileInv, Survives
  <2>14. RuleInv(rec, chain)'
    <3> SUFFICES ASSUME NEW d \in C \ odd, rec[d].st \in Active, rec[d].ip \notin twice \cup {0},
                        NEW i \in DOMAIN rec[d].ports, Laid(d, i)'
                 PROVE  Ready(rec, chain', d, i)
      BY <1>3 DEF RuleInv, Ready, Has
    <3>1. CASE Laid(d, i)
      <4>1. Ready(rec, chain, d, i)
        BY <1>1, <3>1 DEF On, RuleInv
      <4> QED BY <2>6, <4>1 DEF Ready, Has
    <3>2. CASE ~Laid(d, i)
      <4>1. d = c
        BY <2>11, <3>2
      <4>2. i \in Nat
        BY <1>4, <4>1
      <4>3. i = k
        BY <1>2, <2>12, <3>2, <4>1, <4>2
      <4>4. chain'[q] > 0
        BY <1>1, <2>3, <2>5
      <4> QED BY <2>3, <4>1, <4>3, <4>4 DEF Ready, Has, q
    <3> QED BY <3>1, <3>2
  <2>15. CountInv(rec, saved, chain)'
    <3> SUFFICES ASSUME NEW r \in Dnat \ leaked' PROVE chain'[r] <= Cardinality(Owed(rec, saved, r)')
      BY <1>3 DEF CountInv
    <3>0. r \in Dnat \ leaked /\ (r = q => rec[c].ip # 0)
      BY <2>1
    <3>1. chain[r] \in Nat /\ chain[r] <= Cardinality(Owed(rec, saved, r))
      BY <1>1, <3>0 DEF On, CountInv
    <3>2. IsFiniteSet(Owed(rec, saved, r)')
      <4>1. Owed(rec, saved, r)' \in SUBSET Entries(rec', C, r)
        BY DEF Owed, Entries
      <4> QED BY <4>1, EntriesFinite, FS_Subset
    <3>3. Owed(rec, saved, r) \subseteq Owed(rec, saved, r)'
      <4> SUFFICES ASSUME NEW e \in Owed(rec, saved, r) PROVE e \in Owed(rec, saved, r)'
        OBVIOUS
      <4>1. /\ e \in Entries(rec, C, r) /\ e[1] \in C /\ e[2] \in Nat /\ Laid(e[1], e[2])
            /\ Busy(e[1]) \/ Kept(rec, saved, e[1])
        BY PortsAssumption DEF Owed, Entries
      <4>2. Laid(e[1], e[2])'
        BY <1>2, <2>11, <2>12, <4>1
      <4> QED BY <1>3, <2>10, <4>1, <4>2 DEF Owed, Entries, Kept
    <3>4. CASE r # q
      BY <2>5, <3>1, <3>2, <3>3, <3>4, OwedGrows
    <3>5. CASE r = q
      <4> DEFINE O == Owed(rec, saved, r)
                 e == <<c, k>>
      <4>1. e \notin O
        <5>1. ~Laid(c, k)
          BY <1>2, <2>12
        <5> QED BY <5>1 DEF Owed
      <4>2. e \in Owed(rec, saved, r)'
        <5>1. e \in Entries(rec, C, r)
          BY <1>2, <1>4, <2>3, <3>0, <3>5 DEF Entries
        <5>2. PICK d \in C, i \in Nat : d = c /\ i = k
          BY <1>2
        <5>3. Busy(d)
          BY <2>7, <5>2 DEF Busy, In
        <5>4. Laid(d, i)' /\ Busy(d)'
          BY <1>2, <2>10, <2>12, <5>2, <5>3
        <5>5. e = <<d, i>> /\ <<d, i>> \in Entries(rec', C, r)
          BY <1>3, <5>1, <5>2
        <5>6. <<d, i>> \in Owed(rec, saved, r)'
          BY <5>4, <5>5 DEF Owed, Entries
        <5> QED BY <5>5, <5>6
      <4>3. IsFiniteSet(O) /\ Cardinality(O \cup {e}) = Cardinality(O) + 1 /\ IsFiniteSet(O \cup {e})
        BY <4>1, OwedFinite, FS_AddElement
      <4>4. O \cup {e} \subseteq Owed(rec, saved, r)'
        BY <3>3, <4>2
      <4>5. Cardinality(O) \in Nat
        BY <4>3, FS_CardinalityType
      <4> HIDE DEF O, e
      <4>6. chain'[r] \in Nat /\ chain'[r] <= Cardinality(O \cup {e})
        <5>1. chain[r] <= Cardinality(O)
          BY <3>1 DEF O
        <5> QED BY <2>5, <3>1, <3>5, <4>3, <4>5, <5>1
      <4> QED BY <3>2, <4>4, <4>6, OwedGrows
    <3> QED BY <3>4, <3>5
  <2>16. /\ job[t].at \in {"check", "forward", "save"} /\ j \in Jobs /\ j.at \in {"forward", "save", "trigger"}
         /\ j.c = job[t].c /\ j.pid = job[t].pid /\ j.i >= 1 /\ (j.at # "forward" => j.i = 1)
    BY <1>1, <1>2, <2>2, <2>7
  <2>17. saved' = saved \/ saved' = rec
    BY <1>3
  <2> QED BY <1>3, <2>1, <2>5, <2>13, <2>14, <2>15, <2>16, <2>17, LateMoves
<1>6. CASE k > Len(rec[c].ports)
  <2> DEFINE j == [x EXCEPT !.at = "save", !.i = 1]
  <2>1. chain' = chain /\ job' = [job EXCEPT ![t] = j] /\ leaked' = leaked
    <3>1. ~(k <= Len(rec[c].ports))
      BY <1>2, <1>4, <1>6
    <3> QED BY <3>1 DEF Forward
  <2>2. j \in Jobs /\ j.at = "save" /\ j.i = 1 /\ j.c = c /\ j.pid = job[t].pid
    <3>1. x \in Jobs
      BY <1>1
    <3> HIDE DEF x
    <3>2. LET y == [x EXCEPT !.at = "save", !.i = 1] IN
          y \in Jobs /\ y.at = "save" /\ y.i = 1 /\ y.c = x.c /\ y.pid = x.pid
      BY <3>1 DEF Jobs
    <3> QED BY <3>2 DEF x
  <2> HIDE DEF j, k, c, x
  <2>3. job'[t] = j /\ \A u \in Threads \ {t} : job'[u] = job[u]
    BY <1>1, <2>1 DEF Steady
  <2>4. In(t, c) /\ job[t].i = k /\ job[t].c = c
    BY <1>1 DEF In, c, k
  <2>5. \A u \in Threads : /\ job'[u].c = job[u].c
                           /\ (job'[u].at # "idle") <=> (job[u].at # "idle")
                           /\ (job'[u].at = "trigger") <=> (job[u].at = "trigger")
    BY <1>1, <2>2, <2>3, <2>4
  <2>6. \A u \in Threads, d \in C : In(u, d)' <=> In(u, d)
    BY <2>5 DEF In
  <2>7. \A d \in C : (Busy(d)' <=> Busy(d)) /\ (Settled(d)' <=> Settled(d))
    BY <2>5, <2>6 DEF Busy, Settled
  <2>8. ASSUME NEW d \in C, NEW i \in DOMAIN rec[d].ports PROVE Laid(d, i)' <=> Laid(d, i)
    <3>1. CASE d # c
      <4>1. \A u \in Threads : In(u, d) => job'[u] = job[u]
        BY <2>3, <2>4, <3>1 DEF In
      <4> QED BY <2>6, <4>1 DEF Laid
    <3>2. CASE d = c
      <4>1. \A u \in Threads : In(u, d) <=> u = t
        BY <1>2, <2>4, <3>2 DEF In
      <4>2. i < k
        BY <1>2, <1>4, <1>6, <3>2
      <4>3. Laid(d, i) /\ Laid(d, i)'
        BY <1>1, <2>2, <2>3, <2>4, <2>6, <4>1, <4>2 DEF Laid
      <4> QED BY <4>3
    <3> QED BY <3>1, <3>2
  <2>9. JobFile(rec, saved)' /\ FileInv(rec, saved, proc)'
    BY <1>1, <1>3, <2>5, <2>7 DEF On, JobFile, Kept, FileInv, Survives
  <2>10. RuleInv(rec, chain)'
    BY <1>1, <1>3, <2>1, <2>8 DEF On, RuleInv, Ready, Has
  <2>11. CountInv(rec, saved, chain)'
    <3>1. ASSUME NEW r PROVE Owed(rec, saved, r)' = Owed(rec, saved, r)
      <4>1. \A e \in Entries(rec, C, r) : e[1] \in C /\ e[2] \in DOMAIN rec[e[1]].ports
        BY DEF Entries
      <4>2. Entries(rec, C, r)' = Entries(rec, C, r)
        BY <1>3 DEF Entries
      <4>3. ASSUME NEW e \in Entries(rec, C, r)
            PROVE  /\ Laid(e[1], e[2])' <=> Laid(e[1], e[2])
                   /\ (Busy(e[1]) \/ Kept(rec, saved, e[1]))' <=> Busy(e[1]) \/ Kept(rec, saved, e[1])
        BY <1>3, <2>7, <2>8, <4>1 DEF Kept
      <4> QED BY <4>2, <4>3 DEF Owed
    <3> QED BY <1>1, <1>3, <2>1, <3>1 DEF On, CountInv
  <2>12. /\ job[t].at \in {"check", "forward", "save"} /\ j \in Jobs /\ j.at \in {"forward", "save", "trigger"}
         /\ j.c = job[t].c /\ j.pid = job[t].pid /\ j.i >= 1 /\ (j.at # "forward" => j.i = 1)
    BY <1>1, <2>2, <2>4
  <2>13. (saved' = saved \/ saved' = rec) /\ chain' \in [Dnat -> Nat]
    BY <1>1, <1>3, <2>1
  <2> QED BY <1>3, <2>1, <2>9, <2>10, <2>11, <2>12, <2>13, LateMoves
<1> QED BY <1>2, <1>4, <1>5, <1>6

(* The program runs and the start is over. *)
LEMMA TriggerStep == ASSUME Safe, NEW t \in Threads, Trigger(t) PROVE Safe'
<1> DEFINE p == job[t].pid
<1>1. On(rec, saved, chain, link, proc) /\ Steady /\ job[t].at = "trigger"
  BY DEF Safe, Alive, Trigger
<1>2. p \in 1 .. procs /\ p \in Pids
  <2>1. p \in 1 .. procs
    BY <1>1 DEF On, JobInv
  <2> QED BY <1>1, <2>1, IdsAssumption DEF Steady, Pids
<1>3. /\ proc' = [proc EXCEPT ![p].st = "run"] /\ proc[p].st = "start" /\ End(t)
      /\ running' = running /\ bridge' = bridge /\ next' = next /\ pool' = pool /\ rec' = rec
      /\ saved' = saved /\ chain' = chain /\ link' = link /\ procs' = procs
      /\ leaked' = leaked /\ odd' = odd /\ twice' = twice
  BY DEF Trigger, history
<1> HIDE DEF p
<1>4. /\ proc' \in [Pids -> [st : {"none", "start", "run", "dead"}, ip : {0} \cup Hosts]]
      /\ proc'[p].st = "run" /\ \A q \in Pids \ {p} : proc'[q] = proc[q]
      /\ \A q \in Pids : proc'[q].ip = proc[q].ip
  BY <1>1, <1>2, <1>3 DEF On, Typed, Kernel
<1>5. On(rec, saved, chain, link, proc')
  <2>1. \A c \in C : /\ rec[c].pid \in Pids \cup {NoProc} /\ saved[c].pid \in Pids \cup {NoProc}
    BY <1>1, RecordFields DEF On, Typed
  <2>2. \A c \in C : (rec[c].st \in Active => rec[c].pid \in Pids) /\ (saved[c].st \in Active => saved[c].pid \in Pids)
    BY <1>1, <2>1 DEF On, Sound, Sane
  <2>3. \A q \in Pids : Lives(proc', q) <=> Lives(proc, q)
    BY <1>3, <1>4 DEF Lives
  <2>4. ProcInv(proc')
    <3>1. ~(p > procs)
      BY <1>1, <1>2 DEF Steady
    <3> QED BY <1>1, <1>4, <2>3, <3>1 DEF On, ProcInv
  <2>5. \A c \in C : Survives(saved[c], proc') <=> Survives(saved[c], proc)
    BY <1>3, <1>4, <2>2 DEF Survives, Active
  <2>6. FileInv(rec, saved, proc') /\ HeldInv(rec, proc')
    BY <1>1, <1>4, <2>2, <2>5 DEF On, FileInv, HeldInv
  <2>7. LinksLive(link, proc')
    BY <1>1, <2>3 DEF On, LinksLive
  <2>8. Kernel(chain, link, proc')
    BY <1>1, <1>4 DEF On, Typed, Kernel
  <2> QED BY <1>1, <2>4, <2>6, <2>7, <2>8 DEF On, Typed
<1>6. Alive' /\ Steady'
  BY <1>1, <1>3, <1>5, EndKeeps
<1>7. Numbered'
  BY <1>3 DEF Safe, Numbered
<1> QED BY <1>3, <1>6, <1>7 DEF Safe

(* net init and net teardown. *)
LEMMA BridgeStep == ASSUME Safe, bridge_init \/ bridge_teardown PROVE Safe'
<1>1. /\ bridge' \in {"none", "half", "up"} /\ running' = running /\ proc' = proc /\ link' = link
      /\ chain' = chain /\ pool' = pool /\ rec' = rec /\ next' = next /\ saved' = saved /\ job' = job
      /\ procs' = procs /\ leaked' = leaked /\ odd' = odd /\ twice' = twice
  BY DEF bridge_init, bridge_teardown, history
<1>2. Alive'
  BY <1>1, Becomes DEF Safe, Alive
<1> QED BY <1>1, <1>2 DEF Safe, Steady, Numbered

(* A process ends by itself. *)
LEMMA ExitStep == ASSUME Safe, NEW p \in Pids, Exit(p) PROVE Safe'
<1>1. On(rec, saved, chain, link, proc) /\ Steady
  BY DEF Safe, Alive
<1>2. p \in 1 .. procs
  <2>1. ~(p > procs)
    BY <1>1 DEF On, ProcInv, Exit
  <2> QED BY <1>1, <2>1, IdsAssumption DEF Steady, Pids
<1>3. link' = [c \in C |-> IF link[c] \in {p} THEN NoProc ELSE link[c]]
  BY DEF Exit, Without
<1>4. proc' = [q \in Pids |-> IF q \in {p} THEN Dead ELSE proc[q]]
  BY <1>1 DEF Exit, Kill, On, Typed, Kernel
<1>5. On(rec, saved, chain, link', proc')
  BY <1>1, <1>2, <1>3, <1>4, KillKeeps
<1>6. /\ running' = running /\ bridge' = bridge /\ chain' = chain /\ pool' = pool /\ rec' = rec
      /\ next' = next /\ saved' = saved /\ job' = job /\ procs' = procs
      /\ leaked' = leaked /\ odd' = odd /\ twice' = twice
  BY DEF Exit, history
<1>7. Alive'
  BY <1>5, <1>6, Becomes
<1> QED BY <1>6, <1>7 DEF Safe, Steady, Numbered
-----------------------------------------------------------------------------
(* Ends and restarts of the simulator *)

(* The simulator is gone.  The starts that it cut off are known as such,    *)
(* and for all other containers the file tells what the list did.           *)
LEMMA DownKeeps ==
    ASSUME Steady, bridge \in {"none", "half", "up"},
           NEW l, NEW f, NEW ch, NEW lk, NEW pr, On(l, f, ch, lk, pr), Down,
           saved' = f, chain' = ch, proc' = pr, bridge' = bridge, procs' = procs, twice' = twice,
           link' \in [C -> Pids \cup {NoProc, Host}], odd \subseteq odd', leaked \subseteq leaked',
           \A t \in Threads : job[t].at # "idle" => job[t].c \in odd' /\ Rules(l[job[t].c]) \subseteq leaked',
           \A c \in C : (c \notin odd' => link'[c] = lk[c]) /\ (link'[c] \in Pids => link'[c] = lk[c])
    PROVE  NetInv'
<1>1. /\ running' = FALSE /\ rec' = [c \in C |-> Nobody] /\ next' = 1 /\ pool' = 2
      /\ job' = [t \in Threads |-> Idle]
  BY DEF Down
<1>2. Nobody \in Records /\ Idle \in Jobs
  <2>1. 0 \in {0} \cup Hosts /\ 1 \in Nat
    BY PoolAssumption
  <2> QED BY <2>1 DEF Nobody, Records, Idle, Jobs
<1>3. NetTypeOK'
  <2>1. rec' \in [C -> Records] /\ job' \in [Threads -> Jobs]
    BY <1>1, <1>2
  <2>2. next' \in 1 .. (MaxIds + 1) /\ pool' \in 2 .. (LastHost + 2)
    BY <1>1, IdsAssumption, PoolAssumption
  <2> QED BY <1>1, <2>1, <2>2 DEF NetTypeOK, Steady, On, Typed, Kernel
<1>4. ASSUME NEW c \in C \ odd'
      PROVE  /\ c \notin odd /\ link'[c] = lk[c] /\ Settled(c) /\ ~Busy(c) /\ \A i : Laid(c, i)
             /\ Survives(f[c], pr) => l[c] = f[c] /\ l[c].st \in Active
  <2>1. c \notin odd /\ link'[c] = lk[c] /\ \A t \in Threads : ~In(t, c)
    BY DEF In
  <2>2. Settled(c) /\ ~Busy(c) /\ \A i : Laid(c, i)
    BY <2>1 DEF Settled, Busy, In, Laid
  <2>3. Survives(f[c], pr) => l[c] = f[c] /\ l[c].st \in Active
    BY <2>1 DEF On, FileInv, Survives, Active
  <2> QED BY <2>1, <2>2, <2>3
<1>5. Sound(saved)' /\ ProcInv(proc)'
  BY DEF On, Sound, Blank, Sane, Apart, Given, ProcInv, Lives
<1>6. LinksLive(link, proc)'
  BY DEF On, LinksLive, Lives
<1>7. ASSUME NEW c \in C \ odd', Survives(f[c], pr) PROVE pr[f[c].pid].ip \in {0, f[c].ip}
  BY <1>4, <1>7 DEF On, HeldInv
<1>8. ASSUME NEW c \in C \ odd', link'[c] # NoProc PROVE Survives(f[c], pr) /\ Holds(f[c], link'[c])
  <2>1. Holds(l[c], lk[c]) /\ link'[c] = lk[c]
    <3>1. ~Busy(c)
      BY <1>4
    <3> QED BY <1>4, <1>8, <3>1 DEF On, LinkInv, Busy
  <2>2. f[c] = l[c]
    BY <1>4, <2>1 DEF On, FileInv, Holds
  <2>3. l[c].pid \in Pids
    BY <2>1, RecordFields DEF On, Typed, Sound, Sane, Holds
  <2>4. Lives(pr, l[c].pid)
    BY <2>1, <2>3 DEF On, LinksLive, Holds
  <2> QED BY <2>1, <2>2, <2>4 DEF Survives, Holds, Active, Lives
<1>9. ASSUME NEW r \in Dnat \ leaked' PROVE ch[r] <= Cardinality(Entries(f, C, r))
  <2>1. ch[r] \in Nat /\ ch[r] <= Cardinality(Owed(l, f, r))
    BY DEF On, CountInv, Typed, Kernel
  <2>2. Owed(l, f, r) \subseteq Entries(f, C, r)
    <3> SUFFICES ASSUME NEW e \in Owed(l, f, r) PROVE e \in Entries(f, C, r)
      OBVIOUS
    <3>1. e \in Entries(l, C, r) /\ (Busy(e[1]) \/ Kept(l, f, e[1]))
      BY DEF Owed
    <3>2. ~Busy(e[1])
      <4>1. r = [port |-> l[e[1]].ports[e[2]], ip |-> l[e[1]].ip] /\ e[2] \in DOMAIN l[e[1]].ports
        BY <3>1 DEF Entries, Dnat
      <4>2. r \in Rules(l[e[1]])
        BY <4>1 DEF Rules
      <4> QED BY <4>2 DEF Busy
    <3> QED BY <3>1, <3>2 DEF Entries, Kept
  <2> QED BY <2>1, <2>2, EntriesFinite, OwedGrows
<1>10. ASSUME NEW c \in C \ odd', Survives(f[c], pr), f[c].ip \notin twice \cup {0},
              NEW i \in DOMAIN f[c].ports
       PROVE  Ready(f, ch, c, i)
  <2>1. l[c] = f[c] /\ l[c].st \in Active /\ Laid(c, i) /\ c \notin odd
    BY <1>4, <1>10
  <2>2. Ready(l, ch, c, i)
    BY <1>10, <2>1 DEF On, RuleInv
  <2> QED BY <2>1, <2>2 DEF Ready
<1>11. Off(saved, chain, link, proc)'
  BY <1>1, <1>5, <1>6, <1>7, <1>8, <1>9, <1>10 DEF Off, Survives, Holds, Ready, Has, Entries
<1> QED BY <1>1, <1>3, <1>11 DEF NetInv

(* exit: every active container is stopped. *)
LEMMA ExitCommandStep == ASSUME Safe, ExitCommand PROVE NetInv'
<1> DEFINE act == {c \in C : Polled.rec[c].st \in Active}
           pids == {Polled.rec[c].pid : c \in act}
           n == MarkStopped(Polled, act)
<1>1. /\ \A t \in Threads : job[t].at = "idle"
      /\ Down /\ proc' = [p \in Pids |-> IF p \in pids THEN Dead ELSE proc[p]] /\ chain' = n.chain
      /\ link' = [c \in C |-> IF n.link[c] \in pids THEN NoProc ELSE n.link[c]]
      /\ saved' = n.rec /\ bridge' = bridge /\ procs' = procs
      /\ leaked' = leaked /\ odd' = odd /\ twice' = twice
  BY DEF ExitCommand, history
<1>2. /\ On(Polled.rec, Polled.rec, Polled.chain, Polled.link, proc) /\ Steady
      /\ Polled = [rec |-> Polled.rec, chain |-> Polled.chain, link |-> Polled.link]
  BY PollKeeps DEF Safe
<1>3. pids \in SUBSET (1 .. procs)
  <2> SUFFICES ASSUME NEW c \in act PROVE Polled.rec[c].pid \in 1 .. procs
    OBVIOUS
  <2>1. Polled.rec[c].pid \in Pids \cup {NoProc} /\ Polled.rec[c].pid # NoProc /\ Polled.rec[c].pid <= procs
    BY <1>2, RecordFields DEF On, Typed, Sound, Sane
  <2> QED BY <1>2, <2>1 DEF Pids, Steady
<1>4. \A c \in act : Polled.rec[c].st \in Active
  OBVIOUS
<1>5. act \in SUBSET C
  OBVIOUS
<1> HIDE DEF act, pids
<1>6. On(n.rec, n.rec, n.chain, n.link, proc)
  <2> HIDE DEF n
  <2>1. n = MarkStopped(Polled, act)
    BY DEF n
  <2> QED BY <1>2, <1>4, <1>5, <2>1, StopKeeps
<1> HIDE DEF n
<1>7. On(n.rec, n.rec, n.chain, link', proc')
  BY <1>1, <1>2, <1>3, <1>6, KillKeeps
<1>8. link' \in [C -> Pids \cup {NoProc, Host}]
  BY <1>7 DEF On, Typed, Kernel
<1> QED BY <1>1, <1>2, <1>7, <1>8, DownKeeps DEF Safe

(* SIGKILL in the middle of anything. *)
LEMMA CrashStep == ASSUME Safe, Crashed PROVE NetInv'
<1> DEFINE busy == {t \in Threads : job[t].at # "idle"}
<1>1. On(rec, saved, chain, link, proc) /\ Steady
  BY DEF Safe, Alive
<1>2. PICK half \in SUBSET {job[t].c : t \in {t \in busy : job[t].at = "veth"}} :
           link' = [c \in C |-> IF c \in half /\ link[c] = NoProc THEN Host ELSE link[c]]
  BY DEF Crashed
<1>3. /\ Down /\ odd' = odd \cup {job[t].c : t \in busy}
      /\ leaked' = leaked \cup UNION {Rules(rec[job[t].c]) : t \in busy}
      /\ bridge' = bridge /\ proc' = proc /\ chain' = chain /\ saved' = saved /\ procs' = procs
      /\ twice' = twice
  BY DEF Crashed
<1>4. link' \in [C -> Pids \cup {NoProc, Host}]
  BY <1>1, <1>2 DEF On, Typed, Kernel
<1>5. Host \notin Pids
  BY DEF Host, Pids
<1>6. \A c \in C : (c \notin odd' => link'[c] = link[c]) /\ (link'[c] \in Pids => link'[c] = link[c])
  BY <1>2, <1>3, <1>5
<1>7. \A t \in Threads : job[t].at # "idle" => job[t].c \in odd' /\ Rules(rec[job[t].c]) \subseteq leaked'
  BY <1>3
<1>8. odd \subseteq odd' /\ leaked \subseteq leaked'
  BY <1>3
<1> QED BY <1>1, <1>3, <1>4, <1>6, <1>7, <1>8, DownKeeps DEF Safe

(* While the simulator is down processes still end. *)
LEMMA ExitDown == ASSUME NetInv, ~running, NEW p \in Pids, Exit(p) PROVE NetInv'
<1>1. NetTypeOK /\ Off(saved, chain, link, proc)
  BY DEF NetInv
<1>2. /\ running' = running /\ bridge' = bridge /\ chain' = chain /\ pool' = pool /\ rec' = rec
      /\ next' = next /\ saved' = saved /\ job' = job /\ procs' = procs
      /\ leaked' = leaked /\ odd' = odd /\ twice' = twice /\ Lives(proc, p)
  BY DEF Exit, history, Lives
<1>3. link' = [c \in C |-> IF link[c] \in {p} THEN NoProc ELSE link[c]]
  BY DEF Exit, Without
<1>4. proc' = [q \in Pids |-> IF q \in {p} THEN Dead ELSE proc[q]]
  BY <1>1 DEF Exit, Kill, NetTypeOK
<1>5. Kernel(chain, link', proc')
  <2>1. Kernel(chain, link, proc) /\ {p} \in SUBSET Pids
    BY <1>1 DEF NetTypeOK, Kernel
  <2> QED BY <1>3, <1>4, <2>1, KillTyped
<1>6. NetTypeOK'
  BY <1>1, <1>2, <1>5 DEF NetTypeOK, Kernel
<1>7. /\ proc'[p].st = "dead" /\ proc'[p].ip = 0 /\ \A q \in Pids \ {p} : proc'[q] = proc[q]
  BY <1>4 DEF Dead
<1>8. \A c \in C : link'[c] # NoProc => link'[c] = link[c] /\ link[c] # p
  BY <1>3
<1>9. \A c \in C : saved[c].st \in Active => saved[c].pid \in Pids
  <2>1. \A c \in C : saved[c].pid \in Pids \cup {NoProc}
    BY <1>1, RecordFields DEF NetTypeOK
  <2> QED BY <1>1, <2>1 DEF Off, Sound, Sane
<1>10. \A c \in C : Survives(saved[c], proc') => Survives(saved[c], proc) /\ saved[c].pid \in Pids
  BY <1>7, <1>9 DEF Survives, Active
<1>11. Sound(saved)'
  BY <1>1, <1>2 DEF Off, Sound, Blank, Sane, Apart, Given
<1>12. ProcInv(proc)'
  BY <1>1, <1>2, <1>7 DEF Off, ProcInv, Lives
<1>13. LinksLive(link, proc)'
  <2> SUFFICES ASSUME NEW c \in C, link'[c] \in Pids PROVE Lives(proc', link'[c])
    BY DEF LinksLive, Lives
  <2>1. link'[c] # NoProc
    BY DEF Pids, NoProc
  <2>2. link'[c] = link[c] /\ link[c] # p /\ link[c] \in Pids
    BY <1>8, <2>1
  <2> QED BY <1>1, <1>7, <2>2 DEF Off, LinksLive, Lives
<1>14. ASSUME NEW c \in C \ odd, Survives(saved[c], proc') PROVE proc'[saved[c].pid].ip \in {0, saved[c].ip}
  BY <1>1, <1>7, <1>10, <1>14 DEF Off
<1>15. ASSUME NEW c \in C \ odd, link'[c] # NoProc PROVE Survives(saved[c], proc') /\ Holds(saved[c], link'[c])
  <2>1. link'[c] = link[c] /\ link[c] # p /\ Survives(saved[c], proc) /\ Holds(saved[c], link[c])
    BY <1>1, <1>8, <1>15 DEF Off
  <2>2. saved[c].pid \in Pids \ {p}
    BY <1>9, <2>1 DEF Holds
  <2> QED BY <1>7, <2>1, <2>2 DEF Survives
<1>16. ASSUME NEW c \in C \ odd, Survives(saved[c], proc'), saved[c].ip \notin twice \cup {0},
              NEW i \in DOMAIN saved[c].ports
       PROVE  Ready(saved, chain, c, i)
  BY <1>1, <1>10, <1>16 DEF Off
<1>17. Off(saved, chain, link, proc)'
  <2>1. rec' = [c \in C |-> Nobody] /\ job' = [t \in Threads |-> Idle]
    BY <1>1, <1>2 DEF Off
  <2>2. \A r \in Dnat \ leaked' : chain'[r] <= Cardinality(Entries(saved', C, r))
    BY <1>1, <1>2 DEF Off
  <2> QED BY <1>2, <1>11, <1>12, <1>13, <1>14, <1>15, <1>16, <2>1, <2>2
      DEF Off, Survives, Holds, Ready, Has, Entries
<1> QED BY <1>2, <1>6, <1>17 DEF NetInv

(* The counter after a restart is ahead of every address in the file. *)
LEMMA PoolIs ==
    ASSUME NEW U \in SUBSET ({0} \cup Hosts)
    PROVE  bridge_mark_ip_used(U) \in 2 .. (LastHost + 2) /\ \A a \in U : a < bridge_mark_ip_used(U)
<1> DEFINE K == {h \in 2 .. (LastHost + 2) : \A a \in U : a < h}
<1>0. ASSUME NEW a \in U PROVE a < LastHost + 2
  <2>1. a = 0 \/ a \in Hosts
    OBVIOUS
  <2> QED BY <2>1, PoolAssumption
<1>1. LastHost + 2 \in K
  <2>1. LastHost + 2 \in 2 .. (LastHost + 2)
    BY PoolAssumption
  <2> QED BY <1>0, <2>1
<1>2. Min(K) \in K
  <2>1. K \in SUBSET Nat /\ K # {}
    BY <1>1
  <2> HIDE DEF K
  <2> QED BY <2>1, LeastIn
<1> QED BY <1>2 DEF bridge_mark_ip_used

(* container_manager_init *)
LEMMA RestartStep == ASSUME NetInv, Restart PROVE Safe'
<1>1. NetTypeOK /\ Off(saved, chain, link, proc)
  BY DEF NetInv, Restart
<1>2. /\ running' = TRUE /\ bridge' = bridge /\ chain' = chain /\ link' = link /\ proc' = proc
      /\ saved' = saved /\ job' = job /\ procs' = procs
      /\ leaked' = leaked /\ odd' = odd /\ twice' = twice
      /\ pool' = bridge_mark_ip_used({saved[c].ip : c \in C})
      /\ next' = NumberAfter({c \in C : saved[c].st # "NONE"})
  BY DEF Restart, kernel, history
<1>3. \A t \in Threads : job[t].at = "idle"
  BY <1>1 DEF Off, Idle
<1> DEFINE gone(c) == saved[c].st = "RUNNING" /\ proc[saved[c].pid].st = "dead"
<1>4. /\ rec' \in [C -> Records]
      /\ \A c \in C : /\ gone(c) => rec'[c].st = "STOPPED" /\ rec'[c].pid = NoProc
                      /\ ~gone(c) => rec'[c] = saved[c]
                      /\ rec'[c].ip = saved[c].ip /\ rec'[c].ports = saved[c].ports
  <2>1. rec' = [c \in C |-> IF gone(c) THEN Stopped(saved[c]) ELSE saved[c]]
    BY DEF Restart, Stopped
  <2> HIDE DEF gone
  <2>2. ASSUME NEW c \in C
        PROVE  LET r == Stopped(saved[c]) IN
               /\ r \in Records /\ r.st = "STOPPED" /\ r.pid = NoProc
               /\ r.ip = saved[c].ip /\ r.ports = saved[c].ports
    <3>1. saved[c] \in Records
      BY <1>1 DEF NetTypeOK
    <3> QED BY <3>1 DEF Stopped, Records
  <2>3. saved \in [C -> Records]
    BY <1>1 DEF NetTypeOK
  <2> QED BY <2>1, <2>2, <2>3
<1>5. \A c \in C : Survives(saved[c], proc) => rec'[c] = saved[c]
  BY <1>4 DEF Survives
<1>6. \A c \in C : rec'[c].st \in Active => rec'[c] = saved[c] /\ Survives(saved[c], proc)
  BY <1>4 DEF Survives, Active
<1> HIDE DEF gone
<1>7. Steady' /\ \A c \in C : saved[c].ip < pool'
  <2>1. \A c \in C : saved[c].ip \in {0} \cup Hosts
    BY <1>1, RecordFields DEF NetTypeOK
  <2> DEFINE U == {saved[c].ip : c \in C}
  <2>2. U \in SUBSET ({0} \cup Hosts)
    BY <2>1
  <2>3. pool' = bridge_mark_ip_used(U)
    BY <1>2
  <2>4. \A c \in C : saved[c].ip \in U
    OBVIOUS
  <2> HIDE DEF U
  <2>5. pool' \in 2 .. (LastHost + 2) /\ \A a \in U : a < pool'
    BY <2>2, <2>3, PoolIs
  <2>6. job' \in [Threads -> Jobs] /\ procs' \in 0 .. MaxProcs
    BY <1>1, <1>2 DEF NetTypeOK
  <2> QED BY <2>4, <2>5, <2>6 DEF Steady
<1>8. Numbered' /\ next' \in 1 .. (MaxIds + 1)
  <2> DEFINE S == {c \in C : saved[c].st # "NONE"}
  <2>1. next' = NumberAfter(S) /\ S \in SUBSET C
    BY <1>2
  <2>2. next' \in 1 .. (MaxIds + 1) /\ \A c \in S : c < next'
    BY <2>1, NumberIs
  <2>3. ASSUME NEW c \in C, c >= next' PROVE rec'[c].st = "NONE"
    <3>1. c \notin S
      BY <2>2, <2>3 DEF C
    <3> QED BY <1>4, <3>1 DEF gone
  <2> QED BY <2>2, <2>3 DEF Numbered
<1>9. Typed(rec, saved, chain, link, proc)' /\ ProcInv(proc)'
  BY <1>1, <1>2, <1>4 DEF NetTypeOK, Typed, Kernel, Off, ProcInv, Lives
<1>10. Sound(rec)'
  <2>1. Blank(rec)'
    BY <1>1, <1>4 DEF Off, Sound, Blank
  <2>2. Given(rec)'
    BY <1>1, <1>2, <1>6 DEF Off, Sound, Given, Survives, Active
  <2>3. Sane(rec)'
    BY <1>1, <1>2, <1>4, <1>6 DEF NetTypeOK, Off, Sound, Sane, NoProc
  <2>4. Apart(rec)'
    BY <1>1, <1>2, <1>4 DEF Off, Sound, Apart
  <2> QED BY <2>1, <2>2, <2>3, <2>4 DEF Sound
<1>11. Sound(saved)'
  BY <1>1, <1>2 DEF Off, Sound, Blank, Sane, Apart, Given
<1>12. JobInv' /\ JobList(rec)' /\ Unnamed(rec)' /\ Unnamed(saved)' /\ JobFile(rec, saved)'
  BY <1>2, <1>3 DEF JobInv, JobList, Unnamed, JobFile, Before
<1>13. PoolInv(rec)'
  BY <1>2, <1>3, <1>4, <1>7 DEF PoolInv, Drawing
<1>14. FileInv(rec, saved, proc)'
  BY <1>2, <1>5, <1>6 DEF FileInv, Survives
<1>15. HeldInv(rec, proc)' /\ LinksLive(link, proc)'
  BY <1>1, <1>2, <1>6 DEF Off, HeldInv, LinksLive, Lives
<1>16. \A c \in C : (\A t \in Threads : ~In(t, c)') /\ ~Busy(c)' /\ \A i : Laid(c, i)'
  BY <1>2, <1>3 DEF In, Busy, Laid
<1>17. LinkInv(rec, link)'
  BY <1>1, <1>2, <1>5, <1>16 DEF Off, LinkInv, Holds
<1>18. CountInv(rec, saved, chain)'
  <2>1. ASSUME NEW r PROVE Owed(rec, saved, r)' = Entries(saved, C, r)
    <3>1. Entries(rec, C, r)' = Entries(saved, C, r)
      BY <1>4 DEF Entries
    <3>2. \A c \in C : Kept(rec, saved, c)'
      BY <1>2, <1>4 DEF Kept
    <3>3. \A e \in Entries(saved, C, r) : e[1] \in C
      BY DEF Entries
    <3> QED BY <1>16, <3>1, <3>2, <3>3 DEF Owed
  <2> QED BY <1>1, <1>2, <2>1 DEF Off, CountInv
<1>19. RuleInv(rec, chain)'
  BY <1>1, <1>2, <1>6 DEF Off, RuleInv, Ready, Has
<1>20. Alive'
  BY <1>9, <1>10, <1>11, <1>12, <1>13, <1>14, <1>15, <1>17, <1>18, <1>19 DEF Alive, On
<1>21. bridge' \in {"none", "half", "up"}
  BY <1>1, <1>2 DEF NetTypeOK
<1> QED BY <1>2, <1>7, <1>8, <1>20, <1>21 DEF Safe
-----------------------------------------------------------------------------
(* The invariant *)

(* While the simulator runs the invariant is Safe. *)
LEMMA SafeIs == (NetInv /\ running => Safe) /\ (Safe => NetInv)
<1>1. ASSUME NetInv, running PROVE Safe
  BY <1>1 DEF NetInv, NetTypeOK, Safe, Steady, Alive
<1>2. ASSUME Safe PROVE NetInv
  BY <1>2 DEF NetInv, NetTypeOK, Safe, Steady, Alive, On, Typed, Kernel
<1> QED BY <1>1, <1>2

(* It holds at first: there is nothing yet. *)
LEMMA NetInvInit == NetInit => NetInv
<1> SUFFICES ASSUME NetInit PROVE Safe
  BY SafeIs
<1>1. /\ Nobody.st = "NONE" /\ Nobody.ip = 0 /\ Nobody.pid = NoProc /\ Nobody.ports = <<>>
      /\ Nobody \in Records /\ Idle \in Jobs /\ Idle.at = "idle"
  <2>1. 0 \in {0} \cup Hosts /\ 1 \in Nat
    BY PoolAssumption
  <2> QED BY <2>1 DEF Nobody, Records, Idle, Jobs
<1>2. /\ \A c \in C : rec[c] = Nobody /\ saved[c] = Nobody /\ link[c] = NoProc
      /\ \A t \in Threads : job[t] = Idle
      /\ \A p \in Pids : proc[p].st = "none" /\ proc[p].ip = 0
      /\ \A r \in Dnat : chain[r] = 0
  BY DEF NetInit
<1>3. Typed(rec, saved, chain, link, proc)
  <2>1. rec \in [C -> Records] /\ saved \in [C -> Records] /\ link \in [C -> Pids \cup {NoProc, Host}]
    BY <1>1 DEF NetInit
  <2>2. proc \in [Pids -> [st : {"none", "start", "run", "dead"}, ip : {0} \cup Hosts]]
    BY PoolAssumption DEF NetInit
  <2>3. chain \in [Dnat -> Nat]
    BY DEF NetInit
  <2> QED BY <2>1, <2>2, <2>3 DEF Typed, Kernel
<1>4. Sound(rec) /\ Sound(saved) /\ ProcInv(proc)
  <2>1. procs = 0
    BY DEF NetInit
  <2> QED BY <1>1, <1>2, <2>1 DEF Sound, Blank, Sane, Apart, Given, ProcInv, Active, NoProc
<1>5. /\ JobInv /\ JobList(rec) /\ Unnamed(rec) /\ Unnamed(saved) /\ JobFile(rec, saved)
      /\ PoolInv(rec)
  BY <1>1, <1>2 DEF JobInv, JobList, Unnamed, JobFile, Before, PoolInv, Drawing
<1>6. /\ FileInv(rec, saved, proc) /\ HeldInv(rec, proc) /\ LinkInv(rec, link) /\ RuleInv(rec, chain)
      /\ LinksLive(link, proc)
  BY <1>1, <1>2 DEF FileInv, HeldInv, LinkInv, RuleInv, LinksLive, Survives, Active, Pids, NoProc
<1>7. CountInv(rec, saved, chain)
  <2>1. ASSUME NEW r \in Dnat PROVE 0 <= Cardinality(Owed(rec, saved, r))
    BY OwedFinite, FS_CardinalityType
  <2> QED BY <1>2, <2>1 DEF CountInv
<1>8. Alive
  BY <1>3, <1>4, <1>5, <1>6, <1>7 DEF Alive, On
<1>9. Steady /\ Numbered
  BY <1>1, <1>2, IdsAssumption, PoolAssumption DEF Steady, Numbered, NetInit
<1> QED BY <1>8, <1>9, IdsAssumption DEF Safe, NetInit

(* Every step of a start keeps it. *)
LEMMA StartStepKeeps == ASSUME Safe, DrawInv, NEW t \in Threads, StartStep(t) PROVE Safe'
<1>1. CASE NetSetupFails(t) \/ VethFails(t)
  BY <1>1, NoNetworkStep
<1>2. CASE AllocLoad(t)
  BY <1>2, AllocLoadStep
<1>3. CASE AllocStore(t)
  BY <1>3, AllocStoreStep
<1>4. CASE bridge_setup_veth(t)
  BY <1>4, VethStep
<1>5. CASE HandshakeFails(t)
  BY <1>5, HandshakeFailsStep
<1>6. CASE Handshake(t)
  BY <1>6, HandshakeStep
<1>7. CASE Forward(t)
  BY <1>7, ForwardStep
<1>8. CASE ForwardFails(t) \/ StartFails(t)
  BY <1>8, FailStep
<1>9. CASE Save(t)
  BY <1>9, SaveStep
<1>10. CASE Trigger(t)
  BY <1>10, TriggerStep
<1>11. CASE AllocCheck(t)
  BY <1>11, AllocCheckStep
<1>12. CASE CheckAddress(t)
  BY <1>12, CheckAddressStep
<1> QED BY <1>1, <1>2, <1>3, <1>4, <1>5, <1>6, <1>7, <1>8, <1>9, <1>10, <1>11, <1>12 DEF StartStep

(* Every step keeps it. *)
LEMMA NetInvStep == NetInv /\ DrawInv /\ [NetNext]_netVars => NetInv'
<1> SUFFICES ASSUME NetInv, DrawInv, [NetNext]_netVars PROVE NetInv'
  OBVIOUS
<1>1. running \in BOOLEAN
  BY DEF NetInv, NetTypeOK
<1>2. Safe' => NetInv'
  BY SafeIs, PTL
<1>3. running => Safe
  BY SafeIs
<1>4. CASE UNCHANGED netVars
  <2>1. /\ running' = running /\ bridge' = bridge /\ chain' = chain /\ link' = link /\ proc' = proc
        /\ pool' = pool /\ rec' = rec /\ next' = next /\ saved' = saved /\ job' = job /\ procs' = procs
        /\ leaked' = leaked /\ odd' = odd /\ twice' = twice
    BY <1>4 DEF netVars, kernel, history
  <2>2. CASE running
    <3>1. Alive'
      BY <1>3, <2>1, <2>2, Becomes DEF Safe, Alive
    <3> QED BY <1>2, <1>3, <2>1, <2>2, <3>1 DEF Safe, Steady, Numbered
  <2>3. CASE ~running
    <3>1. NetTypeOK'
      BY <2>1 DEF NetInv, NetTypeOK
    <3>2. Off(saved, chain, link, proc)
      BY <2>3 DEF NetInv
    <3>3. Sound(saved)' /\ ProcInv(proc)' /\ LinksLive(link, proc)'
      BY <2>1, <3>2 DEF Off, Sound, Blank, Sane, Apart, Given, ProcInv, LinksLive, Lives
    <3>4. Off(saved, chain, link, proc)'
      BY <2>1, <3>2, <3>3 DEF Off, Survives, Holds, Ready, Has, Entries
    <3> QED BY <2>1, <2>3, <3>1, <3>4 DEF NetInv
  <2> QED BY <2>2, <2>3
<1>5. CASE bridge_init \/ bridge_teardown
  BY <1>2, <1>3, <1>5, BridgeStep DEF bridge_init, bridge_teardown
<1>6. CASE ExitCommand
  BY <1>3, <1>6, ExitCommandStep DEF ExitCommand
<1>7. CASE Crashed
  BY <1>3, <1>7, CrashStep DEF Crashed
<1>8. CASE Restart
  BY <1>2, <1>8, RestartStep
<1>9. ASSUME NEW t \in Threads, StartStep(t) PROVE NetInv'
  <2>1. running
    BY <1>9 DEF StartStep, NetSetupFails, AllocCheck, AllocLoad, AllocStore, VethFails,
                bridge_setup_veth, HandshakeFails, Handshake, CheckAddress, Forward, ForwardFails, Save, Trigger, StartFails, At
  <2> QED BY <1>2, <1>3, <1>9, <2>1, StartStepKeeps
<1>10. ASSUME NEW t \in Threads, poll_states(t) PROVE NetInv'
  BY <1>2, <1>3, <1>10, PollStep DEF poll_states, Command
<1>11. ASSUME NEW t \in Threads, NEW ports \in Ports, Run(t, ports) PROVE NetInv'
  BY <1>2, <1>3, <1>11, RunStep DEF Run
<1>12. ASSUME NEW t \in Threads, NEW c \in C, container_stop(t, c) \/ container_delete(t, c) PROVE NetInv'
  BY <1>2, <1>3, <1>12, StopStep, DeleteStep DEF container_stop, container_delete, Command
<1>13. ASSUME NEW ports \in Ports, container_create(ports) PROVE NetInv'
  BY <1>2, <1>3, <1>13, CreateStep DEF container_create, Command
<1>14. ASSUME NEW c \in C, Start(c) PROVE NetInv'
  BY <1>2, <1>3, <1>14, StartBegins DEF Start
<1>15. ASSUME NEW c \in C, container_pause(c) \/ container_unpause(c) PROVE NetInv'
  BY <1>2, <1>3, <1>15, PauseStep DEF container_pause, container_unpause, Command
<1>16. CASE container_prune_all
  BY <1>2, <1>3, <1>16, PruneStep DEF container_prune_all, Command
<1>17. ASSUME NEW p \in Pids, Exit(p) PROVE NetInv'
  BY <1>2, <1>3, <1>17, ExitStep, ExitDown
<1> QED BY <1>4, <1>5, <1>6, <1>7, <1>8, <1>9, <1>10, <1>11, <1>12, <1>13, <1>14, <1>15, <1>16, <1>17 DEF NetNext

(* A step that neither moves the counter nor lets a thread draw. *)
LEMMA DrawKept ==
    ASSUME DrawInv, pool' = pool,
           \A u \in Threads : job'[u].at \in {"draw", "store"} => job'[u] = job[u]
    PROVE  DrawInv'
BY DEF DrawInv

(* No more than one address past the end of the pool is ever taken. *)
LEMMA DrawStep == NetInv /\ DrawInv /\ [NetNext]_netVars => DrawInv'
<1> SUFFICES ASSUME NetInv, DrawInv, [NetNext]_netVars PROVE DrawInv'
  OBVIOUS
<1>1. job \in [Threads -> Jobs] /\ pool \in 2 .. (LastHost + 2) /\ pool \in Nat
  BY PoolAssumption DEF NetInv, NetTypeOK
<1>2. \A u \in Threads : job[u].ip \in Nat
  BY <1>1, JobFields, PoolAssumption
<1>3. ASSUME NEW t \in Threads, AllocCheck(t) PROVE DrawInv'
  <2>1. /\ pool <= LastHost /\ pool' = pool /\ job'[t].at = "draw"
        /\ \A u \in Threads \ {t} : job'[u] = job[u]
    BY <1>1, <1>3 DEF AllocCheck, At
  <2> QED BY <1>1, <1>2, <2>1, PoolAssumption DEF DrawInv
<1>4. ASSUME NEW t \in Threads, AllocLoad(t) PROVE DrawInv'
  <2>1. /\ job[t].at = "draw" /\ pool' = pool /\ job'[t].at = "store" /\ job'[t].ip = pool
        /\ \A u \in Threads \ {t} : job'[u] = job[u]
    BY <1>1, <1>4 DEF AllocLoad, Jobs
  <2> QED BY <1>1, <1>2, <2>1, PoolAssumption DEF DrawInv
<1>5. ASSUME NEW t \in Threads, AllocStore(t) PROVE DrawInv'
  <2>1. /\ job[t].at = "store" /\ pool' = job[t].ip + 1 /\ job'[t].at = "veth"
        /\ \A u \in Threads \ {t} : job'[u] = job[u]
    BY <1>1, <1>5 DEF AllocStore, At
  <2>2. ASSUME NEW u \in Threads \ {t}, NEW v \in Threads \ {u} PROVE v = t
    BY DEF Threads
  <2> QED BY <1>1, <1>2, <2>1, <2>2, PoolAssumption DEF DrawInv
<1>6. ASSUME NEW t \in Threads, NetSetupFails(t) \/ VethFails(t) \/ HandshakeFails(t) \/ ForwardFails(t)
                                \/ StartFails(t) \/ Trigger(t)
      PROVE  DrawInv'
  <2>1. pool' = pool /\ (End(t) \/ Loopback(t))
    BY <1>6 DEF NetSetupFails, VethFails, HandshakeFails, ForwardFails, StartFails, Trigger, NoNetwork, AbortStart
  <2>2. job'[t].at \in {"idle", "hand"} /\ \A u \in Threads \ {t} : job'[u] = job[u]
    <3>1. CASE End(t)
      BY <1>1, <3>1 DEF End, Idle
    <3>2. CASE Loopback(t)
      <4> DEFINE x == job[t]
                 j == [x EXCEPT !.at = "hand", !.ip = 0]
      <4>1. job' = [job EXCEPT ![t] = j]
        BY <3>2 DEF Loopback
      <4>2. x \in Jobs
        BY <1>1
      <4> HIDE DEF x
      <4>3. j.at = "hand"
        BY <4>2 DEF Jobs
      <4> QED BY <1>1, <4>1, <4>3
    <3> QED BY <2>1, <3>1, <3>2
  <2> QED BY <2>1, <2>2, DrawKept
<1>7. ASSUME NEW t \in Threads, bridge_setup_veth(t) \/ Handshake(t) \/ CheckAddress(t) \/ Save(t) \/ Forward(t)
      PROVE  DrawInv'
  <2>1. pool' = pool
    BY <1>7 DEF bridge_setup_veth, Handshake, CheckAddress, Save, Forward
  <2>2. job'[t].at \in {"hand", "check", "save", "forward", "trigger"} /\ \A u \in Threads \ {t} : job'[u] = job[u]
    <3>1. CASE Forward(t)
      <4> DEFINE x == job[t]
                 y == [x EXCEPT !.i = @ + 1]
                 z == [x EXCEPT !.at = "save", !.i = 1]
      <4>1. x \in Jobs /\ x.at = "forward" /\ (job' = [job EXCEPT ![t] = y] \/ job' = [job EXCEPT ![t] = z])
        BY <1>1, <3>1 DEF Forward
      <4> HIDE DEF x
      <4>2. y.at = "forward" /\ z.at = "save"
        BY <4>1 DEF Jobs
      <4> HIDE DEF y, z
      <4> QED BY <1>1, <4>1, <4>2
    <3>2. CASE ~Forward(t)
      <4>1. PICK to \in {"hand", "check", "save", "forward", "trigger"} : job' = [job EXCEPT ![t].at = to]
        <5>1. CASE bridge_setup_veth(t) \/ Handshake(t) \/ Save(t)
          BY <5>1 DEF bridge_setup_veth, Handshake, Save, At
        <5>2. CASE CheckAddress(t)
          BY <5>2 DEF CheckAddress, At
        <5> QED BY <1>7, <3>2, <5>1, <5>2
      <4> QED BY <1>1, <4>1
    <3> QED BY <3>1, <3>2
  <2> QED BY <2>1, <2>2, DrawKept
<1>8. ASSUME NEW t \in Threads, NEW c, NEW n, Begin(t, c, n) PROVE DrawInv'
  <2>1. pool' = pool /\ job'[t].at = "setup" /\ \A u \in Threads \ {t} : job'[u] = job[u]
    BY <1>1, <1>8 DEF Begin
  <2> QED BY <2>1, DrawKept
<1>9. CASE ExitCommand \/ Crashed
  <2>1. \A u \in Threads : job'[u].at = "idle"
    BY <1>9 DEF ExitCommand, Crashed, Down, Idle
  <2> QED BY <2>1 DEF DrawInv
<1>10. CASE Restart
  <2>1. job = [t \in Threads |-> Idle] /\ job' = job
    BY <1>10 DEF Restart, NetInv, Off
  <2>2. \A u \in Threads : job'[u].at = "idle"
    BY <2>1 DEF Idle
  <2> QED BY <2>2 DEF DrawInv
<1>11. CASE job' = job /\ pool' = pool
  BY <1>11, DrawKept
<1>12. ASSUME NEW t \in Threads, Command(t) PROVE job' = job /\ pool' = pool
  BY <1>12 DEF Command
<1>13. CASE \/ UNCHANGED netVars \/ bridge_init \/ bridge_teardown \/ container_prune_all
           \/ \E p \in Pids : Exit(p)
  BY <1>11, <1>12, <1>13 DEF netVars, bridge_init, bridge_teardown, Exit, container_prune_all, Threads
<1>14. ASSUME NEW t \in Threads, NEW c \in C,
              poll_states(t) \/ container_stop(t, c) \/ container_delete(t, c)
              \/ container_pause(c) \/ container_unpause(c)
       PROVE  DrawInv'
  BY <1>11, <1>12, <1>14
  DEF poll_states, container_stop, container_delete, container_pause, container_unpause, Threads
<1>15. ASSUME NEW ports \in Ports, container_create(ports) PROVE DrawInv'
  BY <1>11, <1>12, <1>15 DEF container_create, Threads
<1>16. ASSUME NEW t \in Threads, poll_states(t) PROVE DrawInv'
  BY <1>11, <1>12, <1>16 DEF poll_states
<1>17. ASSUME NEW t \in Threads, NEW ports \in Ports, Run(t, ports) PROVE DrawInv'
  BY <1>8, <1>17 DEF Run
<1>18. ASSUME NEW c \in C, Start(c) PROVE DrawInv'
  BY <1>8, <1>18 DEF Start, Threads
<1>19. ASSUME NEW c \in C, container_pause(c) \/ container_unpause(c) PROVE DrawInv'
  BY <1>11, <1>12, <1>19 DEF container_pause, container_unpause, Threads
<1> QED BY <1>3, <1>4, <1>5, <1>6, <1>7, <1>9, <1>10, <1>13, <1>14, <1>15, <1>16, <1>17, <1>18, <1>19
        DEF NetNext, StartStep

(* Lists, file, chain, links, processes and the starts in progress agree as *)
(* NetInv says, in every state that any sequence of commands of two         *)
(* threads, failures, crashes and restarts leads to.                        *)
THEOREM NetworkInvariant == NetSpec => []NetInv
<1>1. NetInit => DrawInv
  BY DEF NetInit, DrawInv, Idle
<1> QED BY <1>1, NetInvInit, NetInvStep, DrawStep, PTL DEF NetSpec

(* No two containers that run have the same address, unless it was drawn    *)
(* from the pool (bridge_alloc_ip, which takes no lock) while the other     *)
(* thread was drawing one, too.                                             *)
THEOREM AddressesAreUnique == NetSpec => []UniqueAddress
<1>1. NetInv => UniqueAddress
  <2> SUFFICES ASSUME NetInv, running, NEW p \in Listed, NEW q \in Listed, p # q,
                      proc[p].ip = proc[q].ip
               PROVE  proc[p].ip \in twice \cup {0}
    BY DEF UniqueAddress
  <2>1. On(rec, saved, chain, link, proc)
    BY DEF NetInv
  <2>2. PICK c \in C \ odd : rec[c].st \in Active /\ p = rec[c].pid
    BY DEF Listed
  <2>3. PICK d \in C \ odd : rec[d].st \in Active /\ q = rec[d].pid
    BY DEF Listed
  <2>4. proc[p].ip \in {0, rec[c].ip} /\ proc[q].ip \in {0, rec[d].ip} /\ c # d
    BY <2>1, <2>2, <2>3 DEF On, HeldInv
  <2> QED BY <2>1, <2>4 DEF On, Sound, Apart
<1> QED BY <1>1, NetworkInvariant, PTL

(* Rules and records agree: a rule that is in the chain and was not         *)
(* forgotten in a known way leads to a container with that address and that *)
(* port, and a container that publishes ports and runs has an address and,  *)
(* unless it shares it, all its rules.                                      *)
THEOREM RulesAgree == NetSpec => []RulesMatch
<1>1. NetInv => RulesMatch
  <2> SUFFICES ASSUME NetInv, running
               PROVE  /\ \A r \in Dnat \ leaked : Has(chain, r) => \E c \in C : r \in Rules(rec[c])
                      /\ \A c \in C \ odd : rec[c].st = "RUNNING" /\ ~Busy(c) /\ Strict(c) =>
                             /\ rec[c].ip # 0
                             /\ rec[c].ip \in twice \/ \A r \in Rules(rec[c]) : Has(chain, r)
    BY DEF RulesMatch, NetInv
  <2>1. On(rec, saved, chain, link, proc)
    BY DEF NetInv
  <2>2. ASSUME NEW r \in Dnat \ leaked, Has(chain, r) PROVE \E c \in C : r \in Rules(rec[c])
    <3>1. chain[r] \in Nat /\ chain[r] > 0 /\ chain[r] <= Cardinality(Owed(rec, saved, r))
      BY <2>1, <2>2 DEF On, Typed, Kernel, CountInv, Has
    <3>2. Owed(rec, saved, r) # {}
      <4> SUFFICES ASSUME Owed(rec, saved, r) = {} PROVE FALSE
        OBVIOUS
      <4>1. Cardinality(Owed(rec, saved, r)) = 0
        BY FS_EmptySet
      <4> QED BY <3>1, <4>1
    <3>3. PICK e \in Entries(rec, C, r) : TRUE
      BY <3>2 DEF Owed
    <3>4. /\ e[1] \in C /\ e[2] \in DOMAIN rec[e[1]].ports
          /\ r = [port |-> rec[e[1]].ports[e[2]], ip |-> rec[e[1]].ip]
      BY DEF Entries, Dnat
    <3> QED BY <3>4 DEF Rules
  <2>3. ASSUME NEW c \in C \ odd, rec[c].st = "RUNNING", ~Busy(c), Strict(c)
        PROVE  rec[c].ip # 0 /\ (rec[c].ip \in twice \/ \A r \in Rules(rec[c]) : Has(chain, r))
    <3>1. rec[c].ip # 0
      BY <2>1, <2>3 DEF On, Sound, Given, Active, Strict
    <3>2. \A i : Laid(c, i)
      BY <2>3 DEF Laid, In, Busy
    <3>3. rec[c].ip \notin twice => \A i \in DOMAIN rec[c].ports : Ready(rec, chain, c, i)
      BY <2>1, <2>3, <3>1, <3>2 DEF On, RuleInv, Active
    <3> QED BY <3>1, <3>3 DEF Rules, Ready
  <2> QED BY <2>2, <2>3
<1> QED BY <1>1, NetworkInvariant, PTL

(* A host end of a veth pair is left only where the container has an        *)
(* address, so that its cleanup deletes it, or is being started.            *)
THEOREM LinksAreOwned == NetSpec => []LinksOwned
<1>1. NetInv => LinksOwned
  BY DEF NetInv, On, LinkInv, LinksOwned, Holds, Busy
<1> QED BY <1>1, NetworkInvariant, PTL
=============================================================================
