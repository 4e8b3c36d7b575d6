-------------------------- MODULE Scheduler_proofs ---------------------------
(***************************************************************************)
(* Proofs about Scheduler, for any number of containers and commands.      *)
(***************************************************************************)
EXTENDS Scheduler, SeqFilter_proofs, FiniteSetTheorems

Distinct(s) == \A i, j \in 1 .. Len(s) : s[i] = s[j] => i = j

(* The target list is a set in some order, and the index is within it. *)
ListOK ==
    /\ targets \in Seq(C) /\ Distinct(targets)
    /\ index \in Nat /\ (index = 0 \/ index < Len(targets))

(* A container that is not restored leaves the list with the state in which *)
(* it belongs there.                                                        *)
TargetsKept == \A c \in ToSet(targets) \ restored : state[c] \in {"RUNNING", "PAUSED"}

(* A child is reaped by poll_states, which stores STOPPED at once, or by a  *)
(* stop, which does so in its next step.                                    *)
GoneKnown ==
    \A c \in C \ restored : proc[c] = "gone" =>
        state[c] = "STOPPED" \/ (cli.at = "reaped" /\ cli.i = c)

StopsOne == cli.at \in {"stopping", "reaped"} => cli.i \in C

(* In the list, or to be added by the refresh under way. *)
Covered(c) == c \in ToSet(targets) \/ (cli.at = "add" /\ cli.i <= c)

(* Somebody has stopped or may stop the process without looking again. *)
Exposed(c) ==
    \/ c \notin restored
    \/ proc[c] = "stopped"
    \/ thread = "stop" /\ current = c
    \/ cli.at \in {"add", "signal"}

AllCovered ==
    ~pauses => \A c \in C :
        /\ state[c] # "PAUSED"
        /\ state[c] = "RUNNING" /\ proc[c] \in {"run", "stopped"} /\ Exposed(c) => Covered(c)

Procs  == {"none", "run", "stopped", "zombie", "gone"}
Places == [at : {"prompt", "enable", "clear", "add", "signal", "stopping", "reaped", "join", "done"},
           i : 1 .. (N + 1), first : 0 .. N]

(* The types of all variables but targets and index. *)
RestTyped ==
    /\ enabled \in BOOLEAN /\ stopReq \in BOOLEAN
    /\ thread \in {"none", "loop", "stop", "cont", "exited"}
    /\ current \in C /\ next \in C
    /\ state \in [C -> {"CREATED", "RUNNING", "PAUSED", "STOPPED"}]
    /\ proc \in [C -> Procs]
    /\ restored \in SUBSET C
    /\ cli \in Places
    /\ cmds \in 0 .. MaxCmds /\ pauses \in BOOLEAN

(* The inductive invariant. *)
IInv == RestTyped /\ ListOK /\ TargetsKept /\ GoneKnown /\ StopsOne /\ AllCovered

-----------------------------------------------------------------------------
(* The list *)

(* The list is no longer than there are containers. *)
LEMMA ListBounded ==
    ASSUME NEW s \in Seq(C), Distinct(s)
    PROVE  Len(s) \in 0 .. N
<1> DEFINE n == Len(s)
<1>1. n \in Nat /\ N \in Nat
  BY NAssumption
<1>2. s \in Injection(1 .. n, C)
  BY DEF Distinct, Injection, IsInjective
<1> HIDE DEF n
<1>3. IsFiniteSet(C) /\ Cardinality(C) = N /\ Cardinality(1 .. n) = n
  <2>1. ASSUME NEW a \in Nat PROVE IsFiniteSet(1 .. a) /\ Cardinality(1 .. a) = a
    <3>1. a \in Int /\ 1 \in Int
      OBVIOUS
    <3>2. IsFiniteSet(1 .. a) /\ Cardinality(1 .. a) = IF 1 > a THEN 0 ELSE a - 1 + 1
      BY <3>1, FS_Interval
    <3>3. (IF 1 > a THEN 0 ELSE a - 1 + 1) = a
      OBVIOUS
    <3> QED BY <3>2, <3>3
  <2> QED BY <1>1, <2>1 DEF C
<1>4. Cardinality(1 .. n) <= Cardinality(C)
  BY <1>2, <1>3, FS_Injection
<1> QED BY <1>1, <1>3, <1>4 DEF n

(* The elements of a list, by their places. *)
LEMMA InList ==
    ASSUME NEW s \in Seq(C)
    PROVE  \A c : c \in ToSet(s) <=> \E k \in 1 .. Len(s) : s[k] = c
BY DEF ToSet

(* scheduler_add_target *)
LEMMA AddProps ==
    ASSUME NEW s \in Seq(C), Distinct(s), NEW c \in C
    PROVE  /\ Add(s, c) \in Seq(C) /\ Distinct(Add(s, c))
           /\ ToSet(Add(s, c)) = ToSet(s) \cup {c}
           /\ Len(s) <= Len(Add(s, c))
<1> DEFINE t == Append(s, c)
           n == Len(s)
<1>0. n \in Nat
  OBVIOUS
<1>1. CASE c \in ToSet(s)
  BY <1>0, <1>1 DEF Add
<1>2. CASE c \notin ToSet(s)
  <2>1. Add(s, c) = t
    BY <1>2 DEF Add
  <2>2. /\ t \in Seq(C) /\ Len(t) = n + 1 /\ t[n + 1] = c
        /\ \A k \in 1 .. n : t[k] = s[k]
    BY AppendProperties
  <2> HIDE DEF t
  <2>3. \A k \in 1 .. (n + 1) : k \in 1 .. n \/ k = n + 1
    BY <1>0
  <2>4. \A k \in 1 .. n : s[k] # c
    BY <1>2, InList
  <2>5. Distinct(t)
    BY <1>0, <2>2, <2>3, <2>4 DEF Distinct
  <2>6. \A x : x \in ToSet(t) <=> x \in ToSet(s) \cup {c}
    <3>1. \A x : x \in ToSet(t) <=> \E k \in 1 .. (n + 1) : t[k] = x
      BY <2>2, InList
    <3>2. \A x : x \in ToSet(s) <=> \E k \in 1 .. n : s[k] = x
      BY InList
    <3>3. n + 1 \in 1 .. (n + 1) /\ \A k \in 1 .. n : k \in 1 .. (n + 1)
      BY <1>0
    <3> QED BY <2>2, <2>3, <3>1, <3>2, <3>3
  <2> QED BY <1>0, <2>1, <2>2, <2>5, <2>6
<1> QED BY <1>1, <1>2

(* scheduler_remove_target *)
LEMMA DropProps ==
    ASSUME NEW s \in Seq(C), Distinct(s), NEW c \in C
    PROVE  /\ Drop(s, c) \in Seq(C) /\ Distinct(Drop(s, c))
           /\ ToSet(Drop(s, c)) = ToSet(s) \ {c}
<1>1. CASE c \notin ToSet(s)
  BY <1>1 DEF Drop
<1>2. CASE c \in ToSet(s)
  <2> DEFINE n == Len(s)
             k == CHOOSE j \in DOMAIN s : s[j] = c
             e == [s EXCEPT ![k] = s[n]]
             t == SubSeq(e, 1, n - 1)
  <2>1. Drop(s, c) = t
    BY <1>2 DEF Drop
  <2>2. DOMAIN s = 1 .. n /\ n \in Nat
    OBVIOUS
  <2>3. k \in 1 .. n /\ s[k] = c
    BY <1>2, <2>2 DEF ToSet
  <2> HIDE DEF k
  <2>4. n >= 1 /\ n \in 1 .. n /\ s[n] \in C
    BY <2>2, <2>3, ElementOfSeq
  <2>5. e \in Seq(C) /\ Len(e) = n /\ \A j \in 1 .. n : e[j] = IF j = k THEN s[n] ELSE s[j]
    <3>1. e \in [1 .. n -> C]
      BY <2>2, <2>3, <2>4
    <3> QED BY <2>2, <2>3, <3>1
  <2> HIDE DEF e
  <2>6. /\ t \in Seq(C) /\ Len(t) = n - 1
        /\ \A j \in 1 .. (n - 1) : t[j] = IF j = k THEN s[n] ELSE s[j]
    <3>1. n - 1 \in 0 .. n
      BY <2>2, <2>4
    <3>2. t \in Seq(C) /\ Len(t) = n - 1 /\ \A j \in 1 .. (n - 1) : t[j] = e[j]
      BY <2>4, <2>5, <3>1
    <3>3. \A j \in 1 .. (n - 1) : j \in 1 .. n
      BY <2>2
    <3> QED BY <2>5, <3>2, <3>3
  <2> HIDE DEF t
  <2>7. Distinct(t)
    BY <2>2, <2>3, <2>4, <2>6 DEF Distinct
  <2>8. \A x : x \in ToSet(t) <=> x \in ToSet(s) \ {c}
    <3>1. \A x : x \in ToSet(t) <=> \E j \in 1 .. (n - 1) : t[j] = x
      BY <2>6, InList
    <3>2. \A x : x \in ToSet(s) <=> \E j \in 1 .. n : s[j] = x
      BY InList
    <3>3. ASSUME NEW j \in 1 .. (n - 1)
          PROVE  t[j] # c /\ \E i \in 1 .. n : s[i] = t[j]
      <4>1. j \in 1 .. n /\ j # n
        <5> HIDE DEF n
        <5> QED BY <2>2
      <4>2. CASE j = k
        BY <2>3, <2>4, <2>6, <4>1, <4>2 DEF Distinct
      <4>3. CASE j # k
        BY <2>3, <2>6, <4>1, <4>3 DEF Distinct
      <4> QED BY <4>2, <4>3
    <3>4. ASSUME NEW i \in 1 .. n, s[i] # c
          PROVE  \E j \in 1 .. (n - 1) : t[j] = s[i]
      <4>1. i # k
        BY <2>3, <3>4
      <4>2. CASE i = n
        <5>1. k \in 1 .. (n - 1)
          <6> HIDE DEF n
          <6> QED BY <2>2, <2>3, <4>1, <4>2
        <5> QED BY <2>6, <4>2, <5>1
      <4>3. CASE i # n
        <5>1. i \in 1 .. (n - 1)
          <6> HIDE DEF n
          <6> QED BY <2>2, <4>3
        <5> QED BY <2>6, <4>1, <5>1
      <4> QED BY <4>2, <4>3
    <3> QED BY <3>1, <3>2, <3>3, <3>4
  <2> QED BY <2>1, <2>6, <2>7, <2>8
<1> QED BY <1>1, <1>2

(* prune_dead_locked *)
LEMMA PrunedProps ==
    ASSUME ListOK
    PROVE  /\ Pruned \in Seq(C) /\ Distinct(Pruned)
           /\ ToSet(Pruned) = {c \in ToSet(targets) : pid_is_alive(c)}
<1> DEFINE s == targets
           S == {k \in DOMAIN targets : pid_is_alive(targets[k])}
           t == Filter(targets, S)
<1>1. s \in Seq(C) /\ Distinct(s) /\ DOMAIN s = 1 .. Len(s) /\ Len(s) \in Nat
  BY DEF ListOK
<1>2. Pruned = t
  BY DEF Pruned
<1>3. t \in Seq(C)
  BY <1>1, FilterKeeps
<1>4. PICK g : Keeps(g, t, s, S, Len(s))
  BY <1>1, FilterKeeps
<1>5. \A k \in 1 .. Len(s) : k \in S <=> pid_is_alive(s[k])
  BY <1>1
<1> HIDE DEF S, t
<1>6. /\ \A i \in 1 .. Len(t) : g[i] \in 1 .. Len(s) /\ t[i] = s[g[i]] /\ g[i] \in S
      /\ \A i, j \in 1 .. Len(t) : i < j => g[i] < g[j]
      /\ \A k \in 1 .. Len(s) : k \in S => \E i \in 1 .. Len(t) : g[i] = k
  BY <1>4 DEF Keeps
<1>7. Distinct(t)
  <2> SUFFICES ASSUME NEW i \in 1 .. Len(t), NEW j \in 1 .. Len(t), t[i] = t[j]
               PROVE  i = j
    BY DEF Distinct
  <2>1. g[i] = g[j] /\ g[i] \in Nat
    BY <1>1, <1>6 DEF Distinct
  <2>2. ~(i < j) /\ ~(j < i)
    <3>1. ~(g[i] < g[j]) /\ ~(g[j] < g[i])
      BY <2>1
    <3> QED BY <1>6, <3>1
  <2>3. Len(t) \in Nat
    BY <1>3
  <2> QED BY <2>2, <2>3
<1>8. \A c : c \in ToSet(t) <=> c \in ToSet(s) /\ pid_is_alive(c)
  <2>1. \A c : c \in ToSet(t) <=> \E j \in 1 .. Len(t) : t[j] = c
    BY <1>3, InList
  <2>2. \A c : c \in ToSet(s) <=> \E j \in 1 .. Len(s) : s[j] = c
    BY <1>1, InList
  <2>3. ASSUME NEW c, c \in ToSet(t) PROVE c \in ToSet(s) /\ pid_is_alive(c)
    <3>1. PICK j \in 1 .. Len(t) : t[j] = c
      BY <2>1, <2>3
    <3>2. g[j] \in 1 .. Len(s) /\ c = s[g[j]] /\ g[j] \in S
      BY <1>6, <3>1
    <3> QED BY <1>5, <2>2, <3>2
  <2>4. ASSUME NEW c, c \in ToSet(s), pid_is_alive(c) PROVE c \in ToSet(t)
    <3>1. PICK k \in 1 .. Len(s) : s[k] = c
      BY <2>2, <2>4
    <3>2. k \in S
      BY <1>5, <2>4, <3>1
    <3>3. PICK i \in 1 .. Len(t) : g[i] = k
      BY <1>6, <3>2
    <3> QED BY <1>6, <2>1, <3>1, <3>3
  <2> QED BY <2>3, <2>4
<1> QED BY <1>2, <1>3, <1>7, <1>8

(* The index after a removal. *)
LEMMA RangeProps ==
    ASSUME NEW k \in Nat, NEW s \in Seq(C)
    PROVE  InRange(k, s) \in Nat /\ (InRange(k, s) = 0 \/ InRange(k, s) < Len(s))
BY DEF InRange

-----------------------------------------------------------------------------
(* Steps that leave the list alone *)

(* The numbers that appear everywhere. *)
LEMMA Basics ==
    /\ N \in Nat /\ N >= 1 /\ MaxCmds \in Nat
    /\ C = 1 .. N /\ 1 \in C
    /\ Prompt \in Places /\ Prompt.at = "prompt" /\ Prompt.i = 1 /\ Prompt.first = 0
BY NAssumption, CmdsAssumption DEF C, Prompt, Places

(* What the two signals do. *)
LEMMA SignalProps ==
    ASSUME RestTyped
    PROVE  /\ \A c \in C : /\ Sigstop(c) \in [C -> Procs]
                           /\ \A d \in C : Sigstop(c)[d] =
                                 IF d = c /\ proc[d] = "run" THEN "stopped" ELSE proc[d]
           /\ \A S : /\ Sigcont(S) \in [C -> Procs]
                     /\ \A d \in C : Sigcont(S)[d] =
                           IF d \in S /\ proc[d] = "stopped" THEN "run" ELSE proc[d]
BY DEF RestTyped, Sigstop, Sigcont, Procs

(* Processes may be resumed at any time, may end, and may be stopped where  *)
(* the list covers them.                                                    *)
LEMMA ListAlone ==
    ASSUME IInv, RestTyped', UNCHANGED <<targets, index, restored>>, pauses => pauses',
           \A c \in C : state'[c] = state[c],
           \A c \in C : proc'[c] = "gone" /\ proc[c] # "gone" =>
                           c \in restored \/ (cli'.at = "reaped" /\ cli'.i = c),
           cli.at = "reaped" => cli' = cli,
           cli'.at \in {"stopping", "reaped"} => cli'.i \in C,
           \A c \in C : proc'[c] \in {"run", "stopped"} =>
                           /\ proc[c] \in {"run", "stopped"}
                           /\ state[c] = "RUNNING" /\ Exposed(c)' /\ ~pauses => Exposed(c),
           \A c \in C : cli.at = "add" /\ cli.i <= c /\ state[c] = "RUNNING" =>
                           cli'.at = "add" /\ cli'.i <= c
    PROVE  IInv'
<1>1. ListOK' /\ ToSet(targets)' = ToSet(targets)
  BY DEF IInv, ListOK, Distinct
<1>2. TargetsKept'
  BY <1>1, Basics DEF IInv, TargetsKept, ListOK, ToSet
<1>3. GoneKnown'
  BY DEF IInv, GoneKnown
<1>4. StopsOne'
  BY DEF StopsOne
<1>5. AllCovered'
  <2> SUFFICES ASSUME ~pauses', NEW c \in C
               PROVE  /\ state'[c] # "PAUSED"
                      /\ state'[c] = "RUNNING" /\ proc'[c] \in {"run", "stopped"} /\ Exposed(c)'
                            => Covered(c)'
    BY DEF AllCovered
  <2>1. ~pauses
    OBVIOUS
  <2>2. state[c] # "PAUSED"
    BY <2>1 DEF IInv, AllCovered
  <2>3. ASSUME state'[c] = "RUNNING", proc'[c] \in {"run", "stopped"}, Exposed(c)'
        PROVE  Covered(c)'
    <3>1. state[c] = "RUNNING" /\ proc[c] \in {"run", "stopped"} /\ Exposed(c)
      BY <2>1, <2>3
    <3>2. Covered(c)
      BY <2>1, <3>1 DEF IInv, AllCovered
    <3> QED BY <1>1, <3>1, <3>2 DEF Covered
  <2> QED BY <2>2, <2>3
<1> QED BY <1>1, <1>2, <1>3, <1>4, <1>5 DEF IInv

(* A process ends. *)
LEMMA ProcExitStep == ASSUME IInv, NEW c \in C, ProcExit(c) PROVE IInv'
<1>1. /\ proc[c] = "run" /\ proc' = [proc EXCEPT ![c] = IF c \in restored THEN "gone" ELSE "zombie"]
      /\ UNCHANGED <<enabled, targets, index, stopReq, thread, current, next, state, restored, cli,
                     cmds, pauses>>
  BY DEF ProcExit, sched, local
<1>2. /\ proc'[c] = IF c \in restored THEN "gone" ELSE "zombie"
      /\ \A d \in C : d # c => proc'[d] = proc[d]
      /\ proc' \in [C -> Procs]
  BY <1>1 DEF IInv, RestTyped, Procs
<1>3. RestTyped'
  BY <1>1, <1>2 DEF IInv, RestTyped
<1>4. StopsOne
  BY DEF IInv
<1> QED BY <1>1, <1>2, <1>3, <1>4, ListAlone DEF Exposed, StopsOne

(* The thread sees the request to end. *)
LEMMA ThreadExitStep == ASSUME IInv, ThreadExit PROVE IInv'
<1>1. /\ thread = "loop" /\ thread' = "exited"
      /\ UNCHANGED <<enabled, targets, index, stopReq, current, next, state, proc, restored, cli,
                     cmds, pauses>>
  BY DEF ThreadExit, sched
<1>2. RestTyped' /\ StopsOne
  BY <1>1 DEF IInv, RestTyped
<1> QED BY <1>1, <1>2, ListAlone DEF Exposed, StopsOne

(* SIGSTOP to a process that may have left the list since it was picked. *)
LEMMA ThreadStopStep == ASSUME IInv, ThreadStop PROVE IInv'
<1>1. /\ thread = "stop" /\ thread' = "cont" /\ proc' = Sigstop(current)
      /\ UNCHANGED <<enabled, targets, index, stopReq, current, next, state, restored, cli,
                     cmds, pauses>>
  BY DEF ThreadStop, sched
<1>2. /\ proc' \in [C -> Procs]
      /\ \A d \in C : proc'[d] = IF d = current /\ proc[d] = "run" THEN "stopped" ELSE proc[d]
  BY <1>1, SignalProps DEF IInv, RestTyped
<1>3. RestTyped' /\ StopsOne
  BY <1>1, <1>2 DEF IInv, RestTyped
<1> QED BY <1>1, <1>2, <1>3, ListAlone DEF Exposed, StopsOne

(* SIGCONT to the next one. *)
LEMMA ThreadContStep == ASSUME IInv, ThreadCont PROVE IInv'
<1>1. /\ thread = "cont" /\ thread' = "loop" /\ proc' = Sigcont({next})
      /\ UNCHANGED <<enabled, targets, index, stopReq, current, next, state, restored, cli,
                     cmds, pauses>>
  BY DEF ThreadCont, sched
<1>2. /\ proc' \in [C -> Procs]
      /\ \A d \in C : proc'[d] = IF d \in {next} /\ proc[d] = "stopped" THEN "run" ELSE proc[d]
  BY <1>1, SignalProps DEF IInv
<1>3. RestTyped' /\ StopsOne
  BY <1>1, <1>2 DEF IInv, RestTyped
<1> QED BY <1>1, <1>2, <1>3, ListAlone DEF Exposed, StopsOne

(* A command is counted. *)
LEMMA TypedStep == ASSUME IInv, Typed PROVE cli.at = "prompt" /\ cmds' \in 0 .. MaxCmds
BY Basics DEF IInv, RestTyped, Typed

(* stop_container_process begins. *)
LEMMA StopBeginStep == ASSUME IInv, NEW c \in C, container_stop(c) PROVE IInv'
<1>1. /\ cli' = [cli EXCEPT !.at = "stopping", !.i = c] /\ Typed
      /\ proc' = IF state[c] = "PAUSED" THEN Sigcont({c}) ELSE proc
      /\ UNCHANGED <<enabled, targets, index, stopReq, thread, current, next, state, restored, pauses>>
  BY DEF container_stop, sched, local
<1>2. /\ proc' \in [C -> Procs]
      /\ \A d \in C : proc'[d] = proc[d] \/ (proc[d] = "stopped" /\ proc'[d] = "run")
  BY <1>1, SignalProps DEF IInv, RestTyped
<1>3. cli.at = "prompt" /\ cmds' \in 0 .. MaxCmds
  BY <1>1, TypedStep
<1>4. c \in 1 .. (N + 1) /\ N \in Nat
  BY Basics
<1>5. cli' \in Places /\ cli'.at = "stopping" /\ cli'.i = c
  BY <1>1, <1>4 DEF IInv, RestTyped, Places
<1>6. RestTyped'
  BY <1>1, <1>2, <1>3, <1>5 DEF IInv, RestTyped
<1> QED BY <1>1, <1>2, <1>3, <1>5, <1>6, ListAlone DEF Exposed

(* It is reaped. *)
LEMMA StopReapStep == ASSUME IInv, StopReap PROVE IInv'
<1>1. /\ cli.at = "stopping" /\ cli' = [cli EXCEPT !.at = "reaped"]
      /\ proc' = [proc EXCEPT ![cli.i] = "gone"]
      /\ UNCHANGED <<enabled, targets, index, stopReq, thread, current, next, state, restored, cmds, pauses>>
  BY DEF StopReap, sched, local
<1>2. cli.i \in C
  BY <1>1 DEF IInv, StopsOne
<1>3. cli' \in Places /\ cli'.at = "reaped" /\ cli'.i = cli.i
  BY <1>1 DEF IInv, RestTyped, Places
<1>4. /\ proc' \in [C -> Procs] /\ proc'[cli.i] = "gone"
      /\ \A d \in C : d # cli.i => proc'[d] = proc[d]
  BY <1>1, <1>2 DEF IInv, RestTyped, Procs
<1>5. RestTyped'
  BY <1>1, <1>3, <1>4 DEF IInv, RestTyped
<1> QED BY <1>1, <1>2, <1>3, <1>4, <1>5, ListAlone DEF Exposed

(* Steps of the command line from one place to another: none is reached     *)
(* where a process may be stopped that was not before.                      *)
LEMMA PlaceStep ==
    ASSUME IInv, cli.at \notin {"add", "reaped"}, cli' \in Places,
           cli'.at \notin {"add", "signal", "stopping", "reaped"},
           UNCHANGED <<targets, index, current, next, state, proc, restored, pauses>>,
           enabled' \in BOOLEAN, stopReq' \in BOOLEAN, cmds' \in 0 .. MaxCmds,
           thread' \in {"none", "loop", "stop", "cont", "exited"},
           thread' = "stop" => thread = "stop"
    PROVE  IInv'
<1>1. RestTyped'
  BY DEF IInv, RestTyped
<1> QED BY <1>1, ListAlone DEF Exposed

(* `sched on` starts the thread and leaves the list alone. *)
LEMMA SchedOnStep == ASSUME IInv, SchedOn PROVE IInv'
<1>1. /\ cli' = [Prompt EXCEPT !.at = "enable"] /\ Typed
      /\ thread' = IF thread = "none" THEN "loop" ELSE thread
      /\ UNCHANGED <<enabled, targets, index, stopReq, current, next, state, proc, restored, pauses>>
  BY DEF SchedOn, sched
<1>2. cli' \in Places /\ cli'.at = "enable"
  BY <1>1, Basics DEF Places
<1>3. cli.at = "prompt" /\ cmds' \in 0 .. MaxCmds
  BY <1>1, TypedStep
<1>4. enabled' \in BOOLEAN /\ stopReq' \in BOOLEAN /\ thread' \in {"none", "loop", "stop", "cont", "exited"}
  BY <1>1 DEF IInv, RestTyped
<1> QED BY <1>1, <1>2, <1>3, <1>4, PlaceStep

(* It sets the flag, ... *)
LEMMA SetEnabledStep == ASSUME IInv, SetEnabled PROVE IInv'
<1>1. /\ cli.at = "enable" /\ cli' = [Prompt EXCEPT !.at = "clear"] /\ enabled' = TRUE
      /\ UNCHANGED <<targets, index, stopReq, thread, current, next, state, proc, cmds, restored, pauses>>
  BY DEF SetEnabled, local
<1>2. cli' \in Places /\ cli'.at = "clear"
  BY <1>1, Basics DEF Places
<1>3. /\ cmds' \in 0 .. MaxCmds /\ enabled' \in BOOLEAN /\ stopReq' \in BOOLEAN
      /\ thread' \in {"none", "loop", "stop", "cont", "exited"}
  BY <1>1 DEF IInv, RestTyped
<1> QED BY <1>1, <1>2, <1>3, PlaceStep

(* ... which `sched off` clears; both go on to refresh the targets. *)
LEMMA SchedOffStep == ASSUME IInv, SchedOff PROVE IInv'
<1>1. /\ cli' = [Prompt EXCEPT !.at = "clear"] /\ enabled' = FALSE /\ Typed
      /\ UNCHANGED <<targets, index, stopReq, thread, current, next, state, proc, restored, pauses>>
  BY DEF SchedOff, local
<1>2. cli' \in Places /\ cli'.at = "clear"
  BY <1>1, Basics DEF Places
<1>3. cli.at = "prompt" /\ cmds' \in 0 .. MaxCmds
  BY <1>1, TypedStep
<1>4. /\ enabled' \in BOOLEAN /\ stopReq' \in BOOLEAN
      /\ thread' \in {"none", "loop", "stop", "cont", "exited"}
  BY <1>1 DEF IInv, RestTyped
<1> QED BY <1>1, <1>2, <1>3, <1>4, PlaceStep

(* At exit the thread is asked to end ... *)
LEMMA SchedulerStopStep == ASSUME IInv, SchedulerStop PROVE IInv'
<1>1. /\ cli.at = "prompt" /\ stopReq' \in {stopReq, TRUE}
      /\ cli' \in {[Prompt EXCEPT !.at = "done"], [Prompt EXCEPT !.at = "join"]}
      /\ UNCHANGED <<enabled, targets, index, thread, current, next, state, proc, cmds, restored, pauses>>
  BY DEF SchedulerStop, local
<1>2. cli' \in Places /\ cli'.at \in {"done", "join"}
  BY <1>1, Basics DEF Places
<1>3. /\ cmds' \in 0 .. MaxCmds /\ enabled' \in BOOLEAN /\ stopReq' \in BOOLEAN
      /\ thread' \in {"none", "loop", "stop", "cont", "exited"}
  BY <1>1 DEF IInv, RestTyped
<1> QED BY <1>1, <1>2, <1>3, PlaceStep

(* ... and is joined. *)
LEMMA SchedulerJoinStep == ASSUME IInv, SchedulerJoin PROVE IInv'
<1>1. /\ cli.at = "join" /\ stopReq' = FALSE /\ thread' = "none"
      /\ cli' = [Prompt EXCEPT !.at = "done"]
      /\ UNCHANGED <<enabled, targets, index, current, next, state, proc, cmds, restored, pauses>>
  BY DEF SchedulerJoin
<1>2. cli' \in Places /\ cli'.at = "done"
  BY <1>1, Basics DEF Places
<1>3. cmds' \in 0 .. MaxCmds /\ enabled' \in BOOLEAN
  BY <1>1 DEF IInv, RestTyped
<1> QED BY <1>1, <1>2, <1>3, PlaceStep

(* Where the refresh is. *)
LEMMA RefreshPlace ==
    ASSUME IInv
    PROVE  cli.i \in Nat /\ cli.i >= 1 /\ cli.i <= N + 1 /\ cli.first \in 0 .. N
           /\ (cli.i <= N => cli.i \in C /\ cli.i + 1 \in 1 .. (N + 1))
BY Basics DEF IInv, RestTyped, Places

(* The first loop of the refresh is over. *)
LEMMA RefreshAddedStep == ASSUME IInv, RefreshAdded PROVE IInv'
<1>1. /\ cli.at = "add" /\ cli.i = N + 1 /\ cli' = [cli EXCEPT !.at = "signal", !.i = 1]
      /\ UNCHANGED <<enabled, targets, index, stopReq, thread, current, next, state, proc, cmds,
                     restored, pauses>>
  BY DEF RefreshAdded, sched, local
<1>2. 1 \in 1 .. (N + 1) /\ \A c \in C : ~(N + 1 <= c)
  BY Basics
<1>3. cli' \in Places /\ cli'.at = "signal"
  BY <1>1, <1>2 DEF IInv, RestTyped, Places
<1>4. RestTyped'
  BY <1>1, <1>3 DEF IInv, RestTyped
<1> QED BY <1>1, <1>2, <1>3, <1>4, ListAlone DEF Exposed

(* The second loop stops a target or resumes it; either way it is covered. *)
LEMMA RefreshSignalStep == ASSUME IInv, RefreshSignal PROVE IInv'
<1>1. /\ cli.at = "signal" /\ cli.i <= N /\ cli' = [cli EXCEPT !.i = cli.i + 1]
      /\ proc' \in {proc, Sigcont({cli.i}), Sigstop(cli.i)}
      /\ UNCHANGED <<enabled, targets, index, stopReq, thread, current, next, state, cmds,
                     restored, pauses>>
  BY DEF RefreshSignal, sched, local
<1>2. cli.i \in C /\ cli.i + 1 \in 1 .. (N + 1)
  BY <1>1, RefreshPlace
<1>3. cli' \in Places /\ cli'.at = "signal"
  BY <1>1, <1>2 DEF IInv, RestTyped, Places
<1>4. /\ proc' \in [C -> Procs]
      /\ \A d \in C : proc'[d] = proc[d] \/ {proc[d], proc'[d]} = {"run", "stopped"}
  BY <1>1, <1>2, SignalProps DEF IInv, RestTyped
<1>5. RestTyped'
  BY <1>1, <1>3, <1>4 DEF IInv, RestTyped
<1>6. \A c \in C : proc'[c] = "gone" => proc[c] = "gone"
  BY <1>4
<1>7. \A c \in C : proc'[c] \in {"run", "stopped"} => proc[c] \in {"run", "stopped"}
  BY <1>4
<1>8. \A c \in C : Exposed(c)
  BY <1>1 DEF Exposed
<1> QED BY <1>1, <1>3, <1>5, <1>6, <1>7, <1>8, ListAlone

(* The first target is resumed at the end of the refresh. *)
LEMMA RefreshFirstStep == ASSUME IInv, RefreshFirst PROVE IInv'
<1>1. /\ cli.at = "signal" /\ cli' = Prompt
      /\ proc' = IF enabled /\ cli.first # 0 THEN Sigcont({cli.first}) ELSE proc
      /\ UNCHANGED <<enabled, targets, index, stopReq, thread, current, next, state, cmds,
                     restored, pauses>>
  BY DEF RefreshFirst, sched, local
<1>2. cli' \in Places /\ cli'.at = "prompt"
  BY <1>1, Basics
<1>3. /\ proc' \in [C -> Procs]
      /\ \A d \in C : proc'[d] = proc[d] \/ (proc[d] = "stopped" /\ proc'[d] = "run")
  BY <1>1, SignalProps DEF IInv, RestTyped
<1>4. RestTyped'
  BY <1>1, <1>2, <1>3 DEF IInv, RestTyped
<1>5. \A c \in C : Exposed(c)
  BY <1>1 DEF Exposed
<1> QED BY <1>1, <1>2, <1>3, <1>4, <1>5, ListAlone

(* The first loop of the refresh passes over a container that is not        *)
(* RUNNING.                                                                 *)
LEMMA RefreshPassStep == ASSUME IInv, RefreshAdd, state[cli.i] # "RUNNING" PROVE IInv'
<1>1. /\ cli.at = "add" /\ cli.i <= N /\ cli' = [cli EXCEPT !.i = cli.i + 1]
      /\ UNCHANGED <<enabled, targets, index, stopReq, thread, current, next, state, proc, cmds,
                     restored, pauses>>
  BY DEF RefreshAdd, local
<1>2. cli.i \in C /\ cli.i + 1 \in 1 .. (N + 1)
  BY <1>1, RefreshPlace
<1>3. cli' \in Places /\ cli'.at = "add" /\ cli'.i = cli.i + 1
  BY <1>1, <1>2 DEF IInv, RestTyped, Places
<1>4. RestTyped'
  BY <1>1, <1>3 DEF IInv, RestTyped
<1>5. \A c \in C : cli.i <= c /\ state[c] = "RUNNING" => cli.i + 1 <= c
  <2>1. \A c \in C : c # cli.i => (cli.i <= c => cli.i + 1 <= c)
    BY <1>2, Basics
  <2> QED BY <2>1
<1> QED BY <1>1, <1>3, <1>4, <1>5, ListAlone DEF Exposed

-----------------------------------------------------------------------------
(* Steps that change the list or a container's state *)

(* The list loses targets whose process has ended, and nothing else of      *)
(* interest changes but that processes are resumed.                         *)
LEMMA PruneStep ==
    ASSUME IInv, targets' = Pruned, index' \in Nat, index' = 0 \/ index' < Len(Pruned),
           RestTyped', UNCHANGED <<state, restored, cli, pauses>>,
           \A c \in C : proc'[c] = proc[c] \/ (proc[c] = "stopped" /\ proc'[c] = "run"),
           \A c \in C : proc'[c] \in {"run", "stopped"} /\ state[c] = "RUNNING"
                           /\ Exposed(c)' => Exposed(c) \/ c \in ToSet(targets)
    PROVE  IInv'
<1>1. /\ Pruned \in Seq(C) /\ Distinct(Pruned)
      /\ ToSet(Pruned) = {c \in ToSet(targets) : pid_is_alive(c)}
  BY PrunedProps DEF IInv
<1>2. ListOK'
  BY <1>1 DEF ListOK
<1>3. ToSet(targets)' = {c \in ToSet(targets) : pid_is_alive(c)}
  BY <1>1
<1>4. TargetsKept'
  BY <1>3 DEF IInv, TargetsKept
<1>5. GoneKnown' /\ StopsOne'
  BY DEF IInv, GoneKnown, StopsOne
<1>6. AllCovered'
  <2> SUFFICES ASSUME ~pauses', NEW c \in C
               PROVE  /\ state'[c] # "PAUSED"
                      /\ state'[c] = "RUNNING" /\ proc'[c] \in {"run", "stopped"} /\ Exposed(c)'
                            => Covered(c)'
    BY DEF AllCovered
  <2>1. state'[c] # "PAUSED"
    BY DEF IInv, AllCovered
  <2>2. ASSUME state'[c] = "RUNNING", proc'[c] \in {"run", "stopped"}, Exposed(c)'
        PROVE  Covered(c)'
    <3>1. state[c] = "RUNNING" /\ proc[c] \in {"run", "stopped"} /\ (Exposed(c) \/ c \in ToSet(targets))
      BY <2>2
    <3>2. Covered(c)
      BY <3>1 DEF IInv, AllCovered, Covered
    <3> QED BY <1>3, <3>1, <3>2 DEF Covered, pid_is_alive
  <2> QED BY <2>1, <2>2
<1> QED BY <1>2, <1>4, <1>5, <1>6 DEF IInv

(* A disabled scheduler prunes the list and resumes what is left. *)
LEMMA ThreadIdleStep == ASSUME IInv, ThreadIdle PROVE IInv'
<1>1. /\ targets' = Pruned /\ index' = InRange(index, Pruned) /\ proc' = Sigcont(ToSet(Pruned))
      /\ UNCHANGED <<enabled, stopReq, thread, current, next, state, cli, cmds, restored, pauses>>
  BY DEF ThreadIdle, local
<1>2. index' \in Nat /\ (index' = 0 \/ index' < Len(Pruned))
  BY <1>1, PrunedProps, RangeProps DEF IInv, ListOK
<1>3. /\ proc' \in [C -> Procs]
      /\ \A d \in C : proc'[d] = proc[d] \/ (proc[d] = "stopped" /\ proc'[d] = "run")
  BY <1>1, SignalProps DEF IInv, RestTyped
<1>4. RestTyped'
  BY <1>1, <1>3 DEF IInv, RestTyped
<1>5. \A c \in C : Exposed(c)' => Exposed(c)
  BY <1>1, <1>3 DEF Exposed
<1> QED BY <1>1, <1>2, <1>3, <1>4, <1>5, PruneStep

(* Places of the list that the thread picks. *)
LEMMA PickProps ==
    ASSUME IInv, ThreadPick
    PROVE  /\ index' \in Nat /\ index' < Len(Pruned)
           /\ current' \in ToSet(Pruned) /\ next' \in ToSet(Pruned)
<1> DEFINE s == Pruned
           n == Len(s)
           k == InRange(index, s)
<1>1. /\ n >= 2 /\ current' = s[k + 1] /\ index' = (k + 1) % n /\ next' = s[index' + 1]
  BY DEF ThreadPick
<1>2. s \in Seq(C)
  BY PrunedProps DEF IInv
<1>3. k \in Nat /\ (k = 0 \/ k < n)
  BY <1>2, RangeProps DEF IInv, ListOK
<1> HIDE DEF s, k
<1>4. n \in Nat
  BY <1>2
<1> HIDE DEF n
<1>5. k + 1 \in 1 .. n /\ (k + 1) % n \in 0 .. (n - 1)
  BY <1>1, <1>3, <1>4
<1>6. index' \in Nat /\ index' < n /\ index' + 1 \in 1 .. n
  BY <1>1, <1>4, <1>5
<1>7. current' \in ToSet(s) /\ next' \in ToSet(s)
  BY <1>1, <1>2, <1>5, <1>6, InList DEF n
<1> QED BY <1>6, <1>7 DEF s, n

(* A round prunes the list and picks two of its elements. *)
LEMMA ThreadPickStep == ASSUME IInv, ThreadPick PROVE IInv'
<1>1. /\ targets' = Pruned /\ thread' = "stop"
      /\ UNCHANGED <<enabled, stopReq, state, proc, cli, cmds, restored, pauses>>
  BY DEF ThreadPick
<1>2. /\ index' \in Nat /\ index' < Len(Pruned)
      /\ current' \in ToSet(Pruned) /\ next' \in ToSet(Pruned)
  BY PickProps
<1>3. /\ Pruned \in Seq(C)
      /\ ToSet(Pruned) = {c \in ToSet(targets) : pid_is_alive(c)}
  BY PrunedProps DEF IInv
<1>4. current' \in C /\ next' \in C
  BY <1>2, <1>3, ElementOfSeq DEF ToSet
<1>5. RestTyped'
  BY <1>1, <1>4 DEF IInv, RestTyped
<1>6. \A c \in C : Exposed(c)' => Exposed(c) \/ c \in ToSet(targets)
  BY <1>1, <1>2, <1>3 DEF Exposed
<1> QED BY <1>1, <1>2, <1>5, <1>6, PruneStep

(* A container ends and leaves the list. *)
LEMMA RemoveStep ==
    ASSUME IInv, NEW c \in C, scheduler_remove_target(c),
           state' = [state EXCEPT ![c] = "STOPPED"],
           proc' \in {proc, [proc EXCEPT ![c] = "gone"]},
           cli.at = "prompt" \/ (cli.at = "reaped" /\ cli.i = c),
           cli' \in Places, cli'.at = "prompt",
           UNCHANGED <<enabled, stopReq, thread, current, next, cmds, restored, pauses>>
    PROVE  IInv'
<1>1. /\ targets' \in Seq(C) /\ Distinct(targets')
      /\ ToSet(targets)' = ToSet(targets) \ {c}
  BY DropProps DEF IInv, ListOK, scheduler_remove_target
<1>2. index' \in Nat /\ (index' = 0 \/ index' < Len(targets'))
  BY <1>1, RangeProps DEF IInv, ListOK, scheduler_remove_target
<1>3. ListOK'
  BY <1>1, <1>2 DEF ListOK
<1>4. /\ state'[c] = "STOPPED" /\ \A d \in C : d # c => state'[d] = state[d]
      /\ state' \in [C -> {"CREATED", "RUNNING", "PAUSED", "STOPPED"}]
  BY DEF IInv, RestTyped
<1>5. proc' \in [C -> Procs] /\ \A d \in C : d # c => proc'[d] = proc[d]
  BY DEF IInv, RestTyped, Procs
<1>6. RestTyped'
  BY <1>4, <1>5 DEF IInv, RestTyped
<1>7. ToSet(targets) \subseteq C
  BY ElementOfSeq DEF IInv, ListOK, ToSet
<1>8. TargetsKept'
  BY <1>1, <1>4, <1>7 DEF IInv, TargetsKept
<1>9. GoneKnown'
  BY <1>4, <1>5 DEF IInv, GoneKnown
<1>10. StopsOne'
  BY DEF StopsOne
<1>11. AllCovered'
  <2>1. \A d \in C : d # c /\ Exposed(d)' => Exposed(d)
    BY <1>5 DEF Exposed
  <2>2. \A d \in C : d # c /\ Covered(d) => Covered(d)'
    BY <1>1 DEF Covered
  <2> QED BY <1>4, <1>5, <2>1, <2>2 DEF IInv, AllCovered
<1> QED BY <1>3, <1>6, <1>8, <1>9, <1>10, <1>11 DEF IInv

(* A poll reaps an exited child and takes it off the list. *)
LEMMA PollReapStep == ASSUME IInv, NEW c \in C, PollReap(c) PROVE IInv'
<1>1. cli' \in Places /\ cli' = cli /\ cli.at = "prompt"
  BY DEF IInv, RestTyped, PollReap
<1> QED BY <1>1, RemoveStep DEF PollReap, local

(* A stop does so once the process is dead. *)
LEMMA StopFinalStep == ASSUME IInv, StopFinal PROVE IInv'
<1>1. cli.at = "reaped" /\ cli.i \in C
  BY DEF IInv, StopsOne, StopFinal
<1> DEFINE c == cli.i
<1>2. /\ scheduler_remove_target(c) /\ state' = [state EXCEPT ![c] = "STOPPED"] /\ proc' = proc
      /\ cli' \in Places /\ cli'.at = "prompt"
      /\ UNCHANGED <<enabled, stopReq, thread, current, next, cmds, restored, pauses>>
  BY Basics DEF StopFinal, local
<1> HIDE DEF c
<1>3. c \in C /\ cli.i = c
  BY <1>1 DEF c
<1> QED BY <1>1, <1>2, <1>3, RemoveStep

(* A container whose process is found gone stays on the list: it was        *)
(* restored.                                                                *)
LEMMA PollGoneStep == ASSUME IInv, NEW c \in C, PollGone(c) PROVE IInv'
<1>1. /\ cli.at = "prompt" /\ state[c] = "RUNNING" /\ proc[c] = "gone"
      /\ state' = [state EXCEPT ![c] = "STOPPED"]
      /\ UNCHANGED <<enabled, targets, index, stopReq, thread, current, next, proc, cli, cmds,
                     restored, pauses>>
  BY DEF PollGone, sched, local
<1>2. c \in restored
  BY <1>1 DEF IInv, GoneKnown
<1>3. /\ state'[c] = "STOPPED" /\ \A d \in C : d # c => state'[d] = state[d]
      /\ state' \in [C -> {"CREATED", "RUNNING", "PAUSED", "STOPPED"}]
  BY <1>1 DEF IInv, RestTyped
<1>4. RestTyped' /\ ListOK' /\ StopsOne' /\ ToSet(targets)' = ToSet(targets)
  BY <1>1, <1>3 DEF IInv, RestTyped, ListOK, Distinct, StopsOne
<1>5. ToSet(targets) \subseteq C
  BY ElementOfSeq DEF IInv, ListOK, ToSet
<1>6. TargetsKept'
  BY <1>1, <1>2, <1>3, <1>4, <1>5 DEF IInv, TargetsKept
<1>7. GoneKnown'
  BY <1>1, <1>3 DEF IInv, GoneKnown
<1>8. AllCovered'
  BY <1>1, <1>3, <1>4 DEF IInv, AllCovered, Exposed, Covered
<1> QED BY <1>4, <1>6, <1>7, <1>8 DEF IInv

(* A container is started, and a target from then on. *)
LEMMA StartStep == ASSUME IInv, NEW c \in C, container_start(c) PROVE IInv'
<1>1. /\ Typed /\ state[c] = "CREATED"
      /\ state' = [state EXCEPT ![c] = "RUNNING"] /\ proc' = [proc EXCEPT ![c] = "run"]
      /\ targets' = Add(targets, c) /\ index' = index
      /\ UNCHANGED <<enabled, stopReq, thread, current, next, cli, restored, pauses>>
  BY DEF container_start, scheduler_add_target, local
<1>2. /\ targets' \in Seq(C) /\ Distinct(targets') /\ Len(targets) <= Len(targets')
      /\ ToSet(targets)' = ToSet(targets) \cup {c}
  BY <1>1, AddProps DEF IInv, ListOK
<1>3. ListOK'
  <2>1. index \in Nat /\ Len(targets) \in Nat /\ Len(targets') \in Nat
    BY <1>2 DEF IInv, ListOK
  <2>2. index = 0 \/ index < Len(targets')
    BY <1>2, <2>1 DEF IInv, ListOK
  <2> QED BY <1>1, <1>2, <2>1, <2>2 DEF ListOK
<1>4. /\ state'[c] = "RUNNING" /\ \A d \in C : d # c => state'[d] = state[d]
      /\ state' \in [C -> {"CREATED", "RUNNING", "PAUSED", "STOPPED"}]
  BY <1>1 DEF IInv, RestTyped
<1>5. proc'[c] = "run" /\ proc' \in [C -> Procs] /\ \A d \in C : d # c => proc'[d] = proc[d]
  BY <1>1 DEF IInv, RestTyped, Procs
<1>6. cli.at = "prompt" /\ cmds' \in 0 .. MaxCmds
  BY <1>1, TypedStep
<1>7. RestTyped'
  BY <1>1, <1>4, <1>5, <1>6 DEF IInv, RestTyped
<1>8. ToSet(targets) \subseteq C
  BY ElementOfSeq DEF IInv, ListOK, ToSet
<1>9. TargetsKept'
  BY <1>1, <1>2, <1>4, <1>8 DEF IInv, TargetsKept
<1>10. GoneKnown' /\ StopsOne'
  BY <1>1, <1>4, <1>5 DEF IInv, GoneKnown, StopsOne
<1>11. AllCovered'
  <2>1. \A d \in C : d # c /\ Exposed(d)' => Exposed(d)
    BY <1>1, <1>5 DEF Exposed
  <2>2. \A d \in C : Covered(d) => Covered(d)'
    BY <1>1, <1>2 DEF Covered
  <2>3. Covered(c)'
    BY <1>2 DEF Covered
  <2> QED BY <1>1, <1>4, <1>5, <2>1, <2>2, <2>3 DEF IInv, AllCovered
<1> QED BY <1>3, <1>7, <1>9, <1>10, <1>11 DEF IInv

(* pause and unpause leave the list alone; nothing is claimed of what the   *)
(* thread does once a container has been paused.                            *)
LEMMA PauseStep == ASSUME IInv, NEW c \in C, container_pause(c) \/ container_unpause(c) PROVE IInv'
<1>1. /\ Typed /\ state[c] \in {"RUNNING", "PAUSED"} /\ pauses' \in {pauses, TRUE}
      /\ state[c] = "RUNNING" => pauses' = TRUE
      /\ \E v \in {"RUNNING", "PAUSED"} : state' = [state EXCEPT ![c] = v]
      /\ proc' \in {Sigstop(c), Sigcont({c})}
      /\ UNCHANGED <<enabled, targets, index, stopReq, thread, current, next, cli, restored>>
  BY DEF container_pause, container_unpause, sched, local
<1>2. pauses' = TRUE
  <2>1. CASE state[c] = "RUNNING"
    BY <1>1, <2>1
  <2>2. CASE state[c] = "PAUSED"
    BY <1>1, <2>2 DEF IInv, AllCovered, RestTyped
  <2> QED BY <1>1, <2>1, <2>2
<1>3. /\ state'[c] \in {"RUNNING", "PAUSED"} /\ \A d \in C : d # c => state'[d] = state[d]
      /\ state' \in [C -> {"CREATED", "RUNNING", "PAUSED", "STOPPED"}]
  BY <1>1 DEF IInv, RestTyped
<1>4. proc' \in [C -> Procs] /\ \A d \in C : proc'[d] = "gone" => proc[d] = "gone"
  BY <1>1, SignalProps DEF IInv, RestTyped
<1>5. cli.at = "prompt" /\ cmds' \in 0 .. MaxCmds
  BY <1>1, TypedStep
<1>6. RestTyped'
  BY <1>1, <1>2, <1>3, <1>4, <1>5 DEF IInv, RestTyped
<1>7. ListOK' /\ StopsOne' /\ ToSet(targets)' = ToSet(targets)
  BY <1>1 DEF IInv, ListOK, Distinct, StopsOne
<1>8. ToSet(targets) \subseteq C
  BY ElementOfSeq DEF IInv, ListOK, ToSet
<1>9. TargetsKept'
  BY <1>1, <1>3, <1>7, <1>8 DEF IInv, TargetsKept
<1>10. GoneKnown'
  <2> SUFFICES ASSUME NEW d \in C \ restored, proc'[d] = "gone"
               PROVE  state'[d] = "STOPPED"
    BY <1>1 DEF GoneKnown
  <2>1. state[d] = "STOPPED"
    BY <1>4, <1>5 DEF IInv, GoneKnown
  <2>2. d # c
    BY <1>1, <2>1
  <2> QED BY <1>3, <2>1, <2>2
<1>11. AllCovered'
  BY <1>2 DEF AllCovered
<1> QED BY <1>6, <1>7, <1>9, <1>10, <1>11 DEF IInv

(* The refresh starts with an empty list. *)
LEMMA RefreshClearStep == ASSUME IInv, RefreshClear PROVE IInv'
<1>1. /\ cli.at = "clear" /\ targets' = <<>> /\ index' = 0
      /\ cli' = [Prompt EXCEPT !.at = "add"]
      /\ UNCHANGED <<enabled, stopReq, thread, current, next, state, proc, cmds, restored, pauses>>
  BY DEF RefreshClear, scheduler_clear_targets, local
<1>2. cli' \in Places /\ cli'.at = "add" /\ cli'.i = 1
  BY <1>1, Basics DEF Prompt, Places
<1>3. ListOK'
  BY <1>1 DEF ListOK, Distinct
<1>4. RestTyped'
  BY <1>1, <1>2 DEF IInv, RestTyped
<1>5. TargetsKept'
  BY <1>1 DEF TargetsKept, ToSet
<1>6. GoneKnown' /\ StopsOne'
  BY <1>1, <1>2 DEF IInv, GoneKnown, StopsOne
<1>7. AllCovered'
  <2>1. \A c \in C : Covered(c)'
    BY <1>2, Basics DEF Covered
  <2> QED BY <1>1, <2>1 DEF IInv, AllCovered
<1> QED BY <1>3, <1>4, <1>5, <1>6, <1>7 DEF IInv

(* The first loop of the refresh adds a RUNNING container. *)
LEMMA RefreshAddStep == ASSUME IInv, RefreshAdd, state[cli.i] = "RUNNING" PROVE IInv'
<1> DEFINE c == cli.i
<1>1. /\ cli.at = "add" /\ c <= N /\ state[c] = "RUNNING"
      /\ targets' = Add(targets, c) /\ index' = index
      /\ cli' = [cli EXCEPT !.i = c + 1, !.first = IF cli.first = 0 THEN c ELSE cli.first]
      /\ UNCHANGED <<enabled, stopReq, thread, current, next, state, proc, cmds, restored, pauses>>
  BY DEF RefreshAdd, scheduler_add_target, local
<1>2. c \in C /\ c + 1 \in 1 .. (N + 1) /\ cli.first \in 0 .. N /\ c \in 0 .. N
  BY <1>1, RefreshPlace, Basics
<1>3. cli' \in Places /\ cli'.at = "add" /\ cli'.i = c + 1
  BY <1>1, <1>2 DEF IInv, RestTyped, Places
<1> HIDE DEF c
<1>4. /\ targets' \in Seq(C) /\ Distinct(targets') /\ Len(targets) <= Len(targets')
      /\ ToSet(targets)' = ToSet(targets) \cup {c}
  BY <1>1, <1>2, AddProps DEF IInv, ListOK
<1>5. ListOK'
  <2>1. index \in Nat /\ Len(targets) \in Nat /\ Len(targets') \in Nat
    BY <1>4 DEF IInv, ListOK
  <2>2. index = 0 \/ index < Len(targets')
    BY <1>4, <2>1 DEF IInv, ListOK
  <2> QED BY <1>1, <1>4, <2>1, <2>2 DEF ListOK
<1>6. RestTyped'
  BY <1>1, <1>3 DEF IInv, RestTyped
<1>7. TargetsKept'
  BY <1>1, <1>4 DEF IInv, TargetsKept
<1>8. GoneKnown' /\ StopsOne'
  BY <1>1, <1>3 DEF IInv, GoneKnown, StopsOne
<1>9. AllCovered'
  <2>1. \A d \in C : Exposed(d)
    BY <1>1 DEF Exposed
  <2>2. \A d \in C : c <= d => d = c \/ c + 1 <= d
    BY <1>2, Basics
  <2>3. \A d \in C : Covered(d) => Covered(d)'
    <3> SUFFICES ASSUME NEW d \in C, Covered(d) PROVE Covered(d)'
      OBVIOUS
    <3>1. d \in ToSet(targets) \/ c <= d
      BY DEF Covered, c
    <3> QED BY <1>3, <1>4, <2>2, <3>1 DEF Covered
  <2> QED BY <1>1, <2>1, <2>3 DEF IInv, AllCovered
<1> QED BY <1>5, <1>6, <1>7, <1>8, <1>9 DEF IInv

-----------------------------------------------------------------------------
(* The theorems *)

(* The inductive invariant holds at first. *)
LEMMA InvBegin == Init => IInv
<1> SUFFICES ASSUME Init PROVE IInv
  OBVIOUS
<1>1. ListOK
  BY DEF Init, ListOK, Distinct
<1>2. RestTyped
  <2>1. /\ state \in [C -> {"CREATED", "RUNNING", "PAUSED", "STOPPED"}]
        /\ proc \in [C -> Procs]
    BY DEF Init, Procs
  <2>2. cli \in Places /\ current \in C /\ next \in C /\ cmds \in 0 .. MaxCmds
    BY Basics DEF Init
  <2> QED BY <2>1, <2>2 DEF Init, RestTyped
<1>3. TargetsKept
  BY DEF Init, TargetsKept, ToSet
<1>4. GoneKnown /\ StopsOne
  BY Basics DEF Init, GoneKnown, StopsOne
<1>5. \A c \in C : state[c] # "PAUSED" /\ (c \notin restored => state[c] = "CREATED")
                   /\ (proc[c] # "stopped") /\ thread = "none" /\ cli.at = "prompt"
  BY Basics DEF Init
<1>6. AllCovered
  BY <1>5 DEF AllCovered, Exposed
<1> QED BY <1>1, <1>2, <1>3, <1>4, <1>6 DEF IInv

(* Nothing changes in a step of nobody. *)
LEMMA StutterStep == ASSUME IInv, UNCHANGED vars PROVE IInv'
<1>1. UNCHANGED <<enabled, targets, index, stopReq, thread, current, next, state, proc, restored, cli,
                  cmds, pauses>>
  BY DEF vars, sched, local
<1>2. RestTyped' /\ StopsOne
  BY <1>1 DEF IInv, RestTyped
<1> QED BY <1>1, <1>2, ListAlone DEF Exposed, StopsOne

(* The invariant holds always. *)
LEMMA SchedulerInvariant == Spec => []IInv
<1>1. ASSUME IInv, Next PROVE IInv'
  <2>1. ASSUME ThreadStep PROVE IInv'
    BY <1>1, <2>1, ThreadExitStep, ThreadIdleStep, ThreadPickStep, ThreadStopStep, ThreadContStep
       DEF ThreadStep
  <2>2. ASSUME CliStep PROVE IInv'
    <3>1. ASSUME RefreshAdd PROVE IInv'
      BY <1>1, <3>1, RefreshAddStep, RefreshPassStep
    <3>2. ASSUME Refresh PROVE IInv'
      BY <1>1, <3>1, <3>2, RefreshClearStep, RefreshAddedStep, RefreshSignalStep,
         RefreshFirstStep DEF Refresh
    <3> QED BY <1>1, <2>2, <3>2, StopReapStep, StopFinalStep, SetEnabledStep, SchedulerJoinStep
            DEF CliStep
  <2>3. ASSUME User PROVE IInv'
    BY <1>1, <2>3, PollReapStep, PollGoneStep, StartStep, StopBeginStep, PauseStep, SchedOnStep,
       SchedOffStep, SchedulerStopStep DEF User
  <2> QED BY <1>1, <2>1, <2>2, <2>3, ProcExitStep DEF Next
<1>2. IInv /\ [Next]_vars => IInv'
  BY <1>1, StutterStep
<1> QED BY <1>2, InvBegin, PTL DEF Spec

(* The target list that scheduler_add_target, scheduler_remove_target and   *)
(* prune_dead_locked keep has no duplicates, current_index is within it,    *)
(* and it names no process of a container that has ended, but for restored  *)
(* ones.                                                                    *)
THEOREM TargetsStaySound == Spec => []TargetsOK
<1>1. IInv => TargetsOK
  <2> SUFFICES ASSUME IInv PROVE TargetsOK
    OBVIOUS
  <2>1. Len(targets) \in 0 .. N
    BY ListBounded DEF IInv, ListOK
  <2>2. index \in 0 .. N
    BY <2>1, Basics DEF IInv, ListOK
  <2>3. TypeOK
    BY <2>2 DEF IInv, ListOK, RestTyped, TypeOK, Procs, Places
  <2>4. IsInjective(targets)
    BY DEF IInv, ListOK, Distinct, IsInjective
  <2> QED BY <2>3, <2>4 DEF IInv, ListOK, TargetsKept, TargetsOK
<1> QED BY <1>1, SchedulerInvariant, PTL

(* A RUNNING process that is stopped is a target or is about to be added:   *)
(* scheduler_thread_main will come to it, though it sends its signals after *)
(* releasing the mutex.                                                     *)
THEOREM StoppedStaysTarget == Spec => []StoppedIsTarget
<1>1. IInv => StoppedIsTarget
  BY DEF IInv, AllCovered, Exposed, Covered, StoppedIsTarget
<1> QED BY <1>1, SchedulerInvariant, PTL
=============================================================================
