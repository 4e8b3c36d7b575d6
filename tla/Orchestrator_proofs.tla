------------------------- MODULE Orchestrator_proofs -------------------------
(***************************************************************************)
(* Proofs about Orchestrator, for any number of services, dependencies,    *)
(* containers and commands: topo_sort finds an order whenever there is     *)
(* one, and the two threads never lose a container of a service.           *)
(***************************************************************************)
EXTENDS Orchestrator, SeqFilter_proofs, FiniteSetTheorems

Restarting == {"rstop", "rdelete", "rrun", "rset"}
Replacing  == {"backoff", "delete", "run", "set"}

(* cli and mon are records, as TypeOK takes for granted. *)
CliState == [at : {"prompt", "up", "join", "down"} \cup Restarting,
             todo : Seq(S), idx : S, id : 0 .. MaxStarts]
MonState == [at : {"none", "sleep", "work", "exec", "checked"} \cup Replacing,
             work : SUBSET WorkItem, hc : BOOLEAN, new : 0 .. MaxStarts]
Typed2   == TypeOK /\ cli \in CliState /\ mon \in MonState

(* The spec has an order, and no service waits for an unknown one. *)
Planned ==
    /\ Len(conf) <= N
    /\ sorted \in Orders(Deps(conf))
    /\ \A s \in DOMAIN conf : ToSet(conf[s].deps) \subseteq DOMAIN conf

(* The manager's numbers: none above the last one is in use. *)
Numbered ==
    /\ next <= starts + 1
    /\ \A b \in Ids : box[b].st = "NONE" \/ b >= next => box[b] = NoBox

(* What the monitor has in hand at each point. *)
MonShape ==
    /\ mon.at = "none" => mon = NoMonitor
    /\ mon.at = "sleep" => mon.work = {}
    /\ mon.at \in {"exec", "checked"} \cup Replacing => mon.work # {}
    /\ mon.at \in Replacing => Item.restart
    /\ mon.at # "set" => mon.new = 0
    /\ \A v, w \in mon.work : v.idx = w.idx => v = w
    /\ \A w \in mon.work : w.idx \in DOMAIN conf

(* What the command line has in hand at each point, and when there is no    *)
(* monitor beside it.                                                       *)
CliShape ==
    /\ cli.at \in Restarting => running /\ cli.idx \in restarted \cap DOMAIN conf
    /\ cli.at \notin Restarting => cli.id = 0
    /\ cli.at \in {"up", "join", "down"} => ~running
    /\ ~running /\ cli.at # "join" => mon = NoMonitor

(* orch_run is k services into the order. *)
UpTodo ==
    cli.at = "up" =>
        /\ \A s \in S : fails[s] = 0
        /\ \E k \in 0 .. Len(sorted) :
            /\ cli.todo = SubSeq(sorted, k + 1, Len(sorted))
            /\ \A i \in 1 .. k : svc[sorted[i]] # "PENDING"
            /\ \A i \in (k + 1) .. Len(sorted) : cid[sorted[i]] = 0

(* orch_down is k services into the reverse order. *)
DownTodo ==
    cli.at = "down" =>
        \E k \in 0 .. Len(sorted) :
            /\ cli.todo = SubSeq(Reverse(sorted), k + 1, Len(sorted))
            /\ \A i \in 1 .. k : cid[Reverse(sorted)[i]] = 0

AllTried == running \/ cli.at \in {"join", "down"} => \A s \in DOMAIN conf : svc[s] # "PENDING"

OnlySpec == \A s \in S \ DOMAIN conf : cid[s] = 0

(* The containers that run for a service and are the orchestrator's to find. *)
Ours(b, s) == Runs(b) /\ box[b].own = s /\ s \notin restarted

Found == \A b \in Ids, s \in S : Ours(b, s) => cid[s] = b \/ mon.new = b

(* A service that the monitor is about to restart runs nothing but what the *)
(* monitor has just started for it.                                         *)
RestartsIdle ==
    \A w \in mon.work : w.restart =>
        \A b \in Ids : Ours(b, w.idx) => mon.at = "set" /\ mon.new = b /\ w = Item

(* What the monitor has just started is for the service it is replacing. *)
NewOwned == \A b \in Ids, s \in S : Ours(b, s) /\ mon.new = b => s = Item.idx

DownIsEmpty == cli.at = "prompt" /\ ~running => \A b \in Ids, s \in S : ~Ours(b, s)

(* Unless a number was given again, whoever holds the same number holds it  *)
(* for the same service, and a number not yet recorded is held once.        *)
HoldersAgree ==
    ~reused =>
        /\ \A s, t \in S : cid[s] # 0 /\ cid[s] = cid[t] => s = t
        /\ \A s \in S, w \in mon.work : cid[s] = w.cid => s = w.idx
        /\ \A s \in S : cli.id # 0 /\ cid[s] = cli.id => s = cli.idx /\ cli.at # "rset"
        /\ \A w \in mon.work : w.cid = cli.id => w.idx = cli.idx /\ cli.at # "rset"
        /\ mon.new # 0 => /\ mon.new # cli.id
                          /\ \A s \in S : cid[s] # mon.new
                          /\ \A w \in mon.work : w.cid # mon.new

(* No container of the user has a number that the orchestrator holds. *)
HeldOwned == ~reused => \A b \in Held \ {0} : box[b] = NoBox \/ box[b].own # 0

(* health_fail_count is not above the checks that the service's present     *)
(* container has failed, the one that is about to be recorded included.     *)
FailsCounted ==
    running /\ ~reused =>
        \A s \in DOMAIN conf : cid[s] # 0 /\ box[cid[s]].st # "NONE" =>
            IF mon.at = "checked" /\ Item.cid = cid[s]
            THEN mon.hc \/ fails[s] + 1 <= box[cid[s]].bad
            ELSE fails[s] <= box[cid[s]].bad

UnhealthyCounted ==
    \A s \in DOMAIN conf : svc[s] = "UNHEALTHY" => fails[s] >= conf[s].retries

(* What validate and graph print. *)
OutKnown ==
    \/ out = <<>>
    \/ \E deps \in Graphs :
          out = [deps |-> deps, valid |-> orch_validate(deps), order |-> topo_sort(deps)]

(* The inductive invariant: what is known of the spec, of the threads, of   *)
(* the containers, of the checks.                                           *)
SpecInv   == Planned /\ UpTodo /\ DownTodo /\ AllTried /\ OnlySpec
ThreadInv == MonShape /\ CliShape
BoxInv    == Numbered /\ Found /\ RestartsIdle /\ NewOwned /\ DownIsEmpty
HealthInv == HoldersAgree /\ HeldOwned /\ FailsCounted /\ UnhealthyCounted
IInv      == Typed2 /\ SpecInv /\ ThreadInv /\ BoxInv /\ HealthInv

-----------------------------------------------------------------------------
(* A set of services in order *)

Distinct(s) == \A i, j \in 1 .. Len(s) : s[i] = s[j] => i = j

(* The elements of T, the least first. *)
Ascending(q, T) ==
    /\ q \in [1 .. Cardinality(T) -> T]
    /\ \A i, j \in DOMAIN q : i < j => q[i] < q[j]

(* Numbers up to n are finitely many. *)
LEMMA UpToCardinality ==
    ASSUME NEW n \in Nat
    PROVE  IsFiniteSet(1 .. n) /\ Cardinality(1 .. n) = n
<1>1. n \in Int /\ 1 \in Int
  OBVIOUS
<1>2. IsFiniteSet(1 .. n) /\ Cardinality(1 .. n) = IF 1 > n THEN 0 ELSE n - 1 + 1
  BY <1>1, FS_Interval
<1>3. (IF 1 > n THEN 0 ELSE n - 1 + 1) = n
  OBVIOUS
<1> QED BY <1>2, <1>3

(* Every set of numbers up to n can be put in order. *)
LEMMA AscendingExists ==
    ASSUME NEW n \in Nat, NEW T \in SUBSET (1 .. n)
    PROVE  \E q : Ascending(q, T)
<1> DEFINE Low(m) == T \cap (1 .. m)
           Q == {m \in 0 .. n : \E q : Ascending(q, Low(m))}
<1>0. \A m \in 0 .. n : IsFiniteSet(Low(m)) /\ Cardinality(Low(m)) \in Nat
  <2> TAKE m \in 0 .. n
  <2>1. Low(m) \in SUBSET (1 .. n)
    OBVIOUS
  <2>2. IsFiniteSet(1 .. n)
    BY UpToCardinality
  <2> HIDE DEF Low
  <2>3. IsFiniteSet(Low(m))
    BY <2>1, <2>2, FS_Subset
  <2> QED BY <2>3, FS_CardinalityType
<1>1. 0 \in Q
  <2> DEFINE q == [i \in 1 .. 0 |-> 1]
  <2>1. Low(0) = {}
    OBVIOUS
  <2>2. Cardinality(Low(0)) = 0
    BY <2>1, FS_EmptySet
  <2>3. q \in [1 .. 0 -> Low(0)] /\ \A i, j \in DOMAIN q : i < j => q[i] < q[j]
    OBVIOUS
  <2>4. Ascending(q, Low(0))
    <3> HIDE DEF q, Low
    <3> QED BY <2>2, <2>3 DEF Ascending
  <2> QED BY <2>4
<1>2. ASSUME NEW m \in 0 .. (n - 1), m \in Q PROVE m + 1 \in Q
  <2>0. m \in Nat /\ m \in 0 .. n /\ m + 1 \in 0 .. n
    OBVIOUS
  <2>1. PICK q : Ascending(q, Low(m))
    BY <1>2
  <2> DEFINE c == Cardinality(Low(m))
  <2>2. c \in Nat /\ IsFiniteSet(Low(m))
    BY <1>0, <2>0
  <2>3. CASE m + 1 \notin T
    <3>1. Low(m + 1) = Low(m)
      BY <2>0, <2>3
    <3>2. Ascending(q, Low(m + 1))
      <4> HIDE DEF Low
      <4> QED BY <2>1, <3>1
    <3> QED BY <2>0, <3>2
  <2>4. CASE m + 1 \in T
    <3>1. Low(m + 1) = Low(m) \cup {m + 1} /\ m + 1 \notin Low(m)
      BY <2>0, <2>4
    <3>2. Cardinality(Low(m + 1)) = c + 1
      <4> HIDE DEF Low
      <4> QED BY <2>2, <3>1, FS_AddElement
    <3>3. \A x \in Low(m) : x \in Int /\ x < m + 1
      BY <2>0
    <3> DEFINE r == [i \in 1 .. (c + 1) |-> IF i = c + 1 THEN m + 1 ELSE q[i]]
    <3>4. q \in [1 .. c -> Low(m)] /\ \A i, j \in 1 .. c : i < j => q[i] < q[j]
      BY <2>1 DEF Ascending
    <3> HIDE DEF Low, c
    <3>5. \A i \in 1 .. (c + 1) : i = c + 1 \/ (i \in 1 .. c /\ i # c + 1)
      BY <2>2
    <3>6. r \in [1 .. (c + 1) -> Low(m + 1)]
      BY <3>1, <3>4, <3>5
    <3>7. ASSUME NEW i \in 1 .. (c + 1), NEW j \in 1 .. (c + 1), i < j PROVE r[i] < r[j]
      <4>1. i \in 1 .. c /\ i # c + 1 /\ r[i] = q[i]
        BY <2>2, <3>5, <3>7
      <4>2. CASE j = c + 1
        BY <3>3, <3>4, <4>1, <4>2
      <4>3. CASE j # c + 1
        BY <3>4, <3>5, <3>7, <4>1, <4>3
      <4> QED BY <4>2, <4>3
    <3>8. DOMAIN r = 1 .. (c + 1)
      OBVIOUS
    <3> HIDE DEF r
    <3>9. Ascending(r, Low(m + 1))
      BY <3>2, <3>6, <3>7, <3>8 DEF Ascending, c
    <3> QED BY <2>0, <3>9
  <2> QED BY <2>3, <2>4
<1>3. n \in Q
  <2> HIDE DEF Q
  <2>1. n \in 0 .. n
    OBVIOUS
  <2> QED BY <1>1, <1>2, <2>1, UpTo
<1>4. Low(n) = T
  OBVIOUS
<1> HIDE DEF Low
<1> QED BY <1>3, <1>4

(* InOrder has every element once. *)
LEMMA InOrderProps ==
    ASSUME NEW n \in Nat, NEW T \in SUBSET (1 .. n)
    PROVE  /\ InOrder(T) \in Seq(T) /\ Distinct(InOrder(T))
           /\ \A t \in T : \E i \in 1 .. Len(InOrder(T)) : InOrder(T)[i] = t
<1> DEFINE q == InOrder(T)
           c == Cardinality(T)
<1>0. IsFiniteSet(T) /\ c \in Nat
  <2>1. IsFiniteSet(1 .. n)
    BY UpToCardinality
  <2>2. IsFiniteSet(T)
    BY <2>1, FS_Subset
  <2> QED BY <2>2, FS_CardinalityType
<1>1. Ascending(q, T)
  <2>1. PICK r : Ascending(r, T)
    BY AscendingExists
  <2>2. \E f \in [1 .. c -> T] : \A i, j \in DOMAIN f : i < j => f[i] < f[j]
    BY <2>1 DEF Ascending
  <2> QED BY <2>2 DEF InOrder, Ascending
<1> HIDE DEF q, c
<1>2. q \in [1 .. c -> T] /\ \A i, j \in 1 .. c : i < j => q[i] < q[j]
  BY <1>1 DEF Ascending, c
<1>3. q \in Seq(T) /\ Len(q) = c
  BY <1>0, <1>2
<1>4. \A i, j \in 1 .. c : q[i] = q[j] => i = j
  <2> SUFFICES ASSUME NEW i \in 1 .. c, NEW j \in 1 .. c, q[i] = q[j], i # j PROVE FALSE
    OBVIOUS
  <2>1. i < j \/ j < i
    BY <1>0
  <2>2. q[i] \in Int /\ q[j] \in Int
    <3>1. \A t \in T : t \in Int
      OBVIOUS
    <3>2. q[i] \in T /\ q[j] \in T
      BY <1>2
    <3> QED BY <3>1, <3>2
  <2> QED BY <1>2, <2>1, <2>2
<1>5. q \in Injection(1 .. c, T)
  BY <1>2, <1>4 DEF Injection, IsInjective
<1>6. Cardinality(1 .. c) = Cardinality(T)
  BY <1>0, UpToCardinality DEF c
<1>7. q \in Surjection(1 .. c, T)
  BY <1>0, <1>5, <1>6, FS_Injection
<1>8. \A t \in T : \E i \in 1 .. c : q[i] = t
  BY <1>7 DEF Surjection
<1> QED BY <1>3, <1>4, <1>8 DEF q, Distinct

-----------------------------------------------------------------------------
(* Kahn's algorithm *)

(* The loop of topo_sort before its first round, and one round of it. *)
FirstRound(deps) ==
    LET indegree == [s \in DOMAIN deps |-> Cardinality(Known(deps, s))]
    IN  [indegree |-> indegree,
         queue    |-> InOrder({s \in 1 .. Len(deps) : indegree[s] = 0})]

Released(deps, prev, left) == {s \in 1 .. Len(deps) : prev.indegree[s] > 0 /\ left[s] = 0}

NextRound(deps, prev, k) ==
    IF k > Len(prev.queue) THEN prev
    ELSE LET left == TakeOff(deps, prev.indegree, prev.queue[k])
         IN  [indegree |-> left, queue |-> prev.queue \o InOrder(Released(deps, prev, left))]

(* The loop has a result after every round. *)
LEMMA KahnRounds ==
    ASSUME NEW deps \in Seq(Seq(Int))
    PROVE  \E f : /\ Kahn(deps) = f[Len(deps)].queue
                  /\ f[0] = FirstRound(deps)
                  /\ \A k \in 1 .. Len(deps) : f[k] = NextRound(deps, f[k - 1], k)
<1> DEFINE n == Len(deps)
           Body(f, D) == [k \in D |-> IF k = 0 THEN FirstRound(deps)
                                     ELSE NextRound(deps, f[k - 1], k)]
           Q == {m \in Nat : \E f : f = Body(f, 0 .. m)}
<1>0. n \in Nat
  OBVIOUS
<1>1. 0 \in Q
  <2> DEFINE f == [k \in 0 .. 0 |-> FirstRound(deps)]
  <2>1. f = Body(f, 0 .. 0)
    OBVIOUS
  <2> QED BY <2>1
<1>2. ASSUME NEW m \in 0 .. (n - 1), m \in Q PROVE m + 1 \in Q
  <2>1. PICK f : f = Body(f, 0 .. m)
    BY <1>2
  <2> DEFINE g == [k \in 0 .. (m + 1) |-> IF k = m + 1 THEN NextRound(deps, f[m], m + 1) ELSE f[k]]
  <2>2. \A k \in 0 .. m : f[k] = IF k = 0 THEN FirstRound(deps) ELSE NextRound(deps, f[k - 1], k)
    BY <2>1
  <2>3. m \in Nat
    BY <1>0
  <2>4. g = Body(g, 0 .. (m + 1))
    <3>1. ASSUME NEW k \in 0 .. (m + 1)
          PROVE  g[k] = IF k = 0 THEN FirstRound(deps) ELSE NextRound(deps, g[k - 1], k)
      <4>1. CASE k = m + 1
        <5>1. g[k] = NextRound(deps, f[m], m + 1) /\ k - 1 = m /\ k # 0 /\ g[m] = f[m]
          BY <2>3, <4>1
        <5> QED BY <4>1, <5>1
      <4>2. CASE k # m + 1 /\ k # 0
        <5>1. k \in 0 .. m /\ k - 1 \in 0 .. (m + 1) /\ k - 1 # m + 1
          BY <2>3, <4>2
        <5>2. g[k] = f[k] /\ g[k - 1] = f[k - 1]
          BY <4>2, <5>1
        <5> QED BY <2>2, <4>2, <5>1, <5>2
      <4>3. CASE k = 0
        <5>1. 0 \in 0 .. m /\ 0 # m + 1
          BY <2>3
        <5> QED BY <2>2, <4>3, <5>1
      <4> QED BY <4>1, <4>2, <4>3
    <3> QED BY <3>1
  <2> HIDE DEF g
  <2>5. m + 1 \in Nat
    BY <2>3
  <2> QED BY <2>4, <2>5
<1>3. n \in Q
  <2> HIDE DEF Q, n
  <2>1. n \in 0 .. n
    BY <1>0
  <2> QED BY <1>0, <1>1, <1>2, <2>1, UpTo
<1> DEFINE step == CHOOSE f : f = Body(f, 0 .. n)
<1>4. step = Body(step, 0 .. n)
  BY <1>3
<1>5. Kahn(deps) = step[n].queue
  BY DEF Kahn, FirstRound, NextRound, Released
<1> HIDE DEF step
<1>6. step[0] = FirstRound(deps)
  <2>1. 0 \in 0 .. n
    BY <1>0
  <2> QED BY <1>4, <2>1
<1>7. \A k \in 1 .. n : step[k] = NextRound(deps, step[k - 1], k)
  <2> TAKE k \in 1 .. n
  <2>1. k \in 0 .. n /\ k # 0
    BY <1>0
  <2>2. step[k] = IF k = 0 THEN FirstRound(deps) ELSE NextRound(deps, step[k - 1], k)
    BY <1>4, <2>1
  <2> QED BY <2>1, <2>2
<1> QED BY <1>5, <1>6, <1>7

(* The dependencies of s that are not among the first m of the queue. *)
Open(deps, q, m, s) == {d \in Known(deps, s) : \A i \in 1 .. m : q[i] # deps[s][d]}

(* How many have been taken off the queue after round k. *)
Taken(q, k) == IF k <= Len(q) THEN k ELSE Len(q)

(* What holds after round k: a service's count is the number of its open    *)
(* dependencies, those without any are in the queue, once, and behind what  *)
(* they depend on.                                                          *)
RoundInv(deps, st, k) ==
    LET n == Len(deps)
        q == st.queue
    IN  /\ q \in Seq(1 .. n) /\ Distinct(q)
        /\ \A s \in 1 .. n : st.indegree[s] = Cardinality(Open(deps, q, Taken(q, k), s))
        /\ \A s \in 1 .. n : (\E i \in 1 .. Len(q) : q[i] = s) <=> st.indegree[s] = 0
        /\ \A i \in 1 .. Len(q) : \A d \in Known(deps, q[i]) :
                \E j \in 1 .. (i - 1) : q[j] = deps[q[i]][d]

(* A sequence over a set is one over every larger set. *)
LEMMA SeqWiden ==
    ASSUME NEW T, NEW U, T \subseteq U, NEW q \in Seq(T)
    PROVE  q \in Seq(U) /\ Len(q) \in Nat /\ \A i \in 1 .. Len(q) : q[i] \in T
<1>1. Len(q) \in Nat /\ q \in [1 .. Len(q) -> T]
  OBVIOUS
<1>2. q \in [1 .. Len(q) -> U]
  BY <1>1
<1>3. q \in Seq(U)
  BY <1>1, <1>2, SeqDef
<1> QED BY <1>1, <1>3

(* Dependencies are finitely many. *)
LEMMA KnownFinite ==
    ASSUME NEW deps \in Seq(Seq(Int)), NEW s \in 1 .. Len(deps)
    PROVE  \A D \in SUBSET Known(deps, s) : IsFiniteSet(D) /\ Cardinality(D) \in Nat
<1>1. deps[s] \in Seq(Int)
  OBVIOUS
<1>2. Known(deps, s) \subseteq 1 .. Len(deps[s]) /\ Len(deps[s]) \in Nat
  BY <1>1 DEF Known
<1>3. IsFiniteSet(1 .. Len(deps[s]))
  BY <1>2, UpToCardinality
<1> TAKE D \in SUBSET Known(deps, s)
<1>4. D \in SUBSET (1 .. Len(deps[s]))
  BY <1>2
<1>5. IsFiniteSet(D)
  BY <1>3, <1>4, FS_Subset
<1> QED BY <1>5, FS_CardinalityType

(* A service with no dependency is in the queue at first. *)
LEMMA FirstRoundInv ==
    ASSUME NEW deps \in Seq(Seq(Int))
    PROVE  RoundInv(deps, FirstRound(deps), 0)
<1> DEFINE n == Len(deps)
           ind == [s \in DOMAIN deps |-> Cardinality(Known(deps, s))]
           T == {s \in 1 .. n : ind[s] = 0}
           q == InOrder(T)
           st == FirstRound(deps)
<1>0. n \in Nat /\ DOMAIN deps = 1 .. n
  OBVIOUS
<1>1. st.indegree = ind /\ st.queue = q
  BY <1>0 DEF FirstRound
<1>2. T \in SUBSET (1 .. n)
  OBVIOUS
<1>3. \A s \in 1 .. n : ind[s] = Cardinality(Known(deps, s)) /\ (s \in T <=> ind[s] = 0)
  BY <1>0
<1> HIDE DEF ind, T, st
<1>4. /\ q \in Seq(T) /\ Distinct(q)
      /\ \A t \in T : \E i \in 1 .. Len(q) : q[i] = t
  BY <1>0, <1>2, InOrderProps
<1> HIDE DEF q
<1>5. q \in Seq(1 .. n) /\ Len(q) \in Nat /\ \A i \in 1 .. Len(q) : q[i] \in T
  BY <1>2, <1>4, SeqWiden
<1>6. Taken(q, 0) = 0
  BY <1>5 DEF Taken
<1>7. \A s \in 1 .. n : Open(deps, q, 0, s) = Known(deps, s)
  BY DEF Open
<1>8. \A s \in 1 .. n : (\E i \in 1 .. Len(q) : q[i] = s) <=> ind[s] = 0
  BY <1>3, <1>4, <1>5
<1>9. \A i \in 1 .. Len(q) : Known(deps, q[i]) = {}
  <2> TAKE i \in 1 .. Len(q)
  <2>1. q[i] \in 1 .. n /\ Cardinality(Known(deps, q[i])) = 0
    BY <1>2, <1>3, <1>5
  <2>2. IsFiniteSet(Known(deps, q[i]))
    BY <2>1, KnownFinite
  <2> QED BY <2>1, <2>2, FS_EmptySet
<1>10. \A i \in 1 .. Len(q) : \A d \in Known(deps, q[i]) :
           \E j \in 1 .. (i - 1) : q[j] = deps[q[i]][d]
  BY <1>9
<1>11. \A s \in 1 .. n : ind[s] = Cardinality(Open(deps, q, Taken(q, 0), s))
  BY <1>3, <1>6, <1>7
<1>12. RoundInv(deps, st, 0)
  BY <1>1, <1>4, <1>5, <1>8, <1>10, <1>11 DEF RoundInv
<1> QED BY <1>12 DEF st

(* Taking cur off the queue closes the dependencies on it. *)
LEMMA TakeOffCounts ==
    ASSUME NEW deps \in Seq(Seq(Int)), NEW q \in Seq(1 .. Len(deps)), Distinct(q),
           NEW k \in 1 .. Len(q), NEW s \in 1 .. Len(deps),
           NEW ind, ind[s] = Cardinality(Open(deps, q, k - 1, s))
    PROVE  TakeOff(deps, ind, q[k])[s] = Cardinality(Open(deps, q, k, s))
<1> DEFINE A == Open(deps, q, k - 1, s)
           B == {d \in DOMAIN deps[s] : deps[s][d] = q[k]}
<1>0. k \in Nat /\ Len(q) \in Nat /\ DOMAIN deps = 1 .. Len(deps) /\ q[k] \in DOMAIN deps
  OBVIOUS
<1>8. \A i \in 1 .. (k - 1) : i \in 1 .. Len(q) /\ i # k
  <2>1. k \in Nat /\ k <= Len(q) /\ Len(q) \in Nat
    OBVIOUS
  <2> QED BY ONLY <2>1
<1>1. B \subseteq A
  <2> SUFFICES ASSUME NEW d \in B, NEW i \in 1 .. (k - 1) PROVE q[i] # q[k]
    BY <1>0 DEF Open, Known
  <2>1. i \in 1 .. Len(q) /\ i # k
    BY <1>8
  <2> QED BY <2>1 DEF Distinct
<1>2. Open(deps, q, k, s) = A \ B
  <2>1. \A i \in 1 .. k : i \in 1 .. (k - 1) \/ i = k
    BY <1>0
  <2>2. k \in 1 .. k /\ \A i \in 1 .. (k - 1) : i \in 1 .. k
    BY <1>0
  <2> QED BY <2>1, <2>2 DEF Open, Known
<1>3. A \in SUBSET Known(deps, s) /\ B \in SUBSET Known(deps, s)
  BY <1>1 DEF Open
<1> HIDE DEF A
<1>4. IsFiniteSet(A) /\ IsFiniteSet(B) /\ Cardinality(A) \in Nat /\ Cardinality(B) \in Nat
  <2> HIDE DEF B
  <2> QED BY <1>3, KnownFinite
<1>5. Cardinality(A \ B) = Cardinality(A) - Cardinality(B)
  <2>1. A \cap B = B
    BY <1>1
  <2> HIDE DEF B
  <2>2. Cardinality(A \ B) = Cardinality(A) - Cardinality(A \cap B)
    BY <1>4, FS_Difference
  <2> QED BY <2>1, <2>2
<1>6. TakeOff(deps, ind, q[k])[s] = ind[s] - Times(deps, s, q[k])
  BY <1>0 DEF TakeOff
<1>7. Times(deps, s, q[k]) = Cardinality(B)
  BY DEF Times
<1> HIDE DEF B
<1> QED BY <1>2, <1>5, <1>6, <1>7 DEF A

(* A round keeps it. *)
LEMMA NextRoundInv ==
    ASSUME NEW deps \in Seq(Seq(Int)), NEW st, NEW k \in Nat, k > 0, RoundInv(deps, st, k - 1)
    PROVE  RoundInv(deps, NextRound(deps, st, k), k)
<1> DEFINE n == Len(deps)
           q == st.queue
           ind == st.indegree
<1>0. n \in Nat /\ DOMAIN deps = 1 .. n
  OBVIOUS
<1>1. /\ q \in Seq(1 .. n) /\ Distinct(q) /\ Len(q) \in Nat
      /\ \A s \in 1 .. n : ind[s] = Cardinality(Open(deps, q, Taken(q, k - 1), s))
      /\ \A s \in 1 .. n : (\E i \in 1 .. Len(q) : q[i] = s) <=> ind[s] = 0
      /\ \A i \in 1 .. Len(q) : \A d \in Known(deps, q[i]) :
             \E j \in 1 .. (i - 1) : q[j] = deps[q[i]][d]
  <2>1. q \in Seq(1 .. n)
    BY DEF RoundInv
  <2>2. Len(q) \in Nat
    <3> HIDE DEF q
    <3> QED BY <2>1
  <2> QED BY <2>1, <2>2, Zenon DEF RoundInv
<1>4. \A i \in 1 .. Len(q) : q[i] \in 1 .. n
  <2> HIDE DEF q, n
  <2> QED BY <1>1, SeqWiden
<1>2. CASE k > Len(q)
  <2>1. NextRound(deps, st, k) = st
    BY <1>2 DEF NextRound
  <2>2. Taken(q, k) = Taken(q, k - 1)
    BY <1>1, <1>2 DEF Taken
  <2> HIDE DEF q, ind
  <2>3. RoundInv(deps, st, k)
    BY <1>1, <2>2 DEF RoundInv, q, ind
  <2> QED BY <2>1, <2>3
<1>3. CASE ~(k > Len(q))
  <2> DEFINE left == TakeOff(deps, ind, q[k])
             T == Released(deps, st, left)
             new == InOrder(T)
             r == q \o new
             st2 == NextRound(deps, st, k)
  <2>1. st2.indegree = left /\ st2.queue = r
    BY <1>3 DEF NextRound
  <2>2. k \in 1 .. Len(q) /\ Taken(q, k - 1) = k - 1
    BY <1>1, <1>3 DEF Taken
  <2>3. \A s \in 1 .. n : left[s] = Cardinality(Open(deps, q, k, s))
    <3> TAKE s \in 1 .. n
    <3>1. ind[s] = Cardinality(Open(deps, q, k - 1, s))
      BY <1>1, <2>2
    <3> HIDE DEF q, ind
    <3> QED BY <1>1, <2>2, <3>1, TakeOffCounts
  <2>4. T \in SUBSET (1 .. n) /\ \A s \in 1 .. n : s \in T <=> ind[s] > 0 /\ left[s] = 0
    BY DEF Released
  <2> HIDE DEF st2, T, left, q, ind
  <2>5. /\ new \in Seq(T) /\ Distinct(new)
        /\ \A t \in T : \E i \in 1 .. Len(new) : new[i] = t
    BY <1>0, <2>4, InOrderProps
  <2> HIDE DEF new
  <2>6. new \in Seq(1 .. n) /\ Len(new) \in Nat /\ \A i \in 1 .. Len(new) : new[i] \in T
    BY <2>4, <2>5, SeqWiden
  <2>7. /\ r \in Seq(1 .. n) /\ Len(r) = Len(q) + Len(new)
        /\ \A i \in 1 .. Len(q) : r[i] = q[i]
        /\ \A i \in (Len(q) + 1) .. Len(r) : r[i] = new[i - Len(q)] /\ i - Len(q) \in 1 .. Len(new)
    BY <1>1, <2>6
  <2> HIDE DEF r, n
  <2>8. /\ \A i \in 1 .. Len(r) : i \in 1 .. Len(q) \/ i \in (Len(q) + 1) .. Len(r)
        /\ \A i \in 1 .. Len(q) : i \in 1 .. Len(r)
        /\ Taken(r, k) = k /\ Len(r) \in Nat
    BY <1>1, <2>2, <2>6, <2>7 DEF Taken
  <2>9. \A s \in 1 .. n : Open(deps, r, k, s) = Open(deps, q, k, s)
    <3>1. \A i \in 1 .. k : r[i] = q[i]
      BY <1>1, <2>2, <2>7
    <3> QED BY <3>1 DEF Open
  <2>10. \A s \in 1 .. n : ind[s] \in Nat /\ left[s] \in Nat /\ (left[s] = 0 <=> Open(deps, q, k, s) = {})
    <3> TAKE s \in 1 .. n
    <3>1. \A m : Open(deps, q, m, s) \in SUBSET Known(deps, s)
      BY DEF Open
    <3>2. \A m : IsFiniteSet(Open(deps, q, m, s)) /\ Cardinality(Open(deps, q, m, s)) \in Nat
      BY <3>1, KnownFinite DEF n
    <3>3. left[s] \in Nat /\ ind[s] \in Nat
      BY <1>1, <2>3, <3>2
    <3>4. left[s] = 0 <=> Open(deps, q, k, s) = {}
      BY <2>3, <3>2, FS_EmptySet
    <3> QED BY <3>3, <3>4
  <2>11. \A s \in 1 .. n : ind[s] = 0 => left[s] = 0
    <3> TAKE s \in 1 .. n
    <3>1. Open(deps, q, k, s) \subseteq Open(deps, q, k - 1, s)
      BY DEF Open
    <3>2. Open(deps, q, k - 1, s) \in SUBSET Known(deps, s)
      BY DEF Open
    <3>3. IsFiniteSet(Open(deps, q, k - 1, s))
      BY <3>2, KnownFinite DEF n
    <3>4. ind[s] = 0 => Open(deps, q, k - 1, s) = {}
      BY <1>1, <2>2, <3>3, FS_EmptySet
    <3> QED BY <2>10, <3>1, <3>4
  <2>12. Distinct(r)
    <3> SUFFICES ASSUME NEW i \in 1 .. Len(r), NEW j \in 1 .. Len(r), r[i] = r[j], i < j
                 PROVE  FALSE
      BY <2>8 DEF Distinct
    <3>1. CASE i \in 1 .. Len(q) /\ j \in 1 .. Len(q)
      BY <1>1, <2>7, <3>1 DEF Distinct
    <3>2. CASE i \in 1 .. Len(q) /\ j \in (Len(q) + 1) .. Len(r)
      <4>0. q[i] \in 1 .. n
        BY <1>4, <3>2
      <4>1. ind[q[i]] = 0
        BY <1>1, <3>2, <4>0, Zenon
      <4>2. r[j] \in T
        BY <2>6, <2>7, <3>2
      <4>3. ind[r[j]] > 0
        BY <2>4, <4>2
      <4>4. q[i] = r[j]
        BY <2>7, <3>2
      <4> QED BY <4>1, <4>3, <4>4
    <3>3. CASE i \in (Len(q) + 1) .. Len(r) /\ j \in (Len(q) + 1) .. Len(r)
      <4>1. new[i - Len(q)] = new[j - Len(q)] /\ i - Len(q) \in 1 .. Len(new) /\ j - Len(q) \in 1 .. Len(new)
        BY <2>7, <3>3
      <4>2. i - Len(q) = j - Len(q)
        BY <2>5, <4>1 DEF Distinct
      <4> QED BY <1>1, <2>8, <4>2
    <3>4. CASE i \in (Len(q) + 1) .. Len(r) /\ j \in 1 .. Len(q)
      BY <1>1, <2>8, <3>4
    <3> QED BY <2>8, <3>1, <3>2, <3>3, <3>4
  <2>13. \A s \in 1 .. n : left[s] = Cardinality(Open(deps, r, Taken(r, k), s))
    BY <2>3, <2>8, <2>9
  <2>14. \A s \in 1 .. n : (\E i \in 1 .. Len(r) : r[i] = s) <=> left[s] = 0
    <3> TAKE s \in 1 .. n
    <3>1. ASSUME NEW i \in 1 .. Len(r), r[i] = s PROVE left[s] = 0
      <4>1. CASE i \in 1 .. Len(q)
        BY <1>1, <2>7, <2>11, <3>1, <4>1
      <4>2. CASE i \in (Len(q) + 1) .. Len(r)
        BY <2>4, <2>6, <2>7, <3>1, <4>2
      <4> QED BY <2>8, <4>1, <4>2
    <3>2. ASSUME left[s] = 0 PROVE \E i \in 1 .. Len(r) : r[i] = s
      <4>1. CASE ind[s] = 0
        <5>1. PICK i \in 1 .. Len(q) : q[i] = s
          BY <1>1, <4>1
        <5> QED BY <2>7, <2>8, <5>1
      <4>2. CASE ind[s] # 0
        <5>1. s \in T
          BY <2>4, <2>10, <3>2, <4>2
        <5>2. PICK i \in 1 .. Len(new) : new[i] = s
          BY <2>5, <5>1
        <5>3. i + Len(q) \in (Len(q) + 1) .. Len(r) /\ (i + Len(q)) - Len(q) = i
          BY <1>1, <2>6, <2>7
        <5>4. r[i + Len(q)] = s
          BY <2>7, <5>2, <5>3
        <5>5. i + Len(q) \in 1 .. Len(r)
          BY <1>1, <2>8, <5>3
        <5> QED BY <5>4, <5>5
      <4> QED BY <4>1, <4>2
    <3> QED BY <3>1, <3>2
  <2>15. \A i \in 1 .. Len(r) : \A d \in Known(deps, r[i]) :
            \E j \in 1 .. (i - 1) : r[j] = deps[r[i]][d]
    <3> TAKE i \in 1 .. Len(r)
    <3>1. CASE i \in 1 .. Len(q)
      <4> TAKE d \in Known(deps, r[i])
      <4>1. r[i] = q[i]
        BY <2>7, <3>1
      <4>2. PICK j \in 1 .. (i - 1) : q[j] = deps[q[i]][d]
        BY <1>1, <3>1, <4>1
      <4>3. j \in 1 .. Len(q)
        BY <1>1, <3>1
      <4> QED BY <2>7, <4>1, <4>2, <4>3
    <3>2. CASE i \in (Len(q) + 1) .. Len(r)
      <4> TAKE d \in Known(deps, r[i])
      <4>1. r[i] \in T /\ r[i] \in 1 .. n
        BY <2>4, <2>6, <2>7, <3>2
      <4>2. Open(deps, q, k, r[i]) = {}
        BY <2>4, <2>10, <4>1
      <4>3. PICK j \in 1 .. k : q[j] = deps[r[i]][d]
        BY <4>2 DEF Open
      <4>4. j \in 1 .. Len(q) /\ j \in 1 .. (i - 1)
        BY <1>1, <2>2, <3>2
      <4> QED BY <2>7, <4>3, <4>4
    <3> QED BY <2>8, <3>1, <3>2
  <2>16. RoundInv(deps, st2, k)
    BY <2>1, <2>7, <2>12, <2>13, <2>14, <2>15 DEF RoundInv, n
  <2> QED BY <2>16 DEF st2
<1> QED BY <1>2, <1>3
(* A sequence of distinct numbers up to n is not longer than n, and has all *)
(* of them if it is as long.                                                *)
LEMMA DistinctLength ==
    ASSUME NEW n \in Nat, NEW q \in Seq(1 .. n), Distinct(q)
    PROVE  /\ Len(q) \in Nat /\ Len(q) <= n
           /\ Len(q) = n => \A s \in 1 .. n : \E i \in 1 .. Len(q) : q[i] = s
<1> DEFINE T == 1 .. n
           D == 1 .. Len(q)
<1>1. Len(q) \in Nat /\ q \in [D -> T]
  OBVIOUS
<1>2. q \in Injection(D, T)
  BY <1>1 DEF Distinct, Injection, IsInjective
<1>3. IsFiniteSet(T) /\ Cardinality(T) = n /\ Cardinality(D) = Len(q)
  BY <1>1, UpToCardinality
<1> HIDE DEF T, D
<1>4. /\ Cardinality(D) <= Cardinality(T)
      /\ Cardinality(D) = Cardinality(T) <=> q \in Surjection(D, T)
  BY <1>2, <1>3, FS_Injection
<1>5. Len(q) = n => \A s \in T : \E i \in D : q[i] = s
  BY <1>3, <1>4 DEF Surjection
<1> QED BY <1>1, <1>3, <1>4, <1>5 DEF T, D

(* Every element of q comes behind the ones it depends on. *)
Behind(deps, q) ==
    \A i \in 1 .. Len(q) : \A d \in Known(deps, q[i]) :
        \E j \in 1 .. (i - 1) : q[j] = deps[q[i]][d]

(* What the loop leaves: services in a good order, and for every service it *)
(* has missed a dependency that it has missed too.                          *)
LEMMA KahnResult ==
    ASSUME NEW deps \in Seq(Seq(Int))
    PROVE  /\ Kahn(deps) \in Seq(1 .. Len(deps)) /\ Distinct(Kahn(deps))
           /\ Behind(deps, Kahn(deps))
           /\ \A s \in 1 .. Len(deps) : (\A i \in 1 .. Len(Kahn(deps)) : Kahn(deps)[i] # s) =>
                  \E d \in Known(deps, s) :
                     \A i \in 1 .. Len(Kahn(deps)) : Kahn(deps)[i] # deps[s][d]
<1> DEFINE n == Len(deps)
           q == Kahn(deps)
<1>0. n \in Nat
  OBVIOUS
<1>1. PICK f : /\ q = f[n].queue
               /\ f[0] = FirstRound(deps)
               /\ \A k \in 1 .. n : f[k] = NextRound(deps, f[k - 1], k)
  BY KahnRounds
<1> HIDE DEF n, q
<1> DEFINE Q == {k \in 0 .. n : RoundInv(deps, f[k], k)}
<1>2. 0 \in Q
  <2>1. RoundInv(deps, f[0], 0)
    BY <1>1, FirstRoundInv
  <2> QED BY <1>0, <2>1
<1>3. ASSUME NEW k \in 0 .. (n - 1), k \in Q PROVE k + 1 \in Q
  <2>1. k + 1 \in 1 .. n /\ (k + 1) - 1 = k /\ k + 1 \in Nat /\ k + 1 > 0 /\ k + 1 \in 0 .. n
    BY <1>0
  <2>2. RoundInv(deps, f[k], k)
    BY <1>3
  <2>3. RoundInv(deps, NextRound(deps, f[k], k + 1), k + 1)
    BY <2>1, <2>2, NextRoundInv
  <2>4. f[k + 1] = NextRound(deps, f[k], k + 1)
    BY <1>1, <2>1
  <2> QED BY <2>1, <2>3, <2>4
<1>4. RoundInv(deps, f[n], n)
  <2>1. n \in 0 .. n
    BY <1>0
  <2>2. n \in Q
    <3> HIDE DEF Q
    <3> QED BY <1>0, <1>2, <1>3, <2>1, UpTo
  <2> QED BY <2>2
<1> DEFINE ind == f[n].indegree
<1>5. /\ q \in Seq(1 .. n) /\ Distinct(q) /\ Behind(deps, q)
      /\ \A s \in 1 .. n : ind[s] = Cardinality(Open(deps, q, Taken(q, n), s))
      /\ \A s \in 1 .. n : (\E i \in 1 .. Len(q) : q[i] = s) <=> ind[s] = 0
  <2> DEFINE p == f[n].queue
  <2>1. p = q
    BY <1>1
  <2>2. /\ p \in Seq(1 .. n) /\ Distinct(p) /\ Behind(deps, p)
        /\ \A s \in 1 .. n : ind[s] = Cardinality(Open(deps, p, Taken(p, n), s))
        /\ \A s \in 1 .. n : (\E i \in 1 .. Len(p) : p[i] = s) <=> ind[s] = 0
    BY <1>4, Zenon DEF RoundInv, Behind, n
  <2> HIDE DEF p, ind
  <2> QED BY <2>1, <2>2
<1> HIDE DEF ind
<1>6. Len(q) \in Nat /\ Len(q) <= n
  BY <1>0, <1>5, DistinctLength
<1>7. Taken(q, n) = Len(q)
  BY <1>0, <1>6 DEF Taken
<1>8. ASSUME NEW s \in 1 .. n, \A i \in 1 .. Len(q) : q[i] # s
      PROVE  \E d \in Known(deps, s) : \A i \in 1 .. Len(q) : q[i] # deps[s][d]
  <2>1. Cardinality(Open(deps, q, Len(q), s)) # 0
    BY <1>5, <1>7, <1>8
  <2>2. Open(deps, q, Len(q), s) # {}
    BY <2>1, FS_EmptySet
  <2> QED BY <2>2 DEF Open
<1> QED BY <1>0, <1>5, <1>8 DEF n, q

(* What it takes to be a good order. *)
LEMMA OrdersDef ==
    ASSUME NEW deps \in Seq(Seq(Int)), NEW r
    PROVE  r \in Orders(deps) <=> /\ r \in Seq(1 .. Len(deps)) /\ Len(r) = Len(deps)
                                  /\ Distinct(r) /\ Behind(deps, r)
<1> DEFINE n == Len(deps)
<1>0. n \in Nat /\ DOMAIN deps = 1 .. n /\ Cardinality(1 .. n) = n
  BY UpToCardinality
<1>1. SetToSeqs(DOMAIN deps) = {f \in [1 .. n -> 1 .. n] : \A i, j \in 1 .. n : i # j => f[i] # f[j]}
  BY <1>0, Zenon DEF SetToSeqs
<1>2. r \in SetToSeqs(DOMAIN deps) <=> r \in Seq(1 .. n) /\ Len(r) = n /\ Distinct(r)
  <2>1. r \in [1 .. n -> 1 .. n] <=> r \in Seq(1 .. n) /\ Len(r) = n
    <3> HIDE DEF n
    <3>1. ASSUME r \in Seq(1 .. n), Len(r) = n PROVE r \in [1 .. n -> 1 .. n]
      BY <3>1
    <3>2. ASSUME r \in [1 .. n -> 1 .. n] PROVE r \in Seq(1 .. n) /\ Len(r) = n
      <4>1. r \in Seq(1 .. n)
        BY <1>0, <3>2, SeqDef
      <4>2. DOMAIN r = 1 .. n /\ DOMAIN r = 1 .. Len(r) /\ Len(r) \in Nat
        BY <3>2, <4>1
      <4> QED BY <1>0, <4>1, <4>2
    <3> QED BY <3>1, <3>2
  <2> HIDE DEF n
  <2> QED BY <1>1, <2>1 DEF Distinct
<1>3. r \in Seq(1 .. n) => DOMAIN r = 1 .. Len(r)
  OBVIOUS
<1> HIDE DEF n
<1>4. r \in Orders(deps) <=> r \in SetToSeqs(DOMAIN deps) /\
                             \A i \in DOMAIN r : \A d \in Known(deps, r[i]) :
                                \E j \in 1 .. (i - 1) : r[j] = deps[r[i]][d]
  BY DEF Orders
<1> QED BY <1>2, <1>3, <1>4 DEF Behind, n

(* topo_sort finds an order if there is one, and -1 is none. *)
LEMMA TopoCorrect ==
    ASSUME NEW deps \in Seq(Seq(Int))
    PROVE  /\ topo_sort(deps) \in Orders(deps) \cup {NoOrder}
           /\ topo_sort(deps) = NoOrder <=> Orders(deps) = {}
<1> DEFINE n == Len(deps)
           q == Kahn(deps)
<1>1. /\ n \in Nat /\ q \in Seq(1 .. n) /\ Distinct(q) /\ Behind(deps, q)
      /\ \A s \in 1 .. n : (\A i \in 1 .. Len(q) : q[i] # s) =>
             \E d \in Known(deps, s) : \A i \in 1 .. Len(q) : q[i] # deps[s][d]
  <2>1. n \in Nat
    OBVIOUS
  <2> QED BY <2>1, KahnResult, Zenon
<1>2. topo_sort(deps) = IF Len(q) = n THEN q ELSE NoOrder
  BY DEF topo_sort
<1> HIDE DEF q
<1>3. ASSUME NEW r \in Orders(deps) PROVE r # NoOrder
  <2>1. r \in Seq(1 .. n)
    BY <1>3, OrdersDef
  <2>2. 1 \in 1 .. Len(NoOrder) /\ NoOrder[1] = -1
    BY DEF NoOrder
  <2>3. \A i \in 1 .. Len(r) : r[i] \in 1 .. n
    <3> HIDE DEF n
    <3> QED BY <2>1, SeqWiden
  <2>4. -1 \notin 1 .. n
    BY <1>1
  <2> QED BY <2>2, <2>3, <2>4
<1>4. CASE Len(q) = n
  <2>1. q \in Orders(deps)
    BY <1>1, <1>4, OrdersDef
  <2> QED BY <1>2, <1>3, <1>4, <2>1
<1>5. CASE Len(q) # n
  <2> SUFFICES ASSUME NEW r \in Orders(deps) PROVE FALSE
    BY <1>2, <1>5
  <2>1. r \in Seq(1 .. n) /\ Len(r) = n /\ Distinct(r) /\ Behind(deps, r)
    BY OrdersDef
  <2> DEFINE In(s) == \E i \in 1 .. Len(q) : q[i] = s
             P == {m \in 0 .. n : \A i \in 1 .. m : In(r[i])}
  <2>2. \A i \in 1 .. n : r[i] \in 1 .. n
    <3> HIDE DEF n
    <3> QED BY <2>1, SeqWiden
  <2>3. 0 \in P
    BY <1>1
  <2>4. ASSUME NEW m \in 0 .. (n - 1), m \in P PROVE m + 1 \in P
    <3>1. m + 1 \in 1 .. n /\ (m + 1) - 1 = m /\ m + 1 \in 0 .. n
      BY <1>1
    <3>2. In(r[m + 1])
      <4> SUFFICES ASSUME ~In(r[m + 1]) PROVE FALSE
        OBVIOUS
      <4>1. PICK d \in Known(deps, r[m + 1]) : \A i \in 1 .. Len(q) : q[i] # deps[r[m + 1]][d]
        BY <1>1, <2>2, <3>1
      <4>2. PICK j \in 1 .. m : r[j] = deps[r[m + 1]][d]
        BY <2>1, <3>1 DEF Behind
      <4>3. In(r[j])
        BY <2>4
      <4> QED BY <4>1, <4>2, <4>3
    <3>3. \A i \in 1 .. (m + 1) : i \in 1 .. m \/ i = m + 1
      BY <1>1
    <3> QED BY <2>4, <3>1, <3>2, <3>3
  <2>5. n \in P
    <3>1. n \in 0 .. n
      BY <1>1
    <3> HIDE DEF P, n
    <3> QED BY <1>1, <2>3, <2>4, <3>1, UpTo
  <2>6. \A s \in 1 .. n : \E i \in 1 .. n : r[i] = s
    BY <1>1, <2>1, DistinctLength
  <2>7. \A s \in 1 .. n : In(s)
    BY <2>5, <2>6
  <2>8. Len(q) <= n /\ Len(q) \in Nat
    BY <1>1, DistinctLength
  <2>9. n <= Len(q)
    <3> DEFINE D == 1 .. Len(q)
               T == 1 .. n
    <3>1. q \in Surjection(D, T)
      <4>1. q \in [D -> T]
        BY <1>1
      <4> QED BY <2>7, <4>1 DEF Surjection
    <3>2. IsFiniteSet(D) /\ Cardinality(D) = Len(q) /\ Cardinality(T) = n
      BY <1>1, <2>8, UpToCardinality
    <3> HIDE DEF D, T
    <3>3. Cardinality(T) <= Cardinality(D)
      BY <3>1, <3>2, FS_Surjection
    <3> QED BY <3>2, <3>3
  <2> QED BY <1>1, <1>5, <2>8, <2>9
<1> QED BY <1>4, <1>5
-----------------------------------------------------------------------------
(* orch validate and orch graph *)

(* Only Inspect prints, and only about the graphs it is given. *)
LEMMA OutStep ==
    ASSUME OutKnown, [Next]_vars
    PROVE  OutKnown'
<1>1. CASE out' = out
  BY <1>1 DEF OutKnown, orch_validate, topo_sort, Kahn
<1>2. CASE out' = <<>>
  BY <1>2 DEF OutKnown
<1>3. CASE Inspect
  BY <1>3 DEF Inspect, OutKnown
<1>4. out' = out \/ out' = <<>> \/ Inspect
  <2>1. CASE User
    BY <2>1 DEF User, Typed, orch_down, UserRun, container_prune_all, orch_run,
                orch_restart_service, UserStart
  <2>2. CASE CliStep
    BY <2>2 DEF CliStep, StartService, SpecUp, Join, StopService, SpecDown,
                RestartStop, RestartDelete, RestartRun, RestartSet
  <2>3. CASE Monitor
    BY <2>3 DEF Monitor, MonTick, MonExit, MonItem, MonChecked, MonWake, MonDelete,
                MonRun, MonSet
  <2>4. CASE \E ok \in BOOLEAN : MonExec(ok)
    BY <2>4 DEF MonExec
  <2>5. CASE \E b \in Ids : BoxExits(b)
    BY <2>5 DEF BoxExits
  <2>6. CASE UNCHANGED vars
    BY <2>6 DEF vars
  <2> QED BY <2>1, <2>2, <2>3, <2>4, <2>5, <2>6 DEF Next
<1> QED BY <1>1, <1>2, <1>3, <1>4

(* orch_validate accepts what can be ordered and names only its own services. *)
LEMMA ValidateCorrect ==
    ASSUME NEW deps \in Seq(Seq(Int))
    PROVE  orch_validate(deps) <=> /\ Orders(deps) # {}
                                   /\ \A s \in DOMAIN deps : Known(deps, s) = DOMAIN deps[s]
<1>1. ASSUME NEW s \in DOMAIN deps
      PROVE  ToSet(deps[s]) \subseteq DOMAIN deps <=> Known(deps, s) = DOMAIN deps[s]
  BY DEF ToSet, Known
<1>2. topo_sort(deps) # NoOrder <=> Orders(deps) # {}
  BY TopoCorrect
<1> QED BY <1>1, <1>2 DEF orch_validate

(* topo_sort finds an order of any spec that has one and fails on every     *)
(* other, and orch_validate accepts exactly the specs that can be ordered   *)
(* and name no unknown service: OrderFound, for specs of any size.          *)
THEOREM OrderIsFound == Spec => []OrderFound
<1>1. Init => OutKnown
  BY DEF Init, OutKnown
<1>2. OutKnown /\ [Next]_vars => OutKnown'
  BY OutStep
<1>3. OutKnown => OrderFound
  <2> SUFFICES ASSUME OutKnown, out # <<>> PROVE
                 /\ out.order \in Orders(out.deps) \cup {NoOrder}
                 /\ out.order = NoOrder <=> Orders(out.deps) = {}
                 /\ out.valid <=> /\ Orders(out.deps) # {}
                                  /\ \A s \in DOMAIN out.deps :
                                         Known(out.deps, s) = DOMAIN out.deps[s]
    BY DEF OrderFound
  <2>1. PICK deps \in Graphs :
             out = [deps |-> deps, valid |-> orch_validate(deps), order |-> topo_sort(deps)]
    BY DEF OutKnown
  <2>2. out.deps = deps /\ out.valid = orch_validate(deps) /\ out.order = topo_sort(deps)
    BY <2>1
  <2>3. deps \in Seq(Seq(Int))
    BY GraphsAssumption
  <2>4. /\ topo_sort(deps) \in Orders(deps) \cup {NoOrder}
        /\ topo_sort(deps) = NoOrder <=> Orders(deps) = {}
    BY <2>3, TopoCorrect
  <2>5. orch_validate(deps) <=> /\ Orders(deps) # {}
                                /\ \A s \in DOMAIN deps : Known(deps, s) = DOMAIN deps[s]
    BY <2>3, ValidateCorrect
  <2> QED BY <2>2, <2>4, <2>5, Zenon
<1> QED BY <1>1, <1>2, <1>3, PTL DEF Spec
-----------------------------------------------------------------------------
(* The monitor's next item *)

(* Some element of a set of numbers is the least. *)
LEMMA LeastExists ==
    ASSUME NEW T, T \subseteq Nat, T # {}
    PROVE  \E b \in T : \A m \in T : b <= m
<1> DEFINE R == OpToRel(<, Nat)
<1>1. IsWellFoundedOn(R, Nat)
  BY NatLessThanWellFounded
<1>2. PICK b \in T : \A m \in T : ~(<<m, b>> \in R)
  <2> HIDE DEF R
  <2> QED BY <1>1, WFMin
<1>3. \A m \in T : m \in Nat /\ b \in Nat /\ ~(m < b)
  BY <1>2 DEF OpToRel
<1> QED BY <1>3

(* Item is one of the work items, and the one of the first service. *)
LEMMA ItemProps ==
    ASSUME Typed2, mon.work # {}
    PROVE  /\ Item \in mon.work /\ Item \in WorkItem
           /\ Item.idx \in S /\ Item.cid \in Ids /\ Item.restart \in BOOLEAN
           /\ \A v \in mon.work : Item.idx <= v.idx
<1> DEFINE T == {w.idx : w \in mon.work}
<1>1. mon.work \subseteq WorkItem
  BY DEF Typed2, TypeOK
<1>2. \A w \in mon.work : w.idx \in S /\ w.idx \in Nat
  BY <1>1, NAssumption DEF WorkItem, S
<1>3. T \subseteq Nat /\ T # {}
  BY <1>2
<1>4. \E w \in mon.work : \A v \in mon.work : w.idx <= v.idx
  <2>1. PICK b \in T : \A m \in T : b <= m
    <3> HIDE DEF T
    <3> QED BY <1>3, LeastExists
  <2> QED BY <2>1
<1>5. Item \in mon.work /\ \A v \in mon.work : Item.idx <= v.idx
  BY <1>4 DEF Item
<1>6. Item \in WorkItem
  BY <1>1, <1>5
<1> QED BY <1>5, <1>6 DEF WorkItem

(* It stays the same while no item is done. *)
LEMMA ItemSame ==
    ASSUME mon'.work = mon.work
    PROVE  Item' = Item
BY DEF Item

-----------------------------------------------------------------------------
(* Types *)

Service == [restart : {"always", "on-failure", "never"}, max : Nat,
            health : BOOLEAN, retries : Nat, deps : Seq(S)]

(* A sequence all of whose elements are in T. *)
LEMMA SeqNarrow ==
    ASSUME NEW U, NEW T, NEW q \in Seq(U), \A i \in 1 .. Len(q) : q[i] \in T
    PROVE  q \in Seq(T)
<1>1. Len(q) \in Nat /\ q \in [1 .. Len(q) -> U]
  OBVIOUS
<1>2. q \in [1 .. Len(q) -> T]
  BY <1>1
<1> QED BY <1>1, <1>2, SeqDef

(* Number of services that orch_parse_spec keeps. *)
KeptOf(t) == Clamp(Len(t), 0, N)

(* What orch_parse_spec returns. *)
LEMMA ParseTyped ==
    ASSUME NEW t \in Texts
    PROVE  /\ KeptOf(t) <= N /\ DOMAIN orch_parse_spec(t) = 1 .. KeptOf(t) /\ KeptOf(t) \in Nat
           /\ \A s \in 1 .. KeptOf(t) :
                  /\ orch_parse_spec(t)[s] = parse_service(t[s])
                  /\ parse_service(t[s]) \in
                        [restart : {"always", "on-failure", "never"}, max : Nat,
                         health : BOOLEAN, retries : Nat, deps : Seq(Int)]
<1> DEFINE E == [restart : STRING, max : Int, health : BOOLEAN, retries : Int, deps : Seq(Int)]
<1>1. t \in Seq(E)
  BY TextsAssumption
<1>2. DOMAIN t = 1 .. Len(t) /\ Len(t) \in Nat
  <2> HIDE DEF E
  <2> QED BY <1>1
<1>a. KeptOf(t) \in Nat /\ KeptOf(t) <= N /\ KeptOf(t) <= Len(t)
  BY <1>2, NAssumption DEF KeptOf, Clamp
<1>3. DOMAIN orch_parse_spec(t) = 1 .. KeptOf(t)
  BY DEF orch_parse_spec, KeptOf
<1>4. ASSUME NEW s \in 1 .. KeptOf(t)
      PROVE  /\ orch_parse_spec(t)[s] = parse_service(t[s])
             /\ parse_service(t[s]) \in
                        [restart : {"always", "on-failure", "never"}, max : Nat,
                         health : BOOLEAN, retries : Nat, deps : Seq(Int)]
  <2>1. orch_parse_spec(t)[s] = parse_service(t[s])
    BY DEF orch_parse_spec, KeptOf
  <2>0. s \in 1 .. Len(t)
    BY <1>2, <1>a
  <2>2. t[s] \in E
    <3> HIDE DEF E
    <3> QED BY <1>1, <2>0
  <2>3. t[s].max \in Int /\ t[s].retries \in Int /\ t[s].health \in BOOLEAN
    BY <2>2
  <2>4. /\ Clamp(t[s].max, 0, 1000) \in Nat
        /\ (IF t[s].health THEN Clamp(t[s].retries, 1, 100) ELSE 0) \in Nat
    BY <2>3 DEF Clamp
  <2> DEFINE d == t[s].deps
             m == Clamp(Len(d), 0, MaxDeps)
  <2>5. d \in Seq(Int)
    BY <2>2
  <2>6. m \in 0 .. Len(d)
    <3> HIDE DEF d
    <3> QED BY <2>5, BoundsAssumption DEF Clamp
  <2>7. SubSeq(d, 1, m) \in Seq(Int)
    <3> HIDE DEF d, m
    <3> QED BY <2>5, <2>6
  <2> QED BY <2>1, <2>3, <2>4, <2>7 DEF parse_service
<1> QED BY <1>3, <1>4, <1>a

(* What orch_run keeps of a spec that orch_validate accepts. *)
LEMMA ParsePlanned ==
    ASSUME NEW t \in Texts, NEW c, c = orch_parse_spec(t), orch_validate(Deps(c))
    PROVE  /\ c \in Seq(Service) /\ Len(c) <= N
           /\ topo_sort(Deps(c)) \in Orders(Deps(c)) /\ topo_sort(Deps(c)) \in Seq(S)
           /\ \A s \in DOMAIN c : ToSet(c[s].deps) \subseteq DOMAIN c
<1> DEFINE n == KeptOf(t)
           E == [restart : {"always", "on-failure", "never"}, max : Nat,
                 health : BOOLEAN, retries : Nat, deps : Seq(Int)]
<1>1. /\ n <= N /\ DOMAIN c = 1 .. n /\ n \in Nat
      /\ \A s \in 1 .. n : c[s] = parse_service(t[s]) /\ c[s] \in E
  BY ParseTyped
<1>2. c = [s \in 1 .. n |-> c[s]]
  BY <1>1 DEF orch_parse_spec, KeptOf
<1> HIDE DEF n
<1>3. c \in Seq(E) /\ Len(c) = n
  <2> HIDE DEF E
  <2> QED BY <1>1, <1>2
<1>4. Deps(c) \in Seq(Seq(Int)) /\ DOMAIN Deps(c) = 1 .. n /\ Len(Deps(c)) = n
      /\ \A s \in 1 .. n : Deps(c)[s] = c[s].deps /\ c[s].deps \in Seq(Int)
  <2>1. \A s \in 1 .. n : c[s].deps \in Seq(Int)
    BY <1>1
  <2>2. Deps(c) = [s \in 1 .. n |-> c[s].deps]
    BY <1>1 DEF Deps
  <2> QED BY <1>1, <2>1, <2>2
<1>5. \A s \in 1 .. n : ToSet(c[s].deps) \subseteq 1 .. n
  BY <1>4 DEF orch_validate
<1>6. 1 .. n \subseteq S
  BY <1>1, NAssumption DEF S
<1>7. \A s \in 1 .. n : c[s].deps \in Seq(S)
  <2> TAKE s \in 1 .. n
  <2> DEFINE d == c[s].deps
  <2>1. d \in Seq(Int)
    BY <1>4
  <2>2. \A i \in 1 .. Len(d) : d[i] \in S
    <3>1. ToSet(d) \subseteq S
      BY <1>5, <1>6
    <3> HIDE DEF d
    <3> QED BY <2>1, <3>1 DEF ToSet
  <2> HIDE DEF d
  <2>3. d \in Seq(S)
    BY <2>1, <2>2, SeqNarrow
  <2> QED BY <2>3 DEF d
<1>8. \A s \in 1 .. n : c[s] \in Service
  BY <1>1, <1>7 DEF Service
<1>9. c \in Seq(Service)
  <2> HIDE DEF E
  <2> QED BY <1>3, <1>8, SeqNarrow
<1>10. topo_sort(Deps(c)) \in Orders(Deps(c))
  BY <1>4, TopoCorrect DEF orch_validate
<1>11. topo_sort(Deps(c)) \in Seq(1 .. n)
  BY <1>4, <1>10, OrdersDef
<1>12. topo_sort(Deps(c)) \in Seq(S)
  BY <1>6, <1>11, SeqWiden
<1> QED BY <1>1, <1>3, <1>5, <1>9, <1>10, <1>12
(* What stopping and deleting container b does to the list. *)
LEMMA BoxOps ==
    ASSUME NEW bx \in [Ids -> Box], NEW b, NEW how \in Stopped
    PROVE  /\ StopBox(bx, b, how) \in [Ids -> Box] /\ DeleteBox(bx, b) \in [Ids -> Box]
           /\ \A x \in Ids : x # b => StopBox(bx, b, how)[x] = bx[x] /\ DeleteBox(bx, b)[x] = bx[x]
           /\ b \in Ids => /\ StopBox(bx, b, how)[b].st # "RUNNING"
                           /\ StopBox(bx, b, how)[b].own = bx[b].own
                           /\ StopBox(bx, b, how)[b].bad = bx[b].bad
                           /\ bx[b].st # "RUNNING" => /\ StopBox(bx, b, how)[b] = bx[b]
                                                      /\ DeleteBox(bx, b)[b] = NoBox
                           /\ bx[b].st = "RUNNING" => /\ StopBox(bx, b, how)[b].st = how
                                                      /\ DeleteBox(bx, b)[b] = bx[b]
<1>1. NoBox \in Box
  BY BoundsAssumption DEF NoBox, Box, Stopped, Hand, S
<1>2. "RUNNING" \notin Stopped
  BY DEF Stopped
<1>3. CASE b \in Ids /\ bx[b].st = "RUNNING"
  <2>1. DeleteBox(bx, b) = bx /\ StopBox(bx, b, how) = [bx EXCEPT ![b].st = how]
    BY <1>3 DEF DeleteBox, StopBox
  <2>2. bx[b] \in Box /\ how \in {"NONE", "RUNNING"} \cup Stopped
    BY <1>3
  <2>3. [bx[b] EXCEPT !.st = how] \in Box
    BY <2>2 DEF Box
  <2>4. /\ [bx[b] EXCEPT !.st = how].st = how /\ [bx[b] EXCEPT !.st = how].own = bx[b].own
        /\ [bx[b] EXCEPT !.st = how].bad = bx[b].bad
    BY <2>2 DEF Box
  <2> HIDE DEF Box, Stopped
  <2> QED BY <1>2, <1>3, <2>1, <2>3, <2>4
<1>4. CASE ~(b \in Ids /\ bx[b].st = "RUNNING")
  BY <1>1, <1>2, <1>4 DEF DeleteBox, StopBox
<1> QED BY <1>3, <1>4

(* prune finds the number to go on with. *)
LEMMA PruneNext ==
    ASSUME box \in [Ids -> Box], container_prune_all
    PROVE  /\ next' \in 1 .. (MaxStarts + 1)
           /\ \A b \in Ids : Runs(b) => b < next'
           /\ next' = 1 \/ Runs(next' - 1)
           /\ next' = 1 \/ next' - 1 \in Ids
<1> DEFINE T == {n \in 1 .. (MaxStarts + 1) : \A b \in Ids : Runs(b) => b < n}
<1>1. T \subseteq Nat /\ MaxStarts + 1 \in T
  BY BoundsAssumption DEF Ids
<1>2. PICK n \in T : \A m \in T : n <= m
  <2> HIDE DEF T
  <2> QED BY <1>1, LeastExists
<1>3. n = 1 \/ Runs(n - 1)
  <2> SUFFICES ASSUME n # 1, ~Runs(n - 1) PROVE FALSE
    OBVIOUS
  <2>1. n - 1 \in 1 .. (MaxStarts + 1) /\ n \in Nat
    BY BoundsAssumption
  <2>2. \A b \in Ids : Runs(b) => b < n - 1
    <3> TAKE b \in Ids
    <3>1. b \in Nat /\ (Runs(b) => b < n /\ b # n - 1)
      BY BoundsAssumption DEF Ids
    <3> QED BY <2>1, <3>1
  <2>3. n - 1 \in T
    BY <2>1, <2>2
  <2> QED BY <1>2, <2>1, <2>3
<1>4. \E m \in 1 .. (MaxStarts + 1) : (\A b \in Ids : Runs(b) => b < m) /\ (m = 1 \/ Runs(m - 1))
  BY <1>3
<1>5. /\ next' \in 1 .. (MaxStarts + 1)
      /\ \A b \in Ids : Runs(b) => b < next'
      /\ next' = 1 \/ Runs(next' - 1)
  <2>1. next' = CHOOSE m \in 1 .. (MaxStarts + 1) :
                    (\A b \in Ids : Runs(b) => b < m) /\ (m = 1 \/ Runs(m - 1))
    BY DEF container_prune_all
  <2> QED BY <1>4, <2>1
<1>6. next' = 1 \/ next' - 1 \in Ids
  <2>1. next' \in 1 .. (MaxStarts + 1)
    BY <1>5
  <2>2. \A m \in 1 .. (MaxStarts + 1) : m = 1 \/ m - 1 \in 1 .. MaxStarts
    BY BoundsAssumption
  <2> QED BY <2>1, <2>2 DEF Ids
<1> QED BY <1>5, <1>6

(* Starting a container: the next number is free and becomes the last.      *)
LEMMA RunTyped ==
    ASSUME Typed2, Numbered, NEW s \in S \cup {0}, NEW ok \in BOOLEAN,
           container_run_background(s, ok)
    PROVE  /\ next \in Ids /\ next \in Nat
           /\ box' \in [Ids -> Box]
           /\ next' \in 1 .. (MaxStarts + 1) /\ starts' \in 0 .. MaxStarts
           /\ reused' \in BOOLEAN
           /\ box'[next] = IF ok THEN [st |-> "RUNNING", own |-> s, bad |-> 0] ELSE NoBox
           /\ \A b \in Ids : b # next => box'[b] = box[b]
<1>1. /\ next \in 1 .. (MaxStarts + 1) /\ starts \in 0 .. MaxStarts /\ next <= starts + 1
      /\ box \in [Ids -> Box] /\ starts < MaxStarts
  BY DEF Typed2, TypeOK, Numbered, container_run_background
<1>2. next \in Ids /\ next \in Nat /\ next + 1 \in 1 .. (MaxStarts + 1)
      /\ starts + 1 \in 0 .. MaxStarts
  BY <1>1, BoundsAssumption DEF Ids
<1>3. NoBox \in Box /\ [st |-> "RUNNING", own |-> s, bad |-> 0] \in Box
  BY BoundsAssumption DEF NoBox, Box, Stopped, Hand, S
<1> DEFINE new == IF ok THEN [st |-> "RUNNING", own |-> s, bad |-> 0] ELSE NoBox
<1>4. new \in Box
  BY <1>3
<1>5. /\ box' = [box EXCEPT ![next] = new] /\ next' = next + 1 /\ starts' = starts + 1
      /\ reused' \in BOOLEAN
  BY DEF container_run_background
<1> HIDE DEF new
<1>6. box' \in [Ids -> Box] /\ box'[next] = new /\ \A b \in Ids : b # next => box'[b] = box[b]
  BY <1>1, <1>2, <1>4, <1>5
<1> QED BY <1>2, <1>5, <1>6 DEF new
(* The records of the two threads at rest. *)
LEMMA RestTyped ==
    /\ Prompt \in CliState /\ NoMonitor \in MonState
    /\ [NoMonitor EXCEPT !.at = "sleep"] \in MonState
    /\ \A at \in {"prompt", "up", "join", "down"} \cup Restarting :
           [Prompt EXCEPT !.at = at] \in CliState
<1>1. 1 \in S /\ 0 \in 0 .. MaxStarts
  BY NAssumption, BoundsAssumption DEF S
<1>2. Prompt \in CliState
  BY <1>1 DEF Prompt, CliState
<1>3. NoMonitor \in MonState
  BY <1>1 DEF NoMonitor, MonState
<1>4. [NoMonitor EXCEPT !.at = "sleep"] \in MonState
  BY <1>3 DEF MonState
<1>5. \A at \in {"prompt", "up", "join", "down"} \cup Restarting :
           [Prompt EXCEPT !.at = at] \in CliState
  BY <1>2 DEF CliState
<1> QED BY <1>2, <1>3, <1>4, <1>5

(* Typed2 without the repetition. *)
Types ==
    /\ running \in BOOLEAN
    /\ conf \in Seq(Service) /\ sorted \in Seq(S)
    /\ cid \in [S -> 0 .. MaxStarts] /\ svc \in [S -> SvcStates]
    /\ count \in [S -> Nat] /\ fails \in [S -> Nat]
    /\ cli \in CliState /\ mon \in MonState
    /\ box \in [Ids -> Box]
    /\ next \in 1 .. (MaxStarts + 1) /\ starts \in 0 .. MaxStarts /\ cmds \in 0 .. MaxCmds
    /\ restarted \in SUBSET S /\ reused \in BOOLEAN

(* The two say the same. *)
LEMMA TypedDef == Typed2 <=> Types
<1>1. cli \in CliState =>
        /\ cli.at \in {"prompt", "up", "join", "down", "rstop", "rdelete", "rrun", "rset"}
        /\ cli.todo \in Seq(S) /\ cli.idx \in S /\ cli.id \in 0 .. MaxStarts
  BY DEF CliState, Restarting
<1>2. mon \in MonState =>
        /\ mon.at \in {"none", "sleep", "work", "exec", "checked", "backoff",
                       "delete", "run", "set"}
        /\ mon.work \in SUBSET WorkItem /\ mon.hc \in BOOLEAN /\ mon.new \in 0 .. MaxStarts
  BY DEF MonState, Replacing
<1> QED BY <1>1, <1>2, Zenon DEF Typed2, TypeOK, Types, Service

(* In the next state, too. *)
LEMMA TypedNext == Typed2' <=> Types'
BY TypedDef, PTL

(* The work that a tick collects. *)
LEMMA TickTyped ==
    ASSUME Typed2, MonTick
    PROVE  mon' \in MonState /\ svc' \in [S -> SvcStates] /\ mon'.work \in SUBSET WorkItem
<1> USE TypedDef DEF Types
<1>1. PICK due \in SUBSET {s \in S : Checkable(s) /\ conf[s].health} :
        LET restarts == {s \in S : ExitSeen(s) /\ WantsRestart(s)}
        IN  /\ mon' = [mon EXCEPT !.at = "work",
                         !.work = {[restart |-> s \in restarts, idx |-> s, cid |-> cid[s],
                                    backoff |-> IF s \in restarts THEN Backoff(count[s]) ELSE 0] :
                                   s \in restarts \cup due}]
            /\ svc' = [s \in S |->
                        CASE s \in restarts -> "RESTARTING"
                          [] ExitSeen(s) /\ s \notin restarts ->
                                IF BoxOf(s) = "OK" THEN "STOPPED" ELSE "FAILED"
                          [] Checkable(s) /\ ~conf[s].health /\ svc[s] = "RUNNING" -> "HEALTHY"
                          [] OTHER -> svc[s]]
  BY DEF MonTick
<1> DEFINE R == {s \in S : ExitSeen(s) /\ WantsRestart(s)}
           It(s) == [restart |-> s \in R, idx |-> s, cid |-> cid[s],
                     backoff |-> IF s \in R THEN Backoff(count[s]) ELSE 0]
           W == {It(s) : s \in R \cup due}
<1>2. \A s \in R \cup due : s \in S /\ cid[s] \in Ids
  <2> TAKE s \in R \cup due
  <2>1. s \in S /\ BoxOf(s) # "NONE"
    BY DEF ExitSeen, Checkable, Stopped
  <2>2. cid[s] # 0 /\ cid[s] \in 0 .. MaxStarts
    BY <2>1 DEF BoxOf
  <2> QED BY <2>1, <2>2, BoundsAssumption DEF Ids
<1>3. \A k \in Nat : Backoff(k) \in Int
  <2> TAKE k \in Nat
  <2>1. k % IntBits \in 0 .. (IntBits - 1)
    BY WidthAssumption
  <2>2. Shift1(k) \in Int
    <3> DEFINE e == k % IntBits
    <3>1. e \in Nat /\ (e = IntBits - 1 => e - 1 \in Nat)
      BY <2>1, WidthAssumption
    <3>2. \A m \in Nat : 2 ^ m \in Int
      OBVIOUS
    <3>3. 2 ^ e \in Int
      <4> HIDE DEF e
      <4> QED BY <3>1
    <3>4. CASE e = IntBits - 1
      <4>1. 2 ^ (e - 1) \in Int
        <5>1. e - 1 \in Nat
          BY <3>1, <3>4
        <5> HIDE DEF e
        <5> QED BY <5>1
      <4> DEFINE p == 2 ^ (e - 1)
      <4>2. Shift1(k) = -p - p
        BY <3>4 DEF Shift1
      <4> HIDE DEF p, e
      <4>3. p \in Int
        BY <4>1 DEF p
      <4> QED BY <4>2, <4>3
    <3>5. CASE e # IntBits - 1
      BY <3>3, <3>5 DEF Shift1
    <3> QED BY <3>4, <3>5
  <2> QED BY <2>2 DEF Backoff
<1>4. \A s \in R \cup due : It(s) \in WorkItem
  <2> TAKE s \in R \cup due
  <2>1. (s \in R) \in BOOLEAN
    OBVIOUS
  <2>2. count[s] \in Nat
    BY <1>2
  <2>3. (IF s \in R THEN Backoff(count[s]) ELSE 0) \in Int
    BY <1>3, <2>2
  <2> HIDE DEF R
  <2> QED BY <1>2, <2>1, <2>3 DEF WorkItem
<1>5. W \in SUBSET WorkItem
  <2> HIDE DEF It, R
  <2> QED BY <1>4
<1>6. mon' = [mon EXCEPT !.at = "work", !.work = W]
  BY <1>1
<1> HIDE DEF W
<1>7. mon' \in MonState /\ mon'.work = W
  BY <1>5, <1>6 DEF MonState
<1>8. svc' \in [S -> SvcStates]
  BY <1>1 DEF SvcStates
<1> QED BY <1>5, <1>7, <1>8
(* Every step keeps the types. *)
LEMMA TypeStep ==
    ASSUME Typed2, MonShape, Numbered, UpTodo, DownTodo, Planned, [Next]_vars
    PROVE  Typed2'
<1>0. Types
  BY TypedDef
<1> SUFFICES Types'
  BY TypedNext
<1> USE <1>0 DEF Types
<1>30. Typed => cmds' \in 0 .. MaxCmds
  BY BoundsAssumption DEF Typed
<1>1. CASE Inspect
  BY <1>1 DEF Inspect, spec, parsed, manager, history
<1>2. CASE orch_down
  <2>1. cli' \in CliState
    BY <1>2, RestTyped DEF orch_down
  <2> QED BY <1>2, <1>30, <2>1 DEF orch_down, spec, parsed, manager, history
<1>3. CASE UserRun
  <2>1. /\ box' \in [Ids -> Box] /\ next' \in 1 .. (MaxStarts + 1)
        /\ starts' \in 0 .. MaxStarts /\ reused' \in BOOLEAN
    BY <1>3, RunTyped DEF UserRun
  <2> QED BY <1>3, <2>1, BoundsAssumption DEF UserRun, Typed, spec, parsed
<1>4. CASE container_prune_all
  <2>1. next' \in 1 .. (MaxStarts + 1)
    BY <1>4, PruneNext
  <2>2. NoBox \in Box
    BY BoundsAssumption DEF NoBox, Box, Stopped, Hand, S
  <2>3. box' \in [Ids -> Box]
    BY <1>4, <2>2 DEF container_prune_all
  <2> QED BY <1>4, <2>1, <2>3, BoundsAssumption DEF container_prune_all, Typed, spec, parsed, history
<1>5. ASSUME NEW t \in Texts, orch_run(t) PROVE Types'
  <2> DEFINE c == orch_parse_spec(t)
  <2>1. orch_validate(Deps(c)) /\ conf' = c /\ sorted' = topo_sort(Deps(c))
        /\ cli' = [Prompt EXCEPT !.at = "up", !.todo = topo_sort(Deps(c))]
    BY <1>5 DEF orch_run
  <2>2. c \in Seq(Service) /\ topo_sort(Deps(c)) \in Seq(S)
    BY <2>1, ParsePlanned
  <2> HIDE DEF c
  <2>3. cli' \in CliState
    BY <2>1, <2>2, RestTyped DEF CliState
  <2>4. /\ cid' \in [S -> 0 .. MaxStarts] /\ svc' \in [S -> SvcStates]
        /\ count' \in [S -> Nat] /\ fails' \in [S -> Nat]
    BY <1>5, BoundsAssumption DEF orch_run, SvcStates
  <2> QED BY <1>5, <2>1, <2>2, <2>3, <2>4, BoundsAssumption DEF orch_run, Typed, manager, history
<1>6. ASSUME NEW s \in DOMAIN conf, orch_restart_service(s) PROVE Types'
  <2>1. s \in S
    BY SMTT(30), NAssumption DEF Planned, S
  <2>2. cli' \in CliState
    <3>1. cid[s] \in 0 .. MaxStarts /\ Prompt \in CliState
      BY <2>1, RestTyped
    <3>2. cli' = [Prompt EXCEPT !.at = "rstop", !.idx = s, !.id = cid[s]]
      BY <1>6 DEF orch_restart_service
    <3> QED BY <2>1, <3>1, <3>2 DEF CliState, Restarting
  <2>3. svc' \in [S -> SvcStates] /\ restarted' \in SUBSET S
    BY <1>6, <2>1 DEF orch_restart_service, SvcStates
  <2> QED BY <1>6, <1>30, <2>2, <2>3 DEF orch_restart_service, parsed, manager
<1>7. ASSUME NEW b \in Ids, UserStart(b) PROVE Types'
  <2>1. box' \in [Ids -> Box]
    BY <1>7 DEF UserStart, Box
  <2> QED BY <1>7, <2>1, BoundsAssumption DEF UserStart, Typed, spec, parsed, history
<1>8. CASE StartService
  <2>1. Head(cli.todo) \in S /\ Tail(cli.todo) \in Seq(S) /\ cli.todo \in Seq(S)
    BY <1>8 DEF StartService, CliState
  <2>2. PICK ok \in BOOLEAN :
            /\ container_run_background(Head(cli.todo), ok)
            /\ cid' = [cid EXCEPT ![Head(cli.todo)] = IF ok THEN next ELSE 0]
            /\ svc' = [svc EXCEPT ![Head(cli.todo)] = IF ok THEN "RUNNING" ELSE "FAILED"]
    BY <1>8 DEF StartService
  <2>3. /\ box' \in [Ids -> Box] /\ next' \in 1 .. (MaxStarts + 1)
        /\ starts' \in 0 .. MaxStarts /\ reused' \in BOOLEAN /\ next \in Ids
    BY <2>1, <2>2, RunTyped
  <2>4. next \in 0 .. MaxStarts /\ 0 \in 0 .. MaxStarts
    BY <2>3, BoundsAssumption DEF Ids
  <2>5. cid' \in [S -> 0 .. MaxStarts] /\ svc' \in [S -> SvcStates]
    BY <2>1, <2>2, <2>4 DEF SvcStates
  <2>6. cli' \in CliState
    BY <1>8, <2>1 DEF StartService, CliState
  <2> QED BY <1>8, <2>3, <2>5, <2>6 DEF StartService, parsed
<1>9. CASE SpecUp
  BY <1>9, RestTyped DEF SpecUp, spec, parsed, manager, history
<1>10. CASE Join
  <2>1. Reverse(sorted) \in Seq(S)
    BY DEF Reverse
  <2>2. cli' \in CliState
    BY <1>10, <2>1 DEF Join, CliState
  <2> QED BY <1>10, <2>2 DEF Join, spec, parsed, manager, history
<1>11. CASE StopService
  <2>1. Head(cli.todo) \in S /\ Tail(cli.todo) \in Seq(S) /\ cli.todo \in Seq(S)
    BY <1>11 DEF StopService, CliState
  <2>2. box' \in [Ids -> Box]
    BY <1>11, BoxOps DEF StopService, Stopped
  <2>3. cid' \in [S -> 0 .. MaxStarts] /\ svc' \in [S -> SvcStates]
    <3>1. /\ svc' = [svc EXCEPT ![Head(cli.todo)] = IF cid[Head(cli.todo)] = 0 THEN @ ELSE "STOPPED"]
          /\ cid' = [cid EXCEPT ![Head(cli.todo)] = 0]
      BY <1>11 DEF StopService
    <3>2. 0 \in 0 .. MaxStarts /\ "STOPPED" \in SvcStates
      BY BoundsAssumption DEF SvcStates
    <3> QED BY <2>1, <3>1, <3>2
  <2>4. cli' \in CliState
    BY <1>11, <2>1 DEF StopService, CliState
  <2> QED BY <1>11, <2>2, <2>3, <2>4 DEF StopService, parsed, history
<1>12. CASE SpecDown
  BY <1>12, RestTyped DEF SpecDown, spec, parsed, manager, history
<1>13. CASE RestartStop
  <2>1. box' \in [Ids -> Box]
    <3>1. PICK how \in Stopped : box' = StopBox(box, cli.id, how)
      BY <1>13 DEF RestartStop
    <3> QED BY <3>1, BoxOps
  <2>2. cli' \in CliState
    BY <1>13 DEF RestartStop, CliState, Restarting
  <2> QED BY <1>13, <2>1, <2>2 DEF RestartStop, spec, parsed, history
<1>14. CASE RestartDelete
  <2>1. box' \in [Ids -> Box]
    BY <1>14, BoxOps DEF RestartDelete, Stopped
  <2>2. cli' \in CliState
    BY <1>14 DEF RestartDelete, CliState, Restarting
  <2> QED BY <1>14, <2>1, <2>2 DEF RestartDelete, spec, parsed, history
<1>15. CASE RestartRun
  <2>1. PICK ok \in BOOLEAN :
            /\ container_run_background(cli.idx, ok)
            /\ cli' = [cli EXCEPT !.at = "rset", !.id = IF ok THEN next ELSE 0]
    BY <1>15 DEF RestartRun
  <2>2. /\ box' \in [Ids -> Box] /\ next' \in 1 .. (MaxStarts + 1)
        /\ starts' \in 0 .. MaxStarts /\ reused' \in BOOLEAN /\ next \in Ids
    <3>1. cli.idx \in S
      BY DEF CliState
    <3> QED BY <2>1, <3>1, RunTyped
  <2>3. next \in 0 .. MaxStarts /\ 0 \in 0 .. MaxStarts
    BY <2>2, BoundsAssumption DEF Ids
  <2>4. cli' \in CliState
    BY <2>1, <2>3 DEF CliState, Restarting
  <2> QED BY <1>15, <2>2, <2>4 DEF RestartRun, spec, parsed
<1>16. CASE RestartSet
  <2>1. cli.idx \in S /\ cli.id \in 0 .. MaxStarts
    BY DEF CliState
  <2>2. /\ cid' \in [S -> 0 .. MaxStarts] /\ svc' \in [S -> SvcStates]
        /\ count' \in [S -> Nat] /\ fails' \in [S -> Nat]
    <3>1. "FAILED" \in SvcStates /\ "RUNNING" \in SvcStates
      BY DEF SvcStates
    <3>2. CASE cli.id = 0
      BY <1>16, <2>1, <3>1, <3>2 DEF RestartSet
    <3>3. CASE cli.id # 0
      <4>1. /\ cid' = [cid EXCEPT ![cli.idx] = cli.id]
            /\ svc' = [svc EXCEPT ![cli.idx] = "RUNNING"]
            /\ fails' = [fails EXCEPT ![cli.idx] = 0]
            /\ count' = [count EXCEPT ![cli.idx] = @ + 1]
        BY <1>16, <3>3 DEF RestartSet
      <4> QED BY <2>1, <3>1, <4>1
    <3> QED BY <3>2, <3>3
  <2> QED BY <1>16, <2>2, RestTyped DEF RestartSet, parsed, manager, history
<1>17. CASE MonTick
  BY <1>17, TickTyped DEF MonTick, parsed, manager, history
<1>18. CASE MonExit
  BY <1>18, RestTyped DEF MonExit, spec, parsed, manager, history
<1>19. CASE MonItem
  <2>1. mon' \in MonState
    BY <1>19 DEF MonItem, MonState, Replacing
  <2> QED BY <1>19, <2>1 DEF MonItem, spec, parsed, manager, history
<1>20. NextItem \in MonState
  <2>1. mon.work \ {Item} \in SUBSET WorkItem /\ 0 \in 0 .. MaxStarts
    BY BoundsAssumption DEF MonState
  <2> QED BY <2>1 DEF NextItem, MonState
<1>21. mon.at \in {"exec", "checked"} \cup Replacing => Item.idx \in S /\ Item.cid \in Ids
  BY ItemProps DEF MonShape
<1>22. CASE MonChecked
  <2>1. Item.idx \in S
    BY <1>21, <1>22 DEF MonChecked
  <2>2. svc' \in [S -> SvcStates] /\ fails' \in [S -> Nat]
    <3> DEFINE n == fails[Item.idx] + 1
    <3>1. n \in Nat /\ "HEALTHY" \in SvcStates /\ "UNHEALTHY" \in SvcStates
      BY <2>1 DEF SvcStates
    <3>2. CASE ~running \/ cid[Item.idx] # Item.cid
      BY <1>22, <3>2 DEF MonChecked
    <3>3. CASE running /\ cid[Item.idx] = Item.cid /\ mon.hc
      <4>1. svc' = [svc EXCEPT ![Item.idx] = "HEALTHY"] /\ fails' = [fails EXCEPT ![Item.idx] = 0]
        BY <1>22, <3>3 DEF MonChecked
      <4> QED BY <2>1, <3>1, <4>1
    <3>4. CASE running /\ cid[Item.idx] = Item.cid /\ ~mon.hc
      <4>1. /\ fails' = [fails EXCEPT ![Item.idx] = n]
            /\ svc' = [svc EXCEPT ![Item.idx] = IF n >= conf[Item.idx].retries THEN "UNHEALTHY" ELSE @]
        BY <1>22, <3>4 DEF MonChecked
      <4> HIDE DEF n
      <4> QED BY <2>1, <3>1, <4>1
    <3> QED BY <3>2, <3>3, <3>4
  <2> QED BY <1>20, <1>22, <2>2 DEF MonChecked, parsed, manager, history
<1>23. CASE MonWake
  <2>1. mon' \in MonState
    BY <1>20, <1>23 DEF MonWake, MonState, Replacing
  <2> QED BY <1>23, <2>1 DEF MonWake, spec, parsed, manager, history
<1>24. CASE MonDelete
  <2>1. box' \in [Ids -> Box]
    BY <1>24, BoxOps DEF MonDelete, Stopped
  <2>2. mon' \in MonState
    BY <1>24 DEF MonDelete, MonState, Replacing
  <2> QED BY <1>24, <2>1, <2>2 DEF MonDelete, spec, parsed, history
<1>25. CASE MonRun
  <2>1. PICK ok \in BOOLEAN :
            /\ container_run_background(Item.idx, ok)
            /\ mon' = [mon EXCEPT !.at = "set", !.new = IF ok THEN next ELSE 0]
    BY <1>25 DEF MonRun
  <2>2. /\ box' \in [Ids -> Box] /\ next' \in 1 .. (MaxStarts + 1)
        /\ starts' \in 0 .. MaxStarts /\ reused' \in BOOLEAN /\ next \in Ids
    <3>1. Item.idx \in S
      BY <1>21, <1>25 DEF MonRun, Replacing
    <3> QED BY <2>1, <3>1, RunTyped
  <2>3. next \in 0 .. MaxStarts /\ 0 \in 0 .. MaxStarts
    BY <2>2, BoundsAssumption DEF Ids
  <2>4. mon' \in MonState
    BY <2>1, <2>3 DEF MonState, Replacing
  <2> QED BY <1>25, <2>2, <2>4 DEF MonRun, spec, parsed
<1>26. CASE MonSet
  <2>1. Item.idx \in S /\ mon.new \in 0 .. MaxStarts
    BY <1>21, <1>26 DEF MonSet, Replacing, MonState
  <2>2. DeleteBox(StopBox(box, mon.new, "BAD"), mon.new) \in [Ids -> Box]
    BY BoxOps DEF Stopped
  <2>3. /\ cid' \in [S -> 0 .. MaxStarts] /\ svc' \in [S -> SvcStates]
        /\ count' \in [S -> Nat] /\ fails' \in [S -> Nat] /\ box' \in [Ids -> Box]
    <3>1. "FAILED" \in SvcStates /\ "RUNNING" \in SvcStates
      BY DEF SvcStates
    <3>2. CASE ~running
      BY <1>26, <2>2, <3>2 DEF MonSet
    <3>3. CASE running /\ mon.new # 0
      <4>1. /\ cid' = [cid EXCEPT ![Item.idx] = mon.new]
            /\ svc' = [svc EXCEPT ![Item.idx] = "RUNNING"]
            /\ fails' = [fails EXCEPT ![Item.idx] = 0]
            /\ count' = [count EXCEPT ![Item.idx] = @ + 1] /\ box' = box
        BY <1>26, <3>3 DEF MonSet
      <4> QED BY <2>1, <3>1, <4>1
    <3>4. CASE running /\ mon.new = 0
      BY <1>26, <2>1, <3>1, <3>4 DEF MonSet
    <3> QED BY <3>2, <3>3, <3>4
  <2> QED BY <1>20, <1>26, <2>3 DEF MonSet, parsed, history
<1>27. ASSUME NEW ok \in BOOLEAN, MonExec(ok) PROVE Types'
  <2>1. Item.cid \in Ids
    BY <1>21, <1>27 DEF MonExec
  <2>2. box' \in [Ids -> Box]
    <3>1. box[Item.cid] \in Box
      BY <2>1
    <3>2. (IF ok THEN 0 ELSE box[Item.cid].bad + 1) \in 0 .. MaxFails
      <4>1. box[Item.cid].bad \in 0 .. MaxFails
        BY <3>1 DEF Box
      <4>2. ~ok => box[Item.cid].bad < MaxFails
        BY <1>27 DEF MonExec
      <4> QED BY <4>1, <4>2, BoundsAssumption
    <3>3. [box[Item.cid] EXCEPT !.bad = IF ok THEN 0 ELSE @ + 1] \in Box
      BY <3>1, <3>2 DEF Box
    <3> QED BY <1>27, <2>1, <3>3 DEF MonExec
  <2>3. mon' \in MonState
    BY <1>27 DEF MonExec, MonState
  <2> QED BY <1>27, <2>2, <2>3 DEF MonExec, spec, parsed, history
<1>28. ASSUME NEW b \in Ids, BoxExits(b) PROVE Types'
  <2>1. box' \in [Ids -> Box]
    <3>1. PICK how \in Stopped : box' = StopBox(box, b, how)
      BY <1>28 DEF BoxExits
    <3> QED BY <3>1, BoxOps
  <2> QED BY <1>28, <2>1 DEF BoxExits, spec, parsed, history
<1>29. CASE UNCHANGED vars
  BY <1>29 DEF vars, spec, parsed, manager, history
<1> QED BY <1>1, <1>2, <1>3, <1>4, <1>5, <1>6, <1>7, <1>8, <1>9, <1>10, <1>11, <1>12, <1>13,
           <1>14, <1>15, <1>16, <1>17, <1>18, <1>19, <1>22, <1>23, <1>24, <1>25, <1>26, <1>27,
           <1>28, <1>29 DEF Next, User, CliStep, Monitor
-----------------------------------------------------------------------------
(* The spec and the threads *)

(* Only orch_run changes the spec. *)
LEMMA ParsedStep ==
    ASSUME [Next]_vars
    PROVE  (conf' = conf /\ sorted' = sorted) \/ \E t \in Texts : orch_run(t)
<1> USE DEF spec, parsed
<1>1. CASE User
  BY <1>1 DEF User, Inspect, orch_down, UserRun, container_prune_all,
              orch_restart_service, UserStart
<1>2. CASE CliStep
  BY <1>2 DEF CliStep, StartService, SpecUp, Join, StopService, SpecDown,
              RestartStop, RestartDelete, RestartRun, RestartSet
<1>3. CASE Monitor
  BY <1>3 DEF Monitor, MonTick, MonExit, MonItem, MonChecked, MonWake, MonDelete,
              MonRun, MonSet
<1>4. CASE \E ok \in BOOLEAN : MonExec(ok)
  BY <1>4 DEF MonExec
<1>5. CASE \E b \in Ids : BoxExits(b)
  BY <1>5 DEF BoxExits
<1>6. CASE UNCHANGED vars
  BY <1>6 DEF vars
<1> QED BY <1>1, <1>2, <1>3, <1>4, <1>5, <1>6 DEF Next

(* What orch_run keeps has an order. *)
LEMMA PlannedStep ==
    ASSUME Planned, [Next]_vars
    PROVE  Planned'
<1>1. CASE conf' = conf /\ sorted' = sorted
  BY <1>1 DEF Planned
<1>2. ASSUME NEW t \in Texts, orch_run(t) PROVE Planned'
  <2> DEFINE c == orch_parse_spec(t)
  <2>1. orch_validate(Deps(c)) /\ conf' = c /\ sorted' = topo_sort(Deps(c))
    BY <1>2 DEF orch_run
  <2>2. /\ Len(c) <= N /\ topo_sort(Deps(c)) \in Orders(Deps(c))
        /\ \A s \in DOMAIN c : ToSet(c[s].deps) \subseteq DOMAIN c
    BY <2>1, ParsePlanned
  <2> HIDE DEF c
  <2> QED BY <2>1, <2>2 DEF Planned
<1> QED BY <1>1, <1>2, ParsedStep

(* Steps that leave the monitor thread where it is. *)
LEMMA MonStill ==
    ASSUME [Next]_vars
    PROVE  \/ mon' = mon
           \/ SpecUp \/ MonTick \/ MonExit \/ MonItem \/ MonChecked \/ MonWake \/ MonDelete
           \/ MonRun \/ MonSet \/ \E ok \in BOOLEAN : MonExec(ok)
<1>1. CASE User
  BY <1>1 DEF User, Inspect, orch_down, UserRun, container_prune_all, orch_run,
              orch_restart_service, UserStart
<1>2. CASE CliStep
  BY <1>2 DEF CliStep, StartService, Join, StopService, SpecDown,
              RestartStop, RestartDelete, RestartRun, RestartSet
<1>3. CASE \E b \in Ids : BoxExits(b)
  BY <1>3 DEF BoxExits
<1>4. CASE UNCHANGED vars
  BY <1>4 DEF vars
<1> QED BY <1>1, <1>2, <1>3, <1>4 DEF Next, Monitor

(* The next item is taken up with nothing in hand. *)
LEMMA NextItemShape ==
    ASSUME Typed2, MonShape, conf' = conf, mon' = NextItem
    PROVE  MonShape' /\ mon'.work = mon.work \ {Item} /\ mon'.at = "work" /\ mon'.new = 0
<1>1. mon \in MonState
  BY TypedDef DEF Types
<1>2. mon'.at = "work" /\ mon'.work = mon.work \ {Item} /\ mon'.new = 0
  BY <1>1 DEF NextItem, MonState
<1> QED BY <1>2 DEF MonShape, Replacing

(* The items that a tick collects are of services with a container, one     *)
(* for each, and those to be restarted have seen it stop.                   *)
Collected(work) ==
    /\ \A w \in work : w.idx \in S /\ w.cid = cid[w.idx] /\ cid[w.idx] \in Ids
    /\ \A w \in work : w.restart => ExitSeen(w.idx)
    /\ \A v, w \in work : v.idx = w.idx => v = w

(* What a tick does. *)
LEMMA TickProps ==
    ASSUME Typed2, MonTick
    PROVE  /\ mon'.at = "work" /\ mon'.new = mon.new /\ mon'.hc = mon.hc
           /\ Collected(mon'.work)
           /\ \A s \in S : svc'[s] = svc[s] \/ svc'[s] \in {"RESTARTING", "STOPPED", "FAILED", "HEALTHY"}
<1>0. Types
  BY TypedDef
<1> DEFINE R == {s \in S : ExitSeen(s) /\ WantsRestart(s)}
           It(s) == [restart |-> s \in R, idx |-> s, cid |-> cid[s],
                     backoff |-> IF s \in R THEN Backoff(count[s]) ELSE 0]
<1>1. PICK due \in SUBSET {s \in S : Checkable(s) /\ conf[s].health} :
           /\ mon' = [mon EXCEPT !.at = "work", !.work = {It(s) : s \in R \cup due}]
           /\ svc' = [s \in S |->
                        CASE s \in R -> "RESTARTING"
                          [] ExitSeen(s) /\ s \notin R ->
                                IF BoxOf(s) = "OK" THEN "STOPPED" ELSE "FAILED"
                          [] Checkable(s) /\ ~conf[s].health /\ svc[s] = "RUNNING" -> "HEALTHY"
                          [] OTHER -> svc[s]]
  BY DEF MonTick
<1>2. \A s \in R \cup due : s \in S /\ cid[s] \in Ids /\ (s \in R => ExitSeen(s))
  <2> TAKE s \in R \cup due
  <2>1. s \in S /\ BoxOf(s) # "NONE"
    BY DEF ExitSeen, Checkable, Stopped
  <2>2. cid[s] # 0 /\ cid[s] \in 0 .. MaxStarts
    BY <1>0, <2>1 DEF BoxOf, Types
  <2> QED BY <2>1, <2>2, BoundsAssumption DEF Ids
<1>3. \A s : It(s).idx = s /\ It(s).cid = cid[s] /\ (It(s).restart <=> s \in R)
  OBVIOUS
<1>4. \A s \in S : svc'[s] = svc[s] \/ svc'[s] \in {"RESTARTING", "STOPPED", "FAILED", "HEALTHY"}
  <2> HIDE DEF R
  <2> QED BY <1>1
<1> HIDE DEF It, R
<1>5. /\ mon'.at = "work" /\ mon'.new = mon.new /\ mon'.hc = mon.hc
      /\ mon'.work = {It(s) : s \in R \cup due}
  <2> DEFINE W == {It(s) : s \in R \cup due}
  <2>1. mon' = [mon EXCEPT !.at = "work", !.work = W]
    BY <1>1
  <2> HIDE DEF W
  <2>2. /\ mon'.at = "work" /\ mon'.new = mon.new /\ mon'.hc = mon.hc
        /\ mon'.work = W
    BY <1>0, <2>1 DEF Types, MonState
  <2> QED BY <2>2 DEF W
<1>6. Collected({It(s) : s \in R \cup due})
  BY <1>2, <1>3 DEF Collected
<1> QED BY <1>4, <1>5, <1>6

(* The monitor goes by its program. *)
LEMMA MonShapeStep ==
    ASSUME Typed2, MonShape, CliShape, OnlySpec, [Next]_vars
    PROVE  MonShape'
<1>0. mon \in MonState
  BY TypedDef DEF Types
<1>1. ASSUME mon' = mon, conf' = conf PROVE MonShape'
  <2>1. Item' = Item
    BY <1>1, ItemSame
  <2> QED BY <1>1, <2>1 DEF MonShape
<1>2. ASSUME NEW t \in Texts, orch_run(t) PROVE MonShape'
  <2>1. mon = NoMonitor /\ mon' = mon
    BY <1>2 DEF orch_run, Typed, CliShape
  <2>2. mon'.at = "none" /\ mon'.new = 0 /\ mon'.work = {}
    BY <2>1 DEF NoMonitor
  <2> QED BY <2>1, <2>2 DEF MonShape, Replacing
<1>3. CASE SpecUp
  <2>1. mon' = NoMonitor \/ mon' = [NoMonitor EXCEPT !.at = "sleep"]
    BY <1>3 DEF SpecUp
  <2>2. mon'.work = {} /\ mon'.new = 0 /\ (mon'.at = "sleep" \/ (mon' = NoMonitor /\ mon'.at = "none"))
    BY <2>1 DEF NoMonitor
  <2> QED BY <2>2 DEF MonShape, Replacing
<1>4. CASE MonTick
  <2>1. mon'.at = "work" /\ mon'.new = mon.new /\ Collected(mon'.work)
    BY <1>4, TickProps
  <2>2. conf' = conf /\ mon.new = 0
    BY <1>4 DEF MonTick, parsed, MonShape
  <2>3. \A w \in mon'.work : w.idx \in DOMAIN conf
    <3> TAKE w \in mon'.work
    <3>1. w.idx \in S /\ cid[w.idx] \in Ids
      BY <2>1 DEF Collected
    <3>2. cid[w.idx] # 0
      BY <3>1, BoundsAssumption DEF Ids
    <3> QED BY <3>1, <3>2 DEF OnlySpec
  <2> QED BY <2>1, <2>2, <2>3 DEF MonShape, Replacing, Collected
<1>5. CASE MonExit
  <2>1. mon' = NoMonitor
    BY <1>5 DEF MonExit
  <2>2. mon'.at = "none" /\ mon'.new = 0 /\ mon'.work = {}
    BY <2>1 DEF NoMonitor
  <2> QED BY <2>1, <2>2 DEF MonShape, Replacing
<1>6. CASE MonItem
  <2>0. conf' = conf /\ mon.at = "work" /\ mon.new = 0
    BY <1>6 DEF MonItem, spec, parsed, MonShape
  <2>1. CASE mon.work = {} \/ ~running
    <3>1. mon' = [mon EXCEPT !.at = "sleep", !.work = {}]
      BY <1>6, <2>1 DEF MonItem
    <3>2. mon'.at = "sleep" /\ mon'.work = {} /\ mon'.new = 0
      BY <1>0, <2>0, <3>1 DEF MonState
    <3> QED BY <3>2 DEF MonShape, Replacing
  <2>2. CASE mon.work # {} /\ running
    <3>1. mon' = [mon EXCEPT !.at = IF Item.restart THEN "backoff" ELSE "exec"]
      BY <1>6, <2>2 DEF MonItem
    <3>2. /\ mon'.at \in {"backoff", "exec"} /\ mon'.work = mon.work /\ mon'.new = 0
          /\ mon'.at = "backoff" => Item.restart
      BY <1>0, <2>0, <3>1 DEF MonState
    <3>3. Item' = Item
      BY <3>2, ItemSame
    <3> QED BY <2>0, <2>2, <3>2, <3>3 DEF MonShape, Replacing
  <2> QED BY <2>1, <2>2
<1>7. ASSUME mon' = NextItem, conf' = conf PROVE MonShape'
  BY <1>7, NextItemShape
<1>8. CASE MonChecked
  BY <1>7, <1>8 DEF MonChecked, parsed
<1>9. ASSUME mon.at \in {"backoff", "delete", "run"}, conf' = conf, mon'.work = mon.work,
             mon'.at \in Replacing, mon'.at # "set" => mon'.new = 0
      PROVE  MonShape'
  <2>1. Item' = Item
    BY <1>9, ItemSame
  <2> QED BY <1>9, <2>1 DEF MonShape, Replacing
<1>10. CASE MonWake
  <2>1. conf' = conf /\ mon.at = "backoff" /\ mon.new = 0
    BY <1>10 DEF MonWake, spec, parsed, MonShape
  <2>2. CASE running
    <3>1. mon' = [mon EXCEPT !.at = "delete"]
      BY <1>10, <2>2 DEF MonWake
    <3>2. mon'.at = "delete" /\ mon'.work = mon.work /\ mon'.new = 0
      BY <1>0, <2>1, <3>1 DEF MonState
    <3> QED BY <1>9, <2>1, <3>2 DEF Replacing
  <2>3. CASE ~running
    BY <1>7, <1>10, <2>1, <2>3 DEF MonWake
  <2> QED BY <2>2, <2>3
<1>11. CASE MonDelete
  <2>1. conf' = conf /\ mon.at = "delete" /\ mon.new = 0 /\ mon' = [mon EXCEPT !.at = "run"]
    BY <1>11 DEF MonDelete, spec, parsed, MonShape
  <2>2. mon'.at = "run" /\ mon'.work = mon.work /\ mon'.new = 0
    BY <1>0, <2>1 DEF MonState
  <2> QED BY <1>9, <2>1, <2>2 DEF Replacing
<1>12. CASE MonRun
  <2>1. conf' = conf /\ mon.at = "run"
    BY <1>12 DEF MonRun, spec, parsed
  <2>2. PICK ok \in BOOLEAN : mon' = [mon EXCEPT !.at = "set", !.new = IF ok THEN next ELSE 0]
    BY <1>12 DEF MonRun
  <2>3. mon'.at = "set" /\ mon'.work = mon.work
    BY <1>0, <2>2 DEF MonState
  <2> QED BY <1>9, <2>1, <2>3 DEF Replacing
<1>13. CASE MonSet
  BY <1>7, <1>13 DEF MonSet, parsed
<1>14. ASSUME NEW ok \in BOOLEAN, MonExec(ok) PROVE MonShape'
  <2>1. conf' = conf /\ mon.at = "exec" /\ mon' = [mon EXCEPT !.at = "checked", !.hc = ok]
    BY <1>14 DEF MonExec, spec, parsed
  <2>2. mon'.at = "checked" /\ mon'.work = mon.work /\ mon'.new = mon.new
    BY <1>0, <2>1 DEF MonState
  <2> QED BY <2>1, <2>2 DEF MonShape, Replacing
<1> QED BY <1>1, <1>2, <1>3, <1>4, <1>5, <1>6, <1>8, <1>10, <1>11, <1>12, <1>13, <1>14,
           MonStill, ParsedStep
(* The commands and their steps; everything else leaves the command line    *)
(* where it is.                                                             *)
LEMMA CliStill ==
    ASSUME [Next]_vars
    PROVE  \/ cli' = cli /\ running' = running
           \/ orch_down \/ StartService \/ SpecUp \/ Join \/ StopService \/ SpecDown
           \/ RestartStop \/ RestartDelete \/ RestartRun \/ RestartSet
           \/ \E t \in Texts : orch_run(t)
           \/ \E s \in DOMAIN conf : orch_restart_service(s)
<1>1. CASE User
  BY <1>1 DEF User, Inspect, UserRun, container_prune_all, UserStart
<1>2. CASE Monitor
  BY <1>2 DEF Monitor, MonTick, MonExit, MonItem, MonChecked, MonWake, MonDelete,
              MonRun, MonSet
<1>3. CASE \E ok \in BOOLEAN : MonExec(ok)
  BY <1>3 DEF MonExec
<1>4. CASE \E b \in Ids : BoxExits(b)
  BY <1>4 DEF BoxExits
<1>5. CASE UNCHANGED vars
  BY <1>5 DEF vars
<1> QED BY <1>1, <1>2, <1>3, <1>4, <1>5 DEF Next, CliStep

(* Without a thread none of the monitor's steps is taken. *)
LEMMA NoMonitorStep ==
    ASSUME [Next]_vars, mon = NoMonitor
    PROVE  mon' = mon \/ SpecUp
<1>1. mon.at = "none"
  BY DEF NoMonitor
<1> QED BY <1>1, MonStill DEF MonTick, MonExit, MonItem, MonChecked, MonWake, MonDelete,
           MonRun, MonSet, MonExec

(* A service stays on record as restarted. *)
LEMMA RestartedStep ==
    ASSUME [Next]_vars
    PROVE  restarted \subseteq restarted'
<1> USE DEF history
<1>1. CASE User
  BY <1>1 DEF User, Inspect, orch_down, UserRun, container_prune_all, orch_run,
              orch_restart_service, UserStart
<1>2. CASE CliStep
  BY <1>2 DEF CliStep, StartService, SpecUp, Join, StopService, SpecDown,
              RestartStop, RestartDelete, RestartRun, RestartSet
<1>3. CASE Monitor
  BY <1>3 DEF Monitor, MonTick, MonExit, MonItem, MonChecked, MonWake, MonDelete,
              MonRun, MonSet
<1>4. CASE \E ok \in BOOLEAN : MonExec(ok)
  BY <1>4 DEF MonExec
<1>5. CASE \E b \in Ids : BoxExits(b)
  BY <1>5 DEF BoxExits
<1>6. CASE UNCHANGED vars
  BY <1>6 DEF vars
<1> QED BY <1>1, <1>2, <1>3, <1>4, <1>5, <1>6 DEF Next

(* The command line goes by its program. *)
LEMMA CliShapeStep ==
    ASSUME Typed2, CliShape, Planned, [Next]_vars
    PROVE  CliShape'
<1>0. cli \in CliState /\ conf \in Seq(Service)
  BY TypedDef DEF Types
<1>1. restarted \subseteq restarted'
  BY RestartedStep
<1>2. mon = NoMonitor => mon' = NoMonitor \/ SpecUp
  BY NoMonitorStep
<1>3. ASSUME cli' = cli, running' = running, ~SpecUp PROVE CliShape'
  <2>1. conf' = conf \/ cli.at \notin Restarting
    BY ParsedStep DEF orch_run, Typed, Restarting
  <2>2. ~running' /\ cli'.at # "join" => mon' = NoMonitor
    BY <1>2, <1>3 DEF CliShape
  <2> QED BY <1>1, <1>3, <2>1, <2>2 DEF CliShape
<1>4. CASE orch_down
  <2>1. running' = FALSE /\ cli' = [Prompt EXCEPT !.at = "join"]
    BY <1>4 DEF orch_down
  <2>2. cli'.at = "join" /\ cli'.id = 0
    BY <2>1 DEF Prompt
  <2> QED BY <2>1, <2>2 DEF CliShape, Restarting
<1>5. CASE StartService \/ StopService
  <2>1. /\ cli' = [cli EXCEPT !.todo = Tail(@)] /\ running' = running /\ mon' = mon
        /\ cli.at \in {"up", "down"}
    BY <1>5 DEF StartService, StopService
  <2>2. cli'.at = cli.at /\ cli'.id = cli.id
    BY <1>0, <2>1 DEF CliState
  <2> QED BY <2>1, <2>2 DEF CliShape, Restarting
<1>6. CASE SpecUp
  <2>1. running' = TRUE /\ cli' = Prompt
    BY <1>6 DEF SpecUp
  <2>2. cli'.at = "prompt" /\ cli'.id = 0
    BY <2>1 DEF Prompt
  <2> QED BY <2>1, <2>2 DEF CliShape, Restarting
<1>7. CASE Join
  <2>1. /\ cli' = [cli EXCEPT !.at = "down", !.todo = Reverse(sorted)]
        /\ cli.at = "join" /\ mon = NoMonitor /\ mon' = mon /\ running' = running
    BY <1>7 DEF Join
  <2>2. cli'.at = "down" /\ cli'.id = cli.id
    BY <1>0, <2>1 DEF CliState
  <2> QED BY <2>1, <2>2 DEF CliShape, Restarting
<1>8. CASE SpecDown
  <2>1. cli.at = "down" /\ cli' = Prompt /\ running' = running /\ mon' = mon
    BY <1>8 DEF SpecDown
  <2>2. cli'.at = "prompt" /\ cli'.id = 0
    BY <2>1 DEF Prompt
  <2> QED BY <2>1, <2>2 DEF CliShape, Restarting
<1>9. CASE RestartStop \/ RestartDelete \/ RestartRun
  <2>1. /\ cli.at \in {"rstop", "rdelete", "rrun"} /\ running' = running
        /\ conf' = conf
        /\ \E id : cli' = [cli EXCEPT !.at = "rdelete"] \/ cli' = [cli EXCEPT !.at = "rrun"]
                   \/ cli' = [cli EXCEPT !.at = "rset", !.id = id]
    BY <1>9 DEF RestartStop, RestartDelete, RestartRun, spec, parsed
  <2>2. cli'.at \in {"rdelete", "rrun", "rset"} /\ cli'.idx = cli.idx
    BY <1>0, <2>1 DEF CliState
  <2> QED BY <1>1, <2>1, <2>2 DEF CliShape, Restarting
<1>10. CASE RestartSet
  <2>1. cli.at = "rset" /\ cli' = Prompt /\ running' = running
    BY <1>10 DEF RestartSet
  <2>2. cli'.at = "prompt" /\ cli'.id = 0
    BY <2>1 DEF Prompt
  <2> QED BY <2>1, <2>2 DEF CliShape, Restarting
<1>11. ASSUME NEW t \in Texts, orch_run(t) PROVE CliShape'
  <2>1. /\ ~running /\ running' = running /\ mon' = mon /\ cli.at = "prompt"
        /\ cli' = [Prompt EXCEPT !.at = "up", !.todo = topo_sort(Deps(orch_parse_spec(t)))]
    BY <1>11 DEF orch_run, Typed
  <2>2. cli'.at = "up" /\ cli'.id = 0
    BY <2>1 DEF Prompt
  <2> QED BY <2>1, <2>2 DEF CliShape, Restarting
<1>12. ASSUME NEW s \in DOMAIN conf, orch_restart_service(s) PROVE CliShape'
  <2>1. /\ running /\ running' = running /\ conf' = conf /\ restarted' = restarted \cup {s}
        /\ cli' = [Prompt EXCEPT !.at = "rstop", !.idx = s, !.id = cid[s]]
    BY <1>12 DEF orch_restart_service, parsed
  <2>2. cli'.at = "rstop" /\ cli'.idx = s
    BY <2>1 DEF Prompt
  <2> QED BY <2>1, <2>2 DEF CliShape, Restarting
<1> QED BY <1>3, <1>4, <1>5, <1>6, <1>7, <1>8, <1>9, <1>10, <1>11, <1>12, CliStill

(* The elements of a good order. *)
LEMMA SortedProps ==
    ASSUME Typed2, Planned
    PROVE  /\ conf \in Seq(Service) /\ Len(conf) \in Nat /\ DOMAIN conf = 1 .. Len(conf)
           /\ DOMAIN conf \subseteq S
           /\ sorted \in Seq(DOMAIN conf) /\ Len(sorted) = Len(conf) /\ Distinct(sorted)
           /\ \A i \in 1 .. Len(sorted) : sorted[i] \in DOMAIN conf
           /\ \A s \in DOMAIN conf : \E i \in 1 .. Len(sorted) : sorted[i] = s
           /\ \A i, j \in 1 .. Len(sorted) :
                  sorted[j] \in ToSet(conf[sorted[i]].deps) => j < i
<1> DEFINE n == Len(conf)
           deps == Deps(conf)
<1>0. conf \in Seq(Service) /\ N \in Nat
  BY TypedDef, NAssumption DEF Types
<1>1. n \in Nat /\ DOMAIN conf = 1 .. n /\ \A s \in 1 .. n : conf[s] \in Service
  BY <1>0
<1>2. \A s \in 1 .. n : conf[s].deps \in Seq(S)
  BY <1>1 DEF Service
<1>3. \A s \in 1 .. n : conf[s].deps \in Seq(Int)
  <2>1. S \subseteq Int
    BY NAssumption DEF S
  <2> QED BY <1>2, <2>1, SeqWiden
<1>4. deps = [s \in 1 .. n |-> conf[s].deps]
  BY <1>1 DEF Deps
<1>5. deps \in Seq(Seq(Int)) /\ Len(deps) = n
  <2> HIDE DEF n
  <2> QED BY <1>1, <1>3, <1>4
<1>6. DOMAIN conf \subseteq S
  BY <1>0, <1>1 DEF Planned, S
<1>7. /\ sorted \in Seq(1 .. n) /\ Len(sorted) = n /\ Distinct(sorted) /\ Behind(deps, sorted)
  <2>1. sorted \in Orders(deps)
    BY DEF Planned
  <2> HIDE DEF deps, n
  <2> QED BY <1>5, <2>1, OrdersDef
<1> HIDE DEF n
<1>8. \A i \in 1 .. n : sorted[i] \in 1 .. n
  BY <1>7, SeqWiden
<1>9. \A s \in 1 .. n : \E i \in 1 .. n : sorted[i] = s
  BY <1>1, <1>7, DistinctLength
<1>10. ASSUME NEW i \in 1 .. n, NEW j \in 1 .. n, sorted[j] \in ToSet(conf[sorted[i]].deps)
       PROVE  j < i
  <2>1. PICK d \in DOMAIN conf[sorted[i]].deps : conf[sorted[i]].deps[d] = sorted[j]
    BY <1>10 DEF ToSet
  <2>2. deps[sorted[i]] = conf[sorted[i]].deps /\ DOMAIN deps = 1 .. n
    BY <1>4, <1>8
  <2> HIDE DEF deps
  <2>3. d \in Known(deps, sorted[i])
    BY <1>8, <2>1, <2>2 DEF Known
  <2>4. PICK k \in 1 .. (i - 1) : sorted[k] = deps[sorted[i]][d]
    BY <1>7, <2>3 DEF Behind
  <2>5. k \in 1 .. n /\ k < i /\ sorted[k] = sorted[j]
    BY <1>1, <2>1, <2>2, <2>4
  <2>6. k = j
    BY <1>7, <2>5 DEF Distinct
  <2> QED BY <2>5, <2>6
<1> QED BY <1>0, <1>1, <1>6, <1>7, <1>8, <1>9, <1>10 DEF n
(* The rest of a sequence from place k + 1 on. *)
LEMMA RestOf ==
    ASSUME NEW T, NEW q \in Seq(T), NEW k \in 0 .. Len(q)
    PROVE  /\ SubSeq(q, 1, Len(q)) = q
           /\ SubSeq(q, k + 1, Len(q)) = <<>> => k = Len(q)
           /\ SubSeq(q, k + 1, Len(q)) # <<>> =>
                  /\ k + 1 \in 1 .. Len(q) /\ k + 1 \in 0 .. Len(q)
                  /\ Head(SubSeq(q, k + 1, Len(q))) = q[k + 1]
                  /\ Tail(SubSeq(q, k + 1, Len(q))) = SubSeq(q, (k + 1) + 1, Len(q))
<1> DEFINE n == Len(q)
           r == SubSeq(q, k + 1, n)
<1>0. n \in Nat /\ k \in Nat /\ k <= n
  OBVIOUS
<1>1. SubSeq(q, 1, n) = q
  OBVIOUS
<1>2. r \in Seq(T) /\ Len(r) = n - k /\ \A i \in 1 .. (n - k) : r[i] = q[i + k]
  OBVIOUS
<1>3. r = <<>> => k = n
  <2> HIDE DEF r, n
  <2> QED BY <1>0, <1>2
<1>4. r # <<>> => k + 1 \in 1 .. n /\ k + 1 \in 0 .. n
  <2> HIDE DEF r, n
  <2> QED BY <1>0, <1>2
<1>5. ASSUME r # <<>> PROVE Head(r) = q[k + 1] /\ Tail(r) = SubSeq(q, (k + 1) + 1, n)
  <2>1. Len(r) = n - k /\ n - k > 0 /\ 1 \in 1 .. (n - k)
    <3> HIDE DEF r, n
    <3> QED BY <1>0, <1>2, <1>4, <1>5
  <2>2. Head(r) = r[1] /\ r[1] = q[1 + k]
    <3> HIDE DEF r, n
    <3> QED BY <1>2, <1>5, <2>1
  <2>3. Tail(r) \in Seq(T) /\ Len(Tail(r)) = n - k - 1
        /\ \A i \in 1 .. (n - k - 1) : Tail(r)[i] = r[i + 1]
    <3> HIDE DEF r, n
    <3> QED BY <1>0, <1>2, <1>5, <2>1
  <2> DEFINE u == SubSeq(q, (k + 1) + 1, n)
  <2>4. u \in Seq(T) /\ Len(u) = n - k - 1 /\ \A i \in 1 .. (n - k - 1) : u[i] = q[i + k + 1]
    BY SMTT(30), <1>4, <1>5
  <2>5. \A i \in 1 .. (n - k - 1) : Tail(r)[i] = q[i + k + 1]
    <3> TAKE i \in 1 .. (n - k - 1)
    <3>1. i + 1 \in 1 .. (n - k) /\ (i + 1) + k = i + k + 1
      BY <1>0
    <3> HIDE DEF r, n
    <3> QED BY <1>2, <2>3, <3>1
  <2> HIDE DEF r, u, n
  <2>6. Tail(r) = u
    BY <1>0, <2>3, <2>4, <2>5
  <2>7. 1 + k = k + 1
    BY <1>0
  <2> QED BY <2>2, <2>6, <2>7 DEF u
<1> QED BY <1>1, <1>3, <1>4, <1>5

(* Who changes what is known of the services. *)
LEMMA SvcStill ==
    ASSUME [Next]_vars
    PROVE  \/ cid' = cid /\ svc' = svc /\ fails' = fails
           \/ StartService \/ StopService \/ RestartSet \/ MonTick \/ MonChecked \/ MonSet
           \/ \E t \in Texts : orch_run(t)
           \/ \E s \in DOMAIN conf : orch_restart_service(s)
<1> USE DEF spec, parsed
<1>1. CASE User
  BY <1>1 DEF User, Inspect, orch_down, UserRun, container_prune_all, UserStart
<1>2. CASE CliStep
  BY <1>2 DEF CliStep, SpecUp, Join, SpecDown, RestartStop, RestartDelete, RestartRun
<1>3. CASE Monitor
  BY <1>3 DEF Monitor, MonExit, MonItem, MonWake, MonDelete, MonRun
<1>4. CASE \E ok \in BOOLEAN : MonExec(ok)
  BY <1>4 DEF MonExec
<1>5. CASE \E b \in Ids : BoxExits(b)
  BY <1>5 DEF BoxExits
<1>6. CASE UNCHANGED vars
  BY <1>6 DEF vars
<1> QED BY <1>1, <1>2, <1>3, <1>4, <1>5, <1>6 DEF Next

(* orch_run goes through the order. *)
LEMMA UpTodoStep ==
    ASSUME Typed2, Typed2', Planned, Planned', CliShape, UpTodo, [Next]_vars
    PROVE  UpTodo'
<1>0. cli \in CliState /\ sorted \in Seq(S) /\ cid \in [S -> 0 .. MaxStarts] /\ svc \in [S -> SvcStates]
  BY TypedDef DEF Types
<1> SUFFICES ASSUME cli'.at = "up" PROVE UpTodo'
  BY DEF UpTodo
<1>1. ASSUME cli' = cli, ~StartService PROVE UpTodo'
  <2>1. cli.at = "up" /\ mon = NoMonitor
    BY <1>1 DEF CliShape
  <2>2. mon.at = "none"
    BY <2>1 DEF NoMonitor
  <2>3. cid' = cid /\ svc' = svc /\ fails' = fails
    BY <1>1, <2>1, <2>2, SvcStill DEF StopService, RestartSet, MonTick, MonChecked, MonSet,
        orch_run, orch_restart_service, Typed
  <2>4. conf' = conf /\ sorted' = sorted
    BY <2>1, ParsedStep DEF orch_run, Typed
  <2> QED BY <1>1, <2>3, <2>4 DEF UpTodo
<1>2. ASSUME NEW t \in Texts, orch_run(t) PROVE UpTodo'
  <2>1. /\ sorted' \in Seq(S) /\ cli' = [Prompt EXCEPT !.at = "up", !.todo = sorted']
        /\ cid' = [s \in S |-> 0] /\ fails' = [s \in S |-> 0]
    <3>1. sorted' \in Seq(S)
      BY TypedNext DEF Types
    <3> QED BY <1>2, <3>1 DEF orch_run
  <2>2. cli'.todo = sorted'
    BY <2>1 DEF Prompt
  <2>3. SubSeq(sorted', 0 + 1, Len(sorted')) = sorted' /\ 0 \in 0 .. Len(sorted')
    BY <2>1
  <2>4. \A i \in (0 + 1) .. Len(sorted') : cid'[sorted'[i]] = 0
    BY <2>1
  <2> QED BY <2>1, <2>2, <2>3, <2>4 DEF UpTodo
<1>3. CASE StartService
  <2> DEFINE s0 == Head(cli.todo)
  <2>1. /\ cli.at = "up" /\ cli.todo # <<>> /\ sorted' = sorted /\ fails' = fails
        /\ \E x : cid' = [cid EXCEPT ![s0] = x]
        /\ \E x : svc' = [svc EXCEPT ![s0] = x] /\ x # "PENDING"
        /\ cli' = [cli EXCEPT !.todo = Tail(@)]
    BY <1>3 DEF StartService, parsed
  <2>2. PICK k \in 0 .. Len(sorted) :
            /\ cli.todo = SubSeq(sorted, k + 1, Len(sorted))
            /\ \A i \in 1 .. k : svc[sorted[i]] # "PENDING"
            /\ \A i \in (k + 1) .. Len(sorted) : cid[sorted[i]] = 0
    BY <2>1 DEF UpTodo
  <2>3. /\ k + 1 \in 1 .. Len(sorted) /\ k + 1 \in 0 .. Len(sorted) /\ s0 = sorted[k + 1]
        /\ Tail(cli.todo) = SubSeq(sorted, (k + 1) + 1, Len(sorted))
    <3>1. /\ SubSeq(sorted, k + 1, Len(sorted)) # <<>> =>
                /\ k + 1 \in 1 .. Len(sorted) /\ k + 1 \in 0 .. Len(sorted)
                /\ Head(SubSeq(sorted, k + 1, Len(sorted))) = sorted[k + 1]
                /\ Tail(SubSeq(sorted, k + 1, Len(sorted))) = SubSeq(sorted, (k + 1) + 1, Len(sorted))
      BY <1>0, RestOf, Zenon
    <3> QED BY <2>1, <2>2, <3>1, Zenon
  <2>4. cli'.todo = Tail(cli.todo)
    BY <1>0, <2>1 DEF CliState
  <2>5. Len(sorted) \in Nat /\ Distinct(sorted) /\ \A i \in 1 .. Len(sorted) : sorted[i] \in S
    BY <1>0, SortedProps
  <2> HIDE DEF s0
  <2>6. \A i \in 1 .. (k + 1) : svc'[sorted[i]] # "PENDING"
    <3> TAKE i \in 1 .. (k + 1)
    <3>1. i \in 1 .. Len(sorted) /\ sorted[i] \in S
      BY <2>3, <2>5
    <3>2. CASE i = k + 1
      BY <1>0, <2>1, <2>3, <3>1, <3>2
    <3>3. CASE i # k + 1
      <4>1. i \in 1 .. k
        BY <3>3
      <4> QED BY <1>0, <2>1, <2>2, <3>1, <4>1
    <3> QED BY <3>2, <3>3
  <2>7. \A i \in ((k + 1) + 1) .. Len(sorted) : cid'[sorted[i]] = 0
    <3> TAKE i \in ((k + 1) + 1) .. Len(sorted)
    <3>1. i \in 1 .. Len(sorted) /\ i \in (k + 1) .. Len(sorted) /\ i # k + 1
      BY <2>3, <2>5
    <3>2. sorted[i] # s0 /\ sorted[i] \in S
      BY <2>3, <2>5, <3>1 DEF Distinct
    <3> QED BY <1>0, <2>1, <2>2, <3>1, <3>2
  <2>8. \A s \in S : fails'[s] = 0
    BY <2>1 DEF UpTodo
  <2> QED BY <2>1, <2>3, <2>4, <2>6, <2>7, <2>8 DEF UpTodo
<1>4. ~orch_down /\ ~SpecUp /\ ~SpecDown /\ ~RestartSet
  BY DEF orch_down, SpecUp, SpecDown, RestartSet, Prompt
<1>5. ~Join /\ ~RestartStop /\ ~RestartDelete /\ ~RestartRun
  BY <1>0 DEF Join, RestartStop, RestartDelete, RestartRun, CliState
<1>6. ~StopService
  BY <1>0 DEF StopService, CliState
<1>7. ASSUME NEW s \in DOMAIN conf, orch_restart_service(s) PROVE FALSE
  BY <1>7 DEF orch_restart_service, Prompt
<1> QED BY <1>1, <1>2, <1>3, <1>4, <1>5, <1>6, <1>7, CliStill
(* The first of the services that orch_run has not tried yet. *)
LEMMA UpHead ==
    ASSUME Typed2, Planned, UpTodo, cli.at = "up", cli.todo # <<>>
    PROVE  Head(cli.todo) \in DOMAIN conf /\ Head(cli.todo) \in S /\ cid[Head(cli.todo)] = 0
<1>0. sorted \in Seq(S)
  BY TypedDef DEF Types
<1>1. PICK k \in 0 .. Len(sorted) :
          /\ cli.todo = SubSeq(sorted, k + 1, Len(sorted))
          /\ \A i \in (k + 1) .. Len(sorted) : cid[sorted[i]] = 0
  BY DEF UpTodo
<1>2. SubSeq(sorted, k + 1, Len(sorted)) # <<>> =>
          k + 1 \in 1 .. Len(sorted) /\ Head(SubSeq(sorted, k + 1, Len(sorted))) = sorted[k + 1]
  BY <1>0, RestOf, Zenon
<1>3. k + 1 \in 1 .. Len(sorted) /\ Head(cli.todo) = sorted[k + 1]
  BY <1>1, <1>2
<1>4. k + 1 \in (k + 1) .. Len(sorted)
  BY <1>3
<1>5. sorted[k + 1] \in DOMAIN conf /\ DOMAIN conf \subseteq S
  BY <1>3, SortedProps
<1> QED BY <1>1, <1>3, <1>4, <1>5

(* The reverse of a sequence. *)
LEMMA ReverseProps ==
    ASSUME NEW T, NEW q \in Seq(T)
    PROVE  /\ Reverse(q) \in Seq(T) /\ Len(Reverse(q)) = Len(q) /\ Len(q) \in Nat
           /\ \A i \in 1 .. Len(q) : /\ Reverse(q)[i] = q[Len(q) - i + 1]
                                     /\ Len(q) - i + 1 \in 1 .. Len(q)
<1>1. Len(q) \in Nat /\ \A i \in 1 .. Len(q) : q[i] \in T
  OBVIOUS
<1>2. \A i \in 1 .. Len(q) : Len(q) - i + 1 \in 1 .. Len(q)
  BY <1>1
<1> QED BY <1>1, <1>2 DEF Reverse

(* orch_down goes through the reverse order. *)
LEMMA DownTodoStep ==
    ASSUME Typed2, Planned, CliShape, DownTodo, [Next]_vars
    PROVE  DownTodo'
<1>0. cli \in CliState /\ sorted \in Seq(S) /\ cid \in [S -> 0 .. MaxStarts]
  BY TypedDef DEF Types
<1> DEFINE rev == Reverse(sorted)
           n == Len(sorted)
<1>00. rev \in Seq(S) /\ Len(rev) = n /\ n \in Nat /\ \A i \in 1 .. n : rev[i] \in S
  <2>1. rev \in Seq(S) /\ Len(rev) = n /\ n \in Nat
    BY <1>0, ReverseProps
  <2> HIDE DEF rev
  <2> QED BY <2>1
<1> SUFFICES ASSUME cli'.at = "down" PROVE DownTodo'
  BY DEF DownTodo
<1>1. ASSUME cli' = cli, ~StopService PROVE DownTodo'
  <2>1. cli.at = "down" /\ mon = NoMonitor
    BY <1>1 DEF CliShape
  <2>2. mon.at = "none"
    BY <2>1 DEF NoMonitor
  <2>3. cid' = cid
    BY <1>1, <2>1, <2>2, SvcStill DEF StartService, RestartSet, MonTick, MonChecked, MonSet,
       orch_run, orch_restart_service, Typed
  <2>4. sorted' = sorted
    BY <2>1, ParsedStep DEF orch_run, Typed
  <2> QED BY <1>1, <2>3, <2>4 DEF DownTodo
<1>2. CASE Join
  <2>1. sorted' = sorted /\ cli' = [cli EXCEPT !.at = "down", !.todo = rev]
    BY <1>2 DEF Join, spec, parsed
  <2>2. cli'.todo = rev
    BY <1>0, <2>1 DEF CliState
  <2>3. SubSeq(rev, 0 + 1, n) = rev /\ 0 \in 0 .. n
    <3> HIDE DEF rev, n
    <3> QED BY <1>00
  <2>4. (Reverse(sorted))' = rev
    BY <2>1
  <2> QED BY <2>1, <2>2, <2>3, <2>4 DEF DownTodo
<1>3. CASE StopService
  <2> DEFINE s0 == Head(cli.todo)
  <2>1. /\ cli.at = "down" /\ cli.todo # <<>> /\ sorted' = sorted
        /\ cid' = [cid EXCEPT ![s0] = 0]
        /\ cli' = [cli EXCEPT !.todo = Tail(@)]
    BY <1>3 DEF StopService, parsed
  <2>2. PICK k \in 0 .. n :
            /\ cli.todo = SubSeq(rev, k + 1, n)
            /\ \A i \in 1 .. k : cid[rev[i]] = 0
    BY <2>1 DEF DownTodo
  <2> HIDE DEF n, rev
  <2>3. /\ k + 1 \in 1 .. n /\ k + 1 \in 0 .. n /\ s0 = rev[k + 1]
        /\ Tail(cli.todo) = SubSeq(rev, (k + 1) + 1, n)
    <3>0. k \in 0 .. Len(rev)
      BY <1>00
    <3>1. /\ SubSeq(rev, k + 1, Len(rev)) # <<>> =>
                /\ k + 1 \in 1 .. Len(rev) /\ k + 1 \in 0 .. Len(rev)
                /\ Head(SubSeq(rev, k + 1, Len(rev))) = rev[k + 1]
                /\ Tail(SubSeq(rev, k + 1, Len(rev))) = SubSeq(rev, (k + 1) + 1, Len(rev))
      BY <1>00, <3>0, RestOf, Zenon
    <3>2. Len(rev) = n
      BY <1>00
    <3> QED BY <2>1, <2>2, <3>1, <3>2, Zenon
  <2>4. cli'.todo = Tail(cli.todo)
    BY <1>0, <2>1 DEF CliState
  <2> HIDE DEF s0
  <2>6. \A i \in 1 .. (k + 1) : cid'[rev[i]] = 0
    <3> TAKE i \in 1 .. (k + 1)
    <3>1. i \in 1 .. n /\ rev[i] \in S
      BY <1>00, <2>3
    <3>2. CASE i = k + 1
      BY <1>0, <2>1, <2>3, <3>1, <3>2
    <3>3. CASE i # k + 1
      <4>1. i \in 1 .. k
        BY <3>3
      <4> QED BY <1>0, <2>1, <2>2, <3>1, <4>1
    <3> QED BY <3>2, <3>3
  <2>7. (Reverse(sorted))' = rev /\ Len(sorted)' = n
    BY <2>1 DEF rev, n
  <2> QED BY <2>1, <2>3, <2>4, <2>6, <2>7 DEF DownTodo
<1>4. ~orch_down /\ ~SpecUp /\ ~SpecDown /\ ~RestartSet
  BY DEF orch_down, SpecUp, SpecDown, RestartSet, Prompt
<1>5. ~RestartStop /\ ~RestartDelete /\ ~RestartRun
  BY <1>0 DEF RestartStop, RestartDelete, RestartRun, CliState
<1>6. ~StartService
  BY <1>0 DEF StartService, CliState
<1>7. ASSUME NEW s \in DOMAIN conf, orch_restart_service(s) PROVE FALSE
  BY <1>7 DEF orch_restart_service, Prompt
<1>8. ASSUME NEW t \in Texts, orch_run(t) PROVE FALSE
  BY <1>8 DEF orch_run, Prompt
<1> QED BY <1>1, <1>2, <1>3, <1>4, <1>5, <1>6, <1>7, <1>8, CliStill

(* A service that was tried is never PENDING again. *)
LEMMA TriedStep ==
    ASSUME Typed2, MonShape, [Next]_vars, \A t \in Texts : ~orch_run(t),
           NEW s \in S, svc[s] # "PENDING"
    PROVE  svc'[s] # "PENDING"
<1>0. svc \in [S -> SvcStates]
  BY TypedDef DEF Types
<1>1. CASE StartService
  <2>1. \/ svc' = [svc EXCEPT ![Head(cli.todo)] = "RUNNING"]
        \/ svc' = [svc EXCEPT ![Head(cli.todo)] = "FAILED"]
    BY <1>1 DEF StartService
  <2> QED BY <1>0, <2>1
<1>2. CASE StopService
  <2>1. \E t : svc' = [svc EXCEPT ![t] = IF cid[t] = 0 THEN @ ELSE "STOPPED"]
    BY <1>2 DEF StopService
  <2> QED BY <1>0, <2>1
<1>3. CASE RestartSet
  <2>1. svc' = [svc EXCEPT ![cli.idx] = "RUNNING"] \/ svc' = [svc EXCEPT ![cli.idx] = "FAILED"]
    BY <1>3 DEF RestartSet
  <2> QED BY <1>0, <2>1
<1>4. CASE MonTick
  <2>1. svc'[s] = svc[s] \/ svc'[s] \in {"RESTARTING", "STOPPED", "FAILED", "HEALTHY"}
    BY <1>4, TickProps
  <2> QED BY <2>1
<1>5. CASE MonChecked
  <2>1. \/ svc' = svc
        \/ svc' = [svc EXCEPT ![Item.idx] = "HEALTHY"]
        \/ svc' = [svc EXCEPT ![Item.idx] = "UNHEALTHY"]
        \/ svc' = [svc EXCEPT ![Item.idx] = @]
    BY <1>5 DEF MonChecked
  <2> QED BY <1>0, <2>1
<1>6. CASE MonSet
  <2>1. \/ svc' = svc
        \/ svc' = [svc EXCEPT ![Item.idx] = "RUNNING"]
        \/ svc' = [svc EXCEPT ![Item.idx] = "FAILED"]
    <3>1. CASE ~running
      BY <1>6, <3>1 DEF MonSet
    <3>2. CASE running /\ mon.new # 0
      BY <1>6, <3>2 DEF MonSet
    <3>3. CASE running /\ mon.new = 0
      BY <1>6, <3>3 DEF MonSet
    <3> QED BY <3>1, <3>2, <3>3
  <2> QED BY <1>0, <2>1
<1>7. ASSUME NEW t \in DOMAIN conf, orch_restart_service(t) PROVE svc'[s] # "PENDING"
  <2>1. svc' = [svc EXCEPT ![t] = "RESTARTING"]
    BY <1>7 DEF orch_restart_service
  <2> QED BY <1>0, <2>1
<1> QED BY <1>1, <1>2, <1>3, <1>4, <1>5, <1>6, <1>7, SvcStill
(* Before the monitor starts every service has been tried. *)
LEMMA AllTriedStep ==
    ASSUME Typed2, Planned, MonShape, CliShape, UpTodo, AllTried, [Next]_vars
    PROVE  AllTried'
<1>0. cli \in CliState
  BY TypedDef DEF Types
<1>1. ASSUME NEW t \in Texts, orch_run(t) PROVE AllTried'
  <2>1. ~running' /\ cli'.at = "up"
    BY <1>1 DEF orch_run, Prompt
  <2> QED BY <2>1 DEF AllTried
<1>2. ASSUME \A t \in Texts : ~orch_run(t) PROVE AllTried'
  <2>1. conf' = conf
    BY <1>2, ParsedStep
  <2>2. DOMAIN conf \subseteq S
    BY SortedProps
  <2>3. (\A s \in DOMAIN conf : svc[s] # "PENDING") => AllTried'
    BY <1>2, <2>1, <2>2, TriedStep DEF AllTried
  <2>4. CASE running \/ cli.at \in {"join", "down"}
    BY <2>3, <2>4 DEF AllTried
  <2>5. CASE SpecUp
    <3>1. cli.at = "up" /\ cli.todo = <<>>
      BY <2>5 DEF SpecUp
    <3>2. PICK k \in 0 .. Len(sorted) :
              /\ cli.todo = SubSeq(sorted, k + 1, Len(sorted))
              /\ \A i \in 1 .. k : svc[sorted[i]] # "PENDING"
      BY <3>1 DEF UpTodo
    <3>3. sorted \in Seq(S)
      BY TypedDef DEF Types
    <3>4. SubSeq(sorted, k + 1, Len(sorted)) = <<>> => k = Len(sorted)
      BY <3>3, RestOf, Zenon
    <3>5. \A s \in DOMAIN conf : \E i \in 1 .. Len(sorted) : sorted[i] = s
      BY SortedProps
    <3>6. \A s \in DOMAIN conf : svc[s] # "PENDING"
      BY <3>1, <3>2, <3>4, <3>5
    <3> QED BY <2>3, <3>6
  <2>6. CASE ~SpecUp /\ ~running /\ cli.at \notin {"join", "down"}
    <3>1. ~orch_down /\ ~Join /\ ~StopService /\ ~SpecDown
      BY <2>6 DEF orch_down, Join, StopService, SpecDown
    <3>2. ~RestartStop /\ ~RestartDelete /\ ~RestartRun /\ ~RestartSet
      BY <2>6 DEF RestartStop, RestartDelete, RestartRun, RestartSet, CliShape, Restarting
    <3>3. \A s \in DOMAIN conf : ~orch_restart_service(s)
      BY <2>6 DEF orch_restart_service
    <3>4. StartService => running' = running /\ cli'.at = cli.at
      BY <1>0 DEF StartService, CliState
    <3>5. ~running' /\ cli'.at \notin {"join", "down"}
      BY <1>2, <2>6, <3>1, <3>2, <3>3, <3>4, CliStill
    <3> QED BY <3>5 DEF AllTried
  <2> QED BY <2>4, <2>5, <2>6
<1> QED BY <1>1, <1>2

(* A service gets a container only if it is one of the spec. *)
LEMMA OnlySpecStep ==
    ASSUME Typed2, Planned, MonShape, CliShape, UpTodo, OnlySpec, [Next]_vars
    PROVE  OnlySpec'
<1>0. cid \in [S -> 0 .. MaxStarts]
  BY TypedDef DEF Types
<1>1. ASSUME NEW t \in Texts, orch_run(t) PROVE OnlySpec'
  BY <1>1 DEF orch_run, OnlySpec
<1>2. ASSUME \A t \in Texts : ~orch_run(t) PROVE OnlySpec'
  <2>0. conf' = conf
    BY <1>2, ParsedStep
  <2>1. CASE cid' = cid
    BY <2>0, <2>1 DEF OnlySpec
  <2>2. ASSUME NEW s \in DOMAIN conf, NEW x, cid' = [cid EXCEPT ![s] = x] PROVE OnlySpec'
    BY <1>0, <2>0, <2>2 DEF OnlySpec
  <2>3. CASE StartService
    <3>1. Head(cli.todo) \in DOMAIN conf
      BY <2>3, UpHead DEF StartService
    <3>2. cid' = [cid EXCEPT ![Head(cli.todo)] = next] \/ cid' = [cid EXCEPT ![Head(cli.todo)] = 0]
      BY <2>3 DEF StartService
    <3> QED BY <2>2, <3>1, <3>2
  <2>4. CASE StopService
    <3>1. \A s \in S : cid'[s] = cid[s] \/ cid'[s] = 0
      BY <1>0, <2>4 DEF StopService
    <3> QED BY <2>0, <3>1 DEF OnlySpec
  <2>5. CASE RestartSet
    <3>1. cli.idx \in DOMAIN conf
      BY <2>5 DEF RestartSet, CliShape, Restarting
    <3>2. cid' = cid \/ cid' = [cid EXCEPT ![cli.idx] = cli.id]
      BY <2>5 DEF RestartSet
    <3> QED BY <2>1, <2>2, <3>1, <3>2
  <2>6. CASE MonSet
    <3>1. Item.idx \in DOMAIN conf
      BY <2>6, ItemProps DEF MonSet, MonShape, Replacing
    <3>2. cid' = cid \/ cid' = [cid EXCEPT ![Item.idx] = mon.new]
      <4>1. CASE ~running
        BY <2>6, <4>1 DEF MonSet
      <4>2. CASE running /\ mon.new # 0
        BY <2>6, <4>2 DEF MonSet
      <4>3. CASE running /\ mon.new = 0
        BY <2>6, <4>3 DEF MonSet
      <4> QED BY <4>1, <4>2, <4>3
    <3> QED BY <2>1, <2>2, <3>1, <3>2
  <2>7. CASE MonTick \/ MonChecked \/ \E s \in DOMAIN conf : orch_restart_service(s)
    BY <2>1, <2>7 DEF MonTick, MonChecked, orch_restart_service
  <2> QED BY <1>2, <2>1, <2>3, <2>4, <2>5, <2>6, <2>7, SvcStill
<1> QED BY <1>1, <1>2

-----------------------------------------------------------------------------
(* The containers *)

(* A step that starts nothing: what does not stay as it is has been deleted *)
(* or has stopped.                                                          *)
Quiet ==
    \A b \in Ids :
        \/ box'[b] = box[b]
        \/ box'[b] = NoBox
        \/ /\ box[b].st = "RUNNING" /\ box'[b].st \in Stopped
           /\ box'[b].own = box[b].own /\ box'[b].bad = box[b].bad

(* How a service's container ends in orch_down and after it: stopped, then  *)
(* deleted.                                                                 *)
LEMMA StopDelete ==
    ASSUME NEW bx \in [Ids -> Box], NEW b
    PROVE  /\ \A x \in Ids : x # b => DeleteBox(StopBox(bx, b, "BAD"), b)[x] = bx[x]
           /\ b \in Ids => DeleteBox(StopBox(bx, b, "BAD"), b)[b] = NoBox
<1>1. "BAD" \in Stopped
  BY DEF Stopped
<1> DEFINE by == StopBox(bx, b, "BAD")
<1>2. /\ by \in [Ids -> Box] /\ \A x \in Ids : x # b => by[x] = bx[x]
      /\ b \in Ids => by[b].st # "RUNNING"
  BY <1>1, BoxOps
<1> HIDE DEF by
<1>3. /\ \A x \in Ids : x # b => DeleteBox(by, b)[x] = by[x]
      /\ b \in Ids => DeleteBox(by, b)[b] = NoBox
  BY <1>1, <1>2, BoxOps
<1> QED BY <1>2, <1>3 DEF by

(* The steps that start nothing. *)
LEMMA QuietStep ==
    ASSUME Typed2, Numbered, [Next]_vars
    PROVE  \/ Quiet
           \/ UserRun \/ StartService \/ RestartRun \/ MonRun
           \/ \E b \in Ids : UserStart(b)
           \/ \E ok \in BOOLEAN : MonExec(ok)
<1>0. box \in [Ids -> Box]
  BY TypedDef DEF Types
<1>1. ASSUME box' = box PROVE Quiet
  BY <1>1 DEF Quiet
<1>2. ASSUME NEW b, NEW how \in Stopped, box' = StopBox(box, b, how) PROVE Quiet
  <2>1. /\ \A x \in Ids : x # b => box'[x] = box[x]
        /\ b \in Ids => /\ box'[b].own = box[b].own /\ box'[b].bad = box[b].bad
                        /\ box[b].st # "RUNNING" => box'[b] = box[b]
                        /\ box[b].st = "RUNNING" => box'[b].st = how
    BY <1>0, <1>2, BoxOps
  <2> QED BY <2>1 DEF Quiet
<1>3. ASSUME NEW b, box' = DeleteBox(box, b) PROVE Quiet
  <2>1. /\ \A x \in Ids : x # b => box'[x] = box[x]
        /\ b \in Ids => /\ box[b].st # "RUNNING" => box'[b] = NoBox
                        /\ box[b].st = "RUNNING" => box'[b] = box[b]
    BY <1>0, <1>3 DEF DeleteBox
  <2> QED BY <2>1 DEF Quiet
<1>4. ASSUME NEW b, box' = DeleteBox(StopBox(box, b, "BAD"), b) PROVE Quiet
  <2>1. /\ \A x \in Ids : x # b => box'[x] = box[x]
        /\ b \in Ids => box'[b] = NoBox
    BY <1>0, <1>4, StopDelete
  <2> QED BY <2>1 DEF Quiet
<1>5. CASE User
  <2>1. CASE container_prune_all
    BY <2>1 DEF container_prune_all, Quiet
  <2>2. CASE \E s \in DOMAIN conf : orch_restart_service(s)
    BY <1>1, <2>2 DEF orch_restart_service, manager
  <2>3. CASE Inspect \/ orch_down \/ \E t \in Texts : orch_run(t)
    BY <1>1, <2>3 DEF Inspect, orch_down, orch_run, manager
  <2> QED BY <1>5, <2>1, <2>2, <2>3 DEF User
<1>6. CASE CliStep
  <2>1. CASE StopService
    BY <1>4, <2>1 DEF StopService
  <2>2. CASE RestartStop
    BY <1>2, <2>2 DEF RestartStop
  <2>3. CASE RestartDelete
    BY <1>3, <2>3 DEF RestartDelete
  <2>4. CASE SpecUp \/ Join \/ SpecDown \/ RestartSet
    BY <1>1, <2>4 DEF SpecUp, Join, SpecDown, RestartSet, manager
  <2> QED BY <1>6, <2>1, <2>2, <2>3, <2>4 DEF CliStep
<1>7. CASE Monitor
  <2>1. CASE MonDelete
    BY <1>3, <2>1 DEF MonDelete
  <2>2. CASE MonSet
    <3>1. CASE ~running
      <4>1. box' = DeleteBox(StopBox(box, mon.new, "BAD"), mon.new)
        BY <2>2, <3>1 DEF MonSet
      <4> QED BY <1>4, <4>1
    <3>2. CASE running
      BY <1>1, <2>2, <3>2 DEF MonSet
    <3> QED BY <3>1, <3>2
  <2>3. CASE MonTick \/ MonExit \/ MonItem \/ MonChecked \/ MonWake
    BY <1>1, <2>3 DEF MonTick, MonExit, MonItem, MonChecked, MonWake, manager
  <2> QED BY <1>7, <2>1, <2>2, <2>3 DEF Monitor
<1>8. CASE \E b \in Ids : BoxExits(b)
  BY <1>2, <1>8 DEF BoxExits
<1>9. CASE UNCHANGED vars
  BY <1>1, <1>9 DEF vars, manager
<1> QED BY <1>5, <1>6, <1>7, <1>8, <1>9 DEF Next
(* The user starts a container again: a service's one becomes the user's.   *)
LEMMA UserStartProps ==
    ASSUME Typed2, NEW b \in Ids, UserStart(b)
    PROVE  /\ \A x \in Ids : x # b => box'[x] = box[x]
           /\ box[b] # NoBox
           /\ box'[b].st = "RUNNING" /\ box'[b].bad = box[b].bad
           /\ box'[b].own = IF box[b].own = 0 THEN 0 ELSE Hand
<1>0. box \in [Ids -> Box]
  BY TypedDef DEF Types
<1>1. box[b] \in Box
  BY <1>0
<1>2. box' = [box EXCEPT ![b].st = "RUNNING", ![b].own = IF @ = 0 THEN 0 ELSE Hand] /\ box[b] # NoBox
  BY DEF UserStart
<1> QED BY <1>0, <1>1, <1>2 DEF Box

(* A health check leaves a mark on the container it was for. *)
LEMMA ExecProps ==
    ASSUME Typed2, MonShape, NEW ok \in BOOLEAN, MonExec(ok)
    PROVE  /\ Item.cid \in Ids
           /\ \A x \in Ids : x # Item.cid => box'[x] = box[x]
           /\ \A x \in Ids : /\ box'[x].st = box[x].st /\ box'[x].own = box[x].own
                             /\ box[x] = NoBox => box'[x] = NoBox
           /\ box[Item.cid] # NoBox =>
                  box'[Item.cid].bad = IF ok THEN 0 ELSE box[Item.cid].bad + 1
<1>0. box \in [Ids -> Box]
  BY TypedDef DEF Types
<1>1. Item.cid \in Ids
  BY ItemProps DEF MonExec, MonShape
<1>2. box[Item.cid] \in Box
  BY <1>0, <1>1
<1> DEFINE c == Item.cid
<1>3. box' = IF box[c] = NoBox THEN box ELSE [box EXCEPT ![c].bad = IF ok THEN 0 ELSE @ + 1]
  BY DEF MonExec
<1> HIDE DEF c
<1>4. c \in Ids /\ box[c] \in Box
  BY <1>1, <1>2 DEF c
<1>5. CASE box[c] = NoBox
  BY <1>3, <1>4, <1>5 DEF c
<1>6. CASE box[c] # NoBox
  <2>1. /\ \A x \in Ids : x # c => box'[x] = box[x]
        /\ box'[c] = [box[c] EXCEPT !.bad = IF ok THEN 0 ELSE @ + 1]
    BY <1>0, <1>3, <1>4, <1>6
  <2>2. /\ box'[c].st = box[c].st /\ box'[c].own = box[c].own
        /\ box'[c].bad = IF ok THEN 0 ELSE box[c].bad + 1
    BY <1>4, <2>1 DEF Box
  <2> QED BY <1>4, <1>6, <2>1, <2>2 DEF c
<1> QED BY <1>5, <1>6

(* A container is started for the user, or for a service by orch_run, by    *)
(* the user's restart or by the monitor.                                    *)
LEMMA Starters ==
    ASSUME Typed2, Planned, MonShape, UpTodo
    PROVE  /\ UserRun => container_run_background(0, TRUE)
           /\ StartService => /\ Head(cli.todo) \in S
                              /\ \E ok \in BOOLEAN :
                                    /\ container_run_background(Head(cli.todo), ok)
                                    /\ cid' = [cid EXCEPT ![Head(cli.todo)] = IF ok THEN next ELSE 0]
           /\ RestartRun => /\ cli.idx \in S
                            /\ \E ok \in BOOLEAN :
                                  /\ container_run_background(cli.idx, ok)
                                  /\ cli' = [cli EXCEPT !.at = "rset", !.id = IF ok THEN next ELSE 0]
           /\ MonRun => /\ Item.idx \in S
                        /\ \E ok \in BOOLEAN :
                              /\ container_run_background(Item.idx, ok)
                              /\ mon' = [mon EXCEPT !.at = "set", !.new = IF ok THEN next ELSE 0]
<1>0. cli \in CliState
  BY TypedDef DEF Types
<1>1. StartService => Head(cli.todo) \in S
  BY UpHead DEF StartService
<1>2. RestartRun => cli.idx \in S
  BY <1>0 DEF CliState
<1>3. MonRun => Item.idx \in S
  BY ItemProps DEF MonRun, MonShape, Replacing
<1> QED BY <1>1, <1>2, <1>3 DEF UserRun, StartService, RestartRun, MonRun

(* The numbers stay in step with the list. *)
LEMMA NumberedStep ==
    ASSUME Typed2, Planned, MonShape, UpTodo, Numbered, [Next]_vars
    PROVE  Numbered'
<1>0. Types
  BY TypedDef
<1>1. next \in Nat /\ starts \in Nat /\ Ids \subseteq Nat
  BY <1>0, BoundsAssumption DEF Types, Ids
<1>2. NoBox.st = "NONE" /\ "NONE" \notin Stopped
  BY DEF NoBox, Stopped
<1>3. ASSUME NEW s \in S \cup {0}, NEW ok \in BOOLEAN, container_run_background(s, ok)
      PROVE  Numbered'
  <2>1. /\ box'[next] = IF ok THEN [st |-> "RUNNING", own |-> s, bad |-> 0] ELSE NoBox
        /\ \A b \in Ids : b # next => box'[b] = box[b]
    BY <1>3, RunTyped
  <2>2. next' = next + 1 /\ starts' = starts + 1
    BY <1>3 DEF container_run_background
  <2>3. box'[next].st = "NONE" => box'[next] = NoBox
    BY <2>1
  <2>4. next' <= starts' + 1
    BY <1>1, <2>2 DEF Numbered
  <2>5. ASSUME NEW b \in Ids, box'[b].st = "NONE" \/ b >= next' PROVE box'[b] = NoBox
    <3>1. CASE b = next
      BY <1>1, <2>2, <2>3, <2>5, <3>1
    <3>2. CASE b # next
      <4>1. box'[b] = box[b] /\ (b >= next' => b >= next)
        BY <1>1, <2>1, <2>2, <3>2
      <4> QED BY <2>5, <4>1 DEF Numbered
    <3> QED BY <3>1, <3>2
  <2> QED BY <2>4, <2>5 DEF Numbered
<1>4. CASE UserRun \/ StartService \/ RestartRun \/ MonRun
  BY <1>3, <1>4, Starters
<1>5. CASE container_prune_all
  <2>1. /\ next' \in 1 .. (MaxStarts + 1)
        /\ \A b \in Ids : Runs(b) => b < next'
        /\ next' = 1 \/ (next' - 1 \in Ids /\ Runs(next' - 1))
    BY <1>0, <1>5, PruneNext DEF Types
  <2>2. starts' = starts /\ box' = [b \in Ids |-> IF Runs(b) THEN box[b] ELSE NoBox]
    BY <1>5 DEF container_prune_all
  <2>3. next' <= next
    <3>0. next >= 1 /\ next' \in Nat
      BY <1>0, <2>1, BoundsAssumption DEF Types
    <3>1. CASE next' = 1
      BY <1>1, <3>0, <3>1
    <3>2. CASE next' - 1 \in Ids /\ Runs(next' - 1)
      <4>1. ~(next' - 1 >= next)
        BY <1>2, <3>2 DEF Numbered, Runs
      <4>2. \A m, k \in Nat : ~(m - 1 >= k) => m <= k
        OBVIOUS
      <4>3. next' \in Nat /\ next \in Nat
        BY <1>1, <3>0
      <4> QED BY <4>1, <4>2, <4>3
    <3> QED BY <2>1, <3>1, <3>2
  <2>4. next' <= starts' + 1
    <3>1. next' \in Nat
      BY <2>1, BoundsAssumption
    <3> QED BY <1>1, <2>2, <2>3, <3>1 DEF Numbered
  <2>5. ASSUME NEW b \in Ids, box'[b].st = "NONE" \/ b >= next' PROVE box'[b] = NoBox
    <3>1. Runs(b) => b < next' /\ box'[b].st = "RUNNING"
      BY <2>1, <2>2 DEF Runs
    <3>2. next' \in Nat /\ b \in Nat
      BY <1>1, <2>1, BoundsAssumption
    <3>3. ~Runs(b)
      BY <2>5, <3>1, <3>2
    <3> QED BY <2>2, <3>3
  <2> QED BY <2>4, <2>5 DEF Numbered
<1>6. ASSUME next' = next, starts' = starts,
             \A b \in Ids : box[b] = NoBox => box'[b] = NoBox,
             \A b \in Ids : box'[b].st = "NONE" => box[b].st = "NONE" \/ box'[b] = NoBox
      PROVE  Numbered'
  BY <1>6 DEF Numbered
<1>7. (next' = next /\ starts' = starts) \/ UserRun \/ StartService \/ RestartRun \/ MonRun
      \/ container_prune_all
  <2> USE DEF manager
  <2>1. CASE User
    BY <2>1 DEF User, Inspect, orch_down, orch_run, orch_restart_service, UserStart
  <2>2. CASE CliStep
    BY <2>2 DEF CliStep, SpecUp, Join, StopService, SpecDown, RestartStop, RestartDelete, RestartSet
  <2>3. CASE Monitor
    BY <2>3 DEF Monitor, MonTick, MonExit, MonItem, MonChecked, MonWake, MonDelete, MonSet
  <2>4. CASE \E ok \in BOOLEAN : MonExec(ok)
    BY <2>4 DEF MonExec
  <2>5. CASE \E b \in Ids : BoxExits(b)
    BY <2>5 DEF BoxExits
  <2>6. CASE UNCHANGED vars
    BY <2>6 DEF vars
  <2> QED BY <2>1, <2>2, <2>3, <2>4, <2>5, <2>6 DEF Next
<1>8. CASE ~UserRun /\ ~StartService /\ ~RestartRun /\ ~MonRun /\ ~container_prune_all
  <2>0. next' = next /\ starts' = starts
    BY <1>7, <1>8
  <2>1. CASE Quiet
    <3>1. \A b \in Ids : box[b] = NoBox => box'[b] = NoBox
      BY <1>2, <2>1 DEF Quiet
    <3>2. \A b \in Ids : box'[b].st = "NONE" => box[b].st = "NONE" \/ box'[b] = NoBox
      BY <1>2, <2>1 DEF Quiet
    <3> QED BY <1>6, <2>0, <3>1, <3>2
  <2>2. ASSUME NEW b \in Ids, UserStart(b) PROVE Numbered'
    <3>1. /\ \A x \in Ids : x # b => box'[x] = box[x]
          /\ box[b] # NoBox /\ box'[b].st = "RUNNING"
      BY <2>2, UserStartProps
    <3> QED BY <1>6, <2>0, <3>1
  <2>3. ASSUME NEW ok \in BOOLEAN, MonExec(ok) PROVE Numbered'
    <3>1. \A x \in Ids : box'[x].st = box[x].st /\ (box[x] = NoBox => box'[x] = NoBox)
      BY <2>3, ExecProps
    <3> QED BY <1>6, <2>0, <3>1
  <2> QED BY <1>8, <2>1, <2>2, <2>3, QuietStep
<1> QED BY <1>4, <1>5, <1>8

(* A container of a service comes from orch_run or from the monitor. *)
LEMMA OursStep ==
    ASSUME Typed2, Planned, MonShape, CliShape, UpTodo, Numbered, [Next]_vars,
           NEW b \in Ids, NEW s \in S, Ours(b, s)'
    PROVE  \/ Ours(b, s)
           \/ StartService /\ b = next /\ s = Head(cli.todo) /\ cid'[s] = b
           \/ MonRun /\ b = next /\ s = Item.idx /\ mon'.new = b
<1>0. box'[b].st = "RUNNING" /\ box'[b].own = s /\ s \notin restarted'
  BY DEF Ours, Runs
<1>1. s \notin restarted
  BY <1>0, RestartedStep
<1>2. NoBox.st = "NONE" /\ "RUNNING" \notin Stopped /\ 0 \notin S /\ Hand \notin S
  BY NAssumption DEF NoBox, Stopped, S, Hand
<1>3. ASSUME box'[b] = box[b] PROVE Ours(b, s)
  BY <1>0, <1>1, <1>3 DEF Ours, Runs
<1>4. ASSUME NEW t \in S \cup {0}, NEW ok \in BOOLEAN, container_run_background(t, ok)
      PROVE  Ours(b, s) \/ (b = next /\ s = t /\ ok)
  <2>1. /\ box'[next] = IF ok THEN [st |-> "RUNNING", own |-> t, bad |-> 0] ELSE NoBox
        /\ \A x \in Ids : x # next => box'[x] = box[x]
    BY <1>4, RunTyped
  <2>2. CASE b = next
    BY <1>0, <1>2, <2>1, <2>2
  <2>3. CASE b # next
    BY <1>3, <2>1, <2>3
  <2> QED BY <2>2, <2>3
<1>5. CASE UserRun
  BY <1>2, <1>4, <1>5, Starters
<1>6. CASE StartService
  <2>1. Head(cli.todo) \in S
    BY <1>6, Starters
  <2>2. PICK ok \in BOOLEAN :
            /\ container_run_background(Head(cli.todo), ok)
            /\ cid' = [cid EXCEPT ![Head(cli.todo)] = IF ok THEN next ELSE 0]
    BY <1>6, Starters
  <2>3. Ours(b, s) \/ (b = next /\ s = Head(cli.todo) /\ ok)
    BY <1>4, <2>1, <2>2
  <2>4. cid \in [S -> 0 .. MaxStarts]
    BY TypedDef DEF Types
  <2>5. s = Head(cli.todo) /\ ok => cid'[s] = next
    BY <2>1, <2>2, <2>4
  <2> QED BY <1>6, <2>3, <2>5
<1>7. CASE RestartRun
  <2>1. cli.idx \in restarted
    BY <1>7 DEF RestartRun, CliShape, Restarting
  <2> QED BY <1>1, <1>4, <1>7, <2>1, Starters
<1>8. CASE MonRun
  <2>1. Item.idx \in S
    BY <1>8, Starters
  <2>2. PICK ok \in BOOLEAN :
            /\ container_run_background(Item.idx, ok)
            /\ mon' = [mon EXCEPT !.at = "set", !.new = IF ok THEN next ELSE 0]
    BY <1>8, Starters
  <2>3. Ours(b, s) \/ (b = next /\ s = Item.idx /\ ok)
    BY <1>4, <2>1, <2>2
  <2>4. mon \in MonState
    BY TypedDef DEF Types
  <2>5. ok => mon'.new = next
    BY <2>2, <2>4 DEF MonState
  <2> QED BY <1>8, <2>3, <2>5
<1>9. CASE Quiet
  BY <1>0, <1>2, <1>3, <1>9 DEF Quiet
<1>10. ASSUME NEW x \in Ids, UserStart(x) PROVE Ours(b, s)
  <2>1. /\ \A y \in Ids : y # x => box'[y] = box[y]
        /\ box'[x].own = IF box[x].own = 0 THEN 0 ELSE Hand
    BY <1>10, UserStartProps
  <2> QED BY <1>0, <1>2, <1>3, <2>1
<1>11. ASSUME NEW ok \in BOOLEAN, MonExec(ok) PROVE Ours(b, s)
  <2>1. box'[b].st = box[b].st /\ box'[b].own = box[b].own
    BY <1>11, ExecProps
  <2> QED BY <1>0, <1>1, <2>1 DEF Ours, Runs
<1> QED BY <1>5, <1>6, <1>7, <1>8, <1>9, <1>10, <1>11, QuietStep
(* What the monitor's steps do to the work and to the number in its hand. *)
LEMMA MonKinds ==
    ASSUME Typed2, MonShape, CliShape, [Next]_vars
    PROVE  \/ mon' = mon
           \/ MonTick \/ MonRun \/ MonSet
           \/ mon.at # "set" /\ mon'.work \subseteq mon.work /\ mon'.new = 0 /\ mon.new = 0
<1>0. mon \in MonState
  BY TypedDef DEF Types
<1>1. mon.at # "set" => mon.new = 0
  BY DEF MonShape
<1>2. NextItem.work \subseteq mon.work /\ NextItem.new = 0
  BY <1>0 DEF NextItem, MonState
<1>3. NoMonitor.work = {} /\ NoMonitor.new = 0 /\ NoMonitor.at = "none"
  BY DEF NoMonitor
<1>4. CASE SpecUp
  <2>1. mon = NoMonitor
    BY <1>4 DEF SpecUp, CliShape
  <2>2. mon'.work = {} /\ mon'.new = 0
    BY <1>4, <1>3 DEF SpecUp, NoMonitor
  <2> QED BY <1>3, <2>1, <2>2
<1>5. CASE MonExit
  BY <1>1, <1>3, <1>5 DEF MonExit
<1>6. CASE MonItem
  BY <1>0, <1>1, <1>6 DEF MonItem, MonState
<1>7. CASE MonChecked
  BY <1>1, <1>2, <1>7 DEF MonChecked
<1>8. CASE MonWake
  BY <1>0, <1>1, <1>2, <1>8 DEF MonWake, MonState
<1>9. CASE MonDelete
  BY <1>0, <1>1, <1>9 DEF MonDelete, MonState
<1>10. ASSUME NEW ok \in BOOLEAN, MonExec(ok)
       PROVE  mon.at # "set" /\ mon'.work \subseteq mon.work /\ mon'.new = 0 /\ mon.new = 0
  BY <1>0, <1>1, <1>10 DEF MonExec, MonState
<1> QED BY <1>4, <1>5, <1>6, <1>7, <1>8, <1>9, <1>10, MonStill

(* Beside a monitor nothing is started by orch_run. *)
LEMMA StartAlone ==
    ASSUME CliShape, StartService
    PROVE  /\ mon = NoMonitor /\ mon' = mon
           /\ mon.at = "none" /\ mon.new = 0 /\ mon.work = {}
<1>1. mon = NoMonitor /\ mon' = mon
  BY DEF CliShape, StartService
<1> QED BY <1>1 DEF NoMonitor

(* The three outcomes of a restart. *)
LEMMA SetCases ==
    ASSUME Typed2, MonShape, MonSet
    PROVE  /\ mon.at = "set" /\ Item \in mon.work /\ Item.idx \in S /\ Item.restart
           /\ mon' = NextItem /\ mon'.new = 0 /\ mon'.work = mon.work \ {Item} /\ mon'.at = "work"
           /\ cli' = cli /\ running' = running /\ conf' = conf /\ sorted' = sorted
           /\ restarted' = restarted /\ reused' = reused /\ next' = next
           /\ \/ /\ ~running /\ cid' = cid /\ svc' = svc /\ fails' = fails
                 /\ box' = DeleteBox(StopBox(box, mon.new, "BAD"), mon.new)
              \/ /\ running /\ mon.new # 0 /\ box' = box
                 /\ cid' = [cid EXCEPT ![Item.idx] = mon.new]
                 /\ svc' = [svc EXCEPT ![Item.idx] = "RUNNING"]
                 /\ fails' = [fails EXCEPT ![Item.idx] = 0]
              \/ /\ running /\ mon.new = 0 /\ cid' = cid /\ box' = box /\ fails' = fails
                 /\ svc' = [svc EXCEPT ![Item.idx] = "FAILED"]
<1>0. mon \in MonState
  BY TypedDef DEF Types
<1>1. mon.at = "set" /\ mon' = NextItem /\ cli' = cli /\ running' = running /\ conf' = conf
      /\ sorted' = sorted /\ restarted' = restarted /\ reused' = reused /\ next' = next
  BY DEF MonSet, parsed, history
<1>2. Item \in mon.work /\ Item.idx \in S /\ Item.restart
  BY <1>1, ItemProps DEF MonShape, Replacing
<1>3. mon'.new = 0 /\ mon'.work = mon.work \ {Item} /\ mon'.at = "work"
  BY <1>0, <1>1 DEF NextItem, MonState
<1>4. CASE ~running
  BY <1>1, <1>2, <1>3, <1>4 DEF MonSet
<1>5. CASE running /\ mon.new # 0
  <2>1. /\ box' = box /\ cid' = [cid EXCEPT ![Item.idx] = mon.new]
        /\ svc' = [svc EXCEPT ![Item.idx] = "RUNNING"]
        /\ fails' = [fails EXCEPT ![Item.idx] = 0]
    BY <1>5 DEF MonSet
  <2> QED BY <1>1, <1>2, <1>3, <1>5, <2>1
<1>6. CASE running /\ mon.new = 0
  <2>1. cid' = cid /\ box' = box /\ fails' = fails /\ svc' = [svc EXCEPT ![Item.idx] = "FAILED"]
    BY <1>6 DEF MonSet
  <2> QED BY <1>1, <1>2, <1>3, <1>6, <2>1
<1> QED BY <1>4, <1>5, <1>6

(* Who changes the numbers that the services have. *)
LEMMA CidStill ==
    ASSUME [Next]_vars
    PROVE  \/ cid' = cid
           \/ StartService \/ StopService \/ RestartSet \/ MonSet
           \/ \E t \in Texts : orch_run(t)
BY SvcStill DEF MonTick, MonChecked, orch_restart_service

(* Every container of a service is named by it or in the monitor's hand. *)
LEMMA FoundStep ==
    ASSUME Typed2, Planned, MonShape, CliShape, UpTodo, BoxInv, [Next]_vars
    PROVE  Found'
<1> USE DEF BoxInv
<1>0. cid \in [S -> 0 .. MaxStarts] /\ box \in [Ids -> Box] /\ cli \in CliState
  BY TypedDef DEF Types
<1> SUFFICES ASSUME NEW b \in Ids, NEW s \in S, Ours(b, s)'
             PROVE  cid'[s] = b \/ mon'.new = b
  BY DEF Found
<1>1. box'[b].st = "RUNNING" /\ b # 0
  BY BoundsAssumption DEF Ours, Runs, Ids
<1> SUFFICES ASSUME Ours(b, s) PROVE cid'[s] = b \/ mon'.new = b
  BY OursStep
<1>2. cid[s] = b \/ mon.new = b
  BY DEF Found
<1>3. ASSUME NEW t \in Texts, orch_run(t) PROVE FALSE
  BY <1>3 DEF orch_run, Typed, DownIsEmpty
<1>4. CASE StartService
  <2>1. cid[s] = b
    BY <1>1, <1>2, <1>4, StartAlone
  <2>2. Head(cli.todo) \in S /\ cid[Head(cli.todo)] = 0
    BY <1>4, UpHead DEF StartService
  <2>3. s # Head(cli.todo)
    BY <1>1, <2>1, <2>2
  <2>4. cid'[s] = cid[s]
    BY <1>0, <1>4, <2>2, <2>3 DEF StartService
  <2> QED BY <2>1, <2>4
<1>5. CASE StopService
  <2>1. mon = NoMonitor
    BY <1>5 DEF StopService, CliShape
  <2>2. cid[s] = b
    BY <1>1, <1>2, <2>1 DEF NoMonitor
  <2> DEFINE s0 == Head(cli.todo)
  <2>3. /\ box' = DeleteBox(StopBox(box, cid[s0], "BAD"), cid[s0])
        /\ cid' = [cid EXCEPT ![s0] = 0]
    BY <1>5 DEF StopService
  <2> HIDE DEF s0
  <2>4. CASE s = s0
    <3>1. box'[b] = NoBox
      BY <1>0, <2>2, <2>3, <2>4, StopDelete
    <3> QED BY <1>1, <3>1 DEF NoBox
  <2>5. CASE s # s0
    BY <1>0, <2>2, <2>3, <2>5
  <2> QED BY <2>4, <2>5
<1>6. CASE RestartSet
  <2>1. s # cli.idx
    BY <1>6 DEF RestartSet, CliShape, Restarting, Ours
  <2>2. cid' = cid \/ cid' = [cid EXCEPT ![cli.idx] = cli.id]
    BY <1>6 DEF RestartSet
  <2>3. cid'[s] = cid[s] /\ mon' = mon
    BY <1>0, <1>6, <2>1, <2>2 DEF RestartSet
  <2> QED BY <1>2, <2>3
<1>7. CASE MonSet
  <2>0. /\ mon.at = "set" /\ Item \in mon.work /\ Item.idx \in S /\ Item.restart
        /\ \/ /\ ~running /\ cid' = cid
              /\ box' = DeleteBox(StopBox(box, mon.new, "BAD"), mon.new)
           \/ /\ running /\ mon.new # 0
              /\ cid' = [cid EXCEPT ![Item.idx] = mon.new]
           \/ /\ running /\ mon.new = 0 /\ cid' = cid
    BY <1>7, SetCases
  <2>1. CASE ~running
    <3>1. mon.new # b
      <4> SUFFICES ASSUME mon.new = b PROVE FALSE
        OBVIOUS
      <4>1. box'[b] = NoBox
        BY <1>0, <2>0, <2>1, StopDelete
      <4> QED BY <1>1, <4>1 DEF NoBox
    <3> QED BY <1>2, <2>0, <2>1, <3>1
  <2>2. CASE running /\ mon.new # 0
    <3>1. cid' = [cid EXCEPT ![Item.idx] = mon.new]
      BY <2>0, <2>2
    <3>2. CASE s = Item.idx
      <4>1. mon.new = b
        BY <2>0, <3>2 DEF RestartsIdle
      <4> QED BY <1>0, <3>1, <3>2, <4>1
    <3>3. CASE s # Item.idx
      <4>1. mon.new # b
        BY <3>3 DEF NewOwned
      <4> QED BY <1>0, <1>2, <3>1, <3>3, <4>1
    <3> QED BY <3>2, <3>3
  <2>3. CASE running /\ mon.new = 0
    BY <1>1, <1>2, <2>0, <2>3
  <2> QED BY <2>1, <2>2, <2>3
<1>8. CASE cid' = cid /\ ~MonSet
  <2>1. mon' = mon \/ mon.new # b
    <3>1. mon.at # "set" => mon.new = 0
      BY DEF MonShape
    <3>2. MonTick \/ MonRun => mon.at # "set"
      BY DEF MonTick, MonRun
    <3> QED BY <1>1, <1>8, <3>1, <3>2, MonKinds
  <2> QED BY <1>2, <1>8, <2>1
<1> QED BY <1>3, <1>4, <1>5, <1>6, <1>7, <1>8, CidStill

(* What the monitor has in hand it started for its item. *)
LEMMA NewOwnedStep ==
    ASSUME Typed2, Planned, MonShape, CliShape, UpTodo, BoxInv, [Next]_vars
    PROVE  NewOwned'
<1> USE DEF BoxInv
<1>0. mon \in MonState /\ next \in Nat
  BY TypedDef DEF Types
<1> SUFFICES ASSUME NEW b \in Ids, NEW s \in S, Ours(b, s)', mon'.new = b
             PROVE  s = Item'.idx
  BY DEF NewOwned
<1>1. b # 0 /\ b \in Nat
  BY BoundsAssumption DEF Ids
<1>2. mon.at # "set" => mon.new = 0
  BY DEF MonShape
<1>3. CASE MonRun
  <2>1. mon'.work = mon.work
    BY <1>0, <1>3 DEF MonRun, MonState
  <2>2. Item' = Item
    BY <2>1, ItemSame
  <2>3. ~StartService /\ mon.at = "run"
    BY <1>3, StartAlone DEF MonRun
  <2>4. \E ok \in BOOLEAN : mon' = [mon EXCEPT !.at = "set", !.new = IF ok THEN next ELSE 0]
    BY <1>3 DEF MonRun
  <2>5. b = next
    BY <1>0, <1>1, <2>4 DEF MonState
  <2>6. ~Ours(b, s)
    <3>1. box[b] = NoBox
      BY <1>0, <1>1, <2>5 DEF Numbered
    <3> QED BY <3>1 DEF Ours, Runs, NoBox
  <2> QED BY <2>2, <2>3, <2>6, OursStep
<1>4. CASE mon' = mon
  <2>1. Item' = Item
    BY <1>4, ItemSame
  <2>2. ~StartService
    BY <1>1, <1>4, StartAlone
  <2> QED BY <1>3, <1>4, <2>1, <2>2, OursStep DEF NewOwned
<1>5. CASE MonTick
  <2>1. mon'.new = mon.new /\ mon.at = "sleep"
    BY <1>5, TickProps DEF MonTick
  <2> QED BY <1>1, <1>2, <2>1
<1>6. CASE MonSet
  BY <1>1, <1>6, SetCases
<1> QED BY <1>1, <1>3, <1>4, <1>5, <1>6, MonKinds
(* A service that is to be restarted has nothing running. *)
LEMMA RestartsIdleStep ==
    ASSUME Typed2, Planned, MonShape, CliShape, UpTodo, BoxInv, [Next]_vars
    PROVE  RestartsIdle'
<1> USE DEF BoxInv
<1>0. mon \in MonState /\ box \in [Ids -> Box] /\ mon.work \subseteq WorkItem
  BY TypedDef DEF Types, MonState
<1> SUFFICES ASSUME NEW w \in mon'.work, w.restart, NEW b \in Ids, Ours(b, w.idx)'
             PROVE  mon'.at = "set" /\ mon'.new = b /\ w = Item'
  BY DEF RestartsIdle
<1>1. ASSUME w \in mon.work PROVE w.idx \in S
  BY <1>0, <1>1 DEF WorkItem
<1>2. CASE MonTick
  <2>1. Collected(mon'.work) /\ mon.at = "sleep"
    BY <1>2, TickProps DEF MonTick
  <2>2. w.idx \in S /\ ExitSeen(w.idx) /\ cid[w.idx] \in Ids
    BY <2>1 DEF Collected
  <2>3. ~StartService /\ ~MonRun
    BY <2>1, StartAlone DEF MonRun
  <2>4. Ours(b, w.idx)
    BY <2>2, <2>3, OursStep
  <2>5. mon.new = 0 /\ b # 0
    BY <2>1, BoundsAssumption DEF MonShape, Ids
  <2>6. cid[w.idx] = b
    BY <2>2, <2>4, <2>5 DEF Found
  <2>7. box[b].st \in Stopped
    BY <2>2, <2>5, <2>6 DEF ExitSeen, BoxOf
  <2> QED BY <2>4, <2>7 DEF Ours, Runs, Stopped
<1>3. CASE MonRun
  <2>1. mon'.work = mon.work /\ mon'.at = "set"
    BY <1>0, <1>3 DEF MonRun, MonState
  <2>2. Item' = Item
    BY <2>1, ItemSame
  <2>3. ~StartService /\ mon.at = "run"
    BY <1>3, StartAlone DEF MonRun
  <2>4. ~Ours(b, w.idx)
    BY <2>1, <2>3 DEF RestartsIdle
  <2>5. w.idx = Item.idx /\ mon'.new = b
    BY <1>1, <2>1, <2>3, <2>4, OursStep
  <2>6. Item \in mon.work
    BY <2>1, ItemProps
  <2>7. w = Item
    BY <2>1, <2>5, <2>6 DEF MonShape
  <2> QED BY <2>1, <2>2, <2>5, <2>7
<1>4. CASE MonSet
  <2>1. mon.at = "set" /\ w \in mon.work /\ w # Item
    BY <1>4, SetCases
  <2>2. ~StartService /\ ~MonRun
    BY <2>1, StartAlone DEF MonRun
  <2> QED BY <1>1, <2>1, <2>2, OursStep DEF RestartsIdle
<1>5. CASE mon' = mon /\ ~MonRun
  <2>1. ~StartService
    BY <1>5, StartAlone
  <2>2. Item' = Item
    BY <1>5, ItemSame
  <2> QED BY <1>1, <1>5, <2>1, <2>2, OursStep DEF RestartsIdle
<1>6. CASE mon.at # "set" /\ mon'.work \subseteq mon.work /\ ~MonRun
  <2>1. ~StartService
    BY <1>6, StartAlone
  <2> QED BY <1>1, <1>6, <2>1, OursStep DEF RestartsIdle
<1> QED BY <1>2, <1>3, <1>4, <1>5, <1>6, MonKinds

(* When orch_down has gone through the spec no service has a container.     *)
LEMMA DownDone ==
    ASSUME Typed2, Planned, OnlySpec, DownTodo, cli.at = "down", cli.todo = <<>>
    PROVE  \A s \in S : cid[s] = 0
<1> DEFINE rev == Reverse(sorted)
           n == Len(sorted)
<1>0. sorted \in Seq(S)
  BY TypedDef DEF Types
<1>1. rev \in Seq(S) /\ Len(rev) = n /\ n \in Nat
      /\ \A i \in 1 .. n : rev[i] = sorted[n - i + 1]
  BY <1>0, ReverseProps
<1>2. PICK k \in 0 .. n : cli.todo = SubSeq(rev, k + 1, n) /\ \A i \in 1 .. k : cid[rev[i]] = 0
  BY DEF DownTodo
<1>3. \A s \in DOMAIN conf : \E i \in 1 .. n : sorted[i] = s
  BY SortedProps
<1> HIDE DEF rev, n
<1>4. k = n
  <2>1. k \in 0 .. Len(rev)
    BY <1>1
  <2>2. SubSeq(rev, k + 1, Len(rev)) = <<>> => k = Len(rev)
    BY <1>1, <2>1, RestOf, Zenon
  <2> QED BY <1>1, <1>2, <2>2
<1>5. ASSUME NEW s \in DOMAIN conf PROVE cid[s] = 0
  <2>1. PICK i \in 1 .. n : sorted[i] = s
    BY <1>3
  <2>2. n - i + 1 \in 1 .. n /\ n - (n - i + 1) + 1 = i
    BY <1>1
  <2>3. rev[n - i + 1] = s
    BY <1>1, <2>1, <2>2
  <2> QED BY <1>2, <1>4, <2>2, <2>3
<1> QED BY <1>5 DEF OnlySpec

(* After orch_down no service has anything running. *)
LEMMA DownIsEmptyStep ==
    ASSUME Typed2, Planned, MonShape, CliShape, UpTodo, DownTodo, OnlySpec, BoxInv, [Next]_vars
    PROVE  DownIsEmpty'
<1> USE DEF BoxInv
<1>0. cli \in CliState
  BY TypedDef DEF Types
<1> SUFFICES ASSUME cli'.at = "prompt", ~running', NEW b \in Ids, NEW s \in S, Ours(b, s)'
             PROVE  FALSE
  BY DEF DownIsEmpty
<1>1. CASE cli' = cli /\ running' = running
  <2>1. mon = NoMonitor /\ ~Ours(b, s)
    BY <1>1 DEF CliShape, DownIsEmpty
  <2>2. ~MonRun /\ ~StartService
    BY <1>1, <2>1 DEF MonRun, StartService, NoMonitor
  <2> QED BY <2>1, <2>2, OursStep
<1>2. CASE SpecDown
  <2>1. mon = NoMonitor /\ cli.at = "down" /\ cli.todo = <<>>
    BY <1>2 DEF SpecDown, CliShape
  <2>2. ~MonRun /\ ~StartService /\ mon.new = 0
    BY <2>1 DEF MonRun, StartService, NoMonitor
  <2>3. Ours(b, s)
    BY <2>2, OursStep
  <2>4. cid[s] = 0 /\ b # 0
    BY <2>1, DownDone, BoundsAssumption DEF Ids
  <2> QED BY <2>2, <2>3, <2>4 DEF Found
<1>3. ~orch_down /\ ~SpecUp
  BY DEF orch_down, SpecUp, Prompt
<1>4. ~Join /\ ~RestartStop /\ ~RestartDelete /\ ~RestartRun
  BY <1>0 DEF Join, RestartStop, RestartDelete, RestartRun, CliState
<1>5. ~StopService /\ ~StartService
  BY <1>0 DEF StartService, StopService, CliState
<1>6. ~RestartSet
  BY DEF RestartSet, CliShape, Restarting
<1>7. ASSUME NEW t \in DOMAIN conf, orch_restart_service(t) PROVE FALSE
  BY <1>7 DEF orch_restart_service, Prompt
<1>8. ASSUME NEW t \in Texts, orch_run(t) PROVE FALSE
  BY <1>8 DEF orch_run, Prompt
<1> QED BY <1>1, <1>2, <1>3, <1>4, <1>5, <1>6, <1>7, <1>8, CliStill
-----------------------------------------------------------------------------
(* The numbers that are held *)

(* A number that is held is given again only on record. *)
LEMMA ReusedStep ==
    ASSUME [Next]_vars, ~reused'
    PROVE  ~reused /\ (UserRun \/ StartService \/ RestartRun \/ MonRun => next \notin Held)
<1> USE DEF history
<1>0. ASSUME NEW s, NEW ok, container_run_background(s, ok) PROVE ~reused /\ next \notin Held
  BY <1>0 DEF container_run_background
<1>1. CASE UserRun \/ StartService \/ RestartRun \/ MonRun
  BY <1>0, <1>1 DEF UserRun, StartService, RestartRun, MonRun
<1>2. CASE ~(UserRun \/ StartService \/ RestartRun \/ MonRun)
  <2>1. reused' = reused
    <3>1. CASE User
      BY <1>2, <3>1 DEF User, Inspect, orch_down, container_prune_all, orch_run,
                        orch_restart_service, UserStart
    <3>2. CASE CliStep
      BY <1>2, <3>2 DEF CliStep, SpecUp, Join, StopService, SpecDown, RestartStop,
                        RestartDelete, RestartSet
    <3>3. CASE Monitor
      BY <1>2, <3>3 DEF Monitor, MonTick, MonExit, MonItem, MonChecked, MonWake, MonDelete, MonSet
    <3>4. CASE \E ok \in BOOLEAN : MonExec(ok)
      BY <3>4 DEF MonExec
    <3>5. CASE \E b \in Ids : BoxExits(b)
      BY <3>5 DEF BoxExits
    <3>6. CASE UNCHANGED vars
      BY <3>6 DEF vars
    <3> QED BY <3>1, <3>2, <3>3, <3>4, <3>5, <3>6 DEF Next
  <2> QED BY <1>2, <2>1
<1> QED BY <1>1, <1>2

(* The number in the command line's hand. *)
LEMMA CliKinds ==
    ASSUME Typed2, [Next]_vars
    PROVE  \/ cli'.id = 0
           \/ cli'.id = cli.id /\ cli'.idx = cli.idx /\ (cli'.at = "rset" => cli.at = "rset")
           \/ RestartRun
           \/ \E s \in DOMAIN conf : orch_restart_service(s)
<1>0. cli \in CliState
  BY TypedDef DEF Types
<1>1. orch_down \/ SpecUp \/ SpecDown \/ RestartSet => cli'.id = 0
  BY DEF orch_down, SpecUp, SpecDown, RestartSet, Prompt
<1>2. ASSUME NEW t \in Texts, orch_run(t) PROVE cli'.id = 0
  BY <1>2 DEF orch_run, Prompt
<1>3. StartService \/ StopService =>
        cli'.id = cli.id /\ cli'.idx = cli.idx /\ (cli'.at = "rset" => cli.at = "rset")
  BY <1>0 DEF StartService, StopService, CliState
<1>4. Join \/ RestartStop \/ RestartDelete =>
        cli'.id = cli.id /\ cli'.idx = cli.idx /\ (cli'.at = "rset" => cli.at = "rset")
  BY <1>0 DEF Join, RestartStop, RestartDelete, CliState
<1> QED BY <1>1, <1>2, <1>3, <1>4, CliStill

(* Nobody gets a number that another one holds. *)
LEMMA HoldersStep ==
    ASSUME Typed2, Planned, MonShape, CliShape, UpTodo, Numbered, HoldersAgree, [Next]_vars
    PROVE  HoldersAgree'
<1>0. /\ cid \in [S -> 0 .. MaxStarts] /\ mon \in MonState /\ cli \in CliState
      /\ mon.work \subseteq WorkItem
  BY TypedDef DEF Types, MonState
<1> SUFFICES ASSUME ~reused' PROVE HoldersAgree'
  BY DEF HoldersAgree
<1>1. ~reused /\ (UserRun \/ StartService \/ RestartRun \/ MonRun => next \notin Held)
  BY ReusedStep
<1>2. \A w \in mon.work : w.cid \in Ids /\ w.cid # 0 /\ w.idx \in S
  BY <1>0, BoundsAssumption DEF WorkItem, Ids
<1>3. /\ \A s, t \in S : cid[s] # 0 /\ cid[s] = cid[t] => s = t
      /\ \A s \in S, w \in mon.work : cid[s] = w.cid => s = w.idx
      /\ \A s \in S : cli.id # 0 /\ cid[s] = cli.id => s = cli.idx /\ cli.at # "rset"
      /\ \A w \in mon.work : w.cid = cli.id => w.idx = cli.idx /\ cli.at # "rset"
      /\ mon.new # 0 => /\ mon.new # cli.id
                        /\ \A s \in S : cid[s] # mon.new
                        /\ \A w \in mon.work : w.cid # mon.new
  BY <1>1 DEF HoldersAgree
<1>4. ASSUME \A s \in S : cid'[s] = cid[s] \/ cid'[s] = 0,
             mon'.work \subseteq mon.work, mon'.new = mon.new \/ mon'.new = 0,
             \/ cli'.id = 0
             \/ cli'.id = cli.id /\ cli'.idx = cli.idx /\ (cli'.at = "rset" => cli.at = "rset")
      PROVE  HoldersAgree'
  <2>1. \A s, t \in S : cid'[s] # 0 /\ cid'[s] = cid'[t] => s = t
    BY <1>3, <1>4
  <2>2. \A s \in S, w \in mon'.work : cid'[s] = w.cid => s = w.idx
    BY <1>2, <1>3, <1>4
  <2>3. \A s \in S : cli'.id # 0 /\ cid'[s] = cli'.id => s = cli'.idx /\ cli'.at # "rset"
    BY <1>3, <1>4
  <2>4. \A w \in mon'.work : w.cid = cli'.id => w.idx = cli'.idx /\ cli'.at # "rset"
    BY <1>2, <1>3, <1>4
  <2>5. mon'.new # 0 => /\ mon'.new # cli'.id
                        /\ \A s \in S : cid'[s] # mon'.new
                        /\ \A w \in mon'.work : w.cid # mon'.new
    BY <1>3, <1>4
  <2> QED BY <2>1, <2>2, <2>3, <2>4, <2>5 DEF HoldersAgree
<1>5. next \in Nat /\ (UserRun \/ StartService \/ RestartRun \/ MonRun => next # 0)
  BY TypedDef, BoundsAssumption DEF Types
<1>6. ASSUME next \notin Held
      PROVE  /\ \A s \in S : cid[s] # next
             /\ \A w \in mon.work : w.cid # next
             /\ cli.id # next /\ mon.new # next
  BY <1>6 DEF Held
<1>7. CASE StartService
  <2>1. mon' = mon /\ mon.work = {} /\ mon.new = 0
    BY <1>7, StartAlone
  <2>2. cli'.id = 0
    BY <1>0, <1>7 DEF StartService, CliState, CliShape, Restarting
  <2>3. Head(cli.todo) \in S /\ (cid' = [cid EXCEPT ![Head(cli.todo)] = next]
                                 \/ cid' = [cid EXCEPT ![Head(cli.todo)] = 0])
    BY <1>7, Starters
  <2>4. \A s, t \in S : cid'[s] # 0 /\ cid'[s] = cid'[t] => s = t
    BY <1>0, <1>1, <1>3, <1>6, <1>7, <2>3
  <2> QED BY <2>1, <2>2, <2>4 DEF HoldersAgree
<1>8. CASE RestartRun
  <2>1. PICK ok \in BOOLEAN : cli' = [cli EXCEPT !.at = "rset", !.id = IF ok THEN next ELSE 0]
    BY <1>8, Starters
  <2>2. cli'.id = next \/ cli'.id = 0
    BY <1>0, <2>1 DEF CliState
  <2>3. cid' = cid /\ mon' = mon
    BY <1>8 DEF RestartRun, spec
  <2>4. CASE cli'.id = 0
    BY <1>4, <2>3, <2>4
  <2>5. CASE cli'.id = next
    <3>1. /\ \A s \in S : cid'[s] # cli'.id
          /\ \A w \in mon'.work : w.cid # cli'.id
          /\ mon'.new # cli'.id
      BY <1>1, <1>6, <1>8, <2>3, <2>5
    <3> QED BY <1>3, <2>3, <3>1 DEF HoldersAgree
  <2> QED BY <2>2, <2>4, <2>5
<1>9. ASSUME NEW t \in DOMAIN conf, orch_restart_service(t) PROVE HoldersAgree'
  <2>1. cid' = cid /\ mon' = mon /\ cli' = [Prompt EXCEPT !.at = "rstop", !.idx = t, !.id = cid[t]]
    BY <1>9 DEF orch_restart_service
  <2>2. cli'.at = "rstop" /\ cli'.idx = t /\ cli'.id = cid[t]
    BY <2>1 DEF Prompt
  <2>3. t \in S
    BY SortedProps
  <2>4. \A s \in S : cli'.id # 0 /\ cid'[s] = cli'.id => s = cli'.idx /\ cli'.at # "rset"
    BY <1>3, <2>1, <2>2, <2>3
  <2>5. \A w \in mon'.work : w.cid = cli'.id => w.idx = cli'.idx /\ cli'.at # "rset"
    BY <1>3, <2>1, <2>2, <2>3
  <2>6. mon'.new # 0 => mon'.new # cli'.id
    BY <1>3, <2>1, <2>2, <2>3
  <2> QED BY <1>3, <2>1, <2>4, <2>5, <2>6 DEF HoldersAgree
<1>10. CASE RestartSet
  <2>1. mon' = mon /\ cli.at = "rset" /\ cli'.id = 0 /\ cli.idx \in S
    BY <1>0, <1>10 DEF RestartSet, Prompt, CliState
  <2>2. CASE cli.id = 0
    <3>1. cid' = cid
      BY <1>10, <2>2 DEF RestartSet
    <3> QED BY <1>4, <2>1, <3>1
  <2>3. CASE cli.id # 0
    <3>1. cid' = [cid EXCEPT ![cli.idx] = cli.id]
      BY <1>10, <2>3 DEF RestartSet
    <3>2. /\ \A s \in S : cid[s] # cli.id
          /\ \A w \in mon.work : w.cid # cli.id
      BY <1>3, <2>1, <2>3
    <3>3. \A s \in S : (s = cli.idx /\ cid'[s] = cli.id) \/ (s # cli.idx /\ cid'[s] = cid[s])
      BY <1>0, <2>1, <3>1
    <3>4. \A s, t \in S : cid'[s] # 0 /\ cid'[s] = cid'[t] => s = t
      BY <1>3, <3>2, <3>3
    <3>5. \A s \in S, w \in mon'.work : cid'[s] = w.cid => s = w.idx
      BY <1>3, <2>1, <3>2, <3>3
    <3>6. mon'.new # 0 => /\ mon'.new # cli'.id
                          /\ \A s \in S : cid'[s] # mon'.new
                          /\ \A w \in mon'.work : w.cid # mon'.new
      BY <1>3, <2>1, <3>3
    <3>7. \A w \in mon'.work : w.cid # cli'.id
      BY <1>2, <2>1
    <3> QED BY <2>1, <3>4, <3>5, <3>6, <3>7 DEF HoldersAgree
  <2> QED BY <2>2, <2>3
<1>11. CASE MonTick
  <2>1. Collected(mon'.work) /\ mon'.new = mon.new /\ mon.at = "sleep"
    BY <1>11, TickProps DEF MonTick
  <2>2. cid' = cid /\ cli' = cli /\ mon'.new = 0
    BY <1>11, <2>1 DEF MonTick, MonShape
  <2>3. \A w \in mon'.work : w.idx \in S /\ w.cid = cid[w.idx] /\ w.cid # 0
    BY <2>1, BoundsAssumption DEF Collected, Ids
  <2>4. \A s \in S, w \in mon'.work : cid'[s] = w.cid => s = w.idx
    BY <1>3, <2>2, <2>3
  <2>5. \A w \in mon'.work : w.cid = cli'.id => w.idx = cli'.idx /\ cli'.at # "rset"
    BY <1>3, <2>2, <2>3
  <2> QED BY <1>3, <2>2, <2>4, <2>5 DEF HoldersAgree
<1>12. CASE MonRun
  <2>1. PICK ok \in BOOLEAN : mon' = [mon EXCEPT !.at = "set", !.new = IF ok THEN next ELSE 0]
    BY <1>12, Starters
  <2>2. (mon'.new = next \/ mon'.new = 0) /\ mon'.work = mon.work
    BY <1>0, <2>1 DEF MonState
  <2>3. cid' = cid /\ cli' = cli
    BY <1>12 DEF MonRun, spec
  <2>4. mon'.new # 0 => /\ mon'.new # cli'.id
                        /\ \A s \in S : cid'[s] # mon'.new
                        /\ \A w \in mon'.work : w.cid # mon'.new
    BY <1>1, <1>6, <1>12, <2>2, <2>3
  <2> QED BY <1>3, <2>2, <2>3, <2>4 DEF HoldersAgree
<1>13. CASE MonSet
  <2>1. /\ mon'.new = 0 /\ mon'.work \subseteq mon.work /\ cli' = cli /\ Item.idx \in S
        /\ cid' = cid \/ (mon.new # 0 /\ cid' = [cid EXCEPT ![Item.idx] = mon.new])
    BY <1>13, SetCases
  <2>2. CASE cid' = cid
    BY <1>4, <2>1, <2>2
  <2>3. CASE mon.new # 0 /\ cid' = [cid EXCEPT ![Item.idx] = mon.new]
    <3>1. \A s \in S : (s = Item.idx /\ cid'[s] = mon.new) \/ (s # Item.idx /\ cid'[s] = cid[s])
      BY <1>0, <2>1, <2>3
    <3>2. \A s, t \in S : cid'[s] # 0 /\ cid'[s] = cid'[t] => s = t
      BY <1>3, <2>3, <3>1
    <3>3. \A s \in S, w \in mon'.work : cid'[s] = w.cid => s = w.idx
      BY <1>3, <2>1, <2>3, <3>1
    <3>4. \A s \in S : cli'.id # 0 /\ cid'[s] = cli'.id => s = cli'.idx /\ cli'.at # "rset"
      BY <1>3, <2>1, <2>3, <3>1
    <3>5. \A w \in mon'.work : w.cid = cli'.id => w.idx = cli'.idx /\ cli'.at # "rset"
      BY <1>3, <2>1
    <3> QED BY <2>1, <3>2, <3>3, <3>4, <3>5 DEF HoldersAgree
  <2> QED BY <2>1, <2>2, <2>3
<1>14. CASE /\ ~StartService /\ ~RestartRun /\ ~RestartSet /\ ~MonTick /\ ~MonRun /\ ~MonSet
            /\ \A t \in DOMAIN conf : ~orch_restart_service(t)
  <2>1. \A s \in S : cid'[s] = cid[s] \/ cid'[s] = 0
    <3>1. StopService => \A s \in S : cid'[s] = cid[s] \/ cid'[s] = 0
      BY <1>0 DEF StopService
    <3>2. (\E t \in Texts : orch_run(t)) => \A s \in S : cid'[s] = 0
      BY DEF orch_run
    <3> QED BY <1>14, <3>1, <3>2, CidStill
  <2>2. mon'.work \subseteq mon.work /\ (mon'.new = mon.new \/ mon'.new = 0)
    BY <1>14, MonKinds
  <2>3. \/ cli'.id = 0
        \/ cli'.id = cli.id /\ cli'.idx = cli.idx /\ (cli'.at = "rset" => cli.at = "rset")
    BY <1>14, CliKinds
  <2> QED BY <1>4, <2>1, <2>2, <2>3
<1> QED BY <1>7, <1>8, <1>9, <1>10, <1>11, <1>12, <1>13, <1>14

(* A number is held on, or is the one that was just given to a service. *)
LEMMA HeldStep ==
    ASSUME Typed2, Planned, MonShape, CliShape, UpTodo, [Next]_vars, NEW b \in Held', b # 0
    PROVE  b \in Held \/ (b = next /\ (StartService \/ RestartRun \/ MonRun))
<1>0. cid \in [S -> 0 .. MaxStarts] /\ mon \in MonState /\ cli \in CliState
  BY TypedDef DEF Types
<1>1. ASSUME NEW s \in S, b = cid'[s]
      PROVE  b \in Held \/ (b = next /\ StartService)
  <2>0. \A t \in S : cid[t] \in Held
    BY DEF Held
  <2>1. CASE StartService
    <3>1. Head(cli.todo) \in S /\ (cid' = [cid EXCEPT ![Head(cli.todo)] = next]
                                   \/ cid' = [cid EXCEPT ![Head(cli.todo)] = 0])
      BY <2>1, Starters
    <3> QED BY <1>0, <1>1, <2>0, <2>1, <3>1
  <2>2. CASE StopService
    <3>1. cid'[s] = cid[s] \/ cid'[s] = 0
      BY <1>0, <2>2 DEF StopService
    <3> QED BY <1>1, <2>0, <3>1
  <2>3. CASE RestartSet
    <3>1. cid' = cid \/ cid' = [cid EXCEPT ![cli.idx] = cli.id]
      BY <2>3 DEF RestartSet
    <3>2. cli.id \in Held
      BY DEF Held
    <3> QED BY <1>0, <1>1, <2>0, <3>1, <3>2
  <2>4. CASE MonSet
    <3>1. cid' = cid \/ cid' = [cid EXCEPT ![Item.idx] = mon.new]
      BY <2>4, SetCases
    <3>2. mon.new \in Held
      BY DEF Held
    <3> QED BY <1>0, <1>1, <2>0, <3>1, <3>2
  <2>5. CASE \E t \in Texts : orch_run(t)
    <3>1. cid'[s] = 0
      BY <2>5 DEF orch_run
    <3> QED BY <1>1, <3>1
  <2> QED BY <1>1, <2>0, <2>1, <2>2, <2>3, <2>4, <2>5, CidStill
<1>2. ASSUME NEW w \in mon'.work, b = w.cid
      PROVE  b \in Held
  <2>1. CASE w \in mon.work
    BY <1>2, <2>1 DEF Held
  <2>2. CASE MonTick
    <3>1. w.idx \in S /\ w.cid = cid[w.idx]
      BY <1>2, <2>2, TickProps DEF Collected
    <3> QED BY <1>2, <3>1 DEF Held
  <2>3. MonRun => mon'.work = mon.work
    BY <1>0 DEF MonRun, MonState
  <2>4. MonSet => mon'.work \subseteq mon.work
    BY SetCases
  <2> QED BY <1>2, <2>1, <2>2, <2>3, <2>4, MonKinds
<1>3. ASSUME b = cli'.id
      PROVE  b \in Held \/ (b = next /\ RestartRun)
  <2>1. cli.id \in Held
    BY DEF Held
  <2>2. CASE RestartRun
    <3>1. PICK ok \in BOOLEAN : cli' = [cli EXCEPT !.at = "rset", !.id = IF ok THEN next ELSE 0]
      BY <2>2, Starters
    <3> QED BY <1>0, <1>3, <2>2, <3>1 DEF CliState
  <2>3. ASSUME NEW t \in DOMAIN conf, orch_restart_service(t) PROVE b \in Held
    <3>1. cli'.id = cid[t] /\ t \in S
      BY <2>3, SortedProps DEF orch_restart_service, Prompt
    <3> QED BY <1>3, <3>1 DEF Held
  <2> QED BY <1>3, <2>1, <2>2, <2>3, CliKinds
<1>4. ASSUME b = mon'.new
      PROVE  b \in Held \/ (b = next /\ MonRun)
  <2>1. mon.new \in Held
    BY DEF Held
  <2>2. CASE MonRun
    <3>1. PICK ok \in BOOLEAN : mon' = [mon EXCEPT !.at = "set", !.new = IF ok THEN next ELSE 0]
      BY <2>2, Starters
    <3> QED BY <1>0, <1>4, <2>2, <3>1 DEF MonState
  <2>3. MonTick => mon'.new = mon.new
    BY TickProps
  <2>4. MonSet => mon'.new = 0
    BY SetCases
  <2> QED BY <1>4, <2>1, <2>2, <2>3, <2>4, MonKinds
<1> QED BY <1>1, <1>2, <1>3, <1>4 DEF Held

(* A container of the user comes from the user. *)
LEMMA OwnStep ==
    ASSUME Typed2, Planned, MonShape, UpTodo, Numbered, [Next]_vars,
           NEW b \in Ids, box'[b] # NoBox, box'[b].own = 0
    PROVE  (box[b] # NoBox /\ box[b].own = 0) \/ (UserRun /\ b = next)
<1>0. 0 \notin S /\ Hand # 0
  BY NAssumption DEF S, Hand
<1>1. ASSUME NEW t \in S \cup {0}, NEW ok \in BOOLEAN, container_run_background(t, ok)
      PROVE  (box[b] # NoBox /\ box[b].own = 0) \/ (t = 0 /\ b = next)
  <2>1. /\ box'[next] = IF ok THEN [st |-> "RUNNING", own |-> t, bad |-> 0] ELSE NoBox
        /\ \A x \in Ids : x # next => box'[x] = box[x]
    BY <1>1, RunTyped
  <2> QED BY <2>1
<1>2. CASE UserRun
  BY <1>1, <1>2, Starters
<1>3. CASE StartService
  BY <1>0, <1>1, <1>3, Starters
<1>4. CASE RestartRun
  BY <1>0, <1>1, <1>4, Starters
<1>5. CASE MonRun
  BY <1>0, <1>1, <1>5, Starters
<1>6. CASE Quiet
  <2>1. box[b].st = "RUNNING" => box[b] # NoBox
    BY DEF NoBox
  <2> QED BY <1>6, <2>1 DEF Quiet
<1>7. ASSUME NEW x \in Ids, UserStart(x) PROVE box[b] # NoBox /\ box[b].own = 0
  <2>1. /\ \A y \in Ids : y # x => box'[y] = box[y]
        /\ box[x] # NoBox
        /\ box'[x].own = IF box[x].own = 0 THEN 0 ELSE Hand
    BY <1>7, UserStartProps
  <2> QED BY <1>0, <2>1
<1>8. ASSUME NEW ok \in BOOLEAN, MonExec(ok) PROVE box[b] # NoBox /\ box[b].own = 0
  BY <1>8, ExecProps
<1> QED BY <1>2, <1>3, <1>4, <1>5, <1>6, <1>7, <1>8, QuietStep

(* No number that is held becomes one of the user's. *)
LEMMA HeldOwnedStep ==
    ASSUME Typed2, Typed2', Planned, MonShape, CliShape, UpTodo, Numbered, HeldOwned, [Next]_vars
    PROVE  HeldOwned'
<1> SUFFICES ASSUME ~reused', NEW b \in Held', b # 0, box'[b] # NoBox, box'[b].own = 0
             PROVE  FALSE
  BY DEF HeldOwned
<1>1. ~reused /\ (UserRun => next \notin Held)
  BY ReusedStep
<1>2. b \in Ids
  <2>1. /\ cid' \in [S -> 0 .. MaxStarts] /\ mon'.work \subseteq WorkItem
        /\ cli'.id \in 0 .. MaxStarts /\ mon'.new \in 0 .. MaxStarts
    BY TypedNext DEF Types, MonState, CliState
  <2>2. \A w \in mon'.work : w.cid \in Ids
    BY <2>1 DEF WorkItem
  <2>3. b \in Ids \/ b \in 0 .. MaxStarts
    BY <2>1, <2>2 DEF Held
  <2> QED BY <2>3, BoundsAssumption DEF Ids
<1>3. CASE b \in Held
  <2>1. box[b] = NoBox \/ box[b].own # 0
    BY <1>1, <1>3 DEF HeldOwned
  <2> QED BY <1>1, <1>2, <1>3, <2>1, OwnStep
<1>4. ASSUME NEW t \in S, NEW ok \in BOOLEAN, b = next, container_run_background(t, ok)
      PROVE  FALSE
  <2>1. box'[next] = IF ok THEN [st |-> "RUNNING", own |-> t, bad |-> 0] ELSE NoBox
    BY <1>4, RunTyped
  <2>2. t # 0
    BY NAssumption DEF S
  <2> QED BY <1>4, <2>1, <2>2
<1>5. CASE b = next /\ (StartService \/ RestartRun \/ MonRun)
  BY <1>4, <1>5, Starters
<1> QED BY <1>3, <1>5, HeldStep

-----------------------------------------------------------------------------
(* The health checks *)

(* A container that is listed was listed before, with as many failed checks *)
(* unless one has just ended, or was just started.                          *)
LEMMA ListedStep ==
    ASSUME Typed2, Planned, MonShape, UpTodo, Numbered, [Next]_vars,
           NEW b \in Ids, box'[b].st # "NONE",
           \A ok \in BOOLEAN : ~MonExec(ok)
    PROVE  \/ box[b].st # "NONE" /\ box'[b].bad = box[b].bad
           \/ b = next /\ (UserRun \/ StartService \/ RestartRun \/ MonRun)
<1>0. NoBox.st = "NONE"
  BY DEF NoBox
<1>1. ASSUME NEW t \in S \cup {0}, NEW ok \in BOOLEAN, container_run_background(t, ok)
      PROVE  (box[b].st # "NONE" /\ box'[b].bad = box[b].bad) \/ b = next
  BY <1>1, RunTyped
<1>2. CASE UserRun
  BY <1>1, <1>2, Starters
<1>3. CASE StartService
  BY <1>1, <1>3, Starters
<1>4. CASE RestartRun
  BY <1>1, <1>4, Starters
<1>5. CASE MonRun
  BY <1>1, <1>5, Starters
<1>6. CASE Quiet
  BY <1>0, <1>6 DEF Quiet
<1>7. ASSUME NEW x \in Ids, UserStart(x) PROVE box[b].st # "NONE" /\ box'[b].bad = box[b].bad
  <2>1. /\ \A y \in Ids : y # x => box'[y] = box[y]
        /\ box[x] # NoBox /\ box'[x].bad = box[x].bad
    BY <1>7, UserStartProps
  <2>2. box[x].st # "NONE"
    BY <2>1 DEF Numbered
  <2> QED BY <2>1, <2>2
<1> QED BY <1>2, <1>3, <1>4, <1>5, <1>6, <1>7, QuietStep

(* Only the end of a health check brings its result into the monitor's      *)
(* hand, and only MonChecked takes it away.                                 *)
LEMMA CheckedStep ==
    ASSUME Typed2, [Next]_vars, ~MonChecked, \A ok \in BOOLEAN : ~MonExec(ok)
    PROVE  mon' = mon \/ SpecUp \/ (mon.at # "checked" /\ mon'.at # "checked")
<1>0. mon \in MonState
  BY TypedDef DEF Types
<1>1. NextItem.at = "work"
  BY <1>0 DEF NextItem, MonState
<1>2. MonTick \/ MonExit \/ MonSet => mon.at # "checked" /\ mon'.at # "checked"
  <2>1. MonTick => mon.at = "sleep"
    BY DEF MonTick
  <2>2. MonTick => mon'.at = "work"
    BY TickProps
  <2>3. /\ MonExit => mon.at = "sleep" /\ mon' = NoMonitor
        /\ MonSet => mon.at = "set" /\ mon' = NextItem
    BY DEF MonExit, MonSet
  <2>4. NoMonitor.at = "none"
    BY DEF NoMonitor
  <2> QED BY <1>1, <2>1, <2>2, <2>3, <2>4
<1>3. MonItem => mon.at # "checked" /\ mon'.at # "checked"
  BY <1>0 DEF MonItem, MonState
<1>4. MonWake \/ MonDelete => mon.at # "checked" /\ mon'.at # "checked"
  BY <1>0, <1>1 DEF MonWake, MonDelete, MonState
<1>5. MonRun => mon.at # "checked" /\ mon'.at # "checked"
  BY <1>0 DEF MonRun, MonState
<1> QED BY <1>2, <1>3, <1>4, <1>5, MonStill

(* When the spec comes to run. *)
LEMMA RunningStep ==
    ASSUME CliShape, [Next]_vars, running'
    PROVE  SpecUp \/ (running /\ ~StartService /\ ~StopService /\ \A t \in Texts : ~orch_run(t))
<1>1. ~orch_down /\ \A t \in Texts : ~orch_run(t)
  BY DEF orch_down, orch_run
<1>2. ~StartService /\ ~StopService /\ ~Join /\ ~SpecDown
  BY DEF StartService, StopService, Join, SpecDown, CliShape
<1>3. RestartStop \/ RestartDelete \/ RestartRun \/ RestartSet => running
  BY DEF RestartStop, RestartDelete, RestartRun, RestartSet, CliShape, Restarting
<1>4. (\E s \in DOMAIN conf : orch_restart_service(s)) => running
  BY DEF orch_restart_service
<1> QED BY <1>1, <1>2, <1>3, <1>4, CliStill

(* A result counts for the container that was probed. *)
LEMMA FailsStep ==
    ASSUME Typed2, Planned, MonShape, CliShape, UpTodo, Numbered, HoldersAgree, FailsCounted,
           [Next]_vars
    PROVE  FailsCounted'
<1>0. /\ cid \in [S -> 0 .. MaxStarts] /\ fails \in [S -> Nat] /\ box \in [Ids -> Box]
      /\ mon \in MonState /\ cli \in CliState
  BY TypedDef DEF Types
<1> SUFFICES ASSUME running', ~reused', NEW s \in DOMAIN conf', cid'[s] # 0,
                    box'[cid'[s]].st # "NONE"
             PROVE  IF mon'.at = "checked" /\ Item'.cid = cid'[s]
                    THEN mon'.hc \/ fails'[s] + 1 <= box'[cid'[s]].bad
                    ELSE fails'[s] <= box'[cid'[s]].bad
  BY DEF FailsCounted
<1>1. ~reused /\ (UserRun \/ StartService \/ RestartRun \/ MonRun => next \notin Held)
  BY ReusedStep
<1>2. conf' = conf /\ s \in DOMAIN conf /\ s \in S
  BY ParsedStep, SortedProps DEF orch_run
<1>3. CASE SpecUp
  <2>1. fails'[s] = 0 /\ cid' = cid /\ box' = box
    BY <1>2, <1>3 DEF SpecUp, UpTodo, spec, manager
  <2>2. mon'.at # "checked"
    BY <1>3 DEF SpecUp, NoMonitor
  <2>3. cid[s] \in Ids
    BY <1>0, <1>2, <2>1, BoundsAssumption DEF Ids
  <2>4. box[cid[s]].bad \in Nat
    BY <1>0, <2>3, BoundsAssumption DEF Box
  <2> QED BY <2>1, <2>2, <2>4
<1>4. CASE ~SpecUp
  <2>1. running /\ ~StartService /\ ~StopService /\ \A t \in Texts : ~orch_run(t)
    BY <1>4, RunningStep
  <2>2. cid[s] # 0 /\ box[cid[s]].st # "NONE" =>
            IF mon.at = "checked" /\ Item.cid = cid[s]
            THEN mon.hc \/ fails[s] + 1 <= box[cid[s]].bad
            ELSE fails[s] <= box[cid[s]].bad
    BY <1>1, <1>2, <2>1 DEF FailsCounted
  <2>3. ASSUME NEW ok \in BOOLEAN, MonExec(ok)
        PROVE  IF mon'.at = "checked" /\ Item'.cid = cid'[s]
               THEN mon'.hc \/ fails'[s] + 1 <= box'[cid'[s]].bad
               ELSE fails'[s] <= box'[cid'[s]].bad
    <3>1. cid' = cid /\ fails' = fails /\ mon.at = "exec"
      BY <2>3 DEF MonExec, spec
    <3>2. mon'.work = mon.work /\ mon'.at = "checked" /\ mon'.hc = ok
      BY <1>0, <2>3 DEF MonExec, MonState
    <3>3. Item' = Item
      BY <3>2, ItemSame
    <3>4. /\ Item.cid \in Ids
          /\ \A x \in Ids : x # Item.cid => box'[x] = box[x]
          /\ \A x \in Ids : box'[x].st = box[x].st
          /\ box[Item.cid] # NoBox =>
                  box'[Item.cid].bad = IF ok THEN 0 ELSE box[Item.cid].bad + 1
      BY <2>3, ExecProps
    <3>5. cid[s] \in Ids
      BY <1>0, <1>2, <3>1, BoundsAssumption DEF Ids
    <3>6. box[cid[s]].st # "NONE" /\ box[cid[s]] # NoBox
      BY <3>1, <3>4, <3>5 DEF NoBox
    <3>7. fails[s] <= box[cid[s]].bad
      BY <2>2, <3>1, <3>6
    <3>8. fails[s] \in Nat /\ box[cid[s]].bad \in Nat
      BY <1>0, <1>2, <3>5, BoundsAssumption DEF Box
    <3> QED BY <3>1, <3>2, <3>3, <3>4, <3>5, <3>6, <3>7, <3>8
  <2>4. CASE MonChecked
    <3>1. cid' = cid /\ box' = box /\ mon.at = "checked" /\ mon' = NextItem
      BY <2>4 DEF MonChecked, manager
    <3>2. mon'.at # "checked"
      BY <1>0, <3>1 DEF NextItem, MonState
    <3>3. Item \in mon.work /\ Item.idx \in S
      BY <3>1, ItemProps DEF MonShape
    <3>4. cid[s] = Item.cid => s = Item.idx
      BY <1>1, <1>2, <3>3 DEF HoldersAgree
    <3>5. cid[s] \in Ids
      BY <1>0, <1>2, <3>1, BoundsAssumption DEF Ids
    <3>6. fails[s] \in Nat /\ box[cid[s]].bad \in Nat
      BY <1>0, <1>2, <3>5, BoundsAssumption DEF Box
    <3>7. CASE cid[Item.idx] # Item.cid
      <4>1. fails' = fails /\ cid[s] # Item.cid
        BY <2>4, <3>4, <3>7 DEF MonChecked
      <4> QED BY <2>2, <3>1, <3>2, <4>1
    <3>8. CASE cid[Item.idx] = Item.cid /\ mon.hc
      <4>1. fails' = [fails EXCEPT ![Item.idx] = 0]
        BY <2>1, <2>4, <3>8 DEF MonChecked
      <4>2. CASE s = Item.idx
        BY <1>0, <3>1, <3>2, <3>3, <3>6, <4>1, <4>2
      <4>3. CASE s # Item.idx
        BY <1>0, <1>2, <2>2, <3>1, <3>2, <3>4, <4>1, <4>3
      <4> QED BY <4>2, <4>3
    <3>9. CASE cid[Item.idx] = Item.cid /\ ~mon.hc
      <4>1. fails' = [fails EXCEPT ![Item.idx] = fails[Item.idx] + 1]
        BY <2>1, <2>4, <3>9 DEF MonChecked
      <4>2. CASE s = Item.idx
        BY <1>0, <2>2, <3>1, <3>2, <3>3, <3>9, <4>1, <4>2
      <4>3. CASE s # Item.idx
        BY <1>0, <1>2, <2>2, <3>1, <3>2, <3>4, <4>1, <4>3
      <4> QED BY <4>2, <4>3
    <3> QED BY <3>7, <3>8, <3>9
  <2>5. CASE MonSet
    <3>1. /\ mon.at = "set" /\ mon'.at = "work" /\ box' = box /\ Item.idx \in S
          /\ \/ cid' = cid /\ fails' = fails
             \/ /\ cid' = [cid EXCEPT ![Item.idx] = mon.new]
                /\ fails' = [fails EXCEPT ![Item.idx] = 0] /\ mon.new # 0
      BY <2>1, <2>5, SetCases
    <3>2. CASE cid'[s] = cid[s] /\ fails'[s] = fails[s]
      BY <2>2, <3>1, <3>2
    <3>3. CASE cid'[s] = mon.new /\ fails'[s] = 0 /\ mon.new # 0
      <4>1. mon.new \in Ids
        BY <1>0, <3>3, BoundsAssumption DEF MonState, Ids
      <4>2. box[mon.new].bad \in Nat
        BY <1>0, <4>1, BoundsAssumption DEF Box
      <4> QED BY <3>1, <3>3, <4>2
    <3> QED BY <1>0, <1>2, <3>1, <3>2, <3>3
  <2>6. CASE RestartSet
    <3>1. mon' = mon /\ box' = box /\ cli.at = "rset"
      BY <2>6 DEF RestartSet, manager
    <3>2. Item' = Item
      BY <3>1, ItemSame
    <3>3. \/ cid' = cid /\ fails' = fails
          \/ /\ cid' = [cid EXCEPT ![cli.idx] = cli.id]
             /\ fails' = [fails EXCEPT ![cli.idx] = 0] /\ cli.id # 0
      BY <2>6 DEF RestartSet
    <3>4. CASE cid'[s] = cid[s] /\ fails'[s] = fails[s]
      BY <2>2, <3>1, <3>2, <3>4
    <3>5. CASE cid'[s] = cli.id /\ fails'[s] = 0 /\ cli.id # 0
      <4>1. cli.id \in Ids
        BY <1>0, <3>5, BoundsAssumption DEF CliState, Ids
      <4>2. box[cli.id].bad \in Nat
        BY <1>0, <4>1, BoundsAssumption DEF Box
      <4>3. mon.at = "checked" => Item \in mon.work
        BY ItemProps DEF MonShape
      <4>4. mon.at = "checked" => Item.cid # cli.id
        BY <1>1, <3>1, <4>3 DEF HoldersAgree
      <4> QED BY <3>1, <3>2, <3>5, <4>2, <4>4
    <3> QED BY <1>0, <1>2, <3>3, <3>4, <3>5
  <2>7. CASE /\ \A ok \in BOOLEAN : ~MonExec(ok)
             /\ ~MonChecked /\ ~MonSet /\ ~RestartSet
    <3>1. cid' = cid /\ fails' = fails
      BY <2>1, <2>7, SvcStill DEF MonTick, orch_restart_service
    <3>2. cid[s] \in Ids /\ cid[s] \in Held
      BY <1>0, <1>2, <3>1, BoundsAssumption DEF Ids, Held
    <3>3. box[cid[s]].st # "NONE" /\ box'[cid[s]].bad = box[cid[s]].bad
      BY <1>1, <2>7, <3>1, <3>2, ListedStep
    <3>4. mon' = mon \/ (mon.at # "checked" /\ mon'.at # "checked")
      BY <1>4, <2>7, CheckedStep
    <3>5. mon' = mon => Item' = Item
      BY ItemSame
    <3> QED BY <2>2, <3>1, <3>3, <3>4, <3>5
  <2> QED BY <2>3, <2>4, <2>5, <2>6, <2>7
<1> QED BY <1>3, <1>4

(* A service becomes UNHEALTHY when the count reaches what the spec says,   *)
(* and whatever resets the count says something else of the service.        *)
LEMMA UnhealthyStep ==
    ASSUME Typed2, Typed2', Planned, Planned', MonShape, UnhealthyCounted, [Next]_vars
    PROVE  UnhealthyCounted'
<1>0. /\ svc \in [S -> SvcStates] /\ fails \in [S -> Nat]
  BY TypedDef DEF Types
<1> SUFFICES ASSUME NEW s \in DOMAIN conf', svc'[s] = "UNHEALTHY"
             PROVE  fails'[s] >= conf'[s].retries
  BY DEF UnhealthyCounted
<1>1. CASE conf' = conf
  <2>0. s \in DOMAIN conf /\ s \in S
    BY <1>1, SortedProps
  <2>1. ASSUME svc'[s] = svc[s], fails'[s] = fails[s] PROVE fails'[s] >= conf'[s].retries
    BY <1>1, <2>0, <2>1 DEF UnhealthyCounted
  <2>2. CASE StartService
    <3>1. /\ fails' = fails
          /\ \/ svc' = [svc EXCEPT ![Head(cli.todo)] = "RUNNING"]
             \/ svc' = [svc EXCEPT ![Head(cli.todo)] = "FAILED"]
      BY <2>2 DEF StartService
    <3> QED BY <1>0, <2>0, <2>1, <3>1
  <2>3. CASE StopService
    <3>1. fails' = fails /\ \E t : svc' = [svc EXCEPT ![t] = IF cid[t] = 0 THEN @ ELSE "STOPPED"]
      BY <2>3 DEF StopService
    <3>2. svc'[s] = svc[s] \/ svc'[s] = "STOPPED"
      BY <1>0, <2>0, <3>1
    <3> QED BY <2>1, <3>1, <3>2
  <2>4. CASE RestartSet
    <3>1. \/ fails' = fails /\ svc' = [svc EXCEPT ![cli.idx] = "FAILED"]
          \/ /\ fails' = [fails EXCEPT ![cli.idx] = 0]
             /\ svc' = [svc EXCEPT ![cli.idx] = "RUNNING"]
      BY <2>4 DEF RestartSet
    <3> QED BY <1>0, <2>0, <2>1, <3>1
  <2>5. CASE MonTick
    <3>1. svc'[s] = svc[s] \/ svc'[s] \in {"RESTARTING", "STOPPED", "FAILED", "HEALTHY"}
      BY <2>0, <2>5, TickProps
    <3>2. fails' = fails
      BY <2>5 DEF MonTick
    <3> QED BY <2>1, <3>1, <3>2
  <2>6. CASE MonSet
    <3>1. \/ fails' = fails /\ svc' = svc
          \/ fails' = fails /\ svc' = [svc EXCEPT ![Item.idx] = "FAILED"]
          \/ /\ fails' = [fails EXCEPT ![Item.idx] = 0]
             /\ svc' = [svc EXCEPT ![Item.idx] = "RUNNING"]
      BY <2>6, SetCases
    <3> QED BY <1>0, <2>0, <2>1, <3>1
  <2>7. CASE MonChecked
    <3> DEFINE n == fails[Item.idx] + 1
    <3>1. \/ fails' = fails /\ svc' = svc
          \/ /\ fails' = [fails EXCEPT ![Item.idx] = 0]
             /\ svc' = [svc EXCEPT ![Item.idx] = "HEALTHY"]
          \/ /\ fails' = [fails EXCEPT ![Item.idx] = n]
             /\ svc' = [svc EXCEPT ![Item.idx] =
                            IF n >= conf[Item.idx].retries THEN "UNHEALTHY" ELSE @]
      BY <2>7 DEF MonChecked
    <3>2. CASE s # Item.idx
      BY <1>0, <2>0, <2>1, <3>1, <3>2
    <3>3. CASE s = Item.idx
      <4>1. fails[s] \in Nat /\ conf[s].retries \in Nat
        <5>1. conf[s] \in Service
          BY <2>0, SortedProps
        <5> QED BY <1>0, <2>0, <5>1 DEF Service
      <4>2. CASE n >= conf[s].retries
        BY <1>0, <1>1, <2>0, <2>1, <3>1, <3>3, <4>2
      <4>3. CASE ~(n >= conf[s].retries)
        <5>1. svc[s] # "UNHEALTHY"
          BY <2>0, <3>3, <4>1, <4>3 DEF UnhealthyCounted
        <5> QED BY <1>0, <2>0, <3>1, <3>3, <4>3, <5>1
      <4> QED BY <4>2, <4>3
    <3> QED BY <3>2, <3>3
  <2>8. ASSUME NEW t \in DOMAIN conf, orch_restart_service(t) PROVE fails'[s] >= conf'[s].retries
    <3>1. fails' = fails /\ svc' = [svc EXCEPT ![t] = "RESTARTING"]
      BY <2>8 DEF orch_restart_service
    <3> QED BY <1>0, <2>0, <2>1, <3>1
  <2>9. ASSUME NEW t \in Texts, orch_run(t) PROVE fails'[s] >= conf'[s].retries
    <3>1. svc'[s] = "PENDING"
      BY <2>0, <2>9 DEF orch_run
    <3> QED BY <3>1
  <2> QED BY <2>1, <2>2, <2>3, <2>4, <2>5, <2>6, <2>7, <2>8, <2>9, SvcStill
<1>2. ASSUME NEW t \in Texts, orch_run(t) PROVE FALSE
  <2>1. svc' = [x \in S |-> "PENDING"]
    BY <1>2 DEF orch_run
  <2>2. s \in S
    <3>1. conf' \in Seq(Service) /\ Len(conf') <= N
      BY TypedNext DEF Types, Planned
    <3> QED BY <3>1, NAssumption DEF S
  <2> QED BY <2>1, <2>2
<1> QED BY <1>1, <1>2, ParsedStep

-----------------------------------------------------------------------------
(* The invariant *)

(* It holds before the first command. *)
LEMMA InvInit == Init => IInv
<1> SUFFICES ASSUME Init PROVE IInv
  OBVIOUS
<1>1. /\ NoMonitor \in MonState /\ Prompt \in CliState
  BY RestTyped
<1>2. NoBox \in Box /\ SvcStates # {} /\ "PENDING" \in SvcStates
  BY BoundsAssumption DEF NoBox, Box, SvcStates
<1>3. Typed2
  <2>1. running \in BOOLEAN /\ conf \in Seq(Service) /\ sorted \in Seq(S)
    <3>1. running = FALSE /\ conf = <<>> /\ sorted = <<>>
      BY DEF Init
    <3>2. <<>> \in Seq(Service)
      OBVIOUS
    <3>3. <<>> \in Seq(S)
      OBVIOUS
    <3>4. running \in BOOLEAN
      BY <3>1
    <3> QED BY <3>1, <3>2, <3>3, <3>4, Zenon
  <2>2. cid \in [S -> 0 .. MaxStarts] /\ svc \in [S -> SvcStates]
    BY <1>2, BoundsAssumption DEF Init
  <2>3. count \in [S -> Nat] /\ fails \in [S -> Nat] /\ box \in [Ids -> Box]
    BY <1>2 DEF Init
  <2>4. next \in 1 .. (MaxStarts + 1) /\ starts \in 0 .. MaxStarts /\ cmds \in 0 .. MaxCmds
    BY BoundsAssumption DEF Init
  <2>5. restarted \in SUBSET S /\ reused \in BOOLEAN /\ cli \in CliState /\ mon \in MonState
    BY <1>1 DEF Init
  <2> QED BY <2>1, <2>2, <2>3, <2>4, <2>5, TypedDef DEF Types
<1>4. Planned
  <2>1. conf = <<>> /\ sorted = <<>> /\ Len(conf) = 0 /\ DOMAIN conf = {}
    BY DEF Init
  <2>2. Deps(conf) = <<>>
    BY <2>1 DEF Deps
  <2>3. <<>> \in Orders(<<>>)
    <3>1. <<>> \in Seq(Seq(Int)) /\ <<>> \in Seq(1 .. Len(<<>>)) /\ Len(<<>>) = 0
      OBVIOUS
    <3>2. Distinct(<<>>) /\ Behind(<<>>, <<>>)
      BY <3>1 DEF Distinct, Behind
    <3> QED BY <3>1, <3>2, OrdersDef, Zenon
  <2> QED BY <2>1, <2>2, <2>3, NAssumption DEF Planned
<1>5. UpTodo /\ DownTodo /\ AllTried /\ OnlySpec
  BY DEF Init, Prompt, UpTodo, DownTodo, AllTried, OnlySpec
<1>6. MonShape /\ CliShape
  BY DEF Init, NoMonitor, Prompt, MonShape, CliShape, Restarting, Replacing
<1>7. BoxInv
  <2>1. \A b \in Ids : box[b] = NoBox /\ box[b].st = "NONE"
    BY DEF Init, NoBox
  <2>2. \A b \in Ids, s \in S : ~Ours(b, s)
    BY <2>1 DEF Ours, Runs
  <2>3. mon.work = {}
    BY DEF Init, NoMonitor
  <2>4. Numbered
    BY <2>1 DEF Init, Numbered
  <2> QED BY <2>2, <2>3, <2>4 DEF BoxInv, Found, RestartsIdle, NewOwned, DownIsEmpty
<1>8. HealthInv
  <2>1. mon.work = {} /\ mon.new = 0 /\ cli.id = 0 /\ \A s \in S : cid[s] = 0
    BY DEF Init, NoMonitor, Prompt
  <2>2. HoldersAgree
    BY <2>1 DEF HoldersAgree
  <2>3. HeldOwned
    BY <2>1 DEF HeldOwned, Held
  <2>4. FailsCounted /\ UnhealthyCounted
    BY DEF Init, FailsCounted, UnhealthyCounted
  <2> QED BY <2>2, <2>3, <2>4 DEF HealthInv
<1> QED BY <1>3, <1>4, <1>5, <1>6, <1>7, <1>8 DEF IInv, SpecInv, ThreadInv

(* Every step keeps it. *)
LEMMA InvStep == IInv /\ [Next]_vars => IInv'
<1> SUFFICES ASSUME IInv, [Next]_vars PROVE IInv'
  OBVIOUS
<1>0. /\ Typed2 /\ Planned /\ UpTodo /\ DownTodo /\ AllTried /\ OnlySpec
      /\ MonShape /\ CliShape
      /\ BoxInv /\ Numbered
      /\ HoldersAgree /\ HeldOwned /\ FailsCounted /\ UnhealthyCounted
  BY DEF IInv, SpecInv, ThreadInv, BoxInv, HealthInv
<1>1. Typed2'
  BY <1>0, TypeStep
<1>2. Planned'
  BY <1>0, PlannedStep
<1>3. UpTodo' /\ DownTodo' /\ AllTried' /\ OnlySpec'
  BY <1>0, <1>1, <1>2, UpTodoStep, DownTodoStep, AllTriedStep, OnlySpecStep
<1>4. MonShape' /\ CliShape'
  BY <1>0, MonShapeStep, CliShapeStep
<1>5. Numbered' /\ Found' /\ RestartsIdle' /\ NewOwned' /\ DownIsEmpty'
  BY <1>0, NumberedStep, FoundStep, RestartsIdleStep, NewOwnedStep, DownIsEmptyStep
<1>6. HoldersAgree' /\ HeldOwned'
  BY <1>0, <1>1, HoldersStep, HeldOwnedStep
<1>7. FailsCounted' /\ UnhealthyCounted'
  BY <1>0, <1>1, <1>2, FailsStep, UnhealthyStep
<1> QED BY <1>1, <1>2, <1>3, <1>4, <1>5, <1>6, <1>7 DEF IInv, SpecInv, ThreadInv, BoxInv, HealthInv

(* The invariant of both threads, the user and the containers. *)
THEOREM OrchestratorInvariant == Spec => []IInv
<1>1. Init => IInv
  BY InvInit
<1>2. IInv /\ [Next]_vars => IInv'
  BY InvStep
<1> QED BY <1>1, <1>2, PTL DEF Spec

-----------------------------------------------------------------------------
(* What follows from it *)

(* For any spec and any use of the containers by hand, a container that     *)
(* runs for a service is known to it or about to be: neither a failed       *)
(* start, nor a restart, nor orch_down in the middle of one loses it.       *)
THEOREM NothingStrays == Spec => []NoStrayContainer
<1>1. IInv => NoStrayContainer
  <2> SUFFICES ASSUME IInv PROVE NoStrayContainer
    OBVIOUS
  <2>1. TypeOK /\ Found
    BY DEF IInv, Typed2, BoxInv
  <2> QED BY <2>1 DEF NoStrayContainer, Found, Ours
<1> QED BY <1>1, OrchestratorInvariant, PTL

(* For any number of retries and any interleaving of checks and restarts, a *)
(* service is UNHEALTHY on account of the container it has.                 *)
THEOREM UnhealthyIsEarned == Spec => []UnhealthyEarned
<1>1. IInv => UnhealthyEarned
  <2> SUFFICES ASSUME IInv, running, ~reused, NEW s \in DOMAIN conf, svc[s] = "UNHEALTHY",
                      BoxOf(s) # "NONE"
               PROVE  \/ box[cid[s]].bad >= conf[s].retries
                      \/ mon.at = "checked" /\ mon.hc /\ Item.cid = cid[s]
    BY DEF UnhealthyEarned
  <2>1. Typed2 /\ Planned /\ FailsCounted /\ UnhealthyCounted
    BY DEF IInv, SpecInv, HealthInv
  <2>2. s \in S /\ conf[s] \in Service
    BY <2>1, SortedProps
  <2>3. cid[s] # 0 /\ box[cid[s]].st # "NONE"
    BY DEF BoxOf
  <2>4. box \in [Ids -> Box] /\ cid[s] \in 0 .. MaxStarts /\ fails[s] \in Nat
    BY <2>1, <2>2, TypedDef DEF Types
  <2>5. cid[s] \in Ids
    BY <2>3, <2>4, BoundsAssumption DEF Ids
  <2>6. box[cid[s]].bad \in Nat /\ conf[s].retries \in Nat
    BY <2>2, <2>4, <2>5, BoundsAssumption DEF Box, Service
  <2>7. IF mon.at = "checked" /\ Item.cid = cid[s]
        THEN mon.hc \/ fails[s] + 1 <= box[cid[s]].bad
        ELSE fails[s] <= box[cid[s]].bad
    BY <2>1, <2>3 DEF FailsCounted
  <2>8. fails[s] >= conf[s].retries
    BY <2>1 DEF UnhealthyCounted
  <2> QED BY <2>4, <2>6, <2>7, <2>8
<1> QED BY <1>1, OrchestratorInvariant, PTL

(* When orch_down returns, nothing runs for a service that the user has not *)
(* restarted, whatever the monitor was doing when it was called.            *)
THEOREM DownFindsAll == Spec => DownLeavesNone
<1>1. IInv => [SpecDown => \A b \in Ids : Runs(b) => box[b].own \notin S \ restarted]_vars
  <2> SUFFICES ASSUME IInv, SpecDown, NEW b \in Ids, Runs(b), box[b].own \in S \ restarted
               PROVE  FALSE
    OBVIOUS
  <2>0. Typed2 /\ Planned /\ OnlySpec /\ DownTodo /\ CliShape /\ Found
    BY DEF IInv, SpecInv, ThreadInv, BoxInv
  <2>1. cli.at = "down" /\ cli.todo = <<>> /\ mon = NoMonitor
    BY <2>0 DEF SpecDown, CliShape
  <2>2. mon.new = 0
    BY <2>1 DEF NoMonitor
  <2>3. \A s \in S : cid[s] = 0
    BY <2>0, <2>1, DownDone
  <2>4. Ours(b, box[b].own)
    BY DEF Ours
  <2>5. b # 0
    BY BoundsAssumption DEF Ids
  <2> QED BY <2>0, <2>2, <2>3, <2>4, <2>5 DEF Found
<1> QED BY <1>1, OrchestratorInvariant, PTL DEF DownLeavesNone

(* The service that orch_down stops next: those later in the order have     *)
(* nothing any more.                                                        *)
LEMMA DownHead ==
    ASSUME Typed2, Planned, DownTodo, cli.at = "down", cli.todo # <<>>
    PROVE  \E m \in 1 .. Len(sorted) :
              /\ Head(cli.todo) = sorted[m] /\ Head(cli.todo) \in S
              /\ \A i \in 1 .. Len(sorted) : i > m => cid[sorted[i]] = 0
<1> DEFINE rev == Reverse(sorted)
           n == Len(sorted)
<1>0. sorted \in Seq(S)
  BY TypedDef DEF Types
<1>1. /\ rev \in Seq(S) /\ Len(rev) = n /\ n \in Nat
      /\ \A i \in 1 .. n : rev[i] = sorted[n - i + 1] /\ n - i + 1 \in 1 .. n
  BY <1>0, ReverseProps
<1>2. PICK k \in 0 .. n : cli.todo = SubSeq(rev, k + 1, n) /\ \A i \in 1 .. k : cid[rev[i]] = 0
  BY DEF DownTodo
<1> HIDE DEF rev, n
<1>3. k + 1 \in 1 .. n /\ Head(cli.todo) = rev[k + 1]
  <2>1. k \in 0 .. Len(rev) /\ SubSeq(rev, k + 1, Len(rev)) # <<>>
    BY <1>1, <1>2
  <2>2. k + 1 \in 1 .. Len(rev) /\ Head(SubSeq(rev, k + 1, Len(rev))) = rev[k + 1]
    BY <1>1, <2>1, RestOf, Zenon
  <2> QED BY <1>1, <1>2, <2>2
<1>4. n - (k + 1) + 1 = n - k /\ n - k \in 1 .. n /\ Head(cli.todo) = sorted[n - k]
  BY <1>1, <1>3
<1>5. sorted[n - k] \in S
  BY <1>0, <1>4 DEF n
<1>6. ASSUME NEW i \in 1 .. n, i > n - k PROVE cid[sorted[i]] = 0
  <2>1. n - i + 1 \in 1 .. k /\ n - i + 1 \in 1 .. n /\ n - (n - i + 1) + 1 = i
    BY <1>1, <1>6
  <2>2. rev[n - i + 1] = sorted[i]
    BY <1>1, <2>1
  <2> QED BY <1>2, <2>1, <2>2
<1> QED BY <1>4, <1>5, <1>6 DEF n

(* What the services wait for is before them, in every order of starting    *)
(* and, backwards, of stopping.                                             *)
THEOREM DependenciesFirst == Spec => DependencyOrder
<1> DEFINE A == \A s \in DOMAIN conf : \A t \in ToSet(conf[s].deps) :
                  /\ svc[s] = "PENDING" /\ svc'[s] # "PENDING" => svc[t] # "PENDING"
                  /\ StopService /\ Head(cli.todo) = t /\ cid[s] # 0 /\ Runs(cid[s])
                       => box[cid[s]].own # s
<1>1. IInv /\ [Next]_vars => [A]_vars
  <2> SUFFICES ASSUME IInv, [Next]_vars, NEW s \in DOMAIN conf, NEW t \in ToSet(conf[s].deps)
               PROVE  /\ svc[s] = "PENDING" /\ svc'[s] # "PENDING" => svc[t] # "PENDING"
                      /\ StopService /\ Head(cli.todo) = t => cid[s] = 0
    OBVIOUS
  <2> HIDE DEF A
  <2>0. /\ Typed2 /\ Planned /\ MonShape /\ CliShape /\ UpTodo /\ DownTodo /\ AllTried
        /\ svc \in [S -> SvcStates]
    BY TypedDef DEF IInv, SpecInv, ThreadInv, Types
  <2>1. /\ s \in S /\ t \in DOMAIN conf /\ Len(sorted) \in Nat /\ Distinct(sorted)
        /\ \E i \in 1 .. Len(sorted) : sorted[i] = s
        /\ \E j \in 1 .. Len(sorted) : sorted[j] = t
        /\ \A i, j \in 1 .. Len(sorted) : sorted[j] \in ToSet(conf[sorted[i]].deps) => j < i
    <3>1. t \in DOMAIN conf
      BY <2>0 DEF Planned
    <3> QED BY <2>0, <3>1, SortedProps
  <2>2. PICK i \in 1 .. Len(sorted) : sorted[i] = s
    BY <2>1
  <2>3. PICK j \in 1 .. Len(sorted) : sorted[j] = t
    BY <2>1
  <2>4. j < i
    BY <2>1, <2>2, <2>3
  <2>5. ASSUME svc[s] = "PENDING", svc'[s] # "PENDING" PROVE svc[t] # "PENDING"
    <3>1. ~running /\ cli.at \notin {"join", "down"}
      BY <2>0, <2>5 DEF AllTried
    <3>2. ~StopService /\ ~MonTick /\ ~RestartSet /\ \A x \in DOMAIN conf : ~orch_restart_service(x)
      BY <2>0, <3>1 DEF StopService, MonTick, RestartSet, orch_restart_service, CliShape, Restarting
    <3>3. MonChecked \/ MonSet => svc' = svc
      BY <2>0, <3>1, SetCases DEF MonChecked
    <3>4. \A x \in Texts : orch_run(x) => svc'[s] = "PENDING"
      BY <2>1 DEF orch_run
    <3>5. StartService
      BY <2>5, <3>2, <3>3, <3>4, SvcStill
    <3>6. cli.at = "up" /\ cli.todo # <<>> /\ s = Head(cli.todo)
      <4>1. \/ svc' = [svc EXCEPT ![Head(cli.todo)] = "RUNNING"]
            \/ svc' = [svc EXCEPT ![Head(cli.todo)] = "FAILED"]
        BY <3>5 DEF StartService
      <4> QED BY <2>0, <2>1, <2>5, <3>5, <4>1 DEF StartService
    <3>7. PICK k \in 0 .. Len(sorted) :
              /\ cli.todo = SubSeq(sorted, k + 1, Len(sorted))
              /\ \A x \in 1 .. k : svc[sorted[x]] # "PENDING"
      BY <2>0, <3>6 DEF UpTodo
    <3>8. k + 1 \in 1 .. Len(sorted) /\ s = sorted[k + 1]
      <4>1. sorted \in Seq(S) /\ SubSeq(sorted, k + 1, Len(sorted)) # <<>>
        BY <2>0, <3>6, <3>7, TypedDef DEF Types
      <4>2. /\ k + 1 \in 1 .. Len(sorted)
            /\ Head(SubSeq(sorted, k + 1, Len(sorted))) = sorted[k + 1]
        BY <3>7, <4>1, RestOf, Zenon
      <4> QED BY <3>6, <3>7, <4>2
    <3>9. i = k + 1
      BY <2>1, <2>2, <3>8 DEF Distinct
    <3>10. j \in 1 .. k
      BY <2>1, <2>4, <3>7, <3>9
    <3> QED BY <2>3, <3>7, <3>10
  <2>6. ASSUME StopService, Head(cli.todo) = t PROVE cid[s] = 0
    <3>1. cli.at = "down" /\ cli.todo # <<>>
      BY <2>6 DEF StopService
    <3>2. PICK m \in 1 .. Len(sorted) :
              /\ Head(cli.todo) = sorted[m]
              /\ \A x \in 1 .. Len(sorted) : x > m => cid[sorted[x]] = 0
      BY <2>0, <3>1, DownHead
    <3>3. m = j
      BY <2>1, <2>3, <2>6, <3>2 DEF Distinct
    <3> QED BY <2>1, <2>2, <2>4, <3>2, <3>3
  <2> QED BY <2>5, <2>6
<1>2. Spec => [][A]_vars
  <2> HIDE DEF A
  <2> QED BY <1>1, OrchestratorInvariant, PTL DEF Spec
<1> QED BY <1>2 DEF DependencyOrder

(* What is typed counts as a command. *)
LEMMA TypedCounts ==
    ASSUME Typed2, Next, cmds' = cmds
    PROVE  Inspect \/ CliStep \/ Monitor \/ (\E ok \in BOOLEAN : MonExec(ok)) \/ \E b \in Ids : BoxExits(b)
<1>0. cmds \in Nat
  BY TypedDef, BoundsAssumption DEF Types
<1>1. ~Typed
  BY <1>0 DEF Typed
<1> QED BY <1>1 DEF Next, User, orch_down, UserRun, container_prune_all, orch_run,
           orch_restart_service, UserStart

(* The orchestrator's own steps leave the containers alone whose numbers it *)
(* does not hold, but for one that ends by itself.                          *)
LEMMA OnlyHeld ==
    ASSUME Typed2, Planned, MonShape, UpTodo, DownTodo, Numbered, Next, cmds' = cmds,
           NEW b \in Ids, b \notin Held, box[b] # NoBox
    PROVE  box'[b] = box[b] \/ BoxExits(b)
<1>0. box \in [Ids -> Box] /\ mon \in MonState /\ cli \in CliState
  BY TypedDef DEF Types
<1>1. /\ \A s \in S : cid[s] # b
      /\ \A w \in mon.work : w.cid # b
      /\ cli.id # b /\ mon.new # b
  BY DEF Held
<1>2. ASSUME NEW x, x # b, NEW how \in Stopped, box' = StopBox(box, x, how) PROVE box'[b] = box[b]
  BY <1>0, <1>2, BoxOps
<1>3. ASSUME NEW x, x # b, box' = DeleteBox(box, x) PROVE box'[b] = box[b]
  BY <1>0, <1>3 DEF DeleteBox
<1>4. ASSUME NEW x, x # b, box' = DeleteBox(StopBox(box, x, "BAD"), x) PROVE box'[b] = box[b]
  BY <1>0, <1>4, StopDelete
<1>5. ASSUME NEW t \in S \cup {0}, NEW ok \in BOOLEAN, container_run_background(t, ok)
      PROVE  box'[b] = box[b]
  <2>1. next \in Ids /\ next \in Nat /\ \A x \in Ids : x # next => box'[x] = box[x]
    BY <1>5, RunTyped
  <2>2. b # next
    BY <2>1 DEF Numbered
  <2> QED BY <2>1, <2>2
<1>6. CASE Inspect
  BY <1>6 DEF Inspect, manager
<1>7. CASE StartService \/ RestartRun \/ MonRun
  BY <1>5, <1>7, Starters
<1>8. CASE StopService
  <2>1. Head(cli.todo) \in S
    BY <1>8, DownHead DEF StopService
  <2>2. box' = DeleteBox(StopBox(box, cid[Head(cli.todo)], "BAD"), cid[Head(cli.todo)])
    BY <1>8 DEF StopService
  <2> QED BY <1>1, <1>4, <2>1, <2>2
<1>9. CASE RestartStop
  BY <1>1, <1>2, <1>9 DEF RestartStop
<1>10. CASE RestartDelete
  BY <1>1, <1>3, <1>10 DEF RestartDelete
<1>11. CASE SpecUp \/ Join \/ SpecDown \/ RestartSet
  BY <1>11 DEF SpecUp, Join, SpecDown, RestartSet, manager
<1>12. CASE MonDelete
  <2>1. Item \in mon.work
    BY <1>12, ItemProps DEF MonDelete, MonShape, Replacing
  <2>2. box' = DeleteBox(box, Item.cid)
    BY <1>12 DEF MonDelete
  <2> QED BY <1>1, <1>3, <2>1, <2>2
<1>13. CASE MonSet
  <2>1. box' = box \/ box' = DeleteBox(StopBox(box, mon.new, "BAD"), mon.new)
    BY <1>13, SetCases
  <2> QED BY <1>1, <1>4, <2>1
<1>14. CASE MonTick \/ MonExit \/ MonItem \/ MonChecked \/ MonWake
  BY <1>14 DEF MonTick, MonExit, MonItem, MonChecked, MonWake, manager
<1>15. ASSUME NEW ok \in BOOLEAN, MonExec(ok) PROVE box'[b] = box[b]
  <2>1. Item \in mon.work
    BY <1>15, ItemProps DEF MonExec, MonShape
  <2> QED BY <1>1, <1>15, <2>1, ExecProps
<1>16. ASSUME NEW x \in Ids, BoxExits(x) PROVE box'[b] = box[b] \/ BoxExits(b)
  <2>1. CASE x = b
    BY <1>16, <2>1
  <2>2. CASE x # b
    BY <1>2, <1>16, <2>2 DEF BoxExits
  <2> QED BY <2>1, <2>2
<1> QED BY <1>6, <1>7, <1>8, <1>9, <1>10, <1>11, <1>12, <1>13, <1>14, <1>15, <1>16,
           TypedCounts DEF CliStep, Monitor

(* Whatever the user runs beside the services, no step of the orchestrator  *)
(* touches it as long as no number was given again that a service had.      *)
THEOREM ForeignIsSafe == Spec => ForeignUntouched
<1> DEFINE A == \A b \in Ids :
                  box[b].own = 0 /\ box[b] # NoBox /\ ~reused /\ cmds' = cmds =>
                      box'[b] = box[b] \/ BoxExits(b)
<1>1. IInv /\ [Next]_vars => [A]_vars
  <2> SUFFICES ASSUME IInv, Next, NEW b \in Ids, box[b].own = 0, box[b] # NoBox, ~reused, cmds' = cmds
               PROVE  box'[b] = box[b] \/ BoxExits(b)
    OBVIOUS
  <2> HIDE DEF A
  <2>1. Typed2 /\ Planned /\ MonShape /\ UpTodo /\ DownTodo /\ Numbered /\ HeldOwned
    BY DEF IInv, SpecInv, ThreadInv, BoxInv, HealthInv
  <2>2. b # 0
    BY BoundsAssumption DEF Ids
  <2>3. b \notin Held
    BY <2>1, <2>2 DEF HeldOwned
  <2> QED BY <2>1, <2>3, OnlyHeld
<1>2. Spec => [][A]_vars
  <2> HIDE DEF A
  <2> QED BY <1>1, OrchestratorInvariant, PTL DEF Spec
<1> QED BY <1>2 DEF ForeignUntouched
=============================================================================
