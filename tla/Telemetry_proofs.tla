-------------------------- MODULE Telemetry_proofs ---------------------------
(***************************************************************************)
(* Proofs about Telemetry: the alerts, for any number of containers, slots *)
(* and web threads, and the latencies, for any times and any histogram.    *)
(***************************************************************************)
EXTENDS Telemetry, SeqFilter_proofs, FiniteSetTheorems, NaturalsInduction

Rules == [id : Ids \cup {""}, firing : BOOLEAN]
Walks == [at : {"idle", "scan", "emit"}, id : Ids \cup {""}, over : BOOLEAN,
          i : 1 .. (AlertMax + 1)]

(* No two slots hold a rule for one container. *)
Once(a) == \A s, u \in Slots : a[s].id \in Ids /\ a[s].id = a[u].id => s = u

(* A thread that walks through the table does so for a container. *)
WalksFor == \A w \in Web : web[w].at # "idle" => web[w].id \in Ids

(* The inductive invariant. *)
IInv == TypeOK /\ Once(alerts) /\ WalksFor /\ Balanced

(* Latencies: x stands for the times that a counts and for l, what was left *)
(* of a least time that was cut off.  Of a histogram that was not loaded,   *)
(* every bucket below the last is short by no more than the whole is.       *)
Figures == [count : Nat, total : Nat, max : Nat, min : Nat,
            bucket : [0 .. (Buckets - 1) -> Nat]]
Weighted(a) == [t \in 0 .. MaxTime |-> t * a[t]]
Missing(x)  == x.count - Cumulative(x.bucket, Buckets - 1)
Counted(x, a, l) ==
    /\ x \in Figures /\ a \in [0 .. MaxTime -> Nat] /\ l \in Nat
    /\ x.count = Cumulative(a, MaxTime)
    /\ x.total = Cumulative(Weighted(a), MaxTime)
    /\ IF x.count = 0 THEN x.max = 0 /\ x.min = ULongMax /\ l = ULongMax
       ELSE /\ x.min \in 0 .. MaxTime /\ x.min <= l /\ (a[x.min] > 0 \/ x.min = l)
            /\ x.max \in 0 .. MaxTime /\ a[x.max] > 0
    /\ \A t \in 0 .. MaxTime : a[t] > 0 => x.min <= t /\ t <= x.max
    /\ Missing(x) >= 0
    /\ \A b \in 0 .. (Buckets - 2) :
           Cumulative(a, b) - Cumulative(x.bucket, b) \in 0 .. Missing(x)

(* The session's figures, and the ones that the next session would load. *)
LatencyInv == Counted(m, all, least) /\ Counted(metrics_load(file), kept, least)

-----------------------------------------------------------------------------
(* Counting *)

(* The least of a set of numbers, and the greatest, if there is one. *)
LEMMA MinLeast ==
    ASSUME NEW S \in SUBSET Nat, NEW l \in S, \A k \in S : l <= k
    PROVE  Min(S) = l
<1>1. Min(S) \in S /\ \A k \in S : Min(S) <= k
  BY DEF Min
<1>2. Min(S) \in Nat /\ l \in Nat /\ Min(S) <= l /\ l <= Min(S)
  BY <1>1
<1> QED BY <1>2

(* The same of the greatest. *)
LEMMA MaxGreatest ==
    ASSUME NEW S \in SUBSET Nat, NEW l \in S, \A k \in S : k <= l
    PROVE  Max(S) = l
<1>1. Max(S) \in S /\ \A k \in S : k <= Max(S)
  BY DEF Max
<1>2. Max(S) \in Nat /\ l \in Nat /\ Max(S) <= l /\ l <= Max(S)
  BY <1>1
<1> QED BY <1>2

(* A set of numbers has a least one. *)
LEMMA MinBelow ==
    ASSUME NEW S \in SUBSET Nat, S # {}
    PROVE  Min(S) \in S /\ \A k \in S : Min(S) <= k
<1> DEFINE R == OpToRel(<, Nat)
<1>1. PICK l \in S : \A k \in S : ~(<<k, l>> \in R)
  <2>1. IsWellFoundedOn(R, Nat)
    BY NatLessThanWellFounded
  <2> HIDE DEF R
  <2> QED BY <2>1, WFMin
<1>2. \A k \in S : ~(k < l) /\ k \in Nat /\ l \in Nat
  BY <1>1 DEF OpToRel
<1>3. \A k \in S : l <= k
  BY <1>2
<1> QED BY <1>3, MinLeast

(* It is one of them. *)
LEMMA MinIn ==
    ASSUME NEW S \in SUBSET Nat, S # {}
    PROVE  Min(S) \in S
BY MinBelow

(* A container has one firing rule or none. *)
LEMMA CountFiring ==
    ASSUME NEW a \in [Slots -> Rules], Once(a), NEW id \in Ids
    PROVE  Cardinality({s \in {u \in Slots : a[u].id = id} : a[s].firing}) =
             IF \E s \in Slots : a[s].id = id /\ a[s].firing THEN 1 ELSE 0
<1> DEFINE F == {s \in {u \in Slots : a[u].id = id} : a[s].firing}
<1>1. CASE \E s \in Slots : a[s].id = id /\ a[s].firing
  <2>1. PICK s \in Slots : a[s].id = id /\ a[s].firing
    BY <1>1
  <2>2. F = {s}
    BY <2>1 DEF Once
  <2> HIDE DEF F
  <2>3. Cardinality(F) = 1
    BY <2>2, FS_Singleton
  <2> QED BY <1>1, <2>3 DEF F
<1>2. CASE ~ \E s \in Slots : a[s].id = id /\ a[s].firing
  <2>1. F = {}
    BY <1>2
  <2> HIDE DEF F
  <2>2. Cardinality(F) = 0
    BY <2>1, FS_EmptySet
  <2> QED BY <1>2, <2>2 DEF F
<1> QED BY <1>1, <1>2

(* The threads that are about to report that a rule fires or does not. *)
Telling(b, id, over) == {v \in Web : b[v].at = "emit" /\ b[v].id = id /\ b[v].over = over}

(* Threads are finitely many. *)
LEMMA TellingFinite ==
    ASSUME NEW b, NEW id, NEW over
    PROVE  IsFiniteSet(Telling(b, id, over)) /\ Cardinality(Telling(b, id, over)) \in Nat
<1>1. Telling(b, id, over) \subseteq Web
  BY DEF Telling
<1>2. IsFiniteSet(Telling(b, id, over))
  BY <1>1, WebAssumption, FS_Subset
<1> QED BY <1>2, FS_CardinalityType

(* One thread more, or one less. *)
LEMMA TellingChanges ==
    ASSUME NEW b, NEW c, NEW w \in Web, NEW id, NEW over,
           \A v \in Web : v # w => c[v] = b[v],
           b[w].at # "emit", c[w].at = "emit", c[w].id = id, c[w].over = over
    PROVE  /\ Cardinality(Telling(c, id, over)) = Cardinality(Telling(b, id, over)) + 1
           /\ \A j, o : <<j, o>> # <<id, over>> => Telling(c, j, o) = Telling(b, j, o)
<1>1. Telling(c, id, over) = Telling(b, id, over) \cup {w} /\ w \notin Telling(b, id, over)
  BY DEF Telling
<1>2. Cardinality(Telling(c, id, over)) = Cardinality(Telling(b, id, over)) + 1
  <2> DEFINE T == Telling(b, id, over)
  <2>1. IsFiniteSet(T) /\ w \notin T /\ Telling(c, id, over) = T \cup {w}
    BY <1>1, TellingFinite
  <2> HIDE DEF T
  <2>2. Cardinality(T \cup {w}) = Cardinality(T) + 1
    BY <2>1, FS_AddElement
  <2> QED BY <2>1, <2>2 DEF T
<1>3. ASSUME NEW j, NEW o, <<j, o>> # <<id, over>>
      PROVE  Telling(c, j, o) = Telling(b, j, o)
  BY <1>3 DEF Telling
<1> QED BY <1>2, <1>3

(* Pending in these terms, before and after a step. *)
LEMMA PendingIs ==
    ASSUME NEW id
    PROVE  /\ Pending(id) = Cardinality(Telling(web, id, TRUE)) - Cardinality(Telling(web, id, FALSE))
           /\ Pending(id)' =
                Cardinality(Telling(web', id, TRUE)) - Cardinality(Telling(web', id, FALSE))
           /\ Pending(id) \in Int /\ Pending(id)' \in Int
<1>1. /\ Pending(id) = Cardinality(Telling(web, id, TRUE)) - Cardinality(Telling(web, id, FALSE))
      /\ Pending(id)' =
           Cardinality(Telling(web', id, TRUE)) - Cardinality(Telling(web', id, FALSE))
  BY DEF Pending, Telling
<1> DEFINE p == Cardinality(Telling(web, id, TRUE))
           q == Cardinality(Telling(web, id, FALSE))
           u == Cardinality(Telling(web', id, TRUE))
           v == Cardinality(Telling(web', id, FALSE))
<1>2. p \in Nat /\ q \in Nat /\ u \in Nat /\ v \in Nat
  BY TellingFinite
<1> HIDE DEF p, q, u, v
<1>3. p - q \in Int /\ u - v \in Int
  BY <1>2
<1> QED BY <1>1, <1>3 DEF p, q, u, v

(* Firing in these terms, before and after a step. *)
LEMMA FiringIs ==
    ASSUME NEW id \in Ids, alerts \in [Slots -> Rules], Once(alerts)
    PROVE  Firing(id) = IF \E s \in Slots : alerts[s].id = id /\ alerts[s].firing THEN 1 ELSE 0
BY CountFiring DEF Firing, Of

(* The same of the next state. *)
LEMMA FiringIsNext ==
    ASSUME NEW id \in Ids, alerts' \in [Slots -> Rules], Once(alerts')
    PROVE  Firing(id)' = IF \E s \in Slots : alerts'[s].id = id /\ alerts'[s].firing THEN 1 ELSE 0
<1>1. Firing(id)' = Cardinality({s \in {u \in Slots : alerts'[u].id = id} : alerts'[s].firing})
  BY DEF Firing, Of
<1> QED BY <1>1, CountFiring

-----------------------------------------------------------------------------
(* The steps *)

(* The types that TypeOK gives. *)
LEMMA Types ==
    ASSUME IInv
    PROVE  /\ alerts \in [Slots -> Rules] /\ Once(alerts)
           /\ web \in [Web -> Walks] /\ net \in [Ids -> Int]
           /\ Slots \subseteq Nat
<1>1. Slots \subseteq Nat
  BY BoundsAssumption DEF Slots
<1>2. /\ alerts \in [Slots -> Rules] /\ Once(alerts)
      /\ web \in [Web -> Walks] /\ net \in [Ids -> Int]
  BY DEF IInv, TypeOK, Rules, Walks
<1> QED BY <1>1, <1>2

(* Commands and samples leave the latencies alone. *)
LEMMA QuietStep ==
    ASSUME IInv, Quiet, alerts' \in [Slots -> Rules], web' \in [Web -> Walks],
           net' \in [Ids -> Int]
    PROVE  TypeOK'
BY DEF IInv, TypeOK, Quiet, Rules, Walks

(* alert_set *)
LEMMA SetStep == ASSUME IInv, NEW id \in Ids, alert_set(id) PROVE IInv'
<1> DEFINE places == IF Of(id) # {} THEN Of(id) ELSE Of("")
           s == Min(places)
           r == [id |-> id, firing |-> FALSE]
<1>0. /\ alerts \in [Slots -> Rules] /\ Once(alerts)
      /\ web \in [Web -> Walks] /\ net \in [Ids -> Int] /\ Slots \subseteq Nat
  BY Types
<1>1. /\ places # {} /\ alerts' = [alerts EXCEPT ![s] = r]
      /\ net' = [net EXCEPT ![id] = net[id] - Firing(id)] /\ web' = web /\ Quiet
  BY <1>0 DEF alert_set, Quiet
<1>2. places \subseteq Slots /\ (\A u \in Slots : alerts[u].id = id => u \in places)
      /\ (\A u \in places : alerts[u].id \in {id, ""})
  BY DEF Of
<1>3. (\E u \in places : alerts[u].id = id) \/ (\A u \in Slots : alerts[u].id # id)
  BY <1>1 DEF Of
<1> HIDE DEF places
<1>4. s \in places
  BY <1>0, <1>1, <1>2, MinIn
<1> HIDE DEF s
<1>5. \A u \in Slots : alerts[u].id = id => u = s
  <2>1. CASE \E u \in places : alerts[u].id = id
    <3>1. \A v \in Slots : alerts[v].id = id => v \in places
      BY <1>2
    <3>2. \A v \in places : alerts[v].id = id
      BY <2>1 DEF places, Of
    <3> QED BY <1>0, <1>2, <1>4, <3>2 DEF Once
  <2>2. CASE \A u \in Slots : alerts[u].id # id
    BY <2>2
  <2> QED BY <1>3, <2>1, <2>2
<1>6. /\ s \in Slots /\ r \in Rules /\ r.id = id /\ r.firing = FALSE
  BY <1>2, <1>4 DEF Rules
<1> HIDE DEF r
<1>7. /\ alerts' \in [Slots -> Rules] /\ alerts'[s] = r
      /\ \A u \in Slots : u # s => alerts'[u] = alerts[u]
  BY <1>0, <1>1, <1>6
<1>8. Once(alerts')
  BY <1>0, <1>5, <1>6, <1>7 DEF Once
<1>9. Firing(id) \in Int
  BY <1>0, FiringIs
<1>10. net' \in [Ids -> Int]
  BY <1>0, <1>1, <1>9
<1>11. TypeOK'
  BY <1>0, <1>1, <1>7, <1>10, QuietStep
<1>12. WalksFor'
  BY <1>1 DEF IInv, WalksFor
<1>13. Balanced'
  <2> SUFFICES ASSUME NEW j \in Ids PROVE net'[j] + Pending(j)' = Firing(j)'
    BY DEF Balanced
  <2>1. Pending(j)' = Pending(j) /\ Pending(j) \in Int
    BY <1>1, PendingIs
  <2>2. net[j] + Pending(j) = Firing(j) /\ net[j] \in Int
    BY <1>0 DEF IInv, Balanced
  <2>3. CASE j = id
    <3>1. Firing(j)' = 0
      BY <1>5, <1>6, <1>7, <1>8, <2>3, FiringIsNext
    <3>2. net'[j] = net[j] - Firing(j)
      BY <1>0, <1>1, <2>3
    <3> QED BY <1>9, <2>1, <2>2, <2>3, <3>1, <3>2
  <2>4. CASE j # id
    <3>1. net'[j] = net[j]
      BY <1>0, <1>1, <2>4
    <3>2. alerts[s].id # j /\ alerts'[s].id # j
      BY <1>2, <1>4, <1>6, <1>7, <2>4, IdsAssumption
    <3>3. (\E u \in Slots : alerts'[u].id = j /\ alerts'[u].firing) <=>
          (\E u \in Slots : alerts[u].id = j /\ alerts[u].firing)
      BY <1>7, <3>2
    <3>4. Firing(j)' = Firing(j)
      BY <1>0, <1>7, <1>8, <3>3, FiringIs, FiringIsNext
    <3> QED BY <2>1, <2>2, <3>1, <3>4
  <2> QED BY <2>3, <2>4
<1> QED BY <1>8, <1>11, <1>12, <1>13 DEF IInv

(* alert_clear *)
LEMMA ClearStep == ASSUME IInv, NEW id \in Ids, alert_clear(id) PROVE IInv'
<1>0. /\ alerts \in [Slots -> Rules] /\ Once(alerts)
      /\ web \in [Web -> Walks] /\ net \in [Ids -> Int]
  BY Types
<1>1. /\ alerts' = [s \in Slots |-> IF s \in Of(id) THEN Free ELSE alerts[s]]
      /\ net' = [net EXCEPT ![id] = net[id] - Firing(id)] /\ web' = web /\ Quiet
  BY <1>0 DEF alert_clear, Quiet
<1>2. Free \in Rules /\ Free.id = "" /\ Free.firing = FALSE
  BY DEF Free, Rules
<1>3. /\ alerts' \in [Slots -> Rules]
      /\ \A s \in Slots : alerts'[s] = IF alerts[s].id = id THEN Free ELSE alerts[s]
  BY <1>0, <1>1, <1>2 DEF Of
<1>4. Once(alerts')
  BY <1>0, <1>2, <1>3, IdsAssumption DEF Once
<1>5. Firing(id) \in Int
  BY <1>0, FiringIs
<1>6. net' \in [Ids -> Int]
  BY <1>0, <1>1, <1>5
<1>7. TypeOK' /\ WalksFor'
  BY <1>0, <1>1, <1>3, <1>6, QuietStep DEF IInv, WalksFor
<1>8. Balanced'
  <2> SUFFICES ASSUME NEW j \in Ids PROVE net'[j] + Pending(j)' = Firing(j)'
    BY DEF Balanced
  <2>1. Pending(j)' = Pending(j) /\ Pending(j) \in Int
    BY <1>1, PendingIs
  <2>2. net[j] + Pending(j) = Firing(j) /\ net[j] \in Int
    BY <1>0 DEF IInv, Balanced
  <2>3. CASE j = id
    <3>1. \A s \in Slots : alerts'[s].id # j
      BY <1>2, <1>3, <2>3, IdsAssumption
    <3>2. Firing(j)' = 0
      BY <1>3, <1>4, <3>1, FiringIsNext
    <3>3. net'[j] = net[j] - Firing(j)
      BY <1>0, <1>1, <2>3
    <3> QED BY <1>5, <2>1, <2>2, <2>3, <3>2, <3>3
  <2>4. CASE j # id
    <3>1. net'[j] = net[j]
      BY <1>0, <1>1, <2>4
    <3>2. (\E u \in Slots : alerts'[u].id = j /\ alerts'[u].firing) <=>
          (\E u \in Slots : alerts[u].id = j /\ alerts[u].firing)
      BY <1>2, <1>3, <2>4, IdsAssumption
    <3>3. Firing(j)' = Firing(j)
      BY <1>0, <1>3, <1>4, <3>2, FiringIs, FiringIsNext
    <3> QED BY <2>1, <2>2, <3>1, <3>3
  <2> QED BY <2>3, <2>4
<1> QED BY <1>4, <1>7, <1>8 DEF IInv

(* A step that leaves the rules alone. *)
LEMMA RulesAlone ==
    ASSUME IInv, Quiet, alerts' = alerts, web' \in [Web -> Walks], net' \in [Ids -> Int],
           WalksFor', \A j \in Ids : net'[j] + Pending(j)' = net[j] + Pending(j)
    PROVE  IInv'
<1>0. alerts \in [Slots -> Rules] /\ Once(alerts)
  BY Types
<1>1. TypeOK' /\ Once(alerts')
  BY <1>0, QuietStep
<1>2. \A j \in Ids : Firing(j)' = Firing(j)
  BY DEF Firing, Of
<1>3. Balanced'
  BY <1>2 DEF IInv, Balanced
<1> QED BY <1>1, <1>3 DEF IInv

(* A walk begins. *)
LEMMA SampleStep ==
    ASSUME IInv, NEW w \in Web, NEW id \in Ids, NEW over \in BOOLEAN, Sample(w, id, over)
    PROVE  IInv'
<1> DEFINE r == [at |-> "scan", id |-> id, over |-> over, i |-> 1]
<1>0. web \in [Web -> Walks] /\ net \in [Ids -> Int]
  BY Types
<1>1. /\ web[w].at = "idle" /\ web' = [web EXCEPT ![w] = r]
      /\ alerts' = alerts /\ net' = net /\ Quiet
  BY DEF Sample
<1>2. r \in Walks /\ r.at = "scan" /\ r.id = id
  <2>1. 1 \in 1 .. (AlertMax + 1)
    BY BoundsAssumption
  <2> QED BY <2>1 DEF Walks
<1> HIDE DEF r
<1>3. web' \in [Web -> Walks] /\ web'[w] = r /\ \A v \in Web : v # w => web'[v] = web[v]
  BY <1>0, <1>1, <1>2
<1>4. WalksFor'
  BY <1>2, <1>3 DEF IInv, WalksFor
<1>5. \A j, o : Telling(web', j, o) = Telling(web, j, o)
  BY <1>1, <1>2, <1>3 DEF Telling
<1>6. \A j \in Ids : Pending(j)' = Pending(j)
  BY <1>5, PendingIs
<1> QED BY <1>0, <1>1, <1>3, <1>4, <1>6, RulesAlone

(* A walk ends. *)
LEMMA DoneStep == ASSUME IInv, NEW w \in Web, Done(w) PROVE IInv'
<1>0. web \in [Web -> Walks] /\ net \in [Ids -> Int]
  BY Types
<1>1. /\ web[w].at = "scan" /\ web' = [web EXCEPT ![w] = Idle]
      /\ alerts' = alerts /\ net' = net /\ Quiet
  BY DEF Done
<1>2. Idle \in Walks /\ Idle.at = "idle"
  BY BoundsAssumption DEF Walks, Idle
<1>3. web' \in [Web -> Walks] /\ web'[w] = Idle /\ \A v \in Web : v # w => web'[v] = web[v]
  BY <1>0, <1>1, <1>2
<1>4. WalksFor'
  BY <1>2, <1>3 DEF IInv, WalksFor
<1>5. \A j, o : Telling(web', j, o) = Telling(web, j, o)
  BY <1>1, <1>2, <1>3 DEF Telling
<1>6. \A j \in Ids : Pending(j)' = Pending(j)
  BY <1>5, PendingIs
<1> QED BY <1>0, <1>1, <1>3, <1>4, <1>6, RulesAlone

(* A change is reported. *)
LEMMA EmitStep == ASSUME IInv, NEW w \in Web, Emit(w) PROVE IInv'
<1> DEFINE id == web[w].id
           over == web[w].over
<1>0. web \in [Web -> Walks] /\ net \in [Ids -> Int]
  BY Types
<1>1. /\ web[w].at = "emit" /\ web' = [web EXCEPT ![w].at = "scan"]
      /\ net' = [net EXCEPT ![id] = IF over THEN net[id] + 1 ELSE net[id] - 1]
      /\ alerts' = alerts /\ Quiet
  BY <1>0 DEF Emit
<1>2. id \in Ids /\ over \in BOOLEAN
  BY <1>0, <1>1 DEF IInv, WalksFor, Walks
<1>3. /\ web' \in [Web -> Walks] /\ web'[w].at = "scan" /\ web'[w].id = id
      /\ \A v \in Web : v # w => web'[v] = web[v]
  BY <1>0, <1>1 DEF Walks
<1>4. PICK i0, o0 : i0 = id /\ o0 = over
  OBVIOUS
<1> HIDE DEF id, over
<1>5. net' \in [Ids -> Int]
  BY <1>0, <1>1, <1>2
<1>6. WalksFor'
  BY <1>2, <1>3 DEF IInv, WalksFor
<1>7. /\ Cardinality(Telling(web, i0, o0)) = Cardinality(Telling(web', i0, o0)) + 1
      /\ \A j, o : <<j, o>> # <<i0, o0>> => Telling(web, j, o) = Telling(web', j, o)
  <2>1. /\ \A v \in Web : v # w => web[v] = web'[v]
        /\ web'[w].at # "emit" /\ web[w].at = "emit" /\ web[w].id = i0 /\ web[w].over = o0
    BY <1>1, <1>3, <1>4 DEF id, over
  <2>2. PICK b, c : b = web' /\ c = web
    OBVIOUS
  <2>3. /\ \A v \in Web : v # w => c[v] = b[v]
        /\ b[w].at # "emit" /\ c[w].at = "emit" /\ c[w].id = i0 /\ c[w].over = o0
    BY <2>1, <2>2
  <2>4. /\ Cardinality(Telling(c, i0, o0)) = Cardinality(Telling(b, i0, o0)) + 1
        /\ \A j, o : <<j, o>> # <<i0, o0>> => Telling(c, j, o) = Telling(b, j, o)
    BY <2>3, TellingChanges
  <2> QED BY <2>2, <2>4
<1>8. ASSUME NEW j \in Ids PROVE net'[j] + Pending(j)' = net[j] + Pending(j)
  <2> DEFINE p == Cardinality(Telling(web, j, TRUE))
             q == Cardinality(Telling(web, j, FALSE))
             u == Cardinality(Telling(web', j, TRUE))
             v == Cardinality(Telling(web', j, FALSE))
  <2>1. p \in Nat /\ q \in Nat /\ u \in Nat /\ v \in Nat
    BY TellingFinite
  <2>2. Pending(j) = p - q /\ Pending(j)' = u - v
    BY PendingIs
  <2>3. j # i0 => p = u /\ q = v
    BY <1>7
  <2>4. j = i0 /\ o0 = TRUE => p = u + 1 /\ q = v
    BY <1>7
  <2>5. j = i0 /\ o0 = FALSE => p = u /\ q = v + 1
    BY <1>7
  <2>6. net[j] \in Int /\ net'[j] = IF j = i0 THEN (IF o0 THEN net[j] + 1 ELSE net[j] - 1) ELSE net[j]
    BY <1>0, <1>1, <1>2, <1>4
  <2>7. o0 \in BOOLEAN
    BY <1>2, <1>4
  <2> HIDE DEF p, q, u, v
  <2>8. CASE j # i0
    BY <2>1, <2>2, <2>3, <2>6, <2>8
  <2>9. CASE j = i0 /\ o0 = TRUE
    BY <2>1, <2>2, <2>4, <2>6, <2>9
  <2>10. CASE j = i0 /\ o0 = FALSE
    BY <2>1, <2>2, <2>5, <2>6, <2>10
  <2> QED BY <2>7, <2>8, <2>9, <2>10
<1> QED BY <1>1, <1>3, <1>5, <1>6, <1>8, RulesAlone

(* A rule changes its state under the mutex, and its report is pending. *)
LEMMA CrossStep == ASSUME IInv, NEW w \in Web, Cross(w) PROVE IInv'
<1> DEFINE id == web[w].id
           over == web[w].over
           s == Min(Crossing(w))
<1>0. /\ alerts \in [Slots -> Rules] /\ Once(alerts)
      /\ web \in [Web -> Walks] /\ net \in [Ids -> Int] /\ Slots \subseteq Nat
  BY Types
<1>1. /\ web[w].at = "scan" /\ Crossing(w) # {}
      /\ alerts' = [alerts EXCEPT ![s].firing = over]
      /\ web' = [web EXCEPT ![w].at = "emit", ![w].i = s + 1]
      /\ net' = net /\ Quiet
  BY DEF Cross
<1>2. s \in Crossing(w)
  <2>1. Crossing(w) \subseteq Nat
    BY <1>0 DEF Crossing
  <2> QED BY <1>1, <2>1, MinIn
<1>3. s \in Slots /\ alerts[s].id = id /\ alerts[s].firing # over
  BY <1>2 DEF Crossing
<1>4. id \in Ids /\ over \in BOOLEAN
  BY <1>0, <1>1 DEF IInv, WalksFor, Walks
<1>5. s + 1 \in 1 .. (AlertMax + 1)
  <2> HIDE DEF s
  <2> QED BY <1>3, BoundsAssumption DEF Slots
<1>6. PICK i0, o0, s0 : i0 = id /\ o0 = over /\ s0 = s
  OBVIOUS
<1>7. web' = [web EXCEPT ![w].at = "emit", ![w].i = s0 + 1] /\ s0 + 1 \in 1 .. (AlertMax + 1)
  BY <1>1, <1>5, <1>6
<1>8. /\ web' \in [Web -> Walks] /\ web'[w].at = "emit" /\ web'[w].id = i0 /\ web'[w].over = o0
      /\ \A v \in Web : v # w => web'[v] = web[v]
  BY <1>0, <1>6, <1>7 DEF Walks
<1>9. alerts' = [alerts EXCEPT ![s0].firing = o0] /\ s0 \in Slots /\ alerts[s0].id = i0
      /\ alerts[s0].firing # o0 /\ i0 \in Ids /\ o0 \in BOOLEAN
  BY <1>1, <1>3, <1>4, <1>6
<1> HIDE DEF id, over, s
<1>10. /\ alerts' \in [Slots -> Rules] /\ alerts'[s0].id = i0 /\ alerts'[s0].firing = o0
       /\ \A u \in Slots : u # s0 => alerts'[u] = alerts[u]
  BY <1>0, <1>9 DEF Rules
<1>11. Once(alerts')
  BY <1>0, <1>9, <1>10 DEF Once
<1>12. TypeOK'
  BY <1>0, <1>1, <1>8, <1>10, QuietStep
<1>13. WalksFor'
  BY <1>8, <1>9 DEF IInv, WalksFor
<1>14. /\ Cardinality(Telling(web', i0, o0)) = Cardinality(Telling(web, i0, o0)) + 1
       /\ \A j, o : <<j, o>> # <<i0, o0>> => Telling(web', j, o) = Telling(web, j, o)
  <2>1. web[w].at # "emit"
    BY <1>1
  <2> QED BY <1>8, <2>1, TellingChanges
<1>15. Balanced'
  <2> SUFFICES ASSUME NEW j \in Ids PROVE net'[j] + Pending(j)' = Firing(j)'
    BY DEF Balanced
  <2> DEFINE p == Cardinality(Telling(web, j, TRUE))
             q == Cardinality(Telling(web, j, FALSE))
             u == Cardinality(Telling(web', j, TRUE))
             v == Cardinality(Telling(web', j, FALSE))
  <2>1. p \in Nat /\ q \in Nat /\ u \in Nat /\ v \in Nat
    BY TellingFinite
  <2>2. Pending(j) = p - q /\ Pending(j)' = u - v
    BY PendingIs
  <2>3. net[j] + Pending(j) = Firing(j) /\ net[j] \in Int /\ net'[j] = net[j]
    BY <1>0, <1>1 DEF IInv, Balanced
  <2>4. Firing(j) = IF \E t \in Slots : alerts[t].id = j /\ alerts[t].firing THEN 1 ELSE 0
    BY <1>0, FiringIs
  <2>5. Firing(j)' = IF \E t \in Slots : alerts'[t].id = j /\ alerts'[t].firing THEN 1 ELSE 0
    BY <1>10, <1>11, FiringIsNext
  <2>6. CASE j # i0
    <3>1. p = u /\ q = v
      BY <1>14, <2>6
    <3>2. (\E t \in Slots : alerts'[t].id = j /\ alerts'[t].firing) <=>
          (\E t \in Slots : alerts[t].id = j /\ alerts[t].firing)
      BY <1>9, <1>10, <2>6
    <3>3. Firing(j)' = Firing(j)
      BY <2>4, <2>5, <3>2
    <3> HIDE DEF p, q, u, v
    <3> QED BY <2>2, <2>3, <3>1, <3>3
  <2>7. CASE j = i0 /\ o0 = TRUE
    <3>1. u = p + 1 /\ v = q
      BY <1>14, <2>7
    <3>2. Firing(j) = 0
      <4>1. ~ \E t \in Slots : alerts[t].id = j /\ alerts[t].firing
        BY <1>0, <1>9, <2>7 DEF Once
      <4> QED BY <2>4, <4>1
    <3>3. Firing(j)' = 1
      BY <1>9, <1>10, <2>5, <2>7
    <3> HIDE DEF p, q, u, v
    <3> QED BY <2>1, <2>2, <2>3, <3>1, <3>2, <3>3
  <2>8. CASE j = i0 /\ o0 = FALSE
    <3>1. u = p /\ v = q + 1
      BY <1>14, <2>8
    <3>2. alerts[s0].firing = TRUE
      BY <1>0, <1>9, <2>8 DEF Rules
    <3>3. Firing(j) = 1
      BY <1>9, <2>4, <2>8, <3>2
    <3>4. Firing(j)' = 0
      <4>1. ~ \E t \in Slots : alerts'[t].id = j /\ alerts'[t].firing
        BY <1>9, <1>10, <1>11, <2>8 DEF Once
      <4> QED BY <2>5, <4>1
    <3> HIDE DEF p, q, u, v
    <3> QED BY <2>1, <2>2, <2>3, <3>1, <3>3, <3>4
  <2> QED BY <1>9, <2>6, <2>7, <2>8
<1> QED BY <1>11, <1>12, <1>13, <1>15 DEF IInv

(* A start-up time is recorded. *)
LEMMA RecordStep == ASSUME IInv, NEW t \in Times, metrics_record_startup_ms(t) PROVE IInv'
<1>1. /\ m' = Recorded(m, t) /\ all' = [all EXCEPT ![t] = all[t] + 1]
      /\ UNCHANGED <<alerts, web, net, file, kept>>
  BY DEF metrics_record_startup_ms, IInv, TypeOK
<1>2. all' \in [0 .. MaxTime -> Nat]
  <2>1. all \in [0 .. MaxTime -> Nat]
    BY DEF IInv, TypeOK
  <2>2. t \in 0 .. MaxTime
    BY TimesAssumption DEF metrics_record_startup_ms
  <2>3. all[t] + 1 \in Nat
    BY <2>1, <2>2
  <2> QED BY <1>1, <2>1, <2>3
<1>3. m'.bucket \in [0 .. (Buckets - 1) -> Nat]
  <2> DEFINE k == IF t < Buckets THEN t ELSE Buckets - 1
             x == m.bucket
  <2>1. x \in [0 .. (Buckets - 1) -> Nat]
    BY DEF IInv, TypeOK
  <2>2. k \in 0 .. (Buckets - 1)
    BY BoundsAssumption, TimesAssumption
  <2>3. m'.bucket = [x EXCEPT ![k] = @ + 1]
    BY <1>1 DEF Recorded
  <2> HIDE DEF k, x
  <2> QED BY <2>1, <2>2, <2>3
<1>4. TypeOK'
  BY <1>1, <1>2, <1>3 DEF IInv, TypeOK
<1>5. Once(alerts') /\ WalksFor' /\ Balanced'
  BY <1>1 DEF IInv, Once, WalksFor, Balanced, Pending, Firing, Of
<1> QED BY <1>4, <1>5 DEF IInv

(* No rule is set and no thread at work. *)
Blank ==
    /\ alerts = [s \in Slots |-> Free] /\ web = [w \in Web |-> Idle] /\ net = [i \in Ids |-> 0]
    /\ m.bucket \in [0 .. (Buckets - 1) -> Nat]
    /\ all \in [0 .. MaxTime -> Nat] /\ kept \in [0 .. MaxTime -> Nat]

(* Then everything balances. *)
LEMMA BlankBalances == Blank => IInv
<1> SUFFICES ASSUME Blank PROVE IInv
  OBVIOUS
<1> USE DEF Blank
<1>1. Free \in Rules /\ Free.id = "" /\ Free.firing = FALSE /\ Idle.at = "idle" /\ Idle \in Walks
  <2>1. 1 \in 1 .. (AlertMax + 1)
    BY BoundsAssumption
  <2> QED BY <2>1 DEF Free, Rules, Idle, Walks
<1>2. alerts \in [Slots -> Rules] /\ web \in [Web -> Walks]
  BY <1>1
<1>7. net \in [Ids -> Int]
  OBVIOUS
<1>3. TypeOK
  BY <1>2, <1>7 DEF TypeOK, Rules, Walks
<1>4. Once(alerts)
  BY <1>1, IdsAssumption DEF Once
<1>5. WalksFor
  BY <1>1 DEF WalksFor
<1>6. Balanced
  <2> SUFFICES ASSUME NEW j \in Ids PROVE net[j] + Pending(j) = Firing(j)
    BY DEF Balanced
  <2>1. Firing(j) = 0
    BY <1>1, <1>2, <1>4, FiringIs
  <2>2. Telling(web, j, TRUE) = {} /\ Telling(web, j, FALSE) = {}
    BY <1>1 DEF Telling
  <2>3. Pending(j) = 0
    <3>1. Cardinality({}) = 0
      BY FS_EmptySet
    <3>2. Pending(j) = Cardinality(Telling(web, j, TRUE)) - Cardinality(Telling(web, j, FALSE))
      BY PendingIs
    <3>3. Pending(j) = 0 - 0
      BY <2>2, <3>1, <3>2
    <3> QED BY <3>3
  <2> QED BY <2>1, <2>3
<1> QED BY <1>3, <1>4, <1>5, <1>6 DEF IInv

(* The histogram of a start is empty, whatever metrics_load reads. *)
LEMMA StartStep ==
    ASSUME IInv, NEW lines, NEW times \in [0 .. MaxTime -> Nat], NEW left,
           StartUp(lines, times, left)
    PROVE  IInv'
<1>1. NoTime \in [0 .. MaxTime -> Nat] /\ Fresh.bucket \in [0 .. (Buckets - 1) -> Nat]
  BY DEF NoTime, Fresh
<1>2. all' \in [0 .. MaxTime -> Nat] /\ kept' \in [0 .. MaxTime -> Nat]
  BY <1>1 DEF StartUp
<1>3. m'.bucket = Fresh.bucket
  <2>1. m' = metrics_load(file')
    BY DEF StartUp
  <2>2. \E x : x.bucket = Fresh.bucket /\ metrics_load(file') = normalize_startup_metrics(x)
    BY DEF metrics_load
  <2>3. PICK x : x.bucket = Fresh.bucket /\ m' = normalize_startup_metrics(x)
    BY <2>1, <2>2
  <2>4. m' \in {Fresh, x}
    BY <2>3 DEF normalize_startup_metrics
  <2> QED BY <2>3, <2>4
<1>4. Blank'
  BY <1>1, <1>2, <1>3 DEF StartUp, Blank
<1>5. (Blank => IInv)'
  BY BlankBalances, PTL
<1> QED BY <1>4, <1>5

-----------------------------------------------------------------------------
(* The theorems *)

(* The invariant holds always. *)
LEMMA AlertInvariant == Spec => []IInv
<1>1. Init => IInv
  <2> SUFFICES ASSUME Init PROVE IInv
    OBVIOUS
  <2>1. m.bucket \in [0 .. (Buckets - 1) -> Nat] /\ all \in [0 .. MaxTime -> Nat] /\ kept \in [0 .. MaxTime -> Nat]
    BY DEF Init, Fresh, NoTime
  <2> QED BY <2>1, BlankBalances DEF Init, Blank
<1>2. ASSUME IInv, Next PROVE IInv'
  <2>1. ASSUME NEW n \in 0 .. 4, NEW d \in Tens, Exit(n, d) PROVE IInv'
    <3>1. (IF n = 4 THEN all ELSE NoTime) \in [0 .. MaxTime -> Nat]
      BY <1>2 DEF IInv, TypeOK, NoTime
    <3> QED BY <1>2, <2>1, <3>1, StartStep DEF Exit
  <2>2. ASSUME Crash PROVE IInv'
    <3>1. kept \in [0 .. MaxTime -> Nat]
      BY <1>2 DEF IInv, TypeOK
    <3> QED BY <1>2, <2>2, <3>1, StartStep DEF Crash
  <2> QED BY <1>2, <2>1, <2>2, SetStep, ClearStep, SampleStep, CrossStep, EmitStep, DoneStep,
             RecordStep DEF Next
<1>3. ASSUME IInv, UNCHANGED vars PROVE IInv'
  BY <1>3 DEF vars, IInv, TypeOK, Once, WalksFor, Balanced, Pending, Firing, Of
<1> QED BY <1>1, <1>2, <1>3, PTL DEF Spec

(* However alert_set and alert_clear are used, a container has one rule at  *)
(* most.                                                                    *)
THEOREM RulesAreUnique == Spec => []OneRule
<1>1. IInv => OneRule
  <2> SUFFICES ASSUME IInv, NEW id \in Ids PROVE Cardinality(Of(id)) <= 1
    BY DEF OneRule, IInv
  <2>1. Of(id) = {} \/ \E s \in Slots : Of(id) = {s}
    BY DEF Of, IInv, Once
  <2>2. CASE Of(id) = {}
    BY <2>2, FS_EmptySet
  <2>3. ASSUME NEW s \in Slots, Of(id) = {s} PROVE Cardinality(Of(id)) <= 1
    <3>1. Cardinality({s}) = 1
      BY FS_Singleton
    <3> QED BY <2>3, <3>1
  <2> QED BY <2>1, <2>2, <2>3
<1> QED BY <1>1, AlertInvariant, PTL

(* alert_check_sample, in any number of threads that release the mutex to   *)
(* report, reports every change of a rule once.                             *)
THEOREM ReportsBalance == Spec => []Balanced
<1>1. IInv => Balanced
  BY DEF IInv
<1> QED BY <1>1, AlertInvariant, PTL

-----------------------------------------------------------------------------
(* Sums *)

(* The loop that adds up has a result after every round. *)
LEMMA SumRounds ==
    ASSUME NEW f, NEW n \in Nat
    PROVE  \E s : /\ Cumulative(f, n) = s[n]
                  /\ s[0] = f[0]
                  /\ \A k \in 1 .. n : s[k] = s[k - 1] + f[k]
<1> DEFINE Body(s, D) == [k \in D |-> IF k = 0 THEN f[0] ELSE s[k - 1] + f[k]]
           Q == {j \in Nat : \E s : s = Body(s, 0 .. j)}
<1>1. 0 \in Q
  <2> DEFINE s == [k \in 0 .. 0 |-> f[0]]
  <2>1. s = Body(s, 0 .. 0)
    OBVIOUS
  <2> QED BY <2>1
<1>2. ASSUME NEW j \in 0 .. (n - 1), j \in Q PROVE j + 1 \in Q
  <2>1. PICK s : s = Body(s, 0 .. j)
    BY <1>2
  <2> DEFINE g == [k \in 0 .. (j + 1) |-> IF k = j + 1 THEN s[j] + f[j + 1] ELSE s[k]]
  <2>2. \A k \in 0 .. j : s[k] = IF k = 0 THEN f[0] ELSE s[k - 1] + f[k]
    BY <2>1
  <2>3. j \in Nat
    OBVIOUS
  <2>4. g = Body(g, 0 .. (j + 1))
    <3>1. ASSUME NEW k \in 0 .. (j + 1)
          PROVE  g[k] = IF k = 0 THEN f[0] ELSE g[k - 1] + f[k]
      <4>1. CASE k = j + 1
        <5>1. g[k] = s[j] + f[j + 1] /\ k - 1 = j /\ k # 0 /\ g[j] = s[j]
          BY <2>3, <4>1
        <5> QED BY <4>1, <5>1
      <4>2. CASE k # j + 1
        <5>1. k \in 0 .. j /\ g[k] = s[k] /\ (k # 0 => g[k - 1] = s[k - 1])
          BY <2>3, <4>2
        <5> QED BY <2>2, <5>1
      <4> QED BY <4>1, <4>2
    <3> HIDE DEF g
    <3>2. \A k \in 0 .. (j + 1) : g[k] = Body(g, 0 .. (j + 1))[k]
      BY <3>1
    <3>3. g = [k \in 0 .. (j + 1) |-> g[k]]
      BY DEF g
    <3> QED BY <3>1, <3>3
  <2> HIDE DEF g
  <2> QED BY <2>3, <2>4
<1>3. \E s : s = Body(s, 0 .. n)
  <2> HIDE DEF Q
  <2>1. n \in 0 .. n
    OBVIOUS
  <2>2. n \in Q
    BY <1>1, <1>2, <2>1, UpTo
  <2> QED BY <2>2 DEF Q
<1> DEFINE sum == CHOOSE s : s = Body(s, 0 .. n)
<1>4. sum = Body(sum, 0 .. n)
  BY <1>3
<1>5. Cumulative(f, n) = sum[n]
  BY DEF Cumulative
<1> HIDE DEF sum
<1>6. \A k \in 0 .. n : sum[k] = IF k = 0 THEN f[0] ELSE sum[k - 1] + f[k]
  BY <1>4
<1>7. sum[0] = f[0] /\ \A k \in 1 .. n : sum[k] = sum[k - 1] + f[k]
  BY <1>6
<1> QED BY <1>5, <1>7

(* What adds up in the same way is the sum. *)
LEMMA SumIs ==
    ASSUME NEW f, NEW n \in Nat, NEW s, s[0] = f[0],
           \A k \in 1 .. n : s[k] = s[k - 1] + f[k]
    PROVE  Cumulative(f, n) = s[n]
<1>1. PICK r : /\ Cumulative(f, n) = r[n] /\ r[0] = f[0]
               /\ \A k \in 1 .. n : r[k] = r[k - 1] + f[k]
  BY SumRounds
<1> DEFINE Q == {k \in 0 .. n : r[k] = s[k]}
<1>2. 0 \in Q
  BY <1>1
<1>3. ASSUME NEW k \in 0 .. (n - 1), k \in Q PROVE k + 1 \in Q
  <2>1. k + 1 \in 1 .. n /\ (k + 1) - 1 = k /\ k + 1 \in 0 .. n /\ r[k] = s[k]
    BY <1>3
  <2>2. r[k + 1] = r[k] + f[k + 1] /\ s[k + 1] = s[k] + f[k + 1]
    BY <1>1, <2>1
  <2> QED BY <2>1, <2>2
<1> HIDE DEF Q
<1>4. n \in Q
  <2>1. n \in 0 .. n
    OBVIOUS
  <2> QED BY <1>2, <1>3, <2>1, UpTo
<1> QED BY <1>1, <1>4 DEF Q

(* The sum, one summand at a time. *)
LEMMA SumStep ==
    ASSUME NEW f
    PROVE  /\ Cumulative(f, 0) = f[0]
           /\ \A n \in Nat : Cumulative(f, n + 1) = Cumulative(f, n) + f[n + 1]
<1>1. Cumulative(f, 0) = f[0]
  BY SumRounds
<1>2. ASSUME NEW n \in Nat PROVE Cumulative(f, n + 1) = Cumulative(f, n) + f[n + 1]
  <2>1. n + 1 \in Nat /\ (n + 1) - 1 = n /\ n + 1 \in 1 .. (n + 1)
        /\ \A k \in 1 .. n : k \in 1 .. (n + 1)
    OBVIOUS
  <2>2. PICK s : /\ Cumulative(f, n + 1) = s[n + 1] /\ s[0] = f[0]
                 /\ \A k \in 1 .. (n + 1) : s[k] = s[k - 1] + f[k]
    BY <2>1, SumRounds
  <2>3. Cumulative(f, n) = s[n]
    BY <2>1, <2>2, SumIs
  <2>4. s[n + 1] = s[n] + f[n + 1]
    BY <2>1, <2>2
  <2> QED BY <2>2, <2>3, <2>4
<1> QED BY <1>1, <1>2

(* A sum of numbers is a number, and no less than its last summand. *)
LEMMA SumNat ==
    ASSUME NEW f, NEW n \in Nat, \A k \in 0 .. n : f[k] \in Nat
    PROVE  \A k \in 0 .. n : Cumulative(f, k) \in Nat /\ f[k] <= Cumulative(f, k)
<1> DEFINE Q == {k \in 0 .. n : Cumulative(f, k) \in Nat /\ f[k] <= Cumulative(f, k)}
<1>1. 0 \in Q
  BY SumStep
<1>2. ASSUME NEW k \in 0 .. (n - 1), k \in Q PROVE k + 1 \in Q
  <2>1. k \in Nat /\ k + 1 \in 0 .. n
    OBVIOUS
  <2>2. Cumulative(f, k + 1) = Cumulative(f, k) + f[k + 1]
    BY <2>1, SumStep
  <2>3. Cumulative(f, k) \in Nat /\ f[k + 1] \in Nat
    BY <1>2, <2>1
  <2> QED BY <2>1, <2>2, <2>3
<1> HIDE DEF Q
<1>3. \A k \in 0 .. n : k \in Q
  BY <1>1, <1>2, UpTo
<1> QED BY <1>3 DEF Q

(* More summands, a greater sum. *)
LEMMA SumGrows ==
    ASSUME NEW f, NEW n \in Nat, \A k \in 0 .. n : f[k] \in Nat, NEW j \in 0 .. n
    PROVE  Cumulative(f, j) <= Cumulative(f, n) /\ f[j] <= Cumulative(f, n)
<1>0. \A k \in 0 .. n : Cumulative(f, k) \in Nat /\ f[k] <= Cumulative(f, k)
  BY SumNat
<1> DEFINE Q == {k \in 0 .. n : j <= k => Cumulative(f, j) <= Cumulative(f, k)}
<1>1. 0 \in Q
  <2>1. j <= 0 => j = 0
    OBVIOUS
  <2>2. 0 \in 0 .. n /\ Cumulative(f, 0) <= Cumulative(f, 0)
    BY <1>0
  <2> QED BY <2>1, <2>2
<1>2. ASSUME NEW k \in 0 .. (n - 1), k \in Q PROVE k + 1 \in Q
  <2>1. k \in Nat /\ k + 1 \in 0 .. n /\ k \in 0 .. n
    OBVIOUS
  <2>2. Cumulative(f, k + 1) = Cumulative(f, k) + f[k + 1]
    BY <2>1, SumStep
  <2>3. Cumulative(f, k) \in Nat /\ f[k + 1] \in Nat /\ Cumulative(f, k + 1) \in Nat
    BY <1>0, <2>1
  <2>4. CASE j = k + 1
    BY <2>1, <2>3, <2>4
  <2>5. CASE j <= k
    <3>1. Cumulative(f, j) <= Cumulative(f, k) /\ Cumulative(f, j) \in Nat
      BY <1>0, <1>2, <2>5
    <3> QED BY <2>1, <2>2, <2>3, <3>1
  <2>6. CASE j > k + 1
    BY <2>1, <2>6
  <2> QED BY <2>1, <2>4, <2>5, <2>6
<1> HIDE DEF Q
<1>3. n \in Q
  <2>1. n \in 0 .. n
    OBVIOUS
  <2> QED BY <1>1, <1>2, <2>1, UpTo
<1>4. Cumulative(f, j) <= Cumulative(f, n)
  BY <1>3 DEF Q
<1>5. Cumulative(f, j) \in Nat /\ Cumulative(f, n) \in Nat /\ f[j] <= Cumulative(f, j)
  BY <1>0
<1> QED BY <1>4, <1>5

(* Of n summands the one at t grows by d. *)
Grown(f, g, n, t, d) ==
    /\ n \in Nat /\ t \in 0 .. n /\ d \in Nat
    /\ \A k \in 0 .. n : f[k] \in Nat
    /\ \A k \in 0 .. n : g[k] = IF k = t THEN f[k] + d ELSE f[k]

(* So do the sums from there on. *)
LEMMA SumAdds ==
    ASSUME NEW f, NEW g, NEW n, NEW t, NEW d, Grown(f, g, n, t, d)
    PROVE  \A k \in 0 .. n : Cumulative(g, k) = Cumulative(f, k) + (IF t <= k THEN d ELSE 0)
<1> USE DEF Grown
<1>0. \A k \in 0 .. n : Cumulative(f, k) \in Nat
  BY SumNat
<1> DEFINE Q == {k \in 0 .. n : Cumulative(g, k) = Cumulative(f, k) + (IF t <= k THEN d ELSE 0)}
<1>1. 0 \in Q
  <2>1. Cumulative(g, 0) = g[0] /\ Cumulative(f, 0) = f[0]
    BY SumStep
  <2>2. 0 \in 0 .. n /\ (t <= 0 <=> t = 0)
    OBVIOUS
  <2>3. g[0] = f[0] + (IF t <= 0 THEN d ELSE 0)
    <3>1. f[0] \in Nat /\ g[0] = IF 0 = t THEN f[0] + d ELSE f[0]
      BY <2>2
    <3> QED BY <2>2, <3>1
  <2> QED BY <2>1, <2>2, <2>3
<1>2. ASSUME NEW k \in 0 .. (n - 1), k \in Q PROVE k + 1 \in Q
  <2>1. k \in Nat /\ k + 1 \in 0 .. n /\ k \in 0 .. n
    OBVIOUS
  <2>2. /\ Cumulative(f, k + 1) = Cumulative(f, k) + f[k + 1]
        /\ Cumulative(g, k + 1) = Cumulative(g, k) + g[k + 1]
    BY <2>1, SumStep
  <2>3. Cumulative(f, k) \in Nat /\ f[k + 1] \in Nat
    BY <1>0, <2>1
  <2>4. Cumulative(g, k) = Cumulative(f, k) + (IF t <= k THEN d ELSE 0)
    BY <1>2
  <2>5. g[k + 1] = IF k + 1 = t THEN f[k + 1] + d ELSE f[k + 1]
    BY <2>1
  <2>6. Cumulative(g, k + 1) = Cumulative(f, k + 1) + (IF t <= k + 1 THEN d ELSE 0)
    BY <2>1, <2>2, <2>3, <2>4, <2>5
  <2> QED BY <2>1, <2>6
<1> HIDE DEF Q
<1>3. \A k \in 0 .. n : k \in Q
  BY <1>1, <1>2, UpTo
<1> QED BY <1>3 DEF Q

(* Nothing adds up to nothing. *)
LEMMA SumZero ==
    ASSUME NEW f, NEW n \in Nat, \A k \in 0 .. n : f[k] = 0
    PROVE  \A k \in 0 .. n : Cumulative(f, k) = 0
<1> DEFINE Q == {k \in 0 .. n : Cumulative(f, k) = 0}
<1>1. 0 \in Q
  BY SumStep
<1>2. ASSUME NEW k \in 0 .. (n - 1), k \in Q PROVE k + 1 \in Q
  <2>1. k \in Nat /\ k + 1 \in 0 .. n
    OBVIOUS
  <2>2. Cumulative(f, k + 1) = Cumulative(f, k) + f[k + 1]
    BY <2>1, SumStep
  <2> QED BY <1>2, <2>1, <2>2
<1> HIDE DEF Q
<1>3. \A k \in 0 .. n : k \in Q
  BY <1>1, <1>2, UpTo
<1> QED BY <1>3 DEF Q

(* Products, for the solver. *)
LEMMA ProductGrows ==
    ASSUME NEW i \in Nat, NEW j \in Nat, NEW k \in Nat, i <= j
    PROVE  i * k \in Nat /\ j * k \in Nat /\ i * k <= j * k
OBVIOUS

(* The sum of the times is at most the longest one for each of them. *)
LEMMA SumWeighted ==
    ASSUME NEW a \in [0 .. MaxTime -> Nat]
    PROVE  \A k \in 0 .. MaxTime : Cumulative(Weighted(a), k) <= MaxTime * Cumulative(a, k)
<1> USE TimesAssumption
<1> DEFINE w == Weighted(a)
           Q == {k \in 0 .. MaxTime : Cumulative(w, k) <= MaxTime * Cumulative(a, k)}
<1>0. \A k \in 0 .. MaxTime : w[k] \in Nat /\ a[k] \in Nat /\ w[k] <= MaxTime * a[k]
                              /\ MaxTime * a[k] \in Nat
  <2> TAKE k \in 0 .. MaxTime
  <2>1. w[k] = k * a[k] /\ a[k] \in Nat /\ k \in Nat /\ k <= MaxTime /\ MaxTime \in Nat
    BY DEF Weighted
  <2>2. k * a[k] \in Nat /\ MaxTime * a[k] \in Nat /\ k * a[k] <= MaxTime * a[k]
    BY ONLY <2>1, ProductGrows
  <2> QED BY <2>1, <2>2
<1> HIDE DEF w
<1>3. \A k \in 0 .. MaxTime : Cumulative(w, k) \in Nat /\ Cumulative(a, k) \in Nat
  BY <1>0, SumNat
<1>1. 0 \in Q
  <2>1. Cumulative(w, 0) = w[0] /\ Cumulative(a, 0) = a[0]
    BY ONLY SumStep
  <2>2. 0 \in 0 .. MaxTime
    OBVIOUS
  <2> QED BY <1>0, <2>1, <2>2
<1>2. ASSUME NEW k \in 0 .. (MaxTime - 1), k \in Q PROVE k + 1 \in Q
  <2>1. k \in Nat /\ k + 1 \in 0 .. MaxTime /\ k \in 0 .. MaxTime
    OBVIOUS
  <2>2. /\ Cumulative(w, k + 1) = Cumulative(w, k) + w[k + 1]
        /\ Cumulative(a, k + 1) = Cumulative(a, k) + a[k + 1]
    BY <2>1, SumStep
  <2> DEFINE c == Cumulative(a, k)
             u == Cumulative(w, k)
  <2>3. c \in Nat /\ u \in Nat /\ a[k + 1] \in Nat /\ w[k + 1] \in Nat
        /\ w[k + 1] <= MaxTime * a[k + 1]
    BY <1>0, <1>3, <2>1
  <2>4. u <= MaxTime * c
    BY <1>2
  <2> HIDE DEF c, u
  <2>5. MaxTime * (c + a[k + 1]) = MaxTime * c + MaxTime * a[k + 1]
    BY <2>3
  <2>6. MaxTime * c \in Nat /\ MaxTime * a[k + 1] \in Nat
    BY <2>3
  <2>7. u + w[k + 1] <= MaxTime * (c + a[k + 1])
    BY <2>3, <2>4, <2>5, <2>6
  <2> QED BY <2>1, <2>2, <2>7 DEF c, u
<1> HIDE DEF Q
<1>4. \A k \in 0 .. MaxTime : k \in Q
  BY <1>1, <1>2, UpTo
<1> QED BY <1>4 DEF Q, w

-----------------------------------------------------------------------------
(* Latencies *)

(* The figures of the bucket, of a and of the weights are numbers. *)
LEMMA Summands ==
    ASSUME NEW x \in Figures, NEW a \in [0 .. MaxTime -> Nat]
    PROVE  /\ Buckets - 1 \in Nat /\ MaxTime \in Nat /\ Buckets - 1 < MaxTime
           /\ \A k \in 0 .. (Buckets - 1) : x.bucket[k] \in Nat /\ Cumulative(x.bucket, k) \in Nat
           /\ \A k \in 0 .. MaxTime : a[k] \in Nat /\ Cumulative(a, k) \in Nat
           /\ \A k \in 0 .. MaxTime : Weighted(a)[k] = k * a[k] /\ Weighted(a)[k] \in Nat
           /\ Cumulative(Weighted(a), MaxTime) \in Nat
<1>1. Buckets - 1 \in Nat /\ MaxTime \in Nat /\ Buckets - 1 < MaxTime
  BY BoundsAssumption, TimesAssumption
<1>2. \A k \in 0 .. (Buckets - 1) : x.bucket[k] \in Nat
  BY DEF Figures
<1>3. \A k \in 0 .. (Buckets - 1) : Cumulative(x.bucket, k) \in Nat
  BY <1>1, <1>2, SumNat
<1>4. \A k \in 0 .. MaxTime : a[k] \in Nat
  OBVIOUS
<1>5. \A k \in 0 .. MaxTime : Cumulative(a, k) \in Nat
  BY <1>1, <1>4, SumNat
<1>6. \A k \in 0 .. MaxTime : Weighted(a)[k] = k * a[k] /\ Weighted(a)[k] \in Nat
  <2> TAKE k \in 0 .. MaxTime
  <2>1. Weighted(a)[k] = k * a[k] /\ a[k] \in Nat /\ k \in Nat
    BY <1>1 DEF Weighted
  <2> QED BY <2>1
<1>7. Cumulative(Weighted(a), MaxTime) \in Nat
  <2>1. MaxTime \in 0 .. MaxTime
    BY <1>1
  <2> QED BY <1>1, <1>6, <2>1, SumNat
<1> QED BY <1>1, <1>2, <1>3, <1>4, <1>5, <1>6, <1>7

(* Nothing has been recorded. *)
LEMMA FreshCounts == Counted(Fresh, NoTime, ULongMax)
<1>1. Fresh \in Figures /\ NoTime \in [0 .. MaxTime -> Nat]
  BY TimesAssumption DEF Fresh, Figures, NoTime
<1>2. Buckets - 1 \in Nat /\ MaxTime \in Nat
  BY <1>1, Summands
<1>3. /\ \A k \in 0 .. (Buckets - 1) : Fresh.bucket[k] = 0
      /\ \A k \in 0 .. MaxTime : NoTime[k] = 0 /\ Weighted(NoTime)[k] = 0
  BY <1>2 DEF Fresh, NoTime, Weighted
<1>4. /\ \A k \in 0 .. (Buckets - 1) : Cumulative(Fresh.bucket, k) = 0
      /\ \A k \in 0 .. MaxTime : Cumulative(NoTime, k) = 0
      /\ \A k \in 0 .. MaxTime : Cumulative(Weighted(NoTime), k) = 0
  BY <1>2, <1>3, SumZero
<1>5. Fresh.count = 0 /\ Fresh.total = 0 /\ Fresh.max = 0 /\ Fresh.min = ULongMax
  BY DEF Fresh
<1>6. /\ Cumulative(NoTime, MaxTime) = 0 /\ Cumulative(Weighted(NoTime), MaxTime) = 0
      /\ Missing(Fresh) = 0
  BY <1>2, <1>4, <1>5 DEF Missing
<1>7. \A b \in 0 .. (Buckets - 2) :
          Cumulative(NoTime, b) - Cumulative(Fresh.bucket, b) \in 0 .. Missing(Fresh)
  <2> TAKE b \in 0 .. (Buckets - 2)
  <2>1. b \in 0 .. (Buckets - 1) /\ b \in 0 .. MaxTime
    BY <1>2, BoundsAssumption, TimesAssumption
  <2>2. Cumulative(NoTime, b) = 0 /\ Cumulative(Fresh.bucket, b) = 0
    BY <1>4, <2>1
  <2> QED BY <1>6, <2>2
<1> QED BY <1>1, <1>3, <1>5, <1>6, <1>7, TimesAssumption DEF Counted

(* Where nothing is counted, nothing has been recorded. *)
LEMMA NoneCounted ==
    ASSUME NEW x, NEW a, NEW l, Counted(x, a, l), x.count = 0
    PROVE  a = NoTime /\ l = ULongMax
<1>1. x \in Figures /\ a \in [0 .. MaxTime -> Nat] /\ Cumulative(a, MaxTime) = 0
  BY DEF Counted
<1>2. MaxTime \in Nat /\ \A k \in 0 .. MaxTime : a[k] \in Nat
  BY <1>1, Summands
<1>3. \A k \in 0 .. MaxTime : a[k] = 0
  <2> TAKE k \in 0 .. MaxTime
  <2>1. a[k] <= Cumulative(a, MaxTime)
    BY <1>2, SumGrows
  <2> QED BY <1>1, <1>2, <2>1
<1>4. l = ULongMax
  BY DEF Counted
<1> QED BY <1>1, <1>3, <1>4 DEF NoTime

(* metrics_record_startup_ms counts one time more: it is in the bucket that *)
(* stands for it, so what the histogram lacks stays the same.               *)
LEMMA RecordedCounts ==
    ASSUME NEW x, NEW a, NEW l, Counted(x, a, l), NEW t \in 0 .. MaxTime
    PROVE  Counted(Recorded(x, t), [a EXCEPT ![t] = @ + 1], l)
<1> DEFINE y == Recorded(x, t)
           c == [a EXCEPT ![t] = @ + 1]
           j == IF t < Buckets THEN t ELSE Buckets - 1
           B == Buckets - 1
<1>1. x \in Figures /\ a \in [0 .. MaxTime -> Nat]
  BY DEF Counted
<1>2. /\ B \in Nat /\ MaxTime \in Nat /\ B < MaxTime /\ t \in Nat /\ t <= MaxTime
      /\ \A k \in 0 .. B : x.bucket[k] \in Nat /\ Cumulative(x.bucket, k) \in Nat
      /\ \A k \in 0 .. MaxTime : a[k] \in Nat /\ Cumulative(a, k) \in Nat
      /\ \A k \in 0 .. MaxTime : Weighted(a)[k] = k * a[k] /\ Weighted(a)[k] \in Nat
      /\ Cumulative(Weighted(a), MaxTime) \in Nat
  <2>1. t \in Nat /\ t <= MaxTime
    BY TimesAssumption
  <2> QED BY <1>1, <2>1, Summands
<1>3. j \in 0 .. B
  BY <1>2, BoundsAssumption
<1>4. /\ y.count = x.count + 1 /\ y.total = x.total + t
      /\ y.max = (IF t > x.max THEN t ELSE x.max) /\ y.min = (IF t < x.min THEN t ELSE x.min)
      /\ y.bucket = [x.bucket EXCEPT ![j] = @ + 1]
      /\ y = [count |-> y.count, total |-> y.total, max |-> y.max, min |-> y.min, bucket |-> y.bucket]
  BY DEF Recorded
<1>5. x.count \in Nat /\ x.total \in Nat /\ x.max \in Nat /\ x.min \in Nat
      /\ x.bucket \in [0 .. B -> Nat]
  BY <1>1 DEF Figures
<1> HIDE DEF y, j
<1>6. y \in Figures
  <2>1. x.bucket[j] + 1 \in Nat
    <3>1. x.bucket[j] \in Nat
      BY <1>2, <1>3
    <3> QED BY <3>1
  <2>2. y.bucket \in [0 .. B -> Nat]
    BY <1>3, <1>4, <1>5, <2>1
  <2>3. y.count \in Nat /\ y.total \in Nat /\ y.max \in Nat /\ y.min \in Nat
    BY SMTT(30), <1>2, <1>4, <1>5
  <2> QED BY <1>4, <2>2, <2>3 DEF Figures
<1>7. c \in [0 .. MaxTime -> Nat] /\ \A k \in 0 .. MaxTime : c[k] = IF k = t THEN a[k] + 1 ELSE a[k]
  <2>1. a[t] + 1 \in Nat
    BY <1>2
  <2> QED BY <1>1, <2>1
<1> HIDE DEF c
<1>8. \A k \in 0 .. MaxTime : Cumulative(c, k) = Cumulative(a, k) + (IF t <= k THEN 1 ELSE 0)
  <2> DEFINE d == 1
  <2>1. Grown(a, c, MaxTime, t, d)
    BY <1>2, <1>7 DEF Grown
  <2> HIDE DEF d
  <2>2. \A k \in 0 .. MaxTime : Cumulative(c, k) = Cumulative(a, k) + (IF t <= k THEN d ELSE 0)
    BY ONLY <2>1, SumAdds
  <2> QED BY <2>2 DEF d
<1>9. \A k \in 0 .. B :
          Cumulative(y.bucket, k) = Cumulative(x.bucket, k) + (IF j <= k THEN 1 ELSE 0)
  <2>1. \A k \in 0 .. B : y.bucket[k] = IF k = j THEN x.bucket[k] + 1 ELSE x.bucket[k]
    BY <1>3, <1>4, <1>5
  <2> DEFINE d == 1
             e == x.bucket
             f == y.bucket
  <2>2. Grown(e, f, B, j, d)
    BY <1>2, <1>3, <2>1 DEF Grown
  <2> HIDE DEF d, e, f, B
  <2>3. \A k \in 0 .. B : Cumulative(f, k) = Cumulative(e, k) + (IF j <= k THEN d ELSE 0)
    BY ONLY <2>2, SumAdds
  <2> QED BY <2>3 DEF d, e, f
<1>10. y.count = Cumulative(c, MaxTime)
  <2>1. MaxTime \in 0 .. MaxTime /\ t <= MaxTime
    BY <1>2
  <2>2. x.count = Cumulative(a, MaxTime)
    BY DEF Counted
  <2> QED BY <1>4, <1>8, <2>1, <2>2
<1>11. y.total = Cumulative(Weighted(c), MaxTime)
  <2>1. \A k \in 0 .. MaxTime :
            Weighted(c)[k] = IF k = t THEN Weighted(a)[k] + t ELSE Weighted(a)[k]
    <3> TAKE k \in 0 .. MaxTime
    <3>1. Weighted(c)[k] = k * c[k] /\ Weighted(a)[k] = k * a[k] /\ a[k] \in Nat
      BY <1>2 DEF Weighted
    <3>2. CASE k = t
      <4>1. t * (a[t] + 1) = t * a[t] + t
        BY <1>2
      <4> QED BY <1>7, <3>1, <3>2, <4>1
    <3>3. CASE k # t
      BY <1>7, <3>1, <3>3
    <3> QED BY <3>2, <3>3
  <2>2. \A k \in 0 .. MaxTime :
            Cumulative(Weighted(c), k) = Cumulative(Weighted(a), k) + (IF t <= k THEN t ELSE 0)
    <3> DEFINE u == Weighted(a)
               v == Weighted(c)
    <3>1. Grown(u, v, MaxTime, t, t)
      BY <1>2, <2>1 DEF Grown
    <3> HIDE DEF u, v
    <3>2. \A k \in 0 .. MaxTime : Cumulative(v, k) = Cumulative(u, k) + (IF t <= k THEN t ELSE 0)
      BY ONLY <3>1, SumAdds
    <3> QED BY <3>2 DEF u, v
  <2>3. MaxTime \in 0 .. MaxTime /\ t <= MaxTime
    BY <1>2
  <2>4. x.total = Cumulative(Weighted(a), MaxTime)
    BY DEF Counted
  <2> QED BY <1>4, <2>2, <2>3, <2>4
<1>12. /\ y.count # 0
       /\ y.min \in 0 .. MaxTime /\ y.min <= l /\ (c[y.min] > 0 \/ y.min = l)
       /\ y.max \in 0 .. MaxTime /\ c[y.max] > 0
  <2>1. \A k \in 0 .. MaxTime : c[k] > 0 <=> a[k] > 0 \/ k = t
    BY SMTT(30), <1>2, <1>7
  <2>2. y.count # 0
    BY <1>4, <1>5
  <2>3. y.min = t \/ (x.count # 0 /\ y.min = x.min)
    <3>1. x.count = 0 => x.min = ULongMax
      BY DEF Counted
    <3> QED BY <1>2, <1>4, <3>1, TimesAssumption
  <2>4. y.max = t \/ (x.count # 0 /\ y.max = x.max)
    <3>1. x.count = 0 => x.max = 0
      BY DEF Counted
    <3> QED BY <1>2, <1>4, <3>1
  <2>5. x.count # 0 => /\ x.min \in 0 .. MaxTime /\ x.min <= l
                       /\ a[x.min] > 0 \/ x.min = l
                       /\ x.max \in 0 .. MaxTime /\ a[x.max] > 0
    BY DEF Counted
  <2>6. y.min <= l
    <3>1. x.min <= l /\ l \in Nat
      BY <1>5 DEF Counted
    <3> QED BY <1>2, <1>4, <1>5, <3>1
  <2> QED BY <2>1, <2>2, <2>3, <2>4, <2>5, <2>6
<1>13. \A k \in 0 .. MaxTime : c[k] > 0 => y.min <= k /\ k <= y.max
  <2> SUFFICES ASSUME NEW k \in 0 .. MaxTime, c[k] > 0 PROVE y.min <= k /\ k <= y.max
    OBVIOUS
  <2>1. k = t \/ (x.min <= k /\ k <= x.max)
    <3>1. a[k] > 0 => x.min <= k /\ k <= x.max
      BY DEF Counted
    <3> QED BY <1>2, <1>7, <3>1
  <2>2. k \in Nat
    BY <1>2
  <2> QED BY <1>2, <1>4, <1>5, <2>1, <2>2
<1>14. Missing(y) = Missing(x) /\ Missing(x) >= 0
  <2>1. B \in 0 .. B /\ j <= B
    BY <1>2, <1>3
  <2>2. Cumulative(y.bucket, B) = Cumulative(x.bucket, B) + 1 /\ Cumulative(x.bucket, B) \in Nat
    BY <1>2, <1>9, <2>1
  <2>3. Missing(x) >= 0
    BY DEF Counted
  <2> QED BY <1>4, <1>5, <2>2, <2>3 DEF Missing
<1>15. ASSUME NEW b \in 0 .. (Buckets - 2)
       PROVE  Cumulative(c, b) - Cumulative(y.bucket, b) \in 0 .. Missing(y)
  <2>1. b \in 0 .. B /\ b \in 0 .. MaxTime /\ b \in Nat /\ b < B
    BY <1>2, BoundsAssumption
  <2>2. t <= b <=> j <= b
    BY <1>2, <2>1, BoundsAssumption DEF j
  <2>3. Cumulative(a, b) - Cumulative(x.bucket, b) \in 0 .. Missing(x)
    BY <1>15 DEF Counted
  <2>4. Cumulative(a, b) \in Nat /\ Cumulative(x.bucket, b) \in Nat
    BY <1>2, <2>1
  <2>5. /\ Cumulative(c, b) = Cumulative(a, b) + (IF t <= b THEN 1 ELSE 0)
        /\ Cumulative(y.bucket, b) = Cumulative(x.bucket, b) + (IF j <= b THEN 1 ELSE 0)
    BY <1>8, <1>9, <2>1
  <2>6. Cumulative(c, b) - Cumulative(y.bucket, b) = Cumulative(a, b) - Cumulative(x.bucket, b)
    BY <2>2, <2>4, <2>5
  <2> QED BY <1>14, <2>3, <2>6
<1>16. Counted(y, c, l)
  <2>1. IF y.count = 0 THEN y.max = 0 /\ y.min = ULongMax /\ l = ULongMax
        ELSE /\ y.min \in 0 .. MaxTime /\ y.min <= l /\ (c[y.min] > 0 \/ y.min = l)
             /\ y.max \in 0 .. MaxTime /\ c[y.max] > 0
    BY <1>12
  <2>2. Missing(y) >= 0
    BY <1>14
  <2>3. l \in Nat
    BY DEF Counted
  <2> QED BY <1>6, <1>7, <1>10, <1>11, <1>13, <1>15, <2>1, <2>2, <2>3 DEF Counted
<1> QED BY <1>16 DEF y, c

(* What was recorded passes normalize_startup_metrics, but for a count of 0; *)
(* without the histogram it still counts, and so it does with what is left  *)
(* of the least time.                                                       *)
LEMMA CutCounts ==
    ASSUME NEW x, NEW a, NEW l, Counted(x, a, l), x.count # 0,
           NEW v \in Nat, v <= x.min, NEW k \in Nat, k = v \/ (v = x.min /\ k = l),
           NEW y, y = [count |-> x.count, total |-> x.total, max |-> x.max, min |-> v,
                       bucket |-> Fresh.bucket]
    PROVE  normalize_startup_metrics(y) = y /\ Counted(y, a, k)
<1> DEFINE B == Buckets - 1
<1>1. x \in Figures /\ a \in [0 .. MaxTime -> Nat]
  BY DEF Counted
<1>2. /\ x.count \in Nat /\ x.total \in Nat /\ x.max \in Nat /\ x.min \in Nat
      /\ y.count = x.count /\ y.total = x.total /\ y.max = x.max /\ y.min = v
      /\ y.bucket = Fresh.bucket
  BY <1>1 DEF Figures
<1>3. Fresh.bucket \in [0 .. B -> Nat] /\ \A i \in 0 .. B : Fresh.bucket[i] = 0
  BY DEF Fresh
<1>4. y \in Figures
  BY <1>2, <1>3 DEF Figures
<1>5. /\ B \in Nat /\ MaxTime \in Nat /\ B < MaxTime
      /\ \A i \in 0 .. MaxTime : a[i] \in Nat /\ Cumulative(a, i) \in Nat
      /\ \A i \in 0 .. MaxTime : Weighted(a)[i] = i * a[i] /\ Weighted(a)[i] \in Nat
  BY <1>1, Summands
<1>6. /\ x.min \in 0 .. MaxTime /\ x.min <= l /\ (a[x.min] > 0 \/ x.min = l) /\ x.max \in 0 .. MaxTime /\ a[x.max] > 0
      /\ x.count = Cumulative(a, MaxTime) /\ x.total = Cumulative(Weighted(a), MaxTime)
      /\ \A t \in 0 .. MaxTime : a[t] > 0 => x.min <= t /\ t <= x.max
  BY DEF Counted
<1>7. v # ULongMax /\ v <= x.max /\ v \in 0 .. MaxTime
  BY <1>2, <1>5, <1>6, TimesAssumption
<1>8. x.max <= x.total
  <2>1. Weighted(a)[x.max] <= x.total
    <3> DEFINE w == Weighted(a)
    <3>1. MaxTime \in Nat /\ (\A i \in 0 .. MaxTime : w[i] \in Nat) /\ x.max \in 0 .. MaxTime
          /\ x.total = Cumulative(w, MaxTime)
      BY <1>5, <1>6
    <3> HIDE DEF w
    <3>2. w[x.max] <= x.total
      BY <3>1, SumGrows
    <3> QED BY <3>2 DEF w
  <2>2. 1 <= a[x.max] /\ a[x.max] \in Nat
    BY <1>5, <1>6
  <2> DEFINE n == a[x.max]
  <2>3. n \in Nat /\ 1 <= n /\ Weighted(a)[x.max] = x.max * n
    BY <1>5, <1>6, <2>2
  <2> HIDE DEF n
  <2>4. 1 * x.max <= n * x.max /\ n * x.max = x.max * n /\ 1 * x.max = x.max /\ n * x.max \in Nat
    BY <1>2, <2>3, ProductGrows
  <2> QED BY <1>2, <2>1, <2>3, <2>4
<1>9. x.total \div x.count <= MaxTime
  <2>1. x.total <= MaxTime * x.count
    <3>1. MaxTime \in 0 .. MaxTime
      BY <1>5
    <3> QED BY <1>1, <1>6, <3>1, SumWeighted
  <2> DEFINE p == x.total
             c == x.count
             q == p \div c
  <2>2. p \in Nat /\ c \in Nat \ {0} /\ MaxTime \in Nat /\ p <= MaxTime * c
    BY <1>2, <1>5, <2>1
  <2>3. q \in Nat /\ q * c <= p
    <3> HIDE DEF p, c
    <3> QED BY <2>2
  <2> HIDE DEF p, c, q
  <2>4. q <= MaxTime
    <3> SUFFICES ASSUME MaxTime + 1 <= q PROVE FALSE
      BY <2>2, <2>3
    <3>1. (MaxTime + 1) * c <= q * c /\ q * c \in Nat
      BY <2>2, <2>3, ProductGrows
    <3>2. (MaxTime + 1) * c = MaxTime * c + c /\ MaxTime * c \in Nat
      BY <2>2
    <3> QED BY <2>2, <2>3, <3>1, <3>2
  <2> QED BY <2>4 DEF p, c, q
<1>10. normalize_startup_metrics(y) = y
  <2>1. ~(y.min > y.max) /\ ~(y.total < y.max)
    BY <1>2, <1>7, <1>8
  <2>2. ~(y.total \div y.count > MaxTime)
    <3> DEFINE q == x.total \div x.count
    <3>1. q \in Int /\ q <= MaxTime /\ MaxTime \in Nat
      BY <1>2, <1>5, <1>9
    <3> HIDE DEF q
    <3>2. ~(q > MaxTime)
      BY <3>1
    <3> QED BY <1>2, <3>2 DEF q
  <2> QED BY <1>2, <1>7, <2>1, <2>2 DEF normalize_startup_metrics
<1>11. \A i \in 0 .. B : Cumulative(y.bucket, i) = 0
  BY <1>2, <1>3, <1>5, SumZero
<1>12. Missing(y) = x.count
  <2>1. B \in 0 .. B
    BY <1>5
  <2> QED BY <1>2, <1>11, <2>1 DEF Missing
<1>13. ASSUME NEW b \in 0 .. (Buckets - 2)
       PROVE  Cumulative(a, b) - Cumulative(y.bucket, b) \in 0 .. Missing(y)
  <2>1. b \in 0 .. B /\ b \in 0 .. MaxTime
    BY <1>5, BoundsAssumption
  <2>2. Cumulative(y.bucket, b) = 0 /\ Cumulative(a, b) \in Nat
    BY <1>5, <1>11, <2>1
  <2>3. Cumulative(a, b) <= Cumulative(a, MaxTime)
    BY <1>5, <2>1, SumGrows
  <2> QED BY <1>2, <1>6, <1>12, <2>2, <2>3
<1>14. Missing(y) >= 0 /\ y.count # 0
  BY <1>2, <1>12
<1>15. Counted(y, a, k)
  <2> HIDE DEF B
  <2>1. IF y.count = 0 THEN y.max = 0 /\ y.min = ULongMax /\ k = ULongMax
        ELSE /\ y.min \in 0 .. MaxTime /\ y.min <= k /\ (a[y.min] > 0 \/ y.min = k)
             /\ y.max \in 0 .. MaxTime /\ a[y.max] > 0
    BY <1>2, <1>6, <1>7, <1>14
  <2>2. /\ y.count = Cumulative(a, MaxTime) /\ y.total = Cumulative(Weighted(a), MaxTime)
        /\ \A t \in 0 .. MaxTime : a[t] > 0 => y.min <= t /\ t <= y.max
    BY <1>2, <1>5, <1>6
  <2> QED BY <1>1, <1>4, <1>13, <1>14, <2>1, <2>2 DEF Counted
<1> QED BY <1>10, <1>15

(* A number without its last digits is no greater. *)
LEMMA DigitsOff ==
    ASSUME NEW v \in Nat, NEW d \in Tens
    PROVE  v \div d \in Nat /\ v \div d <= v /\ (d = 1 => v \div d = v)
<1> DEFINE q == v \div d
<1>1. d \in Nat /\ d >= 1
  BY TensAssumption
<1>2. q \in Nat /\ q * d <= v /\ v < q * d + d
  BY <1>1
<1> HIDE DEF q
<1>3. 1 * q <= d * q /\ 1 * q = q /\ d * q = q * d /\ q * d \in Nat
  BY <1>1, <1>2, ProductGrows
<1>4. d = 1 => q = v
  BY <1>1, <1>2
<1> QED BY <1>2, <1>3, <1>4 DEF q

(* The lines of a file that the disk had room for. *)
LEMMA LinesAre ==
    ASSUME NEW lines, NEW n \in Nat, NEW d
    PROVE  ToSet(Written(lines, n, d)) =
             {IF i = n THEN <<lines[i][1], lines[i][2] \div d>> ELSE lines[i] : i \in 1 .. n}
<1> DEFINE s == Written(lines, n, d)
<1>1. /\ DOMAIN s = 1 .. n
      /\ \A i \in 1 .. n : s[i] = IF i = n THEN <<lines[i][1], lines[i][2] \div d>> ELSE lines[i]
  BY DEF Written
<1> HIDE DEF s
<1>2. ToSet(s) = {s[i] : i \in 1 .. n}
  BY <1>1 DEF ToSet
<1> QED BY <1>1, <1>2 DEF s

(* The value that is read for k, and what metrics_load makes of them. *)
Val(S, k) == IF \E l \in S : l[1] = k THEN (CHOOSE l \in S : l[1] = k)[2] ELSE Fresh[k]
Read(S)   == [count |-> Val(S, "count"), total |-> Val(S, "total"), max |-> Val(S, "max"),
              min |-> Val(S, "min"), bucket |-> Fresh.bucket]

(* metrics_load in these terms. *)
LEMMA LoadIs ==
    ASSUME NEW lines
    PROVE  metrics_load(lines) = normalize_startup_metrics(Read(ToSet(lines)))
BY DEF metrics_load, Read, Val

(* Without the line for the least time, the last one, the file counts for   *)
(* nothing.                                                                 *)
LEMMA CutOff ==
    ASSUME NEW lines, \A l \in ToSet(lines) : l[1] # "min"
    PROVE  metrics_load(lines) = Fresh
<1> DEFINE S == ToSet(lines)
           y == Read(S)
<1>1. Val(S, "min") = ULongMax
  BY DEF Val, Fresh
<1>2. y.min = ULongMax
  BY <1>1 DEF Read
<1> HIDE DEF S, y
<1>3. normalize_startup_metrics(y) = Fresh
  BY <1>2 DEF normalize_startup_metrics
<1> QED BY <1>3, LoadIs DEF S, y

(* exit, and the next start: a whole file stands for the times recorded,    *)
(* and one that was cut off for none.                                       *)
LEMMA SavedCounts ==
    ASSUME NEW x, NEW a, NEW l, Counted(x, a, l), NEW n \in 0 .. 4, NEW d \in Tens
    PROVE  Counted(metrics_load(Written(metrics_save(x), n, d)), IF n = 4 THEN a ELSE NoTime,
                   IF n = 4 /\ (x.count = 0 \/ d = 1) THEN l
                   ELSE IF n = 4 THEN x.min \div d ELSE ULongMax)
<1> DEFINE s == metrics_save(x)
           lines == Written(s, n, d)
           S == ToSet(lines)
           v == x.min \div d
           Line(i) == IF i = n THEN <<s[i][1], s[i][2] \div d>> ELSE s[i]
<1>0. S = {Line(i) : i \in 1 .. n}
  BY LinesAre
<1>a. /\ s[1] = <<"count", x.count>> /\ s[2] = <<"total", x.total>>
      /\ s[3] = <<"max", x.max>> /\ s[4] = <<"min", x.min>>
  BY DEF metrics_save
<1> HIDE DEF s
<1>1. CASE n # 4
  <2>1. \A i \in 1 .. n : Line(i)[1] # "min"
    <3>1. \A i \in 1 .. n : i = 1 \/ i = 2 \/ i = 3
      BY <1>1
    <3>2. \A i \in 1 .. n : Line(i)[1] = s[i][1]
      OBVIOUS
    <3> QED BY <1>a, <3>1, <3>2
  <2>2. \A z \in S : z[1] # "min"
    BY <1>0, <2>1
  <2>3. metrics_load(lines) = Fresh
    BY <2>2, CutOff
  <2> QED BY <1>1, <2>3, FreshCounts DEF s
<1>2. CASE n = 4
  <2>1. S = {<<"count", x.count>>, <<"total", x.total>>, <<"max", x.max>>, <<"min", v>>}
    <3>1. 1 .. n = {1, 2, 3, 4}
      BY <1>2
    <3>2. Line(1) = s[1] /\ Line(2) = s[2] /\ Line(3) = s[3] /\ Line(4) = <<"min", v>>
      BY <1>2, <1>a
    <3> HIDE DEF Line
    <3> QED BY <1>0, <1>a, <3>1, <3>2
  <2> HIDE DEF S, v
  <2>2. /\ Val(S, "count") = x.count /\ Val(S, "total") = x.total
        /\ Val(S, "max") = x.max /\ Val(S, "min") = v
    <3> DEFINE c == <<"count", x.count>>
               t == <<"total", x.total>>
               g == <<"max", x.max>>
               e == <<"min", v>>
    <3>1. /\ c[1] = "count" /\ t[1] = "total" /\ g[1] = "max" /\ e[1] = "min"
          /\ c[2] = x.count /\ t[2] = x.total /\ g[2] = x.max /\ e[2] = v
          /\ S = {c, t, g, e}
      BY <2>1
    <3> HIDE DEF c, t, g, e
    <3>2. Val(S, "count") = c[2]
      <4>1. c \in S /\ c[1] = "count" /\ \A z \in S : z[1] = "count" => z = c
        BY <3>1
      <4>2. (CHOOSE z \in S : z[1] = "count") = c
        BY <4>1
      <4> QED BY <4>1, <4>2 DEF Val
    <3>3. Val(S, "total") = t[2]
      <4>1. t \in S /\ t[1] = "total" /\ \A z \in S : z[1] = "total" => z = t
        BY <3>1
      <4>2. (CHOOSE z \in S : z[1] = "total") = t
        BY <4>1
      <4> QED BY <4>1, <4>2 DEF Val
    <3>4. Val(S, "max") = g[2]
      <4>1. g \in S /\ g[1] = "max" /\ \A z \in S : z[1] = "max" => z = g
        BY <3>1
      <4>2. (CHOOSE z \in S : z[1] = "max") = g
        BY <4>1
      <4> QED BY <4>1, <4>2 DEF Val
    <3>5. Val(S, "min") = e[2]
      <4>1. e \in S /\ e[1] = "min" /\ \A z \in S : z[1] = "min" => z = e
        BY <3>1
      <4>2. (CHOOSE z \in S : z[1] = "min") = e
        BY <4>1
      <4> QED BY <4>1, <4>2 DEF Val
    <3> QED BY <3>1, <3>2, <3>3, <3>4, <3>5
  <2> DEFINE y == Read(S)
  <2>3. y = [count |-> x.count, total |-> x.total, max |-> x.max, min |-> v,
             bucket |-> Fresh.bucket]
    BY <2>2 DEF Read
  <2> HIDE DEF y
  <2>4. metrics_load(lines) = normalize_startup_metrics(y)
    BY LoadIs DEF S, y
  <2>5. CASE x.count = 0
    <3>1. y.count = 0
      BY <2>3, <2>5
    <3>2. normalize_startup_metrics(y) = Fresh
      BY <3>1 DEF normalize_startup_metrics
    <3>3. a = NoTime /\ l = ULongMax
      BY <2>5, NoneCounted
    <3> QED BY <1>2, <2>4, <2>5, <3>2, <3>3, FreshCounts DEF s
  <2>6. CASE x.count # 0
    <3>1. x.min \in Nat /\ l \in Nat
      BY DEF Counted, Figures
    <3>2. v \in Nat /\ v <= x.min /\ (d = 1 => v = x.min)
      BY <3>1, DigitsOff DEF v
    <3> DEFINE k == IF d = 1 THEN l ELSE v
    <3>3. k \in Nat /\ (k = v \/ (v = x.min /\ k = l))
      BY <3>1, <3>2
    <3> HIDE DEF k
    <3>4. normalize_startup_metrics(y) = y /\ Counted(y, a, k)
      BY <2>3, <2>6, <3>2, <3>3, CutCounts
    <3> QED BY <1>2, <2>4, <2>6, <3>4 DEF k, v, s
  <2> QED BY <2>5, <2>6
<1> QED BY <1>1, <1>2

-----------------------------------------------------------------------------
(* The percentile *)

(* compute_p99 rounds up: target is the least count that is enough. *)
LEMMA TargetIs ==
    ASSUME NEW c \in Nat, NEW s \in Nat
    PROVE  s >= (c * (Den - 1) + (Den - 1)) \div Den <=> s * Den >= c * (Den - 1)
<1> DEFINE X == c * (Den - 1)
           q == (X + (Den - 1)) \div Den
<1>1. Den \in Nat /\ Den > 0 /\ Den - 1 \in Nat
  BY BoundsAssumption
<1>2. X \in Nat
  BY <1>1
<1> HIDE DEF X
<1>3. q \in Nat /\ q * Den <= X + (Den - 1) /\ X + (Den - 1) < q * Den + Den
  BY <1>1, <1>2
<1> HIDE DEF q
<1>4. q * Den \in Nat /\ s * Den \in Nat
  BY <1>1, <1>3
<1>5. CASE s >= q
  <2>1. q * Den <= s * Den
    BY <1>1, <1>3, <1>5, ProductGrows
  <2>2. s * Den >= X
    BY <1>1, <1>2, <1>3, <1>4, <2>1
  <2> QED BY <1>5, <2>2 DEF q, X
<1>6. CASE ~(s >= q)
  <2>1. s + 1 <= q /\ s + 1 \in Nat
    BY <1>3, <1>6
  <2>2. (s + 1) * Den <= q * Den
    BY <1>1, <1>3, <2>1, ProductGrows
  <2>3. (s + 1) * Den = s * Den + Den
    BY <1>1
  <2>4. ~(s * Den >= X)
    BY <1>1, <1>2, <1>3, <1>4, <2>2, <2>3
  <2> QED BY <1>6, <2>4 DEF q, X
<1> QED BY <1>5, <1>6

(* Enough of the times that a counts are at most v. *)
Enough(a, v) == Cumulative(a, v) * Den >= Cumulative(a, MaxTime) * (Den - 1)

(* The quantile is the least time for which that holds. *)
LEMMA QuantileIs ==
    ASSUME all \in [0 .. MaxTime -> Nat]
    PROVE  /\ Quantile \in 0 .. MaxTime /\ Enough(all, Quantile)
           /\ \A v \in 0 .. MaxTime : Enough(all, v) => Quantile <= v
<1> DEFINE S == {v \in 0 .. MaxTime : Enough(all, v)}
<1>1. Quantile = Min(S)
  BY DEF Quantile, AtMost, Samples, Enough
<1>2. MaxTime \in Nat /\ \A k \in 0 .. MaxTime : all[k] \in Nat
  BY TimesAssumption
<1>3. \A k \in 0 .. MaxTime : Cumulative(all, k) \in Nat
  BY <1>2, SumNat
<1>4. MaxTime \in S
  <2> DEFINE c == Cumulative(all, MaxTime)
  <2>1. MaxTime \in 0 .. MaxTime
    BY <1>2
  <2>2. c \in Nat
    BY <1>3, <2>1
  <2>3. c * Den = c * (Den - 1) + c /\ c * (Den - 1) \in Nat
    <3>1. Den \in Nat /\ Den - 1 \in Nat
      BY BoundsAssumption
    <3> HIDE DEF c
    <3> QED BY <2>2, <3>1
  <2>4. c * Den >= c * (Den - 1)
    <3> HIDE DEF c
    <3> QED BY <2>2, <2>3
  <2> QED BY <2>1, <2>4 DEF Enough
<1>5. S \in SUBSET Nat /\ S # {}
  BY <1>2, <1>4
<1> HIDE DEF S
<1>6. Min(S) \in S /\ \A k \in S : Min(S) <= k
  BY <1>5, MinBelow
<1> QED BY <1>1, <1>6 DEF S

(* What is reported agrees with what was recorded. *)
LEMMA CountedReports ==
    ASSUME Counted(m, all, least)
    PROVE  ReportsTrue
<1> DEFINE used == {t \in 0 .. MaxTime : all[t] > 0}
           B == Buckets - 1
<1>1. m \in Figures /\ all \in [0 .. MaxTime -> Nat]
  BY DEF Counted
<1>2. /\ B \in Nat /\ MaxTime \in Nat /\ B < MaxTime
      /\ \A k \in 0 .. B : m.bucket[k] \in Nat /\ Cumulative(m.bucket, k) \in Nat
      /\ \A k \in 0 .. MaxTime : all[k] \in Nat /\ Cumulative(all, k) \in Nat
  BY <1>1, Summands
<1>3. m.count = Samples
  BY DEF Counted, Samples, AtMost
<1> SUFFICES ASSUME m.count > 0
    PROVE  /\ m.total = Cumulative([t \in 0 .. MaxTime |-> t * all[t]], MaxTime)
           /\ m.min = Min(used \cup {least}) /\ m.max = Max(used)
           /\ compute_p99(m) >= Clamped(Quantile)
           /\ Cumulative(m.bucket, B) = m.count => compute_p99(m) = Clamped(Quantile)
  BY <1>3 DEF ReportsTrue
<1>4. m.total = Cumulative([t \in 0 .. MaxTime |-> t * all[t]], MaxTime)
  BY DEF Counted, Weighted
<1>5. m.count \in Nat /\ m.count # 0 /\ m.min \in Nat /\ m.max \in Nat
  BY <1>1 DEF Figures
<1>6. m.min = Min(used \cup {least}) /\ m.max = Max(used)
  <2>1. /\ m.min \in used \cup {least} /\ m.max \in used
        /\ m.min <= least /\ \A t \in used : m.min <= t /\ t <= m.max
    BY <1>5 DEF Counted
  <2>2. used \in SUBSET Nat /\ used \cup {least} \in SUBSET Nat
    <3>1. least \in Nat
      BY DEF Counted
    <3>2. \A t \in used : t \in Nat
      BY <1>2
    <3> HIDE DEF used
    <3> QED BY <3>1, <3>2
  <2> HIDE DEF used
  <2> QED BY <2>1, <2>2, MinLeast, MaxGreatest
<1> DEFINE target == (m.count * (Den - 1) + (Den - 1)) \div Den
           enough == {b \in 0 .. B : Cumulative(m.bucket, b) >= target}
           q == Quantile
           p == compute_p99(m)
<1>7. p = IF enough = {} THEN B ELSE Min(enough)
  BY <1>5 DEF compute_p99
<1>8. q \in 0 .. MaxTime /\ Enough(all, q) /\ \A v \in 0 .. MaxTime : Enough(all, v) => q <= v
  BY <1>1, QuantileIs
<1>9. \A v \in 0 .. MaxTime : Enough(all, v) <=> Cumulative(all, v) >= target
  <2> TAKE v \in 0 .. MaxTime
  <2>1. Cumulative(all, v) \in Nat /\ m.count = Cumulative(all, MaxTime)
    BY <1>2 DEF Counted
  <2> QED BY <1>5, <2>1, TargetIs DEF Enough
<1>10. target \in Nat /\ m.count >= target
  <2>1. Den \in Nat /\ Den > 0 /\ Den - 1 \in Nat
    BY BoundsAssumption
  <2> DEFINE c == m.count
  <2>2. c \in Nat
    BY <1>5
  <2> HIDE DEF c
  <2>3. c * (Den - 1) \in Nat /\ c * Den = c * (Den - 1) + c
    BY <2>1, <2>2
  <2>4. c * Den >= c * (Den - 1)
    BY <2>1, <2>2, <2>3
  <2>5. c >= (c * (Den - 1) + (Den - 1)) \div Den
    BY <2>2, <2>4, TargetIs
  <2> DEFINE z == c * (Den - 1) + (Den - 1)
  <2>6. z \in Nat
    BY <2>1, <2>3
  <2> HIDE DEF z
  <2>7. z \div Den \in Nat
    BY <2>1, <2>6
  <2> QED BY <2>5, <2>7 DEF c, z
<1> HIDE DEF target
<1>11. \A b \in 0 .. (B - 1) :
           /\ Cumulative(m.bucket, b) <= Cumulative(all, b)
           /\ Cumulative(m.bucket, B) = m.count => Cumulative(m.bucket, b) = Cumulative(all, b)
           /\ Cumulative(m.bucket, b) \in Nat /\ Cumulative(all, b) \in Nat
  <2> TAKE b \in 0 .. (B - 1)
  <2>1. b \in 0 .. B /\ b \in 0 .. MaxTime /\ b \in 0 .. (Buckets - 2)
    BY <1>2, BoundsAssumption
  <2>2. Cumulative(all, b) - Cumulative(m.bucket, b) \in 0 .. Missing(m)
    BY <2>1 DEF Counted
  <2>3. Cumulative(m.bucket, b) \in Nat /\ Cumulative(all, b) \in Nat /\ Cumulative(m.bucket, B) \in Nat
    BY <1>2, <2>1
  <2> QED BY <1>5, <2>2, <2>3 DEF Missing
<1>12. enough # {} => Min(enough) \in enough /\ \A k \in enough : Min(enough) <= k
  <2>1. enough \in SUBSET Nat
    BY <1>2
  <2> HIDE DEF enough
  <2> QED BY <2>1, MinBelow
<1>13. p \in 0 .. B
  BY <1>2, <1>7, <1>12
<1>14. Clamped(q) = IF q <= B THEN q ELSE B
  BY <1>2, <1>8, BoundsAssumption DEF Clamped
<1> HIDE DEF q, p
<1>15. p >= Clamped(q)
  <2>1. CASE p = B
    BY <1>2, <1>8, <1>14, <2>1
  <2>2. CASE p # B
    <3>1. p = Min(enough) /\ p \in enough /\ p \in 0 .. (B - 1) /\ p \in 0 .. MaxTime
      BY <1>2, <1>7, <1>12, <1>13, <2>2
    <3>2. Cumulative(all, p) >= target
      <4>1. Cumulative(m.bucket, p) >= target
        BY <3>1
      <4> QED BY <1>10, <1>11, <3>1, <4>1
    <3>3. q <= p
      BY <1>8, <1>9, <3>1, <3>2
    <3> QED BY <1>2, <1>8, <1>14, <3>1, <3>3
  <2> QED BY <2>1, <2>2
<1>16. ASSUME Cumulative(m.bucket, B) = m.count PROVE p = Clamped(q)
  <2>1. B \in enough
    BY <1>2, <1>10, <1>16
  <2>2. p = Min(enough) /\ \A k \in enough : p <= k
    BY <1>7, <1>12, <2>1
  <2>3. CASE q <= B - 1
    <3>1. q \in 0 .. (B - 1) /\ q \in 0 .. B
      BY <1>2, <1>8, <2>3
    <3>2. Cumulative(m.bucket, q) >= target
      <4>1. Cumulative(all, q) >= target
        BY <1>8, <1>9
      <4> QED BY <1>11, <1>16, <3>1, <4>1
    <3>3. p <= q
      BY <2>2, <3>1, <3>2
    <3> QED BY <1>2, <1>13, <1>14, <1>15, <3>1, <3>3
  <2>4. CASE ~(q <= B - 1)
    BY <1>2, <1>8, <1>13, <1>14, <1>15, <2>4
  <2> QED BY <2>3, <2>4
<1> QED BY <1>4, <1>6, <1>15, <1>16 DEF q, p

(* The invariant holds always. *)
LEMMA LatencyInvariant == Spec => []LatencyInv
<1>0. metrics_load(<<>>) = Fresh
  <2>1. ToSet(<<>>) = {}
    BY DEF ToSet
  <2> QED BY <2>1, CutOff
<1>1. Init => LatencyInv
  BY <1>0, FreshCounts DEF Init, LatencyInv
<1>2. ASSUME LatencyInv, Next PROVE LatencyInv'
  <2>1. ASSUME NEW lines, NEW times, NEW left, StartUp(lines, times, left),
               Counted(metrics_load(lines), times, left)
        PROVE  LatencyInv'
    <3>1. \/ file' = <<>> /\ all' = NoTime /\ least' = ULongMax
          \/ file' = lines /\ all' = times /\ least' = left
      BY <2>1 DEF StartUp
    <3>2. kept' = all' /\ m' = metrics_load(file')
      BY <2>1 DEF StartUp
    <3>3. Counted(metrics_load(file'), all', least')
      BY <1>0, <2>1, <3>1, FreshCounts
    <3>4. Counted(m', all', least') /\ Counted(metrics_load(file'), kept', least')
      BY <3>2, <3>3
    <3> QED BY <3>4 DEF LatencyInv, Counted, Missing, metrics_load, normalize_startup_metrics
  <2>2. ASSUME NEW n \in 0 .. 4, NEW d \in Tens, Exit(n, d) PROVE LatencyInv'
    <3>1. Counted(m, all, least)
      BY <1>2 DEF LatencyInv
    <3>2. Counted(metrics_load(Written(metrics_save(m), n, d)), IF n = 4 THEN all ELSE NoTime,
                  IF n = 4 /\ (m.count = 0 \/ d = 1) THEN least
                  ELSE IF n = 4 THEN m.min \div d ELSE ULongMax)
      BY <3>1, SavedCounts
    <3> QED BY <2>1, <2>2, <3>2 DEF Exit
  <2>3. ASSUME Crash PROVE LatencyInv'
    BY <1>2, <2>1, <2>3 DEF Crash, LatencyInv
  <2>4. ASSUME NEW t \in Times, metrics_record_startup_ms(t) PROVE LatencyInv'
    <3>1. /\ m' = Recorded(m, t) /\ all' = [all EXCEPT ![t] = @ + 1]
          /\ file' = file /\ kept' = kept /\ least' = least /\ t \in 0 .. MaxTime
      BY <2>4, TimesAssumption DEF metrics_record_startup_ms
    <3>2. Counted(Recorded(m, t), [all EXCEPT ![t] = @ + 1], least)
      BY <1>2, <3>1, RecordedCounts DEF LatencyInv
    <3>3. Counted(m', all', least')
      BY <3>1, <3>2
    <3>4. Counted(metrics_load(file'), kept', least')
      BY <1>2, <3>1 DEF LatencyInv
    <3> QED BY <3>3, <3>4 DEF LatencyInv
  <2>5. ASSUME UNCHANGED <<m, file, all, kept, least>> PROVE LatencyInv'
    <3>1. Counted(m', all', least') /\ Counted(metrics_load(file'), kept', least')
      BY <1>2, <2>5 DEF LatencyInv
    <3> QED BY <3>1 DEF LatencyInv
  <2>6. ASSUME NEW id \in Ids, alert_set(id) \/ alert_clear(id) PROVE LatencyInv'
    BY <2>5, <2>6 DEF alert_set, alert_clear
  <2>7. ASSUME NEW w \in Web, NEW id \in Ids, NEW over \in BOOLEAN, Sample(w, id, over)
        PROVE  LatencyInv'
    BY <2>5, <2>7 DEF Sample, Quiet
  <2>8. ASSUME NEW w \in Web, Cross(w) \/ Emit(w) \/ Done(w) PROVE LatencyInv'
    BY <2>5, <2>8 DEF Cross, Emit, Done, Quiet
  <2> QED BY <1>2, <2>2, <2>3, <2>4, <2>6, <2>7, <2>8 DEF Next
<1>3. ASSUME LatencyInv, UNCHANGED vars PROVE LatencyInv'
  <2>1. m' = m /\ file' = file /\ all' = all /\ kept' = kept /\ least' = least
    BY <1>3 DEF vars
  <2>2. Counted(m', all', least') /\ Counted(metrics_load(file'), kept', least')
    BY <1>3, <2>1 DEF LatencyInv
  <2> QED BY <2>2 DEF LatencyInv
<1> QED BY <1>1, <1>2, <1>3, PTL DEF Spec

(* Through any ends and starts of the simulator and a metrics.state cut off *)
(* after any byte, the count, the total and the greatest time reported are  *)
(* those of the times recorded, and the least one is, too, or is what was   *)
(* left of it where the file broke off; the percentile of compute_p99 is    *)
(* exact when the histogram is whole and never too low.                     *)
THEOREM LatenciesAreTrue == Spec => []ReportsTrue
<1>1. LatencyInv => ReportsTrue
  BY CountedReports DEF LatencyInv
<1> QED BY <1>1, LatencyInvariant, PTL
=============================================================================
