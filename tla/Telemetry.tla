----------------------------- MODULE Telemetry ------------------------------
(***************************************************************************)
(* The alerts of alert.c and the start-up latencies of metrics.c.  Alerts  *)
(* are sampled by the threads of the web server, several at a time, which  *)
(* release the mutex in the middle of the table to report a change; rules  *)
(* are set and removed by the command line meanwhile.  Latencies are       *)
(* written to metrics.state when the simulator ends and read when it       *)
(* starts, unless the file could be removed first, as it normally is; the  *)
(* histogram is not written.                                               *)
(*                                                                         *)
(* Nothing ever samples the CPU, so every rule is about memory; a sample   *)
(* is over the threshold or not.  The file may be cut off by a full disk   *)
(* after any byte; the counters of events are those of EventBus.           *)
(***************************************************************************)
EXTENDS Integers, Sequences, SequencesExt, FiniteSetsExt

CONSTANTS
    Ids,        \* container ids that rules are set for
    AlertMax,   \* ALERT_MAX
    Web,        \* threads of the web server
    Times,      \* start-up times in ms
    MaxTime,    \* MAX_REASONABLE_STARTUP_MS
    Buckets,    \* METRICS_LAT_BUCKETS
    Den,        \* 100: the percentile is (Den - 1) of Den
    ULongMax,   \* ULONG_MAX
    Tens,       \* 1, 10, 100, ...: a number without its last digits is what
                \* is left when it is divided by one of them
    MaxSamples  \* bound: start-up times recorded

ASSUME BoundsAssumption == AlertMax \in Nat \ {0} /\ Buckets \in Nat \ {0} /\ Den \in Nat \ {0}
                            /\ MaxSamples \in Nat
ASSUME TimesAssumption == Times \subseteq Nat /\ MaxTime \in Nat /\ ULongMax \in Nat
                           /\ Buckets <= MaxTime /\ MaxTime < ULongMax
ASSUME TensAssumption == Tens \subseteq Nat \ {0} /\ 1 \in Tens
ASSUME IdsAssumption == "" \notin Ids
ASSUME WebAssumption == IsFiniteSet(Web)

Slots == 1 .. AlertMax

VARIABLES
    alerts,     \* g_alerts
    web,        \* where each web thread is in alert_check_sample
    net,        \* history: for each id FIRED events minus RESOLVED events,
                \* less the times a rule was set or removed while it fired
    m,          \* g_metrics: the fields about latency
    file,       \* metrics.state: the same without the histogram
    all,        \* history: how often each time has been recorded
    kept,       \* history: the same for the file
    least       \* history: what was left of a least time whose last digits
                \* were cut off, once that is loaded; else ULongMax

vars == <<alerts, web, net, m, file, all, kept, least>>

Free   == [id |-> "", firing |-> FALSE]
Idle   == [at |-> "idle", id |-> "", over |-> FALSE, i |-> 1]
NoTime == [t \in 0 .. MaxTime |-> 0]
Fresh  == [count |-> 0, total |-> 0, max |-> 0, min |-> ULongMax,
           bucket |-> [b \in 0 .. (Buckets - 1) |-> 0]]

TypeOK ==
    /\ alerts \in [Slots -> [id : Ids \cup {""}, firing : BOOLEAN]]
    /\ web \in [Web -> [at : {"idle", "scan", "emit"}, id : Ids \cup {""}, over : BOOLEAN,
                        i : 1 .. (AlertMax + 1)]]
    /\ net \in [Ids -> Int]
    /\ m.bucket \in [0 .. (Buckets - 1) -> Nat]
    /\ all \in [0 .. MaxTime -> Nat] /\ kept \in [0 .. MaxTime -> Nat]

Init ==
    /\ alerts = [s \in Slots |-> Free] /\ web = [w \in Web |-> Idle]
    /\ net = [i \in Ids |-> 0]
    /\ m = Fresh /\ file = <<>>
    /\ all = NoTime /\ kept = NoTime /\ least = ULongMax

-----------------------------------------------------------------------------
(* alert_set and alert_clear: one critical section each *)

Of(id)   == {s \in Slots : alerts[s].id = id}
Firing(id) == Cardinality({s \in Of(id) : alerts[s].firing})

(* Mutant: the first free slot is taken before the rest has been seen. *)
alert_set_FirstFree(id) ==
    /\ Of("") \cup Of(id) # {}
    /\ alerts' = [alerts EXCEPT ![Min(Of("") \cup Of(id))] = [id |-> id, firing |-> FALSE]]
    /\ net' = [net EXCEPT ![id] = @ - Firing(id)]
    /\ UNCHANGED <<web, m, file, all, kept, least>>

(* An existing rule is armed again; else the first free slot is used, if    *)
(* there is one.                                                            *)
alert_set(id) ==
    LET places == IF Of(id) # {} THEN Of(id) ELSE Of("") IN
    /\ places # {}
    /\ alerts' = [alerts EXCEPT ![Min(places)] = [id |-> id, firing |-> FALSE]]
    /\ net' = [net EXCEPT ![id] = @ - Firing(id)]
    /\ UNCHANGED <<web, m, file, all, kept, least>>

alert_clear(id) ==
    /\ Of(id) # {}
    /\ alerts' = [s \in Slots |-> IF s \in Of(id) THEN Free ELSE alerts[s]]
    /\ net' = [net EXCEPT ![id] = @ - Firing(id)]
    /\ UNCHANGED <<web, m, file, all, kept, least>>

-----------------------------------------------------------------------------
(* alert_check_sample in a thread of the web server *)

Quiet == UNCHANGED <<m, file, all, kept, least>>

(* A request for the statistics: a container's memory is read. *)
Sample(w, id, over) ==
    /\ web[w].at = "idle"
    /\ web' = [web EXCEPT ![w] = [at |-> "scan", id |-> id, over |-> over, i |-> 1]]
    /\ UNCHANGED <<alerts, net>> /\ Quiet

(* The next slot whose rule changes its state for this sample. *)
Crossing(w) == {s \in Slots : s >= web[w].i /\ alerts[s].id = web[w].id
                                            /\ alerts[s].firing # web[w].over}

(* Mutant: the state is changed with the report, after the mutex is released. *)
Cross_Late(w) ==
    /\ web[w].at = "scan" /\ Crossing(w) # {}
    /\ web' = [web EXCEPT ![w].at = "emit", ![w].i = Min(Crossing(w)) + 1]
    /\ UNCHANGED <<alerts, net>> /\ Quiet

(* Up to the next change; the mutex is held until it is made. *)
Cross(w) ==
    /\ web[w].at = "scan" /\ Crossing(w) # {}
    /\ LET s == Min(Crossing(w)) IN
         /\ alerts' = [alerts EXCEPT ![s].firing = web[w].over]
         /\ web' = [web EXCEPT ![w].at = "emit", ![w].i = s + 1]
    /\ UNCHANGED net /\ Quiet

(* ALERT_FIRED or ALERT_RESOLVED, and on with the table. *)
Emit(w) ==
    /\ web[w].at = "emit"
    /\ net' = [net EXCEPT ![web[w].id] = IF web[w].over THEN @ + 1 ELSE @ - 1]
    /\ web' = [web EXCEPT ![w].at = "scan"]
    /\ UNCHANGED alerts /\ Quiet

Done(w) ==
    /\ web[w].at = "scan" /\ Crossing(w) = {}
    /\ web' = [web EXCEPT ![w] = Idle]
    /\ UNCHANGED <<alerts, net>> /\ Quiet

-----------------------------------------------------------------------------
(* Latencies *)

(* Mutant: a time as long as the histogram is not put into the last bucket. *)
Recorded_Off(x, t) ==
    [count |-> x.count + 1, total |-> x.total + t,
     max |-> IF t > x.max THEN t ELSE x.max, min |-> IF t < x.min THEN t ELSE x.min,
     bucket |-> [x.bucket EXCEPT ![IF t < Buckets THEN t ELSE 0] = @ + 1]]

Recorded(x, t) ==
    [count |-> x.count + 1, total |-> x.total + t,
     max |-> IF t > x.max THEN t ELSE x.max, min |-> IF t < x.min THEN t ELSE x.min,
     bucket |-> [x.bucket EXCEPT ![IF t < Buckets THEN t ELSE Buckets - 1] = @ + 1]]

metrics_record_startup_ms(t) ==
    /\ m.count < MaxSamples /\ t <= MaxTime
    /\ m' = Recorded(m, t)
    /\ all' = [all EXCEPT ![t] = @ + 1]
    /\ UNCHANGED <<alerts, web, net, file, kept, least>>

(* The sum of f[0] to f[n]. *)
Cumulative(f, n) ==
    LET sum[k \in 0 .. n] == IF k = 0 THEN f[0] ELSE sum[k - 1] + f[k]
    IN  sum[n]

(* The first bucket up to which there are enough, else the last one. *)
compute_p99(x) ==
    LET target == (x.count * (Den - 1) + (Den - 1)) \div Den
        enough == {b \in 0 .. (Buckets - 1) : Cumulative(x.bucket, b) >= target}
    IN  IF x.count = 0 THEN 0 ELSE IF enough = {} THEN Buckets - 1 ELSE Min(enough)

(* metrics_save: the lines in their order. *)
metrics_save(x) == <<<<"count", x.count>>, <<"total", x.total>>, <<"max", x.max>>, <<"min", x.min>>>>

normalize_startup_metrics(x) ==
    IF \/ x.count = 0 \/ x.min = ULongMax \/ x.min > x.max \/ x.total < x.max
       \/ x.total \div x.count > MaxTime
    THEN Fresh ELSE x

(* metrics_init and metrics_load. *)
metrics_load(lines) ==
    LET Val(k) == IF \E l \in ToSet(lines) : l[1] = k
                  THEN (CHOOSE l \in ToSet(lines) : l[1] = k)[2] ELSE Fresh[k]
    IN  normalize_startup_metrics(
            [count |-> Val("count"), total |-> Val("total"), max |-> Val("max"),
             min |-> Val("min"), bucket |-> Fresh.bucket])

(* The simulator starts again: initialize_runtime_state removes the file,   *)
(* or warns that it cannot, and what is still there is loaded.              *)
StartUp(lines, times, left) ==
    /\ \/ file' = <<>> /\ all' = NoTime /\ least' = ULongMax
       \/ file' = lines /\ all' = times /\ least' = left
    /\ kept' = all'
    /\ m' = metrics_load(file')
    /\ alerts' = [s \in Slots |-> Free] /\ web' = [w \in Web |-> Idle]
    /\ net' = [i \in Ids |-> 0]

(* What has come onto the disk when it is full: n lines, the last of them   *)
(* perhaps without its last digits.  A line that breaks off in its name is  *)
(* passed over by metrics_load.                                             *)
Written(lines, n, d) ==
    [i \in 1 .. n |-> IF i = n THEN <<lines[i][1], lines[i][2] \div d>> ELSE lines[i]]

(* exit, and the next start.  The last line is the one that normalize_...   *)
(* cannot do without.                                                       *)
Exit(n, d) ==
    LET whole == n = 4 /\ (m.count = 0 \/ d = 1) IN
    StartUp(Written(metrics_save(m), n, d), IF n = 4 THEN all ELSE NoTime,
            IF whole THEN least ELSE IF n = 4 THEN m.min \div d ELSE ULongMax)

(* Killed, and the next start. *)
Crash == StartUp(file, kept, least)

-----------------------------------------------------------------------------
Next ==
    \/ \E id \in Ids : alert_set(id) \/ alert_clear(id)
    \/ \E w \in Web, id \in Ids, over \in BOOLEAN : Sample(w, id, over)
    \/ \E w \in Web : Cross(w) \/ Emit(w) \/ Done(w)
    \/ \E t \in Times : metrics_record_startup_ms(t)
    \/ \E n \in 0 .. 4, d \in Tens : Exit(n, d)
    \/ Crash

Spec == Init /\ [][Next]_vars

-----------------------------------------------------------------------------
(* Properties *)

(* There is one rule for a container, however rules were set and removed:   *)
(* with two of them `alert set` would change the one and the other go on.   *)
OneRule == TypeOK /\ \A id \in Ids : Cardinality(Of(id)) <= 1

(* Reports under way: FIRED ones minus RESOLVED ones. *)
Pending(id) ==
    LET w(over) == {v \in Web : web[v].at = "emit" /\ web[v].id = id /\ web[v].over = over}
    IN  Cardinality(w(TRUE)) - Cardinality(w(FALSE))

(* No change of a rule is reported twice and none is left out, though the   *)
(* reports of several threads may come in any order: events and the state   *)
(* of the rule balance, but for rules set or removed while they fire.       *)
Balanced == \A id \in Ids : net[id] + Pending(id) = Firing(id)

(* The times recorded since the start of the count, cut to the histogram:   *)
(* the least one that (Den - 1) of Den of them do not exceed.               *)
AtMost(v)   == Cumulative(all, v)
Samples     == AtMost(MaxTime)
Quantile    == Min({v \in 0 .. MaxTime : AtMost(v) * Den >= Samples * (Den - 1)})
Clamped(v)  == IF v < Buckets THEN v ELSE Buckets - 1

(* What is reported agrees with the times recorded, through any ends and    *)
(* starts, with a file cut off anywhere: count, total and greatest time are *)
(* exact, and so is the least, unless the file was cut off within it: then  *)
(* what is left is taken for a time, as nothing tells it from one.  The     *)
(* percentile is exact for a session that loaded nothing and otherwise too  *)
(* high, never too low.                                                     *)
ReportsTrue ==
    LET used == {t \in 0 .. MaxTime : all[t] > 0} IN
    /\ m.count = Samples
    /\ m.count > 0 =>
         /\ m.total = Cumulative([t \in 0 .. MaxTime |-> t * all[t]], MaxTime)
         /\ m.min = Min(used \cup {least}) /\ m.max = Max(used)
         /\ compute_p99(m) >= Clamped(Quantile)
         /\ Cumulative(m.bucket, Buckets - 1) = m.count => compute_p99(m) = Clamped(Quantile)

=============================================================================
