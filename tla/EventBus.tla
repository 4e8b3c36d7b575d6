------------------------------ MODULE EventBus ------------------------------
(***************************************************************************)
(* The event bus of eventbus.c.  Threads of the simulator (command line,   *)
(* web connections, orchestrator monitor) emit events: an event gets its   *)
(* number and its slot of the ring under the mutex, and is appended to     *)
(* events.log and counted by the metrics after the mutex is released.      *)
(* Readers look at the ring, most of them in two critical sections.  A new *)
(* session (main.c) removes events.log, so that its replay finds nothing;  *)
(* what the replay would do is stated as an operator.                      *)
(*                                                                         *)
(* An event is its number and the thread that emitted it; type, container, *)
(* detail, value and time go along unchanged.                              *)
(***************************************************************************)
EXTENDS Naturals, Sequences, SequencesExt, FiniteSets

CONSTANTS
    RingSize,       \* EVENTBUS_RING_SIZE
    Emitters,       \* the threads that emit
    MaxEvents       \* bound: events numbered in a session

ASSUME RingAssumption == RingSize \in Nat \ {0}
ASSUME EventsAssumption == MaxEvents \in Nat
ASSUME EmittersAssumption == Emitters # {} /\ IsFiniteSet(Emitters)

VARIABLES
    total,      \* g_total
    ring,       \* g_ring
    log,        \* the lines of events.log
    emitter,    \* where each emitting thread is, and its event
    counted,    \* the events that the metrics have counted
    cursor,     \* events --follow: the number it goes on from
    reader,     \* where the reading command is
    shown,      \* what it printed last, and for which numbers
    json        \* the last reply of eventbus_json_recent

vars == <<total, ring, log, emitter, counted, cursor, reader, shown, json>>

Event == [seq : 0 .. MaxEvents, by : Emitters]
Empty == [seq |-> 0, by |-> CHOOSE t \in Emitters : TRUE]     \* memset to 0
Slots == 0 .. (RingSize - 1)
Slot(k) == k % RingSize

Idle == [at |-> "idle", ev |-> Empty]
NoRead == [at |-> "idle", from |-> 0, upto |-> 0, follow |-> FALSE]
NoBatch == [events |-> <<>>, from |-> 0, upto |-> 0]

TypeOK ==
    /\ total \in 0 .. MaxEvents
    /\ ring \in [Slots -> Event]
    /\ log \in Seq(Event)
    /\ emitter \in [Emitters -> [at : {"idle", "log", "count"}, ev : Event]]
    /\ counted \in Nat
    /\ cursor \in 0 .. MaxEvents
    /\ reader \in [at : {"idle", "print"}, from : 0 .. MaxEvents, upto : 0 .. MaxEvents,
                   follow : BOOLEAN]
    /\ shown.events \in Seq(Event)
    /\ json \in Seq(Event)

Init ==
    /\ total = 0 /\ ring = [s \in Slots |-> Empty]
    /\ log = <<>>
    /\ emitter = [t \in Emitters |-> Idle]
    /\ counted = 0
    /\ cursor = 0 /\ reader = NoRead /\ shown = NoBatch /\ json = <<>>

-----------------------------------------------------------------------------
(* eventbus_emit *)

(* Mutant: the slot is worked out when g_total has been counted up. *)
EmitRing_SlotAfter(t) ==
    /\ emitter[t].at = "idle" /\ total < MaxEvents
    /\ LET e == [seq |-> total, by |-> t]
       IN  /\ ring' = [ring EXCEPT ![Slot(total + 1)] = e]
           /\ emitter' = [emitter EXCEPT ![t] = [at |-> "log", ev |-> e]]
    /\ total' = total + 1
    /\ UNCHANGED <<log, counted, cursor, reader, shown, json>>

(* Under the mutex. *)
EmitRing(t) ==
    /\ emitter[t].at = "idle" /\ total < MaxEvents
    /\ LET e == [seq |-> total, by |-> t]
       IN  /\ ring' = [ring EXCEPT ![Slot(total)] = e]
           /\ emitter' = [emitter EXCEPT ![t] = [at |-> "log", ev |-> e]]
    /\ total' = total + 1
    /\ UNCHANGED <<log, counted, cursor, reader, shown, json>>

(* Mutant: the line is made from the slot, not from the copy taken under    *)
(* the mutex.                                                               *)
EmitLog_FromSlot(t) ==
    /\ emitter[t].at = "log"
    /\ log' = Append(log, ring[Slot(emitter[t].ev.seq)])
    /\ emitter' = [emitter EXCEPT ![t].at = "count"]
    /\ UNCHANGED <<total, ring, counted, cursor, reader, shown, json>>

(* After it: one line, flushed, ... *)
EmitLog(t) ==
    /\ emitter[t].at = "log"
    /\ log' = Append(log, emitter[t].ev)
    /\ emitter' = [emitter EXCEPT ![t].at = "count"]
    /\ UNCHANGED <<total, ring, counted, cursor, reader, shown, json>>

(* ... and metrics_on_event. *)
EmitCount(t) ==
    /\ emitter[t].at = "count"
    /\ counted' = counted + 1
    /\ emitter' = [emitter EXCEPT ![t] = Idle]
    /\ UNCHANGED <<total, ring, log, cursor, reader, shown, json>>

-----------------------------------------------------------------------------
(* The readers *)

Available(k) == IF k < RingSize THEN k ELSE RingSize
InRing(from, upto) == [i \in 1 .. (upto - from) |-> ring[Slot(from + i - 1)]]

(* events --follow begins with what comes next. *)
Follow ==
    /\ reader.at = "idle"
    /\ cursor' = total
    /\ UNCHANGED <<total, ring, log, emitter, counted, reader, shown, json>>

(* eventbus_drain_from reads g_total in a first critical section ... *)
DrainRead ==
    /\ reader.at = "idle"
    /\ IF cursor >= total
       THEN cursor' = total /\ UNCHANGED reader
       ELSE /\ reader' = [at |-> "print", follow |-> TRUE, upto |-> total,
                          from |-> IF total - cursor > RingSize THEN total - RingSize ELSE cursor]
            /\ UNCHANGED cursor
    /\ UNCHANGED <<total, ring, log, emitter, counted, shown, json>>

(* ... and so does eventbus_print_filtered, ... *)
PrintRead(n) ==
    /\ reader.at = "idle" /\ total # 0
    /\ LET want == IF n = 0 \/ n > Available(total) THEN Available(total) ELSE n
       IN  reader' = [at |-> "print", follow |-> FALSE, upto |-> total, from |-> total - want]
    /\ UNCHANGED <<total, ring, log, emitter, counted, cursor, shown, json>>

(* ... the slots in a second one. *)
PrintRing ==
    /\ reader.at = "print"
    /\ shown' = [events |-> InRing(reader.from, reader.upto),
                 from |-> reader.from, upto |-> reader.upto]
    /\ cursor' = IF reader.follow THEN reader.upto ELSE cursor
    /\ reader' = NoRead
    /\ UNCHANGED <<total, ring, log, emitter, counted, json>>

(* Mutant: the number asked for is not limited to what there is. *)
eventbus_json_recent_Unlimited(n) ==
    /\ json' = InRing(total - n, total)
    /\ UNCHANGED <<total, ring, log, emitter, counted, cursor, reader, shown>>

(* eventbus_json_recent reads everything in one. *)
eventbus_json_recent(n) ==
    /\ LET want == IF n = 0 \/ n > Available(total) THEN Available(total) ELSE n
       IN  json' = InRing(total - want, total)
    /\ UNCHANGED <<total, ring, log, emitter, counted, cursor, reader, shown>>

-----------------------------------------------------------------------------
(* A new session *)

(* Mutant: g_total stays at the number of the last line. *)
ReplayedTotal_NotPast(lines) == IF lines = <<>> THEN 0 ELSE lines[Len(lines)].seq

(* replay_events_file: the last RingSize lines go to the slots of their     *)
(* numbers, the later ones over the earlier ones; g_total follows the       *)
(* number of the last line.                                                 *)
Window(lines) == SubSeq(lines, IF Len(lines) > RingSize THEN Len(lines) - RingSize + 1 ELSE 1,
                        Len(lines))

ReplayedRing(lines) ==
    LET w == Window(lines)
        hits(s) == {i \in DOMAIN w : Slot(w[i].seq) = s}
    IN  [s \in Slots |-> IF hits(s) = {} THEN Empty
                         ELSE w[CHOOSE i \in hits(s) : \A j \in hits(s) : j <= i]]

ReplayedTotal(lines) == IF lines = <<>> THEN 0 ELSE lines[Len(lines)].seq + 1

eventbus_init ==
    /\ ring' = ReplayedRing(log')
    /\ total' = ReplayedTotal(log')

(* initialize_runtime_state, then eventbus_init.  The old session has ended *)
(* or was killed, at any point.                                             *)
NewSession ==
    /\ log' = <<>>
    /\ eventbus_init
    /\ emitter' = [t \in Emitters |-> Idle]
    /\ counted' = 0
    /\ cursor' = total' /\ reader' = NoRead /\ shown' = NoBatch /\ json' = <<>>

-----------------------------------------------------------------------------
EmitStep(t) == EmitLog(t) \/ EmitCount(t)

Next ==
    \/ \E t \in Emitters : EmitRing(t) \/ EmitStep(t)
    \/ Follow \/ DrainRead \/ PrintRing \/ NewSession
    \/ \E n \in 0 .. RingSize : PrintRead(n) \/ eventbus_json_recent(n)

Spec == Init /\ [][Next]_vars

-----------------------------------------------------------------------------
(* Properties *)

(* Whatever the order in which the threads get to write: when nobody is in  *)
(* the middle of an emit, events.log has a line for each event and for none *)
(* twice, and the metrics have counted each once.                           *)
LogComplete ==
    TypeOK /\
    ((\A t \in Emitters : emitter[t].at = "idle") =>
        /\ IsInjective(log)
        /\ {log[i].seq : i \in DOMAIN log} = 0 .. (total - 1)
        /\ counted = total)

(* A replay of the log as it is would restore ring and number exactly, if   *)
(* nobody is in the middle of an emit and the lines are in order.           *)
ReplayRestores ==
    /\ \A t \in Emitters : emitter[t].at = "idle"
    /\ \A i \in DOMAIN log : log[i].seq = i - 1
    => ReplayedRing(log) = ring /\ ReplayedTotal(log) = total

(* What the dashboard is sent is an unbroken run of events.  The commands   *)
(* that print have read the numbers in an earlier critical section: in the  *)
(* place of an event they print it or, when its slot was overwritten in     *)
(* between, a later one, never an older one or a slot not yet used.         *)
ReadsCurrent ==
    /\ \A i \in DOMAIN json : i > 1 => json[i].seq = json[i - 1].seq + 1
    /\ \A i \in DOMAIN shown.events :
         shown.events[i].seq >= shown.from + i - 1 /\ shown.events[i].seq < total

(* The ring under its mutex is a log that keeps its last events. *)
Abstract == INSTANCE EventLog WITH
    Keep <- RingSize, count <- total,
    recent <- InRing(total - Available(total), total)
ImplementsLog == Abstract!Spec

=============================================================================
