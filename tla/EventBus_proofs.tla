--------------------------- MODULE EventBus_proofs ---------------------------
(***************************************************************************)
(* Proofs about EventBus, for any size of the ring and any threads.        *)
(***************************************************************************)
EXTENDS EventBus, FiniteSetTheorems, SequenceTheorems, TLAPS

Pending == {t \in Emitters : emitter[t].at = "log"}
Busy    == {t \in Emitters : emitter[t].at # "idle"}

(* A slot that was used holds the last event of those that share it, and    *)
(* that is one of the last RingSize.  The others are as memset left them.   *)
SlotOwned(s) ==
    IF s < total THEN /\ Slot(ring[s].seq) = s
                      /\ ring[s].seq < total /\ total <= ring[s].seq + RingSize
                 ELSE ring[s] = Empty

RingOwned == \A s \in Slots : SlotOwned(s)

(* An event is the one in its slot as long as that was not used again. *)
Fresh(e) == e.seq < total /\ (total <= e.seq + RingSize => ring[Slot(e.seq)] = e)

(* Every number given out is on exactly one line or with one thread that    *)
(* still has to write it.                                                   *)
NumbersOnce ==
    /\ \A i \in 1 .. Len(log) : Fresh(log[i])
    /\ \A t \in Pending : Fresh(emitter[t].ev)
    /\ \A i, j \in 1 .. Len(log) : log[i].seq = log[j].seq => i = j
    /\ \A t, u \in Pending : emitter[t].ev.seq = emitter[u].ev.seq => t = u
    /\ \A i \in 1 .. Len(log), t \in Pending : log[i].seq # emitter[t].ev.seq
    /\ \A k \in 0 .. (total - 1) : \/ \E i \in 1 .. Len(log) : log[i].seq = k
                                   \/ \E t \in Pending : emitter[t].ev.seq = k

(* Every event is counted or still to be counted. *)
CountsOnce == counted + Cardinality(Busy) = total

(* What a reader has read of the numbers, and what it has printed. *)
ReaderBehind ==
    /\ cursor <= total
    /\ reader.from <= reader.upto /\ reader.upto <= total
    /\ shown \in [events : Seq(Event), from : 0 .. MaxEvents, upto : 0 .. MaxEvents]

(* The inductive invariant. *)
IInv == TypeOK /\ RingOwned /\ NumbersOnce /\ CountsOnce /\ ReaderBehind /\ ReadsCurrent

-----------------------------------------------------------------------------
(* Numbers and slots *)

(* A number has a slot of the ring. *)
LEMMA SlotInRing == ASSUME NEW k \in Nat PROVE Slot(k) \in Slots
BY RingAssumption DEF Slot, Slots

(* Two numbers less than RingSize apart have different slots. *)
LEMMA SlotsDiffer ==
    ASSUME NEW a \in Nat, NEW b \in Nat, a < b, b < a + RingSize
    PROVE  Slot(a) # Slot(b)
<1> SUFFICES ASSUME Slot(a) = Slot(b) PROVE FALSE
  OBVIOUS
<1> DEFINE R == RingSize
           d == (b \div R) - (a \div R)
<1>0. R \in Nat /\ R > 0
  BY RingAssumption
<1> HIDE DEF R
<1>1. a = R * (a \div R) + (a % R) /\ b = R * (b \div R) + (b % R)
  BY <1>0
<1>2. a \div R \in Int /\ b \div R \in Int /\ d \in Int
  BY <1>0
<1>3. b - a = R * d
  BY <1>0, <1>1, <1>2 DEF Slot, R
<1> HIDE DEF d
<1>4. 0 < R * d /\ R * d < R
  BY <1>3, <1>0 DEF R
<1>5. d <= 0 => R * d <= 0
  BY <1>0, <1>2
<1>6. d >= 1 => R * d >= R
  BY <1>0, <1>2
<1> QED BY <1>2, <1>4, <1>5, <1>6, <1>0

(* A number below RingSize is its own slot; the slots come round. *)
LEMMA SlotOfSmall == ASSUME NEW k \in Nat, k < RingSize PROVE Slot(k) = k
BY RingAssumption DEF Slot

(* RingSize numbers later the same slot comes round again. *)
LEMMA SlotsComeRound == ASSUME NEW k \in Nat PROVE Slot(k + RingSize) = Slot(k)
<1> DEFINE R == RingSize
           q == k \div R
           p == (k + R) \div R
           d == p - q
<1>0. R \in Nat /\ R > 0
  BY RingAssumption
<1> HIDE DEF R
<1>1. /\ k = R * q + (k % R) /\ k % R \in 0 .. (R - 1) /\ q \in Int
      /\ k + R = R * p + ((k + R) % R) /\ (k + R) % R \in 0 .. (R - 1) /\ p \in Int
  BY <1>0
<1> HIDE DEF q, p
<1>2. d \in Int /\ R * d = R * p - R * q
  BY <1>0, <1>1
<1> HIDE DEF d
<1>3. R * d = R + (k % R) - ((k + R) % R)
  BY <1>0, <1>1, <1>2
<1>4. 0 < R * d /\ R * d < R + R
  BY <1>0, <1>1, <1>3
<1>5. (d <= 0 => R * d <= 0) /\ (d >= 2 => R * d >= R + R)
  BY <1>0, <1>2
<1>6. d = 1
  BY <1>0, <1>2, <1>4, <1>5
<1>7. (k + R) % R = k % R
  BY <1>0, <1>1, <1>3, <1>6
<1> QED BY <1>7 DEF Slot, R

(* A slot is at most the number it is for. *)
LEMMA SlotAtMost == ASSUME NEW k \in Nat PROVE Slot(k) <= k
BY RingAssumption DEF Slot

(* What the slot of a number holds: its event or, if it was used again, a   *)
(* later one.                                                               *)
LEMMA SlotTells ==
    ASSUME TypeOK, RingOwned, NEW k \in Nat, k < total
    PROVE  /\ ring[Slot(k)] \in Event
           /\ ring[Slot(k)].seq >= k /\ ring[Slot(k)].seq < total
           /\ total <= k + RingSize => ring[Slot(k)].seq = k
<1> DEFINE s == Slot(k)
           m == ring[s].seq
<1>0. RingSize \in Nat /\ total \in Nat
  BY RingAssumption, EventsAssumption DEF TypeOK
<1>1. s \in Slots /\ s < total
  BY SlotInRing, SlotAtMost, <1>0, RingAssumption DEF Slots
<1>2. ring[s] \in Event
  BY <1>1 DEF TypeOK
<1>3. m \in Nat
  BY <1>2, EventsAssumption DEF Event
<1>4. Slot(m) = s /\ m < total /\ total <= m + RingSize
  BY <1>1 DEF RingOwned, SlotOwned
<1> HIDE DEF m
<1>5. ~(m < k)
  <2> SUFFICES ASSUME m < k PROVE FALSE
    OBVIOUS
  <2>1. k < m + RingSize
    BY <1>0, <1>3, <1>4
  <2> QED BY <2>1, <1>3, <1>4, SlotsDiffer
<1>6. total <= k + RingSize => ~(k < m)
  <2> SUFFICES ASSUME total <= k + RingSize, k < m PROVE FALSE
    OBVIOUS
  <2>1. m < k + RingSize
    BY <1>0, <1>3, <1>4
  <2> QED BY <2>1, <1>3, <1>4, SlotsDiffer
<1>7. m >= k /\ m < total /\ (total <= k + RingSize => m = k)
  BY <1>0, <1>3, <1>4, <1>5, <1>6
<1> QED BY <1>2, <1>7 DEF m

(* The run of slots for numbers given out is a sequence of events. *)
LEMMA InRingProps ==
    ASSUME TypeOK, RingOwned, NEW a \in Nat, NEW b \in Nat, a <= b, b <= total
    PROVE  /\ InRing(a, b) \in Seq(Event) /\ Len(InRing(a, b)) = b - a
           /\ DOMAIN InRing(a, b) = 1 .. (b - a)
           /\ \A i \in 1 .. (b - a) : InRing(a, b)[i] = ring[Slot(a + i - 1)]
<1>0. total \in Nat
  BY EventsAssumption DEF TypeOK
<1>1. \A i \in 1 .. (b - a) : ring[Slot(a + i - 1)] \in Event
  <2> TAKE i \in 1 .. (b - a)
  <2>1. a + i - 1 \in Nat /\ a + i - 1 < total
    BY <1>0
  <2> QED BY <2>1, SlotTells
<1>2. b - a \in Nat
  OBVIOUS
<1> DEFINE n == b - a
           f == [i \in 1 .. n |-> ring[Slot(a + i - 1)]]
<1>3. f \in [1 .. n -> Event]
  BY <1>1
<1>4. f \in Seq(Event) /\ Len(f) = n
  <2> HIDE DEF f, n
  <2>1. n \in Nat
    BY <1>2 DEF n
  <2> QED BY <1>3, <2>1
<1>5. DOMAIN f = 1 .. n /\ \A i \in 1 .. n : f[i] = ring[Slot(a + i - 1)]
  OBVIOUS
<1>6. f = InRing(a, b)
  BY DEF InRing
<1> HIDE DEF f
<1> QED BY <1>4, <1>5, <1>6

(* The sizes that the readers use. *)
LEMMA AvailableProps ==
    ASSUME TypeOK
    PROVE  /\ Available(total) \in 0 .. total /\ Available(total) <= RingSize
           /\ total \in Nat /\ RingSize \in Nat /\ RingSize > 0
BY RingAssumption, EventsAssumption DEF Available, TypeOK

(* What an unused slot holds is typed as an event. *)
LEMMA EmptyTyped == Empty \in Event
BY EmittersAssumption, EventsAssumption DEF Empty, Event

(* Finitely many threads are in the middle of an emit. *)
LEMMA BusyFinite == IsFiniteSet(Busy) /\ Cardinality(Busy) \in Nat
BY EmittersAssumption, FS_Subset, FS_CardinalityType DEF Busy

-----------------------------------------------------------------------------
(* The invariant holds in a session that begins. *)
LEMMA InvBegin == Init => IInv
<1> SUFFICES ASSUME Init PROVE IInv
  OBVIOUS
<1>1. TypeOK
  BY EmptyTyped, EventsAssumption DEF Init, TypeOK, Idle, NoRead, NoBatch
<1>2. RingOwned
  BY RingAssumption DEF Init, RingOwned, SlotOwned, Slots
<1>3. Pending = {} /\ Busy = {}
  BY DEF Init, Pending, Busy, Idle
<1>4. NumbersOnce
  BY <1>3 DEF Init, NumbersOnce
<1>5. CountsOnce
  BY <1>3, FS_EmptySet DEF Init, CountsOnce
<1>6. ReaderBehind /\ ReadsCurrent
  BY EventsAssumption DEF Init, ReaderBehind, ReadsCurrent, NoRead, NoBatch
<1> QED BY <1>1, <1>2, <1>4, <1>5, <1>6 DEF IInv

(* An empty events.log leaves an empty ring. *)
LEMMA ReplayNothing ==
    ReplayedTotal(<<>>) = 0 /\ ReplayedRing(<<>>) = [s \in Slots |-> Empty]
<1>1. Window(<<>>) = <<>>
  BY RingAssumption DEF Window
<1>2. DOMAIN Window(<<>>) = {}
  BY <1>1
<1> QED BY <1>2 DEF ReplayedTotal, ReplayedRing

(* A new session begins like the first one, whatever the last one left. *)
LEMMA SessionStep == ASSUME NewSession PROVE IInv'
<1>1. Init'
  BY ReplayNothing DEF NewSession, eventbus_init, Init
<1>2. (Init => IInv)'
  BY InvBegin, PTL
<1> QED BY <1>1, <1>2

-----------------------------------------------------------------------------
(* The steps of an emit *)

(* Writing the slot, under the mutex, keeps the invariant. *)
LEMMA EmitRingStep ==
    ASSUME IInv, NEW t \in Emitters, EmitRing(t)
    PROVE  IInv'
<1> DEFINE e == [seq |-> total, by |-> t]
<1>0. /\ total \in Nat /\ total < MaxEvents /\ MaxEvents \in Nat /\ RingSize \in Nat
      /\ RingSize > 0 /\ Slot(total) \in Slots
  BY RingAssumption, EventsAssumption, SlotInRing DEF IInv, TypeOK, EmitRing
<1>1. /\ total' = total + 1 /\ ring' = [ring EXCEPT ![Slot(total)] = e]
      /\ emitter' = [emitter EXCEPT ![t] = [at |-> "log", ev |-> e]]
      /\ UNCHANGED <<log, counted, cursor, reader, shown, json>>
      /\ emitter[t].at = "idle"
  BY DEF EmitRing
<1>2. e \in Event /\ e.seq = total
  BY <1>0 DEF Event
<1> HIDE DEF e
<1>3. TypeOK'
  BY <1>0, <1>1, <1>2 DEF IInv, TypeOK
<1>4. \A s \in Slots : ring'[s] = IF s = Slot(total) THEN e ELSE ring[s]
  BY <1>0, <1>1 DEF IInv, TypeOK
<1>5. RingOwned'
  <2> SUFFICES ASSUME NEW s \in Slots PROVE SlotOwned(s)'
    BY DEF RingOwned
  <2>0. s \in Nat /\ s < RingSize /\ ring[s] \in Event /\ ring[s].seq \in Nat
    BY RingAssumption, EventsAssumption DEF IInv, TypeOK, Slots, Event
  <2>1. CASE s = Slot(total)
    <3>1. ring'[s].seq = total /\ s <= total
      BY <1>0, <1>2, <1>4, <2>1, SlotAtMost
    <3> QED BY <1>0, <1>1, <2>0, <2>1, <3>1 DEF SlotOwned
  <2>2. CASE s # Slot(total) /\ s < total
    <3>1. Slot(ring[s].seq) = s /\ ring[s].seq < total /\ total <= ring[s].seq + RingSize
      BY <2>2 DEF IInv, RingOwned, SlotOwned
    <3>2. total # ring[s].seq + RingSize
      BY <2>0, <2>2, <3>1, SlotsComeRound
    <3> QED BY <1>0, <1>1, <1>4, <2>0, <2>2, <3>1, <3>2 DEF SlotOwned
  <2>3. CASE s # Slot(total) /\ ~(s < total)
    <3>1. s # total
      BY <2>0, <2>3, SlotOfSmall
    <3>2. ring[s] = Empty
      BY <2>3 DEF IInv, RingOwned, SlotOwned
    <3> QED BY <1>0, <1>1, <1>4, <2>0, <2>3, <3>1, <3>2 DEF SlotOwned
  <2> QED BY <2>1, <2>2, <2>3
<1>6. ASSUME NEW d \in Event, Fresh(d) PROVE Fresh(d)' /\ d.seq # total
  <2>0. d.seq \in Nat /\ d.seq < total
    BY <1>6, EventsAssumption DEF Fresh, Event
  <2> SUFFICES ASSUME total + 1 <= d.seq + RingSize PROVE ring'[Slot(d.seq)] = d
    BY <1>0, <1>1, <2>0 DEF Fresh
  <2>1. Slot(d.seq) # Slot(total) /\ Slot(d.seq) \in Slots
    BY <1>0, <2>0, SlotsDiffer, SlotInRing
  <2> QED BY <1>0, <1>4, <1>6, <2>0, <2>1 DEF Fresh
<1>7. e.seq < total' /\ ring'[Slot(e.seq)] = e
  BY <1>0, <1>1, <1>2, <1>4 DEF Fresh
<1>8. Pending' = Pending \cup {t} /\ t \notin Pending /\ emitter'[t].ev = e
  BY <1>1 DEF IInv, TypeOK, Pending
<1>9. \A u \in Pending : emitter'[u].ev = emitter[u].ev /\ emitter[u].ev \in Event
  BY <1>1, <1>8 DEF IInv, TypeOK, Pending
<1>10. \A i \in 1 .. Len(log) : log[i] \in Event
  BY DEF IInv, TypeOK
<1>11. NumbersOnce'
  <2>1. \A i \in 1 .. Len(log) : Fresh(log[i])' /\ log[i].seq # total
    <3> TAKE i \in 1 .. Len(log)
    <3>1. Fresh(log[i]) /\ log[i] \in Event
      BY <1>10 DEF IInv, NumbersOnce
    <3> QED BY <1>1, <1>6, <3>1
  <2>2. \A u \in Pending : Fresh(emitter[u].ev)' /\ emitter[u].ev.seq # total
    <3> TAKE u \in Pending
    <3>1. Fresh(emitter[u].ev) /\ emitter[u].ev \in Event
      BY <1>9 DEF IInv, NumbersOnce
    <3>2. emitter'[u].ev = emitter[u].ev
      BY <1>9
    <3> DEFINE d == emitter[u].ev
    <3>3. d \in Event /\ Fresh(d)
      BY <3>1
    <3>4. emitter'[u].ev = d
      BY <3>2
    <3> HIDE DEF d
    <3>5. \A x \in Event : Fresh(x) => /\ x.seq # total /\ x.seq < total'
                                     /\ (total' <= x.seq + RingSize => ring'[Slot(x.seq)] = x)
      BY <1>6 DEF Fresh
    <3>6. /\ d.seq # total /\ d.seq < total'
          /\ (total' <= d.seq + RingSize => ring'[Slot(d.seq)] = d)
      BY <3>3, <3>5
    <3> QED BY <3>4, <3>6 DEF Fresh, d
  <2>3. \A k \in 0 .. (total' - 1) : k \in 0 .. (total - 1) \/ k = total
    BY <1>0, <1>1
  <2>4. \A u \in Pending' : u = t \/ u \in Pending
    BY <1>8
  <2>5. \A i \in 1 .. Len(log') : Fresh(log[i])'
    BY <1>1, <2>1
  <2>6. \A u \in Pending' : Fresh(emitter[u].ev)'
    <3> TAKE u \in Pending'
    <3>1. CASE u = t
      BY <1>7, <1>8, <3>1 DEF Fresh
    <3>2. CASE u \in Pending
      BY <2>2, <3>2
    <3> QED BY <2>4, <3>1, <3>2
  <2>7. \A u, v \in Pending' : emitter'[u].ev.seq = emitter'[v].ev.seq => u = v
    BY <1>2, <1>8, <1>9, <2>2, <2>4 DEF IInv, NumbersOnce
  <2>8. \A i \in 1 .. Len(log'), u \in Pending' : log'[i].seq # emitter'[u].ev.seq
    BY <1>1, <1>2, <1>8, <1>9, <2>1, <2>4 DEF IInv, NumbersOnce
  <2>9. \A i, j \in 1 .. Len(log') : log'[i].seq = log'[j].seq => i = j
    BY <1>1 DEF IInv, NumbersOnce
  <2>10. \A k \in 0 .. (total' - 1) : \/ \E i \in 1 .. Len(log') : log'[i].seq = k
                                     \/ \E u \in Pending' : emitter'[u].ev.seq = k
    <3> TAKE k \in 0 .. (total' - 1)
    <3>1. CASE k = total
      BY <1>2, <1>8, <3>1
    <3>2. CASE k \in 0 .. (total - 1)
      BY <1>1, <1>8, <1>9, <3>2 DEF IInv, NumbersOnce
    <3> QED BY <2>3, <3>1, <3>2
  <2> QED BY <2>5, <2>6, <2>7, <2>8, <2>9, <2>10 DEF NumbersOnce
<1>12. CountsOnce'
  <2>1. Busy' = Busy \cup {t} /\ t \notin Busy
    BY <1>1 DEF IInv, TypeOK, Busy
  <2>2. Cardinality(Busy') = Cardinality(Busy) + 1
    BY <2>1, BusyFinite, FS_AddElement
  <2> QED BY <1>0, <1>1, <2>2, BusyFinite DEF IInv, CountsOnce, TypeOK
<1>13. ReaderBehind' /\ ReadsCurrent'
  <2>1. \A i \in DOMAIN shown.events : shown.events[i].seq \in Nat
    <3>1. shown.events \in Seq(Event)
      BY DEF IInv, TypeOK
    <3>2. \A i \in DOMAIN shown.events : shown.events[i] \in Event
      BY <3>1
    <3> QED BY <3>2, EventsAssumption DEF Event
  <2> QED BY <1>0, <1>1, <2>1 DEF IInv, TypeOK, ReaderBehind, ReadsCurrent
<1> QED BY <1>3, <1>5, <1>11, <1>12, <1>13 DEF IInv

(* So does the line of the log, written without the mutex ... *)
LEMMA EmitLogStep ==
    ASSUME IInv, NEW t \in Emitters, EmitLog(t)
    PROVE  IInv'
<1> DEFINE e == emitter[t].ev
           n == Len(log)
<1>1. /\ emitter[t].at = "log" /\ log' = Append(log, e)
      /\ emitter' = [emitter EXCEPT ![t].at = "count"]
      /\ UNCHANGED <<total, ring, counted, cursor, reader, shown, json>>
  BY DEF EmitLog
<1>2. e \in Event /\ log \in Seq(Event) /\ n \in Nat
  BY DEF IInv, TypeOK
<1>3. /\ log' \in Seq(Event) /\ Len(log') = n + 1 /\ log'[n + 1] = e
      /\ \A i \in 1 .. n : log'[i] = log[i]
  BY <1>1, <1>2
<1>4. /\ emitter'[t].at = "count"
      /\ \A u \in Emitters \ {t} : emitter'[u] = emitter[u]
      /\ emitter' \in [Emitters -> [at : {"idle", "log", "count"}, ev : Event]]
  BY <1>1 DEF IInv, TypeOK
<1>5. Pending' = Pending \ {t} /\ t \in Pending /\ Busy' = Busy
  BY <1>1, <1>4 DEF Pending, Busy
<1>6. TypeOK'
  BY <1>1, <1>3, <1>4 DEF IInv, TypeOK
<1>7. RingOwned' /\ CountsOnce' /\ ReaderBehind' /\ ReadsCurrent'
  BY <1>1, <1>5 DEF IInv, RingOwned, SlotOwned, CountsOnce, ReaderBehind, ReadsCurrent
<1>8. \A d : Fresh(d) => /\ d.seq < total'
                        /\ (total' <= d.seq + RingSize => ring'[Slot(d.seq)] = d)
  BY <1>1 DEF Fresh
<1>9. \A u \in Pending' : u \in Pending /\ u # t /\ emitter'[u] = emitter[u]
  BY <1>4, <1>5 DEF Pending
<1>10. \A i \in 1 .. (n + 1) : i \in 1 .. n \/ i = n + 1
  BY <1>2
<1>11. Fresh(e)
  BY <1>5 DEF IInv, NumbersOnce
<1> HIDE DEF e, n
<1>12. NumbersOnce'
  <2>0. /\ \A i \in 1 .. n : Fresh(log[i])
        /\ \A u \in Pending : Fresh(emitter[u].ev)
        /\ \A i, j \in 1 .. n : log[i].seq = log[j].seq => i = j
        /\ \A u, v \in Pending : emitter[u].ev.seq = emitter[v].ev.seq => u = v
        /\ \A i \in 1 .. n, u \in Pending : log[i].seq # emitter[u].ev.seq
        /\ \A k \in 0 .. (total - 1) : \/ \E i \in 1 .. n : log[i].seq = k
                                       \/ \E u \in Pending : emitter[u].ev.seq = k
    BY DEF IInv, NumbersOnce, n
  <2>1. \A i \in 1 .. Len(log') : Fresh(log[i])'
    <3> TAKE i \in 1 .. Len(log')
    <3>1. Fresh(log'[i])
      BY <1>3, <1>10, <1>11, <2>0
    <3> QED BY <1>8, <3>1 DEF Fresh
  <2>2. \A u \in Pending' : Fresh(emitter[u].ev)'
    <3> TAKE u \in Pending'
    <3>1. Fresh(emitter'[u].ev)
      BY <1>9, <2>0
    <3> QED BY <1>8, <3>1 DEF Fresh
  <2>3. \A i, j \in 1 .. Len(log') : log'[i].seq = log'[j].seq => i = j
    <3>1. \A i \in 1 .. n : log[i].seq # e.seq
      BY <1>5, <2>0 DEF e
    <3> QED BY <1>3, <1>10, <2>0, <3>1
  <2>4. \A u, v \in Pending' : emitter'[u].ev.seq = emitter'[v].ev.seq => u = v
    BY <1>9, <2>0
  <2>5. \A i \in 1 .. Len(log'), u \in Pending' : log'[i].seq # emitter'[u].ev.seq
    <3>1. \A u \in Pending \ {t} : emitter[u].ev.seq # e.seq
      BY <1>5, <2>0 DEF e
    <3> QED BY <1>3, <1>9, <1>10, <2>0, <3>1
  <2>6. \A k \in 0 .. (total' - 1) : \/ \E i \in 1 .. Len(log') : log'[i].seq = k
                                    \/ \E u \in Pending' : emitter'[u].ev.seq = k
    <3> TAKE k \in 0 .. (total' - 1)
    <3>1. CASE \E i \in 1 .. n : log[i].seq = k
      BY <1>2, <1>3, <3>1
    <3>2. CASE \E u \in Pending : emitter[u].ev.seq = k
      <4>1. PICK u \in Pending : emitter[u].ev.seq = k
        BY <3>2
      <4>2. CASE u = t
        <5>1. n + 1 \in 1 .. Len(log') /\ log'[n + 1].seq = k
          BY <1>2, <1>3, <4>1, <4>2 DEF e
        <5> QED BY <5>1
      <4>3. CASE u # t
        BY <1>4, <1>5, <4>1, <4>3 DEF Pending
      <4> QED BY <4>2, <4>3
    <3> QED BY <1>1, <2>0, <3>1, <3>2
  <2> QED BY <2>1, <2>2, <2>3, <2>4, <2>5, <2>6 DEF NumbersOnce
<1> QED BY <1>6, <1>7, <1>12 DEF IInv

(* ... and the call into metrics. *)
LEMMA EmitCountStep ==
    ASSUME IInv, NEW t \in Emitters, EmitCount(t)
    PROVE  IInv'
<1>1. /\ emitter[t].at = "count" /\ counted' = counted + 1
      /\ emitter' = [emitter EXCEPT ![t] = Idle]
      /\ UNCHANGED <<total, ring, log, cursor, reader, shown, json>>
  BY DEF EmitCount
<1>2. Pending' = Pending /\ \A u \in Pending : emitter'[u] = emitter[u]
  BY <1>1 DEF IInv, TypeOK, Pending, Idle
<1>3. Busy' = Busy \ {t} /\ t \in Busy
  BY <1>1 DEF IInv, TypeOK, Busy, Idle
<1>4. Cardinality(Busy') = Cardinality(Busy) - 1
  BY <1>3, BusyFinite, FS_RemoveElement
<1>5. TypeOK'
  BY <1>1, EmptyTyped DEF IInv, TypeOK, Idle
<1>6. RingOwned' /\ ReaderBehind' /\ ReadsCurrent'
  BY <1>1 DEF IInv, RingOwned, SlotOwned, ReaderBehind, ReadsCurrent
<1>7. CountsOnce'
  BY <1>1, <1>4, BusyFinite DEF IInv, TypeOK, CountsOnce
<1>8. NumbersOnce'
  BY <1>1, <1>2 DEF IInv, NumbersOnce, Fresh
<1> QED BY <1>5, <1>6, <1>7, <1>8 DEF IInv

-----------------------------------------------------------------------------
(* The readers leave the bus alone. *)
LEMMA BusAlone ==
    ASSUME IInv, UNCHANGED <<total, ring, log, emitter, counted>>
    PROVE  RingOwned' /\ NumbersOnce' /\ CountsOnce'
<1>1. Pending' = Pending /\ Busy' = Busy
  BY DEF Pending, Busy
<1> QED BY <1>1 DEF IInv, RingOwned, SlotOwned, NumbersOnce, Fresh, CountsOnce

(* A follower may set its cursor at the present total. *)
LEMMA FollowStep == ASSUME IInv, Follow PROVE IInv'
<1>1. TypeOK' /\ ReaderBehind'
  BY EventsAssumption DEF IInv, TypeOK, ReaderBehind, Follow
<1>2. ReadsCurrent'
  BY DEF IInv, ReadsCurrent, Follow
<1> QED BY <1>1, <1>2, BusAlone DEF IInv, Follow

(* A drain starts at its cursor, or at the oldest event that is left. *)
LEMMA DrainReadStep == ASSUME IInv, DrainRead PROVE IInv'
<1>0. /\ total \in Nat /\ cursor \in Nat /\ RingSize \in Nat
      /\ total <= MaxEvents /\ MaxEvents \in Nat
  BY RingAssumption, EventsAssumption DEF IInv, TypeOK
<1>1. CASE cursor >= total
  <2>1. cursor' = total /\ UNCHANGED <<total, ring, log, emitter, counted, reader, shown, json>>
    BY <1>1 DEF DrainRead
  <2>2. TypeOK' /\ ReaderBehind' /\ ReadsCurrent'
    BY <1>0, <2>1 DEF IInv, TypeOK, ReaderBehind, ReadsCurrent
  <2> QED BY <2>1, <2>2, BusAlone DEF IInv
<1>2. CASE ~(cursor >= total)
  <2> DEFINE from == IF total - cursor > RingSize THEN total - RingSize ELSE cursor
  <2>1. reader' = [at |-> "print", follow |-> TRUE, upto |-> total, from |-> from]
    BY <1>2 DEF DrainRead
  <2>2. UNCHANGED <<total, ring, log, emitter, counted, cursor, shown, json>>
    BY <1>2 DEF DrainRead
  <2>3. from \in 0 .. MaxEvents /\ from <= total
    BY <1>0, <1>2
  <2> HIDE DEF from
  <2>4. TypeOK' /\ ReaderBehind' /\ ReadsCurrent'
    BY <1>0, <2>1, <2>2, <2>3 DEF IInv, TypeOK, ReaderBehind, ReadsCurrent
  <2> QED BY <2>2, <2>4, BusAlone DEF IInv
<1> QED BY <1>1, <1>2

(* A print reads the total and remembers which events it will show. *)
LEMMA PrintReadStep ==
    ASSUME IInv, NEW n \in 0 .. RingSize, PrintRead(n)
    PROVE  IInv'
<1> DEFINE want == IF n = 0 \/ n > Available(total) THEN Available(total) ELSE n
           from == total - want
<1>0. total \in Nat /\ total <= MaxEvents /\ MaxEvents \in Nat /\ n \in Nat
  BY RingAssumption, EventsAssumption DEF IInv, TypeOK
<1>1. reader' = [at |-> "print", follow |-> FALSE, upto |-> total, from |-> from]
  BY DEF PrintRead
<1>2. UNCHANGED <<total, ring, log, emitter, counted, cursor, shown, json>>
  BY DEF PrintRead
<1>3. from \in 0 .. MaxEvents /\ from <= total
  BY <1>0, AvailableProps DEF IInv
<1> HIDE DEF from
<1>4. TypeOK' /\ ReaderBehind' /\ ReadsCurrent'
  BY <1>0, <1>1, <1>2, <1>3 DEF IInv, TypeOK, ReaderBehind, ReadsCurrent
<1> QED BY <1>2, <1>4, BusAlone DEF IInv

(* It reads their slots later, and may find newer events in them. *)
LEMMA PrintRingStep == ASSUME IInv, PrintRing PROVE IInv'
<1> DEFINE a == reader.from
           b == reader.upto
           w == InRing(a, b)
<1>0. /\ a \in Nat /\ b \in Nat /\ a <= b /\ b <= total /\ total \in Nat
      /\ a \in 0 .. MaxEvents /\ b \in 0 .. MaxEvents
  BY EventsAssumption DEF IInv, TypeOK, ReaderBehind
<1>1. shown' = [events |-> w, from |-> a, upto |-> b] /\ reader' = NoRead
  BY DEF PrintRing
<1>2. cursor' \in 0 .. MaxEvents /\ cursor' <= total
  BY <1>0 DEF PrintRing, IInv, TypeOK, ReaderBehind
<1>3. UNCHANGED <<total, ring, log, emitter, counted, json>>
  BY DEF PrintRing
<1>4. w \in Seq(Event) /\ DOMAIN w = 1 .. (b - a)
  BY <1>0, InRingProps DEF IInv
<1>5. \A i \in 1 .. (b - a) : w[i].seq >= a + i - 1 /\ w[i].seq < total
  <2> TAKE i \in 1 .. (b - a)
  <2>1. w[i] = ring[Slot(a + i - 1)]
    BY <1>0, InRingProps DEF IInv
  <2>2. a + i - 1 \in Nat /\ a + i - 1 < total
    BY <1>0
  <2> HIDE DEF w
  <2> QED BY <2>1, <2>2, SlotTells DEF IInv
<1> HIDE DEF a, b, w
<1>6. TypeOK' /\ ReaderBehind'
  BY <1>0, <1>1, <1>2, <1>3, <1>4, EventsAssumption DEF IInv, TypeOK, ReaderBehind, NoRead
<1>7. ReadsCurrent'
  BY <1>1, <1>3, <1>4, <1>5 DEF IInv, ReadsCurrent
<1> QED BY <1>3, <1>6, <1>7, BusAlone DEF IInv

(* The JSON report reads total and slots in one critical section. *)
LEMMA JsonStep ==
    ASSUME IInv, NEW n \in 0 .. RingSize, eventbus_json_recent(n)
    PROVE  IInv'
<1> DEFINE want == IF n = 0 \/ n > Available(total) THEN Available(total) ELSE n
           a == total - want
           w == InRing(a, total)
<1>0. /\ total \in Nat /\ n \in Nat /\ RingSize \in Nat /\ Available(total) \in 0 .. total
      /\ Available(total) <= RingSize
  BY RingAssumption, AvailableProps DEF IInv
<1>1. a \in Nat /\ a <= total /\ total <= a + RingSize
  BY <1>0
<1>2. json' = w /\ UNCHANGED <<total, ring, log, emitter, counted, cursor, reader, shown>>
  BY DEF eventbus_json_recent
<1> HIDE DEF a
<1>3. w \in Seq(Event) /\ DOMAIN w = 1 .. (total - a)
  <2>1. TypeOK /\ RingOwned /\ total <= total
    BY <1>0 DEF IInv
  <2> QED BY <1>0, <1>1, <2>1, InRingProps
<1>4. \A i \in 1 .. (total - a) : w[i].seq = a + i - 1
  <2> TAKE i \in 1 .. (total - a)
  <2>1. w[i] = ring[Slot(a + i - 1)]
    BY SMTT(30), <1>0, <1>1, InRingProps DEF IInv
  <2>2. a + i - 1 \in Nat /\ a + i - 1 < total /\ total <= (a + i - 1) + RingSize
    BY <1>0, <1>1
  <2> HIDE DEF w
  <2> QED BY <2>1, <2>2, SlotTells DEF IInv
<1> HIDE DEF w
<1>5. \A i \in DOMAIN json' : i > 1 => json'[i].seq = json'[i - 1].seq + 1
  <2> SUFFICES ASSUME NEW i \in 1 .. (total - a), i > 1 PROVE w[i].seq = w[i - 1].seq + 1
    BY <1>2, <1>3
  <2>1. i - 1 \in 1 .. (total - a)
    BY <1>0, <1>1
  <2>2. w[i].seq = a + i - 1 /\ w[i - 1].seq = a + (i - 1) - 1
    BY <1>4, <2>1
  <2> QED BY <1>1, <2>2
<1>6. TypeOK' /\ ReaderBehind' /\ ReadsCurrent'
  BY <1>2, <1>3, <1>5 DEF IInv, TypeOK, ReaderBehind, ReadsCurrent
<1> QED BY <1>2, <1>6, BusAlone DEF IInv

-----------------------------------------------------------------------------
(* Every step keeps the inductive invariant. *)
LEMMA InvStep == IInv /\ [Next]_vars => IInv'
<1> SUFFICES ASSUME IInv, [Next]_vars PROVE IInv'
  OBVIOUS
<1>1. CASE UNCHANGED vars
  <2>1. UNCHANGED <<total, ring, log, emitter, counted>> /\ UNCHANGED <<cursor, reader, shown, json>>
    BY <1>1 DEF vars
  <2>2. TypeOK' /\ ReaderBehind' /\ ReadsCurrent'
    BY <2>1 DEF IInv, TypeOK, ReaderBehind, ReadsCurrent
  <2> QED BY <2>1, <2>2, BusAlone DEF IInv
<1> QED BY <1>1, EmitRingStep, EmitLogStep, EmitCountStep, FollowStep, DrainReadStep,
           PrintReadStep, PrintRingStep, JsonStep, SessionStep DEF Next, EmitStep

(* The inductive invariant, with the types of the variables. *)
THEOREM BusInvariant == Spec => []IInv
BY InvBegin, InvStep, PTL DEF Spec

-----------------------------------------------------------------------------
(* Whatever the order in which eventbus_emit's threads leave the mutex and  *)
(* get to the file: when none is in between, events.log has each number     *)
(* once and the metrics have counted as many.                               *)
THEOREM EveryEventLogged == Spec => []LogComplete
<1>1. IInv => LogComplete
  <2> SUFFICES ASSUME IInv, \A t \in Emitters : emitter[t].at = "idle"
               PROVE  /\ IsInjective(log)
                      /\ {log[i].seq : i \in DOMAIN log} = 0 .. (total - 1)
                      /\ counted = total
    BY DEF LogComplete, IInv
  <2>1. Pending = {} /\ Busy = {}
    BY DEF Pending, Busy
  <2>2. DOMAIN log = 1 .. Len(log) /\ \A i \in 1 .. Len(log) : log[i] \in Event
    BY DEF IInv, TypeOK
  <2>3. \A i \in DOMAIN log : log[i].seq \in 0 .. (total - 1)
    BY <2>2, EventsAssumption DEF IInv, TypeOK, NumbersOnce, Fresh, Event
  <2>4. \A k \in 0 .. (total - 1) : \E i \in DOMAIN log : log[i].seq = k
    BY <2>1, <2>2 DEF IInv, NumbersOnce
  <2>5. {log[i].seq : i \in DOMAIN log} = 0 .. (total - 1)
    BY <2>3, <2>4
  <2>6. IsInjective(log)
    BY <2>2 DEF IInv, NumbersOnce, IsInjective
  <2>7. counted = total
    BY <2>1, FS_EmptySet, EventsAssumption DEF IInv, TypeOK, CountsOnce
  <2> QED BY <2>5, <2>6, <2>7
<1> QED BY <1>1, BusInvariant, PTL

(* What eventbus_json_recent sends is an unbroken run; what the commands in *)
(* two critical sections print is never older than what they asked for, and *)
(* never a slot that was not used yet.                                      *)
THEOREM ReadersSeeCurrent == Spec => []ReadsCurrent
<1>1. IInv => ReadsCurrent
  BY DEF IInv
<1> QED BY <1>1, BusInvariant, PTL

(* The window of replay_events_file holds the last lines of the log. *)
LEMMA WindowProps ==
    ASSUME NEW lines \in Seq(Event)
    PROVE  \E off \in 0 .. Len(lines) :
             /\ off = IF Len(lines) > RingSize THEN Len(lines) - RingSize ELSE 0
             /\ Window(lines) \in Seq(Event)
             /\ DOMAIN Window(lines) = 1 .. (Len(lines) - off)
             /\ \A i \in 1 .. (Len(lines) - off) : Window(lines)[i] = lines[off + i]
<1> DEFINE n == Len(lines)
           off == IF n > RingSize THEN n - RingSize ELSE 0
<1>0. n \in Nat /\ RingSize \in Nat /\ RingSize > 0
  BY RingAssumption
<1>1. off \in 0 .. n
  BY <1>0
<1>2. Window(lines) = SubSeq(lines, off + 1, n)
  BY <1>0 DEF Window
<1> HIDE DEF off, n
<1>3. /\ SubSeq(lines, off + 1, n) \in Seq(Event)
      /\ Len(SubSeq(lines, off + 1, n)) = n - off
      /\ \A i \in 1 .. (n - off) : SubSeq(lines, off + 1, n)[i] = lines[off + i]
  BY <1>0, <1>1 DEF n
<1>4. DOMAIN Window(lines) = 1 .. (n - off)
  BY <1>2, <1>3
<1> QED BY <1>1, <1>2, <1>3, <1>4 DEF off, n

(* The replay of a log that is complete and in order, as eventbus_init      *)
(* would do it, gives back the ring and the next number.                    *)
THEOREM ReplayIsExact == Spec => []ReplayRestores
<1>1. IInv => ReplayRestores
  <2> SUFFICES ASSUME IInv, \A t \in Emitters : emitter[t].at = "idle",
                      \A i \in DOMAIN log : log[i].seq = i - 1
               PROVE  ReplayedRing(log) = ring /\ ReplayedTotal(log) = total
    BY DEF ReplayRestores
  <2> DEFINE n == Len(log)
             w == Window(log)
             hits(s) == {i \in DOMAIN w : Slot(w[i].seq) = s}
  <2>0. /\ RingSize \in Nat /\ RingSize > 0 /\ total \in Nat
        /\ log \in Seq(Event) /\ n \in Nat /\ DOMAIN log = 1 .. n
    BY RingAssumption, EventsAssumption DEF IInv, TypeOK
  <2>1. \A i \in 1 .. n : i - 1 < total /\ Fresh(log[i]) /\ log[i].seq = i - 1
    BY <2>0 DEF IInv, NumbersOnce, Fresh
  <2>2. \A k \in 0 .. (total - 1) : \E i \in 1 .. n : i - 1 = k
    <3>1. Pending = {}
      BY DEF Pending
    <3> QED BY <2>1, <3>1 DEF IInv, NumbersOnce
  <2>3. n = total
    <3>1. n > 0 => n \in 1 .. n
      BY <2>0
    <3>2. n <= total
      BY <2>0, <2>1, <3>1
    <3>3. total > 0 => total - 1 \in 0 .. (total - 1)
      BY <2>0
    <3>4. total <= n
      BY <2>0, <2>2, <3>3
    <3> HIDE DEF n
    <3>5. n \in Nat /\ total \in Nat
      BY <2>0
    <3> QED BY <3>2, <3>4, <3>5
  <2>4. ReplayedTotal(log) = total
    <3>1. CASE log = <<>>
      BY <2>3, <3>1 DEF ReplayedTotal
    <3>2. CASE log # <<>>
      <4>1. n \in 1 .. n
        BY <2>0, <3>2
      <4> QED BY <2>0, <2>1, <2>3, <3>2, <4>1 DEF ReplayedTotal
    <3> QED BY <3>1, <3>2
  <2>5. PICK off \in 0 .. n :
          /\ off = IF n > RingSize THEN n - RingSize ELSE 0
          /\ DOMAIN w = 1 .. (n - off)
          /\ \A i \in 1 .. (n - off) : w[i] = log[off + i]
    BY <2>0, WindowProps
  <2> HIDE DEF n, w
  <2>6. ASSUME NEW i \in DOMAIN w
        PROVE  /\ w[i].seq = off + i - 1 /\ off + i - 1 \in Nat /\ off + i - 1 < total
               /\ total <= (off + i - 1) + RingSize
               /\ ring[Slot(w[i].seq)] = w[i]
    <3>1. off + i \in 1 .. n /\ w[i] = log[off + i]
      BY <2>0, <2>5
    <3>2. w[i].seq = off + i - 1
      BY <2>0, <2>1, <2>5, <3>1
    <3>3. total <= (off + i - 1) + RingSize /\ off + i - 1 < total /\ off + i - 1 \in Nat
      BY <2>0, <2>3, <2>5
    <3>4. Fresh(w[i])
      BY <2>1, <3>1
    <3> QED BY <3>2, <3>3, <3>4 DEF Fresh
  <2>7. ASSUME NEW s \in Slots
        PROVE  (IF hits(s) = {} THEN Empty
                ELSE w[CHOOSE i \in hits(s) : \A j \in hits(s) : j <= i]) = ring[s]
    <3>0. s \in Nat /\ s < RingSize
      BY <2>0 DEF Slots
    <3>1. CASE s < total
      <4> DEFINE k == ring[s].seq
      <4>1. Slot(k) = s /\ k < total /\ total <= k + RingSize
        BY <3>1 DEF IInv, RingOwned, SlotOwned
      <4>2. k \in Nat
        BY EventsAssumption DEF IInv, TypeOK, Event
      <4> HIDE DEF k
      <4>3. k + 1 - off \in DOMAIN w
        BY <2>0, <2>3, <2>5, <4>1, <4>2
      <4>4. w[k + 1 - off].seq = k
        <5>1. w[k + 1 - off].seq = off + (k + 1 - off) - 1
          BY <2>6, <4>3
        <5> QED BY <2>0, <2>5, <4>2, <5>1
      <4>5. k + 1 - off \in hits(s)
        BY <4>1, <4>3, <4>4
      <4>6. ASSUME NEW i \in hits(s) PROVE i = k + 1 - off
        <5>1. i \in DOMAIN w /\ Slot(w[i].seq) = s
          OBVIOUS
        <5> DEFINE m == off + i - 1
        <5>2. Slot(m) = s /\ m \in Nat /\ m < total /\ total <= m + RingSize
          BY <2>6, <5>1
        <5> HIDE DEF m
        <5>3. ~(m < k) /\ ~(k < m)
          <6>1. m < k => k < m + RingSize
            BY <2>0, <4>1, <4>2, <5>2
          <6>2. k < m => m < k + RingSize
            BY <2>0, <4>1, <4>2, <5>2
          <6> QED BY <4>1, <4>2, <5>2, <6>1, <6>2, SlotsDiffer
        <5>4. m = k
          BY <4>2, <5>2, <5>3
        <5> QED BY <2>0, <2>5, <4>2, <5>1, <5>4 DEF m
      <4>7. k + 1 - off \in Int
        BY <2>0, <2>5, <4>2
      <4> DEFINE j == k + 1 - off
                 H == hits(s)
      <4>8. H = {j}
        BY <4>5, <4>6
      <4>9. j \in DOMAIN w /\ j \in Int /\ j <= j
        BY <4>3, <4>7
      <4> HIDE DEF j, H
      <4>10. (CHOOSE i \in H : \A x \in H : x <= i) = j
        BY <4>8, <4>9
      <4>11. ring[Slot(w[j].seq)] = w[j] /\ Slot(w[j].seq) = s
        BY <2>6, <4>5, <4>9 DEF j
      <4> QED BY <4>8, <4>10, <4>11 DEF H
    <3>2. CASE ~(s < total)
      <4>1. off = 0 /\ n < RingSize
        BY <2>0, <2>3, <2>5, <3>0, <3>2
      <4>2. \A i \in DOMAIN w : Slot(w[i].seq) # s
        <5> TAKE i \in DOMAIN w
        <5> DEFINE m == off + i - 1
        <5>1. w[i].seq = m /\ m \in Nat /\ m < total
          BY <2>6
        <5> HIDE DEF m
        <5> QED BY <2>0, <2>3, <3>0, <3>2, <5>1, SlotAtMost, SlotInRing DEF Slots
      <4>3. hits(s) = {}
        BY <4>2
      <4>4. ring[s] = Empty
        BY <3>2 DEF IInv, RingOwned, SlotOwned
      <4> QED BY <4>3, <4>4
    <3> QED BY <3>1, <3>2
  <2>8. ReplayedRing(log) = [s \in Slots |-> ring[s]]
    BY <2>7 DEF ReplayedRing, w
  <2>9. ring = [s \in Slots |-> ring[s]]
    BY DEF IInv, TypeOK
  <2> QED BY <2>4, <2>8, <2>9
<1> QED BY <1>1, BusInvariant, PTL

-----------------------------------------------------------------------------
(* The refinement of EventLog *)

recent == InRing(total - Available(total), total)

(* Taking a slot for a new event is the event of the log: the tail moves on *)
(* by one.                                                                  *)
LEMMA EmitIsHappens ==
    ASSUME IInv, NEW t \in Emitters, EmitRing(t)
    PROVE  Abstract!Happens(t)
<1> DEFINE e == [seq |-> total, by |-> t]
           n == Available(total)
           m == Available(total + 1)
           a == total - n
           off == n + 1 - m
           r == InRing(a, total)
           A == Append(r, e)
           T == SubSeq(A, off + 1, n + 1)
<1>0. /\ total \in Nat /\ total < MaxEvents /\ MaxEvents \in Nat /\ RingSize \in Nat
      /\ RingSize > 0 /\ ring \in [Slots -> Event] /\ TypeOK /\ RingOwned
  BY RingAssumption, EventsAssumption DEF IInv, TypeOK, EmitRing
<1>1. total' = total + 1 /\ ring' = [ring EXCEPT ![Slot(total)] = e]
  BY DEF EmitRing
<1>2. /\ n \in 0 .. RingSize /\ m \in 1 .. RingSize /\ a \in Nat /\ off \in {0, 1}
      /\ total + 1 - m = a + off /\ a + n = total /\ n = total - a
  BY <1>0 DEF Available
<1>3. e \in Event
  BY <1>0 DEF Event
<1>4. r \in Seq(Event) /\ Len(r) = n /\ \A i \in 1 .. n : r[i] = ring[Slot(a + i - 1)]
  <2> HIDE DEF a, n
  <2>1. a <= total /\ total <= total
    BY <1>0, <1>2
  <2> QED BY <1>0, <1>2, <2>1, InRingProps
<1> HIDE DEF e, r, n, m, a, off
<1>5. /\ A \in Seq(Event) /\ Len(A) = n + 1 /\ A[n + 1] = e
      /\ \A i \in 1 .. n : A[i] = ring[Slot(a + i - 1)]
  <2>1. /\ A \in Seq(Event) /\ Len(A) = Len(r) + 1 /\ A[Len(r) + 1] = e
        /\ \A i \in 1 .. Len(r) : A[i] = r[i]
    BY <1>3, <1>4, AppendProperties
  <2> HIDE DEF A
  <2> QED BY <1>4, <2>1
<1> HIDE DEF A
<1>6. /\ T \in Seq(Event) /\ Len(T) = m
      /\ \A i \in 1 .. m : T[i] = A[off + i]
  <2>1. /\ T \in Seq(Event) /\ Len(T) = (n + 1) - (off + 1) + 1
        /\ \A i \in 1 .. ((n + 1) - (off + 1) + 1) : T[i] = A[(off + 1) + i - 1]
    <3>1. \A i \in (off + 1) .. (n + 1) : A[i] \in Event
      <4> TAKE i \in (off + 1) .. (n + 1)
      <4>1. i \in 1 .. Len(A)
        BY <1>2, <1>5
      <4> QED BY <1>5, <4>1, ElementOfSeq
    <3>2. off + 1 \in Int /\ n + 1 \in Int /\ off + 1 <= n + 1
      BY <1>0, <1>2 DEF off
    <3> QED BY <3>1, <3>2, SubSeqProperties
  <2>2. (n + 1) - (off + 1) + 1 = m
    BY <1>2 DEF off
  <2>3. \A i \in 1 .. m : (off + 1) + i - 1 = off + i
    BY <1>2
  <2> QED BY <2>1, <2>2, <2>3
<1>7. Abstract!Tail_(A) = T
  BY <1>0, <1>2, <1>5 DEF Abstract!Tail_, n, m, off, Available
<1> HIDE DEF T
<1>8. ASSUME NEW i \in 1 .. m PROVE ring'[Slot(total + 1 - m + i - 1)] = T[i]
  <2> DEFINE j == off + i
             k == a + j - 1
  <2>1. j \in 1 .. (n + 1) /\ k \in Nat /\ total + 1 - m + i - 1 = k /\ k <= total
    BY <1>0, <1>2 DEF off
  <2>2. CASE j = n + 1
    <3>1. k = total
      BY <1>0, <1>2, <2>2
    <3> HIDE DEF j, k
    <3>2. Slot(total) \in Slots
      BY <1>0, SlotInRing
    <3> QED BY <1>0, <1>1, <1>5, <1>6, <2>1, <2>2, <3>1, <3>2 DEF j
  <2>3. CASE j # n + 1
    <3>1. j \in 1 .. n /\ k < total /\ total < k + RingSize
      BY <1>0, <1>2, <2>1, <2>3
    <3>2. A[j] = ring[Slot(k)]
      BY <1>5, <3>1
    <3>3. T[i] = A[j]
      BY <1>6
    <3> HIDE DEF j, k
    <3>4. Slot(k) # Slot(total) /\ Slot(k) \in Slots
      BY <1>0, <2>1, <3>1, SlotsDiffer, SlotInRing
    <3> QED BY <1>0, <1>1, <2>1, <3>2, <3>3, <3>4
  <2> QED BY <2>2, <2>3
<1>9. recent' = [i \in 1 .. (total + 1 - (total + 1 - m)) |-> ring'[Slot(total + 1 - m + i - 1)]]
  BY <1>0, <1>1 DEF recent, InRing, m, Available
<1>10. total + 1 - (total + 1 - m) = m
  BY <1>0, <1>2
<1>11. T = [i \in 1 .. m |-> T[i]]
  BY <1>2, <1>6
<1>12. recent' = T
  BY <1>8, <1>9, <1>10, <1>11
<1>13. A = Append(recent, e)
  BY DEF A, r, a, n, recent
<1> QED BY <1>1, <1>7, <1>12, <1>13 DEF Abstract!Happens, recent, e

(* Every other step but the new session leaves the log alone. *)
LEMMA RecentAlone ==
    ASSUME UNCHANGED <<total, ring>>
    PROVE  UNCHANGED <<total, recent>>
BY DEF recent, InRing, Available, Slot

(* A bus without events has an empty window. *)
LEMMA RecentEmpty == total = 0 => recent = <<>>
<1> SUFFICES ASSUME total = 0 PROVE recent = <<>>
  OBVIOUS
<1>1. 1 .. (total - (total - Available(total))) = {}
  BY RingAssumption DEF Available
<1> QED BY <1>1 DEF recent, InRing

(* The ring under its mutex implements the log that eventbus.h promises:    *)
(* the events numbered from 0 in their order, the last RingSize to see.     *)
THEOREM RingImplementsLog == Spec => ImplementsLog
<1>1. Init => Abstract!Init
  BY RecentEmpty DEF Init, Abstract!Init, recent
<1>2. IInv /\ [Next]_vars => [Abstract!Next]_<<total, recent>>
  <2> SUFFICES ASSUME IInv, [Next]_vars, ~UNCHANGED <<total, recent>> PROVE Abstract!Next
    OBVIOUS
  <2>1. ASSUME NEW t \in Emitters, EmitRing(t) PROVE Abstract!Next
    BY <2>1, EmitIsHappens DEF Abstract!Next
  <2>2. CASE NewSession
    <3>1. total' = 0
      BY <2>2, ReplayNothing DEF NewSession, eventbus_init
    <3>2. (total = 0 => recent = <<>>)'
      BY RecentEmpty, PTL
    <3> QED BY <3>1, <3>2 DEF Abstract!Next, Abstract!NewSession, recent
  <2>3. CASE UNCHANGED <<total, ring>>
    BY <2>3, RecentAlone
  <2>4. NewSession \/ UNCHANGED <<total, ring>> \/ \E t \in Emitters : EmitRing(t)
    BY DEF Next, vars, EmitStep, EmitLog, EmitCount, Follow, DrainRead, PrintRing, PrintRead,
           eventbus_json_recent
  <2> QED BY <2>1, <2>2, <2>3, <2>4
<1> QED BY <1>1, <1>2, BusInvariant, PTL DEF Spec, ImplementsLog, Abstract!Spec, recent
=============================================================================
