--------------------------- MODULE Storage_proofs ---------------------------
(***************************************************************************)
(* Proofs about Storage, for any number of files, names, tags, directories *)
(* and any size of the registry.                                           *)
(***************************************************************************)
EXTENDS Storage, SeqFilter_proofs, FiniteSetTheorems

(* No name and tag has two lines. *)
KeysOnce(s) ==
    \A i, j \in 1 .. Len(s) : s[i].name = s[j].name /\ s[i].tag = s[j].tag => i = j

(* A file is in the hands of the thread that truncated it last. *)
Writing(t, f) == job[t].at = "write" /\ job[t].f = f /\ by[f] = t

(* The thread has found the file and will not write it again. *)
Passed(t, f) ==
    /\ f \notin job[t].missed
    /\ \/ job[t].at = "mark"
       \/ job[t].at \in {"copy", "write"} /\ f < job[t].f
       \/ job[t].at = "write" /\ f = job[t].f /\ by[f] # t

(* What a thread counts as copied is whole, unless another one has          *)
(* truncated it: that one is about to write it, or could not.               *)
CopiedFull ==
    \A f \in Files :
        ((marker /\ f \notin missing) \/ (\E t \in Threads : Passed(t, f))) /\ data[f] # "full"
            => cut \/ \E u \in Threads : Writing(u, f)

(* Two threads prepare at once, or one prepares what is marked, only if the *)
(* directory was shared.                                                    *)
SharedKnown ==
    /\ \A t, u \in Threads : t # u /\ Preparing(t) /\ Preparing(u) => shared
    /\ \A t \in Threads : marker /\ Preparing(t) => shared
    /\ cut => shared

IdleReset == \A t \in Threads : job[t].at = "idle" => job[t].f = 1

(* A child that has met no other one finds what it has made. *)
Company ==
    /\ \A t, u \in Threads : t # u /\ Inside(t) /\ Inside(u) => job[t].met
    /\ \A t \in Threads : Inside(t) /\ ~job[t].met =>
            old /\ (job[t].at = "umount" => job[t].mounted)

(* The inductive invariant. *)
TreeInv == CopiedFull /\ SharedKnown /\ IdleReset /\ Company
IInv == TypeOK /\ KeysOnce(file) /\ TreeInv

-----------------------------------------------------------------------------
(* The registry *)

(* What find_record returns. *)
LEMMA FindProps ==
    ASSUME NEW s \in Seq(Lines), NEW i
    PROVE  /\ find_record(s, i) \in 0 .. Len(s)
           /\ find_record(s, i) > 0 => /\ s[find_record(s, i)].name = i.name
                                       /\ s[find_record(s, i)].tag = i.tag
           /\ find_record(s, i) = 0 =>
                 \A k \in 1 .. Len(s) : ~(s[k].name = i.name /\ s[k].tag = i.tag)
<1> DEFINE I == {k \in 1 .. Len(s) : s[k].name = i.name /\ s[k].tag = i.tag}
<1>1. find_record(s, i) = IF I # {} THEN Min(I) ELSE 0
  BY DEF find_record, SelectInSeq
<1>2. Len(s) \in Nat
  OBVIOUS
<1>3. CASE I = {}
  BY <1>1, <1>2, <1>3
<1>4. CASE I # {}
  <2>1. I \subseteq Nat
    BY <1>2
  <2> DEFINE R == OpToRel(<, Nat)
  <2>2. PICK m \in I : \A k \in I : ~(<<k, m>> \in R)
    <3> HIDE DEF I
    <3>1. IsWellFoundedOn(R, Nat)
      BY NatLessThanWellFounded
    <3> HIDE DEF R
    <3> QED BY <1>4, <2>1, <3>1, WFMin
  <2>3. m \in I /\ \A k \in I : m <= k
    <3> HIDE DEF I
    <3>1. \A k \in I : ~(k < m) /\ k \in Nat /\ m \in Nat
      BY <2>1, <2>2 DEF OpToRel
    <3> QED BY <3>1
  <2>4. Min(I) \in I
    <3> HIDE DEF I
    <3> QED BY <2>3 DEF Min
  <2> QED BY <1>1, <1>2, <1>4, <2>4
<1> QED BY <1>3, <1>4

(* Dropping lines keeps names and tags apart. *)
LEMMA FilterKeys ==
    ASSUME NEW s \in Seq(Lines), KeysOnce(s), NEW S
    PROVE  Filter(s, S) \in Seq(Lines) /\ KeysOnce(Filter(s, S))
<1> DEFINE F == Filter(s, S)
<1>1. F \in Seq(Lines)
  BY FilterKeeps
<1>2. PICK g : Keeps(g, F, s, S, Len(s))
  BY FilterKeeps
<1>3. Len(F) \in Nat /\ Len(s) \in Nat
  BY <1>1
<1> HIDE DEF F
<1>4. ASSUME NEW i \in 1 .. Len(F), NEW j \in 1 .. Len(F),
             F[i].name = F[j].name, F[i].tag = F[j].tag
      PROVE  i = j
  <2>1. /\ g[i] \in 1 .. Len(s) /\ F[i] = s[g[i]]
        /\ g[j] \in 1 .. Len(s) /\ F[j] = s[g[j]]
    BY <1>2 DEF Keeps
  <2>2. g[i] = g[j]
    BY <1>4, <2>1 DEF KeysOnce
  <2>3. (i < j => g[i] < g[j]) /\ (j < i => g[j] < g[i])
    BY <1>2 DEF Keeps
  <2>4. ~(g[i] < g[j]) /\ ~(g[j] < g[i])
    BY <1>3, <2>1, <2>2
  <2> QED BY <1>3, <2>3, <2>4
<1>5. KeysOnce(F)
  BY <1>4 DEF KeysOnce
<1> QED BY <1>1, <1>5 DEF F

(* What load_registry makes of the file. *)
LEMMA LoadProps ==
    ASSUME TypeOK, KeysOnce(file)
    PROVE  /\ load_registry \in Seq(Lines) /\ KeysOnce(load_registry)
           /\ Len(load_registry) <= Cap
           /\ \A k \in 1 .. Len(load_registry) : load_registry[k].name # ""
<1> DEFINE S == {k \in DOMAIN file : file[k].name # ""}
           w == Filter(file, S)
           m == IF Len(w) < Cap THEN Len(w) ELSE Cap
           r == SubSeq(w, 1, m)
<1>0. file \in Seq(Lines) /\ Cap \in Nat
  BY BoundsAssumption DEF TypeOK
<1>1. w \in Seq(Lines) /\ KeysOnce(w)
  BY <1>0, FilterKeys
<1>2. \A k \in 1 .. Len(w) : w[k].name # ""
  <2>1. PICK g : Keeps(g, w, file, S, Len(file))
    BY <1>0, FilterKeeps
  <2> HIDE DEF w
  <2> QED BY <2>1 DEF Keeps
<1>3. load_registry = r
  BY DEF load_registry
<1> HIDE DEF w
<1>4. m \in 0 .. Len(w) /\ m <= Cap /\ Len(w) \in Nat /\ m \in Nat
  BY <1>0, <1>1
<1> HIDE DEF m
<1>5. r \in Seq(Lines) /\ Len(r) = m /\ \A k \in 1 .. m : r[k] = w[k] /\ k \in 1 .. Len(w)
  BY <1>1, <1>4
<1> HIDE DEF r
<1>6. KeysOnce(r)
  BY <1>1, <1>5 DEF KeysOnce
<1> QED BY <1>2, <1>3, <1>4, <1>5, <1>6

Key(r)    == [name |-> r.name, tag |-> r.tag]
Images    == [name : Names \ {""}, tag : (Tags \ {""}) \cup {Latest}]
Refs      == [name : Names, tag : (Tags \ {""}) \cup {Latest}]

(* What parse_ref returns has a tag. *)
LEMMA ParseTyped == ASSUME NEW text \in Texts PROVE parse_ref(text) \in Refs
BY DEF Texts, parse_ref, Refs, Latest

(* image_register_internal changes one line or adds one, and what is loaded *)
(* of the file afterwards are these lines, without one that has no name.    *)
LEMMA RegisterProps ==
    ASSUME TypeOK, KeysOnce(file), NEW i \in Refs, NEW d \in Dirs,
           image_register_internal(i, d)
    PROVE  LET s == load_registry
               e == [name |-> i.name, tag |-> i.tag, dir |-> d]
           IN  /\ file' \in Seq(Lines) /\ KeysOnce(file')
               /\ \/ \E k \in 1 .. Len(s) :
                       /\ s[k].name = i.name /\ s[k].tag = i.tag
                       /\ Len(file') = Len(s)
                       /\ \A j \in 1 .. Len(s) : file'[j] = IF j = k THEN e ELSE s[j]
                  \/ /\ \A k \in 1 .. Len(s) : ~(s[k].name = i.name /\ s[k].tag = i.tag)
                     /\ Len(s) < Cap
                     /\ Len(file') = Len(s) + 1 /\ file'[Len(s) + 1] = e
                     /\ \A j \in 1 .. Len(s) : file'[j] = s[j]
<1> DEFINE s == load_registry
           e == [name |-> i.name, tag |-> i.tag, dir |-> d]
           n == Len(s)
           k == find_record(s, i)
<1>0. s \in Seq(Lines) /\ KeysOnce(s) /\ n \in Nat
  <2>1. s \in Seq(Lines) /\ KeysOnce(s)
    BY LoadProps
  <2> HIDE DEF s
  <2> QED BY <2>1
<1>1. e \in Lines
  BY DEF Lines, Refs
<1>2. /\ k \in 0 .. n
      /\ k > 0 => s[k].name = i.name /\ s[k].tag = i.tag
      /\ k = 0 => \A j \in 1 .. n : ~(s[j].name = i.name /\ s[j].tag = i.tag)
  BY <1>0, FindProps
<1>3. \/ k > 0 /\ file' = [s EXCEPT ![k].dir = d]
      \/ k = 0 /\ n < Cap /\ file' = Append(s, e)
  BY DEF image_register_internal
<1> HIDE DEF s, k
<1>4. CASE k > 0 /\ file' = [s EXCEPT ![k].dir = d]
  <2>1. k \in 1 .. n /\ DOMAIN s = 1 .. n /\ s[k] \in Lines
    BY <1>0, <1>2, <1>4
  <2>2. [s[k] EXCEPT !.dir = d] = e
    BY <1>2, <1>4, <2>1 DEF Lines
  <2>3. file' = [s EXCEPT ![k] = e]
    BY <1>4, <2>2
  <2>4. /\ DOMAIN file' = 1 .. n
        /\ \A j \in 1 .. n : file'[j] = IF j = k THEN e ELSE s[j]
    BY <2>1, <2>3
  <2>5. file' \in Seq(Lines) /\ Len(file') = n
    <3>1. file' \in [1 .. n -> Lines]
      BY <1>0, <1>1, <2>1, <2>3
    <3> QED BY <1>0, <3>1
  <2>6. \A j \in 1 .. n : file'[j].name = s[j].name /\ file'[j].tag = s[j].tag
    BY <1>2, <1>4, <2>4
  <2>7. KeysOnce(file')
    BY <1>0, <2>5, <2>6 DEF KeysOnce
  <2> QED BY <1>2, <1>4, <2>1, <2>4, <2>5, <2>7 DEF s
<1>5. CASE k = 0 /\ n < Cap /\ file' = Append(s, e)
  <2>1. /\ file' \in Seq(Lines) /\ Len(file') = n + 1 /\ file'[n + 1] = e
        /\ \A j \in 1 .. n : file'[j] = s[j]
    BY <1>0, <1>1, <1>5, AppendProperties
  <2>2. \A j \in 1 .. n : ~(s[j].name = i.name /\ s[j].tag = i.tag)
    BY <1>2, <1>5
  <2>3. \A j \in 1 .. (n + 1) : j \in 1 .. n \/ j = n + 1
    BY <1>0
  <2>4. KeysOnce(file')
    BY <1>0, <2>1, <2>2, <2>3 DEF KeysOnce
  <2> QED BY <1>5, <2>1, <2>2, <2>4 DEF s
<1> QED BY <1>3, <1>4, <1>5

(* The first m lines have names and the others none. *)
NamedTo(t, m) ==
    /\ \A k \in 1 .. m : t[k].name # ""
    /\ \A k \in (m + 1) .. Len(t) : t[k].name = ""

(* Saved lines are loaded again, up to a last one without a name. *)
LEMMA LoadSaved ==
    ASSUME NEW t \in Seq(Lines), file' = t, NEW m \in 0 .. Len(t), m <= Cap, NamedTo(t, m)
    PROVE  load_registry' = SubSeq(t, 1, m)
<1> DEFINE n == Len(t)
           S == {k \in DOMAIN t : t[k].name # ""}
           w == Filter(t, S)
<1>0. n \in Nat /\ DOMAIN t = 1 .. n /\ m \in Nat /\ m <= n /\ Cap \in Nat
  BY BoundsAssumption
<1>1. (\A k \in 1 .. m : k \in S) /\ (\A k \in (m + 1) .. n : k \notin S)
  <2>1. \A k \in 1 .. m : k \in DOMAIN t
    BY <1>0
  <2>2. \A k \in 1 .. m : t[k].name # ""
    BY DEF NamedTo
  <2>3. \A k \in (m + 1) .. n : t[k].name = ""
    BY DEF NamedTo
  <2> QED BY <2>1, <2>2, <2>3, Zenon
<1>4. load_registry' = SubSeq(w, 1, IF Len(w) < Cap THEN Len(w) ELSE Cap)
  BY DEF load_registry
<1> HIDE DEF S
<1>2. w = SubSeq(t, 1, m)
  BY <1>1, FilterPrefix
<1> HIDE DEF w
<1>3. Len(w) = m
  BY <1>0, <1>2
<1>5. load_registry' = SubSeq(w, 1, m)
  BY <1>0, <1>3, <1>4
<1>6. SubSeq(w, 1, m) = w
  <2>1. w \in Seq(Lines)
    BY <1>0, <1>2
  <2>2. SubSeq(w, 1, m) \in Seq(Lines) /\ Len(SubSeq(w, 1, m)) = m
    BY <1>0, <1>3, <2>1
  <2>3. \A k \in 1 .. m : SubSeq(w, 1, m)[k] = w[k]
    BY <1>0, <1>3, <2>1
  <2> QED BY <1>3, <2>1, <2>2, <2>3, SeqEqual
<1> QED BY <1>2, <1>5, <1>6

(* The map that lines with different names and tags stand for. *)
LEMMA MapProps ==
    ASSUME NEW s \in Seq(Lines), KeysOnce(s)
    PROVE  /\ DOMAIN MapOf(s) = {Key(s[k]) : k \in 1 .. Len(s)}
           /\ MapOf(s) = [j \in DOMAIN MapOf(s) |-> MapOf(s)[j]]
           /\ \A k \in 1 .. Len(s) : MapOf(s)[Key(s[k])] = s[k].dir
           /\ Cardinality(DOMAIN MapOf(s)) = Len(s)
<1> DEFINE n == Len(s)
           D == {Key(s[k]) : k \in 1 .. n}
<1>0. n \in Nat /\ DOMAIN s = 1 .. n
  OBVIOUS
<1>1. MapOf(s) = [i \in D |-> s[find_record(s, i)].dir]
  BY <1>0 DEF MapOf, Key
<1>2. ASSUME NEW k \in 1 .. n PROVE find_record(s, Key(s[k])) = k
  <2> DEFINE i == Key(s[k])
             m == find_record(s, i)
  <2>1. i.name = s[k].name /\ i.tag = s[k].tag
    BY DEF Key
  <2>2. /\ m \in 0 .. n /\ (m > 0 => s[m].name = i.name /\ s[m].tag = i.tag)
        /\ (m = 0 => ~(s[k].name = i.name /\ s[k].tag = i.tag))
    BY FindProps
  <2> HIDE DEF m, i
  <2>3. m \in 1 .. n
    BY <1>0, <2>1, <2>2
  <2>4. m = k
    BY <1>0, <2>1, <2>2, <2>3 DEF KeysOnce
  <2> QED BY <2>4 DEF m, i
<1>3. \A k \in 1 .. n : MapOf(s)[Key(s[k])] = s[k].dir
  BY <1>1, <1>2
<1>4. Cardinality(D) = n
  <2> DEFINE h == [k \in 1 .. n |-> Key(s[k])]
  <2>1. h \in Bijection(1 .. n, D)
    <3>1. h \in [1 .. n -> D] /\ \A x \in D : \E k \in 1 .. n : h[k] = x
      OBVIOUS
    <3>2. \A a, b \in 1 .. n : h[a] = h[b] => a = b
      BY DEF KeysOnce, Key
    <3> QED BY <3>1, <3>2 DEF Bijection, Injection, Surjection, IsInjective
  <2>2. IsFiniteSet(1 .. n) /\ Cardinality(1 .. n) = n
    BY <1>0, FS_Interval
  <2> QED BY <2>1, <2>2, FS_Bijection DEF ExistsBijection
<1> QED BY <1>1, <1>3, <1>4

(* The lines t have one for i, which stands for d, and the other ones of s. *)
Gains(s, t, i, d) ==
    /\ \E k \in 1 .. Len(t) : Key(t[k]) = i
    /\ \A k \in 1 .. Len(t) : Key(t[k]) = i => t[k].dir = d
    /\ \A k \in 1 .. Len(t) : Key(t[k]) # i => \E j \in 1 .. Len(s) : t[k] = s[j]
    /\ \A j \in 1 .. Len(s) : Key(s[j]) # i => \E k \in 1 .. Len(t) : t[k] = s[j]

(* The lines t are those of s without one for i. *)
Loses(s, t, i) ==
    /\ \A k \in 1 .. Len(t) : Key(t[k]) # i /\ \E j \in 1 .. Len(s) : t[k] = s[j]
    /\ \A j \in 1 .. Len(s) : Key(s[j]) # i => \E k \in 1 .. Len(t) : t[k] = s[j]

(* The map M, with d for i, and without i. *)
Put(M, i, d) == [j \in DOMAIN M \cup {i} |-> IF j = i THEN d ELSE M[j]]
Drop(M, i) == [j \in DOMAIN M \ {i} |-> M[j]]

(* A line more or another directory in a line changes the map in one place. *)
LEMMA MapGains ==
    ASSUME NEW s \in Seq(Lines), KeysOnce(s), NEW t \in Seq(Lines), KeysOnce(t),
           NEW i, NEW d, Gains(s, t, i, d)
    PROVE  MapOf(t) = Put(MapOf(s), i, d)
<1> DEFINE Ms == MapOf(s)
           Mt == MapOf(t)
           X  == DOMAIN Ms \cup {i}
<1>1. /\ DOMAIN Ms = {Key(s[k]) : k \in 1 .. Len(s)}
      /\ \A k \in 1 .. Len(s) : Ms[Key(s[k])] = s[k].dir
  BY MapProps
<1>2. /\ DOMAIN Mt = {Key(t[k]) : k \in 1 .. Len(t)}
      /\ \A k \in 1 .. Len(t) : Mt[Key(t[k])] = t[k].dir
      /\ Mt = [j \in DOMAIN Mt |-> Mt[j]]
  BY MapProps
<1> HIDE DEF Ms, Mt
<1>3. ASSUME NEW j \in DOMAIN Mt
      PROVE  j \in X /\ Mt[j] = IF j = i THEN d ELSE Ms[j]
  <2>1. PICK k \in 1 .. Len(t) : j = Key(t[k])
    BY <1>2
  <2>2. Mt[j] = t[k].dir
    BY <1>2, <2>1
  <2>3. CASE j = i
    BY <2>1, <2>2, <2>3, Zenon DEF Gains
  <2>4. CASE j # i
    <3>1. PICK h \in 1 .. Len(s) : t[k] = s[h]
      BY <2>1, <2>4, Zenon DEF Gains
    <3> QED BY <1>1, <2>1, <2>2, <2>4, <3>1, Zenon
  <2> QED BY <2>3, <2>4
<1>4. ASSUME NEW j \in X PROVE j \in DOMAIN Mt
  <2>1. CASE j = i
    BY <1>2, <2>1, Zenon DEF Gains
  <2>2. CASE j # i
    <3>1. PICK h \in 1 .. Len(s) : j = Key(s[h])
      BY <1>1, <2>2
    <3>2. PICK k \in 1 .. Len(t) : t[k] = s[h]
      BY <2>2, <3>1, Zenon DEF Gains
    <3> QED BY <1>2, <3>1, <3>2, Zenon
  <2> QED BY <2>1, <2>2
<1>5. DOMAIN Mt = X
  BY <1>3, <1>4
<1>6. Mt = Put(Ms, i, d)
  BY <1>2, <1>3, <1>5 DEF Put
<1> QED BY <1>6 DEF Ms, Mt

(* A line less takes its name and tag out of the map. *)
LEMMA MapLoses ==
    ASSUME NEW s \in Seq(Lines), KeysOnce(s), NEW t \in Seq(Lines), KeysOnce(t),
           NEW i, Loses(s, t, i)
    PROVE  MapOf(t) = Drop(MapOf(s), i)
<1> DEFINE Ms == MapOf(s)
           Mt == MapOf(t)
           X  == DOMAIN Ms \ {i}
<1>1. /\ DOMAIN Ms = {Key(s[k]) : k \in 1 .. Len(s)}
      /\ \A k \in 1 .. Len(s) : Ms[Key(s[k])] = s[k].dir
  BY MapProps
<1>2. /\ DOMAIN Mt = {Key(t[k]) : k \in 1 .. Len(t)}
      /\ \A k \in 1 .. Len(t) : Mt[Key(t[k])] = t[k].dir
      /\ Mt = [j \in DOMAIN Mt |-> Mt[j]]
  BY MapProps
<1> HIDE DEF Ms, Mt
<1>3. ASSUME NEW j \in DOMAIN Mt PROVE j \in X /\ Mt[j] = Ms[j]
  <2>1. PICK k \in 1 .. Len(t) : j = Key(t[k])
    BY <1>2
  <2>2. PICK h \in 1 .. Len(s) : t[k] = s[h]
    BY Zenon DEF Loses
  <2>3. j # i
    BY <2>1, Zenon DEF Loses
  <2> QED BY <1>1, <1>2, <2>1, <2>2, <2>3, Zenon
<1>4. ASSUME NEW j \in X PROVE j \in DOMAIN Mt
  <2>1. PICK h \in 1 .. Len(s) : j = Key(s[h])
    BY <1>1
  <2>2. PICK k \in 1 .. Len(t) : t[k] = s[h]
    BY <2>1, Zenon DEF Loses
  <2> QED BY <1>2, <2>1, <2>2, Zenon
<1>5. DOMAIN Mt = X
  BY <1>3, <1>4
<1>6. Mt = Drop(Ms, i)
  BY <1>2, <1>3, <1>5 DEF Drop
<1> QED BY <1>6 DEF Ms, Mt

(* A name and a tag make one key. *)
LEMMA KeyOfRef ==
    ASSUME NEW r \in Lines, NEW i \in Refs
    PROVE  Key(r) = i <=> r.name = i.name /\ r.tag = i.tag
<1>1. i = [name |-> i.name, tag |-> i.tag]
  BY DEF Refs
<1>2. ASSUME Key(r) = i PROVE r.name = i.name /\ r.tag = i.tag
  BY <1>2 DEF Key
<1>3. ASSUME r.name = i.name, r.tag = i.tag PROVE Key(r) = i
  BY <1>1, <1>3 DEF Key
<1> QED BY <1>2, <1>3

(* The refinement counts images as this module does. *)
LEMMA SameCount == ASSUME NEW S PROVE Abstract!Cardinality(S) = Cardinality(S)
BY DEF Abstract!Cardinality, Cardinality

(* What is left of a list when all of it is taken. *)
LEMMA WholeSeq ==
    ASSUME NEW s \in Seq(Lines), NEW t \in Seq(Lines), Len(s) <= Len(t),
           \A k \in 1 .. Len(s) : t[k] = s[k]
    PROVE  SubSeq(t, 1, Len(s)) = s
<1> DEFINE n == Len(s)
           r == SubSeq(t, 1, n)
<1>1. n \in Nat /\ n <= Len(t) /\ Len(t) \in Nat
  OBVIOUS
<1>2. r \in Seq(Lines) /\ Len(r) = n /\ \A k \in 1 .. n : r[k] = t[k]
  BY <1>1
<1> HIDE DEF r
<1>3. r = s
  BY <1>2, SeqEqual
<1> QED BY <1>3 DEF r

(* A name that is given is registered, and a missing one changes nothing.   *)
LEMMA RegisterStep ==
    ASSUME TypeOK, KeysOnce(file), NEW i \in Refs, NEW d \in Dirs,
           image_register_internal(i, d)
    PROVE  /\ file' \in Seq(Lines) /\ KeysOnce(file')
           /\ i.name # "" => i \in Images /\ Abstract!Register(i, d)
           /\ i.name = "" => load_registry' = load_registry
<1> DEFINE s == load_registry
           t == file'
           e == [name |-> i.name, tag |-> i.tag, dir |-> d]
           Changed == \E k \in 1 .. Len(s) :
                        /\ s[k].name = i.name /\ s[k].tag = i.tag
                        /\ Len(t) = Len(s)
                        /\ \A j \in 1 .. Len(s) : t[j] = IF j = k THEN e ELSE s[j]
           Added == /\ \A k \in 1 .. Len(s) : ~(s[k].name = i.name /\ s[k].tag = i.tag)
                    /\ Len(s) < Cap
                    /\ Len(t) = Len(s) + 1 /\ t[Len(s) + 1] = e
                    /\ \A j \in 1 .. Len(s) : t[j] = s[j]
<1>1. s \in Seq(Lines) /\ KeysOnce(s) /\ Len(s) <= Cap
  BY LoadProps
<1>9. \A k \in 1 .. Len(s) : s[k].name # ""
  BY LoadProps
<1>2. t \in Seq(Lines) /\ KeysOnce(t) /\ (Changed \/ Added)
  BY RegisterProps
<1>3. ASSUME NEW m \in 0 .. Len(t), m <= Cap, NamedTo(t, m)
      PROVE  load_registry' = SubSeq(t, 1, m)
  BY <1>2, <1>3, LoadSaved
<1>4. Abstract!Register(i, d) <=>
        /\ i \in DOMAIN MapOf(s) \/ Cardinality(DOMAIN MapOf(s)) < Cap
        /\ MapOf(load_registry') = Put(MapOf(s), i, d)
  BY SameCount DEF Abstract!Register, Put
<1> HIDE DEF s, t
<1>5. Len(s) \in Nat /\ Len(t) \in Nat /\ Cap \in Nat
  <2>1. t \in Seq(Lines)
    BY <1>2
  <2> QED BY <1>1, <2>1, BoundsAssumption
<1>6. ASSUME i.name # "" PROVE i \in Images /\ Abstract!Register(i, d)
  <2>1. i \in Images
    BY <1>6 DEF Refs, Images
  <2>2. e.name = i.name /\ e.tag = i.tag /\ e.dir = d /\ e \in Lines
    BY DEF Refs, Lines
  <2>3. Key(e) = i
    BY <2>2, KeyOfRef
  <2> HIDE DEF e
  <2>4. /\ \A j \in 1 .. Len(s) : s[j] \in Lines
        /\ \A k \in 1 .. Len(t) : t[k] \in Lines
    BY <1>1, <1>2, ElementOfSeq
  <2>5. \A j \in 1 .. Len(s) : Key(s[j]) = i <=> s[j].name = i.name /\ s[j].tag = i.tag
    BY <2>4, KeyOfRef
  <2>6. /\ Gains(s, t, i, d) /\ Len(t) <= Cap
        /\ \A k \in 1 .. Len(t) : t[k].name # ""
        /\ i \in DOMAIN MapOf(s) \/ Cardinality(DOMAIN MapOf(s)) < Cap
    <3>0. /\ DOMAIN MapOf(s) = {Key(s[k]) : k \in 1 .. Len(s)}
          /\ Cardinality(DOMAIN MapOf(s)) = Len(s)
      BY <1>1, MapProps
    <3>1. CASE Changed
      <4>1. PICK k \in 1 .. Len(s) :
               /\ s[k].name = i.name /\ s[k].tag = i.tag
               /\ Len(t) = Len(s)
               /\ \A j \in 1 .. Len(s) : t[j] = IF j = k THEN e ELSE s[j]
        BY <3>1
      <4>2. t[k] = e /\ \A j \in 1 .. Len(s) : j # k => t[j] = s[j] /\ Key(s[j]) # i
        BY <1>1, <2>5, <4>1 DEF KeysOnce
      <4>3. Gains(s, t, i, d)
        <5>1. Len(t) = Len(s) /\ Key(s[k]) = i
          BY <2>5, <4>1
        <5> QED BY <2>2, <2>3, <4>2, <5>1, Zenon DEF Gains
      <4>4. i \in DOMAIN MapOf(s)
        BY <2>5, <3>0, <4>1, Zenon
      <4>5. \A j \in 1 .. Len(t) : t[j].name # ""
        BY <1>9, <1>6, <2>2, <4>1, <4>2, Zenon
      <4> QED BY <1>1, <4>1, <4>3, <4>4, <4>5
    <3>2. CASE Added
      <4>1. \A k \in 1 .. Len(t) : k \in 1 .. Len(s) \/ k = Len(s) + 1
        BY <1>5, <3>2
      <4>2. Len(s) + 1 \in 1 .. Len(t) /\ \A k \in 1 .. Len(s) : k \in 1 .. Len(t)
        BY <1>5, <3>2
      <4>3. \A j \in 1 .. Len(s) : t[j] = s[j] /\ Key(s[j]) # i
        BY <2>5, <3>2
      <4> DEFINE l == Len(s) + 1
      <4>4. t[l] = e
        BY <3>2
      <4> HIDE DEF l
      <4>5. Gains(s, t, i, d)
        BY <2>2, <2>3, <4>1, <4>2, <4>3, <4>4, Zenon DEF Gains, l
      <4>6. \A j \in 1 .. Len(t) : t[j].name # ""
        BY <1>9, <1>6, <2>2, <4>1, <4>3, <4>4, Zenon DEF l
      <4>7. Len(t) <= Cap /\ Cardinality(DOMAIN MapOf(s)) < Cap
        <5>1. Len(s) < Cap /\ Len(t) = Len(s) + 1
          BY <3>2
        <5>2. Len(t) <= Cap
          BY <1>5, <5>1
        <5> QED BY <3>0, <5>1, <5>2
      <4> QED BY <4>5, <4>6, <4>7
    <3> QED BY <1>2, <3>1, <3>2
  <2>7. load_registry' = t
    <3>1. NamedTo(t, Len(t)) /\ Len(t) \in 0 .. Len(t)
      <4>1. \A k \in (Len(t) + 1) .. Len(t) : FALSE
        BY <1>5
      <4>2. NamedTo(t, Len(t))
        BY <2>6, <4>1, Zenon DEF NamedTo
      <4> QED BY <1>5, <4>2
    <3>2. load_registry' = SubSeq(t, 1, Len(t))
      BY <1>3, <2>6, <3>1
    <3>3. SubSeq(t, 1, Len(t)) = t
      BY <1>2, <1>5, WholeSeq
    <3> QED BY <3>2, <3>3
  <2>8. MapOf(t) = Put(MapOf(s), i, d)
    <3>1. Gains(s, t, i, d) /\ s \in Seq(Lines) /\ KeysOnce(s) /\ t \in Seq(Lines) /\ KeysOnce(t)
      BY <1>1, <1>2, <2>6
    <3>2. \A a, b \in Seq(Lines) : KeysOnce(a) /\ KeysOnce(b) /\ Gains(a, b, i, d)
                                      => MapOf(b) = Put(MapOf(a), i, d)
      BY MapGains
    <3> QED BY <3>1, <3>2
  <2> QED BY <1>4, <2>1, <2>6, <2>7, <2>8
<1>7. ASSUME i.name = "" PROVE load_registry' = load_registry
  <2>1. Added
    BY <1>2, <1>9, <1>7
  <2>0. /\ Len(s) < Cap /\ Len(t) = Len(s) + 1 /\ Len(s) \in 0 .. Len(t)
        /\ \A j \in 1 .. Len(s) : t[j] = s[j]
    BY <1>5, <2>1
  <2>2. NamedTo(t, Len(s))
    <3>1. \A k \in 1 .. Len(s) : t[k].name # ""
      BY <1>9, <2>1
    <3>2. \A k \in (Len(s) + 1) .. Len(t) : k = Len(s) + 1
      BY <1>5, <2>1
    <3>3. e.name = ""
      BY <1>7
    <3>4. t[Len(s) + 1].name = ""
      <4> HIDE DEF e
      <4> QED BY <2>1, <3>3
    <3> QED BY <3>1, <3>2, <3>4, Zenon DEF NamedTo
  <2>3. load_registry' = SubSeq(t, 1, Len(s))
    BY <1>1, <1>3, <2>0, <2>2
  <2>4. SubSeq(t, 1, Len(s)) = s
    <3>1. t \in Seq(Lines) /\ Len(s) <= Len(t)
      BY <1>2, <1>5, <2>0
    <3> QED BY <1>1, <2>0, <3>1, WholeSeq
  <2> QED BY <2>3, <2>4 DEF s
<1> QED BY <1>2, <1>6, <1>7 DEF t

(* image_remove takes one image out of the map. *)
LEMMA RemoveStep ==
    ASSUME TypeOK, KeysOnce(file), NEW text \in Texts, image_remove(text)
    PROVE  /\ file' \in Seq(Lines) /\ KeysOnce(file')
           /\ parse_ref(text) \in Images /\ Abstract!Remove(parse_ref(text))
<1> DEFINE i == parse_ref(text)
           s == load_registry
           S == {k \in DOMAIN s : s[k].name # i.name \/ s[k].tag # i.tag}
           t == Filter(s, S)
<1>1. s \in Seq(Lines) /\ KeysOnce(s) /\ Len(s) <= Cap
  BY LoadProps
<1>2. \A k \in 1 .. Len(s) : s[k].name # ""
  BY LoadProps
<1>3. i \in Refs /\ i.name = text.name
  BY ParseTyped DEF parse_ref
<1>4. file' = t /\ i.name # "" /\ find_record(s, i) > 0
  <2>1. file' = t
    BY DEF image_remove
  <2>2. text.name # "" /\ find_record(s, i) > 0
    BY DEF image_remove, Resolvable
  <2> QED BY <1>3, <2>1, <2>2
<1>5. ASSUME NEW m \in 0 .. Len(t), m <= Cap, NamedTo(t, m), t \in Seq(Lines)
      PROVE  load_registry' = SubSeq(t, 1, m)
  BY <1>4, <1>5, LoadSaved
<1>6. Abstract!Remove(i) <=>
        /\ i \in DOMAIN MapOf(s)
        /\ MapOf(load_registry') = Drop(MapOf(s), i)
  BY DEF Abstract!Remove, Drop
<1> HIDE DEF s, i
<1>7. t \in Seq(Lines) /\ KeysOnce(t)
  BY <1>1, FilterKeys
<1>8. PICK g : Keeps(g, t, s, S, Len(s))
  BY <1>1, FilterKeeps
<1>9. Len(t) <= Len(s)
  BY <1>1, FilterShorter
<1> HIDE DEF t
<1>10. /\ Len(s) \in Nat /\ Len(t) \in Nat /\ Cap \in Nat /\ Len(t) <= Cap
       /\ Len(t) \in 0 .. Len(t) /\ DOMAIN s = 1 .. Len(s)
  BY <1>1, <1>7, <1>9, BoundsAssumption
<1>11. \A k \in 1 .. Len(t) : g[k] \in 1 .. Len(s) /\ t[k] = s[g[k]] /\ g[k] \in S
  BY <1>8 DEF Keeps
<1>12. \A j \in 1 .. Len(s) : s[j] \in Lines
  BY <1>1, ElementOfSeq
<1>13. \A j \in 1 .. Len(s) : Key(s[j]) = i <=> s[j].name = i.name /\ s[j].tag = i.tag
  BY <1>3, <1>12, KeyOfRef
<1>14. \A j \in 1 .. Len(s) : j \in S <=> Key(s[j]) # i
  BY <1>10, <1>13, Zenon
<1> HIDE DEF S
<1>15. Loses(s, t, i)
  <2>1. ASSUME NEW k \in 1 .. Len(t)
        PROVE  Key(t[k]) # i /\ \E j \in 1 .. Len(s) : t[k] = s[j]
    BY <1>11, <1>14, Zenon
  <2>2. ASSUME NEW j \in 1 .. Len(s), Key(s[j]) # i
        PROVE  \E k \in 1 .. Len(t) : t[k] = s[j]
    <3>1. PICK k \in 1 .. Len(t) : g[k] = j
      BY <1>8, <1>14, <2>2, Zenon DEF Keeps
    <3> QED BY <1>11, <3>1
  <2> QED BY <2>1, <2>2 DEF Loses
<1>16. load_registry' = t
  <2>1. \A k \in (Len(t) + 1) .. Len(t) : FALSE
    BY <1>10
  <2>2. NamedTo(t, Len(t))
    BY <1>2, <1>11, <2>1, Zenon DEF NamedTo
  <2>3. load_registry' = SubSeq(t, 1, Len(t))
    BY <1>5, <1>7, <1>10, <2>2
  <2>4. SubSeq(t, 1, Len(t)) = t
    BY <1>7, <1>10, WholeSeq
  <2> QED BY <2>3, <2>4
<1>17. MapOf(t) = Drop(MapOf(s), i)
  <2>1. \A a, b \in Seq(Lines) : KeysOnce(a) /\ KeysOnce(b) /\ Loses(a, b, i)
                => MapOf(b) = Drop(MapOf(a), i)
    BY MapLoses
  <2> QED BY <1>1, <1>7, <1>15, <2>1
<1>18. i \in DOMAIN MapOf(s)
  <2> DEFINE k == find_record(s, i)
  <2>1. /\ k \in 0 .. Len(s)
        /\ k > 0 => s[k].name = i.name /\ s[k].tag = i.tag
    BY <1>1, FindProps
  <2>2. k > 0
    BY <1>4
  <2> HIDE DEF k
  <2>3. k \in 1 .. Len(s) /\ Key(s[k]) = i
    BY <1>10, <1>13, <2>1, <2>2
  <2>4. DOMAIN MapOf(s) = {Key(s[j]) : j \in 1 .. Len(s)}
    BY <1>1, MapProps
  <2> QED BY <2>3, <2>4
<1>19. i \in Images
  BY <1>3, <1>4 DEF Refs, Images
<1> QED BY <1>4, <1>6, <1>7, <1>16, <1>17, <1>18, <1>19 DEF i

-----------------------------------------------------------------------------
(* The directory *)

Jobs == [at : {"idle", "copy", "write", "mark", "pivot", "umount", "rmdir"},
         f : Files, missed : SUBSET (Files \ Tools), mounted : BOOLEAN, met : BOOLEAN]

(* The types of all variables but file. *)
TreeTyped ==
    /\ data \in [Files -> {"none", "torn", "full"}]
    /\ by \in [Files -> Threads]
    /\ marker \in BOOLEAN /\ old \in BOOLEAN /\ made \in BOOLEAN
    /\ shared \in BOOLEAN /\ cut \in BOOLEAN
    /\ missing \in SUBSET (Files \ Tools)
    /\ job \in [Threads -> Jobs]

(* TypeOK is about the file and the rest. *)
LEMMA TypesSplit == TypeOK <=> file \in Seq(Lines) /\ TreeTyped
BY DEF TypeOK, TreeTyped, Jobs

(* The same of the next state. *)
LEMMA TypesSplitNext == TypeOK' <=> file' \in Seq(Lines) /\ TreeTyped'
BY DEF TypeOK, TreeTyped, Jobs

(* There is a file to begin with. *)
LEMMA FilesFacts ==
    /\ NFiles \in Nat /\ NFiles >= 1 /\ 1 \in Files /\ Files \subseteq Nat
    /\ Idle \in Jobs
    /\ \A f \in Files : 1 <= f /\ f <= NFiles
BY BoundsAssumption DEF Files, Idle, Jobs

(* A step that copies no file, marks nothing and starts no copy keeps what  *)
(* holds of the copying.                                                    *)
LEMMA CopyUntouched ==
    ASSUME TreeTyped, TreeInv, UNCHANGED <<data, by, marker, missing, shared, cut>>,
           \A u \in Threads : /\ Preparing(u)' <=> Preparing(u)
                              /\ Preparing(u) => job'[u] = job[u]
    PROVE  CopiedFull' /\ SharedKnown'
<1>1. ASSUME NEW u \in Threads, NEW f \in Files
      PROVE  (Passed(u, f)' => Passed(u, f)) /\ (Writing(u, f) => Writing(u, f)')
  BY DEF Passed, Writing, Preparing
<1>2. CopiedFull'
  BY <1>1 DEF TreeInv, CopiedFull
<1>3. SharedKnown'
  BY DEF TreeInv, SharedKnown
<1> QED BY <1>2, <1>3

(* container_create *)
LEMMA CreateStep ==
    ASSUME TreeTyped, TreeInv, NEW t \in Threads, container_create(t)
    PROVE  TreeTyped' /\ TreeInv'
<1>0. /\ Free(t) /\ old' = TRUE /\ data' = data /\ by' = by /\ missing' = missing
      /\ marker' = marker /\ cut' = cut
  BY DEF container_create
<1>1. CASE marker
  <2>1. job' = job /\ shared' = shared /\ made' = TRUE
    BY <1>1 DEF container_create
  <2>2. CopiedFull' /\ SharedKnown'
    BY <1>0, <2>1, CopyUntouched DEF Preparing
  <2>3. IdleReset' /\ Company'
    BY <1>0, <2>1 DEF TreeInv, IdleReset, Company, Inside
  <2>4. TreeTyped'
    BY <1>0, <2>1 DEF TreeTyped
  <2> QED BY <2>2, <2>3, <2>4 DEF TreeInv
<1>2. CASE ~marker
  <2>1. /\ job' = [job EXCEPT ![t].at = "copy"] /\ made' = made
        /\ shared' = (shared \/ \E u \in Threads : Preparing(u))
    BY <1>2 DEF container_create
  <2>2. /\ job'[t].at = "copy" /\ job'[t].f = 1 /\ job[t].at = "idle" /\ job'[t] \in Jobs
        /\ \A u \in Threads : u # t => job'[u] = job[u]
    BY <1>0, <2>1 DEF Free, TreeInv, IdleReset, TreeTyped, Jobs
  <2>3. job' \in [Threads -> Jobs]
    BY <2>1, <2>2 DEF TreeTyped
  <2>4. shared' \in BOOLEAN /\ (shared => shared')
    BY <2>1
  <2>5. TreeTyped'
    BY <1>0, <2>1, <2>3, <2>4 DEF TreeTyped
  <2>6. ASSUME NEW u \in Threads, NEW f \in Files
        PROVE  (Passed(u, f)' => Passed(u, f)) /\ (Writing(u, f) => Writing(u, f)')
    <3>1. CASE u = t
      BY <1>0, <2>2, <3>1, FilesFacts DEF Passed, Writing
    <3>2. CASE u # t
      BY <1>0, <2>2, <3>2 DEF Passed, Writing
    <3> QED BY <3>1, <3>2
  <2>7. CopiedFull'
    BY <1>0, <2>6 DEF TreeInv, CopiedFull
  <2>8. SharedKnown'
    BY <1>0, <1>2, <2>1, <2>2, <2>4 DEF TreeInv, SharedKnown, Preparing
  <2>9. IdleReset' /\ Company'
    BY <1>0, <2>2 DEF TreeInv, IdleReset, Company, Inside
  <2> QED BY <2>5, <2>7, <2>8, <2>9 DEF TreeInv
<1> QED BY <1>1, <1>2

(* copy_regular_file: O_TRUNC *)
LEMMA TruncateStep ==
    ASSUME TreeTyped, TreeInv, NEW t \in Threads, Truncate(t)
    PROVE  TreeTyped' /\ TreeInv'
<1> DEFINE f0 == job[t].f
<1>1. /\ job[t].at = "copy" /\ f0 \in Files
      /\ data' = [data EXCEPT ![f0] = "torn"] /\ by' = [by EXCEPT ![f0] = t]
      /\ UNCHANGED <<marker, missing, old, made, shared, cut>>
  BY DEF Truncate, TreeTyped, Jobs
<1>2. /\ job'[t] = [job[t] EXCEPT !.at = "write"]
      /\ \A u \in Threads : u # t => job'[u] = job[u]
      /\ job' \in [Threads -> Jobs]
  BY DEF Truncate, TreeTyped, Jobs
<1>3. job'[t].at = "write" /\ job'[t].f = f0 /\ job'[t].missed = job[t].missed
  BY <1>2 DEF TreeTyped, Jobs
<1> HIDE DEF f0
<1>4. TreeTyped'
  BY <1>1, <1>2 DEF TreeTyped
<1>5. /\ \A f \in Files : f # f0 => data'[f] = data[f] /\ by'[f] = by[f]
      /\ by'[f0] = t
  BY <1>1 DEF TreeTyped
<1>6. ASSUME NEW u \in Threads, NEW f \in Files, f # f0
      PROVE  (Passed(u, f)' => Passed(u, f)) /\ (Writing(u, f) => Writing(u, f)')
  <2>1. CASE u = t
    BY <1>1, <1>3, <1>5, <1>6, <2>1 DEF Passed, Writing, f0
  <2>2. CASE u # t
    BY <1>2, <1>5, <1>6, <2>2 DEF Passed, Writing
  <2> QED BY <2>1, <2>2
<1>7. ASSUME NEW f \in Files, f = f0 PROVE Writing(t, f)'
  BY <1>3, <1>5, <1>7 DEF Writing
<1>8. CopiedFull'
  <2> SUFFICES ASSUME NEW f \in Files, (marker' /\ f \notin missing') \/ \E u \in Threads : Passed(u, f)',
                      data'[f] # "full"
               PROVE  cut' \/ \E u \in Threads : Writing(u, f)'
    BY DEF CopiedFull
  <2>1. CASE f = f0
    BY <1>7, <2>1
  <2>2. CASE f # f0
    BY <1>1, <1>5, <1>6, <2>2 DEF TreeInv, CopiedFull
  <2> QED BY <2>1, <2>2
<1>9. SharedKnown'
  BY <1>1, <1>2, <1>3 DEF TreeInv, SharedKnown, Preparing
<1>10. IdleReset' /\ Company'
  BY <1>1, <1>2, <1>3 DEF TreeInv, IdleReset, Company, Inside
<1> QED BY <1>4, <1>8, <1>9, <1>10 DEF TreeInv

(* The next file, or the marker. *)
LEMMA AfterIs ==
    ASSUME NEW j \in Jobs
    PROVE  /\ After(j) \in Jobs /\ After(j).missed = j.missed
           /\ After(j).at = IF j.f < NFiles THEN "copy" ELSE "mark"
           /\ After(j).f = IF j.f < NFiles THEN j.f + 1 ELSE 1
<1> DEFINE a == IF j.f < NFiles THEN "copy" ELSE "mark"
           n == IF j.f < NFiles THEN j.f + 1 ELSE 1
<1>1. j.f \in Files
  BY DEF Jobs
<1>2. a \in {"copy", "mark"} /\ n \in Files
  <2> DEFINE f == j.f
  <2> HIDE DEF f
  <2>1. f \in Files
    BY <1>1 DEF f
  <2>2. (IF f < NFiles THEN f + 1 ELSE 1) \in Files
    BY <2>1, FilesFacts DEF Files
  <2> QED BY <2>2 DEF f
<1>3. After(j) = [j EXCEPT !.at = a, !.f = n]
  BY DEF After
<1> HIDE DEF a, n
<1>4. After(j).missed = j.missed /\ After(j).at = a /\ After(j).f = n
  BY <1>3 DEF Jobs
<1>5. After(j) \in Jobs
  <2> DEFINE M == SUBSET (Files \ Tools)
  <2>1. j \in [at : {"idle", "copy", "write", "mark", "pivot", "umount", "rmdir"},
              f : Files, missed : M, mounted : BOOLEAN, met : BOOLEAN]
    BY DEF Jobs
  <2> HIDE DEF M
  <2>2. [j EXCEPT !.at = a, !.f = n] \in
             [at : {"idle", "copy", "write", "mark", "pivot", "umount", "rmdir"},
              f : Files, missed : M, mounted : BOOLEAN, met : BOOLEAN]
    BY <1>2, <2>1
  <2> QED BY <1>3, <2>2 DEF Jobs, M
<1> QED BY <1>4, <1>5 DEF a, n

(* A workload or a library is passed over. *)
LEMMA PassOverStep ==
    ASSUME TreeTyped, TreeInv, NEW t \in Threads, PassOver(t)
    PROVE  TreeTyped' /\ TreeInv'
<1> DEFINE f0 == job[t].f
           a == After(job[t])
           j == [a EXCEPT !.missed = @ \cup {f0}]
<1>1. /\ job[t].at = "copy" /\ f0 \in Files \ Tools /\ job[t] \in Jobs /\ job \in [Threads -> Jobs]
      /\ job' = [job EXCEPT ![t] = j]
      /\ UNCHANGED <<data, by, marker, missing, old, made, shared, cut>>
  BY DEF PassOver, TreeTyped, Jobs, tree
<1>2. /\ a \in Jobs /\ a.missed = job[t].missed
      /\ a.at = IF f0 < NFiles THEN "copy" ELSE "mark"
      /\ a.f = IF f0 < NFiles THEN f0 + 1 ELSE 1
  BY <1>1, AfterIs
<1>3. job[t].missed \subseteq Files \ Tools
  BY <1>1 DEF Jobs
<1> HIDE DEF a, f0
<1>4. j \in Jobs /\ j.at = a.at /\ j.f = a.f /\ j.missed = job[t].missed \cup {f0}
  BY <1>1, <1>2, <1>3 DEF Jobs
<1> HIDE DEF j
<1>5. job' \in [Threads -> Jobs] /\ job'[t] = j /\ \A u \in Threads : u # t => job'[u] = job[u]
  BY <1>1, <1>4
<1>6. TreeTyped'
  BY <1>1, <1>5 DEF TreeTyped
<1>7. ASSUME NEW u \in Threads, NEW f \in Files
      PROVE  (Passed(u, f)' => Passed(u, f)) /\ (Writing(u, f) => Writing(u, f)')
  <2>1. CASE u # t
    BY <1>1, <1>5, <2>1 DEF Passed, Writing
  <2>2. CASE u = t
    <3>1. ~Writing(t, f)
      BY <1>1 DEF Writing
    <3>2. f \in Nat /\ f0 \in Nat /\ NFiles \in Nat /\ f <= NFiles /\ f0 <= NFiles
      BY <1>1, FilesFacts
    <3>3. Passed(t, f)' => f # f0 /\ f \notin job[t].missed
      BY <1>4, <1>5 DEF Passed
    <3>4. Passed(t, f)' => f <= f0
      <4>1. CASE f0 < NFiles
        <5>1. job'[t].at = "copy" /\ job'[t].f = f0 + 1
          BY <1>2, <1>4, <1>5, <4>1
        <5>2. Passed(t, f)' => f < f0 + 1
          BY <5>1 DEF Passed
        <5> QED BY <3>2, <5>2
      <4>2. CASE ~(f0 < NFiles)
        BY <3>2, <4>2
      <4> QED BY <4>1, <4>2
    <3>5. Passed(t, f)' => f < f0
      BY <3>2, <3>3, <3>4
    <3> QED BY <1>1, <2>2, <3>1, <3>3, <3>5 DEF Passed, f0
  <2> QED BY <2>1, <2>2
<1>8. CopiedFull'
  BY <1>1, <1>7 DEF TreeInv, CopiedFull
<1>9. j.at \in {"copy", "mark"}
  BY <1>2, <1>4
<1>10. SharedKnown'
  <2>1. \A u \in Threads : Preparing(u)' => Preparing(u)
    BY <1>1, <1>5 DEF Preparing
  <2> QED BY <1>1, <2>1 DEF TreeInv, SharedKnown
<1>11. IdleReset' /\ Company'
  <2>1. job'[t].at # "idle" /\ ~Inside(t)'
    BY <1>5, <1>9 DEF Inside
  <2> QED BY <1>1, <1>5, <2>1 DEF TreeInv, IdleReset, Company, Inside
<1> QED BY <1>6, <1>8, <1>10, <1>11 DEF TreeInv

(* copy_regular_file: the contents *)
LEMMA WriteStep ==
    ASSUME TreeTyped, TreeInv, NEW t \in Threads, Write(t)
    PROVE  TreeTyped' /\ TreeInv'
<1> DEFINE f0 == job[t].f
<1>1. /\ job[t].at = "write" /\ f0 \in Files
      /\ data' = [data EXCEPT ![f0] = IF by[f0] = t THEN "full" ELSE @]
      /\ by' = [by EXCEPT ![f0] = IF @ = t THEN "cli" ELSE @]
      /\ UNCHANGED <<marker, missing, old, made, shared, cut>>
  BY DEF Write, TreeTyped, Jobs
<1>2. job' = [job EXCEPT ![t] = After(job[t])] /\ job[t] \in Jobs /\ job \in [Threads -> Jobs]
  BY DEF Write, TreeTyped
<1>a. /\ After(job[t]) \in Jobs /\ After(job[t]).missed = job[t].missed
      /\ After(job[t]).at = IF f0 < NFiles THEN "copy" ELSE "mark"
      /\ After(job[t]).f = IF f0 < NFiles THEN f0 + 1 ELSE 1
  BY <1>2, AfterIs
<1>3. /\ job'[t].at = IF f0 < NFiles THEN "copy" ELSE "mark"
      /\ job'[t].f = IF f0 < NFiles THEN f0 + 1 ELSE 1
      /\ job'[t].missed = job[t].missed
      /\ \A u \in Threads : u # t => job'[u] = job[u]
  BY <1>2, <1>a
<1>5. job' \in [Threads -> Jobs]
  BY <1>2, <1>a
<1> HIDE DEF f0
<1>6. TreeTyped'
  BY <1>1, <1>5 DEF TreeTyped, Threads
<1>7. /\ \A f \in Files : f # f0 => data'[f] = data[f] /\ by'[f] = by[f]
      /\ by[f0] = t => data'[f0] = "full"
      /\ by[f0] # t => data'[f0] = data[f0] /\ by'[f0] = by[f0]
  BY <1>1 DEF TreeTyped
<1>8. ASSUME NEW u \in Threads, NEW f \in Files, f # f0 \/ by[f0] # t
      PROVE  (Passed(u, f)' => Passed(u, f)) /\ (Writing(u, f) => Writing(u, f)')
  <2>0. by'[f] = by[f]
    BY <1>7, <1>8
  <2>1. CASE u # t
    BY <1>3, <2>0, <2>1 DEF Passed, Writing
  <2>2. CASE u = t
    <3>1. ~Writing(t, f)
      BY <1>8 DEF Writing, f0
    <3>2. f \in Nat /\ f0 \in Nat /\ NFiles \in Nat /\ f <= NFiles /\ f0 <= NFiles
      BY <1>1, FilesFacts
    <3>3. CASE f0 < NFiles
      <4>1. job'[t].at = "copy" /\ job'[t].f = f0 + 1
        BY <1>3, <3>3
      <4>2. Passed(t, f)' => f < f0 + 1
        BY <4>1 DEF Passed
      <4>3. Passed(t, f)' => f < f0 \/ f = f0
        BY <3>2, <4>2
      <4> QED BY <1>1, <1>3, <1>8, <2>2, <3>1, <4>3 DEF Passed, f0
    <3>4. CASE ~(f0 < NFiles)
      <4>1. f < f0 \/ f = f0
        BY <3>2, <3>4
      <4> QED BY <1>1, <1>3, <1>8, <2>2, <3>1, <4>1 DEF Passed, f0
    <3> QED BY <3>3, <3>4
  <2> QED BY <2>1, <2>2
<1>9. CopiedFull'
  <2> SUFFICES ASSUME NEW f \in Files, (marker' /\ f \notin missing') \/ \E u \in Threads : Passed(u, f)',
                      data'[f] # "full"
               PROVE  cut' \/ \E u \in Threads : Writing(u, f)'
    BY DEF CopiedFull
  <2>1. f # f0 \/ by[f0] # t
    BY <1>7
  <2>2. data'[f] = data[f]
    BY <1>7, <2>1
  <2> QED BY <1>1, <1>8, <2>1, <2>2 DEF TreeInv, CopiedFull
<1>10. SharedKnown'
  <2>1. \A u \in Threads : Preparing(u)' => Preparing(u)
    BY <1>1, <1>3 DEF Preparing
  <2> QED BY <1>1, <2>1 DEF TreeInv, SharedKnown
<1>11. IdleReset' /\ Company'
  <2>1. job'[t].at # "idle" /\ ~Inside(t)'
    BY <1>3 DEF Inside
  <2> QED BY <1>1, <1>3, <2>1 DEF TreeInv, IdleReset, Company, Inside
<1> QED BY <1>6, <1>9, <1>10, <1>11 DEF TreeInv

(* What a thread may do that goes back to idle: facts about Idle. *)
LEMMA ToIdle ==
    ASSUME TreeTyped, NEW t \in Threads, job' = [job EXCEPT ![t] = Idle]
    PROVE  /\ job' \in [Threads -> Jobs]
           /\ job'[t].at = "idle" /\ job'[t].f = 1
           /\ \A u \in Threads : u # t => job'[u] = job[u]
BY FilesFacts DEF TreeTyped, Idle

(* A file cannot be copied. *)
LEMMA CopyFailsStep ==
    ASSUME TreeTyped, TreeInv, NEW t \in Threads, CopyFails(t)
    PROVE  TreeTyped' /\ TreeInv'
<1>1. /\ job[t].at \in {"copy", "write"} /\ job' = [job EXCEPT ![t] = Idle]
      /\ UNCHANGED <<data, by, marker, missing, old, made, shared>>
      /\ cut' = (cut \/ (shared /\ job[t].at = "write"))
  BY DEF CopyFails, Cut, tree
<1>2. /\ job' \in [Threads -> Jobs]
      /\ job'[t].at = "idle" /\ job'[t].f = 1
      /\ \A u \in Threads : u # t => job'[u] = job[u]
  BY <1>1, ToIdle
<1>3. TreeTyped'
  BY <1>1, <1>2 DEF TreeTyped
<1>4. CopiedFull'
  <2> SUFFICES ASSUME NEW f \in Files, (marker' /\ f \notin missing') \/ \E u \in Threads : Passed(u, f)',
                      data'[f] # "full", ~cut'
               PROVE  \E u \in Threads : Writing(u, f)'
    BY DEF CopiedFull
  <2>1. \A u \in Threads : Passed(u, f)' => u # t /\ Passed(u, f)
    BY <1>1, <1>2 DEF Passed
  <2>2. PICK u \in Threads : Writing(u, f)
    BY <1>1, <2>1 DEF TreeInv, CopiedFull
  <2>3. CASE u = t
    <3>1. shared
      <4>1. Preparing(t)
        BY <1>1 DEF Preparing
      <4>2. \A v \in Threads : Passed(v, f) => Preparing(v)
        BY DEF Passed, Preparing
      <4> QED BY <1>1, <2>1, <4>1, <4>2 DEF TreeInv, SharedKnown
    <3>2. job[t].at = "write"
      BY <2>2, <2>3 DEF Writing
    <3> QED BY <1>1, <3>1, <3>2
  <2>4. CASE u # t
    BY <1>1, <1>2, <2>2, <2>4 DEF Writing
  <2> QED BY <2>3, <2>4
<1>5. SharedKnown'
  <2>1. \A u \in Threads : Preparing(u)' => Preparing(u)
    BY <1>1, <1>2 DEF Preparing
  <2> QED BY <1>1, <2>1 DEF TreeInv, SharedKnown
<1>6. IdleReset' /\ Company'
  BY <1>1, <1>2 DEF TreeInv, IdleReset, Company, Inside
<1> QED BY <1>3, <1>4, <1>5, <1>6 DEF TreeInv

(* The marker *)
LEMMA MarkStep ==
    ASSUME TreeTyped, TreeInv, NEW t \in Threads, Mark(t)
    PROVE  TreeTyped' /\ TreeInv'
<1>1. /\ job[t].at = "mark" /\ job' = [job EXCEPT ![t] = Idle]
      /\ marker' \in {marker, TRUE} /\ made' = TRUE
      /\ missing' = IF ~marker /\ marker' THEN job[t].missed ELSE missing
      /\ UNCHANGED <<data, by, old, shared, cut>>
  BY DEF Mark
<1>2. /\ job' \in [Threads -> Jobs]
      /\ job'[t].at = "idle" /\ job'[t].f = 1
      /\ \A u \in Threads : u # t => job'[u] = job[u]
  BY <1>1, ToIdle
<1>3. TreeTyped'
  <2>1. job[t].missed \in SUBSET (Files \ Tools)
    BY DEF TreeTyped, Jobs
  <2> QED BY <1>1, <1>2, <2>1 DEF TreeTyped
<1>4. \A u \in Threads, f \in Files : Writing(u, f) => Writing(u, f)'
  BY <1>1, <1>2 DEF Writing
<1>5. \A f \in Files \ job[t].missed : Passed(t, f)
  BY <1>1 DEF Passed
<1>a. \A u \in Threads, f \in Files : Passed(u, f)' => Passed(u, f)
  BY <1>1, <1>2 DEF Passed
<1>6. CopiedFull'
  BY <1>1, <1>4, <1>5, <1>a DEF TreeInv, CopiedFull
<1>7. SharedKnown'
  <2>1. Preparing(t)
    BY <1>1 DEF Preparing
  <2>2. \A u \in Threads : Preparing(u)' => u # t /\ Preparing(u)
    BY <1>1, <1>2 DEF Preparing
  <2> QED BY <1>1, <2>1, <2>2 DEF TreeInv, SharedKnown
<1>8. IdleReset' /\ Company'
  BY <1>1, <1>2 DEF TreeInv, IdleReset, Company, Inside
<1> QED BY <1>3, <1>6, <1>7, <1>8 DEF TreeInv

(* A child starts to isolate itself. *)
LEMMA MakeOldRootStep ==
    ASSUME TreeTyped, TreeInv, NEW t \in Threads, MakeOldRoot(t)
    PROVE  TreeTyped' /\ TreeInv'
<1> DEFINE company == {u \in Threads \ {t} : Inside(u)}
           new == [Idle EXCEPT !.at = "pivot", !.met = company # {}]
<1>1. /\ job[t].at = "idle" /\ old' = TRUE
      /\ UNCHANGED <<data, by, marker, missing, made, shared, cut>>
      /\ job' = [u \in Threads |-> IF u = t THEN new ELSE [job[u] EXCEPT !.met = @ \/ u \in company]]
  BY DEF MakeOldRoot, Free
<1>2. /\ new \in Jobs /\ new.at = "pivot" /\ new.f = 1 /\ new.met = (company # {})
  BY FilesFacts DEF Jobs, Idle
<1> HIDE DEF new
<1>3. ASSUME NEW u \in Threads, u # t
      PROVE  /\ job'[u] \in Jobs /\ job'[u].at = job[u].at /\ job'[u].f = job[u].f
             /\ job'[u].mounted = job[u].mounted
             /\ job'[u].met = (job[u].met \/ u \in company)
             /\ ~Inside(u) => job'[u] = job[u]
  <2>1. job'[u] = [job[u] EXCEPT !.met = @ \/ u \in company] /\ job[u] \in Jobs
    BY <1>1, <1>3 DEF TreeTyped
  <2>2. (job[u].met \/ u \in company) \in BOOLEAN
    OBVIOUS
  <2>3. /\ job'[u] \in Jobs /\ job'[u].at = job[u].at /\ job'[u].f = job[u].f
        /\ job'[u].mounted = job[u].mounted
        /\ job'[u].met = (job[u].met \/ u \in company)
    <3> HIDE DEF company
    <3> QED BY <2>1, <2>2 DEF Jobs
  <2>4. ~Inside(u) => (job[u].met \/ u \in company) = job[u].met
    BY <2>1 DEF Jobs
  <2>5. ~Inside(u) => job'[u] = job[u]
    <3> HIDE DEF company
    <3> QED BY <2>1, <2>4 DEF Jobs
  <2> QED BY <2>3, <2>5
<1>4. job'[t] = new
  BY <1>1
<1>5. job' \in [Threads -> Jobs]
  BY <1>1, <1>2, <1>3, <1>4
<1>6. TreeTyped'
  BY <1>1, <1>5 DEF TreeTyped
<1>7. CopiedFull' /\ SharedKnown'
  <2>1. ASSUME NEW u \in Threads
        PROVE  (Preparing(u)' <=> Preparing(u)) /\ (Preparing(u) => job'[u] = job[u])
    <3>1. CASE u = t
      BY <1>1, <1>2, <1>4, <3>1 DEF Preparing
    <3>2. CASE u # t
      BY <1>3, <3>2 DEF Preparing, Inside
    <3> QED BY <3>1, <3>2
  <2> QED BY <1>1, <2>1, CopyUntouched
<1>8. IdleReset'
  BY <1>2, <1>3, <1>4 DEF TreeInv, IdleReset
<1>9. Company'
  <2>1. \A u \in Threads : u # t => (Inside(u)' <=> Inside(u)) /\ (Inside(u) => u \in company)
    BY <1>3 DEF Inside
  <2>2. \A u \in Threads : u # t /\ Inside(u)' => job'[u].met /\ job'[t].met
    BY <1>2, <1>3, <1>4, <2>1
  <2>3. \A u, v \in Threads : u # v /\ Inside(u)' /\ Inside(v)' => job'[u].met
    BY <2>2
  <2>4. old' = TRUE /\ job'[t].at # "umount"
    BY <1>1, <1>2, <1>4
  <2> QED BY <2>2, <2>3, <2>4 DEF Company
<1> QED BY <1>6, <1>7, <1>8, <1>9 DEF TreeInv

(* pivot_root *)
LEMMA PivotRootStep ==
    ASSUME TreeTyped, TreeInv, NEW t \in Threads, PivotRoot(t)
    PROVE  TreeTyped' /\ TreeInv'
<1>1. /\ job[t].at = "pivot" /\ old = TRUE
      /\ job' = [job EXCEPT ![t].at = "umount", ![t].mounted = TRUE]
      /\ UNCHANGED <<data, by, marker, missing, old, made, shared, cut>>
  BY DEF PivotRoot, tree, TreeTyped
<1>2. /\ job' \in [Threads -> Jobs]
      /\ job'[t].at = "umount" /\ job'[t].mounted = TRUE /\ job'[t].met = job[t].met
      /\ \A u \in Threads : u # t => job'[u] = job[u]
  BY <1>1 DEF TreeTyped, Jobs
<1>3. TreeTyped'
  BY <1>1, <1>2 DEF TreeTyped
<1>4. CopiedFull' /\ SharedKnown'
  BY <1>1, <1>2, CopyUntouched DEF Preparing
<1>5. IdleReset' /\ Company'
  BY <1>1, <1>2 DEF TreeInv, IdleReset, Company, Inside
<1> QED BY <1>3, <1>4, <1>5 DEF TreeInv

(* A child is done or lost: nothing on disk changes. *)
LEMMA LeaveStep ==
    ASSUME TreeTyped, TreeInv, NEW t \in Threads, Chroot(t) \/ IsolateFails(t)
    PROVE  TreeTyped' /\ TreeInv'
<1>1. /\ Inside(t) /\ job' = [job EXCEPT ![t] = Idle]
      /\ UNCHANGED <<data, by, marker, missing, old, made, shared, cut>>
  BY DEF Chroot, IsolateFails, Lost, Inside, tree
<1>2. /\ job' \in [Threads -> Jobs]
      /\ job'[t].at = "idle" /\ job'[t].f = 1
      /\ \A u \in Threads : u # t => job'[u] = job[u]
  BY <1>1, ToIdle
<1>3. TreeTyped'
  BY <1>1, <1>2 DEF TreeTyped
<1>4. CopiedFull' /\ SharedKnown'
  BY <1>1, <1>2, CopyUntouched DEF Preparing, Inside
<1>5. IdleReset' /\ Company'
  BY <1>1, <1>2 DEF TreeInv, IdleReset, Company, Inside
<1> QED BY <1>3, <1>4, <1>5 DEF TreeInv

(* umount2 *)
LEMMA UmountStep ==
    ASSUME TreeTyped, TreeInv, NEW t \in Threads, Umount(t)
    PROVE  TreeTyped' /\ TreeInv'
<1>1. /\ job[t].at = "umount"
      /\ job' = [job EXCEPT ![t].at = "rmdir", ![t].mounted = FALSE]
      /\ UNCHANGED <<data, by, marker, missing, old, made, shared, cut>>
  BY DEF Umount, tree
<1>2. /\ job' \in [Threads -> Jobs]
      /\ job'[t].at = "rmdir" /\ job'[t].met = job[t].met
      /\ \A u \in Threads : u # t => job'[u] = job[u]
  BY ZenonT(40), <1>1 DEF TreeTyped, Jobs
<1>3. TreeTyped'
  BY <1>1, <1>2 DEF TreeTyped
<1>4. CopiedFull' /\ SharedKnown'
  BY <1>1, <1>2, CopyUntouched DEF Preparing
<1>5. IdleReset' /\ Company'
  BY <1>1, <1>2 DEF TreeInv, IdleReset, Company, Inside
<1> QED BY <1>3, <1>4, <1>5 DEF TreeInv

(* rmdir *)
LEMMA RmdirStep ==
    ASSUME TreeTyped, TreeInv, NEW t \in Threads, Rmdir(t)
    PROVE  TreeTyped' /\ TreeInv'
<1>1. /\ job[t].at = "rmdir" /\ old' = FALSE
      /\ job' = [u \in Threads |-> IF u = t THEN Idle ELSE [job[u] EXCEPT !.mounted = FALSE]]
      /\ UNCHANGED <<data, by, marker, missing, made, shared, cut>>
  BY DEF Rmdir
<1>2. ASSUME NEW u \in Threads, u # t
      PROVE  /\ job'[u] = [job[u] EXCEPT !.mounted = FALSE]
             /\ job'[u] \in Jobs /\ job'[u].at = job[u].at /\ job'[u].f = job[u].f
             /\ job'[u].met = job[u].met /\ job'[u].missed = job[u].missed
  BY <1>1, <1>2 DEF TreeTyped, Jobs
<1>3. job'[t] = Idle /\ Idle.at = "idle" /\ Idle.f = 1
  BY <1>1 DEF Idle
<1>4. job' \in [Threads -> Jobs]
  BY <1>1, <1>2, <1>3, FilesFacts
<1>5. TreeTyped'
  BY <1>1, <1>4 DEF TreeTyped
<1>6. ASSUME NEW u \in Threads, NEW f \in Files
      PROVE  (Passed(u, f)' => Passed(u, f)) /\ (Writing(u, f) => Writing(u, f)')
  <2>1. CASE u = t
    BY <1>1, <1>3, <2>1 DEF Passed, Writing
  <2>2. CASE u # t
    BY <1>1, <1>2, <2>2 DEF Passed, Writing
  <2> QED BY <2>1, <2>2
<1>7. CopiedFull'
  BY <1>1, <1>6 DEF TreeInv, CopiedFull
<1>8. SharedKnown'
  <2>1. \A u \in Threads : Preparing(u)' => Preparing(u)
    BY <1>2, <1>3 DEF Preparing
  <2> QED BY <1>1, <2>1 DEF TreeInv, SharedKnown
<1>9. IdleReset'
  BY <1>2, <1>3 DEF TreeInv, IdleReset
<1>10. Company'
  <2>1. \A u \in Threads : Inside(u)' => u # t /\ Inside(u)
    BY <1>2, <1>3 DEF Inside
  <2>2. Inside(t)
    BY <1>1 DEF Inside
  <2>3. \A u \in Threads : Inside(u)' => job'[u].met = job[u].met /\ job[u].met
    BY <1>2, <2>1, <2>2 DEF TreeInv, Company
  <2> QED BY <2>3 DEF Company
<1> QED BY <1>5, <1>7, <1>8, <1>9, <1>10 DEF TreeInv

(* The simulator is killed. *)
LEMMA CrashStep ==
    ASSUME TreeTyped, TreeInv, Crash
    PROVE  TreeTyped' /\ TreeInv'
<1>1. /\ cut' = (cut \/ (shared /\ \E t \in Threads : job[t].at = "write"))
      /\ job' = [t \in Threads |-> IF Inside(t) THEN job[t] ELSE Idle]
      /\ UNCHANGED <<data, by, marker, missing, old, made, shared>>
  BY DEF Crash, Cut, tree
<1>2. ASSUME NEW u \in Threads
      PROVE  /\ job'[u] \in Jobs
             /\ Inside(u) => job'[u] = job[u]
             /\ ~Inside(u) => job'[u].at = "idle" /\ job'[u].f = 1
  BY <1>1, FilesFacts DEF TreeTyped, Idle
<1>3. job' \in [Threads -> Jobs]
  BY <1>1, <1>2
<1>4. cut' \in BOOLEAN
  BY <1>1
<1>5. TreeTyped'
  BY <1>1, <1>3, <1>4 DEF TreeTyped
<1>6. \A u \in Threads : ~Preparing(u)' /\ (Inside(u)' => Inside(u))
  BY <1>2 DEF Preparing, Inside
<1>7. CopiedFull'
  <2>1. \A u \in Threads, f \in Files : (Passed(u, f)' => Preparing(u)') /\ (Writing(u, f) => Preparing(u))
    BY DEF Passed, Preparing, Writing
  <2>2. \A u \in Threads, f \in Files : marker /\ Writing(u, f) => cut'
    BY <1>1, <2>1 DEF TreeInv, SharedKnown, Writing
  <2> QED BY <1>1, <1>6, <2>1, <2>2 DEF TreeInv, CopiedFull
<1>8. SharedKnown'
  BY <1>1, <1>6 DEF TreeInv, SharedKnown
<1>9. IdleReset' /\ Company'
  <2>1. IdleReset'
    BY <1>2 DEF TreeInv, IdleReset, Inside
  <2>2. Company'
    BY <1>1, <1>2, <1>6 DEF TreeInv, Company
  <2> QED BY <2>1, <2>2
<1> QED BY <1>5, <1>7, <1>8, <1>9 DEF TreeInv

-----------------------------------------------------------------------------
(* The theorems *)

(* The invariant holds at the start ... *)
LEMMA InvBegin == Init => IInv
<1> SUFFICES ASSUME Init PROVE IInv
  OBVIOUS
<1>1. file \in Seq(Lines) /\ KeysOnce(file)
  BY DEF Init, KeysOnce
<1>2. \A t \in Threads : job[t].at = "idle" /\ job[t].f = 1
  BY DEF Init, Idle
<1>3. TreeTyped
  BY FilesFacts DEF Init, TreeTyped, Threads
<1>4. CopiedFull
  BY <1>2 DEF CopiedFull, Passed, Init
<1>5. SharedKnown /\ IdleReset /\ Company
  BY <1>2 DEF SharedKnown, IdleReset, Company, Preparing, Inside, Init
<1> QED BY <1>1, <1>3, <1>4, <1>5, TypesSplit DEF IInv, TreeInv

(* A step that leaves all but the file alone. *)
LEMMA RegistryOnly ==
    ASSUME IInv, UNCHANGED <<tree, job, made, shared, cut>>,
           file' \in Seq(Lines), KeysOnce(file')
    PROVE  IInv'
<1>1. UNCHANGED <<data, by, marker, missing, old, job, made, shared, cut>>
  BY DEF tree
<1>2. TreeTyped'
  BY <1>1, TypesSplit DEF IInv, TreeTyped
<1>3. TreeInv'
  BY <1>1 DEF IInv, TreeInv, CopiedFull, SharedKnown, IdleReset, Company, Passed, Writing,
              Preparing, Inside
<1> QED BY <1>2, <1>3, TypesSplitNext DEF IInv

(* Every step keeps the invariant, and is a command on the map of images or *)
(* leaves the map alone.                                                    *)
LEMMA NextStep ==
    ASSUME IInv, Next
    PROVE  IInv' /\ (Abstract!Next \/ load_registry' = load_registry)
<1> USE DEF IInv
<1>1. ASSUME file' = file, TreeTyped', TreeInv' PROVE IInv' /\ load_registry' = load_registry
  <2>1. file' \in Seq(Lines) /\ KeysOnce(file')
    BY <1>1, TypesSplit
  <2>2. load_registry' = load_registry
    BY <1>1 DEF load_registry
  <2> QED BY <1>1, <2>1, <2>2, TypesSplitNext
<1>2. TreeTyped /\ TreeInv
  BY TypesSplit
<1>3. ASSUME NEW i \in Images, Abstract!Remove(i) \/ \E d \in Dirs : Abstract!Register(i, d)
      PROVE  Abstract!Next
  BY <1>3 DEF Abstract!Next, Images
<1>4. ASSUME NEW i \in Refs, NEW d \in Dirs, image_register_internal(i, d),
             UNCHANGED <<tree, job, made, shared, cut>>
      PROVE  IInv' /\ (Abstract!Next \/ load_registry' = load_registry)
  <2>1. /\ file' \in Seq(Lines) /\ KeysOnce(file')
        /\ i.name # "" => i \in Images /\ Abstract!Register(i, d)
        /\ i.name = "" => load_registry' = load_registry
    BY <1>4, RegisterStep
  <2>2. IInv'
    BY <1>4, <2>1, RegistryOnly
  <2> QED BY <1>3, <2>1, <2>2
<1>5. ASSUME NEW text \in Texts, NEW d \in Dirs, image_build(text, d)
      PROVE  IInv' /\ (Abstract!Next \/ load_registry' = load_registry)
  BY <1>4, <1>5, ParseTyped DEF image_build
<1>6. ASSUME NEW src \in Texts, NEW dst \in Texts, image_tag(src, dst)
      PROVE  IInv' /\ (Abstract!Next \/ load_registry' = load_registry)
  <2>1. image_resolve(src) \in Dirs
    <3> DEFINE s == load_registry
               k == find_record(s, parse_ref(src))
    <3>1. s \in Seq(Lines)
      BY LoadProps
    <3>2. k \in 0 .. Len(s)
      BY <3>1, FindProps
    <3>3. k > 0
      BY <1>6 DEF image_tag, Resolvable
    <3>4. image_resolve(src) = s[k].dir
      BY DEF image_resolve
    <3> HIDE DEF s, k
    <3>5. k \in 1 .. Len(s)
      BY <3>1, <3>2, <3>3
    <3>6. s[k] \in Lines
      BY <3>1, <3>5, ElementOfSeq
    <3> QED BY <3>4, <3>6 DEF Lines
  <2> QED BY <1>4, <1>6, <2>1, ParseTyped DEF image_tag
<1>7. ASSUME NEW text \in Texts, image_remove(text)
      PROVE  IInv' /\ Abstract!Next
  <2>1. /\ file' \in Seq(Lines) /\ KeysOnce(file')
        /\ parse_ref(text) \in Images /\ Abstract!Remove(parse_ref(text))
    BY <1>7, RemoveStep
  <2>2. UNCHANGED <<tree, job, made, shared, cut>>
    BY <1>7 DEF image_remove
  <2> QED BY <1>3, <2>1, <2>2, RegistryOnly
<1>8. ASSUME NEW t \in Threads, container_create(t)
      PROVE  IInv' /\ load_registry' = load_registry
  <2>1. file' = file
    BY <1>8 DEF container_create
  <2> QED BY <1>1, <1>2, <1>8, <2>1, CreateStep
<1>9. ASSUME NEW t \in Threads, MakeOldRoot(t)
      PROVE  IInv' /\ load_registry' = load_registry
  <2>1. file' = file
    BY <1>9 DEF MakeOldRoot
  <2> QED BY <1>1, <1>2, <1>9, <2>1, MakeOldRootStep
<1>10. ASSUME NEW t \in Threads, Step(t)
       PROVE  IInv' /\ load_registry' = load_registry
  <2>1. file' = file
    BY <1>10 DEF Step, Truncate, Write, PassOver, CopyFails, Mark, PivotRoot, Chroot, Umount, Rmdir,
                 IsolateFails
  <2>2. TreeTyped' /\ TreeInv'
    BY <1>2, <1>10, TruncateStep, WriteStep, PassOverStep, CopyFailsStep, MarkStep, PivotRootStep,
       LeaveStep, UmountStep, RmdirStep DEF Step
  <2> QED BY <1>1, <2>1, <2>2
<1>11. ASSUME Crash PROVE IInv' /\ load_registry' = load_registry
  <2>1. file' = file
    BY <1>11 DEF Crash
  <2> QED BY <1>1, <1>2, <1>11, <2>1, CrashStep
<1>12. ASSUME NEW t \in Threads, NEW text \in Texts, CreateFromImage(t, text)
       PROVE  IInv' /\ load_registry' = load_registry
  BY <1>8, <1>12 DEF CreateFromImage
<1> HIDE DEF IInv
<1> QED BY <1>5, <1>6, <1>7, <1>8, <1>9, <1>10, <1>11, <1>12 DEF Next

(* ... and nothing changes when nothing is done. *)
LEMMA StutterStep ==
    ASSUME IInv, UNCHANGED vars
    PROVE  IInv' /\ load_registry' = load_registry
<1>1. UNCHANGED <<tree, job, made, shared, cut>> /\ file' = file
  BY DEF vars
<1>2. file' \in Seq(Lines) /\ KeysOnce(file')
  BY <1>1, TypesSplit DEF IInv
<1> QED BY <1>1, <1>2, RegistryOnly DEF load_registry

(* The invariant holds always. *)
LEMMA StorageInvariant == Spec => []IInv
<1>1. IInv /\ [Next]_vars => IInv'
  BY NextStep, StutterStep
<1> QED BY <1>1, InvBegin, PTL DEF Spec

(* A directory that filesystem_prepare_rootfs has marked, and so never      *)
(* fills again, has every tool whole, and every library and workload that   *)
(* was found when it was filled, after any failures and crashes, unless     *)
(* both threads prepared it at once.                                        *)
THEOREM RootfsIsComplete == Spec => []RootfsComplete
<1>1. IInv => RootfsComplete
  <2> SUFFICES ASSUME IInv, marker, NEW f \in Files \ missing, data[f] # "full"
               PROVE  shared /\ (cut \/ \E t \in Threads : Preparing(t))
    BY DEF RootfsComplete, IInv
  <2>1. cut \/ \E u \in Threads : Writing(u, f)
    BY DEF IInv, TreeInv, CopiedFull
  <2>2. \A u \in Threads : Writing(u, f) => Preparing(u)
    BY DEF Writing, Preparing
  <2> QED BY <2>1, <2>2 DEF IInv, TreeInv, SharedKnown
<1> QED BY <1>1, StorageInvariant, PTL

(* filesystem_isolate_rootfs misses .old_root only when two starts share    *)
(* the directory: earlier starts, failed or crashed, leave nothing behind   *)
(* that could stop a later one.                                             *)
THEOREM IsolationIsAlone == Spec => []IsolateAlone
<1>1. IInv => IsolateAlone
  BY DEF IInv, TreeInv, Company, IsolateAlone, Lost, Inside
<1> QED BY <1>1, StorageInvariant, PTL

(* The registry file, rewritten by image_build, image_tag and image_remove, *)
(* implements a map from names and tags to directories.                     *)
THEOREM RegistryImplementsMap == Spec => ImplementsMap
<1>1. Init => Abstract!Init
  <2> SUFFICES ASSUME Init PROVE Abstract!Init
    OBVIOUS
  <2> DEFINE s == load_registry
  <2>1. TypeOK /\ KeysOnce(file)
    BY InvBegin DEF IInv
  <2>2. s \in Seq(Lines) /\ KeysOnce(s)
    BY <2>1, LoadProps
  <2>3. Len(s) = 0
    <3> DEFINE S == {k \in DOMAIN file : file[k].name # ""}
               w == Filter(file, S)
    <3>1. file \in Seq(Lines) /\ Len(file) = 0
      BY <2>1 DEF Init, TypeOK
    <3>2. w \in Seq(Lines) /\ Len(w) <= Len(file)
      BY <3>1, FilterKeeps, FilterShorter
    <3>3. s = SubSeq(w, 1, IF Len(w) < Cap THEN Len(w) ELSE Cap)
      BY DEF load_registry
    <3> HIDE DEF w, s
    <3>4. Len(w) = 0
      BY <3>1, <3>2
    <3>5. s = SubSeq(w, 1, 0)
      BY <3>3, <3>4, BoundsAssumption
    <3> QED BY <3>2, <3>5
  <2>4. /\ DOMAIN MapOf(s) = {Key(s[k]) : k \in 1 .. Len(s)}
        /\ MapOf(s) = [j \in DOMAIN MapOf(s) |-> MapOf(s)[j]]
    BY <2>2, MapProps
  <2>5. Abstract!Init <=> MapOf(s) = [i \in {} |-> {}]
    BY DEF Abstract!Init
  <2> HIDE DEF s
  <2>6. DOMAIN MapOf(s) = {}
    BY <2>3, <2>4
  <2> QED BY <2>4, <2>5, <2>6
<1>2. IInv /\ [Next]_vars => [Abstract!Next]_(MapOf(load_registry))
  <2> SUFFICES ASSUME IInv, [Next]_vars
               PROVE  Abstract!Next \/ MapOf(load_registry)' = MapOf(load_registry)
    OBVIOUS
  <2>1. Abstract!Next \/ load_registry' = load_registry
    BY NextStep, StutterStep
  <2> QED BY <2>1
<1> QED BY <1>1, <1>2, StorageInvariant, PTL DEF Spec, ImplementsMap, Abstract!Spec
=============================================================================
