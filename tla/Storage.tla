------------------------------ MODULE Storage -------------------------------
(***************************************************************************)
(* What containers are made of on disk: the registry of images (image.c)   *)
(* and the root file systems that filesystem.c fills and a container moves *)
(* into.  The command line and the orchestrator's monitor create and start *)
(* containers at the same time, and several may share a directory.         *)
(*                                                                         *)
(* Directories do not affect one another, so one of them is followed: what *)
(* is made elsewhere changes nothing here.  A file of it is missing, torn  *)
(* (truncated or partly written) or full; which programs and libraries are *)
(* copied does not matter, only which of them must be found.  Lengths of   *)
(* names and paths are left out.                                           *)
(***************************************************************************)
EXTENDS Naturals, Sequences, SequencesExt, FiniteSets, SeqFilter

CONSTANTS
    Names,      \* names of images, "" among them
    Tags,       \* their tags, "" among them
    Dirs,       \* directories that images stand for
    Rootfs,     \* the one that is followed
    NFiles,     \* number of files copied into a root file system
    Tools,      \* those of bootstrap_binaries; the rest are libraries, which
                \* ldd names, and workloads
    Cap         \* 256: size of the registry

ASSUME BoundsAssumption == NFiles \in Nat \ {0} /\ Cap \in Nat
ASSUME RootfsAssumption == Rootfs \in Dirs
ASSUME ToolsAssumption == Tools \subseteq 1 .. NFiles

Threads == {"cli", "mon"}
Files   == 1 .. NFiles
Latest  == "latest"
Texts   == [name : Names, tag : Tags]
Lines   == [name : Names, tag : Tags \cup {Latest}, dir : Dirs]

VARIABLES
    file,       \* images.meta: its lines
    data,       \* the files of Rootfs
    by,         \* which thread truncated a file last
    marker,     \* is there a .bootstrapped?
    missing,    \* history: what the copy that made it had passed over
    old,        \* is there a .old_root?
    job,        \* what each thread, or the child it waits for, is doing
    made,       \* has a container been created there?
    shared,     \* history: have both threads prepared it at once ...
    cut         \* ... and one of them not finished?

tree == <<data, by, marker, missing, old>>
vars == <<file, tree, job, made, shared, cut>>

Idle == [at |-> "idle", f |-> 1, missed |-> {}, mounted |-> FALSE, met |-> FALSE]

TypeOK ==
    /\ file \in Seq(Lines)
    /\ data \in [Files -> {"none", "torn", "full"}]
    /\ by \in [Files -> Threads]
    /\ {marker, old, made, shared, cut} \subseteq BOOLEAN
    /\ missing \in SUBSET (Files \ Tools)
    /\ job \in [Threads -> [at : {"idle", "copy", "write", "mark", "pivot", "umount", "rmdir"},
                            f : Files, missed : SUBSET (Files \ Tools), mounted : BOOLEAN, met : BOOLEAN]]

Init ==
    /\ file = <<>>
    /\ data = [f \in Files |-> "none"] /\ by = [f \in Files |-> "cli"]
    /\ marker = FALSE /\ missing = {} /\ old = FALSE
    /\ job = [t \in Threads |-> Idle]
    /\ made = FALSE /\ shared = FALSE /\ cut = FALSE

-----------------------------------------------------------------------------
(* The registry *)

(* "name" and "name:" stand for "name:latest". *)
parse_ref(text) == [name |-> text.name, tag |-> IF text.tag = "" THEN Latest ELSE text.tag]

(* strtok passes over an empty field, and a line with three of them is no   *)
(* image.                                                                   *)
load_registry ==
    LET whole == Filter(file, {k \in DOMAIN file : file[k].name # ""})
    IN  SubSeq(whole, 1, IF Len(whole) < Cap THEN Len(whole) ELSE Cap)

find_record(records, i) == SelectInSeq(records, LAMBDA r : r.name = i.name /\ r.tag = i.tag)

(* The file is written beside the old one and renamed. *)
image_register_internal(i, d) ==
    LET records == load_registry
        idx     == find_record(records, i) IN
    \/ idx > 0 /\ file' = [records EXCEPT ![idx].dir = d]
    \/ /\ idx = 0 /\ Len(records) < Cap
       /\ file' = Append(records, [name |-> i.name, tag |-> i.tag, dir |-> d])

Free(t) == job[t].at = "idle"

image_build(text, d) ==
    /\ Free("cli") /\ text.name # ""
    /\ image_register_internal(parse_ref(text), d)
    /\ UNCHANGED <<tree, job, made, shared, cut>>

Resolvable(text) == find_record(load_registry, parse_ref(text)) > 0

image_resolve(text) == load_registry[find_record(load_registry, parse_ref(text))].dir

image_tag(src, dst) ==
    /\ Free("cli") /\ Resolvable(src)
    /\ image_register_internal(parse_ref(dst), image_resolve(src))
    /\ UNCHANGED <<tree, job, made, shared, cut>>

(* Mutant: the tag is not compared. *)
image_remove_AllTags(text) ==
    /\ Free("cli") /\ text.name # "" /\ Resolvable(text)
    /\ file' = Filter(load_registry, {k \in DOMAIN load_registry :
                                           load_registry[k].name # text.name})
    /\ UNCHANGED <<tree, job, made, shared, cut>>

image_remove(text) ==
    LET i       == parse_ref(text)
        records == load_registry IN
    /\ Free("cli") /\ text.name # "" /\ Resolvable(text)
    /\ file' = Filter(records, {k \in DOMAIN records : \/ records[k].name # i.name
                                                      \/ records[k].tag # i.tag})
    /\ UNCHANGED <<tree, job, made, shared, cut>>

-----------------------------------------------------------------------------
(* container_create and filesystem_prepare_rootfs *)

Preparing(t) == job[t].at \in {"copy", "write", "mark"}

(* Rootfs is named by an image or, where there is none of that name, as a   *)
(* path.  mkdir_p, create_layout, and nothing more if the marker is there.  *)
container_create(t) ==
    /\ Free(t)
    /\ old' = TRUE
    /\ IF marker
       THEN made' = TRUE /\ UNCHANGED <<job, shared>>
       ELSE /\ job' = [job EXCEPT ![t].at = "copy"]
            /\ shared' = (shared \/ \E u \in Threads : Preparing(u))
            /\ UNCHANGED made
    /\ UNCHANGED <<file, data, by, marker, missing, cut>>

(* create by the name of an image: it is resolved first. *)
CreateFromImage(t, text) ==
    /\ Free(t) /\ Resolvable(text) /\ image_resolve(text) = Rootfs
    /\ container_create(t)

(* copy_regular_file: O_TRUNC ... *)
Truncate(t) ==
    /\ job[t].at = "copy"
    /\ data' = [data EXCEPT ![job[t].f] = "torn"]
    /\ by' = [by EXCEPT ![job[t].f] = t]
    /\ job' = [job EXCEPT ![t].at = "write"]
    /\ UNCHANGED <<file, marker, missing, old, made, shared, cut>>

(* The next file, or the marker. *)
After(j) == [j EXCEPT !.at = IF j.f < NFiles THEN "copy" ELSE "mark",
                      !.f  = IF j.f < NFiles THEN j.f + 1 ELSE 1]

(* ... and the contents, which have a hole if somebody has truncated the    *)
(* file again.                                                              *)
Write(t) ==
    LET f == job[t].f IN
    /\ job[t].at = "write"
    /\ data' = [data EXCEPT ![f] = IF by[f] = t THEN "full" ELSE @]
    /\ by' = [by EXCEPT ![f] = IF @ = t THEN "cli" ELSE @]
    /\ job' = [job EXCEPT ![t] = After(@)]
    /\ UNCHANGED <<file, marker, missing, old, made, shared, cut>>

Cut(T) == cut' = (cut \/ (shared /\ \E t \in T : job[t].at = "write"))

(* A workload is not there, or ldd ends before it has named a library: its  *)
(* exit status is not looked at.  The copy goes on without.                 *)
PassOver(t) ==
    /\ job[t].at = "copy" /\ job[t].f \notin Tools
    /\ job' = [job EXCEPT ![t] = [After(job[t]) EXCEPT !.missed = @ \cup {job[t].f}]]
    /\ UNCHANGED <<file, tree, made, shared, cut>>

(* A file cannot be copied, or ldd says that it has not found a library: no *)
(* container.                                                               *)
CopyFails(t) ==
    /\ job[t].at \in {"copy", "write"}
    /\ job' = [job EXCEPT ![t] = Idle]
    /\ Cut({t})
    /\ UNCHANGED <<file, tree, made, shared>>

(* Mutant: the marker is set when the first file has been copied. *)
Mark_Early(t) ==
    /\ job[t].at = "mark" \/ (job[t].at = "copy" /\ job[t].f > 1)
    /\ marker' = TRUE
    /\ missing' = IF marker THEN missing ELSE job[t].missed
    /\ made' = TRUE
    /\ job' = [job EXCEPT ![t] = Idle]
    /\ UNCHANGED <<file, data, by, old, shared, cut>>

(* Everything that was found is copied.  The marker may fail, which goes    *)
(* unnoticed.                                                               *)
Mark(t) ==
    /\ job[t].at = "mark"
    /\ marker' \in {marker, TRUE}
    /\ missing' = IF ~marker /\ marker' THEN job[t].missed ELSE missing
    /\ made' = TRUE
    /\ job' = [job EXCEPT ![t] = Idle]
    /\ UNCHANGED <<file, data, by, old, shared, cut>>

-----------------------------------------------------------------------------
(* filesystem_isolate_rootfs, in the child of a start *)

Inside(t) == job[t].at \in {"pivot", "umount", "rmdir"}

(* Mutant: the directory that create_layout has made is relied on. *)
MakeOldRoot_Missing(t) ==
    LET company == {u \in Threads \ {t} : Inside(u)} IN
    /\ Free(t) /\ made
    /\ job' = [u \in Threads |-> IF u = t THEN [Idle EXCEPT !.at = "pivot", !.met = company # {}]
                                 ELSE [job[u] EXCEPT !.met = @ \/ u \in company]]
    /\ UNCHANGED <<file, tree, made, shared, cut>>

(* A child starts to isolate itself: it makes sure of .old_root. *)
MakeOldRoot(t) ==
    LET company == {u \in Threads \ {t} : Inside(u)} IN
    /\ Free(t) /\ made
    /\ old' = TRUE
    /\ job' = [u \in Threads |-> IF u = t THEN [Idle EXCEPT !.at = "pivot", !.met = company # {}]
                                 ELSE [job[u] EXCEPT !.met = @ \/ u \in company]]
    /\ UNCHANGED <<file, data, by, marker, missing, made, shared, cut>>

PivotRoot(t) ==
    /\ job[t].at = "pivot" /\ old
    /\ job' = [job EXCEPT ![t].at = "umount", ![t].mounted = TRUE]
    /\ UNCHANGED <<file, tree, made, shared, cut>>

(* Without the privilege a chroot does instead; or the child is killed. *)
Chroot(t) ==
    /\ Inside(t)
    /\ job' = [job EXCEPT ![t] = Idle]
    /\ UNCHANGED <<file, tree, made, shared, cut>>

Umount(t) ==
    /\ job[t].at = "umount" /\ job[t].mounted
    /\ job' = [job EXCEPT ![t].at = "rmdir", ![t].mounted = FALSE]
    /\ UNCHANGED <<file, tree, made, shared, cut>>

(* The directory goes, and with it what is mounted on it elsewhere. *)
Rmdir(t) ==
    /\ job[t].at = "rmdir" /\ old
    /\ old' = FALSE
    /\ job' = [u \in Threads |-> IF u = t THEN Idle ELSE [job[u] EXCEPT !.mounted = FALSE]]
    /\ UNCHANGED <<file, data, by, marker, missing, made, shared, cut>>

(* The child cannot go on: pivot_root and rmdir miss the directory, umount2 *)
(* the mount.  The start fails.                                             *)
Lost(t) ==
    \/ job[t].at \in {"pivot", "rmdir"} /\ ~old
    \/ job[t].at = "umount" /\ ~job[t].mounted

IsolateFails(t) ==
    /\ Lost(t)
    /\ job' = [job EXCEPT ![t] = Idle]
    /\ UNCHANGED <<file, tree, made, shared, cut>>

-----------------------------------------------------------------------------
(* The simulator is killed and started again.  A child that is isolating    *)
(* itself goes on.                                                          *)
Crash ==
    /\ Cut(Threads)
    /\ job' = [t \in Threads |-> IF Inside(t) THEN job[t] ELSE Idle]
    /\ UNCHANGED <<file, tree, made, shared>>

Step(t) ==
    \/ Truncate(t) \/ Write(t) \/ PassOver(t) \/ CopyFails(t) \/ Mark(t)
    \/ PivotRoot(t) \/ Chroot(t) \/ Umount(t) \/ Rmdir(t) \/ IsolateFails(t)

Next ==
    \/ \E text \in Texts, d \in Dirs : image_build(text, d)
    \/ \E src, dst \in Texts : image_tag(src, dst)
    \/ \E text \in Texts : image_remove(text)
    \/ \E t \in Threads, text \in Texts : CreateFromImage(t, text)
    \/ \E t \in Threads : container_create(t) \/ MakeOldRoot(t) \/ Step(t)
    \/ Crash

Spec == Init /\ [][Next]_vars

-----------------------------------------------------------------------------
(* Properties *)

(* The file is a map from names to directories, whatever is built, tagged   *)
(* and removed, with a tag that has no name passed over as if it had never  *)
(* been given.                                                              *)
MapOf(records) ==
    [i \in {[name |-> records[k].name, tag |-> records[k].tag] : k \in DOMAIN records} |->
        records[find_record(records, i)].dir]
Abstract == INSTANCE ImageMap WITH
    Images <- [name : Names \ {""}, tag : (Tags \ {""}) \cup {Latest}], Limit <- Cap,
    images <- MapOf(load_registry)
ImplementsMap == Abstract!Spec

(* A directory that is marked as filled, and so is never filled again, has  *)
(* every tool whole, and every library and workload that was found when it  *)
(* was filled, after any failures and crashes.  The exception: both threads *)
(* prepared it at once, and the one that came second is still at it or did  *)
(* not finish.                                                              *)
RootfsComplete ==
    /\ TypeOK
    /\ marker => \A f \in Files \ missing :
           data[f] = "full" \/ (shared /\ (cut \/ \E t \in Threads : Preparing(t)))

(* A start that fails because .old_root is gone was not alone in the        *)
(* directory: what earlier starts have left there never matters.            *)
IsolateAlone == \A t \in Threads : Lost(t) => job[t].met

=============================================================================
