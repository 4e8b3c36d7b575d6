------------------------------ MODULE ImageMap ------------------------------
(***************************************************************************)
(* What the image commands promise, without a file: a name and a tag stand *)
(* for the directory given last, until they are removed; at most Limit     *)
(* images are registered at a time.                                        *)
(***************************************************************************)
EXTENDS Naturals, FiniteSets

CONSTANTS Images, Dirs, Limit

VARIABLE images

Init == images = [i \in {} |-> {}]

Register(i, d) ==
    /\ i \in DOMAIN images \/ Cardinality(DOMAIN images) < Limit
    /\ images' = [j \in DOMAIN images \cup {i} |-> IF j = i THEN d ELSE images[j]]

Remove(i) ==
    /\ i \in DOMAIN images
    /\ images' = [j \in DOMAIN images \ {i} |-> images[j]]

Next == \E i \in Images : Remove(i) \/ \E d \in Dirs : Register(i, d)

Spec == Init /\ [][Next]_images
=============================================================================
