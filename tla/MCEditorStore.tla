---------------------------- MODULE MCEditorStore ----------------------------
(* One object with a device and a diagram with a figure; a device, a tag and *)
(* a figure that can be created.                                             *)
EXTENDS EditorStore, TLC

CONSTANTS o1, d1, d2, t1, g1, f1, f2

MCHomeOf == [i \in {d1, d2, t1, g1, f1, f2} |->
               IF i \in {t1} THEN d1 ELSE IF i \in {f1, f2} THEN g1 ELSE o1]
MCInitial == {o1, d1, g1, f1}

\* What is explored: of the requests in progress, those about devices and tags and those
\* about diagrams and figures come one after the other.  They share no row and no
\* history, so that overlapping gives no other result; an object's deletion meets both.
OneSide ==
    \A r, s \in Requests : ~(req[r].id \in Devices \cup Tags /\ req[s].id \in Diagrams \cup Figures)

MCSymmetry == Permutations(Requests)
=============================================================================
