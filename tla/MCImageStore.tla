---------------------------- MODULE MCImageStore ----------------------------
(* Instances of ImageStore for TLC.                                         *)
EXTENDS ImageStore, TLC

CONSTANTS p1, p2, p3, r1, r2, i1, b1

\* Two references to one image, and the image by its id, which no registry knows.
References == {r1, r2, i1}
IdOfReference == [r \in References |-> i1]
OneBase == [i \in Ids |-> b1]

Run(r) == [ref |-> r, pull |-> FALSE]
Pull(r) == [ref |-> r, pull |-> TRUE]

\* Three runs of which two want the same reference; a run, a pull and a run by id.
ThreeAsks == {(p1 :> Run(r1)) @@ (p2 :> Run(r1)) @@ (p3 :> Run(r2)),
              (p1 :> Run(r1)) @@ (p2 :> Pull(r2)) @@ (p3 :> Run(i1))}

=============================================================================
