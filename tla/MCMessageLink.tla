--------------------------- MODULE MCMessageLink ---------------------------
(* Model-checking instances of MessageLink. *)
EXTENDS MessageLink, TLC

CONSTANTS f1, f2, i1

\* Two calls that share the client's request id.
SameId == f1 :> i1 @@ f2 :> i1

OneCall == f1 :> i1

\* Nodes, and the streams of a node, are interchangeable; used where no liveness
\* property is checked.
Symmetric == Permutations(Nodes) \cup Permutations(Slots)
=============================================================================
