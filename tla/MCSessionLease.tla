--------------------------- MODULE MCSessionLease ---------------------------
(* Model-checking instance of SessionLease. *)
EXTENDS SessionLease, TLC

\* Connections and gateways are interchangeable; used where no liveness
\* property is checked.
Symmetric == Permutations(Connections) \cup Permutations(Gateways)
=============================================================================
