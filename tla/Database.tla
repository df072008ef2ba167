------------------------------ MODULE Database ------------------------------
(***************************************************************************)
(* What a call of the data layer can come to (executeTemplate in           *)
(* server/public/include/Redis.h and Mysql.h): it succeeds, it fails       *)
(* without effect (no connection, an error of the server), or it takes     *)
(* effect and its answer is lost (the socket timeout), which the caller    *)
(* sees as a failure too.  Redis and MySQL themselves are outside the      *)
(* repository.                                                             *)
(***************************************************************************)
EXTENDS Naturals

CONSTANT MaxDbFaults    \* bound: failed or unanswered calls

ASSUME DbFaultBound == MaxDbFaults \in Nat

VARIABLE dbFaults       \* failed or unanswered calls so far

Outcomes == {"ok", "failed", "lost"}

Calls(out) ==
    /\ out # "ok" => dbFaults < MaxDbFaults
    /\ dbFaults' = IF out = "ok" THEN dbFaults ELSE dbFaults + 1
=============================================================================
