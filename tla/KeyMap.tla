------------------------------- MODULE KeyMap -------------------------------
(***************************************************************************)
(* What a map from keys to values promises.  An operation takes the map    *)
(* from f to g; one that needs memory either does its work and says so, or *)
(* changes nothing and says that.                                          *)
(***************************************************************************)
Put(f, g, result, k, v) ==
    \/ g = [x \in DOMAIN f \cup {k} |-> IF x = k THEN v ELSE f[x]] /\ result = TRUE
    \/ g = f /\ result = FALSE

Remove(f, g, k) == g = [x \in DOMAIN f \ {k} |-> f[x]]

Clear(f, g) == DOMAIN g = {}
=============================================================================
