------------------------------ MODULE MCFailover -----------------------------
(* Failover on small instances: two models of one provider, one of them before
   the backstop, and a model by itself that may be slow. *)
EXTENDS Failover
CONSTANTS a1, a2, a3, cc
MCProvider == [r \in Refs |-> IF r = cc THEN "claude_code" ELSE "api"]
MCChains == {<<a1, a2>>, <<a2, cc>>, <<a3>>}
MCCooldown == [transient |-> 1, slow |-> 2, quarantine |-> 2, terminal |-> 2]
MCCanEnd == [r \in Refs |-> IF r = a1 THEN {"account"} ELSE IF r = a2 THEN {"transient"}
                          ELSE IF r = a3 THEN {"slow"} ELSE {}]
=============================================================================
