---------------------------- MODULE MCCoderCheckout ----------------------------
(* CoderCheckout on a small instance: a file three verifiers judge, another   *)
(* one of its own, and a guarded one.                                         *)
EXTENDS CoderCheckout
MCVerifiersOf == [a |-> {"tsc", "eslint", "jsdoc"}, b |-> {"parse"}]
================================================================================
