------------------------------- MODULE MCPs2 --------------------------------
(* Ps2 for TLC: A, both shifts and the right control key. *)
EXTENDS Ps2

MCKeyCaps ==
    [k \in {<<FALSE, \h1C>>, <<FALSE, \h12>>, <<FALSE, \h59>>, <<TRUE, \h14>>} |->
        CASE k = <<FALSE, \h1C>> -> [key |-> 65, plain |-> 97, shifted |-> 65]
          [] k = <<FALSE, \h12>> -> [key |-> 17, plain |-> 0, shifted |-> 0]
          [] k = <<FALSE, \h59>> -> [key |-> 18, plain |-> 0, shifted |-> 0]
          [] k = <<TRUE, \h14>> -> [key |-> 25, plain |-> 0, shifted |-> 0]]

MCKeys == DOMAIN MCKeyCaps
=============================================================================
