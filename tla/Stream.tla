-------------------------------- MODULE Stream --------------------------------
(***************************************************************************)
(* What a proxy promises to a client and to the upstream server of its     *)
(* request: each is given the bytes of the other, in order, none twice and *)
(* none left out, and nothing any more when the exchange is over.          *)
(***************************************************************************)
EXTENDS Integers, Sequences

VARIABLES passed,     \* the bytes of the request the upstream was given
          delivered,  \* the bytes of the reply the client was given
          over        \* the client connection is closed, or at its next request

vars == <<passed, delivered, over>>

Init == passed = <<>> /\ delivered = <<>> /\ over = FALSE

\* The bytes of a stream are numbered; t is s with the next ones of it.
Extends(s, t) == /\ Len(s) <= Len(t)
                 /\ t = [i \in 1 .. Len(t) |-> IF i <= Len(s) THEN s[i] ELSE i]

Pass == /\ ~over
        /\ Extends(passed, passed')
        /\ UNCHANGED <<delivered, over>>

\* The last bytes of a reply may be given in the step that ends the exchange.
Deliver == /\ ~over
           /\ Extends(delivered, delivered')
           /\ over' \in BOOLEAN
           /\ UNCHANGED passed

Next == Pass \/ Deliver

Spec == Init /\ [][Next]_vars
===============================================================================
