-------------------------- MODULE MCTransportRelay --------------------------
(* Two deployments of the relay for TLC: the SQLite store behind tokens    *)
(* whose secret may be rotated, with one message that is sent twice; and   *)
(* the open memory store with two messages, where a poll may claim a batch.*)
EXTENDS TransportRelay

CONSTANTS m1, m2

MCDeployments ==
    {[durable |-> TRUE, enforced |-> TRUE, visibility |-> 2, messages |-> {m1}],
     [durable |-> FALSE, enforced |-> FALSE, visibility |-> 1, messages |-> {m1, m2}]}
=============================================================================
