------------------------------ MODULE MCRemote ------------------------------
(* Two builds of today, a source that may claim anything about two windows *)
(* and starts with none, one or both of them; the consumer may be a later  *)
(* build that no longer speaks today's version.                            *)
EXTENDS Remote

CONSTANTS w1, w2

MCSnapshots == {<<>>, <<w1>>, <<w1, w2>>}
MCProvider == [role |-> "Provider", version |-> 1, oldest |-> 1, codecs |-> <<"json">>]
MCConsumers ==
    {[role |-> "Consumer", version |-> v, oldest |-> v, codecs |-> <<"json">>] : v \in {1, 2}}
=============================================================================
