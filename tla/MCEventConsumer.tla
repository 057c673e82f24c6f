-------------------------- MODULE MCEventConsumer --------------------------
(* TLC instances of EventConsumer. *)
EXTENDS EventConsumer

CONSTANTS w1, w2

OneWorker == {w1}
TwoWorkers == {w1, w2}

\* An event to count, a poison one, and one the projection ignores.
EventAndPoison == {1, 2}
OneOfEachKind == {1, 2, 3}
MCIds == {"a", "b", "c"}
MCMsgId == [m \in Msgs |-> <<"a", "b", "c">>[m]]
MCKind == 
  [i \in Ids |-> CASE i = "a" -> "created" [] i = "b" -> "poison" [] i = "c" -> "other"]
=============================================================================
