----------------------------- MODULE MCEventBus -----------------------------
(***************************************************************************)
(* A small instance of EventBus: two publishing threads and two            *)
(* subscriptions, one of which filters; the other answers an event with    *)
(* another one.                                                            *)
(***************************************************************************)
EXTENDS EventBus

MCThreads == {"t1", "t2"}
MCEvents == {"a", "b", "c"}
MCHandlers == {"all", "some"}
MCMatches == [h \in MCHandlers |-> IF h = "all" THEN MCEvents ELSE {"b", "c"}]
MCEmits == [h \in MCHandlers |-> IF h = "all" THEN {"b"} ELSE {}]
=============================================================================
