-------------------------- MODULE MCServerLifecycle --------------------------
(* Two listeners, each a model value, closed by Stop in slice order.       *)
EXTENDS ServerLifecycle

CONSTANTS l1, l2

MCListenOrder == <<l1, l2>>
====
