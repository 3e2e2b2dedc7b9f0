---------------------------- MODULE MCBusDelivery ----------------------------
(* Instances of BusDelivery for TLC.                                         *)
EXTENDS BusDelivery

CONSTANTS pm, ra, tp

\* To the agent, and to everyone.
Plain == {<<pm, None>>, <<ALL, None>>}

\* To everyone, and to another agent on a topic the agent may subscribe to.
Mixed == {<<ALL, None>>, <<ra, tp>>}
===============================================================================
