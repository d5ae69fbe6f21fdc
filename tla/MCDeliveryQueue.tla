-------------------------- MODULE MCDeliveryQueue --------------------------
(* Constants of the runs of DeliveryQueue: one delivery, for entries are    *)
(* independent of each other, with its call and two recoveries.             *)
EXTENDS DeliveryQueue

CONSTANT d1

Opt(effort, watched) == [bestEffort |-> effort, onError |-> watched]
MCOptions == {Opt(FALSE, FALSE), Opt(TRUE, TRUE)}
=============================================================================
