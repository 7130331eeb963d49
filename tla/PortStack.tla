------------------------------ MODULE PortStack ------------------------------
(***************************************************************************)
(* What a registry promises of the order of port lifecycles: the ports     *)
(* that are up are always the first ones of the registration order; one    *)
(* comes up only after all that were registered before it, and only the    *)
(* last of those that are up goes down (LIFO).                             *)
(***************************************************************************)
EXTENDS Naturals, Sequences

CONSTANT Port

VARIABLES
  order,  \* registration order
  live    \* the ports that are up

stack == <<order, live>>

FirstPorts(n) == {order[i] : i \in 1..n}

Init ==
  /\ order = <<>>
  /\ live = {}

Add(p) ==
  /\ order' = Append(order, p)
  /\ UNCHANGED live

Up(n) ==
  /\ live = FirstPorts(n - 1)
  /\ live' = FirstPorts(n)
  /\ UNCHANGED order

Down(n) ==
  /\ live = FirstPorts(n)
  /\ live' = FirstPorts(n - 1)
  /\ UNCHANGED order

Next ==
  \/ \E p \in Port : Add(p)
  \/ \E n \in DOMAIN order : Up(n) \/ Down(n)

Spec == Init /\ [][Next]_stack
=============================================================================
