-------------------------- MODULE MCNetworkManager --------------------------
(***************************************************************************)
(* Instances of NetworkManager for TLC.  The plans move a port from one    *)
(* adapter to another, rebind, disable and change the kind of an adapter,  *)
(* and remove adapters.  None of them moves an adapter to a port that a    *)
(* later one of the same plan has yet to leave: the code cannot do that.   *)
(***************************************************************************)
EXTENDS NetworkManager, TLC

MCNames == {1, 2}

Server(p) == [kind |-> "server", cfg |-> [port |-> p, on |-> TRUE]]

Client(p) == [kind |-> "client", cfg |-> [port |-> p, on |-> TRUE]]

Disabled(d) == [d EXCEPT !.cfg.on = FALSE]

MCPlans == {
    1 :> Server("p"),
    1 :> Server("q") @@ 2 :> Server("p"),
    1 :> Client("p"),
    1 :> Disabled(Client("q")),
    2 :> Server("p")}

ASSUME PlansApart == PortsApart

=============================================================================
