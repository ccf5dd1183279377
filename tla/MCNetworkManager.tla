-------------------------- MODULE MCNetworkManager --------------------------
(***************************************************************************)
(* Instances of NetworkManager for TLC.                                    *)
(***************************************************************************)
EXTENDS NetworkManager, TLC

\* Each TCP connection is made from an address of its own.
OwnAddress == [a \in Tcp |-> a]

\* All TCP connections are made from one address, one after the other.
OneAddress == [a \in Tcp |-> "address"]

\* Clients that use the same transport and family are interchangeable.
Symmetry == Permutations(Udp4) \cup Permutations(Tcp4)
=============================================================================
