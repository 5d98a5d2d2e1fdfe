------------------------------ MODULE MCPusher ------------------------------
(* Pusher for TLC. *)
EXTENDS Pusher, TLC

CONSTANTS p1, p2, p3, QueueLength

MCMaxFrames == [t \in AudioType |-> QueueLength]

\* Connections are interchangeable; no property or constant names one of them.
MCSymmetry == Permutations(Peers)

=============================================================================
