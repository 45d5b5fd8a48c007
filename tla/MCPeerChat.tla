------------------------------ MODULE MCPeerChat ------------------------------
(* Instances of PeerChat for TLC. *)
EXTENDS PeerChat, TLC

\* Clients that do the same are interchangeable.
Symmetry ==
    Permutations(Talkers \ Leavers) \cup Permutations(Talkers \cap Leavers)
        \cup Permutations(Leavers \ Talkers) \cup Permutations(Conns \ (Talkers \cup Leavers))

\* Bound: nobody leaves when all are there.
SomeAreAbsent == (\E c \in Conns : life[c] = "none") \/ \A c \in Conns : link[c] = "open"

\* While no address comes back it does not matter which one a client has.
CrowdNext ==
    \E c \in Conns :
        \/ Task(c)
        \/ Client(c) /\ addr'[c] \in {NoAddr, c} /\ SomeAreAbsent'

CrowdSpec == Init /\ [][CrowdNext]_vars

=============================================================================
