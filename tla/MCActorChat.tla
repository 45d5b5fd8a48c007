----------------------------- MODULE MCActorChat -----------------------------
(* Instances of ActorChat for TLC. *)
EXTENDS ActorChat, TLC

\* Ids are interchangeable.
IdSymmetry == Permutations(Ids)

\* So are the peers of a kind, those that may leave and those that stay.
Symmetry ==
    IdSymmetry \cup Permutations(TcpConns \ Quitters) \cup Permutations(WsConns \ Quitters)

=============================================================================
