-------------------------------- MODULE MCWsChat --------------------------------
(* Instances of WsChat for TLC. *)
EXTENDS WsChat, TLC

\* Bound: no entry gets old.  A shorter backlog repeats less of what is under way.
FeedNext ==
    \/ \E c \in Conns : Handlers(c) \/ OnTimeout(c)
    \/ Dispatch
    \/ Restart
    \/ RestartAfterTornSave

FeedSpec ==
    Init /\ [][FeedNext]_vars /\ WF_vars(Dispatch) /\ \A c \in Conns : WF_vars(OnTimeout(c))

=============================================================================
