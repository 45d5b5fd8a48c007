-------------------------------- MODULE ConnCount --------------------------------
(***************************************************************************)
(* The counter of the server websocket: one Handler per connection, and a   *)
(* Cell that they share, in one thread.  Connections are numbered in the      *)
(* order they open.  The library calls on_close once for each on_open.       *)
(***************************************************************************)
EXTENDS Naturals, FiniteSets

CONSTANT MaxConns   \* bound: connections that open

ASSUME ConnsAssumption == MaxConns \in Nat

VARIABLES
    opened,         \* how many connections have opened
    live,           \* those that are open
    clientId,       \* the field client_id of their handlers
    count           \* the Cell

countVars == <<opened, live, clientId, count>>

CountInit ==
    /\ opened = 0
    /\ live = {}
    /\ clientId = <<>>
    /\ count = 0

OnOpen ==
    /\ opened < MaxConns
    /\ opened' = opened + 1
    /\ live' = live \cup {opened + 1}
    /\ clientId' = [c \in 1..(opened + 1) |-> IF c <= opened THEN clientId[c] ELSE count + 1]
    /\ count' = count + 1

\* Variant: only the newest connection gives its number back.
OnCloseNewest(c) ==
    /\ c \in live
    /\ live' = live \ {c}
    /\ count' = IF c = opened THEN count - 1 ELSE count
    /\ UNCHANGED <<opened, clientId>>

OnClose(c) ==
    /\ c \in live
    /\ live' = live \ {c}
    /\ count' = count - 1
    /\ UNCHANGED <<opened, clientId>>

CountNext == OnOpen \/ \E c \in live : OnClose(c)

CountSpec == CountInit /\ [][CountNext]_countVars

-----------------------------------------------------------------------------
(* Properties *)

\* The count is that of the live connections (so that it never goes below zero), and
\* although an id is no more than the count at its time, two live clients share one
\* only when a client older than both has left (on_open, on_close).
CountsTheLive ==
    /\ count = Cardinality(live)
    /\ \A c, d \in live :
          c < d /\ clientId[c] = clientId[d] => \E b \in 1..(c - 1) : b \notin live

=============================================================================
