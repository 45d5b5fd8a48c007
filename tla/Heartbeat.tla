------------------------------- MODULE Heartbeat -------------------------------
(***************************************************************************)
(* The heartbeat of one session of actor_ws_tcp_chat, in whole units of     *)
(* time.  Over TCP the client pings on its own timer (client.rs) and the    *)
(* session checks every second (session.rs); over a websocket the session   *)
(* pings at every check and the browser answers (main.rs).                  *)
(*                                                                         *)
(* Every clock is kept as the time since it was last reset, so that no      *)
(* clock grows without limit.  A timer is handled at the instant it is due; *)
(* a ping is handled at most Delay after it was sent, which covers the      *)
(* network and the time the session's ctx.wait() keeps it from handling it. *)
(***************************************************************************)
EXTENDS Integers, Sequences

CONSTANTS
    TcpInterval,  \* of the TCP session's run_interval: 1 s
    WsInterval,   \* HEARTBEAT_INTERVAL, of the websocket session's run_interval: 5 s
    Timeout,      \* CLIENT_TIMEOUT: 10 s
    Period,       \* of the TCP client's run_later: 1 s
    TcpDelay,     \* bound: from a TCP client's ping to its handling
    WsDelay       \* bound: from a ping to a browser to the handling of the pong

ASSUME TimesAssumption ==
    /\ TcpInterval \in Nat \ {0} /\ WsInterval \in Nat \ {0} /\ Period \in Nat \ {0}
    /\ Timeout \in Nat /\ TcpDelay \in Nat /\ WsDelay \in Nat

VARIABLES
    kind,         \* "tcp" or "ws", for good
    up,           \* the session has not called ctx.stop()
    age,          \* time since the session's field hb was set
    timer,        \* time since the last check
    falls,        \* the peer has gone silent
    clock,        \* time since the TCP client last pinged
    flight        \* ages of the pings (or pongs) that are under way, oldest first

hbVars == <<kind, up, age, timer, falls, clock, flight>>

Interval == IF kind = "tcp" THEN TcpInterval ELSE WsInterval
Delay == IF kind = "tcp" THEN TcpDelay ELSE WsDelay

HbInit ==
    /\ kind \in {"tcp", "ws"}
    /\ up = TRUE
    /\ age = 0
    /\ timer = 0
    /\ falls = FALSE
    /\ clock = 0
    /\ flight = <<>>

-----------------------------------------------------------------------------
\* Variants: a check that is off by one, and one that only warns.
LateAt == age >= Timeout
NeverLate == FALSE

\* Instant::now().duration_since(act.hb) > timeout
Late == age > Timeout

\* Variant: a late peer gets another chance.
TcpCheckForgives ==
    /\ kind = "tcp" /\ up
    /\ timer = Interval
    /\ timer' = 0
    /\ age' = IF Late THEN 0 ELSE age
    /\ UNCHANGED <<kind, up, falls, clock, flight>>

\* The session's timer: stop a late peer.  (A Ping is written in any case; a
\* TCP client does nothing with it.)
TcpCheck ==
    /\ kind = "tcp" /\ up
    /\ timer = Interval
    /\ timer' = 0
    /\ up' = ~Late
    /\ UNCHANGED <<kind, age, falls, clock, flight>>

\* The same, but a peer in time is pinged, and one that is alive answers.
WsCheck ==
    /\ kind = "ws" /\ up
    /\ timer = Interval
    /\ timer' = 0
    /\ up' = ~Late
    /\ flight' = IF Late \/ falls THEN flight ELSE Append(flight, 0)
    /\ UNCHANGED <<kind, age, falls, clock>>

\* ChatRequest::Ping; ws::Message::Ping or Pong.
HandlePing ==
    /\ up
    /\ flight # <<>>
    /\ age' = 0
    /\ flight' = Tail(flight)
    /\ UNCHANGED <<kind, up, timer, falls, clock>>

TcpHandlePing == kind = "tcp" /\ HandlePing
WsHandlePong == kind = "ws" /\ HandlePing

\* The client's hb: ping, and arm the timer again.
TcpClientPings ==
    /\ kind = "tcp"
    /\ ~falls
    /\ clock = Period
    /\ clock' = 0
    /\ flight' = Append(flight, 0)
    /\ UNCHANGED <<kind, up, age, timer, falls>>

\* The peer, or the way to it, goes dead; what is under way may be lost.
PeerFalls ==
    /\ ~falls
    /\ falls' = TRUE
    /\ flight' \in {flight, <<>>}
    /\ UNCHANGED <<kind, up, age, timer, clock>>

\* Time passes when nothing is due.
Tick ==
    /\ up
    /\ timer < Interval
    /\ kind = "tcp" /\ ~falls => clock < Period
    /\ \A i \in DOMAIN flight : flight[i] < Delay
    /\ age' = age + 1
    /\ timer' = timer + 1
    /\ clock' = IF kind = "tcp" /\ ~falls THEN clock + 1 ELSE clock
    /\ flight' = [i \in 1..Len(flight) |-> flight[i] + 1]
    /\ UNCHANGED <<kind, up, falls>>

HbNext ==
    \/ TcpCheck
    \/ WsCheck
    \/ TcpHandlePing
    \/ WsHandlePong
    \/ TcpClientPings
    \/ PeerFalls
    \/ Tick

HbSpec == HbInit /\ [][HbNext]_hbVars

\* Timers fire, what arrives is handled, and time goes on; nobody has to fall.
HbServes == TcpCheck \/ WsCheck \/ TcpHandlePing \/ WsHandlePong \/ TcpClientPings \/ Tick

HbFairSpec == HbSpec /\ WF_hbVars(HbServes)

-----------------------------------------------------------------------------
(* Properties *)

HbTypeOK ==
    /\ kind \in {"tcp", "ws"}
    /\ up \in BOOLEAN
    /\ age \in 0..(Timeout + Interval)
    /\ timer \in 0..Interval
    /\ falls \in BOOLEAN
    /\ clock \in 0..Period
    /\ flight \in Seq(0..Delay)

\* A peer is not kept longer than one check beyond the timeout after its last
\* ping was handled (the run_interval and the comparison of hb, session.rs and
\* main.rs): the check has seen hb at most timer ago.
SilentAtMost == up => age <= Timeout + timer

\* A TCP client pings on its own timer, a browser when the session does.
SinceLastPing == IF kind = "tcp" THEN clock ELSE timer
PingPeriod == IF kind = "tcp" THEN Period ELSE Interval

\* A peer that keeps its period, or answers every ping, and is not delayed so
\* much that a ping is handled later than the timeout after the one before, is
\* never dropped (hb and the handling of pings, session.rs, main.rs, client.rs).
PunctualIsKept == PingPeriod + Delay <= Timeout /\ ~falls => up

\* What that rests on: no ping outstanding means hb is no older than the last
\* ping; otherwise the oldest one was sent within a period of the one that
\* set hb.
HbFollowsPings ==
    up /\ ~falls =>
        IF flight = <<>> THEN age <= SinceLastPing ELSE age <= Head(flight) + PingPeriod

\* A peer that goes silent is dropped.
SilentIsDropped == falls ~> ~up

=============================================================================
