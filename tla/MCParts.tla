-------------------------------- MODULE MCParts --------------------------------
(***************************************************************************)
(* The small components, each by itself: a behaviour is one of the component *)
(* that part names, while the others stay where they begin.                 *)
(***************************************************************************)
EXTENDS Heartbeat, ChatCodec, MinStack, QuickSort, TcpEcho, ConnCount

VARIABLE part

vars == <<part, hbVars, codecVars, stackVars, sortVars, echoVars, countVars>>

Heart(A) ==
    /\ part = "heartbeat" /\ A
    /\ UNCHANGED <<part, codecVars, stackVars, sortVars, echoVars, countVars>>
Codec(A) ==
    /\ part = "codec" /\ A
    /\ UNCHANGED <<part, hbVars, stackVars, sortVars, echoVars, countVars>>
Stack(A) ==
    /\ part = "stack" /\ A
    /\ UNCHANGED <<part, hbVars, codecVars, sortVars, echoVars, countVars>>
Sort(A) ==
    /\ part = "sort" /\ A
    /\ UNCHANGED <<part, hbVars, codecVars, stackVars, echoVars, countVars>>
Echo(A) ==
    /\ part = "echo" /\ A
    /\ UNCHANGED <<part, hbVars, codecVars, stackVars, sortVars, countVars>>
Count(A) ==
    /\ part = "count" /\ A
    /\ UNCHANGED <<part, hbVars, codecVars, stackVars, sortVars, echoVars>>

\* One beginning for a component that does not run; for the sort one that nothing
\* is asked of.
Init ==
    /\ part \in {"heartbeat", "codec", "stack", "sort", "echo", "count"}
    /\ HbInit /\ (part # "heartbeat" => kind = "tcp")
    /\ CodecInit
    /\ StackInit
    /\ SortInit /\ (part # "sort" => given = [i \in 0..1 |-> 1])
    /\ EchoInit
    /\ CountInit

Next ==
    \/ Heart(HbNext)
    \/ Codec(CodecNext)
    \/ Stack(StackNext)
    \/ Sort(SortNext)
    \/ Echo(EchoNext)
    \/ Count(CountNext)

Spec == Init /\ [][Next]_vars

\* The fairness of each component that runs.
FairSpec ==
    /\ Spec
    /\ WF_vars(Heart(HbServes))
    /\ WF_vars(Codec(Receive)) /\ WF_vars(Codec(Decode)) /\ WF_vars(Codec(DecodeEof))
    /\ WF_vars(Sort(SortNext))
    /\ WF_vars(Echo(EchoServes))

=============================================================================
