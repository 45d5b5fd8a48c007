-------------------------------- MODULE TcpEcho --------------------------------
(***************************************************************************)
(* One connection of tcp_echo: LineCodec over the pipelined server of        *)
(* tokio_proto.  A byte is a character, the newline, or one that is not      *)
(* valid UTF-8 where it stands.  What LineCodec does not override or the     *)
(* library does (decode_eof, and that an error ends the connection with      *)
(* what has not been written) is modelled from how it is used.               *)
(***************************************************************************)
EXTENDS Naturals, Sequences, SequencesExt, FiniteSetsExt

CONSTANT MaxBytes   \* bound: bytes that the peer writes

ASSUME BytesAssumption == MaxBytes \in Nat

VARIABLES
    written,        \* history: the bytes the peer has written
    finished,       \* the peer has shut its side down
    taken,          \* how many of its bytes have been read
    buf,            \* the buffer that decode gets
    out,            \* encoded, and not yet written to the stream
    echoed,         \* what has been written to the stream
    serving         \* the connection: open, closed, or dropped on an error

echoVars == <<written, finished, taken, buf, out, echoed, serving>>

NL == "nl"
Chars == {"x", "y", "bad"}

EchoInit ==
    /\ written = <<>>
    /\ finished = FALSE
    /\ taken = 0
    /\ buf = <<>>
    /\ out = <<>>
    /\ echoed = <<>>
    /\ serving = "open"

-----------------------------------------------------------------------------
PeerWrites(b) ==
    /\ ~finished
    /\ Len(written) < MaxBytes
    /\ written' = Append(written, b)
    /\ UNCHANGED <<finished, taken, buf, out, echoed, serving>>

PeerFinishes ==
    /\ ~finished
    /\ finished' = TRUE
    /\ UNCHANGED <<written, taken, buf, out, echoed, serving>>

\* Variant: a newline at the end of what was read is overlooked.
HasLineInside == \E i \in 1..(Len(buf) - 1) : buf[i] = NL

HasLine == Contains(buf, NL)

\* Bytes are read, in pieces of any size, when the buffer has no line.
ReadMore ==
    /\ serving = "open"
    /\ ~HasLine
    /\ \E k \in (taken + 1)..Len(written) :
          /\ buf' = buf \o SubSeq(written, taken + 1, k)
          /\ taken' = k
    /\ UNCHANGED <<written, finished, out, echoed, serving>>

\* buf.extend(msg), buf.extend(b"\n")
Encoded(line) == Append(line, NL)

\* position() of the newline, counted from 0.
LineLength == Min({i \in DOMAIN buf : buf[i] = NL}) - 1

\* Variant: the newline stays in the buffer.
RestWithNewline == SubSeq(buf, LineLength + 1, Len(buf))

\* split_to(i), split_to(1)
RestOfBuf == SubSeq(buf, LineLength + 2, Len(buf))

\* The connection is dropped with what has not been written.
Drop == serving' = "dropped" /\ out' = <<>>

\* decode finds a line; call() answers it with itself at once, and encode puts it
\* behind the answers before.
EchoLine ==
    /\ serving = "open"
    /\ HasLine
    /\ LET line == SubSeq(buf, 1, LineLength)
       IN  IF Contains(line, "bad") THEN Drop
           ELSE out' = out \o Encoded(line) /\ UNCHANGED serving
    /\ buf' = RestOfBuf
    /\ UNCHANGED <<written, finished, taken, echoed>>

\* Some of what is encoded goes out.
Flush ==
    /\ serving = "open"
    /\ \E k \in 1..Len(out) :
          /\ echoed' = echoed \o SubSeq(out, 1, k)
          /\ out' = SubSeq(out, k + 1, Len(out))
    /\ UNCHANGED <<written, finished, taken, buf, serving>>

AtEnd == serving = "open" /\ finished /\ taken = Len(written) /\ ~HasLine

\* decode_eof: bytes without a newline at the end are an error.
Unterminated ==
    /\ AtEnd
    /\ buf # <<>>
    /\ Drop
    /\ UNCHANGED <<written, finished, taken, buf, echoed>>

\* All is answered.
CloseStream ==
    /\ AtEnd
    /\ buf = <<>> /\ out = <<>>
    /\ serving' = "closed"
    /\ UNCHANGED <<written, finished, taken, buf, out, echoed>>

EchoServes == ReadMore \/ EchoLine \/ Flush \/ Unterminated \/ CloseStream

EchoNext == (\E b \in Chars \cup {NL} : PeerWrites(b)) \/ PeerFinishes \/ EchoServes

EchoSpec == EchoInit /\ [][EchoNext]_echoVars

\* The event loop goes on as long as the connection has something to do.
EchoFairSpec == EchoSpec /\ WF_echoVars(EchoServes)

-----------------------------------------------------------------------------
(* Properties *)

\* The places of the newlines; none of the first k bytes is invalid.
WholeLines == {k \in DOMAIN written : written[k] = NL}
Valid(k) == \A i \in 1..k : written[i] # "bad"

\* The peer gets back its own bytes from the first on, none changed and none left
\* out, in whatever pieces they arrive, and never a byte of a line it has not ended;
\* the connection is dropped only for an invalid line or an unended one, and closed
\* when everything has been sent back (encode and decode of LineCodec, call of Echo).
OwnBytesOnly ==
    /\ IsPrefix(echoed, written)
    /\ echoed # <<>> => \E k \in WholeLines : k >= Len(echoed) /\ Valid(k)
    /\ serving = "dropped" =>
          \/ \E k \in WholeLines : ~Valid(k)
          \/ finished /\ written # <<>> /\ Last(written) # NL
    /\ serving = "closed" => echoed = written

\* Every line is answered in the end, in whatever pieces it comes, unless the connection
\* is dropped, which may take the answers to lines before it (decode, and the loop that
\* writes what encode has made).
LinesAreAnswered ==
    \A n \in 1..MaxBytes : n \in WholeLines ~> Len(echoed) >= n \/ serving = "dropped"

=============================================================================
