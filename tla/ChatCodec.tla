------------------------------- MODULE ChatCodec -------------------------------
(***************************************************************************)
(* The framing of actor_ws_tcp_chat/src/codec.rs over a TCP stream: a      *)
(* length of two bytes, cut to what two bytes hold, and a JSON text.  Both *)
(* directions (ChatCodec, ClientChatCodec) have the same encode and decode; *)
(* one is modelled.  The stream brings bytes in pieces of any size; a       *)
(* decoder that fails ends the stream (FramedRead).                        *)
(*                                                                         *)
(* A byte of a JSON text is known by its message and its place in it, so    *)
(* that "it parses" can be said.                                            *)
(***************************************************************************)
EXTENDS Naturals, Sequences, SequencesExt

CONSTANTS
    Base,           \* values of a byte: 256 in the code
    Lengths,        \* lengths that JSON texts may have
    MaxMessages     \* bound: messages the sender writes

ASSUME ConstantsAssumption ==
    /\ Base \in Nat \ {0, 1} /\ MaxMessages \in Nat
    /\ Lengths \subseteq Nat \ {0}

VARIABLES
    sent,           \* lengths of the messages written, in order
    wire,           \* bytes under way
    end,            \* of the sender's side: none yet, shut down, or cut off
    src,            \* the decoder's buffer
    decoded,        \* numbers of the messages decoded, in order
    failed          \* decode has returned an error

codecVars == <<sent, wire, end, src, decoded, failed>>

\* The largest length that two bytes hold, plus one.
Limit == Base * Base

\* value: what the byte is when it is read as part of a length (any, for a byte
\* of a text); of: the number of the message a byte belongs to, 0 for a length; at: its
\* place in the JSON text.
Byte(value, of, at) == [value |-> value, of |-> of, at |-> at]
Bytes == [value : 0..(Base - 1), of : 0..MaxMessages, at : Nat]

CodecTypeOK ==
    /\ sent \in Seq(Lengths) /\ Len(sent) <= MaxMessages
    /\ wire \in Seq(Bytes)
    /\ end \in {"none", "shut", "cut"}
    /\ src \in Seq(Bytes)
    /\ decoded \in Seq(1..MaxMessages)
    /\ failed \in BOOLEAN

CodecInit ==
    /\ sent = <<>>
    /\ wire = <<>>
    /\ end = "none"
    /\ src = <<>>
    /\ decoded = <<>>
    /\ failed = FALSE

-----------------------------------------------------------------------------
\* put_u16_be(len as u16)
Header(length) ==
    LET cut == length % Limit
    IN  <<Byte(cut \div Base, 0, 1), Byte(cut % Base, 0, 2)>>

Text(m, length) == [i \in 1..length |-> Byte(Base - 1, m, i)]

Encode(length) ==
    /\ end = "none"
    /\ Len(sent) < MaxMessages
    /\ sent' = Append(sent, length)
    /\ wire' = wire \o Header(length) \o Text(Len(sent) + 1, length)
    /\ UNCHANGED <<end, src, decoded, failed>>

\* The sender has written all and ends.
Shut ==
    /\ end = "none"
    /\ end' = "shut"
    /\ UNCHANGED <<sent, wire, src, decoded, failed>>

\* The sender dies with some of what it has encoded still in its buffer.
CutOff ==
    /\ end = "none"
    /\ end' = "cut"
    /\ \E k \in 0..(Len(wire) - 1) : wire' = SubSeq(wire, 1, k)
    /\ UNCHANGED <<sent, src, decoded, failed>>

\* Some of the bytes under way get into the decoder's buffer.
Receive ==
    /\ ~failed
    /\ \E k \in 1..Len(wire) :
          /\ src' = src \o SubSeq(wire, 1, k)
          /\ wire' = SubSeq(wire, k + 1, Len(wire))
    /\ UNCHANGED <<sent, end, decoded, failed>>

Size == Base * src[1].value + src[2].value

\* Variant: a frame counts as whole when something follows it.
WholeAndMore(size) == Len(src) > size + 2

\* There are as many bytes behind the length as it says.
Whole(size) == Len(src) >= size + 2

\* from_slice: the bytes are one whole JSON text; a proper beginning of one is
\* none.
Parses(buf) ==
    /\ buf # <<>>
    /\ buf[1].of # 0
    /\ Len(buf) = sent[buf[1].of]
    /\ \A i \in DOMAIN buf : buf[i].of = buf[1].of /\ buf[i].at = i

\* Variants: the buffer keeps what was decoded, or the end of it.
RestAll(size) == src
RestWithHeader(size) == SubSeq(src, size + 1, Len(src))

\* split_to(2), split_to(size)
Rest(size) == SubSeq(src, size + 3, Len(src))

\* decode() until there is no whole frame; a frame that does not parse ends the
\* stream.
Decode ==
    /\ ~failed
    /\ Len(src) >= 2
    /\ Whole(Size)
    /\ LET buf == SubSeq(src, 3, Size + 2)
       IN  IF Parses(buf)
           THEN decoded' = Append(decoded, buf[1].of) /\ UNCHANGED failed
           ELSE failed' = TRUE /\ UNCHANGED decoded
    /\ src' = Rest(Size)
    /\ UNCHANGED <<sent, wire, end>>

\* At the end of the stream, bytes that are no whole frame are an error.
DecodeEof ==
    /\ ~failed
    /\ end # "none" /\ wire = <<>> /\ src # <<>>
    /\ Len(src) >= 2 => ~Whole(Size)
    /\ failed' = TRUE
    /\ UNCHANGED <<sent, wire, end, src, decoded>>

CodecNext ==
    \/ \E length \in Lengths : Encode(length)
    \/ Shut
    \/ CutOff
    \/ Receive
    \/ Decode
    \/ DecodeEof

CodecSpec == CodecInit /\ [][CodecNext]_codecVars

\* Bytes arrive, and what is in the buffer is decoded.
CodecFairSpec == CodecSpec /\ WF_codecVars(Receive) /\ WF_codecVars(Decode) /\ WF_codecVars(DecodeEof)

-----------------------------------------------------------------------------
(* Properties *)

Oversize(length) == length >= Limit

\* What is decoded is what was encoded: the messages in order, none left out,
\* none invented and none twice, in whatever pieces the bytes arrive and also when
\* a length is cut (encode and decode of codec.rs).
DecodedAsSent == \A i \in DOMAIN decoded : decoded[i] = i

\* Only a message whose length does not fit in two bytes makes decoding fail, or
\* the death of the sender; those before it are decoded (the cast of encode).
OnlyOversizeFails ==
    failed => \/ \E m \in DOMAIN sent : Oversize(sent[m]) /\ Len(decoded) < m
              \/ end = "cut" /\ Len(decoded) < Len(sent)

\* Every message is decoded in the end, unless an oversize one comes before it,
\* it is that message, or its sender dies.
AllDecoded ==
    \A m \in 1..MaxMessages :
        m <= Len(sent) ~>
            \/ Len(decoded) >= m
            \/ \E i \in 1..m : i <= Len(sent) /\ Oversize(sent[i])
            \/ end = "cut"

=============================================================================
