---------------------------- MODULE DerRoundTrip ----------------------------
(***************************************************************************)
(* The DER writer of src/core/psbuf.c composed with the two DER readers   *)
(* of this code base.  A writer call puts one TLV (or one UTF-8 encoded   *)
(* character) into an empty dynamic buffer; the bytes are then wrapped by *)
(* psParseBufFromStaticData and read back with psParseBufTryReadTagSub,   *)
(* and decoded by getAsnLength32, getAsnSequence32 and the 16-bit         *)
(* getAsnLength.  The readers are the operators of ParseBuf and Asn1,    *)
(* instantiated over the written bytes.                                   *)
(*                                                                         *)
(* Only the header is materialised: content bytes lie past the end of    *)
(* wire, where both readers' At yields 0, and no reader looks at them.    *)
(* This lets the content length reach the 2^24 and 2^30 boundaries.      *)
(***************************************************************************)
EXTENDS Integers, Sequences, SequencesExt, DerCodec

CONSTANTS
    Tags,        \* tag bytes passed to psDynBufAppendAsn1TagGen
    Lengths,     \* content lengths passed to it
    Codepoints   \* characters passed to psDynBufAppendUtf8

VARIABLES
    stage,   \* "empty", "tlv" or "utf8" once written, "parsed", "decoded"
    tag,     \* the tag written
    clen,    \* the content length written
    wire,    \* the bytes written before the content
    ch,      \* the character written
    child,   \* the child psParseBufTryReadTagSub returned
    dec      \* [len32, seq, len16]: results of the asn1.c decoders

vars == <<stage, tag, clen, wire, ch, child, dec>>

Total == Len(wire) + clen

\* psParseBufFromStaticData over the header and content.
Root == [buf |-> 0, start |-> 0, end |-> Total, size |-> Total, err |-> 0]

PB == INSTANCE ParseBuf
        WITH input <- wire, pbs <- <<Root>>, phase <- "live", oob <- FALSE,
             ops <- 0, copy <- <<>>, Inputs <- {}, Literals <- {},
             Capacities <- {}, MaxDepth <- 1, MaxOps <- 0

AS == INSTANCE Asn1
        WITH input <- wire, beyond <- 0, pos <- 0, lim <- Total,
             res <- dec.len32, oob <- FALSE, ops <- 0, Inputs <- {},
             GarbageBytes <- {0}, OidTable <- <<>>, OidCollision <- 1024,
             OidNotFound <- 32768, MaxOps <- 0

NoDec == [len32 |-> AS!NoRes, seq |-> AS!NoRes, len16 |-> AS!NoRes]

Init ==
    /\ stage = "empty"
    /\ tag = 0 /\ clen = 0 /\ wire = <<>> /\ ch = 0
    /\ child = Root
    /\ dec = NoDec

\* psDynBufAppendAsn1TagGen(db, t, bytes, n) on an empty buffer: the header
\* Header(t, n) and then the n content bytes.
AppendAsn1TagGen(t, n) ==
    /\ stage = "empty"
    /\ stage' = "tlv"
    /\ tag' = t /\ clen' = n /\ wire' = Header(t, n)
    /\ UNCHANGED <<ch, child, dec>>

\* psDynBufAppendUtf8(db, c): nothing is written above the ceiling.
AppendUtf8(c) ==
    /\ stage = "empty"
    /\ stage' = "utf8"
    /\ ch' = c
    /\ wire' = IF c > Utf8Max THEN <<>> ELSE Utf8Encode(c)
    /\ UNCHANGED <<tag, clen, child, dec>>

\* psParseBufTryReadTagSub(root, &child, tag) over the written bytes.
ReadTagSub ==
    /\ stage = "tlv"
    /\ stage' = "parsed"
    /\ child' = PB!Content(Root, PB!GetTagLen(Root, tag))
    /\ UNCHANGED <<tag, clen, wire, ch, dec>>

\* The asn1.c decoders on the same bytes: the length after the tag byte,
\* the whole SEQUENCE, and the 16-bit getAsnLength.
DecodeLength ==
    /\ stage = "parsed"
    /\ stage' = "decoded"
    /\ dec' = [len32 |-> AS!GetAsnLength32(1, Total - 1, FALSE),
               seq   |-> AS!GetAsnSequence32(0, Total, FALSE),
               len16 |-> AS!GetAsnLength(1, Total - 1)]
    /\ UNCHANGED <<tag, clen, wire, ch, child>>

Finished == stage \in {"decoded", "utf8"} /\ UNCHANGED vars

Next ==
    \/ \E t \in Tags, n \in Lengths : AppendAsn1TagGen(t, n)
    \/ \E c \in Codepoints : AppendUtf8(c)
    \/ ReadTagSub
    \/ DecodeLength
    \/ Finished

Spec == Init /\ [][Next]_vars

(***************************************************************************)
(* Properties.                                                             *)
(***************************************************************************)
\* Round trip of the spec: a TLV written by psDynBufAppendAsn1TagGen is read
\* back by psParseBufTryReadTagSub as a healthy child spanning exactly its
\* content exactly when its content length is at most
\* PS_PARSE_MAXIMUM_TAG_CONTENT; a longer one is rejected with an err
\* child.  This covers the long-form boundaries 128, 256, 2^16 and 2^24,
\* the bytes >= 0x83 gate, and both sides of the ceiling.
TagRoundTrip ==
    stage \in {"parsed", "decoded"} =>
        IF clen <= PB!MaxTagContent
        THEN /\ child.err = 0
             /\ child.start = Len(wire) /\ child.end = Total
             /\ child.size = clen
        ELSE child.err = 1

\* getAsnLength32 and getAsnSequence32 decode every header the writer
\* produces to the length written, leaving *pp on the first content byte.
\* The 16-bit getAsnLength, whose size argument is a uint16_t, either
\* fails or returns that same length: it never hands back a truncated one.
LengthRoundTrip ==
    stage = "decoded" =>
        /\ dec.len32.rc = "ok" /\ dec.len32.pp = Len(wire) /\ dec.len32.len = clen
        /\ tag = AS!ASN_SEQUENCE_C =>
               dec.seq.rc = "ok" /\ dec.seq.pp = Len(wire) /\ dec.seq.len = clen
        /\ dec.len16.rc = "ok" => dec.len16.pp = Len(wire) /\ dec.len16.len = clen

\* Reference UTF-8 decoder (RFC 3629): the value of a well-formed sequence
\* in its shortest form, and -1 for anything else (overlong forms,
\* surrogates, stray or missing continuation bytes).
Utf8Decode(s) ==
    LET n == CASE Len(s) = 0        -> 0
               [] s[1] < \h80        -> 1
               [] s[1] \in \hC2..\hDF -> 2
               [] s[1] \in \hE0..\hEF -> 3
               [] s[1] \in \hF0..\hF4 -> 4
               [] OTHER             -> 0
        lead == <<s[1], s[1] - \hC0, s[1] - \hE0, s[1] - \hF0>>
        least == <<0, \h80, \h800, \h10000>>
        v == FoldLeft(LAMBDA acc, b : acc * 64 + (b - \h80), lead[n], Tail(s))
    IN IF /\ n > 0 /\ Len(s) = n
          /\ \A i \in 2..n : s[i] \in \h80..\hBF
          /\ v >= least[n] /\ v <= \h10FFFF /\ v \notin \hD800..\hDFFF
       THEN v ELSE -1

\* Every Unicode scalar value psDynBufAppendUtf8 accepts is written as the
\* one well-formed, shortest UTF-8 sequence for it.  (The surrogates
\* 0xD800-0xDFFF, outside the spec's input contract, are not passed.)
Utf8RoundTrip ==
    (stage = "utf8" /\ ch <= Utf8Max) => Utf8Decode(wire) = ch
=============================================================================
