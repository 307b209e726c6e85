------------------------------ MODULE DerCodec ------------------------------
(***************************************************************************)
(* The pure byte-level encoders of src/core/psbuf.c that the dynamic      *)
(* buffer uses to write DER headers and UTF-8 text: len_of_tag_and_len,   *)
(* output_len and the encoding branches of psDynBufAppendUtf8.  Shifts    *)
(* and masks of the C code are written as \div and % by powers of two;    *)
(* an OR of disjoint bit fields is written as a sum.                      *)
(***************************************************************************)
EXTENDS Integers, Sequences

\* Byte k (0 = least significant) of the unsigned value n: (unsigned char)(n >> 8k).
ByteOf(n, k) == (n \div 2^(8 * k)) % 256

\* len_of_tag_and_len: size of tag byte plus DER length field for content length len.
LenOfTagAndLen(len) ==
    CASE len < 128      -> 2
      [] len < 256      -> 3
      [] len < 65536    -> 4
      [] len < 16777216 -> 5
      [] OTHER          -> 6

\* output_len: the length field written at target[1..]; long form is
\* 0x80 + count, followed by count big-endian bytes of len.
OutputLen(len) ==
    LET n == LenOfTagAndLen(len) - 2
    IN  IF n = 0 THEN <<len>>
        ELSE <<\h80 + n>> \o [k \in 1..n |-> ByteOf(len, n - k)]

\* The DER header psDynBufAppendAsn1TagGen and psDynBufEndConstructedTag
\* write before content of length len: target[0] = tag, then output_len.
Header(tag, len) == <<tag>> \o OutputLen(len)

\* The UTF-8 ceiling of psDynBufAppendUtf8: larger characters are rejected.
Utf8Max == \h1FFFF

\* Mutant: the two-byte form stops one short of 0x7FF.
Utf8EncodeShortTwoByte(ch) ==
    CASE ch < 128     -> <<ch>>
      [] ch < \h7FF   -> <<\hC0 + ch \div 2^6, \h80 + (ch % 64)>>
      [] ch <= \hFFFF -> <<\hE0 + ch \div 2^12,
                           \h80 + ((ch \div 2^6) % 64), \h80 + (ch % 64)>>
      [] OTHER        -> <<\hF0 + ch \div 2^18, \h80 + ((ch \div 2^12) % 64),
                           \h80 + ((ch \div 2^6) % 64), \h80 + (ch % 64)>>

\* The bytes psDynBufAppendUtf8 writes for ch <= Utf8Max.
Utf8Encode(ch) ==
    CASE ch < 128     -> <<ch>>
      [] ch <= \h7FF  -> <<\hC0 + ch \div 2^6, \h80 + (ch % 64)>>
      [] ch <= \hFFFF -> <<\hE0 + ch \div 2^12,
                           \h80 + ((ch \div 2^6) % 64), \h80 + (ch % 64)>>
      [] OTHER        -> <<\hF0 + ch \div 2^18, \h80 + ((ch \div 2^12) % 64),
                           \h80 + ((ch \div 2^6) % 64), \h80 + (ch % 64)>>
=============================================================================
