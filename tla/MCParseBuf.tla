----------------------------- MODULE MCParseBuf -----------------------------
(***************************************************************************)
(* Inputs for checking ParseBuf: the nested INTEGERs of the spec's        *)
(* scenario, a canonical long-form SEQUENCE (the shortest input on which  *)
(* psParseBufGetTagLen accepts a long form), the same length field in a   *)
(* non-minimal encoding, a truncated SEQUENCE and a long-form marker with *)
(* too few bytes after it.                                                 *)
(***************************************************************************)
EXTENDS ParseBuf

Zeros(n) == [k \in 1..n |-> 0]

\* 30 06 02 01 05 02 01 FA
Nested == <<\h30, \h06, \h02, \h01, \h05, \h02, \h01, \hFA>>
\* 30 81 80 | 02 01 05 | 125 zero bytes
LongForm == <<\h30, \h81, \h80, \h02, \h01, \h05>> \o Zeros(125)
\* 04 81 05 | 128 bytes: 0x81 with a length below 0x80
NonMinimal81 == <<\h04, \h81, \h05>> \o Zeros(128)
\* 30 05 02 01: content shorter than its length says
Truncated == <<\h30, \h05, \h02, \h01>>
\* 30 82 01: a two-byte length field cut off
ShortLong == <<\h30, \h82, \h01>>

MCInputs == {Nested, LongForm, NonMinimal81, Truncated, ShortLong}
MCTags == {0, \h30, \h02}
MCLiterals == {<<\h02, \h01, \h05>>}
=============================================================================
