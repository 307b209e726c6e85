----------------------------- MODULE DynBufTree -----------------------------
(***************************************************************************)
(* What the dynamic buffer of src/core/psbuf.c promises its caller,       *)
(* stated without memory, cursors or growth: a stack of open buffers, the *)
(* root first and the innermost open sub-buffer last.  The innermost one  *)
(* holds the bytes written to it (atop); every outer one holds the bytes  *)
(* before (apre) and after (apost) the span its open child will occupy.   *)
(* A buffer whose sticky error count is non-zero (abad) carries no        *)
(* content; errors never clear while the buffer is open and a failed     *)
(* child fails its parent when it is finished.  Closing a healthy child  *)
(* splices its bytes, optionally preceded by a DER header for them,      *)
(* between its parent's apre and apost, leaving no gap.                   *)
(***************************************************************************)
EXTENDS Integers, Sequences, DerCodec

VARIABLES aphase,  \* "idle" before psDynBufInit, "live", "done" after detach/uninit
          atop,    \* bytes of the innermost open buffer
          apre,    \* apre[i]: bytes of level i before the span of level i+1
          apost,   \* apost[i]: bytes of level i after the span of level i+1
          abad,    \* abad[i]: level i has a non-zero error count
          aout     \* result of the last detach

avars == <<aphase, atop, apre, apost, abad, aout>>

NoOut == [ok |-> FALSE, data |-> <<>>]

Depth == Len(abad)

\* s is s0 with bytes added at its front and/or its back.
Extends(s0, s) ==
    \E f \in 0..(Len(s) - Len(s0)) : SubSeq(s, f + 1, f + Len(s0)) = s0

\* In this step the levels 1..n keep their error flags set ...
Sticky(n) == \A i \in 1..n : abad[i] => abad'[i]
\* ... a level 1..n that stays healthy keeps the bytes around its child,
\* and one that has failed carries none.
Kept(n) ==
    \A i \in 1..n : IF abad'[i] THEN apre'[i] = <<>> /\ apost'[i] = <<>>
                    ELSE apre'[i] = apre[i] /\ apost'[i] = apost[i]

Reset ==
    /\ atop' = <<>> /\ apre' = <<>> /\ apost' = <<>>
    /\ abad' = <<FALSE>>

Init ==
    /\ aphase = "idle"
    /\ atop = <<>> /\ apre = <<>> /\ apost = <<>> /\ abad = <<FALSE>>
    /\ aout = NoOut

\* psDynBufInit: a fresh empty root, failed if its memory was not obtained.
Open ==
    /\ aphase \in {"idle", "done"}
    /\ aphase' = "live"
    /\ atop' = <<>> /\ apre' = <<>> /\ apost' = <<>>
    /\ abad' \in {<<FALSE>>, <<TRUE>>}
    /\ UNCHANGED aout

\* Any write to the innermost buffer: bytes are added at its front or back.
Write ==
    /\ aphase = "live"
    /\ Len(abad') = Depth /\ Len(apre') = Depth - 1 /\ Len(apost') = Depth - 1
    /\ Sticky(Depth) /\ Kept(Depth - 1)
    /\ IF abad'[Depth] THEN atop' = <<>>
       ELSE ~abad[Depth] /\ Extends(atop, atop')
    /\ UNCHANGED <<aphase, aout>>

\* A sub-buffer is opened over the span atop[i+1..j] of the innermost
\* buffer (empty at its end for psDynBufSubInit); its bytes are replaced.
Push ==
    /\ aphase = "live"
    /\ Len(abad') = Depth + 1 /\ Len(apre') = Depth /\ Len(apost') = Depth
    /\ Sticky(Depth) /\ Kept(Depth - 1)
    /\ atop' = <<>>
    /\ IF abad'[Depth] THEN apre'[Depth] = <<>> /\ apost'[Depth] = <<>>
       ELSE \E i \in 0..Len(atop) : \E j \in i..Len(atop) :
               /\ apre'[Depth] = SubSeq(atop, 1, i)
               /\ apost'[Depth] = SubSeq(atop, j + 1, Len(atop))
    /\ UNCHANGED <<aphase, aout>>

\* The innermost sub-buffer is finished: its bytes, alone or behind a DER
\* header for them, close the gap between its parent's apre and apost.
Close ==
    /\ aphase = "live"
    /\ Depth > 1
    /\ Len(abad') = Depth - 1 /\ Len(apre') = Depth - 2 /\ Len(apost') = Depth - 2
    /\ Sticky(Depth - 1) /\ Kept(Depth - 2)
    /\ abad[Depth] => abad'[Depth - 1]
    /\ IF abad'[Depth - 1] THEN atop' = <<>>
       ELSE LET p == apre[Depth - 1]
                q == apost[Depth - 1]
                front == SubSeq(atop', Len(p) + 1, Len(atop') - Len(atop) - Len(q))
            IN /\ atop' = p \o front \o atop \o q
               /\ front /= <<>> => front = Header(front[1], Len(atop))
    /\ UNCHANGED <<aphase, aout>>

\* psDynBufDetach: the root's bytes are handed out unless it failed.
Detach ==
    /\ aphase = "live" /\ Depth = 1
    /\ aout' \in {NoOut} \cup
                 (IF abad[1] THEN {} ELSE {[ok |-> TRUE, data |-> atop]})
    /\ aphase' = "done"
    /\ Reset

\* psDynBufUninit of the root.
Release ==
    /\ aphase = "live" /\ Depth = 1
    /\ aphase' = "done"
    /\ Reset
    /\ UNCHANGED aout

Next == Open \/ Write \/ Push \/ Close \/ Detach \/ Release

Spec == Init /\ [][Next]_avars
=============================================================================
