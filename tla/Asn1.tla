-------------------------------- MODULE Asn1 --------------------------------
(***************************************************************************)
(* The ASN.1 primitive decoders of src/crypto/keyformat/asn1.c.  Each     *)
(* decoder is an operator of (pointer, size) returning the new *pp, the   *)
(* decoded length or value, and the set of offsets the code dereferences. *)
(* A caller parses input by calling one decoder at its cursor pos with    *)
(* any size that stays in its current window [pos, lim); on a successful *)
(* SEQUENCE or SET it may enter the content, narrowing the window.        *)
(*                                                                         *)
(* Offsets are 0-based; a read at or past the end of input returns the    *)
(* byte that happens to follow the input in memory (undefined behaviour, *)
(* modelled as a choice among GarbageBytes).                              *)
(***************************************************************************)
EXTENDS Integers, Sequences, FiniteSets, Bitwise, SequencesExt, DerCodec

CONSTANTS
    Inputs,        \* the byte strings the caller parses
    GarbageBytes,  \* what an out-of-bounds read may return
    OidTable,      \* the OID database: identifier -> raw arc bytes
    OidCollision,  \* OID_COLLISION
    OidNotFound,   \* OID_NOT_FOUND
    MaxOps         \* bound: number of decoder calls

VARIABLES
    input,    \* the bytes being parsed
    beyond,   \* the byte read past the end of input
    pos,      \* the caller's pointer *pp
    lim,      \* end of the caller's current window
    res,      \* result of the last call; stream: it passed indefinite = 1
    oob,      \* some call read outside the size it was given
    ops       \* number of calls so far

vars == <<input, beyond, pos, lim, res, oob, ops>>

ASN_SEQUENCE_C == \h30   \* ASN_SEQUENCE | ASN_CONSTRUCTED
ASN_SET_C == \h31        \* ASN_SET | ASN_CONSTRUCTED
ASN_INTEGER == \h02
ASN_ENUMERATED == \h0A
ASN_OID == \h06
ASN_NULL == \h05

\* (uint32_t) of a pointer difference that may be negative: every length
\* the inputs can state is below this representative of 2^32 - 1.
Huge == 2147483647
U32(x) == IF x < 0 THEN Huge ELSE x

At(k) == IF k < Len(input) THEN input[k + 1] ELSE beyond

Bytes(k, n) == [i \in 1..n |-> At(k + i - 1)]

Unsigned(s) == FoldLeft(LAMBDA acc, b : acc * 256 + b, 0, s)

NoRes == [rc |-> "none", pp |-> 0, len |-> 0, val |-> 0, arcs |-> <<>>,
          params |-> 0, reads |-> {}, kind |-> "none", stream |-> FALSE, at |-> 0,
          end |-> 0]

Fail(p, rc, rd) == [NoRes EXCEPT !.rc = rc, !.pp = p, !.reads = rd]

Ok(pp, len, val, rd) ==
    [NoRes EXCEPT !.rc = "ok", !.pp = pp, !.len = len, !.val = val, !.reads = rd]

\* Mutant: the count of length bytes is not checked against size.
GetAsnLength32Unchecked(c, size, indefinite) ==
    LET b == At(c)  l == b % 128  long == b >= 128
        c1 == IF long THEN c + 1 + l ELSE c + 1
        v == IF long THEN Unsigned(Bytes(c + 1, l)) ELSE l
        rd == {c} \cup (c + 1)..(c1 - 1)
    IN CASE size < 1 -> Fail(c, "limit", {})
         [] long /\ l = 0 /\ indefinite ->
              [Ok(c + 1, size - 1, 0, {c}) EXCEPT !.rc = "unknown"]
         [] long /\ (l = 0 \/ l > 4) -> Fail(c, "limit", {c})
         [] ~indefinite /\ size - (c1 - c) < v -> Fail(c, "limit", rd)
         [] OTHER -> Ok(c1, v, 0, rd)

\* Mutant: the remaining size is measured from before the length field.
GetAsnLength32FromStart(c, size, indefinite) ==
    LET b == At(c)  l == b % 128  long == b >= 128
        c1 == IF long THEN c + 1 + l ELSE c + 1
        v == IF long THEN Unsigned(Bytes(c + 1, l)) ELSE l
        rd == {c} \cup (c + 1)..(c1 - 1)
    IN CASE size < 1 -> Fail(c, "limit", {})
         [] long /\ size - 1 < l -> Fail(c, "limit", {c})
         [] long /\ l = 0 /\ indefinite ->
              [Ok(c + 1, size - 1, 0, {c}) EXCEPT !.rc = "unknown"]
         [] long /\ (l = 0 \/ l > 4) -> Fail(c, "limit", {c})
         [] ~indefinite /\ size < v -> Fail(c, "limit", rd)
         [] OTHER -> Ok(c1, v, 0, rd)

(***************************************************************************)
(* getAsnLength32(pp, size, len, indefinite) with *pp = c.                *)
(***************************************************************************)
GetAsnLength32(c, size, indefinite) ==
    LET b == At(c)
        l == b % 128
        long == b >= 128
        c1 == IF long THEN c + 1 + l ELSE c + 1
        v == IF long THEN Unsigned(Bytes(c + 1, l)) ELSE l
        rd == {c} \cup (c + 1)..(c1 - 1)
    IN CASE size < 1 -> Fail(c, "limit", {})
         [] long /\ size - 1 < l -> Fail(c, "limit", {c})
         [] long /\ l = 0 /\ indefinite ->
              [Ok(c + 1, size - 1, 0, {c}) EXCEPT !.rc = "unknown"]
         [] long /\ (l = 0 \/ l > 4) -> Fail(c, "limit", {c})
         [] ~indefinite /\ size - (c1 - c) < v -> Fail(c, "limit", rd)
         [] OTHER -> Ok(c1, v, 0, rd)

\* getAsnSequence32 and getAsnSet32 differ in their tag and final check.
GetAsnSequence32(p, size, indefinite) ==
    LET L == GetAsnLength32(p + 1, size - 1, indefinite)
        rd == {p} \cup L.reads
    IN CASE size < 1 -> Fail(p, "parse", {})
         [] At(p) /= ASN_SEQUENCE_C -> Fail(p, "parse", {p})
         [] L.rc = "limit" -> Fail(p, "limit", rd)
         [] ~indefinite /\ size - (L.pp - p) < L.len -> Fail(p, "limit", rd)
         [] OTHER -> [L EXCEPT !.reads = rd]

GetAsnSet32(p, size, indefinite) ==
    LET L == GetAsnLength32(p + 1, size - 1, indefinite)
        rd == {p} \cup L.reads
    IN CASE size < 1 -> Fail(p, "parse", {})
         [] At(p) /= ASN_SET_C -> Fail(p, "parse", {p})
         [] L.rc = "limit" -> Fail(p, "limit", rd)
         [] size < (L.pp - p) + L.len -> Fail(p, "limit", rd)
         [] OTHER -> [L EXCEPT !.reads = rd]

(***************************************************************************)
(* The 16-bit wrappers getAsnLength, getAsnSequence and getAsnSet: the    *)
(* size reaches them as a uint16_t, they call the 32-bit decoder without  *)
(* indefinite lengths and hand back len32 & 0xFFFF on success.           *)
(***************************************************************************)
Len16(r) == IF r.rc = "ok" THEN [r EXCEPT !.len = @ % 65536] ELSE r

\* Mutant: the caller's size is passed on without its uint16_t conversion.
GetAsnLengthWideSize(c, size) == Len16(GetAsnLength32(c, size, FALSE))

GetAsnLength(c, size) == Len16(GetAsnLength32(c, size % 65536, FALSE))

GetAsnSequence(p, size) == Len16(GetAsnSequence32(p, size % 65536, FALSE))

GetAsnSet(p, size) == Len16(GetAsnSet32(p, size % 65536, FALSE))

(***************************************************************************)
(* getAsnInteger; getAsnEnumerated is the same code with its own tag.     *)
(* The sign is taken from the first content byte whatever vlen is; a      *)
(* negative value is -(ui + 1) with ui the complemented bytes, which for *)
(* vlen <= 4 never leaves the int32 range.                                *)
(***************************************************************************)
\* Mutant: a negative value is -ui, without the adjustment by one.
TwosComplementNoAdjust(neg, ui) == IF neg THEN -ui ELSE ui

\* The value getAsnInteger stores: slen = ui + 1, negated, for a negative
\* encoding; ui itself otherwise.
TwosComplement(neg, ui) == IF neg THEN -ui - 1 ELSE ui

\* Mutant: *pp is left one byte past the value.
GetAsnValuePastEnd(tag, p, len) ==
    LET end == p + len
        L == GetAsnLength32(p + 1, len - 1, FALSE)
        q == L.pp  vlen == L.len  neg == At(q) >= \h80
        ui == Unsigned([i \in 1..vlen |->
                          IF neg THEN 255 - At(q + i - 1) ELSE At(q + i - 1)])
        rd == {p} \cup L.reads
    IN CASE len < 1 -> Fail(p, "parse", {})
         [] At(p) /= tag -> Fail(p, "parse", {p})
         [] L.rc = "limit" -> Fail(p, "limit", rd)
         [] vlen > 4 \/ end - q < vlen -> Fail(p, "limit", rd)
         [] OTHER -> Ok(q + vlen + 1, vlen, TwosComplement(neg, ui),
                        rd \cup {q} \cup q..(q + vlen - 1))

GetAsnValue(tag, p, len) ==
    LET end == p + len
        L == GetAsnLength32(p + 1, len - 1, FALSE)
        q == L.pp
        vlen == L.len
        neg == At(q) >= \h80
        ui == Unsigned([i \in 1..vlen |->
                          IF neg THEN 255 - At(q + i - 1) ELSE At(q + i - 1)])
        rd == {p} \cup L.reads
    IN CASE len < 1 -> Fail(p, "parse", {})
         [] At(p) /= tag -> Fail(p, "parse", {p})
         [] L.rc = "limit" -> Fail(p, "limit", rd)
         [] vlen > 4 \/ end - q < vlen -> Fail(p, "limit", rd)
         [] OTHER -> Ok(q + vlen, vlen, TwosComplement(neg, ui),
                        rd \cup {q} \cup q..(q + vlen - 1))

GetAsnInteger(p, len) == GetAsnValue(ASN_INTEGER, p, len)

GetAsnEnumerated(p, len) == GetAsnValue(ASN_ENUMERATED, p, len)

(***************************************************************************)
(* checkAsnOidDatabase: from the byte sum, probe successive multiples of  *)
(* OidCollision until the table holds these exact bytes, or mark the      *)
(* identifier not found.                                                  *)
(***************************************************************************)
\* Mutant: the first identifier with the byte sum is taken unchecked.
CheckAsnOidDatabaseFirst(oi, arcs) ==
    IF oi \notin DOMAIN OidTable THEN oi | OidNotFound ELSE oi

RECURSIVE CheckAsnOidDatabase(_, _)
CheckAsnOidDatabase(oi, arcs) ==
    IF oi \notin DOMAIN OidTable THEN oi | OidNotFound
    ELSE IF Len(OidTable[oi]) = Len(arcs) /\ OidTable[oi] = arcs THEN oi
    ELSE CheckAsnOidDatabase(oi + OidCollision, arcs)

(***************************************************************************)
(* getAsnOID(pp, len, oi, checkForParams, paramLen).  The tag is read     *)
(* before len is looked at; the size handed to getAsnLength32 is          *)
(* (uint32_t)(end - p); paramLen is a uint16_t; the NULL probe reads the  *)
(* byte after the arcs.                                                   *)
(***************************************************************************)
GetAsnOID(p, len, checkForParams) ==
    LET end == p + len
        L == GetAsnLength32(p + 1, U32(end - (p + 1)), FALSE)
        q == L.pp
        arcLen == L.len
        r == q + arcLen
        arcs == Bytes(q, arcLen)
        oi == CheckAsnOidDatabase(SumFunction(arcs), arcs)
        paramLen == (end - r) % 65536
        rd == {p} \cup L.reads
        rdArcs == rd \cup q..(r - 1)
        found(pp, pl, rd2) == [Ok(pp, pl, oi, rd2) EXCEPT !.arcs = arcs, !.params = r]
    IN CASE At(p) /= ASN_OID -> Fail(p, "parse", {p})
         [] L.rc = "limit" -> Fail(p, "limit", rd)
         [] end - q < arcLen -> Fail(p, "limit", rd)
         [] end - q < 2 -> Fail(p, "limit", rd)
         [] ~checkForParams -> found(r, 0, rdArcs)
         [] At(r) /= ASN_NULL -> found(r, paramLen, rdArcs \cup {r})
         [] end - r < 2 -> Fail(p, "limit", rdArcs \cup {r})
         [] paramLen < 2 -> Fail(p, "limit", rdArcs \cup {r})
         [] OTHER -> found(r + 2, paramLen - 2, rdArcs \cup {r})

\* getAsnAlgorithmIdentifier: a SEQUENCE, then an OID over its content
\* length; *pp is written after the OID call whether it succeeded or not.
GetAsnAlgorithmIdentifier(p, len) ==
    LET end == p + len
        S == GetAsnSequence32(p, len, FALSE)
        O == GetAsnOID(S.pp, S.len, TRUE)
    IN CASE len < 1 -> Fail(p, "parse", {})
         [] S.rc /= "ok" -> S
         [] end - S.pp < 1 -> Fail(p, "limit", S.reads)
         [] OTHER -> [O EXCEPT !.pp = IF O.rc = "ok" THEN O.pp ELSE S.pp,
                               !.reads = S.reads \cup O.reads]

(***************************************************************************)
(* The caller.  Each call passes the current pointer and a size within    *)
(* the window; *pp becomes whatever the decoder wrote to it.             *)
(***************************************************************************)
Live == ops < MaxOps

Call(kind, size, indefinite, r) ==
    /\ res' = [r EXCEPT !.kind = kind, !.at = pos, !.end = pos + size,
                        !.stream = indefinite]
    /\ oob' = (oob \/ \E k \in r.reads : k < pos \/ k >= pos + size)
    /\ pos' = r.pp
    /\ ops' = ops + 1
    /\ UNCHANGED <<input, beyond>>

Sizes == 0..(lim - pos)

DecodeLength(indefinite) ==
    /\ Live
    /\ \E size \in Sizes :
         Call("length", size, indefinite, GetAsnLength32(pos, size, indefinite))
         /\ UNCHANGED lim

\* After a SEQUENCE or SET decoded outside stream parsing the caller
\* parses inside its content; a stream parser keeps its window.
Enter(r, indefinite) == lim' = IF r.rc = "ok" /\ ~indefinite THEN r.pp + r.len ELSE lim

DecodeSequence(indefinite) ==
    /\ Live
    /\ \E size \in Sizes :
         LET r == GetAsnSequence32(pos, size, indefinite)
         IN Call("sequence", size, indefinite, r) /\ Enter(r, indefinite)

DecodeSet(indefinite) ==
    /\ Live
    /\ \E size \in Sizes :
         LET r == GetAsnSet32(pos, size, indefinite)
         IN Call("set", size, indefinite, r) /\ Enter(r, indefinite)

\* Calls through the 16-bit wrappers, which never take indefinite lengths.
DecodeLength16 ==
    /\ Live
    /\ \E size \in Sizes :
         Call("length16", size, FALSE, GetAsnLength(pos, size)) /\ UNCHANGED lim

DecodeSequence16 ==
    /\ Live
    /\ \E size \in Sizes :
         LET r == GetAsnSequence(pos, size)
         IN Call("sequence16", size, FALSE, r) /\ Enter(r, FALSE)

DecodeSet16 ==
    /\ Live
    /\ \E size \in Sizes :
         LET r == GetAsnSet(pos, size)
         IN Call("set16", size, FALSE, r) /\ Enter(r, FALSE)

DecodeInteger ==
    /\ Live
    /\ \E size \in Sizes :
         Call("integer", size, FALSE, GetAsnInteger(pos, size)) /\ UNCHANGED lim

DecodeEnumerated ==
    /\ Live
    /\ \E size \in Sizes :
         Call("enumerated", size, FALSE, GetAsnEnumerated(pos, size)) /\ UNCHANGED lim

DecodeOID(checkForParams) ==
    /\ Live
    /\ \E size \in Sizes :
         Call("oid", size, FALSE, GetAsnOID(pos, size, checkForParams)) /\ UNCHANGED lim

DecodeAlgorithmIdentifier ==
    /\ Live
    /\ \E size \in Sizes :
         Call("algid", size, FALSE, GetAsnAlgorithmIdentifier(pos, size)) /\ UNCHANGED lim

Done == ops = MaxOps /\ UNCHANGED vars

Init ==
    /\ input \in Inputs
    /\ beyond \in GarbageBytes
    /\ pos = 0
    /\ lim = Len(input)
    /\ res = NoRes
    /\ oob = FALSE
    /\ ops = 0

Next ==
    \/ \E ind \in BOOLEAN : DecodeLength(ind) \/ DecodeSequence(ind) \/ DecodeSet(ind)
    \/ DecodeLength16 \/ DecodeSequence16 \/ DecodeSet16
    \/ DecodeInteger \/ DecodeEnumerated
    \/ \E cfp \in BOOLEAN : DecodeOID(cfp)
    \/ DecodeAlgorithmIdentifier
    \/ Done

Spec == Init /\ [][Next]_vars

(***************************************************************************)
(* Properties.                                                             *)
(***************************************************************************)
Result == [rc : {"none", "ok", "unknown", "limit", "parse"}, pp : Int, len : Int,
           val : Int, arcs : Seq(Int), params : Int, reads : SUBSET Int,
           stream : BOOLEAN, at : Int, kind : {"none", "length", "sequence", "set", "length16", "sequence16",
                   "set16", "integer", "enumerated",
                   "oid", "algid"}, end : Int]

TypeOK ==
    /\ input \in Inputs /\ beyond \in GarbageBytes
    /\ pos \in 0..lim /\ lim \in 0..Len(input)
    /\ res \in Result
    /\ oob \in BOOLEAN
    /\ ops \in 0..MaxOps

\* Every decoder reads only inside the size it was given: for any input
\* and any declared length, a call either fails or touches only bytes in
\* [*pp, *pp + size) (the fuzz property of the spec).
NoOverread == ~oob

\* Outside stream parsing (indefinite = 0), a definite length, SEQUENCE or
\* SET that getAsnLength32, its callers or their 16-bit wrappers accept
\* never claims content beyond the size the caller passed, so the window
\* the caller enters lies inside the one it was in.
LengthFits ==
    (res.rc = "ok" /\ res.kind \in {"length", "sequence", "set", "length16",
                                    "sequence16", "set16"} /\ ~res.stream)
        => res.pp + res.len <= res.end

\* Reference two's-complement value of a big-endian byte string:
\* the first byte carries the weight -2^(8(n-1)) * 128 when its top bit
\* is set.
SignedBE(s) ==
    (s[1] - (IF s[1] >= 128 THEN 256 ELSE 0)) * 256^(Len(s) - 1)
        + Unsigned(Tail(s))

\* getAsnInteger and getAsnEnumerated return the two's-complement value of
\* the content bytes they consumed, over the whole 4-byte signed range.
IntegerRoundTrip ==
    (res.rc = "ok" /\ res.kind \in {"integer", "enumerated"} /\ res.len >= 1)
        => res.val = SignedBE(Bytes(res.pp - res.len, res.len))

\* The OID identifier resolves exactly: a result below OidNotFound names
\* the table entry holding exactly the arcs read, and arcs that the table
\* holds are never reported as not found, however many entries share
\* their byte sum.
OidLookupExact ==
    (res.rc = "ok" /\ res.kind \in {"oid", "algid"}) =>
        /\ res.val < OidNotFound =>
               res.val \in DOMAIN OidTable /\ OidTable[res.val] = res.arcs
        /\ res.arcs \in Range(OidTable) => res.val < OidNotFound

\* The decoders accept DER only, the wire format of the spec:
\* - every length field a decoder accepts is the one output_len writes for
\*   the decoded length (a long form is rejected when a shorter canonical
\*   form would have sufficed);
\* - a present-but-NULL AlgorithmIdentifier parameter is the two bytes
\*   05 00: getAsnOID skips the two bytes after the arcs only when they are
\*   that NULL, and otherwise reports them as parameters.
AcceptsOnlyDer ==
    /\ (res.rc = "ok" /\ res.kind \in {"length", "sequence", "set"}) =>
           LET f == IF res.kind = "length" THEN res.at ELSE res.at + 1
           IN Bytes(f, res.pp - f) = OutputLen(res.len)
    /\ (res.rc = "ok" /\ res.kind = "algid" /\ res.pp = res.params + 2)
           => Bytes(res.params, 2) = <<ASN_NULL, \h00>>
=============================================================================
