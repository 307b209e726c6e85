------------------------------ MODULE ParseBuf ------------------------------
(***************************************************************************)
(* The parse buffer of src/core/psbuf.c (psParseBuf_t): a read cursor     *)
(* over a static input with nested child buffers, each opened over the    *)
(* content of the DER tag at its master's cursor and, when finished,      *)
(* moving the master's cursor past that tag.  The caller follows the      *)
(* protocol of the spec: every call goes to the innermost open buffer.    *)
(*                                                                         *)
(* Offsets are 0-based positions in input (input[p + 1] is the byte at    *)
(* p); pbs[1] is the root made by psParseBufFromStaticData and pbs[i] the *)
(* child whose master is pbs[i-1].                                         *)
(***************************************************************************)
EXTENDS Integers, Sequences, FiniteSets, DerCodec

CONSTANTS
    Inputs,    \* the byte strings the root is made over
    Tags,      \* tag arguments (0: any tag)
    Literals,  \* byte strings passed to psParseBufTrySkipBytes/SkipBytes
    Capacities,\* target sizes *targetlen a caller passes to psParseBufCopyAll
    MaxDepth,  \* bound: the root and at most MaxDepth-1 open children
    MaxOps     \* bound: number of calls made

VARIABLES
    input,   \* the bytes of the static data
    pbs,     \* pbs[i]: [buf, start, end, size, err] of the i-th open buffer
    phase,   \* "live", or "done" once the root is finished or cancelled
    oob,     \* some call read a byte outside the span it was reading
    ops,     \* number of calls made so far
    copy     \* arguments and results of the call just made, when it was
             \* psParseBufCopyAll (NoCopy after any other call)

vars == <<input, pbs, phase, oob, ops, copy>>

NULL == -1

\* PS_PARSE_MAXIMUM_TAG_CONTENT
MaxTagContent == \h40000000

\* The byte at offset p.  The code never reads outside the input (oob
\* records any read outside the span being parsed); should it, the byte
\* read there is taken to be 0.
At(p) == IF p \in 0..(Len(input) - 1) THEN input[p + 1] ELSE 0

\* Big-endian value of the n bytes at offset p.
BigEndian(p, n) ==
    LET v[k \in 0..n] == IF k = 0 THEN 0 ELSE v[k - 1] * 256 + At(p + k - 1)
    IN v[n]

\* Mutant: the long form needs more than 0x83 bytes.
LongFormAvailableStrict(bytes) == bytes > \h83

\* Mutant: a long form is parsed however few bytes remain.
LongFormAvailableAlways(bytes) == TRUE

\* A long-form length is looked at only when 0x83 bytes remain, enough
\* for the largest header (6 bytes) the code accepts.
LongFormAvailable(bytes) == bytes >= \h83

\* Mutant: the 0x81 form is not checked for minimality.
NonMinimalLongOnly(lenlen, first) == lenlen \in {\h82, \h83, \h84} /\ first = 0

\* A long-form length field with a shorter encoding: 0x81 for a value
\* below 0x80, or 0x82..0x84 with a leading zero byte.
NonMinimal(lenlen, first) ==
    \/ lenlen = \h81 /\ first < \h80
    \/ lenlen \in {\h82, \h83, \h84} /\ first = 0

(***************************************************************************)
(* psParseBufGetTagLen(pb, tag, &hdrLen) at the cursor of b: len is the   *)
(* length of header and content, 0 on rejection; reads is the set of       *)
(* offsets from the cursor the code dereferences on the way.               *)
(***************************************************************************)
GetTagLen(b, tag) ==
    LET s == b.start
        bytes == b.end - b.start
        lenlen == At(s + 1)
        long == lenlen >= \h80
        n == lenlen - \h80
        hdr == IF long THEN 2 + n ELSE 2
        content == IF long THEN BigEndian(s + 2, n) ELSE lenlen
        reject(rd) == [len |-> 0, hdr |-> 0, reads |-> rd]
        rd0 == IF tag /= 0 THEN {0} ELSE {}
        rd1 == rd0 \cup {1}
        rd2 == rd1 \cup IF lenlen \in \h81..\h84 THEN {2} ELSE {}
    IN CASE bytes < 2 -> reject({})
         [] tag /= 0 /\ At(s) /= tag -> reject(rd0)
         [] long /\ ~LongFormAvailable(bytes) -> reject(rd1)
         [] long /\ NonMinimal(lenlen, At(s + 2)) -> reject(rd2)
         [] long /\ (lenlen = \h80 \/ lenlen > \h84) -> reject(rd2)
         [] content > MaxTagContent \/ content + hdr > bytes ->
              reject(rd2 \cup 2..(hdr - 1))
         [] OTHER -> [len |-> content + hdr, hdr |-> hdr,
                      reads |-> rd2 \cup 2..(hdr - 1)]

\* psParseCanRead(pb, n) (a header inline): n bytes remain.
CanRead(b, n) == b.end - b.start >= n

(***************************************************************************)
(* Helpers for the calls.                                                  *)
(***************************************************************************)
Top == Len(pbs)
Live == phase = "live" /\ ops < MaxOps

\* The reads r.reads of the call on b stay inside [start, end).
ReadsIn(b, rd) == \A k \in rd : 0 <= k /\ b.start + k < b.end

\* Mutant: the content size is computed as hdrlen - len.
ContentSwapped(b, r) ==
    IF r.len = 0 THEN [buf |-> NULL, start |-> NULL, end |-> NULL, size |-> 0, err |-> 1]
    ELSE LET c == b.start + r.hdr
         IN [buf |-> c, start |-> c, end |-> c + r.hdr - r.len,
             size |-> r.hdr - r.len, err |-> 0]

\* The child psParseBufTryReadTagSub fills: the content span of the tag,
\* or on rejection an empty NULL buffer with err = 1.
Content(b, r) ==
    IF r.len = 0 THEN [buf |-> NULL, start |-> NULL, end |-> NULL, size |-> 0, err |-> 1]
    ELSE LET c == b.start + r.hdr
         IN [buf |-> c, start |-> c, end |-> c + r.len - r.hdr,
             size |-> r.len - r.hdr, err |-> 0]

\* What a call other than psParseBufCopyAll leaves in copy.
NoCopy == [target |-> "null", cap |-> 0, rc |-> "none", targetlen |-> 0,
           data |-> <<>>, from |-> [buf |-> NULL, start |-> NULL, end |-> NULL,
                                    size |-> 0, err |-> 0]]

Step(newPbs, rd) ==
    /\ pbs' = newPbs
    /\ oob' = (oob \/ ~ReadsIn(pbs[Top], rd))
    /\ ops' = ops + 1
    /\ copy' = NoCopy
    /\ UNCHANGED <<input, phase>>

\* psParseBufTryReadTagSub(pb, content, tag): the parent does not move and
\* is not marked on rejection.
TryReadTagSub(tag) ==
    /\ Live /\ Top < MaxDepth
    /\ LET r == GetTagLen(pbs[Top], tag)
       IN Step(Append(pbs, Content(pbs[Top], r)), r.reads)

\* psParseBufReadTagSub: on rejection the parent's err is raised and the
\* child is made a copy of the parent's psBuf_t, with err = 1.
ReadTagSub(tag) ==
    /\ Live /\ Top < MaxDepth
    /\ LET b == pbs[Top]
           r == GetTagLen(b, tag)
       IN Step(IF r.len = 0
               THEN Append([pbs EXCEPT ![Top].err = @ + 1], [b EXCEPT !.err = 1])
               ELSE Append(pbs, Content(b, r)), r.reads)

\* psParseBufReadTagRef: the content span is handed out, the parent moves
\* past the whole tag; the local child is dropped.
ReadTagRef(tag) ==
    /\ Live
    /\ LET r == GetTagLen(pbs[Top], tag)
       IN Step(IF r.len = 0 THEN [pbs EXCEPT ![Top].err = @ + 1]
               ELSE [pbs EXCEPT ![Top].start = @ + r.len], r.reads)

\* Mutant: the master advances only to where the child was read to.
FinishIntoReadPart(m, c) ==
    IF c.err /= 0 THEN [m EXCEPT !.err = @ + 1] ELSE [m EXCEPT !.start = c.start]

\* psParseBufFinish of a child c of master m.
FinishInto(m, c) ==
    IF c.err /= 0 THEN [m EXCEPT !.err = @ + 1]
    ELSE [m EXCEPT !.start = c.buf + c.size]

\* psParseBufTrySkipTag: read the tag into a local child and finish it.
TrySkipTag(tag) ==
    /\ Live
    /\ LET b == pbs[Top]
           r == GetTagLen(b, tag)
       IN Step(IF r.len = 0 THEN pbs
               ELSE [pbs EXCEPT ![Top] = FinishInto(b, Content(b, r))], r.reads)

\* psParseBufSkipTag: as above, through psParseBufReadTagSub.
SkipTag(tag) ==
    /\ Live
    /\ LET b == pbs[Top]
           r == GetTagLen(b, tag)
       IN Step(IF r.len = 0 THEN [pbs EXCEPT ![Top].err = @ + 1]
               ELSE [pbs EXCEPT ![Top] = FinishInto(b, Content(b, r))], r.reads)

\* psParseBufTrySkipBytes(pb, lit, n): advance only on an exact match.
Matches(b, lit) ==
    CanRead(b, Len(lit)) /\ \A k \in 1..Len(lit) : At(b.start + k - 1) = lit[k]

TrySkipBytes(lit) ==
    /\ Live
    /\ LET b == pbs[Top]
       IN Step(IF Matches(b, lit) THEN [pbs EXCEPT ![Top].start = @ + Len(lit)]
               ELSE pbs,
               IF CanRead(b, Len(lit)) THEN 0..(Len(lit) - 1) ELSE {})

\* psParseBufSkipBytes: a mismatch raises err.
SkipBytes(lit) ==
    /\ Live
    /\ LET b == pbs[Top]
       IN Step(IF Matches(b, lit) THEN [pbs EXCEPT ![Top].start = @ + Len(lit)]
               ELSE [pbs EXCEPT ![Top].err = @ + 1],
               IF CanRead(b, Len(lit)) THEN 0..(Len(lit) - 1) ELSE {})

\* psParseBufFinish of the innermost child: its master is signalled on
\* error, otherwise moved past the child's whole span.
Finish ==
    /\ Live /\ Top > 1
    /\ Step([SubSeq(pbs, 1, Top - 1) EXCEPT ![Top - 1] =
                FinishInto(pbs[Top - 1], pbs[Top])], {})

\* psParseBufCancel of the innermost child: nothing reaches the master.
Cancel ==
    /\ Live /\ Top > 1
    /\ Step(SubSeq(pbs, 1, Top - 1), {})

\* psParseBufFinish or psParseBufCancel of the root: its state is freed;
\* the static data is not released.
Release ==
    /\ Live /\ Top = 1
    /\ phase' = "done"
    /\ ops' = ops + 1
    /\ copy' = NoCopy
    /\ UNCHANGED <<input, pbs, oob>>

(***************************************************************************)
(* psParseBufCopyAll(pb, target, targetlen): target is "null" for a size  *)
(* probe or "mem" for caller memory, tl is *targetlen on entry.  The call  *)
(* records the buffer it read (from).                                     *)
(***************************************************************************)
\* The unread span of b.
Unread(b) == SubSeq(input, b.start + 1, b.end)

\* Mutant: a target of exactly the required length is refused.
CopyAllResultStrict(b, target, tl) ==
    LET len == b.end - b.start
    IN CASE b.err /= 0 -> [rc |-> "failure", targetlen |-> tl, data |-> <<>>]
         [] target = "null" \/ len >= tl -> [rc |-> "length", targetlen |-> len, data |-> <<>>]
         [] OTHER -> [rc |-> "success", targetlen |-> tl, data |-> Unread(b)]

\* Its results: PS_FAILURE on a buffer in error, PS_OUTPUT_LENGTH with the
\* required length for a probe or a target too small, otherwise the
\* unread bytes, leaving *targetlen as the caller set it.
CopyAllResult(b, target, tl) ==
    LET len == b.end - b.start
    IN CASE b.err /= 0 -> [rc |-> "failure", targetlen |-> tl, data |-> <<>>]
         [] target = "null" \/ len > tl -> [rc |-> "length", targetlen |-> len, data |-> <<>>]
         [] OTHER -> [rc |-> "success", targetlen |-> tl, data |-> Unread(b)]

CopyAll(target, tl) ==
    /\ Live
    /\ LET b == pbs[Top]
           r == CopyAllResult(b, target, tl)
       IN /\ copy' = [target |-> target, cap |-> tl, rc |-> r.rc,
                      targetlen |-> r.targetlen, data |-> r.data, from |-> b]
          /\ oob' = (oob \/ ~ReadsIn(b, IF r.rc = "success" THEN 0..(Len(r.data) - 1) ELSE {}))
    /\ ops' = ops + 1
    /\ UNCHANGED <<input, pbs, phase>>

\* The parse is over, or the call budget is spent.
Stopped == (phase = "done" \/ ops = MaxOps) /\ UNCHANGED vars

\* psParseBufFromStaticData(pb, data, len) over one of the inputs.
Init ==
    /\ input \in Inputs
    /\ pbs = <<[buf |-> 0, start |-> 0, end |-> Len(input), size |-> Len(input),
                err |-> 0]>>
    /\ phase = "live"
    /\ oob = FALSE
    /\ ops = 0
    /\ copy = NoCopy

Next ==
    \/ \E tag \in Tags :
         \/ TryReadTagSub(tag) \/ ReadTagSub(tag) \/ ReadTagRef(tag)
         \/ TrySkipTag(tag) \/ SkipTag(tag)
    \/ \E lit \in Literals : TrySkipBytes(lit) \/ SkipBytes(lit)
    \/ \E target \in {"null", "mem"}, tl \in Capacities \cup {copy.targetlen} :
         CopyAll(target, tl)
    \/ Finish
    \/ Cancel
    \/ Release
    \/ Stopped

Spec == Init /\ [][Next]_vars

(***************************************************************************)
(* Properties.                                                             *)
(***************************************************************************)
PBuf == [buf : Int, start : Int, end : Int, size : Nat, err : Nat]

TypeOK ==
    /\ input \in Inputs
    /\ pbs \in Seq(PBuf) /\ Len(pbs) \in 1..MaxDepth
    /\ phase \in {"live", "done"}
    /\ oob \in BOOLEAN
    /\ ops \in 0..MaxOps
    /\ copy.rc \in {"none", "failure", "length", "success"} /\ copy.from \in PBuf

\* Reference DER framing (X.690 definite length, as the spec states it):
\* the length of the whole TLV at offset s within [s, e), or 0 when there
\* is none: a tag byte, then the one length field that output_len would
\* write for the content length, then that much content.  A length field
\* with a shorter encoding, an indefinite one, or content beyond e, is
\* no TLV.
DerTlvLen(s, e) ==
    LET fits(L) == /\ 1 + Len(OutputLen(L)) + L <= e - s
                   /\ \A k \in 1..Len(OutputLen(L)) : At(s + k) = OutputLen(L)[k]
        Ls == {L \in 0..(e - s) : fits(L)}
    IN IF Ls = {} THEN 0
       ELSE LET L == CHOOSE x \in Ls : TRUE IN 1 + Len(OutputLen(L)) + L

\* psParseBufGetTagLen and the reads built on it never dereference a byte
\* outside the span of the buffer they parse, whatever the attacker-chosen
\* input (truncated headers, long-form lengths, bogus length-of-length).
NoOverread == ~oob

\* Every error-free child spans exactly the content of the DER TLV that
\* starts at its master's cursor: the header is skipped and the content
\* length decoded as DER defines it, so non-minimal, indefinite and
\* overlong length fields never yield a child.
ChildSpansTlv ==
    phase = "live" =>
      \A i \in 2..Top :
        LET c == pbs[i]  m == pbs[i - 1]  t == DerTlvLen(m.start, m.end)
        IN c.err = 0 =>
             /\ t > 0
             /\ c.buf = m.start + t - c.size
             /\ c.end = c.buf + c.size
             /\ c.buf <= c.start /\ c.start <= c.end

\* A step moves a buffer's cursor only forward, never beyond its end, and
\* only over one whole DER TLV or over a literal the caller matched.
CursorAdvance ==
    [][\A i \in 1..Top :
         (i <= Len(pbs') /\ phase' = "live" /\ pbs'[i].start /= pbs[i].start) =>
           LET s == pbs[i].start  s2 == pbs'[i].start
           IN /\ s < s2 /\ s2 <= pbs[i].end
              /\ \/ s2 - s = DerTlvLen(s, pbs[i].end)
                 \/ \E lit \in Literals :
                       Len(lit) = s2 - s /\ Matches(pbs[i], lit)]_vars

\* The spec's sticky error: once a parse buffer's err is non-zero, further
\* operations on it degrade to no-ops, so its cursor never moves again.
\* This includes the child psParseBufReadTagSub makes on rejection, which
\* aliases the master's span so that "subsequent parsing attempts on it
\* fail gracefully".
StickyParseError ==
    [][\A i \in 1..Top :
         (i <= Len(pbs') /\ pbs[i].err > 0) => pbs'[i].start = pbs[i].start]_vars

\* The spec's two-phase size-then-copy protocol of psParseBufCopyAll: a
\* copy into caller memory, made right after a probe on the same buffer,
\* of the size the probe reported succeeds and delivers exactly the buffer's unread bytes.
CopyAllTwoPhase ==
    [][(/\ copy.rc = "length" /\ copy'.rc /= "none"
        /\ copy'.from = copy.from /\ copy'.target = "mem"
        /\ copy'.cap = copy.targetlen)
         => copy'.rc = "success" /\ copy'.data = Unread(copy.from)]_vars
=============================================================================
