------------------------------ MODULE FixedBuf ------------------------------
(***************************************************************************)
(* The fixed-capacity buffer psBuf_t of src/core/psbuf.c on its own: one  *)
(* buffer, created by psBufInit, psBufFromData or psBufFromStaticData,    *)
(* written through psBufAppendSize, psBufReservePrepend and               *)
(* psBufPrependSize, dumped by psBufAsHex and torn down by psBufDetach or *)
(* psBufUninit.                                                            *)
(*                                                                         *)
(* Unlike DynBuf, which works in offsets of one allocation, the four      *)
(* fields are addresses of an AddrBits-wide address space, so that the    *)
(* pointer sums loc + sz of the code are taken where they can pass the    *)
(* top of it.  mem holds the bytes of the block the buffer points at,     *)
(* indexed by their offset from buf.  The caller fills every location an  *)
(* append or prepend returns with one byte value, and calls the writers   *)
(* only on a buffer it has created, the creators only on a torn-down one. *)
(***************************************************************************)
EXTENDS Integers, Sequences, FiniteSets

CONSTANTS
    AddrBits,      \* width of a pointer and of size_t
    HeapAddrs,     \* addresses psMalloc may return
    StaticAddr,    \* address of the caller's data for psBufFromStaticData
    Capacities,    \* capacities passed to psBufInit
    Sizes,         \* sz passed to the append, reserve and prepend calls
    Datas,         \* byte strings passed to psBufFromData and FromStaticData
    Values,        \* bytes the caller writes into a returned location
    MaxOps,        \* bound: number of calls made on the buffer
    MallocMayFail  \* whether psMalloc may return NULL

AddrSpace == 2 ^ AddrBits
NULL == 0
Garbage == -1      \* a byte nobody wrote

ASSUME AddrBits \in 1..16 /\ MaxOps \in Nat /\ MallocMayFail \in BOOLEAN
ASSUME \A a \in HeapAddrs \cup {StaticAddr} : a \in 1..(AddrSpace - 1)
ASSUME Sizes \subseteq 0..(AddrSpace - 1) /\ Values \subseteq 0..255
\* Every block lies inside the address space.
ASSUME \A a \in HeapAddrs, c \in Capacities \cup {Len(d) : d \in Datas} :
           a + c < AddrSpace
ASSUME \A d \in Datas : StaticAddr + Len(d) < AddrSpace

VARIABLES
    b,     \* the psBuf_t: [buf, start, end, size]
    mem,   \* offset from b.buf -> byte, for the block b points at
    out,   \* result of the call just made, if it returns data
    ops,   \* number of calls made so far
    written \* ghost: the bytes put into the buffer, in buffer order

vars == <<b, mem, out, ops, written>>

Addrs == 0..(AddrSpace - 1)
ZeroBuf == [buf |-> NULL, start |-> NULL, end |-> NULL, size |-> 0]
NoOut == [op |-> "none", ok |-> FALSE, data |-> <<>>]
AllocOutcomes == IF MallocMayFail THEN {TRUE, FALSE} ELSE {TRUE}

\* Pointer and size_t arithmetic wraps modulo 2^AddrBits.
Addr(x) == x % AddrSpace

\* p + n <= q with p + n past the top of the address space is undefined
\* behaviour: the build either compares the wrapped sum or, having
\* assumed no overflow, the exact one (as n <= q - p).
PtrLeq(p, n, q) == { Addr(p + n) <= q, p + n <= q }

\* The bytes [start, end) of the buffer: size_t len = end - start.
Unread(bb, m) ==
    [k \in 1..Addr(bb.end - bb.start) |->
        LET o == Addr(bb.start - bb.buf) + k - 1
        IN IF o \in DOMAIN m THEN m[o] ELSE Garbage]

\* The caller writes v into the n bytes at address a.
Fill(bb, m, a, n, v) ==
    [o \in DOMAIN m |-> IF Addr(bb.buf + o - a) < n THEN v ELSE m[o]]

Copies(v, n) == [k \in 1..n |-> v]

Block(d) == [o \in 0..(Len(d) - 1) |-> d[o + 1]]

Call(nb, nm, res) ==
    /\ ops < MaxOps
    /\ ops' = ops + 1
    /\ b' = nb /\ mem' = nm /\ out' = res

Live == b.buf /= NULL

\* psBufInit: psMalloc(capacity); size is the capacity only if it succeeded.
Init(cap) ==
    /\ ~Live
    /\ \E ok \in AllocOutcomes, a \in HeapAddrs :
         LET p == IF ok THEN a ELSE NULL
         IN Call([buf |-> p, start |-> p, end |-> p, size |-> IF ok THEN cap ELSE 0],
                 [o \in 0..((IF ok THEN cap ELSE 0) - 1) |-> Garbage], NoOut)
    /\ written' = <<>>

\* psBufUninit.
Uninit ==
    /\ Live
    /\ Call(ZeroBuf, <<>>, NoOut)
    /\ written' = <<>>

\* psBufDetach: a copy of [start, end) in a new block of len ? len : 1
\* bytes, then psBufUninit whether or not the copy was made.
Detach ==
    /\ Live
    /\ \E ok \in AllocOutcomes :
         Call(ZeroBuf, <<>>, [op |-> "detach", ok |-> ok,
                              data |-> IF ok THEN Unread(b, mem) ELSE <<>>])
    /\ written' = <<>>

\* psBufFromData: zero the buffer; if data is not NULL, copy it into a new
\* block of len ? len : 1 bytes.  isNull is the caller passing data NULL.
FromData(d) ==
    /\ ~Live
    /\ \E isNull \in BOOLEAN, ok \in AllocOutcomes, a \in HeapAddrs :
         IF ~isNull /\ ok
         THEN Call([buf |-> a, start |-> a, end |-> a + Len(d), size |-> Len(d)],
                   Block(d), NoOut) /\ written' = d
         ELSE Call(ZeroBuf, <<>>, NoOut) /\ written' = <<>>

\* Mutant: the length is kept when data is NULL.
StaticLenKept(p, d) == Len(d)

\* if (!data) len = 0;
StaticLen(p, d) == IF p = NULL THEN 0 ELSE Len(d)

\* psBufFromStaticData: the buffer aliases the caller's data.
FromStaticData(d) ==
    /\ ~Live
    /\ \E p \in {StaticAddr, NULL} :
         Call([buf |-> p, start |-> p, end |-> Addr(p + StaticLen(p, d)),
               size |-> StaticLen(p, d)],
              IF p = NULL THEN <<>> ELSE Block(d), NoOut)
         /\ written' = IF p = NULL THEN <<>> ELSE d

(***************************************************************************)
(* psBufAsHex: sprintf(hexstr + i * 2, "%02x", start[i]) for every byte,  *)
(* into a block whose first character is set to NUL.  Characters are     *)
(* their ASCII codes; the string is what precedes the first NUL.          *)
(***************************************************************************)
HexDigit(x) == IF x < 10 THEN 48 + x ELSE 87 + x

\* Mutant: "%x", which prints one digit below 16.
SprintfX(c) ==
    IF c < 16 THEN <<HexDigit(c)>> ELSE <<HexDigit(c \div 16), HexDigit(c % 16)>>

\* The characters sprintf writes for "%02x", before its NUL.
Sprintf02x(c) == <<HexDigit(c \div 16), HexDigit(c % 16)>>

\* sprintf(s + at, fmt, c): the characters, a NUL, then what s held after.
SprintfAt(s, at, c) ==
    LET w == Sprintf02x(c) \o <<0>>
    IN SubSeq(s, 1, at) \o w \o SubSeq(s, at + Len(w) + 1, Len(s))

RECURSIVE HexLoop(_, _, _)
HexLoop(bytes, i, s) ==
    IF i = Len(bytes) THEN s ELSE HexLoop(bytes, i + 1, SprintfAt(s, 2 * i, bytes[i + 1]))

RECURSIVE CString(_)
CString(s) == IF s = <<>> \/ Head(s) = 0 THEN <<>> ELSE <<Head(s)>> \o CString(Tail(s))

AsHex ==
    /\ Live
    /\ \E ok \in AllocOutcomes :
         Call(b, mem, [op |-> "hex", ok |-> ok,
                       data |-> IF ok THEN CString(HexLoop(Unread(b, mem), 0, <<0>>))
                                ELSE <<>>])
    /\ UNCHANGED written

(***************************************************************************)
(* The writers.  The caller fills a returned location with v.            *)
(***************************************************************************)
\* psBufAppendSize: the sz bytes at end, if loc + sz <= bufend.
AppendSize(sz, v) ==
    /\ Live
    /\ \E fits \in PtrLeq(b.end, sz, b.buf + b.size) :
         IF fits
         THEN /\ Call([b EXCEPT !.end = Addr(@ + sz)], Fill(b, mem, b.end, sz, v), NoOut)
              /\ written' = written \o Copies(v, sz)
         ELSE Call(b, mem, NoOut) /\ UNCHANGED written

\* Mutant: only end is moved on.
ReservePrependEndOnly(sz) ==
    /\ Live
    /\ b.start = b.end
    /\ \E fits \in PtrLeq(b.end, sz, b.buf + b.size) :
         Call(IF fits THEN [b EXCEPT !.end = Addr(@ + sz)] ELSE b, mem, NoOut)
    /\ UNCHANGED written

\* psBufReservePrepend: moves the empty span sz bytes on, if they fit.  Its
\* assert(start == end) is the caller's duty, so the model calls it then.
ReservePrepend(sz) ==
    /\ Live
    /\ b.start = b.end
    /\ \E fits \in PtrLeq(b.end, sz, b.buf + b.size) :
         Call(IF fits THEN [b EXCEPT !.start = Addr(@ + sz), !.end = Addr(@ + sz)]
              ELSE b, mem, NoOut)
    /\ UNCHANGED written

\* Mutant: only buf <= start is tested.
PrependFitsHeadOnly(bb, sz) == {bb.buf <= bb.start}

\* buf <= start && buf + sz <= start.
PrependFits(bb, sz) == {bb.buf <= bb.start /\ f : f \in PtrLeq(bb.buf, sz, bb.start)}

\* psBufPrependSize: the sz bytes before start, if the head room has them.
PrependSize(sz, v) ==
    /\ Live
    /\ \E fits \in PrependFits(b, sz) :
         IF fits
         THEN /\ Call([b EXCEPT !.start = Addr(@ - sz)],
                      Fill(b, mem, Addr(b.start - sz), sz, v), NoOut)
              /\ written' = Copies(v, sz) \o written
         ELSE Call(b, mem, NoOut) /\ UNCHANGED written

\* The bound on calls is reached: the caller stops.
BoundReached == ops = MaxOps /\ UNCHANGED vars

Init0 == b = ZeroBuf /\ mem = <<>> /\ out = NoOut /\ ops = 0 /\ written = <<>>

Next ==
    \/ \E c \in Capacities : Init(c)
    \/ \E d \in Datas : FromData(d) \/ FromStaticData(d)
    \/ \E sz \in Sizes, v \in Values : AppendSize(sz, v) \/ PrependSize(sz, v)
    \/ \E sz \in Sizes : ReservePrepend(sz)
    \/ AsHex \/ Detach \/ Uninit
    \/ BoundReached

Spec == Init0 /\ [][Next]_vars

(***************************************************************************)
(* Properties.                                                             *)
(***************************************************************************)
Bytes == Values \cup UNION {{d[k] : k \in DOMAIN d} : d \in Datas} \cup {Garbage}

TypeOK ==
    /\ b \in [buf : Addrs, start : Addrs, end : Addrs, size : 0..(AddrSpace - 1)]
    /\ mem \in [0..(b.size - 1) -> Bytes]
    /\ out.op \in {"none", "detach", "hex"} /\ out.ok \in BOOLEAN
    /\ ops \in 0..MaxOps

\* The spec's invariant of psBuf_t: a live buffer's cursors satisfy
\* buf <= start <= end <= buf + size, and a torn-down one is all NULL.
\* psBufAppendSize, psBufReservePrepend and psBufPrependSize each keep it
\* only through their guards, and one call after another moves start and
\* end apart and back.
InsideAllocation ==
    /\ Live => b.buf <= b.start /\ b.start <= b.end /\ b.end <= b.buf + b.size
    /\ ~Live => b = ZeroBuf

\* The bytes between start and end are the ones the caller put in, in
\* order: psBufFromData's copy, then each prepend's before them and each
\* append's after them, with the head room psBufReservePrepend opens
\* left outside.  Each call moves one cursor by its own guard; what lies
\* between them depends on all of the calls together.
SpanIsWritten == Live => Unread(b, mem) = written

\* Reference: the lowercase hex digits of a byte string, two per byte.
HexOf(s) ==
    [k \in 1..(2 * Len(s)) |->
        LET c == s[(k + 1) \div 2]
        IN HexDigit(IF k % 2 = 1 THEN c \div 16 ELSE c % 16)]

\* psBufAsHex returns the string of two hex digits per byte of [start,
\* end), built by the sprintf loop whose every call overwrites the NUL
\* the previous one left.
HexDumpExact ==
    [][(out'.op = "hex" /\ out'.ok) => out'.data = HexOf(Unread(b, mem))]_vars
====
