------------------------------- MODULE DynBuf -------------------------------
(***************************************************************************)
(* The growable dynamic buffer of src/core/psbuf.c (psDynBuf_t) with its  *)
(* nested sub-buffers, driven by a caller that follows the protocol of    *)
(* the spec: every call goes to the innermost open buffer, and the root   *)
(* is detached or released only when no sub-buffer is open.               *)
(*                                                                         *)
(* Memory is the root's single allocation, heap, a function from offsets  *)
(* of the current allocation to byte values.  bufs[1] is the root and     *)
(* bufs[i] the sub-buffer whose master is bufs[i-1]; each holds the four  *)
(* psBuf_t fields as offsets (buf, start, end, size) and the err count.   *)
(* A reallocation of the root moves everything to a fresh allocation,     *)
(* whose offsets start again at 0.  Bytes the caller writes are unique    *)
(* tokens (> 255) so that any loss, duplication or reordering shows;      *)
(* uninitialised bytes and the debug fill characters are Garbage.         *)
(***************************************************************************)
EXTENDS Integers, Sequences, FiniteSets, DerCodec

CONSTANTS
    GROW,          \* PS_DYNBUF_GROW: minimum growth of either end
    InitCaps,      \* capacities passed to psDynBufInit
    Sizes,         \* sizes passed to append, prepend and reserve calls
    SubCaps,       \* capacities passed to psDynBufSubInit
    SubAtOffsets,  \* the at argument of psDynBufSubInitAt
    SubAtLengths,  \* the length argument of psDynBufSubInitAt
    Codepoints,    \* characters passed to psDynBufAppendUtf8
    Tags,          \* tag bytes passed to the ASN.1 helpers
    TagLens,       \* content lengths passed to psDynBufAppendAsn1TagGen
    MaxDepth,      \* bound: the root and at most MaxDepth-1 open sub-buffers
    MaxOps,        \* bound: number of calls made on the buffer
    MallocMayFail, \* whether psMalloc may return NULL
    PriorErr       \* values the err field of the caller's psDynBuf_t may
                   \* hold when psDynBufSubInitAt is called on it

ASSUME GROW \in Nat \ {0} /\ MaxDepth \in Nat \ {0} /\ MaxOps \in Nat
ASSUME \A n \in Sizes \cup TagLens : n \in 1..7
ASSUME MallocMayFail \in BOOLEAN /\ PriorErr \subseteq Int

VARIABLES
    heap,    \* the root's allocation: offset -> byte
    bufs,    \* bufs[i]: [buf, start, end, size, err] of the i-th open buffer
    phase,   \* "idle" before psDynBufInit, "live", "done" after detach/uninit
    out,     \* result of the last psDynBufDetach
    ops      \* number of calls made so far

vars == <<heap, bufs, phase, out, ops>>

NULL == -1          \* a NULL pointer field
Garbage == -1       \* a byte nobody wrote
NoOut == [ok |-> FALSE, data |-> <<>>]
ZeroBuf == [buf |-> NULL, start |-> NULL, end |-> NULL, size |-> 0, err |-> 0]

\* Constants of the code.
ConstructedTagSlack == 20  \* psDynBufBeginConstructedTag: psDynBufSubInit(db, sub, 20)
ConstructedTagHead == 4    \* ... then psDynBufReservePrepend(sub, 4)

\* The j-th byte the caller writes in its call number ops.
Token(j) == 256 + 8 * ops + j
Data(n) == [j \in 1..n |-> Token(j)]

AllocOutcomes == IF MallocMayFail THEN {TRUE, FALSE} ELSE {TRUE}

(***************************************************************************)
(* Memory primitives.                                                      *)
(***************************************************************************)
Read(h, a) == IF a \in DOMAIN h THEN h[a] ELSE Garbage

\* The bytes [a, b) of h.
Bytes(h, a, b) == [k \in 1..(b - a) |-> Read(h, a + k - 1)]

\* memcpy of the sequence s to offset a.
Write(h, a, s) ==
    [x \in DOMAIN h |-> IF a <= x /\ x < a + Len(s) THEN s[x - a + 1] ELSE h[x]]

\* memset(a, c, n) with any debug or fill character c.
Fill(h, a, n) == [x \in DOMAIN h |-> IF a <= x /\ x < a + n THEN Garbage ELSE h[x]]

\* memmove(dst, src, n).
MemMove(h, dst, src, n) ==
    [x \in DOMAIN h |-> IF dst <= x /\ x < dst + n THEN Read(h, src + x - dst)
                                                   ELSE h[x]]

(***************************************************************************)
(* The buffer algorithms, as functions of st = [heap, bufs].               *)
(***************************************************************************)
HeadRoom(b) == b.start - b.buf
TailRoom(b) == (b.buf + b.size) - b.end
Filled(b) == b.end - b.start

\* assert_subbuf: its memsets mark the sub-buffer's head and tail room.
MarkRooms(h, b) == Fill(Fill(h, b.buf, HeadRoom(b)), b.end, TailRoom(b))

\* Mutant: the master's bytes after the sub-buffer are not moved.
ShiftTailSkipped(h, mend, offset_tail, grown) == h

\* The memmove in psDynBufGrow that carries the master's bytes after a
\* growing sub-buffer (offset_tail of them) to the master's new end.
ShiftTail(h, mend, offset_tail, grown) ==
    IF offset_tail /= 0
    THEN MemMove(h, mend - offset_tail, mend - offset_tail - grown, offset_tail)
    ELSE h

\* psDynBufGrow(db = bufs[i], head0, tail0): returns the new st with ok
\* telling whether a location was returned.  allocOK is the outcome of the
\* psMalloc the root makes, should the growth reach it.
RECURSIVE Grow(_, _, _, _, _)
Grow(st, i, head0, tail0, allocOK) ==
    LET b == st.bufs[i]
        headroom == HeadRoom(b)
        tailroom == TailRoom(b)
        filled == Filled(b)
        head_sz == IF head0 /= 0 /\ head0 < GROW THEN GROW ELSE head0
        tail_sz == IF tail0 < GROW THEN GROW ELSE tail0
    IN
    IF b.err /= 0 THEN [st EXCEPT !.ok = FALSE]
    ELSE IF i > 1 THEN
        \* A sub-buffer grows its master's tail and shifts into it.
        LET m == st.bufs[i - 1]
            offset == b.buf - m.start
            offset_tail == m.end - (b.buf + b.size)
            r == Grow([st EXCEPT !.heap = MarkRooms(@, b)], i - 1, 0,
                      head_sz + tail_sz, allocOK)
            mend == r.bufs[i - 1].end + head_sz + tail_sz
            h1 == ShiftTail(r.heap, mend, offset_tail, head_sz + tail_sz)
            nbuf == r.bufs[i - 1].start + offset
            nstart == nbuf + headroom + head_sz
            h2 == IF head_sz > 0 THEN MemMove(h1, nstart, nstart - head_sz, filled)
                  ELSE h1
            nb == [b EXCEPT !.buf = nbuf, !.start = nstart, !.end = nstart + filled,
                            !.size = head_sz + headroom + filled + tailroom + tail_sz]
        IN IF r.ok
           THEN [heap |-> MarkRooms(h2, nb), ok |-> TRUE,
                 bufs |-> [r.bufs EXCEPT ![i - 1].end = mend, ![i] = nb]]
           ELSE [r EXCEPT !.bufs[i].err = @ + 1]
    ELSE
        \* The root reallocates: new head room, the filled bytes, new tail room.
        LET hs == head_sz + headroom
            ts == tail_sz + tailroom
        IN IF allocOK
           THEN [heap |-> [x \in 0..(hs + filled + ts - 1) |->
                              IF hs <= x /\ x < hs + filled
                              THEN Read(st.heap, b.start + x - hs) ELSE Garbage],
                 bufs |-> [st.bufs EXCEPT ![1] = [@ EXCEPT !.buf = 0, !.start = hs,
                                  !.end = hs + filled, !.size = hs + filled + ts]],
                 ok |-> TRUE]
           ELSE [st EXCEPT !.bufs[1].err = @ + 1, !.ok = FALSE]

\* psDynBufAppendSize on bufs[t]: the fast path of psBufAppendSize, else
\* grow the tail and retry.  loc is the returned location or NULL.
AppendSizeOp(st, t, sz, allocOK) ==
    LET b == st.bufs[t]
        g == Grow([heap |-> st.heap, bufs |-> st.bufs, ok |-> TRUE], t, 0, sz, allocOK)
    IN CASE b.end + sz <= b.buf + b.size ->
              [heap |-> st.heap, bufs |-> [st.bufs EXCEPT ![t].end = @ + sz],
               loc |-> b.end]
         [] g.ok ->
              [heap |-> g.heap, bufs |-> [g.bufs EXCEPT ![t].end = @ + sz],
               loc |-> g.bufs[t].end]
         [] OTHER -> [heap |-> g.heap, bufs |-> g.bufs, loc |-> NULL]

\* psDynBufPrependSize on bufs[t]: psBufPrependSize, else grow the head.
PrependSizeOp(st, t, sz, allocOK) ==
    LET b == st.bufs[t]
        g == Grow([heap |-> st.heap, bufs |-> st.bufs, ok |-> TRUE], t, sz, 0, allocOK)
    IN CASE b.buf <= b.start /\ b.buf + sz <= b.start ->
              [heap |-> st.heap, bufs |-> [st.bufs EXCEPT ![t].start = @ - sz],
               loc |-> b.start - sz]
         [] g.ok ->
              [heap |-> g.heap, bufs |-> [g.bufs EXCEPT ![t].start = @ - sz],
               loc |-> g.bufs[t].start - sz]
         [] OTHER -> [heap |-> g.heap, bufs |-> g.bufs, loc |-> NULL]

\* psDynBufReservePrepend (and psBufReservePrepend) on bufs[t].
ReservePrependOp(bs, t, sz) ==
    LET b == bs[t]
    IN IF b.start = b.end /\ b.end + sz <= b.buf + b.size
       THEN [bs EXCEPT ![t].start = @ + sz, ![t].end = @ + sz]
       ELSE bs

\* Mutant: the content is never moved to the front of the claimed span.
CompactSubSkipped(h, sub) == h

\* psDynBufSubFinish moves a sub-buffer's content whose start has drifted
\* (a header was prepended into head room) to the front of its span.
CompactSub(h, sub) ==
    IF sub.buf /= sub.start /\ Filled(sub) > 0
    THEN MemMove(h, sub.buf, sub.start, Filled(sub)) ELSE h

\* psDynBufSubFinish of the innermost buffer bufs[t], t > 1.
SubFinishOp(st, t) ==
    LET sub == st.bufs[t]
        db == st.bufs[t - 1]
        total == sub.size
        filled == Filled(sub)
        offset_tail == db.end - (sub.buf + sub.size)
        h0 == MarkRooms(st.heap, sub)
        h1 == CompactSub(h0, sub)
        h2 == IF offset_tail > 0
              THEN MemMove(h1, db.end - total + filled - offset_tail,
                           db.end - offset_tail, offset_tail)
              ELSE h1
        popped == SubSeq(st.bufs, 1, t - 1)
    IN IF sub.err /= 0
       THEN [heap |-> st.heap, bufs |-> [popped EXCEPT ![t - 1].err = @ + sub.err]]
       ELSE [heap |-> h2,
             bufs |-> [popped EXCEPT ![t - 1].end = @ - total + filled]]

(***************************************************************************)
(* The caller's calls.  Each is one step, on the innermost open buffer.    *)
(***************************************************************************)
Top == Len(bufs)
St == [heap |-> heap, bufs |-> bufs]
Live == phase = "live" /\ ops < MaxOps

Call(r) ==
    /\ heap' = r.heap
    /\ bufs' = r.bufs
    /\ ops' = ops + 1
    /\ UNCHANGED <<phase, out>>

\* psDynBufInit(pool, db, capacity).
DynBufInit(cap) ==
    /\ phase \in {"idle", "done"} /\ ops < MaxOps
    /\ \E allocOK \in AllocOutcomes :
         /\ heap' = IF allocOK THEN [x \in 0..(cap - 1) |-> Garbage]
                    ELSE [x \in {} |-> Garbage]
         /\ bufs' = <<IF allocOK
                      THEN [buf |-> 0, start |-> 0, end |-> 0, size |-> cap, err |-> 0]
                      ELSE [ZeroBuf EXCEPT !.err = 1]>>
    /\ phase' = "live"
    /\ ops' = ops + 1
    /\ UNCHANGED out

\* psDynBufAppendSize, after which the caller fills the returned bytes.
AppendSize(sz) ==
    /\ Live
    /\ \E allocOK \in AllocOutcomes :
         LET r == AppendSizeOp(St, Top, sz, allocOK)
         IN Call([r EXCEPT !.heap = IF r.loc /= NULL THEN Write(@, r.loc, Data(sz))
                                    ELSE @])

\* psDynBufPrependSize, after which the caller fills the returned bytes.
PrependSize(sz) ==
    /\ Live
    /\ \E allocOK \in AllocOutcomes :
         LET r == PrependSizeOp(St, Top, sz, allocOK)
         IN Call([r EXCEPT !.heap = IF r.loc /= NULL THEN Write(@, r.loc, Data(sz))
                                    ELSE @])

\* psDynBufReservePrepend.
ReservePrepend(sz) ==
    /\ Live
    /\ Call([heap |-> heap, bufs |-> ReservePrependOp(bufs, Top, sz)])

\* psDynBufAppendUtf8.
AppendUtf8(ch) ==
    /\ Live
    /\ IF ch > Utf8Max
       THEN Call([heap |-> heap, bufs |-> [bufs EXCEPT ![Top].err = @ + 1]])
       ELSE \E allocOK \in AllocOutcomes :
              LET enc == Utf8Encode(ch)
                  r == AppendSizeOp(St, Top, Len(enc), allocOK)
              IN Call([r EXCEPT !.heap = IF r.loc /= NULL THEN Write(@, r.loc, enc)
                                         ELSE @])

\* psDynBufAppendAsn1TagGen(db, tag, bytes, len).
AppendAsn1TagGen(tag, len) ==
    /\ Live
    /\ \E allocOK \in AllocOutcomes :
         LET r == AppendSizeOp(St, Top, len + LenOfTagAndLen(len), allocOK)
         IN Call([r EXCEPT !.heap = IF r.loc /= NULL
                                    THEN Write(@, r.loc, Header(tag, len) \o Data(len))
                                    ELSE @])

\* Mutant: the sub-buffer is placed at the master's new end instead of
\* capacity bytes before it.
SubInitOpAtEnd(st, t, cap, allocOK) ==
    LET r == AppendSizeOp(st, t, cap, allocOK)
        at == r.bufs[t].end
    IN IF r.loc /= NULL
       THEN [heap |-> Fill(r.heap, at, cap),
             bufs |-> Append(r.bufs, [buf |-> at, start |-> at, end |-> at,
                                      size |-> cap, err |-> 0])]
       ELSE [heap |-> r.heap,
             bufs |-> Append([r.bufs EXCEPT ![t].err = @ + 1],
                             [ZeroBuf EXCEPT !.err = 1])]

\* psDynBufSubInit(db, sub, capacity) on the innermost buffer.
SubInitOp(st, t, cap, allocOK) ==
    LET r == AppendSizeOp(st, t, cap, allocOK)
        at == r.bufs[t].end - cap
        sub == [buf |-> at, start |-> at, end |-> at, size |-> cap, err |-> 0]
    IN IF r.loc /= NULL
       THEN [heap |-> Fill(r.heap, at, cap), bufs |-> Append(r.bufs, sub)]
       ELSE [heap |-> r.heap,
             bufs |-> Append([r.bufs EXCEPT ![t].err = @ + 1],
                             [ZeroBuf EXCEPT !.err = 1])]

SubInit(cap) ==
    /\ Live /\ Top < MaxDepth
    /\ \E allocOK \in AllocOutcomes : Call(SubInitOp(St, Top, cap, allocOK))

\* Mutant: the span is checked against the capacity, not the filled bytes.
SubInitAtCapacity(at, length) ==
    /\ Live /\ Top < MaxDepth
    /\ LET db == bufs[Top]
           a == db.start + at
       IN IF db.err = 0 /\ at + length <= db.size
          THEN Call([heap |-> Fill(heap, a, length),
                     bufs |-> Append(bufs, [buf |-> a, start |-> a, end |-> a,
                                            size |-> length, err |-> 0])])
          ELSE \E prior \in PriorErr :
                 Call([heap |-> heap,
                       bufs |-> Append([bufs EXCEPT ![Top].err = @ + 1],
                                       [ZeroBuf EXCEPT !.err = prior + 1])])

\* psDynBufSubInitAt(db, sub, at, length).  On failure the code increments
\* sub->err without having set it: prior is what the caller's struct held.
SubInitAt(at, length) ==
    /\ Live /\ Top < MaxDepth
    /\ LET db == bufs[Top]
           a == db.start + at
       IN IF db.err = 0 /\ at + length <= Filled(db)
          THEN Call([heap |-> Fill(heap, a, length),
                     bufs |-> Append(bufs, [buf |-> a, start |-> a, end |-> a,
                                            size |-> length, err |-> 0])])
          ELSE \E prior \in PriorErr :
                 Call([heap |-> heap,
                       bufs |-> Append([bufs EXCEPT ![Top].err = @ + 1],
                                       [ZeroBuf EXCEPT !.err = prior + 1])])

\* psDynBufSubFinish(sub) of the innermost sub-buffer.
SubFinish ==
    /\ Live /\ Top > 1
    /\ Call(SubFinishOp(St, Top))

\* psDynBufBeginConstructedTag(db, sub).
BeginConstructedTag ==
    /\ Live /\ Top < MaxDepth
    /\ \E allocOK \in AllocOutcomes :
         LET r == SubInitOp(St, Top, ConstructedTagSlack, allocOK)
         IN Call(IF r.bufs[Top + 1].err = 0
                 THEN [r EXCEPT !.bufs = ReservePrependOp(@, Top + 1, ConstructedTagHead)]
                 ELSE r)

\* psDynBufEndConstructedTag(sub, tag): prepend the header, then finish.
EndConstructedTag(tag) ==
    /\ Live /\ Top > 1
    /\ \E allocOK \in AllocOutcomes :
         LET len == Filled(bufs[Top])
             r == PrependSizeOp(St, Top, LenOfTagAndLen(len), allocOK)
             w == [heap |-> IF r.loc /= NULL THEN Write(r.heap, r.loc, Header(tag, len))
                            ELSE r.heap,
                   bufs |-> r.bufs]
         IN Call(SubFinishOp(w, Top))

\* Mutant: the copy is handed out but the psBuf_t fields are left
\* pointing into the released allocation.
DetachKeepsFields ==
    /\ Live /\ Top = 1
    /\ \E allocOK \in AllocOutcomes :
         out' = IF bufs[1].err = 0 /\ allocOK
                THEN [ok |-> TRUE, data |-> Bytes(heap, bufs[1].start, bufs[1].end)]
                ELSE NoOut
    /\ heap' = [x \in {} |-> Garbage]
    /\ bufs' = bufs
    /\ phase' = "done"
    /\ ops' = ops + 1

\* psDynBufDetach of the root: a copy of its bytes, or NULL on error.
Detach ==
    /\ Live /\ Top = 1
    /\ \E allocOK \in AllocOutcomes :
         out' = IF bufs[1].err = 0 /\ allocOK
                THEN [ok |-> TRUE, data |-> Bytes(heap, bufs[1].start, bufs[1].end)]
                ELSE NoOut
    /\ heap' = [x \in {} |-> Garbage]
    /\ bufs' = <<ZeroBuf>>
    /\ phase' = "done"
    /\ ops' = ops + 1

\* psDynBufUninit of the root.
Uninit ==
    /\ Live /\ Top = 1
    /\ heap' = [x \in {} |-> Garbage]
    /\ bufs' = <<ZeroBuf>>
    /\ phase' = "done"
    /\ ops' = ops + 1
    /\ UNCHANGED out

\* The call budget is spent: the model stops here.
BoundReached == ops = MaxOps /\ UNCHANGED vars

Init ==
    /\ heap = [x \in {} |-> Garbage]
    /\ bufs = <<ZeroBuf>>
    /\ phase = "idle"
    /\ out = NoOut
    /\ ops = 0

Next ==
    \/ \E c \in InitCaps : DynBufInit(c)
    \/ \E sz \in Sizes : AppendSize(sz) \/ PrependSize(sz) \/ ReservePrepend(sz)
    \/ \E ch \in Codepoints : AppendUtf8(ch)
    \/ \E tag \in Tags, len \in TagLens : AppendAsn1TagGen(tag, len)
    \/ \E c \in SubCaps : SubInit(c)
    \/ \E at \in SubAtOffsets, len \in SubAtLengths : SubInitAt(at, len)
    \/ SubFinish
    \/ BeginConstructedTag
    \/ \E tag \in Tags : EndConstructedTag(tag)
    \/ Detach
    \/ Uninit
    \/ BoundReached

Spec == Init /\ [][Next]_vars

(***************************************************************************)
(* Properties.                                                             *)
(***************************************************************************)
Buf == [buf : Int, start : Int, end : Int, size : Nat, err : Int]

\* A pointer field is NULL or an offset into (or one past) the allocation.
Ptr == {NULL} \cup 0..Cardinality(DOMAIN heap)

TypeOK ==
    /\ DOMAIN heap = 0..(Cardinality(DOMAIN heap) - 1)
    /\ \A x \in DOMAIN heap : heap[x] \in Int
    /\ bufs \in Seq(Buf) /\ Len(bufs) \in 1..MaxDepth
    /\ \A i \in 1..Len(bufs) : {bufs[i].buf, bufs[i].start, bufs[i].end} \subseteq Ptr
    /\ phase \in {"idle", "live", "done"}
    /\ out \in [ok : BOOLEAN, data : Seq(Int)]
    /\ ops \in 0..MaxOps

\* The layout the code asserts in assert_subbuf, and the psBuf_t
\* invariant buf <= start <= end <= buf + size: the root lies within its
\* allocation, and every error-free sub-buffer lies within the filled span
\* [start, end] of its master, so that it never overlaps bytes its master
\* does not own.  Growth of a nested sub-buffer recomputes all of these.
Layout ==
    phase = "live" =>
      /\ bufs[1].err = 0 =>
           /\ 0 <= bufs[1].start /\ bufs[1].start <= bufs[1].end
           /\ bufs[1].end <= bufs[1].size /\ DOMAIN heap = 0..(bufs[1].size - 1)
      /\ \A i \in 2..Top :
           LET b == bufs[i]  m == bufs[i - 1]
           IN b.err = 0 =>
                /\ b.buf <= b.start /\ b.start <= b.end /\ b.end <= b.buf + b.size
                /\ m.start <= b.buf /\ b.buf + b.size <= m.end

\* The sticky error of the spec: once a buffer's err is non-zero, every
\* later write to it (append, prepend, UTF-8, tag, sub-buffer claims) is a
\* no-op that reports failure, so its cursors never move again while it
\* is open.
StickyError ==
    [][(phase = "live" /\ phase' = "live") =>
         \A i \in 1..Top :
           (i <= Len(bufs') /\ bufs[i].err /= 0) =>
             bufs'[i].start = bufs[i].start /\ bufs'[i].end = bufs[i].end]_vars

\* The refinement mapping: a failed level carries no content; a healthy
\* one is read from memory between its cursors, around its open child.
Bad(i) == bufs[i].err /= 0
Region(i) == IF Bad(i) THEN <<>> ELSE Bytes(heap, bufs[i].start, bufs[i].end)
Before(i) == IF Bad(i) THEN <<>> ELSE Bytes(heap, bufs[i].start, bufs[i + 1].buf)
After(i) == IF Bad(i) THEN <<>>
            ELSE Bytes(heap, bufs[i + 1].buf + bufs[i + 1].size, bufs[i].end)

Tree == INSTANCE DynBufTree WITH
          aphase <- phase,
          atop <- IF phase = "live" THEN Region(Top) ELSE <<>>,
          apre <- [i \in 1..(Top - 1) |-> Before(i)],
          apost <- [i \in 1..(Top - 1) |-> After(i)],
          abad <- IF phase = "live" THEN [i \in 1..Top |-> Bad(i)] ELSE <<FALSE>>,
          aout <- out

\* Whatever the growth, shifting and compaction in memory, the content of
\* every open buffer evolves as DynBufTree says: writes only add bytes at
\* the innermost buffer's ends, every outer buffer keeps its bytes around
\* the open child, errors are sticky and reach the parent at
\* psDynBufSubFinish, and a finished child leaves its parent with exactly
\* its bytes (and header), no gap and no stale byte.
Refinement == Tree!Spec
=============================================================================
