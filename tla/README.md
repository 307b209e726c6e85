# TLA+ models of MatrixSSL's buffers and ASN.1 decoders

This directory holds TLA+ models of two source files of MatrixSSL:

- `src/core/psbuf.c`: the fixed, dynamic and parse buffers, and the small DER writer built on them.
- `src/crypto/keyformat/asn1.c`: the primitive ASN.1/DER decoders and the OID lookup.

Every module is translated from the C code. `PROJECT.json` maps each definition to the lines it models. It also lists the runs, the mutants that show each property can fail, the findings, and the hazards.

## 1. The system

### Parts and how they interact

| Part | Code | State | Operations |
|---|---|---|---|
| Fixed buffer `psBuf_t` | psbuf.c 50-155 | `buf, start, end, size` | Init, Uninit, Detach, FromData, FromStaticData, AsHex, AppendSize, PrependSize, ReservePrepend |
| Dynamic buffer `psDynBuf_t` | psbuf.c 157-451 | a `psBuf_t`, `err`, `master`, `pool` | Init, Uninit, Detach, AppendSize, PrependSize, ReservePrepend, the recursive Grow, SubInit, SubInitAt, SubFinish |
| DER writer | psbuf.c 453-527 | none of its own | len_of_tag_and_len, output_len, AppendAsn1TagGen, Begin/EndConstructedTag, AppendUtf8 |
| Parse buffer `psParseBuf_t` | psbuf.c 529-783 | a `psBuf_t` over static data, `err`, `master` | GetTagLen, TryReadTagSub, ReadTagSub, ReadTagRef, (Try)SkipTag, (Try)SkipBytes, CopyAll, Finish, Cancel |
| ASN.1 decoders | asn1.c 45-351 | only the caller's `*pp` | getAsnLength32, getAsnSequence32, getAsnSet32 and their 16-bit wrappers getAsnLength, getAsnSequence, getAsnSet; getAsnInteger, getAsnEnumerated, getAsnAlgorithmIdentifier |
| OID database | asn1.c 357-509 | none (a static table) | checkAsnOidDatabase, getAsnOID |

How the parts fit together:

- **Dynamic buffers nest.** A sub-buffer (`psDynBufSubInit`, `SubInitAt`) is a window inside its master's filled region.
  - When a sub-buffer needs space, `psDynBufGrow` grows the master recursively. It then memmoves the master's bytes after the window and recomputes the sub's pointers from offsets.
  - `psDynBufSubFinish` compacts the sub's content to the start of its window and closes the gap before the master's tail.
  - Errors are counted in `err`. A failed sub adds its count to its master when it is finished.
- **Parse buffers nest the other way.** A child is a window over one TLV's content. `psParseBufFinish` moves the master past the whole TLV, or raises the master's `err`.
- **The writer and the readers meet on the wire.** A TLV produced by `psDynBufAppendAsn1TagGen` is read back by `psParseBufTryReadTagSub` in psbuf.c and by the asn1.c length decoders. They must agree on every length form.
- **The asn1.c decoders are stateless.** Each takes a cursor and a size, and returns a status, a new cursor and a value. Callers chain them: a SEQUENCE length becomes the size of the next call.

### What is hard here

These are the behaviours a unit test hardly reaches:

- Long call sequences over nested sub-buffers that force recursive growth at several levels.
- malloc failing partway up that recursion.
- Tails moved by two different memmoves.
- Length fields at the short/long form boundary, non-minimal encodings, and truncated inputs.
- Reads one byte past the input.
- Unsigned wrap of `end - p`.
- OIDs with colliding byte sums.

`PROJECT.json` `hazards` lists each one at its line.

## 2. Modules

### DerCodec

Holds the pure encoders as operators:

- `LenOfTagAndLen` is `len_of_tag_and_len`.
- `OutputLen` is `output_len`.
- `Header` is the tag byte followed by the length.
- `Utf8Encode` is the branches of `psDynBufAppendUtf8`.

It is used by DynBuf, DynBufTree, ParseBuf (a reference TLV length) and Asn1 (a canonical length).

### FixedBuf

Models the fixed buffer `psBuf_t` on its own.

- **State.** `b` holds the four fields `[buf, start, end, size]` as addresses of an `AddrBits`-wide address space. `mem` holds the bytes of the block `b` points at, indexed by their offset from `buf`. `out` holds what the call just made returned, and there is a call counter.
- **Pointer arithmetic.** Sums and differences wrap modulo `2^AddrBits` (`Addr`). `PtrLeq(p, n, q)` is the code's `p + n <= q`. When `p + n` passes the top of the address space, this is undefined behaviour, so the build may compare either the wrapped sum or the exact one. The model allows both.
- **Actions.** One per function: `Init`, `Uninit`, `Detach`, `FromData`, `FromStaticData`, `AsHex`, `AppendSize`, `ReservePrepend` and `PrependSize`.
  - psMalloc may fail in every call that allocates.
  - `FromData` and `FromStaticData` may be passed a NULL data pointer.
  - `psBufReservePrepend`'s `assert(start == end)` is the caller's duty, so the action is taken only when it holds.
- **psBufAsHex.** Modelled down to the characters: `SprintfAt` writes the two `%02x` digits (ASCII codes) and a NUL at offset `2i`, and the result is the C string before the first NUL.
- **The caller.** It fills each location an append or prepend returns with one byte value, and writes only to a buffer it created. The ghost `written` records the bytes it put in, in buffer order.

### DynBufTree (abstract specification)

States what the dynamic buffer promises, with no memory or pointers:

- a stack of open buffers, with the root first;
- the bytes of the innermost buffer;
- for each outer buffer, the bytes before and after its open child's span;
- an error flag per buffer.

Its actions are Open, Write, Push, Close, Detach and Release:

- Write adds bytes at the front or back.
- Close splices the child's bytes into the parent's gap. It may put a DER header for those bytes in front of them.
- A failed buffer carries no bytes, and a failed child fails its parent.

### DynBuf

Models the dynamic buffer in detail.

- **State.** `heap` maps an offset to a byte. `bufs` is the stack of open `psDynBuf_t`, each `[buf, start, end, size, err]`. There is also `phase`, the detached result `out`, and a call counter.
- **Actions.** One per API call:
  - `DynBufInit`, `AppendSize`, `PrependSize`, `ReservePrepend`, `AppendUtf8` and `AppendAsn1TagGen`;
  - `SubInit`, `SubInitAt` and `SubFinish`;
  - `BeginConstructedTag` and `EndConstructedTag`;
  - `Detach` and `Uninit`.
- **Calls inside an action.** Each action includes every call it makes, through operators:
  - `Grow` is `psDynBufGrow`, recursive over the masters, with `ShiftTail` its memmove.
  - `AppendSizeOp` and `PrependSizeOp` are the fast path and then the grow.
  - `CompactSub` is the memmoves of `psDynBufSubFinish`.
  - `MarkRooms` is the `memset`s of `assert_subbuf`.
- **Values written.** Caller bytes are unique tokens, so any misplaced byte is visible.
- **Allocation.** Every allocation may fail when `MallocMayFail` is set.
- **The caller.** The modelled caller always works on the innermost open buffer, as the API requires.
- **Refinement.** `DynBuf` is shown to implement `DynBufTree` through `INSTANCE DynBufTree WITH` a mapping:
  - the innermost region maps to `atop`;
  - the bytes of each master before and after its child's window map to `apre` and `apost`;
  - `err /= 0` maps to `abad`.

### ParseBuf

Models the parse buffer.

- **State.** `pbs` is the stack of open parse buffers, each `[buf, start, end, size, err]`, over one static `input`. `oob` records any dereference outside `[start, end)` of the buffer read.
- **Operators.** `GetTagLen` is `psParseBufGetTagLen`. It returns the total length, the header length and the offsets it read.
- **Actions.** Each call is an action; Finish and Cancel act on the innermost child, and Release on the root.
- **CopyAll.** `CopyAll(target, tl)` is `psParseBufCopyAll`:
  - `target` is `"null"` for a size probe or `"mem"` for caller memory;
  - `tl` is `*targetlen` on entry, taken from `Capacities` or from the length the previous probe reported;
  - `copy` holds its arguments and results until the next call. A caller reads them right after the call.

### Asn1

Models the decoders as operators.

- **Decoders.** Each returns `[rc, pp, len, val, arcs, params, reads, ...]`:
  - `GetAsnLength32`, `GetAsnSequence32`, `GetAsnSet32` and `GetAsnValue` (Integer and Enumerated);
  - `GetAsnOID`, `GetAsnAlgorithmIdentifier`, and the RECURSIVE `CheckAsnOidDatabase`.
- **The caller.**
  - At its cursor `pos`, it calls any decoder with any size that stays inside its window `[pos, lim)`.
  - After a non-stream SEQUENCE or SET, it enters the content.
- **16-bit wrappers.** `GetAsnLength`, `GetAsnSequence` and `GetAsnSet` apply `Len16`, the `(uint16_t)(len32 & 0xFFFF)` of the code, to the 32-bit result. They reduce the caller's size to a `uint16_t` first. The Asn1 caller also invokes them.
- **Reads past the input.** They return `beyond`, which is chosen from `GarbageBytes`. Such a read is undefined behaviour, so the byte may be anything the memory holds.
- **`Huge` stands for `(uint32_t)` of a negative difference.**

### DerRoundTrip (composition)

Composes the DER writer with both readers.

- **Writing.** One writer call (`AppendAsn1TagGen(t, n)` or `AppendUtf8(c)`) fills an empty buffer. Only the header bytes are kept in `wire`. The `n` content bytes are symbolic: no reader looks at them, and both readers' `At` yields 0 past `wire`.
- **Reading.**
  - `ReadTagSub` applies `PB!GetTagLen` and `PB!Content` of `PB == INSTANCE ParseBuf WITH input <- wire, pbs <- <<Root>>, ...` to the root `psParseBufFromStaticData` creates.
  - `DecodeLength` applies `AS!GetAsnLength32`, `AS!GetAsnSequence32` and `AS!GetAsnLength` of `AS == INSTANCE Asn1 WITH input <- wire, ...` to the same bytes.
- **Why symbolic content.** It lets the content length reach 2^30 without TLC holding the bytes.

### MC modules

- `MCDynBuf`, `MCFixedBuf`, `MCParseBuf`, `MCAsn1` and `MCDerRoundTrip` give the constants and inputs.
- They also define restricted next-state relations, so each run exercises one group of calls:
  - `NestingNext`, `EncodingNext` and their union `DynBufNext` for DynBuf;
  - `LengthNext` (including the 16-bit wrappers), `ValueNext` (integers and OIDs), `AlgIdNext` and `DerNext` (lengths and OIDs) for Asn1.

## 3. Runs

| Run | Checks | Shows |
|---|---|---|
| dynbuf | TypeOK, Layout, Refinement | Up to 5 calls mixing nested subs, grows, malloc failures, AppendAsn1TagGen, constructed tags and UTF-8 appends keep every open sub inside its master. The whole implements DynBufTree, so every header lands right before its content in the parent. |
| dynbuf_sticky (violation) | StickyError | A write after a failed call still succeeds when it fits (psbuf.c:126/301). |
| dynbuf_subinitat_uninit_err (violation) | Layout | `sub->err++` on an uninitialised sub (psbuf.c:415) can leave a failed sub with err 0. |
| fixedbuf | TypeOK, InsideAllocation, SpanIsWritten, HexDumpExact | Over 8 calls, appends, reserves and prepends of sizes that do not wrap keep `buf <= start <= end <= buf + size`. The span holds exactly the bytes put in, in order, with reserved head room outside it. psBufAsHex prints two lowercase digits per byte. |
| fixedbuf_pointer_wrap (violation) | InsideAllocation | With `sz = (size_t)-1`, `loc + sz` wraps below `bufend` and psBufAppendSize accepts the append: `end` moves below `start` (psbuf.c:126; the same test is at :141 and :149). |
| parsebuf | TypeOK, NoOverread, ChildSpansTlv, CursorAdvance, CopyAllTwoPhase | The parse calls never read outside their buffer. A child is exactly the content of one canonical TLV, and Finish moves the master past exactly that TLV. A copy of the size a probe just reported succeeds and delivers exactly the unread bytes. |
| parsebuf_not_sticky (violation) | StickyParseError | The spec says a parse buffer with `err` set degrades to no-ops, and that the alias child of a failed ReadTagSub "fails gracefully". In the code, ReadTagRef on that child parses the master's SEQUENCE and moves its cursor (psbuf.c:681). |
| asn1_lengths | NoOverread, LengthFits | Length, SEQUENCE and SET decoding, 32-bit and 16-bit, stay in bounds. An accepted definite length fits the size. |
| asn1_values | TypeOK, IntegerRoundTrip, OidLookupExact | INTEGER and ENUMERATED decode to the two's-complement value, including -1, INT32_MIN and 0x7FFFFFFF. OIDs with colliding byte sums resolve to the right entry, and unknown OIDs get OID_NOT_FOUND. |
| der_roundtrip | TagRoundTrip, LengthRoundTrip, Utf8RoundTrip | A header written by AppendAsn1TagGen is read back by TryReadTagSub as a child spanning exactly the content for every content length up to 2^30, and rejected for 2^30 + 1 and more. getAsnLength32 and getAsnSequence32 decode it to the written length. The 16-bit getAsnLength either fails or returns that same length, never a truncated one. Every Unicode scalar value the run passes (surrogates excluded) round-trips through an RFC 3629 reference decoder. |
| asn1_overread (violation) | NoOverread | `02 00` makes getAsnInteger read one byte past its input (asn1.c:305), which TLC reports. An empty SEQUENCE, or one filled by its OID, makes getAsnOID read outside the size (asn1.c:457, :485). |
| asn1_der_only (violation) | AcceptsOnlyDer | getAsnSequence32 accepts `30 81 03`, a non-minimal length, which TLC reports. getAsnOID also skips `05 02 ..` as a NULL parameter (asn1.c:485-503). |

Every property of a passing run has a mutant in `PROJECT.json`: a plausible bug in the mapped code that makes TLC report that property. Examples:

- the skipped tail memmove in Grow;
- the non-minimal check reduced to its first case;
- the two's complement without `+ 1`;
- CopyAll refusing a target of exactly the required length;
- the OID lookup that takes the first entry with a matching sum;
- the `bytes >= 0x83` gate made strict;
- the 16-bit wrapper without its `uint16_t` size conversion;
- the UTF-8 two-byte branch ending at 0x7FE.

### Bounds and why they suffice

**DynBuf.**
- Settings: `GROW = 2`, initial capacities 0 and 2, writes of 1 and 3 bytes, sub capacities of 1, depth 3, and 5 calls of a caller that mixes every call. Going to 6 calls takes more than 3 million states.
- Five calls still reach `Init`, `SubInit`, `SubInit`, a write that grows both masters, and a `SubFinish`. Every DynBuf mutant is reported within that depth.
- Why they suffice:
  - A write of 3 into a buffer of 2 forces a grow, and a write into a depth-3 sub grows both masters.
  - Calls before opening a sub give each master a tail to move.
  - `PS_DYNBUF_GROW` (a few hundred in the build) is lowered to 2. The grow logic only compares sizes with it.

**FixedBuf.**
- Settings: a 5-bit address space, with heap blocks at 8 and static data at 24, so `(size_t)-1` is 31. Capacities are 0, 2 and 5; sizes 0, 1 and 2; data `<<>>` and `0F A0`; the caller writes bytes 0x0F and 0xA0. The run makes 8 calls.
- Why they suffice:
  - A 5-byte block takes a reserve, prepends into the reserved room and appends after it.
  - Capacity 0 and empty data give a live buffer of size 0.
  - 0x0F is the byte for which unpadded hex would differ.
  - The wrap run only adds the size 31.

**ParseBuf.**
- Inputs: a nested SEQUENCE, a long-form `81 80` length, a rejected non-minimal `81 05`, and two truncated inputs. Depth is 4, with 9 calls.
- CopyAll capacities: 2 and the probed length, so a copy fails (targets smaller than the span), succeeds with room to spare, and succeeds with exactly the probed size.
- parsebuf_not_sticky needs only 3 calls.
- Why they suffice: the long-form inputs have more than 0x83 bytes, so the `bytes < 0x83` gate is passed and not only hit.

**Asn1.**
- Settings: inputs of 2-16 bytes chosen per run, and 2-3 calls with every size from 0 to the window. The OID table has one identifier alone on its byte sum, two identifiers sharing a sum, and an unknown OID with that same sum.
- `GarbageBytes = {0, 0x80}`, so a read past the end can both match and miss a tag, and set or clear a sign.

**DerRoundTrip.**
- Content lengths: 0 to 300, then each side of 2^16, 2^24 and 2^30, and 2147483641. The last is the largest for which header + content still fits TLC's 32-bit integers.
- Characters: 0 to 0x900, the edges 0xD7FF, 0xE000, 0xFFFD, 0xFFFF, 0x10000, 0x1FFFF, and 0x20000, which is rejected.
- Why they suffice: every form of `output_len` and every branch of `psDynBufAppendUtf8` is used on both sides of its boundary. The ceiling `PS_PARSE_MAXIMUM_TAG_CONTENT` is used at, below and above its value.
- Surrogates 0xD800-0xDFFF are left out. The code encodes them as ill-formed UTF-8, but the spec makes a scalar value the caller's input (see the hazards).

### Fairness

No liveness property is checked. The code is single-threaded and library-driven: every call returns, and nothing must eventually happen without the caller doing it. The only loops are bounded by their input: the Grow recursion by the nesting depth, and the OID probe by the table. Their termination is implied by TLC evaluating the operators.

## 4. Not modelled

| Part | Why |
|---|---|
| `psParseBufEq`, `psParseBufCheckState`, `psBufEq` | They compare without changing any buffer's state. `psBufEq` is defined outside `src/`. `psParseBufCheckState` is `err = 0`, the return value of Finish, which no property reads. |
| `len * 2 + 1` in psBufAsHex | It wraps only for a span longer than half the address space, which no live buffer has unless its cursors are already corrupt. |
| Frees and pools | psBufUninit frees unless the pool is `psStaticAllocationsPool`. The caller must pass that pool for FromStaticData buffers. FixedBuf does not track freed blocks, so neither a double free nor a leak from overwriting a live buffer is modelled. |
| `*targetlen` after a successful CopyAll | It keeps the caller's capacity, not the copied length. The model records this, but the spec states no contract for it (a hazard in `PROJECT.json`). |
| Stream-mode lengths of getAsnSequence32 | With `indefinite` set, the length is not checked against the size. This is by design for stream parsers, so no property demands it. NoOverread still bounds every read. |
| The `paramLen` truncation of getAsnAlgorithmIdentifier | It needs 64 KiB of parameters after an OID that the decoder reads byte by byte. The `% 65536` is in the model, but no run reaches it. (The 1 GiB ceiling of `psParseBufGetTagLen` is reached by der_roundtrip.) |
| Lengths of 2^32 and more in `output_len` | They are beyond TLC's integers. The code would write only the low 32 bits (a hazard in `PROJECT.json`). |
| Misuse: two open subs of one master, or writes to a master while a sub is open | The spec says this is undefined. The modelled caller is disciplined. |
| Where psMalloc's blocks live | Only success or failure is modelled. A grown root moves to fresh memory, represented as the same offsets. |

## 5. Plan for further work

1. **DynBuf long-form headers:** `EndConstructedTag` with content of 128 bytes or more, forcing a prepend grow.
2. **Misuse model:** two open children of one master, and writes to a master while a child is open, to see what the code does.
3. **ParseBuf error accounting:** that a failure is visible at the root once every level has finished, unless a level in between was cancelled (needs a ghost record of failures).
4. **Caller models:** chain the Asn1 decoders the way the X.509 and key parsers of MatrixSSL do.
5. **Round trip of nested TLVs:** feed the output of the DynBuf nesting run to ParseBuf's ReadTagSub and Finish.
