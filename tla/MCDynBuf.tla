------------------------------ MODULE MCDynBuf ------------------------------
(***************************************************************************)
(* Model-checking instances of DynBuf.  Sizes are small against            *)
(* PS_DYNBUF_GROW so that growth happens on most writes, at both ends and  *)
(* at two levels of nesting.  NestingNext opens, fills and finishes nested *)
(* sub-buffers with raw appends and prepends; EncodingNext builds DER TLVs *)
(* with the tag and UTF-8 helpers and the constructed-tag pair; DynBufNext *)
(* is a caller free to mix both.                                           *)
(***************************************************************************)
EXTENDS DynBuf

MCCodepoints == {\h41, \h7FF, \h800, \h10000, \h20000}

\* An uninitialised err field of the caller's psDynBuf_t: stack garbage
\* is any int, and -1 is one of the values it can hold.
MCPriorErrGarbage == {0, -1}

NestingNext ==
    \/ \E c \in InitCaps : DynBufInit(c)
    \/ \E sz \in Sizes : AppendSize(sz) \/ PrependSize(sz) \/ ReservePrepend(sz)
    \/ \E c \in SubCaps : SubInit(c)
    \/ \E at \in SubAtOffsets, len \in SubAtLengths : SubInitAt(at, len)
    \/ SubFinish
    \/ Detach
    \/ Uninit
    \/ BoundReached

EncodingNext ==
    \/ \E c \in InitCaps : DynBufInit(c)
    \/ \E ch \in Codepoints : AppendUtf8(ch)
    \/ \E tag \in Tags, len \in TagLens : AppendAsn1TagGen(tag, len)
    \/ BeginConstructedTag
    \/ \E tag \in Tags : EndConstructedTag(tag)
    \/ Detach
    \/ BoundReached

DynBufNext == NestingNext \/ EncodingNext

NestingSpec == Init /\ [][NestingNext]_vars
DynBufSpec == Init /\ [][DynBufNext]_vars
=============================================================================
