----------------------------- MODULE MCFixedBuf -----------------------------
(***************************************************************************)
(* Model-checking instances of FixedBuf in a 5-bit address space: heap    *)
(* blocks at 8, the caller's static data at 24.  (size_t)-1 is 31.        *)
(***************************************************************************)
EXTENDS FixedBuf

MCDatas == {<<>>, <<\h0F, \hA0>>}

\* Sizes that never carry loc + sz past the top of the address space.
MCSizes == {0, 1, 2}

\* Those with (size_t)-1, as a caller computing len - 1 from len 0 passes.
MCWrapSizes == {1, AddrSpace - 1}
====
