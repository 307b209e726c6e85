--------------------------- MODULE MCDerRoundTrip ---------------------------
(***************************************************************************)
(* Lengths and characters for the DER and UTF-8 round trips: every length *)
(* up to 300 (short form, 81 and 82 forms, the 0x83 gate of              *)
(* psParseBufGetTagLen), the edges of every long form, the 1 GiB ceiling  *)
(* and the largest whose TLV length TLC represents; every character up to 0x900 and the    *)
(* edges of the 3- and 4-byte forms, the ceiling and one above it.       *)
(***************************************************************************)
EXTENDS DerRoundTrip

MCTags == {\h30, \h04}

MCLengths ==
    (0..300) \cup {65535, 65536, 65537, 2^24 - 1, 2^24, 2^24 + 1,
                   2^30 - 1, 2^30, 2^30 + 1, 2147483641}

MCCodepoints ==
    (0..\h900) \cup {\hD7FF, \hE000, \hFFFD, \hFFFF, \h10000, \h1FFFF, \h20000}
=============================================================================
