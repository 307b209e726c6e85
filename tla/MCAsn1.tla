------------------------------- MODULE MCAsn1 -------------------------------
(***************************************************************************)
(* Seed inputs, an OID table and restricted callers for checking Asn1.    *)
(* Every window size the caller may pass also makes every truncation of  *)
(* a seed an input.                                                        *)
(***************************************************************************)
EXTENDS Asn1

\* Raw arcs.  SHA-256 and AES-128-CBC share the byte sum 414.
Sha1 == <<\h2B, \h0E, \h03, \h02, \h1A>>
Sha256 == <<\h60, \h86, \h48, \h01, \h65, \h03, \h04, \h02, \h01>>
Aes128Cbc == <<\h60, \h86, \h48, \h01, \h65, \h03, \h04, \h01, \h02>>
Unknown414 == <<\h60, \h86, \h48, \h01, \h65, \h03, \h04, \h03, \h00>>

MCOidCollision == 1024
MCOidNotFound == 32768
MCOidTable == (88 :> Sha1) @@ (414 :> Sha256) @@ (1438 :> Aes128Cbc)

\* SEQUENCE/SET framing: definite, SET, indefinite, non-minimal 81 and 82
\* length fields, content shorter than declared.
LengthInputs ==
    { <<\h30, \h06, \h02, \h01, \h05, \h02, \h01, \hFA>>,
      <<\h31, \h03, \h02, \h01, \h05>>,
      <<\h30, \h80, \h02, \h01, \h05, \h00, \h00>>,
      <<\h30, \h81, \h03, \h02, \h01, \h05>>,
      <<\h30, \h82, \h00, \h03, \h02, \h01, \h05>>,
      <<\h30, \h07, \h02, \h01, \h05>> }

\* INTEGER/ENUMERATED: 5 and -6 inside a SEQUENCE, 0, -1, -129, the int32
\* extremes, an empty INTEGER, an ENUMERATED and a 5-byte INTEGER.
IntegerInputs ==
    { <<\h30, \h06, \h02, \h01, \h05, \h02, \h01, \hFA>>,
      <<\h02, \h01, \h00>>, <<\h02, \h01, \hFF>>, <<\h02, \h02, \hFF, \h7F>>,
      <<\h02, \h04, \h7F, \hFF, \hFF, \hFF>>, <<\h02, \h04, \h80, \h00, \h00, \h00>>,
      <<\h02, \h00>>, <<\h0A, \h01, \h03>>,
      <<\h02, \h05, \h00, \h80, \h00, \h00, \h00>> }

AlgId(arcs, params) ==
    <<\h30, 2 + Len(arcs) + Len(params), \h06, Len(arcs)>> \o arcs \o params

\* AlgorithmIdentifiers: with a NULL, with the OID filling the SEQUENCE,
\* the colliding and unknown OIDs, and an empty SEQUENCE.
OidInputs ==
    { AlgId(Sha256, <<\h05, \h00>>), AlgId(Aes128Cbc, <<>>),
      AlgId(Sha1, <<\h05, \h00>>), AlgId(Unknown414, <<>>),
      <<\h30, \h00, \h06, \h01>> }

\* An AlgorithmIdentifier whose OID fills it, as the last bytes of input.
FilledAlgIdInputs == { AlgId(Sha256, <<\h05, \h00>>), AlgId(Aes128Cbc, <<>>) }

\* An empty AlgorithmIdentifier SEQUENCE followed by a truncated OID.
EmptyAlgIdInputs == { <<\h30, \h00, \h06, \h01>> }

\* Both shapes of AlgorithmIdentifier that end where the OID ends.
AlgIdEdgeInputs == FilledAlgIdInputs \cup EmptyAlgIdInputs

\* AlgorithmIdentifier parameters tagged NULL with a non-zero length.
NullParamInputs ==
    { AlgId(Sha256, <<\h05, \h00>>), AlgId(Sha256, <<\h05, \h02, \h01, \h02>>) }

MCGarbage == {\h00, \h80}

LengthNext ==
    \/ \E ind \in BOOLEAN : DecodeLength(ind) \/ DecodeSequence(ind) \/ DecodeSet(ind)
    \/ DecodeLength16 \/ DecodeSequence16 \/ DecodeSet16
    \/ Done

IntegerNext ==
    \/ DecodeSequence(FALSE) \/ DecodeInteger \/ DecodeEnumerated
    \/ Done

OidNext ==
    \/ DecodeSequence(FALSE)
    \/ \E cfp \in BOOLEAN : DecodeOID(cfp)
    \/ DecodeAlgorithmIdentifier
    \/ Done

AlgIdNext == DecodeAlgorithmIdentifier \/ Done

\* Integers and OIDs together: the value decoders and what they return.
ValueInputs == IntegerInputs \cup OidInputs

ValueNext == IntegerNext \/ OidNext

\* Every input on which a decoder is known to read outside its size: the
\* empty INTEGER 02 00 and the AlgorithmIdentifiers ending with their OID.
OverreadInputs == IntegerInputs \cup AlgIdEdgeInputs

LengthSpec == Init /\ [][LengthNext]_vars
IntegerSpec == Init /\ [][IntegerNext]_vars
OidSpec == Init /\ [][OidNext]_vars
\* The framing inputs and the NULL parameters, with the decoders of both.
DerInputs == LengthInputs \cup NullParamInputs

DerNext == LengthNext \/ OidNext

AlgIdSpec == Init /\ [][AlgIdNext]_vars
ValueSpec == Init /\ [][ValueNext]_vars
DerSpec == Init /\ [][DerNext]_vars
=============================================================================
