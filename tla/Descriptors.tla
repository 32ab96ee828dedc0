------------------------------ MODULE Descriptors ------------------------------
(***************************************************************************)
(* A descriptor on its way: the application fills in a structure, its      *)
(* generator writes the bytes, a receiver tries a decoder on them. A       *)
(* receiver also meets descriptors that nobody here has written.           *)
(***************************************************************************)
EXTENDS MpegDescriptors, DvbDescriptors

CONSTANTS
  Contents,   \* for each tag with a generator, the structures the application fills in
  Foreign,    \* descriptors from elsewhere: their tag and their bytes
  Memory      \* what memory may hold where nothing has been written

VARIABLES
  kind, content,  \* the structure, and the tag of the descriptor it is for
  generated,      \* what its generator has made of it
  received,       \* the descriptor at the receiver
  reader,         \* the tag of the decoder that was tried last
  decoded         \* what it made of it

vars == <<kind, content, generated, received, reader, decoded>>

Gen(tag, v) ==
  CASE tag = 2 -> GenVStreamDr(v)
    [] tag = 3 -> GenAStreamDr(v)
    [] tag = 4 -> GenHierarchyDr(v)
    [] tag = 5 -> GenRegistrationDr(v)
    [] tag = 6 -> GenDSAlignmentDr(v)
    [] tag = 7 -> GenTargetBgGridDr(v)
    [] tag = 8 -> GenVWindowDr(v)
    [] tag = 9 -> GenCADr(v)
    [] tag = 10 -> GenISO639Dr(v)
    [] tag = 11 -> GenSystemClockDr(v)
    [] tag = 12 -> GenMxBuffUtilizationDr(v)
    [] tag = 13 -> GenCopyrightDr(v)
    [] tag = 14 -> GenMaxBitrateDr(v)
    [] tag = 15 -> GenPrivateDataDr(v)
    [] tag = 64 -> GenNetworkNameDr(v)
    [] tag = 65 -> GenServiceListDr(v)
    [] tag = 66 -> GenStuffingDr(v)
    [] tag = 67 -> GenSatDelivSysDr(v)
    [] tag = 68 -> GenCableDelivSysDr(v)
    [] tag = 69 -> GenVBIDataDr(v)
    [] tag = 71 -> GenBouquetNameDr(v)
    [] tag = 72 -> GenServiceDr(v)
    [] tag = 73 -> GenCountryAvailabilityDr(v)
    [] tag = 74 -> GenLinkageDr(v)
    [] tag = 75 -> GenNVODReferenceDr(v)
    [] tag = 77 -> GenShortEventDr(v)
    [] tag = 78 -> GenExtendedEventDr(v)
    [] tag = 79 -> GenTimeShiftedEventDr(v)
    [] tag = 80 -> GenComponentDr(v)
    [] tag = 82 -> GenStreamIdentifierDr(v)
    [] tag = 84 -> GenContentDr(v)
    [] tag = 85 -> GenParentalRatingDr(v)
    [] tag = 86 -> GenTeletextDr(v)
    [] tag = 88 -> GenLocalTimeOffsetDr(v)
    [] tag = 89 -> GenSubtitlingDr(v)
    [] tag = 90 -> GenTerrDelivSysDr(v)
    [] tag = 105 -> GenPDCDr(v)
    [] tag = 124 -> GenAACDr(v)
    [] tag = 138 -> GenCUEIDr(v)

Decode(tag, d) ==
  CASE tag = 2 -> DecodeVStreamDr(d)
    [] tag = 3 -> DecodeAStreamDr(d)
    [] tag = 4 -> DecodeHierarchyDr(d)
    [] tag = 5 -> DecodeRegistrationDr(d)
    [] tag = 6 -> DecodeDSAlignmentDr(d)
    [] tag = 7 -> DecodeTargetBgGridDr(d)
    [] tag = 8 -> DecodeVWindowDr(d)
    [] tag = 9 -> DecodeCADr(d)
    [] tag = 10 -> DecodeISO639Dr(d)
    [] tag = 11 -> DecodeSystemClockDr(d)
    [] tag = 12 -> DecodeMxBuffUtilizationDr(d)
    [] tag = 13 -> DecodeCopyrightDr(d)
    [] tag = 14 -> DecodeMaxBitrateDr(d)
    [] tag = 15 -> DecodePrivateDataDr(d)
    [] tag = 19 -> DecodeCarouselIdDr(d)
    [] tag = 20 -> DecodeAssociationTagDr(d)
    [] tag = 64 -> DecodeNetworkNameDr(d)
    [] tag = 65 -> DecodeServiceListDr(d)
    [] tag = 66 -> DecodeStuffingDr(d)
    [] tag = 67 -> DecodeSatDelivSysDr(d)
    [] tag = 68 -> DecodeCableDelivSysDr(d)
    [] tag = 69 -> DecodeVBIDataDr(d)
    [] tag = 71 -> DecodeBouquetNameDr(d)
    [] tag = 72 -> DecodeServiceDr(d)
    [] tag = 73 -> DecodeCountryAvailability(d)
    [] tag = 74 -> DecodeLinkageDr(d)
    [] tag = 75 -> DecodeNVODReferenceDr(d)
    [] tag = 77 -> DecodeShortEventDr(d)
    [] tag = 78 -> DecodeExtendedEventDr(d)
    [] tag = 79 -> DecodeTimeShiftedEventDr(d)
    [] tag = 80 -> DecodeComponentDr(d)
    [] tag = 82 -> DecodeStreamIdentifierDr(d)
    [] tag = 84 -> DecodeContentDr(d)
    [] tag = 85 -> DecodeParentalRatingDr(d)
    [] tag = 86 -> DecodeTeletextDr(d)
    [] tag = 88 -> DecodeLocalTimeOffsetDr(d)
    [] tag = 89 -> DecodeSubtitlingDr(d)
    [] tag = 90 -> DecodeTerrDelivSysDr(d)
    [] tag = 98 -> DecodeFrequencyListDr(d)
    [] tag = 102 -> DecodeDataBroadcastIdDr(d)
    [] tag = 105 -> DecodePDCDr(d)
    [] tag = 115 -> DecodeDefaultAuthorityDr(d)
    [] tag = 118 -> DecodeContentIdDr(d)
    [] tag = 124 -> DecodeAACDr(d)
    [] tag = 131 -> DecodeLCNDr(d)
    [] tag = 138 -> DecodeCUEIDr(d)

Decoders == {2, 3, 4, 5, 6, 7, 8, 9, 10, 11, 12, 13, 14, 15, 19, 20, 64, 65, 66, 67, 68, 69, 71, 72, 73, 74, 75, 77, 78, 79, 80, 82, 84, 85, 86, 88, 89, 90, 98, 102, 105, 115, 118, 124, 131, 138}

Init ==
  /\ \/ \E tag \in DOMAIN Contents : kind = tag /\ content \in Contents[tag] /\ received = NULL
     \/ \E d \in Foreign, rest \in Memory :
          /\ kind = d.tag /\ content = NULL
          /\ received = [tag |-> d.tag, length |-> Len(d.bytes), bytes |-> d.bytes, rest |-> rest]
  /\ generated = NULL /\ reader = NULL /\ decoded = NULL

Generate ==
  /\ content # NULL /\ generated = NULL
  /\ generated' = Gen(kind, content) /\ generated' # NULL
  /\ UNCHANGED <<kind, content, received, reader, decoded>>

Receive ==
  /\ generated # NULL /\ received = NULL
  /\ \E rest \in Memory : received' = Received(generated, rest)
  /\ UNCHANGED <<kind, content, generated, reader, decoded>>

Try(tag) ==
  /\ received # NULL /\ reader = NULL
  /\ reader' = tag /\ decoded' = Decode(tag, received)
  /\ UNCHANGED <<kind, content, generated, received>>

Next == Generate \/ Receive \/ \E tag \in Decoders : Try(tag)

Spec == Init /\ [][Next]_vars
----------------------------------------------------------------------------
(* Properties.                                                             *)

\* The structures that survive. No service list, country availability, VBI data, NVOD
\* reference, extended event, teletext or CUE identifier descriptor does.
Carried(tag, v) ==
  CASE tag = 3 -> v.variable_rate_audio
    [] tag = 10 -> Len(v.code) \in 1..63
    [] tag \in {65, 69, 73, 75, 78, 86, 138} -> FALSE
    [] tag = 72 -> Len(v.service_provider_name) + Len(v.service_name) <= 252
    [] tag = 74 -> /\ v.linkage_type # Handover
                   /\ Len(v.private_data) <= IF v.linkage_type = EventLinkage THEN 235 ELSE 241
    [] tag = 77 -> Len(v.event_name) + Len(v.text) <= 250
    [] tag = 84 -> Len(v.content) <= 1
    [] tag = 85 -> Len(v.parental_rating) <= 1
    [] tag = 89 -> v.subtitle # <<>> /\ \A i \in DOMAIN v.subtitle :
                     /\ v.subtitle[i].composition_page_id < 255
                     /\ v.subtitle[i].ancillary_page_id < 255
    [] tag = 124 -> v.has_type /\ v.additional_info = <<>>
    [] OTHER -> TRUE

\* What the decoder of a descriptor finds in the bytes of its generator is what the
\* application had filled in, up to the largest structures that fit.
RoundTrip ==
  received # NULL /\ content # NULL /\ reader = kind /\ Carried(kind, content) => decoded = content

\* A descriptor is taken for no other: only the decoder of its tag accepts it. The
\* generators of the service list and of the country availability give a wrong tag.
Recognised ==
  decoded # NULL => reader = kind \/ (kind \in {65, 73} /\ reader = 131) \/ {kind, reader} = {70, 86}

\* The structures whose encoding is larger than the size the generator asks for.
Oversized(tag, v) ==
  CASE tag = 10 -> Len(v.code) >= 64
    [] tag = 69 -> \E i \in DOMAIN v.services : Len(v.services[i].lines) > 1
    [] tag = 72 -> Len(v.service_provider_name) + Len(v.service_name) > 252
    [] tag = 74 -> v.linkage_type = Handover
    [] tag = 75 -> Len(v.nvod_refs) > 42
    [] tag = 77 -> Len(v.event_name) + Len(v.text) > 250
    [] tag = 78 -> Len(v.text) > 200
    [] tag = 84 -> Len(v.content) > 1
    [] tag = 85 -> Len(v.parental_rating) > 1
    [] OTHER -> FALSE

\* A generator writes into the memory it asked for.
WritesInside == generated # NULL /\ ~Oversized(kind, content) => Fits(generated)

\* The decoders that do not compare the length with what they read.
Unchecked == {67, 68, 69, 74, 78, 90, 118, 124, 138}

\* What a decoder finds depends on the bytes of the descriptor alone.
ReadsOnlyItsData ==
  received # NULL /\ reader # NULL /\ kind \notin Unchecked =>
    \A rest \in Memory : Decode(reader, [received EXCEPT !.rest = rest]) = decoded
=============================================================================
