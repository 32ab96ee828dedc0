---------------------------- MODULE DvbDescriptors ----------------------------
(***************************************************************************)
(* The descriptors of ETSI EN 300 468 and of SCTE 35, tags 64 to 138: for  *)
(* each one what its generator writes and what its decoder reads.          *)
(***************************************************************************)
EXTENDS DescriptorBytes

DecodeNetworkNameDr(d) ==
  CanDecodeAsDescriptor(d, 64, TRUE, [name |-> Remainder(d, 0)])

GenNetworkNameDr(v) == NewDescriptor(64, Len(v.name), <<<<0, v.name>>>>)

DecodeServiceListDr(d) ==
  CanDecodeAsDescriptor(d, 65, d.length >= 1 /\ d.length % 3 = 0 /\ d.length \div 3 <= 63,
    [service |-> [i \in 1..d.length \div 3 |->
       [service_id |-> U16(d, 3 * i - 3), service_type |-> Byte(d, 3 * i - 1)]]])

\* The tag it gives is the one of a list of channel numbers.
GenServiceListDr(v) ==
  IF Len(v.service) > 63 THEN NULL
  ELSE NewDescriptor(131, Len(v.service) * 3,
         [i \in DOMAIN v.service |->
            <<3 * i - 3, Append(Two(v.service[i].service_id), v.service[i].service_type)>>])

DecodeStuffingDr(d) ==
  CanDecodeAsDescriptor(d, 66, TRUE, [stuffing |-> Remainder(d, 0)])

GenStuffingDr(v) == NewDescriptor(66, Len(v.stuffing), <<<<0, v.stuffing>>>>)

DecodeSatDelivSysDr(d) ==
  CanDecodeAsDescriptor(d, 67, TRUE,
    [frequency |-> Text(d, 0, 4), orbital_position |-> U16(d, 4),
     west_east_flag |-> Bits(Byte(d, 6), 7, 1), polarization |-> Bits(Byte(d, 6), 5, 2),
     roll_off |-> Bits(Byte(d, 6), 3, 2), modulation_system |-> Bits(Byte(d, 6), 2, 1),
     modulation_type |-> Bits(Byte(d, 6), 0, 2),
     symbol_rate |-> U16(d, 7) * 4096 + Byte(d, 9) * 16 + Bits(Byte(d, 10), 4, 4),
     fec_inner |-> Low(Byte(d, 10), 4)])

SymbolRate(rate, fec_inner) ==
  <<Bits(rate, 20, 8), Bits(rate, 12, 8), Bits(rate, 4, 8), Low(rate, 4) * 16 + Low(fec_inner, 4)>>

GenSatDelivSysDr(v) ==
  NewDescriptor(67, 11, <<<<0, v.frequency \o Two(v.orbital_position)
    \o <<Low(v.west_east_flag, 1) * 128 + Low(v.polarization, 2) * 32 + Low(v.roll_off, 2) * 8
         + Low(v.modulation_system, 1) * 4 + Low(v.modulation_type, 2)>>
    \o SymbolRate(v.symbol_rate, v.fec_inner)>>>>)

DecodeCableDelivSysDr(d) ==
  CanDecodeAsDescriptor(d, 68, TRUE,
    [frequency |-> Text(d, 0, 4), fec_outer |-> Low(Byte(d, 5), 4), modulation |-> Byte(d, 6),
     symbol_rate |-> U16(d, 7) * 4096 + Byte(d, 9) * 16 + Bits(Byte(d, 10), 4, 4),
     fec_inner |-> Low(Byte(d, 10), 4)])

\* The fifth byte is left as it is.
GenCableDelivSysDr(v) ==
  NewDescriptor(68, 11, <<<<0, v.frequency>>, <<5, <<Low(v.fec_outer, 4), v.modulation>>
    \o SymbolRate(v.symbol_rate, v.fec_inner)>>>>)

HasLines(service) == service \in 1..7

\* Services are read three bytes apart, whatever the number of their lines.
DecodeVBIDataDr(d) ==
  CanDecodeAsDescriptor(d, 69, d.length >= 3 /\ d.length % 2 = 0,
    [services |-> [i \in 1..AtMost(d.length \div 2, 85) |->
       LET at == 3 * (i - 1) IN
       [data_service_id |-> Byte(d, at + 2),
        lines |-> [n \in 1..Byte(d, at + 3) |->
                     IF HasLines(Byte(d, at + 2))
                     THEN [parity |-> Bits(Byte(d, at + 2 + n), 5, 1),
                           line_offset |-> Low(Byte(d, at + 2 + n), 5)]
                     ELSE NULL]]]])

GenVBIDataDr(v) ==
  LET services == Cap(v.services, 85)
      Written(i) ==
        LET s == services[i] IN
        <<<<5 * i - 2, <<s.data_service_id>>>>, <<5 * i - 1, <<Len(s.lines)>>>>>>
        \o [n \in DOMAIN s.lines |->
              IF HasLines(s.data_service_id)
              THEN <<5 * i - 2 + n, <<Low(s.lines[n].line_offset, 5)>>>>
              ELSE <<5 * i - 3 + n, <<255>>>>]
  IN NewDescriptor(69, Len(services) * 5, FlattenSeq([i \in DOMAIN services |-> Written(i)]))

DecodeBouquetNameDr(d) ==
  CanDecodeAsDescriptor(d, 71, TRUE, [char |-> Remainder(d, 0)])

GenBouquetNameDr(v) == NewDescriptor(71, Len(v.char), <<<<0, v.char>>>>)

\* A name that does not fit leaves the ones read so far.
DecodeServiceDr(d) ==
  LET provider == AtMost(Byte(d, 1), 252)
      name == AtMost(Byte(d, 2 + provider), 252)
  IN CanDecodeAsDescriptor(d, 72, d.length >= 3,
       [service_type |-> Byte(d, 0),
        service_provider_name |->
          IF provider + 2 > d.length THEN NULL ELSE Text(d, 2, provider),
        service_name |->
          IF provider + 3 > d.length THEN <<>>
          ELSE IF provider + 3 + name > d.length THEN NULL
          ELSE Text(d, 3 + provider, name)])

GenServiceDr(v) ==
  LET provider == Cap(v.service_provider_name, 252)
      name == Cap(v.service_name, 252)
  IN NewDescriptor(72, 3 + Len(name) + Len(provider),
       <<<<0, <<v.service_type, Len(provider)>> \o provider \o <<Len(name)>> \o name>>>>)

DecodeCountryAvailability(d) ==
  CanDecodeAsDescriptor(d, 73,
    d.length >= 1 /\ (d.length - 1) % 3 = 0 /\ (d.length - 1) \div 3 <= 83,
    [country_availability |-> Bit(Byte(d, 0), 7),
     code |-> [i \in 1..(d.length - 1) \div 3 |-> Text(d, 3 * i - 2, 3)]])

GenCountryAvailabilityDr(v) ==
  IF Len(v.code) > 83 THEN NULL
  ELSE NewDescriptor(131, 1 + Len(v.code) * 3,
         <<<<0, <<Flag(v.country_availability, 7)>> \o FlattenSeq(v.code)>>>>)

Handover == 8
EventLinkage == 13

\* The precedence of >> makes the handover type the low bits of its byte.
DecodeLinkageDr(d) ==
  LET type == Byte(d, 6)
      handover == IF type = Handover THEN Low(Byte(d, 7), 4) ELSE 0
      origin == IF type = Handover THEN Low(Byte(d, 7), 1) ELSE 0
      network == handover \in 1..3
      limit == IF type = Handover
               THEN IF ~network THEN 255 ELSE IF origin = 0 THEN 243 ELSE 245
               ELSE IF type = EventLinkage THEN 245 ELSE 248
      service == IF network THEN 10 ELSE 8
      i == IF type = EventLinkage THEN 10
           ELSE IF type = Handover /\ origin = 0 THEN service + 2
           ELSE IF network THEN 10 ELSE 7
  IN CanDecodeAsDescriptor(d, 74, d.length <= limit,
       [transport_stream_id |-> U16(d, 0), original_network_id |-> U16(d, 2),
        service_id |-> U16(d, 4), linkage_type |-> type,
        handover_type |-> handover, origin_type |-> origin,
        network_id |-> IF network THEN U16(d, 8) ELSE 0,
        initial_service_id |->
          IF type = Handover /\ origin = 0 THEN U16(d, service) ELSE 0,
        target_event_id |-> IF type = EventLinkage THEN U16(d, 7) ELSE 0,
        target_listed |-> type = EventLinkage /\ Bit(Byte(d, 9), 7),
        event_simulcast |-> type = EventLinkage /\ Bit(Byte(d, 9), 6),
        private_data |-> Text(d, i, AtMost((d.length - i) % 256, 248))])

GenLinkageDr(v) ==
  LET handover == v.linkage_type = Handover
      event == v.linkage_type = EventLinkage
      network == handover /\ v.handover_type \in 1..2
      service == handover /\ v.origin_type = 0
      length == 7 + (IF handover THEN 1 ELSE 0) + (IF network THEN 2 ELSE 0)
                + (IF network /\ service THEN 2 ELSE 0) + (IF event THEN 3 ELSE 0)
      at == IF network THEN 10 ELSE 8
      data == IF service THEN at + 2 ELSE IF network \/ event THEN 10 ELSE 7
  IN IF length + Len(v.private_data) > 255 THEN NULL
     ELSE NewDescriptor(74, length + Len(v.private_data),
       <<<<0, Two(v.transport_stream_id) \o Two(v.original_network_id) \o Two(v.service_id)
              \o <<v.linkage_type>>>>,
         <<7, IF handover THEN <<Low(v.handover_type, 4) * 16 + 14 + Low(v.origin_type, 1)>>
              ELSE <<>>>>,
         <<8, IF network THEN Two(v.network_id) ELSE <<>>>>,
         <<at, IF service THEN Two(v.initial_service_id) ELSE <<>>>>,
         <<7, IF event THEN Two(v.target_event_id)
                \o <<63 + Flag(v.target_listed, 7) + Flag(v.event_simulcast, 6)>> ELSE <<>>>>,
         <<data, v.private_data>>>>)

\* The number of references is the rest of a division that has none.
DecodeNVODReferenceDr(d) ==
  CanDecodeAsDescriptor(d, 75, d.length >= 6 /\ d.length % 6 = 0,
    [nvod_refs |-> [i \in 1..d.length % 6 |->
       [transport_stream_id |-> U16(d, 6 * i - 6), original_network_id |-> U16(d, 6 * i - 4),
        service_id |-> U16(d, 6 * i - 2)]]])

\* The size is taken before the number of references is limited.
GenNVODReferenceDr(v) ==
  LET refs == Cap(v.nvod_refs, 43) IN
  NewDescriptor(75, Len(v.nvod_refs) * 6,
    [i \in DOMAIN refs |-> <<6 * i - 6, Two(refs[i].transport_stream_id)
       \o Two(refs[i].original_network_id) \o Two(refs[i].service_id)>>])

DecodeShortEventDrUnchecked(d) ==
  LET name == Byte(d, 3)
      text == Byte(d, 4 + name)
  IN CanDecodeAsDescriptor(d, 77, d.length >= 5,
       [iso_639_code |-> Text(d, 0, 3), event_name |-> Text(d, 4, name),
        text |-> Text(d, 5 + name, text)])

DecodeShortEventDr(d) ==
  LET name == Byte(d, 3)
      text == Byte(d, 4 + name)
  IN CanDecodeAsDescriptor(d, 77, d.length >= 5 /\ d.length >= 5 + name + text,
       [iso_639_code |-> Text(d, 0, 3), event_name |-> Text(d, 4, name),
        text |-> Text(d, 5 + name, text)])

GenShortEventDr(v) ==
  NewDescriptor(77, 5 + Len(v.event_name) + Len(v.text),
    <<<<0, v.iso_639_code \o <<Len(v.event_name)>> \o v.event_name
           \o <<Len(v.text)>> \o v.text>>>>)

\* One entry of the loop: a description and an item, each behind its length.
ExtendedEventItem(d, s) ==
  LET item == s.at + 1 + Byte(d, s.at) IN
  [at |-> item + 1 + Byte(d, item),
   items |-> Append(s.items, [description |-> Text(d, s.at + 1, Byte(d, s.at)),
                              item |-> Text(d, item + 1, Byte(d, item))])]

DecodeExtendedEventDr(d) ==
  LET end == 5 + Byte(d, 4)
      after[n \in 0..128] ==
        IF n = 0 THEN [at |-> 5, items |-> <<>>]
        ELSE LET s == after[n - 1] IN IF s.at < end THEN ExtendedEventItem(d, s) ELSE s
  IN CanDecodeAsDescriptor(d, 78, d.length >= 6,
       [descriptor_number |-> Bits(Byte(d, 0), 4, 4),
        last_descriptor_number |-> Low(Byte(d, 0), 4), iso_639_code |-> Text(d, 1, 3),
        items |-> after[128].items, text |-> Text(d, end + 1, Byte(d, end))])

\* The items are written from the byte with their length on.
GenExtendedEventDr(v) ==
  LET items == FlattenSeq([i \in DOMAIN v.items |->
                 <<Len(v.items[i].description)>> \o v.items[i].description
                 \o <<Len(v.items[i].item)>> \o v.items[i].item])
  IN NewDescriptor(78, 6 + Len(items) + Len(v.text),
       <<<<0, <<v.descriptor_number * 16 + v.last_descriptor_number>> \o v.iso_639_code
              \o <<Low(Len(items), 8)>>>>,
         <<4, items \o <<Len(v.text)>> \o v.text>>>>)

DecodeTimeShiftedEventDr(d) ==
  CanDecodeAsDescriptor(d, 79, d.length >= 4,
    [ref_service_id |-> U16(d, 0), ref_event_id |-> U16(d, 2)])

GenTimeShiftedEventDr(v) ==
  NewDescriptor(79, 4, <<<<0, Two(v.ref_service_id) \o Two(v.ref_event_id)>>>>)

DecodeComponentDr(d) ==
  CanDecodeAsDescriptor(d, 80, d.length >= 6,
    [stream_content |-> Low(Byte(d, 0), 4), component_type |-> Byte(d, 1),
     component_tag |-> Byte(d, 2), iso_639_code |-> Text(d, 3, 3), text |-> Remainder(d, 6)])

GenComponentDr(v) ==
  NewDescriptor(80, 6 + Len(v.text),
    <<<<0, <<Low(v.stream_content + 240, 8), v.component_type, v.component_tag>>
           \o v.iso_639_code \o v.text>>>>)

DecodeStreamIdentifierDr(d) ==
  CanDecodeAsDescriptor(d, 82, d.length >= 1, [component_tag |-> Byte(d, 0)])

GenStreamIdentifierDr(v) == NewDescriptor(82, 1, <<<<0, <<v.component_tag>>>>>>)

DecodeContentDr(d) ==
  CanDecodeAsDescriptor(d, 84, d.length % 2 = 0,
    [content |-> [i \in 1..AtMost(d.length \div 2, 64) |->
       [type |-> Byte(d, 2 * i - 2), user_byte |-> Byte(d, 2 * i - 1)]]])

\* An entry of two bytes is written every eight bytes.
GenContentDr(v) ==
  LET content == Cap(v.content, 64) IN
  NewDescriptor(84, Len(content) * 2,
    [i \in DOMAIN content |-> <<8 * i - 8, <<content[i].type, content[i].user_byte>>>>])

DecodeParentalRatingDr(d) ==
  CanDecodeAsDescriptor(d, 85, d.length % 4 = 0,
    [parental_rating |-> [i \in 1..AtMost(d.length \div 4, 64) |->
       [country_code |-> Text(d, 4 * i - 4, 3), rating |-> Byte(d, 4 * i - 1)]]])

\* An entry of four bytes is written every eight bytes.
GenParentalRatingDr(v) ==
  LET ratings == Cap(v.parental_rating, 64) IN
  NewDescriptor(85, Len(ratings) * 4,
    [i \in DOMAIN ratings |-> <<8 * i - 8, Append(ratings[i].country_code, ratings[i].rating)>>])

DecodeTeletextDr(d) ==
  IF d.tag \in {70, 86} /\ d.length >= 3 /\ d.length % 5 = 0
  THEN [pages |-> [i \in 1..AtMost(d.length \div 5, 64) |->
          [iso6392_language_code |-> Text(d, 5 * i - 5, 3),
           teletext_type |-> Byte(d, 5 * i - 2) \div 8,
           teletext_magazine_number |-> Low(Byte(d, 5 * i - 2), 3),
           teletext_page_number |-> Byte(d, 5 * i - 1)]]]
  ELSE NULL

\* A page of five bytes takes eight.
GenTeletextDr(v) ==
  LET pages == Cap(v.pages, 64) IN
  NewDescriptor(86, Len(pages) * 8,
    [i \in DOMAIN pages |-> <<8 * i - 8, pages[i].iso6392_language_code
       \o <<Low(pages[i].teletext_type * 8, 8) + Low(pages[i].teletext_magazine_number, 3),
            pages[i].teletext_page_number>>>>])

DecodeLocalTimeOffsetDr(d) ==
  CanDecodeAsDescriptor(d, 88, TRUE,
    [local_time_offset |-> [i \in 1..AtMost(d.length \div 13, 19) |->
       LET at == 13 * (i - 1) IN
       [country_code |-> Text(d, at, 3), country_region_id |-> Bits(Byte(d, at + 3), 2, 6),
        local_time_offset_polarity |-> Bits(Byte(d, at + 3), 0, 1),
        local_time_offset |-> U16(d, at + 4), time_of_change |-> Text(d, at + 6, 5),
        next_time_offset |-> U16(d, at + 11)]]])

GenLocalTimeOffsetDr(v) ==
  LET offsets == Cap(v.local_time_offset, 19) IN
  NewDescriptor(88, Len(offsets) * 13,
    [i \in DOMAIN offsets |->
       LET o == offsets[i] IN
       <<13 * (i - 1), o.country_code
           \o <<Low(o.country_region_id, 6) * 4 + 2 + Low(o.local_time_offset_polarity, 1)>>
           \o Two(o.local_time_offset) \o o.time_of_change \o Two(o.next_time_offset)>>])

DecodeSubtitlingDr(d) ==
  CanDecodeAsDescriptor(d, 89, d.length >= 3 /\ d.length % 8 = 0,
    [subtitle |-> [i \in 1..AtMost(d.length \div 8, 20) |->
       [iso6392_language_code |-> Text(d, 8 * i - 8, 3),
        subtitling_type |-> Byte(d, 8 * i - 5),
        composition_page_id |-> U16(d, 8 * i - 4), ancillary_page_id |-> U16(d, 8 * i - 2)]]])

\* The low byte is taken modulo 255.
PageId(id) == <<Bits(id, 8, 8), id % 255>>

GenSubtitlingDr(v) ==
  LET subtitles == Cap(v.subtitle, 20) IN
  NewDescriptor(89, Len(subtitles) * 8,
    [i \in DOMAIN subtitles |->
       LET s == subtitles[i] IN
       <<8 * i - 8, s.iso6392_language_code \o <<s.subtitling_type>>
                    \o PageId(s.composition_page_id) \o PageId(s.ancillary_page_id)>>])

DecodeTerrDelivSysDr(d) ==
  CanDecodeAsDescriptor(d, 90, TRUE,
    [centre_frequency |-> Text(d, 0, 4), bandwidth |-> Bits(Byte(d, 4), 5, 3),
     priority |-> Bits(Byte(d, 4), 4, 1), time_slice_indicator |-> Bits(Byte(d, 4), 3, 1),
     mpe_fec_indicator |-> Bits(Byte(d, 4), 2, 1),
     constellation |-> Bits(Byte(d, 5), 6, 2), hierarchy_information |-> Bits(Byte(d, 5), 3, 3),
     code_rate_hp_stream |-> Low(Byte(d, 5), 3), code_rate_lp_stream |-> Bits(Byte(d, 6), 5, 3),
     guard_interval |-> Bits(Byte(d, 6), 3, 2), transmission_mode |-> Bits(Byte(d, 6), 1, 2),
     other_frequency_flag |-> Low(Byte(d, 6), 1)])

GenTerrDelivSysDr(v) ==
  NewDescriptor(90, 11, <<<<0, v.centre_frequency \o
    <<Low(v.bandwidth, 3) * 32 + Low(v.priority, 1) * 16 + Low(v.time_slice_indicator, 1) * 8
        + Low(v.mpe_fec_indicator, 1) * 4 + 3,
      Low(v.constellation, 2) * 64 + Low(v.hierarchy_information, 3) * 8
        + Low(v.code_rate_hp_stream, 3),
      Low(v.code_rate_lp_stream, 3) * 32 + Low(v.guard_interval, 2) * 8
        + Low(v.transmission_mode, 2) * 2 + Low(v.other_frequency_flag, 1),
      255, 255, 255, 255>>>>>>)

\* The digits of eight, four bits each.
Bcd8ToUint32(bytes) ==
  FoldLeft(LAMBDA n, b : 100 * n + 10 * Bits(b, 4, 4) + Low(b, 4), 0, bytes)

\* The lists of frequencies and of channels have no generator.
DecodeFrequencyListDr(d) ==
  LET coding == Low(Byte(d, 0), 2) IN
  CanDecodeAsDescriptor(d, 98, (d.length - 1) % 4 = 0,
    [coding_type |-> coding,
     center_frequencies |-> [i \in 1..AtMost((d.length - 1) \div 4, 63) |->
       IF coding \in {1, 2} THEN Bcd8ToUint32(Text(d, 4 * i - 3, 4))
       ELSE Text(d, 4 * i - 3, 4)]])

NewDataBroadcastDr(private) == private > 0

DecodeDataBroadcastIdDr(d) ==
  CanDecodeAsDescriptor(d, 102, d.length >= 2 /\ NewDataBroadcastDr(d.length - 2),
    [data_broadcast_id |-> U16(d, 0), id_selector |-> Remainder(d, 2)])

DecodePDCDr(d) ==
  CanDecodeAsDescriptor(d, 105, d.length = 3,
    [PDC |-> <<Low(Byte(d, 0), 4) * 2 + Byte(d, 1) \div 128, Bits(Byte(d, 1), 3, 4),
               Low(Byte(d, 1), 3) * 4 + Byte(d, 2) \div 64, Low(Byte(d, 2), 6)>>])

GenPDCDr(v) ==
  NewDescriptor(105, 3, <<<<0,
    <<240 + v.PDC[1] \div 2, Low(v.PDC[1] * 128, 8) + v.PDC[2] * 8 + v.PDC[3] \div 4,
      Low(v.PDC[3] * 64, 8) + v.PDC[4]>>>>>>)

DecodeDefaultAuthorityDr(d) ==
  CanDecodeAsDescriptor(d, 115, TRUE, [authority |-> Remainder(d, 0)])

CridEntry(d, s) ==
  LET location == Low(Byte(d, s.at), 2)
      path == AtMost(Byte(d, s.at + 1), 253)
      Entry(value) == Append(s.entries, [type |-> Bits(Byte(d, s.at), 2, 6),
                                         location |-> location, value |-> value])
  IN IF location = 0
     THEN [s EXCEPT !.at = s.at + 2 + path, !.entries = Entry(Text(d, s.at + 2, path))]
     ELSE IF location = 1
     THEN [s EXCEPT !.at = s.at + 3, !.entries = Entry(U16(d, s.at + 1))]
     ELSE [s EXCEPT !.unknown = TRUE]

\* The number of entries the structure holds also limits the bytes that are read.
DecodeContentIdDr(d) ==
  LET after[n \in 0..85] ==
        IF n = 0 THEN [at |-> 0, entries |-> <<>>, unknown |-> FALSE]
        ELSE LET s == after[n - 1] IN
             IF s.unknown \/ s.at >= AtMost(d.length, 85) THEN s ELSE CridEntry(d, s)
  IN CanDecodeAsDescriptor(d, 118, ~after[85].unknown, [entries |-> after[85].entries])

AacProfiles ==
  (16..19) \cup (24..27) \cup (32..33) \cup (40..42) \cup (48..67) \cup (72..77)
  \cup (80..83) \cup (88..91)

aac_profile_and_level_lookup(value) == IF value \in AacProfiles THEN value ELSE 0

aac_profile_and_level_to_hex(profile) ==
  IF profile \in AacProfiles THEN profile ELSE IF profile = 0 THEN 86 ELSE 0

aac_type_lookup(value) ==
  IF value \in 6..63 THEN 6 ELSE IF value \in 75..175 THEN 75
  ELSE IF value \in 176..254 THEN 176 ELSE value

aac_type_to_hex(type) == IF type \in (0..6) \cup (64..75) \cup {176, 255} THEN type ELSE 0

\* The additional information is copied over the pointer to it.
DecodeAACDr(d) ==
  LET type == Bit(Byte(d, 1), 7) /\ d.length > 1
      header == IF type THEN 3 ELSE 2
  IN CanDecodeAsDescriptor(d, 124, d.length # 1,
       [profile_and_level |-> aac_profile_and_level_lookup(Byte(d, 0)), has_type |-> type,
        type |-> IF type THEN aac_type_lookup(Byte(d, 2)) ELSE 0,
        additional_info |-> IF d.length > 1
                            THEN [i \in 1..(d.length - header) % 256 |-> d.rest] ELSE <<>>])

\* And it is not copied into the descriptor.
GenAACDr(v) ==
  LET profile == aac_profile_and_level_to_hex(v.profile_and_level) IN
  IF v.has_type
  THEN NewDescriptor(124, 3 + Len(v.additional_info),
         <<<<0, <<profile, 128, aac_type_to_hex(v.type)>>>>>>)
  ELSE NewDescriptor(124, 1, <<<<0, <<profile>>>>>>)

DecodeLCNDr(d) ==
  CanDecodeAsDescriptor(d, 131, d.length % 4 = 0,
    [entries |-> [i \in 1..AtMost(d.length \div 4, 64) |->
       [service_id |-> U16(d, 4 * i - 4), visible_service_flag |-> Bit(Byte(d, 4 * i - 2), 7),
        logical_channel_number |-> U16(d, 4 * i - 2) % 1024]]])

\* The decoder refuses the one length that the generator gives.
DecodeCUEIDr(d) ==
  CanDecodeAsDescriptor(d, 138, d.length # 1, [cue_stream_type |-> Byte(d, 0)])

GenCUEIDr(v) == NewDescriptor(138, 1, <<<<0, <<v.cue_stream_type>>>>>>)
=============================================================================
