--------------------------- MODULE MpegDescriptors ---------------------------
(***************************************************************************)
(* The descriptors of ISO/IEC 13818-1, tags 2 to 20: for each one what its *)
(* generator writes and what its decoder reads.                            *)
(***************************************************************************)
EXTENDS DescriptorBytes

DecodeVStreamDr(d) ==
  LET mpeg2 == Bit(Byte(d, 0), 2) IN
  CanDecodeAsDescriptor(d, 2, d.length = IF mpeg2 THEN 3 ELSE 1,
    [mpeg2 |-> mpeg2,
     multiple_frame_rate |-> Bit(Byte(d, 0), 7), frame_rate_code |-> Bits(Byte(d, 0), 3, 4),
     constrained_parameter |-> Bit(Byte(d, 0), 1), still_picture |-> Bit(Byte(d, 0), 0),
     profile_level_indication |-> IF mpeg2 THEN Byte(d, 1) ELSE NULL,
     chroma_format |-> IF mpeg2 THEN Bits(Byte(d, 2), 6, 2) ELSE NULL,
     frame_rate_extension |-> IF mpeg2 THEN Bit(Byte(d, 2), 5) ELSE NULL])

GenVStreamDr(v) ==
  LET first == Flag(v.multiple_frame_rate, 7) + v.frame_rate_code * 8
               + Flag(v.constrained_parameter, 1) + Flag(v.still_picture, 0)
  IN IF ~v.mpeg2 THEN NewDescriptor(2, 1, <<<<0, <<first>>>>>>)
     ELSE NewDescriptor(2, 3, <<<<0, <<first + 4, v.profile_level_indication,
            31 + v.chroma_format * 64 + Flag(v.frame_rate_extension, 5)>>>>>>)

DecodeAStreamDr(d) ==
  CanDecodeAsDescriptor(d, 3, d.length = 1,
    [free_format |-> Bit(Byte(d, 0), 7), id |-> Bits(Byte(d, 0), 6, 1),
     layer |-> Bits(Byte(d, 0), 4, 2), variable_rate_audio |-> Bit(Byte(d, 0), 3)])

\* The flag is or-ed onto 0x0f, which has its bit already.
GenAStreamDr(v) ==
  NewDescriptor(3, 1, <<<<0, <<15 + Flag(v.free_format, 7) + v.id * 64 + v.layer * 16>>>>>>)

DecodeHierarchyDr(d) ==
  CanDecodeAsDescriptor(d, 4, d.length = 4,
    [h_type |-> Bits(Byte(d, 0), 0, 4), h_layer_index |-> Bits(Byte(d, 1), 0, 6),
     h_embedded_layer |-> Bits(Byte(d, 2), 0, 6), h_priority |-> Bits(Byte(d, 3), 0, 6)])

GenHierarchyDr(v) ==
  NewDescriptor(4, 4, <<<<0, <<240 + v.h_type, 192 + v.h_layer_index,
                               192 + v.h_embedded_layer, 192 + v.h_priority>>>>>>)

DecodeRegistrationDr(d) ==
  CanDecodeAsDescriptor(d, 5, d.length >= 4,
    [format_identifier |-> Text(d, 0, 4), additional_info |-> Cap(Remainder(d, 4), 251)])

GenRegistrationDr(v) ==
  LET info == Cap(v.additional_info, 251) IN
  NewDescriptor(5, Len(info) + 4, <<<<0, v.format_identifier>>, <<4, info>>>>)

DecodeDSAlignmentDr(d) ==
  CanDecodeAsDescriptor(d, 6, d.length = 1, [alignment_type |-> Byte(d, 0)])

GenDSAlignmentDr(v) == NewDescriptor(6, 1, <<<<0, <<v.alignment_type>>>>>>)

DecodeTargetBgGridDr(d) ==
  CanDecodeAsDescriptor(d, 7, d.length = 4,
    [horizontal_size |-> Byte(d, 0) * 64 + Byte(d, 1) \div 4,
     vertical_size |-> Bits(Byte(d, 1), 0, 2) * 4096 + Byte(d, 2) * 16 + Byte(d, 3) \div 16,
     pel_aspect_ratio |-> Byte(d, 3) % 16])

GenTargetBgGridDr(v) ==
  NewDescriptor(7, 4, <<<<0, <<Bits(v.horizontal_size, 6, 8),
    Low(v.horizontal_size * 4, 8) + v.vertical_size \div 4096,
    Bits(v.vertical_size, 4, 8),
    Low(v.vertical_size * 16, 8) + Low(v.pel_aspect_ratio, 4)>>>>>>)

DecodeVWindowDr(d) ==
  CanDecodeAsDescriptor(d, 8, d.length = 4,
    [horizontal_offset |-> Byte(d, 0) * 64 + Byte(d, 1) \div 4,
     vertical_offset |-> Bits(Byte(d, 1), 0, 2) * 4096 + Byte(d, 2) * 16 + Byte(d, 3) \div 16,
     window_priority |-> Byte(d, 3) % 16])

GenVWindowDr(v) ==
  NewDescriptor(8, 4, <<<<0, <<Bits(v.horizontal_offset, 6, 8),
    Low(v.horizontal_offset * 4, 8) + v.vertical_offset \div 4096,
    Bits(v.vertical_offset, 4, 8),
    Low(v.vertical_offset * 16, 8) + Low(v.window_priority, 4)>>>>>>)

DecodeCADr(d) ==
  CanDecodeAsDescriptor(d, 9, d.length >= 4,
    [ca_system_id |-> U16(d, 0), ca_pid |-> U16(d, 2) % 8192,
     private_data |-> Cap(Remainder(d, 4), 251)])

GenCADrShortPid(v) ==
  LET data == Cap(v.private_data, 251) IN
  NewDescriptor(9, Len(data) + 4,
    <<<<0, Two(v.ca_system_id) \o Two(57344 + Low(v.ca_pid, 12))>>, <<4, data>>>>)

GenCADr(v) ==
  LET data == Cap(v.private_data, 251) IN
  NewDescriptor(9, Len(data) + 4,
    <<<<0, Two(v.ca_system_id) \o Two(57344 + Low(v.ca_pid, 13))>>, <<4, data>>>>)

DecodeISO639Dr(d) ==
  CanDecodeAsDescriptor(d, 10, d.length >= 1 /\ d.length % 4 = 0,
    [code |-> [i \in 1..AtMost(d.length \div 4, 64) |->
       [iso_639_code |-> Text(d, 4 * (i - 1), 3), audio_type |-> Byte(d, 4 * i - 1)]]])

\* The 64 codes the structure holds are 256 bytes, one more than a length can say.
GenISO639Dr(v) ==
  LET code == Cap(v.code, 64) IN
  NewDescriptor(10, Len(code) * 4,
    [i \in DOMAIN code |-> <<4 * (i - 1), Append(code[i].iso_639_code, code[i].audio_type)>>])

DecodeSystemClockDr(d) ==
  CanDecodeAsDescriptor(d, 11, d.length = 2,
    [external_clock_ref |-> Bit(Byte(d, 0), 7),
     clock_accuracy_integer |-> Bits(Byte(d, 0), 0, 6),
     clock_accuracy_exponent |-> Bits(Byte(d, 1), 5, 3)])

GenSystemClockDr(v) ==
  NewDescriptor(11, 2, <<<<0,
    <<64 + Low(v.clock_accuracy_integer, 6) + Flag(v.external_clock_ref, 7),
      31 + Low(v.clock_accuracy_exponent * 32, 8)>>>>>>)

DecodeMxBuffUtilizationDr(d) ==
  CanDecodeAsDescriptor(d, 12, d.length = 3,
    [mdv_valid |-> Bit(Byte(d, 0), 7), mx_delay_variation |-> U16(d, 0) % 32768,
     mx_strategy |-> Bits(Byte(d, 2), 5, 3)])

GenMxBuffUtilizationDr(v) ==
  NewDescriptor(12, 3, <<<<0,
    Two(Low(v.mx_delay_variation, 15) + Flag(v.mdv_valid, 15))
      \o <<31 + Low(v.mx_strategy * 32, 8)>>>>>>)

DecodeCopyrightDr(d) ==
  CanDecodeAsDescriptor(d, 13, d.length >= 4,
    [copyright_identifier |-> Text(d, 0, 4), additional_info |-> Cap(Remainder(d, 4), 251)])

GenCopyrightDr(v) ==
  LET info == Cap(v.additional_info, 251) IN
  NewDescriptor(13, Len(info) + 4, <<<<0, v.copyright_identifier>>, <<4, info>>>>)

DecodeMaxBitrateDr(d) ==
  CanDecodeAsDescriptor(d, 14, d.length = 3,
    [max_bitrate |-> Bits(Byte(d, 0), 0, 6) * 65536 + U16(d, 1)])

GenMaxBitrateDr(v) ==
  NewDescriptor(14, 3,
    <<<<0, <<192 + Bits(v.max_bitrate, 16, 6)>> \o Two(v.max_bitrate)>>>>)

DecodePrivateDataDr(d) ==
  CanDecodeAsDescriptor(d, 15, d.length = 4, [private_data |-> Text(d, 0, 4)])

GenPrivateDataDr(v) == NewDescriptor(15, 4, <<<<0, v.private_data>>>>)

\* There is no generator for the next two, and both want private data.
NewCarouselDr(private) == private > 0

DecodeCarouselIdDr(d) ==
  CanDecodeAsDescriptor(d, 19, d.length >= 4 /\ NewCarouselDr(d.length - 4),
    [carousel_id |-> Text(d, 0, 4), private_data |-> Remainder(d, 4)])

NewAssociationTagDr(selector, private) == selector > 0 /\ private > 0

DecodeAssociationTagDr(d) ==
  LET selector == Byte(d, 4)
      private == (d.length - 5 - selector) % 256
  IN CanDecodeAsDescriptor(d, 20,
       d.length >= 5 /\ selector + 5 <= d.length /\ NewAssociationTagDr(selector, private),
       [tag |-> U16(d, 0), use |-> U16(d, 2), selector |-> Text(d, 5, selector),
        private_data |-> Text(d, 5 + selector, private)])
=============================================================================
