----------------------------- MODULE MCDescriptors -----------------------------
(* Structures and foreign descriptors at their limits.                     *)
EXTENDS Descriptors

Chars(n) == [i \in 1..n |-> 97 + (i % 3)]
Copies(n, x) == [i \in 1..n |-> x]
Lists(sizes, elements) == {Copies(n, x) : n \in sizes, x \in elements}
                          \cup {<<x, y>> : x \in elements, y \in elements}
Words == {0, 255, 256, 65535}
Quad == {<<0, 0, 0, 0>>, <<255, 1, 2, 128>>}
Code == <<102, 114, 97>>

Boxes == [horizontal_size : {0, 63, 64, 16383}, vertical_size : {0, 4095, 4096, 16383},
          pel_aspect_ratio : {0, 15}]

Delivery == [west_east_flag : {0, 1}, polarization : {0, 3}, roll_off : {0, 2},
             modulation_system : {0, 1}, modulation_type : {0, 3}]

Linkage(type, handover, origin, n, event) ==
  [transport_stream_id |-> 258, original_network_id |-> 515, service_id |-> 772,
   linkage_type |-> type, handover_type |-> IF type = 8 THEN handover ELSE 0,
   origin_type |-> IF type = 8 THEN origin ELSE 0,
   network_id |-> IF type = 8 /\ handover \in 1..3 THEN 1029 ELSE 0,
   initial_service_id |-> IF type = 8 /\ origin = 0 THEN 1286 ELSE 0,
   target_event_id |-> IF type = 13 THEN 1543 ELSE 0,
   target_listed |-> type = 13 /\ event, event_simulcast |-> type = 13 /\ ~event,
   private_data |-> Chars(n)]

Offset(region, polarity) ==
  [country_code |-> Code, country_region_id |-> region, local_time_offset_polarity |-> polarity,
   local_time_offset |-> 258, time_of_change |-> <<1, 2, 3, 4, 5>>, next_time_offset |-> 65535]

Terrestrial(a, b) ==
  [centre_frequency |-> <<1, 2, 3, 4>>, bandwidth |-> a, priority |-> b,
   time_slice_indicator |-> 1 - b, mpe_fec_indicator |-> b, constellation |-> 2 * b + 1,
   hierarchy_information |-> 7 - a, code_rate_hp_stream |-> a, code_rate_lp_stream |-> 7 - a,
   guard_interval |-> 3 - b, transmission_mode |-> 2 * b, other_frequency_flag |-> 1 - b]

VStreams ==
  {[mpeg2 |-> m, multiple_frame_rate |-> a, frame_rate_code |-> f, constrained_parameter |-> ~a,
    still_picture |-> a, profile_level_indication |-> IF m THEN 171 ELSE NULL,
    chroma_format |-> IF m THEN f % 4 ELSE NULL, frame_rate_extension |-> IF m THEN ~a ELSE NULL]
   : m \in BOOLEAN, a \in BOOLEAN, f \in {0, 15}}

Mpeg ==
  2 :> VStreams
  @@ 3 :> [free_format : BOOLEAN, id : {0, 1}, layer : {0, 3}, variable_rate_audio : BOOLEAN]
  @@ 4 :> [h_type : {0, 15}, h_layer_index : {0, 63}, h_embedded_layer : {0, 63}, h_priority : {1, 63}]
  @@ 5 :> [format_identifier : Quad, additional_info : {Chars(n) : n \in {0, 1, 250, 251}}]
  @@ 6 :> [alignment_type : {0, 255}]
  @@ 7 :> Boxes
  @@ 8 :> {[horizontal_offset |-> b.horizontal_size, vertical_offset |-> b.vertical_size,
            window_priority |-> b.pel_aspect_ratio] : b \in Boxes}
  @@ 9 :> [ca_system_id : Words, ca_pid : {0, 256, 8191}, private_data : {Chars(n) : n \in {0, 251}}]
  @@ 10 :> [code : Lists({0, 1, 63, 64}, [iso_639_code : {Code}, audio_type : {0, 3}])]
  @@ 11 :> [external_clock_ref : BOOLEAN, clock_accuracy_integer : {0, 63},
            clock_accuracy_exponent : {0, 7}]
  @@ 12 :> [mdv_valid : BOOLEAN, mx_delay_variation : {0, 255, 256, 32767}, mx_strategy : {0, 7}]
  @@ 13 :> [copyright_identifier : Quad, additional_info : {Chars(n) : n \in {0, 251}}]
  @@ 14 :> [max_bitrate : {0, 65535, 65536, 4194303}]
  @@ 15 :> [private_data : Quad]

Dvb ==
  64 :> [name : {Chars(n) : n \in {0, 1, 255}}]
  @@ 65 :> [service : Lists({1, 63, 64}, [service_id : {1, 65535}, service_type : {1}])]
  @@ 66 :> [stuffing : {Chars(n) : n \in {0, 255}}]
  @@ 67 :> {d @@ [frequency |-> <<1, 23, 69, 103>>, orbital_position |-> 402,
                  symbol_rate |-> r, fec_inner |-> r % 16] :
              d \in Delivery, r \in {0, 268435455}}
  @@ 68 :> [frequency : Quad, fec_outer : {0, 15}, modulation : {0, 255},
            symbol_rate : {0, 4095, 268435455}, fec_inner : {0, 15}]
  @@ 69 :> [services : Lists({1, 2}, [data_service_id : {1, 8},
              lines : {Copies(n, [parity |-> n % 2, line_offset |-> 9]) : n \in {0, 1, 2}}])]
  @@ 71 :> [char : {Chars(n) : n \in {0, 255}}]
  @@ 72 :> {[service_type |-> 1, service_provider_name |-> Chars(n[1]), service_name |-> Chars(n[2])]
              : n \in {<<0, 0>>, <<1, 2>>, <<252, 0>>, <<0, 252>>, <<100, 152>>, <<100, 153>>, <<252, 252>>}}
  @@ 73 :> [country_availability : BOOLEAN, code : {Copies(n, Code) : n \in {0, 1, 83}}]
  @@ 74 :> {Linkage(type, handover, origin, n, event) :
              type \in {1, 8, 13}, handover \in {0, 1, 2, 3, 14}, origin \in {0, 1},
              n \in {0, 2, 235, 241}, event \in BOOLEAN}
  @@ 75 :> [nvod_refs : Lists({1, 42, 43},
              [transport_stream_id : {258}, original_network_id : {3}, service_id : {4, 65535}])]
  @@ 77 :> {[iso_639_code |-> Code, event_name |-> Chars(n[1]), text |-> Chars(n[2])]
              : n \in {<<0, 0>>, <<3, 0>>, <<0, 3>>, <<125, 125>>, <<250, 0>>, <<125, 126>>}}
  @@ 78 :> {[descriptor_number |-> 1, last_descriptor_number |-> 2, iso_639_code |-> Code,
             items |-> Copies(n, [description |-> Chars(2), item |-> Chars(3)]), text |-> Chars(t)]
              : n \in {0, 1, 2}, t \in {0, 4}}
  @@ 79 :> [ref_service_id : Words, ref_event_id : Words]
  @@ 80 :> [stream_content : {0, 15}, component_type : {1, 255}, component_tag : {2},
            iso_639_code : {Code}, text : {Chars(n) : n \in {0, 1, 7, 249}}]
  @@ 82 :> [component_tag : {0, 255}]
  @@ 84 :> [content : {<<>>} \cup Lists({1, 64}, [type : {16}, user_byte : {0, 255}])]
  @@ 85 :> [parental_rating : {<<>>} \cup Lists({1, 64}, [country_code : {Code}, rating : {1, 15}])]
  @@ 86 :> [pages : Lists({1, 5}, [iso6392_language_code : {Code}, teletext_type : {2, 31},
                                  teletext_magazine_number : {7}, teletext_page_number : {136}])]
  @@ 88 :> [local_time_offset : Lists({0, 1, 19}, {Offset(0, 1), Offset(63, 0)})]
  @@ 89 :> [subtitle : Lists({0, 1, 20}, [iso6392_language_code : {Code}, subtitling_type : {16},
              composition_page_id : {0, 254, 255, 512}, ancillary_page_id : {1}])]
  @@ 90 :> {Terrestrial(a, b) : a \in 0..7, b \in {0, 1}}
  @@ 105 :> [PDC : {<<31, 12, 31, 63>>, <<1, 15, 3, 0>>, <<16, 1, 28, 32>>}]
  @@ 124 :> [profile_and_level : {0, 16, 91}, has_type : BOOLEAN, type : {0, 6, 74, 75, 176, 255},
             additional_info : {<<>>, Chars(2)}]
  @@ 138 :> [cue_stream_type : {0, 5}]

MCContents == Mpeg @@ Dvb

MCForeign ==
  {[tag |-> t, bytes |-> [i \in 1..n |-> CASE p = 1 -> 1 [] p = 2 -> i % 256 [] OTHER -> 255]] :
     t \in Decoders \cup {70}, n \in (0..14) \cup {26, 85, 86, 255}, p \in 1..3}
=============================================================================
