----------------------------- MODULE MCFramFs -----------------------------
(***************************************************************************)
(* FramFs for TLC, and the codec of its rows compared with what it should  *)
(* compute at the edges of its fields.                                     *)
(***************************************************************************)
EXTENDS FramFs, SequencesExt

C == INSTANCE FramCodec

CONSTANTS m1, m2, m3

\* No device; one; two, one more than fit after the first.
FewLists == {<<>>, <<m3>>, <<m2, m1>>}

-----------------------------------------------------------------------------
DeviceRows ==
  {[minute |-> minute, type |-> n, motion_count |-> 255, battery_level |-> b, temperature |-> t,
    mac_indices |-> [i \in 1..n |-> i - 1], rssi_values |-> [i \in 1..n |-> -129 + i]] :
     minute \in {0, 255, 256, 1439, 65535}, n \in {0, 1, 2, 127, 128}, b \in {0, 100},
     t \in {-128, -1, 0, 127}}

SimpleRows == {[minute |-> minute, type |-> type] :
                 minute \in {0, 255, 256, 1439, 65535}, type \in C!RecordTypes}

\* What is encoded is decoded, byte for byte, whatever follows it.
ASSUME DeviceRowsReadBack ==
  \A r \in DeviceRows :
    LET e == C!juxta_framfs_encode_device_record(r, 6 + 2 * r.type)
        d == C!juxta_framfs_decode_device_record(e.bytes \o <<7>>)
    IN  d.ok /\ d.record = r /\ d.size = Len(e.bytes)

\* A buffer one byte short, or one device too many, is refused.
ASSUME WrongSizesRefused ==
  \A r \in DeviceRows :
    /\ ~C!juxta_framfs_encode_device_record(r, 5 + 2 * r.type).ok
    /\ ~C!juxta_framfs_encode_device_record([r EXCEPT !.type = 129], 1000).ok
    /\ LET e == C!juxta_framfs_encode_device_record(r, 1000)
       IN  ~C!juxta_framfs_decode_device_record(Front(e.bytes)).ok

ASSUME SimpleRowsReadBack ==
  \A r \in SimpleRows :
    C!juxta_framfs_decode_simple_record(C!juxta_framfs_encode_simple_record(r)).record = r

\* A file of the rows that juxta-ble appends is walked without losing step: a
\* minute without devices is a row of six bytes, never the simple record of
\* type NO_ACTIVITY, which could not be told from it.
Encoded(r) == IF r \in SimpleRows THEN C!juxta_framfs_encode_simple_record(r)
              ELSE C!juxta_framfs_encode_device_record(r, 1000).bytes
FewRows == {r \in SimpleRows : r.type # 0 /\ r.minute = 256}
             \cup {r \in DeviceRows : r.type \in {0, 1, 128} /\ r.minute = 1439
                                      /\ r.temperature = -1 /\ r.battery_level = 0}

ASSUME FilesReadBack ==
  \A a, b, c \in FewRows :
    C!RowsIn(Encoded(a) \o Encoded(b) \o Encoded(c)) = <<a, b, c>>

\* A burst is decoded with its count and its duration, clamped to 16 bits; the
\* size the decoder returns is one byte less than what was appended.
Bursts == {[unix_timestamp |-> <<1, 2, 3, 4>>, microsecond_offset |-> <<0, 0, 0, 9>>,
            samples |-> [i \in 1..n |-> i % 256], duration_us |-> d, event_type |-> 0,
            peak_positive |-> 0, peak_negative |-> 0] :
              n \in {1, 255, 256, 1000}, d \in {0, 256, 65535, 65536, 100000}}

ASSUME BurstsReadBack ==
  \A e \in Bursts :
    LET bytes == C!juxta_framfs_append_adc_burst_data(e).bytes
        d == C!juxta_framfs_decode_adc_burst_record(bytes)
    IN  /\ bytes = C!juxta_framfs_append_adc_event_data(e).bytes
        /\ d.ok /\ d.size = Len(bytes) - 1
        /\ d.record.data_length = Len(e.samples)
        /\ d.record.duration_us = IF e.duration_us > 65535 THEN 65535 ELSE e.duration_us

\* The table of addresses comes whole whatever the size of the pieces.
ASSUME PiecesMakeTheTable ==
  \A n \in 0..5 : \A length \in 1..16 :
    LET macs == [i \in 1..n |-> <<3 * i, 3 * i + 1, 3 * i + 2>>]
    IN  /\ C!Fetched(macs, 0, length) = [k \in 1..3 * n |-> k + 2]
        /\ C!juxta_framfs_get_mac_table_data_size(macs) = 3 * n

=============================================================================
