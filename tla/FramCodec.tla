----------------------------- MODULE FramCodec -----------------------------
(***************************************************************************)
(* The bytes of the rows that framfs.c appends and of the table of MAC     *)
(* addresses it serves: what is encoded, what the library's own decoders   *)
(* make of it, and how a file of rows is walked.  A failed call is told    *)
(* from a good one by its field ok; texts of errors are left out.          *)
(***************************************************************************)
EXTENDS Integers, Sequences, SequencesExt

Failed == [ok |-> FALSE]

High(x)   == (x \div 256) % 256
Low(x)    == x % 256
Word(bytes, i) == bytes[i] * 256 + bytes[i + 1]
Signed(b) == IF b >= 128 THEN b - 256 ELSE b     \* (int8_t)
Least(a, b) == IF a < b THEN a ELSE b

MaxDevices == 128

-----------------------------------------------------------------------------
(* A minute's row: fixed fields, an index for every device, then an RSSI   *)
(* for every device.  Its type is the number of devices.                   *)

juxta_framfs_encode_device_record(r, buffer_size) ==
  IF buffer_size < 6 + 2 * r.type \/ r.type > MaxDevices THEN Failed
  ELSE [ok |-> TRUE,
        bytes |-> <<High(r.minute), Low(r.minute), r.type, r.motion_count, r.battery_level,
                    Low(r.temperature)>>
                  \o r.mac_indices \o [i \in 1..r.type |-> Low(r.rssi_values[i])]]

juxta_framfs_decode_device_record(b) ==
  IF Len(b) < 6 \/ b[3] > MaxDevices \/ Len(b) < 6 + 2 * b[3] THEN Failed
  ELSE [ok |-> TRUE, size |-> 6 + 2 * b[3],
        record |-> [minute |-> Word(b, 1), type |-> b[3], motion_count |-> b[4],
                    battery_level |-> b[5], temperature |-> Signed(b[6]),
                    mac_indices |-> SubSeq(b, 7, 6 + b[3]),
                    rssi_values |-> [i \in 1..b[3] |-> Signed(b[6 + b[3] + i])]]]

(* Boot, connection, error: a minute and a type. *)

RecordTypes == {0, 241, 242, 245}     \* NO_ACTIVITY, BOOT, CONNECTED, ERROR

juxta_framfs_encode_simple_record(r) == <<High(r.minute), Low(r.minute), r.type>>

juxta_framfs_decode_simple_record(b) ==
  [ok |-> TRUE, size |-> 3, record |-> [minute |-> Word(b, 1), type |-> b[3]]]

-----------------------------------------------------------------------------
(* Samples: 13 bytes of header, then the samples, or two peaks and a       *)
(* reserved byte.  Times are four bytes each and pass through unchanged.   *)

SingleEvent == 2

Clamped(duration_us) == Least(duration_us, 65535)

AdcHeader(e) ==
  e.unix_timestamp \o e.microsecond_offset
    \o <<High(Len(e.samples)), Low(Len(e.samples)), High(Clamped(e.duration_us)),
         Low(Clamped(e.duration_us)), e.event_type>>

TimerBurst == 0

\* A burst without samples is refused; the kind of event is always the same.
juxta_framfs_append_adc_burst_data(e) ==
  IF e.samples = <<>> THEN Failed
  ELSE [ok |-> TRUE, bytes |-> AdcHeader([e EXCEPT !.event_type = TimerBurst]) \o e.samples]

juxta_framfs_append_adc_event_data(e) ==
  IF (e.event_type = SingleEvent) # (e.samples = <<>>) THEN Failed
  ELSE [ok |-> TRUE,
        bytes |-> AdcHeader(e) \o IF e.event_type = SingleEvent
                                  THEN <<e.peak_positive, e.peak_negative, 0>>
                                  ELSE e.samples]

\* The decoder still knows the header of 12 bytes, and refuses a row without
\* samples.
juxta_framfs_decode_adc_burst_record(b) ==
  IF Len(b) < 12 \/ Word(b, 9) = 0 \/ Len(b) < 12 + Word(b, 9) THEN Failed
  ELSE [ok |-> TRUE, size |-> 12 + Word(b, 9),
        record |-> [data_length |-> Word(b, 9), duration_us |-> Word(b, 11)]]

-----------------------------------------------------------------------------
(* The table of addresses as a file: three bytes for each, read in pieces. *)

MacBytes == 3

juxta_framfs_get_mac_table_data_size(macs) == Len(macs) * MacBytes

juxta_framfs_read_mac_table_data(macs, offset, length) ==
  LET n     == Least(length, Len(macs) * MacBytes - offset)     \* bytes_to_read
      first == offset \div MacBytes
      last  == (offset + n - 1) \div MacBytes
      Copy(got, i) ==
        LET at == offset + Len(got) - i * MacBytes              \* entry_offset
        IN  got \o SubSeq(macs[i + 1], at + 1, at + Least(MacBytes - at, n - Len(got)))
  IN  IF offset >= Len(macs) * MacBytes THEN <<>>
      ELSE FoldLeft(Copy, <<>>, [k \in 1..last - first + 1 |-> first + k - 1])

-----------------------------------------------------------------------------
(* References. *)

\* Rows of a file, one after the other, each told by its third byte.
RECURSIVE RowsIn(_)
RowsIn(file) ==
  IF file = <<>> THEN <<>>
  ELSE LET d == IF file[3] <= MaxDevices THEN juxta_framfs_decode_device_record(file)
                ELSE juxta_framfs_decode_simple_record(file)
       IN  IF ~d.ok THEN <<Failed>>
           ELSE <<d.record>> \o RowsIn(SubSeq(file, d.size + 1, Len(file)))

\* The table fetched in pieces of a length, until a piece is empty.
RECURSIVE Fetched(_, _, _)
Fetched(macs, offset, length) ==
  LET piece == juxta_framfs_read_mac_table_data(macs, offset, length)
  IN  IF piece = <<>> THEN <<>> ELSE piece \o Fetched(macs, offset + Len(piece), length)

=============================================================================
