---------------------------- MODULE RefTransfer ----------------------------
(***************************************************************************)
(* The Hublink service of the reference firmware (ble_service.c): the      *)
(* gateway's commands, the listing, and the file transfer that sends the   *)
(* next chunk when the last indication is confirmed; with a client that    *)
(* may write, read, confirm and leave at any time.  The handlers run one   *)
(* after the other on the Bluetooth thread.  A byte of a file is its name  *)
(* and its place.                                                          *)
(***************************************************************************)
EXTENDS Integers, Sequences, SequencesExt

CONSTANTS
  Names,        \* files, in the order of their entries: 1..n
  MACIDX,       \* the table of addresses, served as a file
  Mtus,         \* payloads of an indication
  ListRoom,     \* entries that fit in a listing
  Keys,         \* settings a command may name
  MaxLength,    \* bound: bytes of a file
  MaxFaults     \* bound: indications refused by the stack or the peer, FRAM reads that fail

ASSUME TransferAssumption ==
  /\ Names \subseteq Nat \ {0} /\ MACIDX \in Nat \ {0} /\ MACIDX \notin Names
  /\ Mtus \subseteq Nat \ {0}
  /\ ListRoom \in Nat /\ MaxLength \in Nat \ {0} /\ MaxFaults \in Nat

VARIABLES
  lengths,      \* bytes of each file, 0 for one that is absent or still empty
  settings, low,
  current_conn, current_mtu,
  file_transfer_state, file_transfer_active,
  current_transfer_filename, current_transfer_offset, current_transfer_file_size,
  pending,      \* the indication that waits for its confirmation
  asked, got, told, wanted,    \* client: file, bytes, marker; length when it asked
  pushy,        \* history: the client did not wait for the end of a transfer
  faults

files  == <<lengths, settings, low>>
link   == <<current_conn, current_mtu>>
state  == <<file_transfer_state, file_transfer_active, current_transfer_filename,
            current_transfer_offset, current_transfer_file_size>>
client == <<asked, got, told, wanted>>
vars   == <<files, link, state, pending, client, pushy, faults>>

-----------------------------------------------------------------------------
NoName == 0
\* An indication carries bytes, the names of a listing, or a marker.
Data(char, d) == [char |-> char, data |-> d, mark |-> ""]
Mark(char, m) == [char |-> char, data |-> <<>>, mark |-> m]
None == Mark("none", "")
Served == Names \cup {MACIDX}
Lesser(a, b) == IF a < b THEN a ELSE b

Bytes(name, from, n) == [k \in 1..n |-> <<name, from + k>>]

Fault == faults < MaxFaults /\ faults' = faults + 1

\* send_indication: one at a time; nobody looks at what it returns.
send_indication(i) ==
  \/ pending = None /\ pending' = i /\ UNCHANGED faults
  \/ pending # None /\ UNCHANGED <<pending, faults>>
  \/ pending = None /\ Fault /\ UNCHANGED pending

\* generate_file_listing: files in order as far as they fit, then the table.
Listing ==
  LET all == SetToSortSeq({n \in Names : lengths[n] > 0}, <)
  IN  SubSeq(all, 1, Lesser(Len(all), ListRoom))
      \o (IF lengths[MACIDX] > 0 THEN <<MACIDX>> ELSE <<>>)

\* get_file_transfer_chunk, for a transfer at an offset: what it reads, none
\* at the end or when the file has gone (a failing read is a fault, see there).
Chunk(name, offset, size) ==
  IF offset >= lengths[name] THEN <<>>
  ELSE Bytes(name, offset, Lesser(Lesser(current_mtu, size - offset), lengths[name] - offset))

Ended ==
  /\ file_transfer_active' = FALSE /\ current_transfer_offset' = 0
  /\ current_transfer_file_size' = -1 /\ current_transfer_filename' = NoName
  /\ file_transfer_state' = "IDLE"

\* A client waits when no transfer is active and no indication is out.
Pushes == pushy' = (pushy \/ file_transfer_active \/ pending # None)

-----------------------------------------------------------------------------
Init ==
  /\ lengths \in [Served -> {0, MaxLength - 1}]
  /\ settings = [k \in Keys |-> "default"] /\ low = FALSE
  /\ current_conn = FALSE /\ current_mtu = CHOOSE m \in Mtus : \A n \in Mtus : m <= n
  /\ file_transfer_state = "IDLE" /\ file_transfer_active = FALSE
  /\ current_transfer_filename = NoName /\ current_transfer_offset = 0
  /\ current_transfer_file_size = -1
  /\ pending = None
  /\ asked = NoName /\ got = <<>> /\ told = "" /\ wanted = 0
  /\ pushy = FALSE /\ faults = 0

-----------------------------------------------------------------------------
(* The connection. *)

juxta_ble_connection_established ==
  /\ ~current_conn /\ current_conn' = TRUE /\ current_mtu' \in Mtus
  /\ file_transfer_state' = "IDLE" /\ pending' = None
  /\ asked' = NoName /\ got' = <<>> /\ told' = "" /\ wanted' = 0 /\ pushy' = FALSE
  /\ UNCHANGED <<files, file_transfer_active, current_transfer_filename,
                 current_transfer_offset, current_transfer_file_size, faults>>

\* The stack first fails the indication that is out.
juxta_ble_connection_terminated ==
  /\ current_conn /\ current_conn' = FALSE
  /\ current_mtu' = CHOOSE m \in Mtus : \A n \in Mtus : m <= n
  /\ Ended /\ pending' = None
  /\ asked' = NoName /\ got' = <<>> /\ told' = "" /\ wanted' = 0
  /\ UNCHANGED <<files, pushy, faults>>

-----------------------------------------------------------------------------
(* write_filename_char. *)

WritesList ==
  /\ current_conn /\ Pushes /\ file_transfer_state' = "LISTING_REQUESTED"
  /\ send_indication(Data("filename", Listing))
  /\ asked' = NoName /\ got' = <<>> /\ told' = "" /\ wanted' = 0
  /\ UNCHANGED <<files, link, file_transfer_active, current_transfer_filename,
                 current_transfer_offset, current_transfer_file_size>>

\* start_file_transfer and the first chunk; the offset moves on whether the
\* chunk could be sent or not.
WritesName(name) ==
  /\ current_conn /\ lengths[name] > 0 /\ Pushes
  /\ file_transfer_state' = "TRANSFERRING" /\ file_transfer_active' = TRUE
  /\ current_transfer_filename' = name /\ current_transfer_file_size' = lengths[name]
  /\ LET chunk == Chunk(name, 0, lengths[name])
     IN  current_transfer_offset' = Len(chunk) /\ send_indication(Data("file_transfer", chunk))
  /\ asked' = name /\ got' = <<>> /\ told' = "" /\ wanted' = lengths[name]
  /\ UNCHANGED <<files, link>>

\* A transfer that is active stays so, in a state that sends nothing more.
WritesUnknown(name) ==
  /\ current_conn /\ lengths[name] = 0 /\ Pushes
  /\ file_transfer_state' = "ERROR" /\ send_indication(Mark("filename", "NFF"))
  /\ asked' = name /\ got' = <<>> /\ told' = "" /\ wanted' = 0
  /\ UNCHANGED <<files, link, file_transfer_active, current_transfer_filename,
                 current_transfer_offset, current_transfer_file_size>>

\* The entry of a file cannot be read: as if there were none.
EntryUnreadable(name) ==
  /\ current_conn /\ lengths[name] > 0 /\ Pushes /\ Fault
  /\ file_transfer_state' = "ERROR"
  /\ pending' = IF pending = None THEN Mark("filename", "NFF") ELSE pending
  /\ asked' = name /\ got' = <<>> /\ told' = "" /\ wanted' = lengths[name]
  /\ UNCHANGED <<files, link, file_transfer_active, current_transfer_filename,
                 current_transfer_offset, current_transfer_file_size>>

\* The first chunk cannot: the transfer is over, with the marker of a full one.
FirstUnreadable(name) ==
  /\ current_conn /\ lengths[name] > 0 /\ Pushes /\ Fault
  /\ pending' = IF pending = None THEN Mark("file_transfer", "EOF") ELSE pending
  /\ Ended
  /\ asked' = name /\ got' = <<>> /\ told' = "" /\ wanted' = lengths[name]
  /\ UNCHANGED <<files, link>>

\* read_file_transfer_char takes the next chunk away from the indications.
ReadsTransfer ==
  LET chunk == Chunk(current_transfer_filename, current_transfer_offset,
                     current_transfer_file_size)
      ends == current_transfer_offset >= current_transfer_file_size
              \/ (current_transfer_filename = MACIDX /\ chunk = <<>>)
  IN  /\ current_conn /\ file_transfer_active /\ Pushes
      /\ IF ends THEN Ended /\ told' = "EOF" /\ UNCHANGED got
         ELSE /\ current_transfer_offset' = current_transfer_offset + Len(chunk)
              /\ got' = got \o chunk
              /\ UNCHANGED <<told, file_transfer_state, file_transfer_active,
                             current_transfer_filename, current_transfer_file_size>>
      /\ UNCHANGED <<files, link, pending, asked, wanted, faults>>

\* ... and returns an error for one that cannot be read.
ReadUnreadable ==
  /\ current_conn /\ file_transfer_active /\ Pushes /\ Fault
  /\ current_transfer_offset < current_transfer_file_size
  /\ UNCHANGED <<files, link, state, pending, client>>

-----------------------------------------------------------------------------
(* Confirmations. *)

FilenameConfirmed(err) ==
  /\ pending.char = "filename" /\ pending' = None
  /\ IF err THEN Fault ELSE UNCHANGED faults
  /\ file_transfer_state' =
       IF err THEN "ERROR"
       ELSE IF file_transfer_state = "LISTING_REQUESTED" THEN "IDLE" ELSE file_transfer_state
  /\ told' = IF ~err /\ pending.mark # "" THEN pending.mark ELSE told
  /\ UNCHANGED <<files, link, file_transfer_active, current_transfer_filename,
                 current_transfer_offset, current_transfer_file_size, asked, got, wanted, pushy>>

\* What the client has when it confirms.
Receives ==
  /\ got' = got \o pending.data
  /\ told' = IF pending.mark # "" THEN pending.mark ELSE told
  /\ UNCHANGED <<asked, wanted>>

TransferFailed ==
  /\ pending.char = "file_transfer" /\ pending' = None /\ Fault
  /\ file_transfer_state' = "ERROR"
  /\ UNCHANGED <<files, link, file_transfer_active, current_transfer_filename,
                 current_transfer_offset, current_transfer_file_size, client, pushy>>

\* Mutant: nothing ends the transfer after its last chunk.
LastConfirmedOnly ==
  /\ pending.char = "file_transfer" /\ pending' = None /\ Receives
  /\ file_transfer_state # "TRANSFERRING"
       \/ current_transfer_offset >= current_transfer_file_size
  /\ UNCHANGED <<files, link, state, pushy, faults>>

\* The last chunk ends the transfer without a word.
LastConfirmed ==
  /\ pending.char = "file_transfer" /\ pending' = None /\ Receives
  /\ IF file_transfer_state = "TRANSFERRING" THEN Ended ELSE UNCHANGED state
  /\ file_transfer_state # "TRANSFERRING"
       \/ current_transfer_offset >= current_transfer_file_size
  /\ UNCHANGED <<files, link, pushy, faults>>

\* Mutant: the offset moves on by one byte more than a payload.
ChunkConfirmedPast ==
  LET chunk == Chunk(current_transfer_filename, current_transfer_offset,
                     current_transfer_file_size)
  IN  /\ pending.char = "file_transfer" /\ file_transfer_state = "TRANSFERRING"
      /\ current_transfer_offset < current_transfer_file_size
      /\ Receives
      /\ IF chunk = <<>> THEN Ended
         ELSE /\ current_transfer_offset' = current_transfer_offset + current_mtu + 1
              /\ UNCHANGED <<file_transfer_state, file_transfer_active,
                             current_transfer_filename, current_transfer_file_size>>
      /\ \/ pending' = (IF chunk = <<>> THEN Mark("file_transfer", "EOF")
                         ELSE Data("file_transfer", chunk))
            /\ UNCHANGED faults
         \/ Fault /\ pending' = None
      /\ UNCHANGED <<files, link, pushy>>

\* A chunk that cannot be read ends the transfer as its last one does.
ChunkUnreadable ==
  /\ pending.char = "file_transfer" /\ file_transfer_state = "TRANSFERRING"
  /\ current_transfer_offset < current_transfer_file_size
  /\ Receives /\ Ended /\ Fault
  /\ pending' = Mark("file_transfer", "EOF")
  /\ UNCHANGED <<files, link, pushy>>

\* continue_file_transfer; a file that has gone is at its end.
ChunkConfirmed ==
  LET chunk == Chunk(current_transfer_filename, current_transfer_offset,
                     current_transfer_file_size)
  IN  /\ pending.char = "file_transfer" /\ file_transfer_state = "TRANSFERRING"
      /\ current_transfer_offset < current_transfer_file_size
      /\ Receives
      /\ IF chunk = <<>> THEN Ended
         ELSE /\ current_transfer_offset' = current_transfer_offset + Len(chunk)
              /\ UNCHANGED <<file_transfer_state, file_transfer_active,
                             current_transfer_filename, current_transfer_file_size>>
      /\ \/ pending' = (IF chunk = <<>> THEN Mark("file_transfer", "EOF")
                         ELSE Data("file_transfer", chunk))
            /\ UNCHANGED faults
         \/ Fault /\ pending' = None
      /\ UNCHANGED <<files, link, pushy>>

-----------------------------------------------------------------------------
(* parse_gateway_command.  A timestamp out of range ends it before anything
   else; the listing goes out before the conflict with clearMemory is seen. *)

Commands == [badtime : BOOLEAN, sendFilenames : BOOLEAN, clearMemory : BOOLEAN,
             set : SUBSET Keys]

Conflict(c) == c.sendFilenames /\ c.clearMemory
Clears(c)   == ~c.badtime /\ c.clearMemory /\ ~c.sendFilenames /\ ~low

\* Settings are saved over those read before the memory was cleared.
Saved(c) == [k \in Keys |-> IF k \in c.set THEN "given" ELSE settings[k]]

WritesGateway(c) ==
  /\ current_conn /\ Pushes
  /\ IF ~c.badtime /\ c.sendFilenames THEN send_indication(Data("filename", Listing))
     ELSE UNCHANGED <<pending, faults>>
  /\ lengths' = IF Clears(c) THEN [n \in Served |-> 0] ELSE lengths
  /\ settings' = IF c.badtime \/ Conflict(c) \/ low THEN settings
                 ELSE IF c.set # {} THEN Saved(c)
                 ELSE IF Clears(c) THEN [k \in Keys |-> "default"] ELSE settings
  /\ UNCHANGED <<low, link, state, client>>

-----------------------------------------------------------------------------
(* The rest of the firmware. *)

\* Rows are appended while nobody is connected.
Grows(name) ==
  /\ ~current_conn /\ lengths[name] < MaxLength
  /\ lengths' = [lengths EXCEPT ![name] = @ + 1]
  /\ UNCHANGED <<settings, low, link, state, pending, client, pushy, faults>>

BatteryChanges ==
  /\ low' = ~low
  /\ UNCHANGED <<lengths, settings, link, state, pending, client, pushy, faults>>

Link == juxta_ble_connection_established \/ juxta_ble_connection_terminated
Requests ==
  \/ WritesList \/ ReadsTransfer
  \/ \E name \in Served : WritesName(name) \/ WritesUnknown(name)
  \/ \E c \in Commands : WritesGateway(c)
Confirms == FilenameConfirmed(FALSE) \/ LastConfirmed \/ ChunkConfirmed
Unreadable ==
  \/ ReadUnreadable \/ ChunkUnreadable
  \/ \E name \in Served : EntryUnreadable(name) \/ FirstUnreadable(name)
Next ==
  \/ Link \/ Requests \/ Confirms \/ FilenameConfirmed(TRUE) \/ TransferFailed \/ Unreadable
  \/ \E name \in Served : Grows(name)
  \/ BatteryChanges

Spec == Init /\ [][Next]_vars

\* A client confirms what it receives, or the stack ends the connection.
FairSpec == Spec /\ WF_vars(Confirms)

-----------------------------------------------------------------------------
(* Properties. *)

TypeOK ==
  /\ lengths \in [Served -> 0..MaxLength] /\ settings \in [Keys -> {"default", "given"}]
  /\ {low, current_conn, file_transfer_active, pushy} \subseteq BOOLEAN
  /\ current_mtu \in Mtus
  /\ file_transfer_state \in {"IDLE", "LISTING_REQUESTED", "TRANSFERRING", "ERROR"}
  /\ current_transfer_filename \in Served \cup {NoName}
  /\ current_transfer_offset \in 0..MaxLength /\ current_transfer_file_size \in -1..MaxLength
  /\ file_transfer_active <=> current_transfer_filename # NoName
  /\ file_transfer_active => current_transfer_offset <= current_transfer_file_size

\* A client that waits for the end of each transfer gets the bytes of the file
\* it asked for, in order and without a gap, whatever fails; and if nothing did,
\* then when the transfer is over it has all there were when it asked, or a
\* marker says that there is no such file.
DownloadIsExact ==
  asked # NoName /\ ~pushy =>
    /\ got = Bytes(asked, 0, Len(got))
    /\ ~file_transfer_active /\ pending = None /\ faults = 0 =>
         Len(got) = wanted /\ (wanted = 0 => told = "NFF")

\* A transfer ends: every chunk brings the next, until the last.
DownloadEnds ==
  file_transfer_active ~> (~file_transfer_active \/ pushy \/ faults > 0)

(* What a comment or a document says and TLC refutes; no run checks it. *)

\* HUBLINK.md:86: End marker: "EOF" when transfer complete.
EndsWithMarker ==
  asked # NoName /\ ~pushy /\ faults = 0 /\ ~file_transfer_active /\ pending = None =>
    told # ""

=============================================================================
