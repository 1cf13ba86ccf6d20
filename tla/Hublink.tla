------------------------------ MODULE Hublink ------------------------------
(***************************************************************************)
(* The Hublink GATT service (ble_service.c): a gateway lists the files of  *)
(* the log and fetches one over indications, each sent once the one before *)
(* has been confirmed.                                                     *)
(*                                                                         *)
(* GATT writes, reads and confirmations are handled one after another on   *)
(* the Bluetooth receive thread.  The log changes meanwhile on the system  *)
(* workqueue; each juxta_log_* call holds the log mutex from end to end,   *)
(* so a handler that makes two of them sees two states of the log.         *)
(*                                                                         *)
(* The log is reduced to one type: the frontier of programmed cells, the   *)
(* number of erasures, and the file table.  A cell's content is told apart *)
(* by where it is and after which erasure it was written.                  *)
(***************************************************************************)
EXTENDS Naturals, Sequences

CONSTANTS
  Size,       \* cells of the region
  MaxChunk,   \* cells an indication carries after the MTU exchange, 1 before
  MaxAsks,    \* bound: requests of the gateway
  MaxErases,  \* bound: clearMemory commands
  MaxDay,     \* bound: calendar days
  MaxFaults,  \* bound: indications refused or failed, flash reads failed
  Env         \* what the gateway and the host may do, see Events

\* "overlap" the gateway asks again before it has had the answer
\* "reread"  the gateway reads the filename characteristic at any time
\* "fault"   the flash cannot be read, the host refuses an indication, or
\*           its confirmation reports an error
Events == {"overlap", "reread", "fault"}

ASSUME LinkAssumption == Size \in Nat /\ MaxChunk \in Nat \ {0}
ASSUME BoundAssumption ==
  /\ MaxAsks \in Nat /\ MaxErases \in Nat
  /\ MaxDay \in Nat \ {0} /\ MaxFaults \in Nat
  /\ Env \subseteq Events

VARIABLES
  files,                 \* ctx->files[]
  top,                   \* the first erased cell
  erases,                \* times the region has been erased
  today,                 \* the calendar day
  connected,             \* current_conn is set
  mtu,                   \* cells per indication, from current_mtu
  indication_pending,
  transfer_active, transfer_eof_pending, transfer_entry, transfer_offset,
  listing_tx_active, listing_tx_len, listing_tx_offset,
  filename_listing,      \* the buffer, what older listings left behind included
  starting,              \* write_filename_char is between its two log calls
  air,                   \* the indication that has not been confirmed
  client,                \* what the gateway is doing
  want,                  \* history: the payload of the file when it was found
  wantErases,            \* history: erasures by then
  got,                   \* what the gateway has received of the file
  listWant,              \* history: the listing when it was asked for
  listGot,               \* what the gateway has received of it
  listed,                \* the last complete listing, until the log is erased
  tangled,               \* history: the gateway asked while an indication was out
  asks, faults           \* counters of the bounds

logVars      == <<files, top, erases, today>>
transferVars == <<transfer_active, transfer_eof_pending, transfer_entry, transfer_offset>>
listingVars  == <<listing_tx_active, listing_tx_len, listing_tx_offset, filename_listing>>
linkVars     == <<connected, mtu>>
sendVars     == <<indication_pending, air>>
fetchVars    == <<want, wantErases, got>>
listVars     == <<listWant, listGot, listed>>
clientVars   == <<client, fetchVars, listVars, tangled>>
boundVars    == <<asks, faults>>
vars == <<logVars, linkVars, sendVars, transferVars, listingVars, starting,
          clientVars, boundVars>>

-----------------------------------------------------------------------------
(* The log. *)

Lesser(a, b) == IF a < b THEN a ELSE b

Blank == [at |-> 0, erases |-> 0]
Content(at) == IF at < top THEN [at |-> at, erases |-> erases + 1] ELSE Blank

NoEntry == [name |-> 0, off |-> 0, len |-> 0, active |-> FALSE]

\* juxta_log_transfer_payload_bytes: without the filename line and, when the
\* file is closed, without #EOF.
PayloadLen(e) ==
  IF e.len <= 1 THEN 0 ELSE e.len - 1 - (IF e.active THEN 0 ELSE 1)

\* The n cells of e's payload from offset on.
PayloadCells(e, offset, n) == [i \in 1..n |-> Content(e.off + offset + i)]
Payload(e) == PayloadCells(e, 0, PayloadLen(e))

\* juxta_log_list_files: "name|size;" for each file, then "EOF".
EofToken == [name |-> 0, size |-> 0]
Listing ==
  Append([i \in DOMAIN files |-> [name |-> files[i].name, size |-> PayloadLen(files[i])]],
         EofToken)

FileOfToday == \E i \in DOMAIN files : files[i].name = today

\* Seeded fault: the #EOF is not counted in the closed file's length.
ClosedUncounted(fs) == [i \in DOMAIN fs |-> [fs[i] EXCEPT !.active = FALSE]]

\* The open file gets its #EOF.
Closed(fs) ==
  [i \in DOMAIN fs |->
     IF fs[i].active
     THEN [name |-> fs[i].name, off |-> fs[i].off, len |-> fs[i].len + 1, active |-> FALSE]
     ELSE fs[i]]

\* A row is logged.  The first of a day closes yesterday's file and opens a new
\* one, whose header is programmed where the #EOF went.
LogRow ==
  /\ \/ /\ FileOfToday
        /\ top + 1 <= Size
        /\ files' = [files EXCEPT ![Len(files)].len = @ + 1]
        /\ top' = top + 1
     \/ /\ ~FileOfToday
        /\ top + 3 <= Size
        /\ files' = Append(Closed(files),
                           [name |-> today, off |-> top, len |-> 3, active |-> TRUE])
        /\ top' = top + 3
  /\ UNCHANGED <<erases, today, linkVars, sendVars, transferVars, listingVars, starting,
                 clientVars, boundVars>>

Midnight ==
  /\ today < MaxDay
  /\ today' = today + 1
  /\ UNCHANGED <<files, top, erases, linkVars, sendVars, transferVars, listingVars, starting,
                 clientVars, boundVars>>

\* The deferred clearMemory runs on the system workqueue, connection or not.
ClearMemory ==
  /\ erases < MaxErases
  /\ erases' = erases + 1
  /\ files' = <<>> /\ top' = 0
  /\ listed' = <<>>
  /\ UNCHANGED <<today, linkVars, sendVars, transferVars, listingVars, starting,
                 client, fetchVars, listWant, listGot, tangled, boundVars>>

-----------------------------------------------------------------------------
(* Sending. *)

NoInd == [k |-> "none", data |-> <<>>]
Ind(k, data) == [k |-> k, data |-> data]

HostFault ==
  /\ "fault" \in Env
  /\ faults < MaxFaults
  /\ faults' = faults + 1

\* send_indication with indication_pending = pending: it goes out, ...
Sent(pending, ind) ==
  /\ ~pending
  /\ indication_pending' = TRUE
  /\ air' = ind
  /\ UNCHANGED faults

\* ... or it is refused (-EBUSY, or an error of the host).
NotSent(pending) ==
  /\ indication_pending' = pending
  /\ air' = IF pending THEN air ELSE NoInd

Refused(pending) ==
  /\ NotSent(pending)
  /\ \/ pending /\ UNCHANGED faults
     \/ ~pending /\ HostFault

ChunkLen(left) == Lesser(mtu, left)

StopTransfer == transfer_active' = FALSE /\ transfer_eof_pending' = FALSE

\* continue_file_transfer.
Continue(pending) ==
  LET left  == PayloadLen(transfer_entry) - transfer_offset
      n     == ChunkLen(left)
      Chunk == Ind("file", PayloadCells(transfer_entry, transfer_offset, n))
  IN
  \/ /\ ~transfer_active
     /\ NotSent(pending)
     /\ UNCHANGED <<transferVars, faults>>
  \/ /\ transfer_active /\ left > 0
     /\ Sent(pending, Chunk)
     /\ transfer_offset' = transfer_offset + n
     /\ UNCHANGED <<transfer_active, transfer_eof_pending, transfer_entry>>
  \/ /\ transfer_active /\ left = 0
     /\ Sent(pending, Ind("eof", <<>>))
     /\ transfer_eof_pending' = TRUE
     /\ UNCHANGED <<transfer_active, transfer_entry, transfer_offset>>
  \/ /\ transfer_active
     /\ Refused(pending)
     /\ StopTransfer
     /\ transfer_offset' = transfer_offset + n
     /\ UNCHANGED transfer_entry

\* send_next_listing_chunk, for a listing in buffer of which offset is sent.
SendListing(pending, buffer, len, offset) ==
  LET n == Lesser(mtu, len - offset)
  IN /\ filename_listing' = buffer /\ listing_tx_len' = len
     /\ \/ /\ offset >= len
           /\ NotSent(pending)
           /\ listing_tx_active' = FALSE /\ listing_tx_offset' = offset
           /\ UNCHANGED faults
        \/ /\ offset < len
           /\ Sent(pending, Ind("list", SubSeq(buffer, offset + 1, offset + n)))
           /\ listing_tx_active' = TRUE /\ listing_tx_offset' = offset + n
        \/ /\ offset < len
           /\ Refused(pending)
           /\ listing_tx_active' = FALSE /\ listing_tx_offset' = offset

\* The buffer after juxta_log_list_files has written the listing into it.
Rewritten ==
  Listing \o SubSeq(filename_listing, Len(Listing) + 1, Len(filename_listing))

-----------------------------------------------------------------------------
(* The handlers. *)

\* The gateway makes a request; the receive thread is free to handle it.
Asks ==
  /\ connected /\ ~starting
  /\ "overlap" \in Env \/ client \notin {"file", "list"}
  /\ asks < MaxAsks
  /\ asks' = asks + 1
  /\ tangled' = indication_pending

\* Seeded fault: the offset of the last transfer is kept.
StartTransferNoReset(e) ==
  /\ transfer_entry' = e
  /\ transfer_eof_pending' = FALSE /\ transfer_active' = TRUE
  /\ UNCHANGED transfer_offset

\* start_transfer
StartTransfer(e) ==
  /\ transfer_entry' = e
  /\ transfer_offset' = 0
  /\ transfer_eof_pending' = FALSE /\ transfer_active' = TRUE

\* write_filename_char with the name of a file: its first half ...
WriteFilename ==
  /\ Asks
  /\ \E i \in DOMAIN files :
       /\ StartTransfer(files[i])
       /\ want' = Payload(files[i]) /\ wantErases' = erases
  /\ starting' = TRUE
  /\ client' = "file" /\ got' = <<>>
  /\ listWant' = <<>> /\ listGot' = <<>> /\ UNCHANGED listed
  /\ UNCHANGED <<logVars, linkVars, sendVars, listingVars, faults>>

\* ... and its second.
SendFirst ==
  /\ starting
  /\ starting' = FALSE
  /\ Continue(indication_pending)
  /\ UNCHANGED <<logVars, linkVars, listingVars, clientVars, asks>>

\* write_filename_char with LIST; the gateway command sendFilenames.
WriteList ==
  /\ Asks
  /\ SendListing(indication_pending, Rewritten, Len(Listing), 0)
  /\ client' = "list" /\ listWant' = Listing /\ listGot' = <<>>
  /\ want' = <<>> /\ wantErases' = erases /\ got' = <<>>
  /\ UNCHANGED <<logVars, linkVars, transferVars, starting, listed>>

\* read_filename_char uses the buffer a listing may be sent from.
ReadFilename ==
  /\ "reread" \in Env
  /\ connected /\ ~starting
  /\ asks < MaxAsks
  /\ asks' = asks + 1
  /\ filename_listing' = Rewritten
  /\ tangled' = (tangled \/ listing_tx_active)
  /\ UNCHANGED <<logVars, linkVars, sendVars, transferVars, listing_tx_active,
                 listing_tx_len, listing_tx_offset, starting, client, fetchVars,
                 listVars, faults>>

\* The gateway takes the data of an indication ...
Received ==
  /\ got' = IF air.k = "file" /\ client = "file" THEN got \o air.data ELSE got
  /\ listGot' = IF air.k = "list" /\ client = "list" THEN listGot \o air.data ELSE listGot
  /\ LET complete == client = "list" /\ EofToken \in {listGot'[i] : i \in DOMAIN listGot'}
     IN /\ client' = IF air.k = "eof" /\ client = "file" THEN "fetched"
                     ELSE IF complete THEN "listed" ELSE client
        /\ listed' = IF complete /\ ~tangled /\ wantErases = erases THEN listGot' ELSE listed
  /\ UNCHANGED <<want, wantErases, listWant, tangled>>

\* Seeded fault: the flag is reset too late for the next chunk (-EBUSY).
ConfirmTransferLate ==
  /\ ~starting /\ air.k \in {"file", "eof"}
  /\ Received
  /\ StopTransfer /\ NotSent(FALSE)
  /\ UNCHANGED <<transfer_entry, transfer_offset, faults>>
  /\ UNCHANGED <<logVars, linkVars, listingVars, starting, asks>>

\* ... and confirms it: file_transfer_indication_confirmed.
ConfirmTransfer ==
  /\ ~starting /\ air.k \in {"file", "eof"}
  /\ Received
  /\ \/ /\ transfer_eof_pending
        /\ StopTransfer /\ NotSent(FALSE)
        /\ UNCHANGED <<transfer_entry, transfer_offset, faults>>
     \/ /\ ~transfer_eof_pending
        /\ Continue(FALSE)
  /\ UNCHANGED <<logVars, linkVars, listingVars, starting, asks>>

\* Seeded fault: each slice is cut from a new listing.
ConfirmListingAfresh ==
  /\ ~starting /\ air.k = "list"
  /\ Received
  /\ \/ /\ listing_tx_active
        /\ SendListing(FALSE, Rewritten, Len(Listing), listing_tx_offset)
     \/ /\ ~listing_tx_active
        /\ NotSent(FALSE)
        /\ UNCHANGED <<listingVars, faults>>
  /\ UNCHANGED <<logVars, linkVars, transferVars, starting, asks>>

\* filename_indication_confirmed
ConfirmListing ==
  /\ ~starting /\ air.k = "list"
  /\ Received
  /\ \/ /\ listing_tx_active
        /\ SendListing(FALSE, filename_listing, listing_tx_len, listing_tx_offset)
     \/ /\ ~listing_tx_active
        /\ NotSent(FALSE)
        /\ UNCHANGED <<listingVars, faults>>
  /\ UNCHANGED <<logVars, linkVars, transferVars, starting, asks>>

\* Either confirmation with an error.
IndicationFails ==
  /\ ~starting /\ air.k # "none"
  /\ HostFault
  /\ NotSent(FALSE)
  /\ \/ /\ air.k = "list"
        /\ listing_tx_active' = FALSE /\ listing_tx_len' = 0 /\ listing_tx_offset' = 0
        /\ UNCHANGED <<transferVars, filename_listing>>
     \/ /\ air.k # "list"
        /\ StopTransfer
        /\ UNCHANGED <<transfer_entry, transfer_offset, listingVars>>
  /\ UNCHANGED <<logVars, linkVars, starting, clientVars, asks>>

-----------------------------------------------------------------------------
(* Connections. *)

\* juxta_ble_connection_established
Connect ==
  /\ ~connected
  /\ connected' = TRUE /\ mtu' = 1
  /\ UNCHANGED <<logVars, sendVars, transferVars, listingVars, starting, clientVars,
                 boundVars>>

\* mtu_exchange_cb
MtuExchanged ==
  /\ connected /\ ~starting /\ mtu # MaxChunk
  /\ mtu' = MaxChunk
  /\ UNCHANGED <<logVars, connected, sendVars, transferVars, listingVars, starting,
                 clientVars, boundVars>>

GatewayLeaves ==
  /\ client' = "idle" /\ tangled' = FALSE
  /\ want' = <<>> /\ wantErases' = erases /\ got' = <<>>
  /\ listWant' = <<>> /\ listGot' = <<>> /\ listed' = <<>>

\* Seeded fault: what was out at the disconnect stays pending.
DisconnectKeepingPending ==
  /\ connected /\ ~starting
  /\ connected' = FALSE /\ air' = NoInd
  /\ StopTransfer
  /\ listing_tx_active' = FALSE /\ listing_tx_len' = 0 /\ listing_tx_offset' = 0
  /\ GatewayLeaves
  /\ UNCHANGED <<logVars, mtu, indication_pending, transfer_entry, transfer_offset,
                 filename_listing, starting, boundVars>>

\* The host fails the indication that is out, then juxta_ble_connection_terminated.
Disconnect ==
  /\ connected /\ ~starting
  /\ connected' = FALSE /\ air' = NoInd
  /\ indication_pending' = FALSE
  /\ StopTransfer
  /\ listing_tx_active' = FALSE /\ listing_tx_len' = 0 /\ listing_tx_offset' = 0
  /\ GatewayLeaves
  /\ UNCHANGED <<logVars, mtu, transfer_entry, transfer_offset, filename_listing, starting,
                 boundVars>>

-----------------------------------------------------------------------------
(* The specification. *)

Init ==
  /\ files = <<>> /\ top = 0 /\ erases = 0 /\ today = 1
  /\ connected = FALSE /\ mtu = 1
  /\ indication_pending = FALSE /\ air = NoInd
  /\ transfer_active = FALSE /\ transfer_eof_pending = FALSE
  /\ transfer_entry = NoEntry /\ transfer_offset = 0
  /\ listing_tx_active = FALSE /\ listing_tx_len = 0 /\ listing_tx_offset = 0
  /\ filename_listing = <<>>
  /\ starting = FALSE
  /\ client = "idle" /\ tangled = FALSE
  /\ want = <<>> /\ wantErases = 0 /\ got = <<>>
  /\ listWant = <<>> /\ listGot = <<>> /\ listed = <<>>
  /\ asks = 0 /\ faults = 0

Next ==
  \/ LogRow \/ Midnight \/ ClearMemory
  \/ WriteFilename \/ SendFirst \/ WriteList \/ ReadFilename
  \/ ConfirmTransfer \/ ConfirmListing \/ IndicationFails
  \/ Connect \/ MtuExchanged \/ Disconnect

Spec == Init /\ [][Next]_vars

\* The receive thread runs, and the gateway confirms what it gets.
Answering == SendFirst \/ ConfirmTransfer \/ ConfirmListing
FairSpec == Spec /\ WF_vars(Answering)

-----------------------------------------------------------------------------
(* Properties. *)

\* Type correctness; the offset of a transfer stays inside its file's payload.
Token == [name : Nat, size : Nat]
TypeOK ==
  /\ Len(files) <= MaxDay
  /\ top \in 0..Size /\ erases \in 0..MaxErases /\ today \in 1..MaxDay
  /\ connected \in BOOLEAN /\ mtu \in {1, MaxChunk}
  /\ indication_pending \in BOOLEAN /\ starting \in BOOLEAN /\ tangled \in BOOLEAN
  /\ transfer_active \in BOOLEAN /\ transfer_eof_pending \in BOOLEAN
  /\ transfer_offset \in 0..PayloadLen(transfer_entry)
  /\ listing_tx_active \in BOOLEAN
  /\ listing_tx_offset \in 0..listing_tx_len
  /\ filename_listing \in Seq(Token) /\ listing_tx_len <= Len(filename_listing)
  /\ air.k \in {"none", "file", "eof", "list"}
  /\ client \in {"idle", "file", "fetched", "list", "listed"}
  /\ got \in Seq([at : Nat, erases : Nat])
  /\ asks \in 0..MaxAsks /\ faults \in 0..MaxFaults

\* Unless the log is erased meanwhile, what a gateway that waits for its answers
\* receives is a prefix of the file as it was when it was found, and with the end
\* mark all of it, whatever rows are logged and whatever day breaks meanwhile.
DownloadIsPrefix ==
  client \in {"file", "fetched"} /\ ~tangled /\ wantErases = erases =>
    /\ Len(got) <= Len(want)
    /\ got = SubSeq(want, 1, Len(got))
    /\ client = "fetched" => Len(got) = Len(want)

\* A transfer or listing that is active has an indication out, or is about to
\* send its first, whose confirmation drives it on; nothing is out without a
\* connection.  So no request, however ill-timed, and no failure leaves the
\* service unable to serve the next.
ActiveIsDriven ==
  /\ indication_pending <=> air.k # "none"
  /\ transfer_active => starting \/ air.k \in {"file", "eof"}
  /\ transfer_eof_pending => air.k = "eof"
  /\ listing_tx_active => air.k = "list"
  /\ ~connected => ~transfer_active /\ ~listing_tx_active /\ ~indication_pending

\* The listing a gateway puts together from the slices is the table at one moment.
ListingIsSnapshot == client = "listed" /\ ~tangled => listGot = listWant

\* A file that was listed still has at least that payload when it is found.
ListedIsFetched ==
  client \in {"file", "fetched"} /\ wantErases = erases =>
    \A i \in DOMAIN listed :
      listed[i].name = transfer_entry.name => listed[i].size <= Len(want)

\* A gateway that waits for its answers gets them, to the end.
RequestsFinish ==
  (client \in {"file", "list"}) ~>
    (client \notin {"file", "list"} \/ tangled \/ faults > 0)

=============================================================================
