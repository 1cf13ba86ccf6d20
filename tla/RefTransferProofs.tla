------------------------- MODULE RefTransferProofs -------------------------
(***************************************************************************)
(* For any files, payload sizes, settings, requests and failures: what a   *)
(* client that waits downloads is exact, and complete if nothing failed.   *)
(***************************************************************************)
EXTENDS RefTransfer, TLAPS

-----------------------------------------------------------------------------
(* Bytes of a file. *)

LEMMA BytesJoin ==
  ASSUME NEW name, NEW a \in Nat, NEW b \in Nat
  PROVE  Bytes(name, 0, a) \o Bytes(name, a, b) = Bytes(name, 0, a + b)
BY DEF Bytes

LEMMA BytesLength ==
  ASSUME NEW name, NEW a \in Nat, NEW n \in Nat
  PROVE  Len(Bytes(name, a, n)) = n
BY DEF Bytes

\* get_file_transfer_chunk makes progress and stops at the end.
LEMMA ChunkLength ==
  ASSUME NEW name, NEW offset \in Nat, NEW size \in Nat,
         lengths[name] = size, offset < size, current_mtu \in Nat \ {0}
  PROVE  \E n \in 1..(size - offset) : Chunk(name, offset, size) = Bytes(name, offset, n)
<1> DEFINE n == Lesser(Lesser(current_mtu, size - offset), lengths[name] - offset)
<1>1. n \in 1..(size - offset)
  BY DEF Lesser
<1>2. Chunk(name, offset, size) = Bytes(name, offset, n)
  BY DEF Chunk
<1> QED
  BY <1>1, <1>2

-----------------------------------------------------------------------------
(* The invariant. *)

Types ==
  /\ lengths \in [Served -> Nat]
  /\ current_conn => current_mtu \in Nat \ {0}
  /\ asked \in Served \cup {NoName} /\ faults \in Nat
  /\ pushy \in BOOLEAN /\ file_transfer_active \in BOOLEAN
  /\ file_transfer_state = "TRANSFERRING" => file_transfer_active

\* A client that waits for the end of what it asked for.
Waits == asked # NoName /\ ~pushy

OnlyConnected == asked # NoName => current_conn

\* What is out continues what the client has, up to the offset; after a failure
\* it may be lost, and the transfer stands still.
Sending ==
  Waits /\ file_transfer_active =>
    /\ current_transfer_filename = asked
    /\ current_transfer_file_size = wanted /\ lengths[asked] = wanted
    /\ current_transfer_offset \in Nat /\ current_transfer_offset <= wanted
    /\ Len(got) < current_transfer_offset
    /\ \/ /\ file_transfer_state = "TRANSFERRING"
          /\ pending = Data("file_transfer",
                             Bytes(asked, Len(got), current_transfer_offset - Len(got)))
       \/ faults > 0 /\ pending = None

\* When it is over no byte is out; if nothing failed the client has them all, or
\* is told.
Over ==
  Waits /\ ~file_transfer_active =>
    /\ pending.char = "file_transfer" => pending.data = <<>>
    /\ faults = 0 =>
         /\ pending.char # "file_transfer" /\ pending.mark \in {"", "NFF"}
         /\ Len(got) = wanted
         /\ wanted = 0 => told = "NFF" \/ pending = Mark("filename", "NFF")

InOrder ==
  Waits => Len(got) \in Nat /\ wanted \in Nat /\ got = Bytes(asked, 0, Len(got))

Inv == Types /\ OnlyConnected /\ Sending /\ Over /\ InOrder

LEMMA Names0 == NoName \notin Served
BY TransferAssumption DEF NoName, Served

LEMMA Indications ==
  /\ None.char = "none" /\ None.mark = ""
  /\ \A c, d : Data(c, d).char = c /\ Data(c, d).data = d /\ Data(c, d).mark = ""
  /\ \A c, m : Mark(c, m).char = c /\ Mark(c, m).data = <<>> /\ Mark(c, m).mark = m
BY DEF None, Data, Mark

LEMMA InitInv == Init => Inv
<1> SUFFICES ASSUME Init PROVE Inv
  OBVIOUS
<1>1. lengths \in [Served -> Nat]
  <2>1. {0, MaxLength - 1} \subseteq Nat
    BY TransferAssumption
  <2>2. lengths \in [Served -> {0, MaxLength - 1}]
    BY DEF Init
  <2> QED
    BY <2>1, <2>2
<1>2. ~Waits
  BY DEF Init, Waits
<1> QED
  BY <1>1, <1>2 DEF Init, Inv, Types, OnlyConnected, Sending, Over, InOrder

\* An action that leaves the client waiting for nothing.
LEMMA Forgotten ==
  ASSUME Types', asked' = NoName
  PROVE  Inv'
BY DEF Inv, OnlyConnected, Sending, Over, InOrder, Waits

\* What goes out when nothing was out.
LEMMA SendsAlone ==
  ASSUME NEW i, faults \in Nat, send_indication(i)
  PROVE  /\ faults' \in Nat /\ (faults' = 0 => faults = 0)
         /\ pending = None => pending' = i \/ (pending' = None /\ faults' > 0)
BY DEF send_indication, Fault

LEMMA LinkKeepsInv == Inv /\ Link => Inv'
<1> SUFFICES ASSUME Inv, Link PROVE Inv'
  OBVIOUS
<1>1. Types'
  <2>1. CASE juxta_ble_connection_established
    BY <2>1, TransferAssumption DEF Inv, Types, juxta_ble_connection_established, files
  <2>2. CASE juxta_ble_connection_terminated
    BY <2>2 DEF Inv, Types, juxta_ble_connection_terminated, files, Ended
  <2> QED
    BY <2>1, <2>2 DEF Link
<1>2. asked' = NoName
  BY DEF Link, juxta_ble_connection_established, juxta_ble_connection_terminated
<1> QED
  BY <1>1, <1>2, Forgotten

LEMMA NameKeepsInv ==
  ASSUME Inv, NEW name \in Served, WritesName(name)
  PROVE  Inv'
<1> USE DEF Inv
<1> DEFINE size  == lengths[name]
           chunk == Chunk(name, 0, size)
<1>1. size \in Nat /\ size > 0 /\ current_mtu \in Nat \ {0}
  BY DEF Types, WritesName
<1>2. PICK n \in 1..size : chunk = Bytes(name, 0, n)
  <2>1. \E n \in 1..(size - 0) : chunk = Bytes(name, 0, n)
    BY <1>1, ChunkLength
  <2> QED
    BY <2>1, <1>1
<1>3. Len(chunk) = n
  BY <1>1, <1>2, BytesLength
<1>4. faults \in Nat /\ send_indication(Data("file_transfer", chunk))
  BY DEF Types, WritesName
<1>5. faults' \in Nat
  BY <1>4, SendsAlone
<1>6. Types' /\ OnlyConnected'
  BY <1>5 DEF Types, OnlyConnected, WritesName, Pushes, files, link
<1>7. ASSUME Waits'
      PROVE  Sending' /\ Over' /\ InOrder'
  <2>1. pending = None
    BY <1>7 DEF Waits, WritesName, Pushes
  <2>2. \/ pending' = Data("file_transfer", Bytes(name, 0, n))
        \/ pending' = None /\ faults' > 0
    BY <2>1, <1>4, <1>2, SendsAlone
  <2>3. /\ file_transfer_active' /\ current_transfer_filename' = name
        /\ current_transfer_file_size' = size /\ lengths' = lengths
        /\ file_transfer_state' = "TRANSFERRING" /\ current_transfer_offset' = n
        /\ asked' = name /\ got' = <<>> /\ wanted' = size
    BY <1>3 DEF WritesName, files
  <2>4. Bytes(name, 0, 0) = <<>> /\ Len(got') = 0
    BY <2>3 DEF Bytes
  <2>5. Sending'
    BY <1>1, <2>2, <2>3, <2>4 DEF Sending
  <2>6. Over'
    BY <2>3 DEF Over
  <2>7. InOrder'
    BY <1>1, <2>3, <2>4 DEF InOrder
  <2> QED
    BY <2>5, <2>6, <2>7
<1> QED
  BY <1>6, <1>7 DEF Sending, Over, InOrder

LEMMA UnknownKeepsInv ==
  ASSUME Inv, NEW name \in Served, WritesUnknown(name)
  PROVE  Inv'
<1> USE DEF Inv
<1>1. faults \in Nat /\ send_indication(Mark("filename", "NFF"))
  BY DEF Types, WritesUnknown
<1>2. faults' \in Nat
  BY <1>1, SendsAlone
<1>3. Types' /\ OnlyConnected'
  BY <1>2 DEF Types, OnlyConnected, WritesUnknown, Pushes, files, link
<1>4. ASSUME Waits'
      PROVE  Sending' /\ Over' /\ InOrder'
  <2>1. pending = None /\ ~file_transfer_active'
    BY <1>4 DEF Waits, WritesUnknown, Pushes
  <2>2. pending' = Mark("filename", "NFF") \/ (pending' = None /\ faults' > 0)
    BY <2>1, <1>1, SendsAlone
  <2>3. got' = <<>> /\ wanted' = 0
    BY DEF WritesUnknown
  <2>a. Bytes(name, 0, 0) = <<>>
    BY DEF Bytes
  <2>b. Len(got') = 0
    BY <2>3
  <2>c. asked' = name
    BY DEF WritesUnknown
  <2>4. Bytes(name, 0, 0) = <<>> /\ Len(got') = 0 /\ asked' = name
    BY <2>a, <2>b, <2>c
  <2>5. pending'.char # "file_transfer" /\ (faults' = 0 => pending'.mark = "NFF")
    <3>1. CASE pending' = Mark("filename", "NFF")
      BY <3>1 DEF Mark
    <3>2. CASE pending' = None /\ faults' > 0
      <4>1. None.char = "none"
        BY Indications
      <4> QED
        BY <3>2, <4>1
    <3> QED
      BY <2>2, <3>1, <3>2
  <2>6. Sending'
    BY <2>1 DEF Sending
  <2>7. Over'
    <3>1. faults' = 0 => pending' = Mark("filename", "NFF")
      BY <1>2, <2>2
    <3> HIDE DEF Inv
    <3> QED
      BY <2>3, <2>b, <2>5, <3>1 DEF Over
  <2>8. InOrder'
    BY <2>3, <2>4 DEF InOrder
  <2> QED
    BY <2>6, <2>7, <2>8
<1> QED
  BY <1>3, <1>4 DEF Sending, Over, InOrder

LEMMA OtherRequestsKeepInv ==
  Inv /\ (WritesList \/ ReadsTransfer) => Inv'
<1> USE DEF Inv
<1> SUFFICES ASSUME Inv, WritesList \/ ReadsTransfer PROVE Inv'
  OBVIOUS
<1>1. CASE WritesList
  <2>1. faults' \in Nat
    BY <1>1, SendsAlone DEF Types, WritesList
  <2> QED
    BY <1>1, <2>1, Forgotten DEF Types, WritesList, Pushes, files, link
<1>2. CASE ReadsTransfer
  <2>1. ~Waits'
    BY <1>2 DEF ReadsTransfer, Pushes, Waits
  <2>2. Types' /\ OnlyConnected'
    BY <1>2 DEF ReadsTransfer, Types, OnlyConnected, Pushes, Ended, files, link
  <2> QED
    BY <2>1, <2>2 DEF Sending, Over, InOrder
<1> QED
  BY <1>1, <1>2

LEMMA GatewayKeepsInv ==
  ASSUME Inv, NEW c \in Commands, WritesGateway(c)
  PROVE  Inv'
<1> USE DEF Inv
<1> DEFINE out == Data("filename", Listing)
<1>1. faults' \in Nat /\ (faults' = 0 => faults = 0)
  BY SendsAlone DEF Types, WritesGateway
<1>2. lengths' \in [Served -> Nat]
  BY DEF Types, WritesGateway
<1>3. Types' /\ OnlyConnected'
  BY <1>1, <1>2 DEF Types, OnlyConnected, WritesGateway, Pushes, link, state, client
<1>4. ASSUME Waits'
      PROVE  Sending' /\ Over' /\ InOrder'
  <2>1. /\ pending = None /\ ~file_transfer_active' /\ ~file_transfer_active
        /\ asked' = asked /\ got' = got /\ told' = told /\ wanted' = wanted
    BY <1>4 DEF Waits, WritesGateway, Pushes, client, state
  <2>2. Waits
    BY <1>4 DEF Waits, Types, WritesGateway, Pushes, send_indication, Fault, client
  <2>3. pending' = out \/ pending' = None
    BY <2>1 DEF WritesGateway, send_indication
  <2>4. pending'.char # "file_transfer" /\ pending'.mark = ""
    <3>1. /\ out.char = "filename" /\ out.mark = ""
          /\ None.char = "none" /\ None.mark = ""
      BY Indications
    <3> HIDE DEF out
    <3> QED
      BY <2>3, <3>1
  <2>5. pending # Mark("filename", "NFF")
    BY <2>1 DEF None, Mark
  <2>6. Sending'
    BY <2>1 DEF Sending
  <2>7. Over'
    BY <1>1, <2>1, <2>2, <2>4, <2>5 DEF Over
  <2>8. InOrder'
    BY <2>1, <2>2 DEF InOrder
  <2> QED
    BY <2>6, <2>7, <2>8
<1> QED
  BY <1>3, <1>4 DEF Sending, Over, InOrder

LEMMA FilenameKeepsInv ==
  ASSUME Inv, NEW err \in BOOLEAN, FilenameConfirmed(err)
  PROVE  Inv'
<1> USE DEF Inv
<1>0. faults' \in Nat /\ (faults' = 0 => ~err /\ faults = 0)
  <2>0. faults \in Nat
    BY DEF Types
  <2>1. CASE err
    <3>1. faults' = faults + 1
      BY <2>1 DEF FilenameConfirmed, Fault
    <3> QED
      BY <2>0, <3>1
  <2>2. CASE ~err
    BY <2>0, <2>2 DEF FilenameConfirmed
  <2> QED
    BY <2>1, <2>2
<1>1. Types' /\ OnlyConnected'
  BY <1>0 DEF Types, OnlyConnected, FilenameConfirmed, files, link
<1>2. ASSUME Waits'
      PROVE  Sending' /\ Over' /\ InOrder'
  <2>1. Waits
    BY <1>2 DEF Waits, FilenameConfirmed
  <2>2. ~file_transfer_active
    <3> SUFFICES ASSUME file_transfer_active PROVE FALSE
      OBVIOUS
    <3>1. pending.char = "filename"
      BY DEF FilenameConfirmed
    <3>2. \/ pending = Data("file_transfer",
                           Bytes(asked, Len(got), current_transfer_offset - Len(got)))
          \/ pending = None
      BY <2>1 DEF Sending
    <3>3. pending.char = "file_transfer" \/ pending.char = "none"
      <4>1. None.char = "none"
        BY Indications
      <4>2. \A d : Data("file_transfer", d).char = "file_transfer"
        BY DEF Data
      <4> QED
        BY <3>2, <4>1, <4>2
    <3> QED
      BY <3>1, <3>3
  <2>3. /\ pending' = None /\ got' = got /\ wanted' = wanted /\ asked' = asked
        /\ file_transfer_active' = file_transfer_active
    BY DEF FilenameConfirmed
  <2>4. faults' = 0 /\ wanted = 0 => told' = "NFF"
    <3> SUFFICES ASSUME faults' = 0, wanted = 0 PROVE told' = "NFF"
      OBVIOUS
    <3>0. ~err /\ faults = 0
      BY <1>0
    <3>1. CASE pending.mark = "NFF"
      BY <3>0, <3>1 DEF FilenameConfirmed
    <3>2. CASE pending.mark = ""
      <4>0. Mark("filename", "NFF").mark = "NFF"
        BY DEF Mark
      <4>1. pending # Mark("filename", "NFF")
        BY <3>2, <4>0
      <4>2. told' = told
        BY <3>2 DEF FilenameConfirmed
      <4> QED
        BY <3>0, <4>1, <4>2, <2>1, <2>2 DEF Over
    <3> QED
      BY <3>0, <3>1, <3>2, <2>1, <2>2 DEF Over
  <2>5. None.char = "none" /\ None.mark = ""
    BY Indications
  <2>6. Over'
    BY <1>0, <2>1, <2>2, <2>3, <2>4, <2>5 DEF Over
  <2> QED
    BY <2>1, <2>2, <2>3, <2>6 DEF Sending, InOrder
<1> QED
  BY <1>1, <1>2 DEF Sending, Over, InOrder

\* The indication that is lost is the only one.
LEMMA FailureKeepsInv == Inv /\ TransferFailed => Inv'
<1> SUFFICES ASSUME Inv, TransferFailed PROVE Inv'
  OBVIOUS
<1> USE DEF Inv
<1>1. faults' \in Nat /\ faults' > 0
  BY DEF Types, TransferFailed, Fault
<1>2. Types' /\ OnlyConnected'
  BY <1>1 DEF Types, OnlyConnected, TransferFailed, client, files, link
<1>3. pending' = None /\ None.char = "none"
  BY Indications DEF TransferFailed
<1>4. /\ UNCHANGED <<lengths, asked, got, told, wanted, pushy, file_transfer_active,
                     current_transfer_filename, current_transfer_offset,
                     current_transfer_file_size>>
  BY DEF TransferFailed, client, files
<1>5. Sending'
  BY <1>1, <1>3, <1>4 DEF Sending, Waits
<1>6. Over'
  <2>1. pending'.char # "file_transfer" /\ faults' # 0
    BY <1>1, <1>3
  <2> HIDE DEF Inv
  <2> QED
    BY <2>1 DEF Over
<1>7. InOrder'
  BY <1>4 DEF InOrder, Waits
<1> QED
  BY <1>2, <1>5, <1>6, <1>7

\* What is out, while a transfer that a client waits for is active.
LEMMA Arriving ==
  ASSUME Inv, Waits, file_transfer_active, pending.char = "file_transfer"
  PROVE  LET n == current_transfer_offset - Len(got)
         IN  /\ file_transfer_state = "TRANSFERRING"
             /\ n \in Nat /\ pending.data = Bytes(asked, Len(got), n) /\ pending.mark = ""
             /\ current_transfer_offset \in Nat /\ wanted \in Nat /\ wanted > 0
             /\ got \o pending.data = Bytes(asked, 0, current_transfer_offset)
<1> USE DEF Inv
<1> DEFINE n == current_transfer_offset - Len(got)
<1>1. /\ current_transfer_offset \in Nat /\ Len(got) \in Nat /\ wanted \in Nat
      /\ Len(got) < current_transfer_offset /\ current_transfer_offset <= wanted
  BY DEF Sending, InOrder
<1>2. pending # None
  BY Indications
<1>3. /\ file_transfer_state = "TRANSFERRING"
      /\ pending = Data("file_transfer", Bytes(asked, Len(got), n))
  BY <1>2 DEF Sending
<1>4. pending.data = Bytes(asked, Len(got), n) /\ pending.mark = ""
  BY <1>3 DEF Data
<1>5. n \in Nat /\ Len(got) + n = current_transfer_offset
  BY <1>1
<1>6. got = Bytes(asked, 0, Len(got))
  BY DEF InOrder
<1>7. Bytes(asked, 0, Len(got)) \o Bytes(asked, Len(got), n)
        = Bytes(asked, 0, current_transfer_offset)
  BY <1>1, <1>5, BytesJoin
<1>8. got \o pending.data = Bytes(asked, 0, current_transfer_offset)
  BY <1>4, <1>6, <1>7
<1>9. wanted > 0
  BY <1>1
<1> HIDE DEF n, Inv
<1> QED
  BY <1>1, <1>3, <1>4, <1>5, <1>8, <1>9 DEF n

LEMMA LastKeepsInv == Inv /\ LastConfirmed => Inv'
<1> SUFFICES ASSUME Inv, LastConfirmed PROVE Inv'
  OBVIOUS
<1> USE DEF Inv
<1>1. /\ file_transfer_active' \in BOOLEAN
      /\ file_transfer_state' = "TRANSFERRING" => file_transfer_active'
  BY DEF Types, LastConfirmed, Ended, state
<1>2. Types' /\ OnlyConnected'
  BY <1>1 DEF Types, OnlyConnected, LastConfirmed, Receives, files, link
<1>3. ASSUME Waits'
      PROVE  Sending' /\ Over' /\ InOrder'
  <2>1. Waits /\ asked' = asked /\ wanted' = wanted /\ faults' = faults
    BY <1>3 DEF Waits, LastConfirmed, Receives
  <2>2. pending.char = "file_transfer" /\ pending' = None /\ got' = got \o pending.data
    BY DEF LastConfirmed, Receives
  <2>3. pending'.char # "file_transfer" /\ pending'.mark = ""
    BY <2>2, Indications
  <2>4. CASE ~file_transfer_active
    <3>1. pending.data = <<>> /\ faults # 0
      BY <2>1, <2>2, <2>4 DEF Over
    <3>2. ~file_transfer_active'
      BY <2>4 DEF Types, LastConfirmed, state
    <3>3. got' = got
      BY <2>1, <2>2, <3>1 DEF InOrder, Bytes
    <3> QED
      BY <2>1, <2>3, <3>1, <3>2, <3>3 DEF Sending, Over, InOrder
  <2>5. CASE file_transfer_active
    <3>1. /\ file_transfer_state = "TRANSFERRING"
          /\ got' = Bytes(asked, 0, current_transfer_offset)
          /\ current_transfer_offset \in Nat /\ wanted \in Nat /\ wanted > 0
      BY <2>1, <2>2, <2>5, Arriving
    <3>2. current_transfer_offset = wanted
      BY <2>1, <2>5, <3>1 DEF LastConfirmed, Sending
    <3>3. ~file_transfer_active'
      BY <3>1 DEF LastConfirmed, Ended
    <3>4. Len(got') = wanted
      BY <3>1, <3>2, BytesLength
    <3>5. wanted' # 0 /\ Len(got') = wanted'
      BY <2>1, <3>1, <3>4
    <3>6. Over'
      BY <2>3, <3>5 DEF Over
    <3>7. InOrder'
      BY <2>1, <3>1, <3>2, <3>4 DEF InOrder
    <3> QED
      BY <3>3, <3>6, <3>7 DEF Sending
  <2> QED
    BY <2>4, <2>5
<1> QED
  BY <1>2, <1>3 DEF Sending, Over, InOrder

LEMMA ChunkKeepsInv == Inv /\ ChunkConfirmed => Inv'
<1> SUFFICES ASSUME Inv, ChunkConfirmed PROVE Inv'
  OBVIOUS
<1> USE DEF Inv
<1> DEFINE chunk == Chunk(current_transfer_filename, current_transfer_offset,
                          current_transfer_file_size)
<1>0. file_transfer_active
  BY DEF Types, ChunkConfirmed
<1>1. /\ faults' \in Nat /\ file_transfer_active' \in BOOLEAN
      /\ file_transfer_state' = "TRANSFERRING" => file_transfer_active'
      /\ \/ pending' = IF chunk = <<>> THEN Mark("file_transfer", "EOF")
                       ELSE Data("file_transfer", chunk)
         \/ faults' > 0 /\ pending' = None
  <2>0. faults \in Nat
    BY DEF Types
  <2>1. /\ file_transfer_active' \in BOOLEAN
        /\ file_transfer_state' = "TRANSFERRING" => file_transfer_active'
    BY <1>0 DEF ChunkConfirmed, Ended
  <2>2. \/ /\ faults' = faults
           /\ pending' = IF chunk = <<>> THEN Mark("file_transfer", "EOF")
                         ELSE Data("file_transfer", chunk)
        \/ faults' = faults + 1 /\ pending' = None
    BY DEF ChunkConfirmed, Fault
  <2> HIDE DEF chunk
  <2> QED
    BY <2>0, <2>1, <2>2
<1>2. Types' /\ OnlyConnected'
  BY <1>1 DEF Types, OnlyConnected, ChunkConfirmed, Receives, files, link
<1>3. ASSUME Waits'
      PROVE  Sending' /\ Over' /\ InOrder'
  <2>1. Waits /\ asked' = asked /\ wanted' = wanted
    BY <1>3 DEF Waits, ChunkConfirmed, Receives
  <2>2. pending.char = "file_transfer" /\ got' = got \o pending.data
    BY DEF ChunkConfirmed, Receives
  <2>3. /\ file_transfer_active /\ current_transfer_offset \in Nat
        /\ got' = Bytes(asked, 0, current_transfer_offset)
        /\ wanted \in Nat /\ wanted > 0
    BY <1>0, <2>1, <2>2, Arriving
  <2>4. Len(got') = current_transfer_offset
    BY <2>3, BytesLength
  <2>5. /\ current_transfer_filename = asked /\ current_transfer_file_size = wanted
        /\ lengths[asked] = wanted /\ current_transfer_offset < wanted
    BY <2>1, <2>3 DEF Sending, ChunkConfirmed
  <2>6. current_mtu \in Nat \ {0}
    BY <2>1 DEF Types, OnlyConnected, Waits
  <2>7. PICK n \in 1..(wanted - current_transfer_offset) :
          chunk = Bytes(asked, current_transfer_offset, n)
    BY <2>3, <2>5, <2>6, ChunkLength
  <2>8. n \in Nat /\ n > 0 /\ Len(chunk) = n
    BY <2>3, <2>7, BytesLength
  <2>9. chunk # <<>>
    BY <2>8
  <2>10. /\ current_transfer_offset' = current_transfer_offset + n
         /\ file_transfer_state' = "TRANSFERRING" /\ file_transfer_active'
         /\ current_transfer_filename' = asked /\ current_transfer_file_size' = wanted
         /\ lengths' = lengths
    BY <2>3, <2>5, <2>8, <2>9 DEF ChunkConfirmed, files
  <2>11. \/ pending' = Data("file_transfer", Bytes(asked, current_transfer_offset, n))
         \/ faults' > 0 /\ pending' = None
    BY <1>1, <2>7, <2>9
  <2>12. current_transfer_offset' - Len(got') = n
    BY <2>3, <2>4, <2>8, <2>10
  <2>13. \/ pending' = Data("file_transfer", Bytes(asked', Len(got'),
                                                   current_transfer_offset' - Len(got')))
         \/ faults' > 0 /\ pending' = None
    BY <2>1, <2>4, <2>11, <2>12
  <2>14. Sending'
    BY <2>1, <2>3, <2>4, <2>5, <2>7, <2>8, <2>10, <2>13 DEF Sending
  <2>15. Over'
    BY <2>10 DEF Over
  <2>16. InOrder'
    BY <2>1, <2>3, <2>4 DEF InOrder
  <2> QED
    BY <2>14, <2>15, <2>16
<1> QED
  BY <1>2, <1>3 DEF Sending, Over, InOrder

\* A read that fails leaves what the client has as it is, and what follows is no byte
\* of the file.
LEMMA UnreadableKeepsInv == Inv /\ Unreadable => Inv'
<1> SUFFICES ASSUME Inv, Unreadable PROVE Inv'
  OBVIOUS
<1> USE DEF Inv
<1>1. CASE ReadUnreadable
  <2>1. ~Waits'
    BY <1>1 DEF ReadUnreadable, Pushes, Waits
  <2>2. faults' = faults + 1 /\ faults \in Nat
    BY <1>1 DEF ReadUnreadable, Fault, Types
  <2> QED
    BY <1>1, <2>1, <2>2 DEF ReadUnreadable, Types, OnlyConnected, Sending, Over, InOrder, files,
                      link, state, client, Pushes
<1>2. CASE ChunkUnreadable
  <2>1. faults' \in Nat /\ faults' > 0 /\ file_transfer_active
    BY <1>2 DEF ChunkUnreadable, Fault, Types
  <2>2. Types' /\ OnlyConnected'
    BY <1>2, <2>1 DEF ChunkUnreadable, Types, OnlyConnected, Receives, Ended, files, link
  <2>3. pending'.data = <<>>
    BY <1>2 DEF ChunkUnreadable, Mark
  <2>4. ASSUME Waits' PROVE InOrder'
    <3>1. Waits /\ asked' = asked /\ wanted' = wanted
      BY <1>2, <2>4 DEF Waits, ChunkUnreadable, Receives
    <3>2. pending.char = "file_transfer" /\ got' = got \o pending.data
      BY <1>2 DEF ChunkUnreadable, Receives
    <3>3. /\ got' = Bytes(asked, 0, current_transfer_offset)
          /\ current_transfer_offset \in Nat /\ wanted \in Nat
      BY <2>1, <3>1, <3>2, Arriving
    <3>4. Len(got') = current_transfer_offset
      BY <3>3, BytesLength
    <3> QED
      BY <3>1, <3>3, <3>4 DEF InOrder
  <2>5. ~file_transfer_active'
    BY <1>2 DEF ChunkUnreadable, Ended
  <2>6. Over' /\ Sending'
    <3> HIDE DEF Inv
    <3>1. faults' # 0
      BY <2>1
    <3> QED
      BY <2>3, <2>5, <3>1 DEF Sending, Over
  <2>7. InOrder'
    BY <2>4 DEF InOrder
  <2> QED
    BY <2>2, <2>6, <2>7
<1>3. ASSUME NEW name \in Served, EntryUnreadable(name) \/ FirstUnreadable(name)
      PROVE  Inv'
  <2>1. faults' \in Nat /\ faults' > 0
    <3>1. faults' = faults + 1 /\ faults \in Nat
      BY <1>3 DEF EntryUnreadable, FirstUnreadable, Fault, Types
    <3> QED
      BY <3>1
  <2>2. Types' /\ OnlyConnected'
    BY <1>3, <2>1 DEF EntryUnreadable, FirstUnreadable, Types, OnlyConnected, Pushes, Ended,
                      files, link
  <2>3. ASSUME Waits' PROVE ~file_transfer_active' /\ pending'.data = <<>>
    <3>1. pending = None /\ ~file_transfer_active
      BY <1>3, <2>3 DEF Waits, EntryUnreadable, FirstUnreadable, Pushes
    <3>2. pending' = Mark("filename", "NFF") \/ pending' = Mark("file_transfer", "EOF")
      BY <1>3, <3>1 DEF EntryUnreadable, FirstUnreadable
    <3>3. ~file_transfer_active'
      BY <1>3, <3>1 DEF EntryUnreadable, FirstUnreadable, Ended
    <3> QED
      BY <3>2, <3>3 DEF Mark
  <2>4. InOrder'
    <3>1. got' = <<>> /\ wanted' \in Nat
      BY <1>3 DEF EntryUnreadable, FirstUnreadable, Types
    <3>2. Len(got') = 0 /\ Bytes(asked', 0, 0) = <<>>
      BY <3>1 DEF Bytes
    <3> QED
      BY <3>1, <3>2 DEF InOrder
  <2>5. Over' /\ Sending'
    <3> HIDE DEF Inv
    <3>1. faults' # 0
      BY <2>1
    <3> QED
      BY <2>3, <3>1 DEF Sending, Over
  <2> QED
    BY <2>2, <2>4, <2>5
<1> QED
  BY <1>1, <1>2, <1>3 DEF Unreadable

LEMMA RestKeepsInv ==
  ASSUME Inv, (\E name \in Served : Grows(name)) \/ BatteryChanges \/ UNCHANGED vars
  PROVE  Inv'
<1>1. ASSUME NEW name \in Served, Grows(name) PROVE Inv'
  <2>1. Types'
    <3>1. lengths' \in [Served -> Nat]
      BY <1>1 DEF Inv, Types, Grows
    <3> QED
      BY <1>1, <3>1 DEF Inv, Types, Grows, link, state, client
  <2>2. asked' = NoName
    BY <1>1 DEF Inv, OnlyConnected, Types, Grows, client
  <2> QED
    BY <2>1, <2>2, Forgotten
<1>2. CASE BatteryChanges
  BY <1>2 DEF Inv, Types, OnlyConnected, Sending, Over, InOrder, Waits, BatteryChanges,
              link, state, client
<1>3. CASE UNCHANGED vars
  BY <1>3 DEF Inv, Types, OnlyConnected, Sending, Over, InOrder, Waits, vars,
              files, link, state, client
<1> QED
  BY <1>1, <1>2, <1>3

LEMMA NextKeepsInv == Inv /\ [Next]_vars => Inv'
<1> SUFFICES ASSUME Inv, [Next]_vars PROVE Inv'
  OBVIOUS
<1>1. CASE Requests
  BY <1>1, NameKeepsInv, UnknownKeepsInv, OtherRequestsKeepInv, GatewayKeepsInv DEF Requests
<1>2. CASE Confirms
  BY <1>2, FilenameKeepsInv, LastKeepsInv, ChunkKeepsInv DEF Confirms
<1> QED
  BY <1>1, <1>2, LinkKeepsInv, FilenameKeepsInv, FailureKeepsInv,
     UnreadableKeepsInv, RestKeepsInv DEF Next

-----------------------------------------------------------------------------
\* DownloadIsExact: whatever the payload, the length, what fails and what else it asks
\* before and after, what a client that waits has got is the beginning of the file it
\* asked for, and all of it when nothing failed (continue_file_transfer).
THEOREM DownloadStaysExact == Spec => []DownloadIsExact
<1>1. Inv => DownloadIsExact
  <2> SUFFICES ASSUME Inv, Waits
               PROVE  /\ got = Bytes(asked, 0, Len(got))
                      /\ ~file_transfer_active /\ pending = None /\ faults = 0
                           => Len(got) = wanted /\ (wanted = 0 => told = "NFF")
    BY DEF DownloadIsExact, Waits
  <2>1. got = Bytes(asked, 0, Len(got))
    BY DEF Inv, InOrder
  <2>2. None # Mark("filename", "NFF")
    BY DEF None, Mark
  <2> QED
    BY <2>1, <2>2 DEF Inv, Over
<1> QED
  BY <1>1, InitInv, NextKeepsInv, PTL DEF Spec

=============================================================================
