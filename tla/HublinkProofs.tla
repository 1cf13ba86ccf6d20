--------------------------- MODULE HublinkProofs ---------------------------
(***************************************************************************)
(* Proofs about Hublink.                                                   *)
(*                                                                         *)
(* Whatever the gateway asks and whenever, whatever fails and whatever     *)
(* happens to the log, the service never ends up with a transfer or a      *)
(* listing that nothing drives on (IInv).                                  *)
(*                                                                         *)
(* A gateway that waits for its answers gets the file or the listing it    *)
(* asked for (DataInv).  The entry of a transfer is a copy, and its        *)
(* payload lies below the frontier, where only an erasure writes again;    *)
(* what has been received and what is out make up what has been sent.      *)
(***************************************************************************)
EXTENDS Hublink, SequenceTheorems, TLAPS

Flags ==
  /\ connected \in BOOLEAN /\ starting \in BOOLEAN
  /\ indication_pending \in BOOLEAN
  /\ transfer_active \in BOOLEAN /\ transfer_eof_pending \in BOOLEAN
  /\ listing_tx_active \in BOOLEAN

\* ActiveIsDriven needs to know besides that a handler has a connection.
IInv == Flags /\ ActiveIsDriven /\ (starting => connected)

-----------------------------------------------------------------------------
(* What sending, or not sending, an indication does. *)

LEMMA Kinds ==
  /\ NoInd.k = "none"
  /\ \A k, data : Ind(k, data).k = k
BY DEF NoInd, Ind

LEMMA SentFacts ==
  ASSUME NEW pending, NEW k, NEW data, Sent(pending, Ind(k, data))
  PROVE  ~pending /\ indication_pending' = TRUE /\ air'.k = k
BY Kinds DEF Sent

LEMMA NotSentFacts ==
  ASSUME NEW pending \in BOOLEAN, NotSent(pending), pending => air.k # "none"
  PROVE  /\ indication_pending' = pending
         /\ pending => air' = air
         /\ ~pending => air'.k = "none"
         /\ indication_pending' <=> air'.k # "none"
BY Kinds DEF NotSent

LEMMA RefusedFacts ==
  ASSUME NEW pending, Refused(pending)
  PROVE  NotSent(pending)
BY DEF Refused

-----------------------------------------------------------------------------
(* The two functions that send. *)

\* continue_file_transfer leaves the transfer driven, or stopped.
LEMMA ContinueDrives ==
  ASSUME NEW pending \in BOOLEAN, IInv, Continue(pending),
         pending => indication_pending,
         ~pending => ~transfer_eof_pending /\ ~listing_tx_active,
         connected, connected' = connected, starting' = FALSE,
         UNCHANGED listing_tx_active
  PROVE  IInv'
<1> USE DEF IInv, Flags, ActiveIsDriven
<1>1. CASE ~transfer_active /\ NotSent(pending) /\ UNCHANGED transferVars
  <2>1. /\ indication_pending' = pending /\ (pending => air' = air)
        /\ indication_pending' <=> air'.k # "none"
    BY <1>1, NotSentFacts
  <2>2. transfer_active' = FALSE /\ transfer_eof_pending' = transfer_eof_pending
    BY <1>1 DEF transferVars
  <2> QED BY <2>1, <2>2
<1>2. ASSUME NEW data, transfer_active, Sent(pending, Ind("file", data)),
             UNCHANGED <<transfer_active, transfer_eof_pending>>
      PROVE  IInv'
  <2>1. ~pending /\ indication_pending' = TRUE /\ air'.k = "file"
    BY <1>2, SentFacts
  <2> QED BY <1>2, <2>1
<1>3. ASSUME transfer_active, Sent(pending, Ind("eof", <<>>)),
             transfer_eof_pending' = TRUE, UNCHANGED transfer_active
      PROVE  IInv'
  <2>1. ~pending /\ indication_pending' = TRUE /\ air'.k = "eof"
    BY <1>3, SentFacts
  <2> QED BY <1>3, <2>1
<1>4. CASE Refused(pending) /\ StopTransfer
  <2>1. /\ indication_pending' = pending /\ (pending => air' = air)
        /\ indication_pending' <=> air'.k # "none"
    BY <1>4, RefusedFacts, NotSentFacts
  <2>2. transfer_active' = FALSE /\ transfer_eof_pending' = FALSE
    BY <1>4 DEF StopTransfer
  <2> QED BY <2>1, <2>2
<1> QED BY <1>1, <1>2, <1>3, <1>4 DEF Continue

\* send_next_listing_chunk leaves the listing driven, or stopped.
LEMMA SendListingDrives ==
  ASSUME NEW pending \in BOOLEAN, IInv,
         NEW buffer, NEW len, NEW offset, SendListing(pending, buffer, len, offset),
         pending => indication_pending,
         ~pending => ~transfer_active /\ ~transfer_eof_pending,
         connected, UNCHANGED <<connected, starting, transfer_active, transfer_eof_pending>>
  PROVE  IInv'
<1> USE DEF IInv, Flags, ActiveIsDriven
<1>1. ASSUME NotSent(pending), listing_tx_active' = FALSE
      PROVE  IInv'
  <2>1. /\ indication_pending' = pending /\ (pending => air' = air)
        /\ indication_pending' <=> air'.k # "none"
    BY <1>1, NotSentFacts
  <2> QED BY <1>1, <2>1
<1>2. ASSUME NEW data, Sent(pending, Ind("list", data)), listing_tx_active' = TRUE
      PROVE  IInv'
  <2>1. ~pending /\ indication_pending' = TRUE /\ air'.k = "list"
    BY <1>2, SentFacts
  <2> QED BY <1>2, <2>1
<1> QED BY <1>1, <1>2, RefusedFacts DEF SendListing

-----------------------------------------------------------------------------
(* The inductive step. *)

LEMMA InitDriven == Init => IInv
BY Kinds DEF Init, IInv, Flags, ActiveIsDriven

\* Steps that touch no flag.
LEMMA QuietDriven ==
  ASSUME IInv, UNCHANGED <<connected, starting, sendVars, transfer_active,
                           transfer_eof_pending, listing_tx_active>>
  PROVE  IInv'
BY DEF IInv, Flags, ActiveIsDriven, sendVars

LEMMA NextDriven == IInv /\ [Next]_vars => IInv'
<1> SUFFICES ASSUME IInv, [Next]_vars PROVE IInv'
  OBVIOUS
<1>1. CASE LogRow \/ Midnight \/ ClearMemory
  BY <1>1, QuietDriven DEF LogRow, Midnight, ClearMemory, linkVars, transferVars, listingVars
<1>2. CASE WriteFilename
  <2>1. /\ transfer_eof_pending' = FALSE /\ transfer_active' = TRUE /\ starting' = TRUE
        /\ connected /\ UNCHANGED <<connected, indication_pending, air, listing_tx_active>>
    BY <1>2 DEF WriteFilename, Asks, StartTransfer, linkVars, sendVars, listingVars
  <2> QED BY <2>1 DEF IInv, Flags, ActiveIsDriven
<1>3. CASE SendFirst
  <2>1. /\ Continue(indication_pending) /\ starting /\ starting' = FALSE
        /\ UNCHANGED <<connected, listing_tx_active>>
    BY <1>3 DEF SendFirst, linkVars, listingVars
  <2>2. ~indication_pending => ~transfer_eof_pending /\ ~listing_tx_active
    BY DEF IInv, ActiveIsDriven
  <2>3. indication_pending \in BOOLEAN /\ connected
    BY <2>1 DEF IInv, Flags
  <2> QED BY <2>1, <2>2, <2>3, ContinueDrives
<1>4. CASE WriteList
  <2>1. /\ SendListing(indication_pending, Rewritten, Len(Listing), 0)
        /\ connected /\ ~starting
        /\ UNCHANGED <<connected, starting, transfer_active, transfer_eof_pending>>
    BY <1>4 DEF WriteList, Asks, linkVars, transferVars
  <2>2. ~indication_pending => ~transfer_active /\ ~transfer_eof_pending
    BY <2>1 DEF IInv, ActiveIsDriven
  <2>3. indication_pending \in BOOLEAN
    BY DEF IInv, Flags
  <2> QED BY <2>1, <2>2, <2>3, SendListingDrives
<1>5. CASE ReadFilename
  BY <1>5, QuietDriven DEF ReadFilename, linkVars, transferVars
<1>6. CASE ConfirmTransfer
  <2>1. /\ ~starting /\ air.k \in {"file", "eof"}
        /\ UNCHANGED <<connected, starting, listing_tx_active>>
    BY <1>6 DEF ConfirmTransfer, linkVars, listingVars
  <2>2. connected /\ ~listing_tx_active
    BY <2>1 DEF IInv, Flags, ActiveIsDriven
  <2>3. CASE StopTransfer /\ NotSent(FALSE)
    <3>1. indication_pending' = FALSE /\ air'.k = "none"
      BY <2>3, NotSentFacts
    <3> QED BY <2>1, <2>2, <2>3, <3>1 DEF StopTransfer, IInv, Flags, ActiveIsDriven
  <2>4. CASE ~transfer_eof_pending /\ Continue(FALSE)
    <3>1. starting' = FALSE
      BY <2>1 DEF IInv, Flags
    <3> QED BY <2>1, <2>2, <2>4, <3>1, ContinueDrives
  <2> QED BY <1>6, <2>3, <2>4 DEF ConfirmTransfer
<1>7. CASE ConfirmListing
  <2>1. /\ ~starting /\ air.k = "list"
        /\ UNCHANGED <<connected, starting, transfer_active, transfer_eof_pending>>
    BY <1>7 DEF ConfirmListing, linkVars, transferVars
  <2>2. connected /\ ~transfer_active /\ ~transfer_eof_pending
    BY <2>1 DEF IInv, Flags, ActiveIsDriven
  <2>3. CASE SendListing(FALSE, filename_listing, listing_tx_len, listing_tx_offset)
    BY <2>1, <2>2, <2>3, SendListingDrives
  <2>4. CASE ~listing_tx_active /\ NotSent(FALSE) /\ UNCHANGED listingVars
    <3>1. indication_pending' = FALSE /\ air'.k = "none"
      BY <2>4, NotSentFacts
    <3> QED BY <2>1, <2>2, <2>4, <3>1 DEF listingVars, IInv, Flags, ActiveIsDriven
  <2> QED BY <1>7, <2>3, <2>4 DEF ConfirmListing
<1>8. CASE IndicationFails
  <2>1. /\ NotSent(FALSE) /\ ~starting /\ air.k # "none" /\ UNCHANGED <<connected, starting>>
    BY <1>8 DEF IndicationFails, linkVars
  <2>2. indication_pending' = FALSE /\ air'.k = "none"
    BY <2>1, NotSentFacts
  <2>3. CASE /\ air.k = "list" /\ listing_tx_active' = FALSE
             /\ UNCHANGED transferVars
    BY <2>1, <2>2, <2>3 DEF transferVars, IInv, Flags, ActiveIsDriven
  <2>4. CASE air.k # "list" /\ StopTransfer /\ UNCHANGED listingVars
    BY <2>1, <2>2, <2>4 DEF listingVars, StopTransfer, IInv, Flags, ActiveIsDriven
  <2> QED BY <1>8, <2>3, <2>4 DEF IndicationFails
<1>9. CASE Connect
  BY <1>9 DEF Connect, sendVars, transferVars, listingVars, IInv, Flags, ActiveIsDriven
<1>10. CASE MtuExchanged
  BY <1>10, QuietDriven DEF MtuExchanged, transferVars, listingVars
<1>11. CASE Disconnect
  BY <1>11, Kinds DEF Disconnect, StopTransfer, IInv, Flags, ActiveIsDriven
<1>12. CASE UNCHANGED vars
  BY <1>12, QuietDriven DEF vars, linkVars, transferVars, listingVars
<1> QED
  BY <1>1, <1>2, <1>3, <1>4, <1>5, <1>6, <1>7, <1>8, <1>9, <1>10, <1>11, <1>12 DEF Next

\* Whatever the gateway sends and however the link fails, the flags of
\* ble_service.c agree with the indication that is out: each active transfer or
\* listing is driven on by a confirmation to come, and none is left over.
THEOREM ActiveStaysDriven == Spec => []ActiveIsDriven
<1>1. IInv => ActiveIsDriven
  BY DEF IInv
<1> QED BY <1>1, InitDriven, NextDriven, PTL DEF Spec

-----------------------------------------------------------------------------
(* What the transfers carry. *)

File == [name : Nat \ {0}, off : Nat, len : Nat, active : BOOLEAN]

LogTypes ==
  /\ top \in Nat /\ erases \in Nat /\ today \in Nat \ {0}
  /\ files \in Seq(File)
  /\ mtu \in Nat \ {0}

\* The files lie below the frontier, each with its two header cells and a row
\* at least; only the last is open, which is today's if there is one.
Table ==
  /\ \A i \in DOMAIN files :
       /\ files[i].off + files[i].len <= top
       /\ files[i].len >= 3 /\ files[i].name <= today
       /\ files[i].active <=> i = Len(files)
  /\ \A i, j \in DOMAIN files : i < j => files[i].name < files[j].name

\* What the cells of e's payload hold as long as the log is not erased again.
Written(e) ==
  [i \in 1..PayloadLen(e) |-> [at |-> e.off + i, erases |-> erases + 1]]

\* The entry that is sent is the one want was taken from, and its payload lies
\* below the frontier, where nothing is written any more.
Found ==
  client \in {"file", "fetched"} /\ wantErases = erases =>
    /\ transfer_entry \in File
    /\ transfer_entry.len >= 3
    /\ transfer_entry.off + PayloadLen(transfer_entry) < top
    /\ want = Written(transfer_entry)

\* got and then data are a prefix of whole, n elements long.
Prefix(whole, had, data, n) ==
  /\ Len(had) + Len(data) = n /\ n <= Len(whole)
  /\ \A i \in 1..Len(had) : had[i] = whole[i]
  /\ \A i \in 1..Len(data) : data[i] = whole[Len(had) + i]

\* What has been received and what is out make up what has been sent.
Sending ==
  client \in {"file", "fetched"} /\ ~tangled /\ wantErases = erases =>
    /\ got \in Seq([at : Nat, erases : Nat])
    /\ transfer_offset \in 0..PayloadLen(transfer_entry)
    /\ air.k # "list"
    /\ starting => client = "file" /\ got = <<>> /\ transfer_offset = 0 /\ air.k = "none"
    /\ air.k = "file" => /\ client = "file"
                         /\ air.data \in Seq([at : Nat, erases : Nat])
                         /\ Prefix(want, got, air.data, transfer_offset)
    /\ air.k = "eof" => /\ client = "file" /\ transfer_eof_pending
                        /\ Len(got) = Len(want)
    /\ Prefix(want, got, <<>>, Len(got))
    /\ client = "fetched" => Len(got) = Len(want) /\ air.k = "none"

\* A listing ends with the one token that names no file.
Ended(list) ==
  /\ list \in Seq(Token) /\ Len(list) > 0
  /\ \A i \in 1..Len(list) : list[i] = EofToken <=> i = Len(list)

\* The slices a gateway has received and the one that is out make up what has
\* been sent of a buffer nothing else has written to.
Slicing ==
  client \in {"list", "listed"} /\ ~tangled =>
    /\ Ended(listWant)
    /\ listGot \in Seq(Token)
    /\ air.k \in {"none", "list"} /\ ~starting
    /\ air.k = "list" =>
         /\ client = "list" /\ listing_tx_active
         /\ listing_tx_len = Len(listWant)
         /\ listing_tx_offset \in 1..listing_tx_len
         /\ Len(filename_listing) >= listing_tx_len
         /\ \A i \in 1..listing_tx_len : filename_listing[i] = listWant[i]
         /\ air.data \in Seq(Token)
         /\ Prefix(listWant, listGot, air.data, listing_tx_offset)
    /\ Prefix(listWant, listGot, <<>>, Len(listGot))
    /\ client = "listed" => listGot = listWant /\ air.k = "none"

\* Every file of an older listing is still in the table fs, no shorter.
KeptIn(list, fs) ==
  \A i \in DOMAIN list :
    list[i].name # 0 =>
      \E j \in DOMAIN fs :
        fs[j].name = list[i].name /\ list[i].size <= PayloadLen(fs[j])

Listings ==
  /\ listed \in Seq(Token) /\ filename_listing \in Seq(Token)
  /\ KeptIn(listed, files)
  /\ client = "list" /\ ~tangled /\ wantErases = erases => KeptIn(listWant, files)

DataInv ==
  /\ LogTypes /\ Table
  /\ wantErases \in Nat /\ wantErases <= erases
  /\ client \in {"idle", "file", "fetched", "list", "listed"}
  /\ Found /\ Sending /\ Slicing /\ Listings /\ ListedIsFetched

-----------------------------------------------------------------------------
(* The payload of a file, and the listing of the table. *)

Cell == [at : Nat, erases : Nat]

\* A sequence made element by element.
LEMMA Made ==
  ASSUME NEW S, NEW n \in Nat, NEW f \in [1..n -> S]
  PROVE  f \in Seq(S) /\ Len(f) = n /\ DOMAIN f = 1..n
<1>1. f \in Seq(S)
  BY SeqDef
<1>2. Len(f) \in Nat /\ DOMAIN f = 1..Len(f) /\ DOMAIN f = 1..n
  BY <1>1, LenProperties
<1> QED BY <1>1, <1>2

LEMMA PayloadLenFacts ==
  ASSUME NEW e \in File
  PROVE  /\ PayloadLen(e) \in Nat
         /\ e.len >= 3 => PayloadLen(e) = e.len - 1 - (IF e.active THEN 0 ELSE 1)
         /\ e.len >= 3 => PayloadLen(e) < e.len /\ PayloadLen(e) > 0
BY DEF File, PayloadLen

\* Cells below the frontier hold what has been written to them.
LEMMA CellsFacts ==
  ASSUME LogTypes, NEW e \in File, NEW offset \in Nat, NEW n \in Nat,
         e.off + offset + n < top
  PROVE  /\ PayloadCells(e, offset, n) \in Seq(Cell)
         /\ Len(PayloadCells(e, offset, n)) = n
         /\ \A i \in 1..n : PayloadCells(e, offset, n)[i]
                              = [at |-> e.off + offset + i, erases |-> erases + 1]
<1>1. /\ top \in Nat /\ erases \in Nat /\ e.off \in Nat
  BY DEF LogTypes, File
<1>2. \A i \in 1..n : Content(e.off + offset + i)
                        = [at |-> e.off + offset + i, erases |-> erases + 1]
  BY <1>1 DEF Content
<1>3. PayloadCells(e, offset, n) \in [1..n -> Cell]
  <2>1. \A i \in 1..n : Content(e.off + offset + i) \in Cell
    <3> TAKE i \in 1..n
    <3>1. e.off + offset + i \in Nat /\ erases + 1 \in Nat
      BY <1>1
    <3>2. [at |-> e.off + offset + i, erases |-> erases + 1] \in Cell
      BY <3>1 DEF Cell
    <3> QED BY <1>2, <3>2, Zenon
  <2> QED BY <2>1 DEF PayloadCells
<1> QED BY <1>2, <1>3, Made DEF PayloadCells

LEMMA WrittenFacts ==
  ASSUME LogTypes, NEW e \in File
  PROVE  /\ Written(e) \in Seq(Cell) /\ Len(Written(e)) = PayloadLen(e)
         /\ \A i \in 1..PayloadLen(e) :
              Written(e)[i] = [at |-> e.off + i, erases |-> erases + 1]
<1>1. Written(e) \in [1..PayloadLen(e) -> Cell] /\ PayloadLen(e) \in Nat
  BY PayloadLenFacts DEF Written, Cell, LogTypes, File
<1> QED BY <1>1, Made DEF Written

\* What a transfer of e takes as its payload.
LEMMA PayloadWritten ==
  ASSUME LogTypes, NEW e \in File, e.off + PayloadLen(e) < top
  PROVE  Payload(e) = Written(e)
<1>1. /\ PayloadLen(e) \in Nat /\ e.off \in Nat /\ e.off + 0 + PayloadLen(e) < top
  BY PayloadLenFacts DEF File
<1>2. /\ Payload(e) \in Seq(Cell) /\ Len(Payload(e)) = PayloadLen(e)
      /\ \A i \in 1..PayloadLen(e) :
           Payload(e)[i] = [at |-> e.off + 0 + i, erases |-> erases + 1]
  BY <1>1, CellsFacts DEF Payload
<1>3. /\ Written(e) \in Seq(Cell) /\ Len(Written(e)) = PayloadLen(e)
      /\ \A i \in 1..PayloadLen(e) :
           Written(e)[i] = [at |-> e.off + i, erases |-> erases + 1]
  BY WrittenFacts
<1>4. \A i \in 1..Len(Payload(e)) : Payload(e)[i] = Written(e)[i]
  BY <1>1, <1>2, <1>3
<1> QED BY <1>2, <1>3, <1>4, SeqEqual

LEMMA FilesFacts ==
  ASSUME LogTypes
  PROVE  /\ Len(files) \in Nat /\ DOMAIN files = 1..Len(files)
         /\ \A i \in DOMAIN files : files[i] \in File
BY LenProperties, ElementOfSeq DEF LogTypes

LEMMA ListingFacts ==
  ASSUME LogTypes
  PROVE  /\ Listing \in Seq(Token) /\ Len(Listing) = Len(files) + 1
         /\ \A i \in 1..Len(files) :
              Listing[i] = [name |-> files[i].name, size |-> PayloadLen(files[i])]
         /\ Listing[Len(files) + 1] = EofToken
         /\ Ended(Listing)
<1> DEFINE Names ==
      [i \in DOMAIN files |-> [name |-> files[i].name, size |-> PayloadLen(files[i])]]
<1>1. /\ Len(files) \in Nat /\ DOMAIN files = 1..Len(files)
      /\ \A i \in DOMAIN files : files[i] \in File
  BY FilesFacts
<1>2. \A i \in DOMAIN files : files[i].name \in Nat \ {0} /\ PayloadLen(files[i]) \in Nat
  BY <1>1, PayloadLenFacts DEF File
<1>3. Names \in [1..Len(files) -> Token]
  BY <1>1, <1>2 DEF Token
<1>4. Names \in Seq(Token) /\ Len(Names) = Len(files)
  BY <1>1, <1>3, Made
<1>5. EofToken \in Token /\ EofToken.name = 0
  BY DEF EofToken, Token
<1>6. /\ Listing \in Seq(Token) /\ Len(Listing) = Len(files) + 1
      /\ \A i \in 1..Len(files) : Listing[i] = Names[i]
      /\ Listing[Len(files) + 1] = EofToken
  BY <1>4, <1>5, AppendProperties DEF Listing
<1>7. \A i \in 1..Len(files) :
        Listing[i] = [name |-> files[i].name, size |-> PayloadLen(files[i])]
  BY <1>1, <1>6
<1>8. \A i \in 1..Len(files) : Listing[i] # EofToken
  <2> TAKE i \in 1..Len(files)
  <2>1. Listing[i] = [name |-> files[i].name, size |-> PayloadLen(files[i])]
    BY <1>7
  <2>2. files[i].name # 0
    BY <1>1, <1>2
  <2> QED BY <1>5, <2>1, <2>2
<1>9. Ended(Listing)
  BY <1>1, <1>6, <1>8 DEF Ended
<1> QED BY <1>6, <1>7, <1>9

LEMMA RewrittenFacts ==
  ASSUME LogTypes, filename_listing \in Seq(Token)
  PROVE  /\ Rewritten \in Seq(Token) /\ Len(Rewritten) >= Len(Listing)
         /\ \A i \in 1..Len(Listing) : Rewritten[i] = Listing[i]
<1> DEFINE Rest == SubSeq(filename_listing, Len(Listing) + 1, Len(filename_listing))
<1>1. /\ Listing \in Seq(Token) /\ Len(Listing) \in Nat
  BY ListingFacts, LenProperties
<1>2. /\ Len(filename_listing) \in Nat
      /\ \A i \in (Len(Listing) + 1)..Len(filename_listing) : filename_listing[i] \in Token
  BY <1>1, LenProperties, ElementOfSeq
<1>3. Rest \in Seq(Token) /\ Len(Rest) \in Nat
  <2>1. Rest \in Seq(Token)
    BY <1>1, <1>2, SubSeqProperties
  <2> QED BY <2>1, LenProperties
<1>4. /\ Rewritten \in Seq(Token) /\ Len(Rewritten) = Len(Listing) + Len(Rest)
      /\ \A i \in 1..(Len(Listing) + Len(Rest)) :
           Rewritten[i] = IF i <= Len(Listing) THEN Listing[i] ELSE Rest[i - Len(Listing)]
  BY <1>1, <1>3, ConcatProperties DEF Rewritten
<1> QED BY <1>1, <1>3, <1>4


-----------------------------------------------------------------------------
(* The table as rows are logged. *)

\* The table gs has the files of fs, none shorter.
Grown(fs, gs) ==
  \A i \in DOMAIN fs :
    \E j \in DOMAIN gs :
      gs[j].name = fs[i].name /\ PayloadLen(fs[i]) <= PayloadLen(gs[j])

LEMMA KeptGrows ==
  ASSUME NEW list \in Seq(Token), NEW fs \in Seq(File), NEW gs \in Seq(File),
         KeptIn(list, fs), Grown(fs, gs)
  PROVE  KeptIn(list, gs)
<1> SUFFICES ASSUME NEW i \in DOMAIN list, list[i].name # 0
             PROVE  \E j \in DOMAIN gs :
                      gs[j].name = list[i].name /\ list[i].size <= PayloadLen(gs[j])
  BY DEF KeptIn
<1>1. PICK k \in DOMAIN fs : fs[k].name = list[i].name /\ list[i].size <= PayloadLen(fs[k])
  BY DEF KeptIn
<1>2. PICK j \in DOMAIN gs :
        gs[j].name = fs[k].name /\ PayloadLen(fs[k]) <= PayloadLen(gs[j])
  BY DEF Grown
<1>3. fs[k] \in File /\ gs[j] \in File /\ list[i] \in Token
  BY LenProperties, ElementOfSeq
<1>4. /\ PayloadLen(fs[k]) \in Nat /\ PayloadLen(gs[j]) \in Nat /\ list[i].size \in Nat
  BY <1>3, PayloadLenFacts DEF Token
<1>5. list[i].size <= PayloadLen(gs[j])
  BY <1>1, <1>2, <1>4
<1> QED BY <1>1, <1>2, <1>5

\* The file of today gets another row.
LEMMA RowAdded ==
  ASSUME LogTypes, Table, FileOfToday, UNCHANGED <<erases, today, mtu>>,
         files' = [files EXCEPT ![Len(files)].len = @ + 1], top' = top + 1
  PROVE  LogTypes' /\ Table' /\ Grown(files, files')
<1>1. /\ Len(files) \in Nat /\ DOMAIN files = 1..Len(files)
      /\ \A i \in DOMAIN files : files[i] \in File
  BY FilesFacts
<1>2. Len(files) > 0
  BY <1>1 DEF FileOfToday
<1> DEFINE last == Len(files)
           longer == [files[last] EXCEPT !.len = @ + 1]
<1>3. /\ longer \in File /\ longer.len = files[last].len + 1
      /\ longer.name = files[last].name /\ longer.off = files[last].off
      /\ longer.active = files[last].active
  BY <1>1, <1>2 DEF File
<1>4. files' = [files EXCEPT ![last] = longer]
  BY DEF LogTypes
<1> HIDE DEF longer
<1>5. /\ files' \in Seq(File) /\ Len(files') = last
      /\ \A j \in 1..last : files'[j] = IF j = last THEN longer ELSE files[j]
  BY <1>1, <1>2, <1>3, <1>4, ExceptSeq DEF LogTypes
<1>6. DOMAIN files' = 1..last
  BY <1>5, LenProperties
<1>7. LogTypes'
  BY <1>5 DEF LogTypes
<1>8. \A i \in 1..last : /\ files'[i].off = files[i].off /\ files'[i].name = files[i].name
                         /\ files'[i].active <=> files[i].active
                         /\ files'[i].len \in Nat /\ files[i].len \in Nat
                         /\ files'[i].off \in Nat
                         /\ files[i].len <= files'[i].len /\ files'[i].len <= files[i].len + 1
  <2> TAKE i \in 1..last
  <2>1. files[i] \in File /\ files[i].len \in Nat /\ files[i].off \in Nat
    BY <1>1 DEF File
  <2>2. CASE i = last
    BY <1>3, <1>5, <2>1, <2>2
  <2>3. CASE i # last
    BY <1>5, <2>1, <2>3
  <2> QED BY <2>2, <2>3
<1>9. Table'
  <2>1. ASSUME NEW i \in DOMAIN files'
        PROVE  /\ files'[i].off + files'[i].len <= top'
               /\ files'[i].len >= 3 /\ files'[i].name <= today'
               /\ files'[i].active <=> i = Len(files')
    <3>1. /\ files[i].off + files[i].len <= top
          /\ files[i].len >= 3 /\ files[i].name <= today
          /\ files[i].active <=> i = Len(files)
      BY <1>1, <1>6, <2>1 DEF Table
    <3>2. top \in Nat
      BY DEF LogTypes
    <3> QED BY <1>5, <1>6, <1>8, <2>1, <3>1, <3>2
  <2>2. ASSUME NEW i \in DOMAIN files', NEW j \in DOMAIN files', i < j
        PROVE  files'[i].name < files'[j].name
    BY <1>1, <1>6, <1>8, <2>2 DEF Table
  <2> QED BY <2>1, <2>2 DEF Table
<1>10. Grown(files, files')
  <2> SUFFICES ASSUME NEW i \in DOMAIN files
               PROVE  /\ i \in DOMAIN files' /\ files'[i].name = files[i].name
                      /\ PayloadLen(files[i]) <= PayloadLen(files'[i])
    BY DEF Grown
  <2>1. files[i].len >= 3
    BY DEF Table
  <2>2. files[i] \in File /\ files'[i] \in File /\ files'[i].len >= 3
    BY <1>1, <1>3, <1>5, <1>8, <2>1
  <2>3. /\ PayloadLen(files[i]) = files[i].len - 1 - (IF files[i].active THEN 0 ELSE 1)
        /\ PayloadLen(files'[i]) = files'[i].len - 1 - (IF files'[i].active THEN 0 ELSE 1)
    BY <2>1, <2>2, PayloadLenFacts
  <2> QED BY <1>1, <1>6, <1>8, <2>3
<1> QED BY <1>7, <1>9, <1>10

\* The open file is closed and another opened.
LEMMA FileOpened ==
  ASSUME LogTypes, Table, ~FileOfToday, UNCHANGED <<erases, today, mtu>>,
         files' = Append(Closed(files),
                         [name |-> today, off |-> top, len |-> 3, active |-> TRUE]),
         top' = top + 3
  PROVE  LogTypes' /\ Table' /\ Grown(files, files')
<1> DEFINE last  == Len(files)
           fresh == [name |-> today, off |-> top, len |-> 3, active |-> TRUE]
<1>1. /\ last \in Nat /\ DOMAIN files = 1..last
      /\ \A i \in DOMAIN files : files[i] \in File
  BY FilesFacts
<1>2. \A i \in 1..last : /\ files[i].len \in Nat /\ files[i].off \in Nat
                         /\ files[i].name \in Nat \ {0} /\ files[i].active \in BOOLEAN
  BY <1>1 DEF File
<1> DEFINE shut(i) == [name |-> files[i].name, off |-> files[i].off,
                       len |-> files[i].len + 1, active |-> FALSE]
<1>3. \A i \in 1..last :
        /\ Closed(files)[i] \in File
        /\ Closed(files)[i].name = files[i].name /\ Closed(files)[i].off = files[i].off
        /\ Closed(files)[i].active = FALSE
        /\ Closed(files)[i].len = IF files[i].active THEN files[i].len + 1 ELSE files[i].len
  <2> TAKE i \in 1..last
  <2>1. /\ shut(i) \in File /\ shut(i).name = files[i].name /\ shut(i).off = files[i].off
        /\ shut(i).active = FALSE /\ shut(i).len = files[i].len + 1
    BY <1>1, <1>2 DEF File
  <2>2. Closed(files)[i] = IF files[i].active THEN shut(i) ELSE files[i]
    BY <1>1 DEF Closed
  <2>3. CASE files[i].active
    BY <2>1, <2>2, <2>3
  <2>4. CASE ~files[i].active
    BY <1>1, <1>2, <2>2, <2>4
  <2> QED BY <2>3, <2>4
<1>4. Closed(files) \in Seq(File) /\ Len(Closed(files)) = last
  <2>1. \A i \in 1..last : (IF files[i].active THEN shut(i) ELSE files[i]) \in File
    BY <1>1, <1>2 DEF File
  <2>2. Closed(files) \in [1..last -> File]
    BY <1>1, <2>1 DEF Closed
  <2> QED BY <1>1, <2>2, Made
<1>5. fresh \in File
  BY DEF File, LogTypes
<1>6. /\ files' \in Seq(File) /\ Len(files') = last + 1
      /\ \A i \in 1..last : files'[i] = Closed(files)[i]
      /\ files'[last + 1] = fresh
  BY <1>4, <1>5, AppendProperties
<1>7. DOMAIN files' = 1..(last + 1)
  BY <1>6, LenProperties
<1>8. LogTypes'
  BY <1>6 DEF LogTypes
<1>9. \A i \in 1..last : /\ files'[i].name = files[i].name /\ files'[i].off = files[i].off
                         /\ files'[i].active = FALSE
                         /\ files'[i].len = IF files[i].active THEN files[i].len + 1
                                                               ELSE files[i].len
  BY <1>3, <1>6
<1>10. top \in Nat /\ today \in Nat
  BY DEF LogTypes
<1>11. \A i \in 1..last : files[i].name < today
  <2> TAKE i \in 1..last
  <2>1. files[i].name <= today /\ files[i].name # today /\ files[i].name \in Nat
    BY <1>1, <1>2 DEF Table, FileOfToday
  <2> QED BY <1>10, <2>1
<1>12. \A i \in 1..last : files[i].off + files[i].len <= top /\ files[i].len >= 3
  BY <1>1 DEF Table
<1>13. Table'
  <2>1. ASSUME NEW i \in DOMAIN files'
        PROVE  /\ files'[i].off + files'[i].len <= top'
               /\ files'[i].len >= 3 /\ files'[i].name <= today'
               /\ files'[i].active <=> i = Len(files')
    <3>1. CASE i = last + 1
      BY <1>6, <1>10, <3>1
    <3>2. CASE i \in 1..last
      <4>1. /\ files'[i].name = files[i].name /\ files'[i].off = files[i].off
            /\ files'[i].active = FALSE
            /\ files'[i].len = files[i].len \/ files'[i].len = files[i].len + 1
        BY <1>9, <3>2
      <4>2. /\ files[i].off + files[i].len <= top /\ files[i].len >= 3
            /\ files[i].name < today
            /\ files[i].off \in Nat /\ files[i].len \in Nat /\ files[i].name \in Nat
        BY <1>2, <1>11, <1>12, <3>2
      <4>3. files'[i].off + files'[i].len <= top' /\ files'[i].len >= 3
        BY <1>10, <4>1, <4>2, SMTT(60)
      <4>4. files'[i].name <= today'
        BY <1>10, <4>1, <4>2, SMTT(60)
      <4>5. ~files'[i].active /\ i # Len(files')
        BY <1>1, <1>6, <3>2, <4>1
      <4> QED BY <4>3, <4>4, <4>5
    <3> QED BY <1>1, <1>7, <2>1, <3>1, <3>2
  <2>2. ASSUME NEW i \in DOMAIN files', NEW j \in DOMAIN files', i < j
        PROVE  files'[i].name < files'[j].name
    <3>1. i \in 1..last
      BY <1>1, <1>7, <2>2
    <3>2. CASE j = last + 1
      BY <1>6, <1>9, <1>11, <3>1, <3>2
    <3>3. CASE j \in 1..last
      BY <1>1, <1>9, <2>2, <3>1, <3>3 DEF Table
    <3> QED BY <1>1, <1>7, <2>2, <3>2, <3>3
  <2> QED BY <2>1, <2>2 DEF Table
<1>14. Grown(files, files')
  <2> SUFFICES ASSUME NEW i \in DOMAIN files
               PROVE  /\ i \in DOMAIN files' /\ files'[i].name = files[i].name
                      /\ PayloadLen(files[i]) <= PayloadLen(files'[i])
    BY DEF Grown
  <2>1. files[i] \in File /\ files'[i] \in File /\ files[i].len >= 3 /\ files'[i].len >= 3
    BY <1>1, <1>2, <1>3, <1>6, <1>9, <1>12
  <2>2. /\ PayloadLen(files[i]) = files[i].len - 1 - (IF files[i].active THEN 0 ELSE 1)
        /\ PayloadLen(files'[i]) = files'[i].len - 1 - (IF files'[i].active THEN 0 ELSE 1)
    BY <2>1, PayloadLenFacts
  <2>3. /\ i \in 1..last /\ i \in DOMAIN files' /\ files'[i].name = files[i].name
        /\ files[i].len \in Nat
    BY <1>1, <1>2, <1>7, <1>9
  <2>4. CASE files[i].active
    BY <1>9, <2>2, <2>3, <2>4
  <2>5. CASE ~files[i].active
    BY <1>9, <2>2, <2>3, <2>5
  <2> QED BY <2>3, <2>4, <2>5
<1> QED BY <1>8, <1>13, <1>14


-----------------------------------------------------------------------------
(* The steps of the log and of the link. *)

LEMMA LesserFacts ==
  ASSUME LogTypes, NEW left \in Nat
  PROVE  /\ Lesser(mtu, left) \in 0..left
         /\ left > 0 => Lesser(mtu, left) > 0
BY DEF LogTypes, Lesser

\* An unchanged prefix stays one, and so does what has come so far.
LEMMA PrefixFacts ==
  ASSUME NEW S, NEW whole \in Seq(S), NEW had \in Seq(S), NEW data \in Seq(S), NEW n,
         Prefix(whole, had, data, n)
  PROVE  /\ Prefix(whole, had, <<>>, Len(had))
         /\ had \o data \in Seq(S) /\ Len(had \o data) = n
         /\ Prefix(whole, had \o data, <<>>, Len(had \o data))
<1>1. /\ Len(had) \in Nat /\ Len(data) \in Nat /\ Len(whole) \in Nat
  BY LenProperties
<1>2. /\ Len(had) + Len(data) = n /\ n <= Len(whole)
      /\ \A i \in 1..Len(had) : had[i] = whole[i]
      /\ \A i \in 1..Len(data) : data[i] = whole[Len(had) + i]
  BY DEF Prefix
<1>3. Len(<<>>) = 0
  BY EmptySeq
<1>4. /\ had \o data \in Seq(S) /\ Len(had \o data) = Len(had) + Len(data)
      /\ \A i \in 1..Len(had) + Len(data) :
           (had \o data)[i] = IF i <= Len(had) THEN had[i] ELSE data[i - Len(had)]
  BY ConcatProperties
<1>5. ASSUME NEW i \in 1..n
      PROVE  (had \o data)[i] = whole[i]
  <2>1. CASE i <= Len(had)
    BY <1>1, <1>2, <1>4, <2>1
  <2>2. CASE i > Len(had)
    <3>1. i - Len(had) \in 1..Len(data) /\ Len(had) + (i - Len(had)) = i
      BY <1>1, <1>2, <2>2
    <3> QED BY <1>1, <1>2, <1>4, <2>2, <3>1
  <2> QED BY <1>1, <1>2, <2>1, <2>2
<1> QED BY <1>1, <1>2, <1>3, <1>4, <1>5 DEF Prefix

LEMMA InitData == Init => DataInv
<1> SUFFICES ASSUME Init PROVE DataInv
  OBVIOUS
<1>1. LogTypes /\ Table
  <2>1. files = <<>> /\ <<>> \in Seq(File) /\ DOMAIN <<>> = {}
    BY EmptySeq, LenProperties DEF Init
  <2> QED BY <2>1 DEF Init, LogTypes, Table
<1>2. Listings
  <2>1. listed = <<>> /\ filename_listing = <<>> /\ <<>> \in Seq(Token) /\ DOMAIN <<>> = {}
    BY EmptySeq, LenProperties DEF Init
  <2> QED BY <2>1 DEF Init, Listings, KeptIn
<1> QED
  BY <1>1, <1>2 DEF Init, DataInv, Found, Sending, Slicing, ListedIsFetched

\* Steps of the log that erase nothing, and of the link.
LEMMA SteadyData ==
  ASSUME DataInv, LogTypes', Table', Grown(files, files'), top <= top',
         UNCHANGED <<erases, sendVars, transferVars, listingVars, starting, clientVars>>
  PROVE  DataInv'
<1> USE DEF DataInv, sendVars, transferVars, listingVars, clientVars, fetchVars, listVars
<1>1. Found'
  <2> SUFFICES ASSUME client \in {"file", "fetched"}, wantErases = erases
               PROVE  /\ transfer_entry \in File
                      /\ transfer_entry.len >= 3
                      /\ transfer_entry.off + PayloadLen(transfer_entry) < top'
                      /\ want = Written(transfer_entry)
    BY DEF Found, Written
  <2>1. /\ transfer_entry \in File
        /\ transfer_entry.len >= 3
        /\ transfer_entry.off + PayloadLen(transfer_entry) < top
        /\ want = Written(transfer_entry)
    BY DEF Found
  <2>2. transfer_entry.off \in Nat /\ PayloadLen(transfer_entry) \in Nat
    BY <2>1, PayloadLenFacts DEF File
  <2>3. top \in Nat /\ top' \in Nat
    BY DEF LogTypes
  <2>4. transfer_entry.off + PayloadLen(transfer_entry) < top'
    BY <2>1, <2>2, <2>3
  <2> QED BY <2>1, <2>4
<1>2. Sending'
  BY DEF Sending
<1>3. Slicing'
  BY DEF Slicing
<1>4. Listings'
  <2>1. \A list \in Seq(Token) : KeptIn(list, files) => KeptIn(list, files')
    BY KeptGrows DEF LogTypes
  <2>2. client = "list" /\ ~tangled => listWant \in Seq(Token)
    BY DEF Slicing, Ended
  <2> QED BY <2>1, <2>2 DEF Listings
<1>5. ListedIsFetched'
  BY DEF ListedIsFetched
<1> QED BY <1>1, <1>2, <1>3, <1>4, <1>5

LEMMA LogRowData ==
  ASSUME DataInv, LogRow
  PROVE  DataInv'
<1>1. LogTypes' /\ Table' /\ Grown(files, files') /\ top <= top'
  <2>1. LogTypes /\ Table /\ UNCHANGED <<erases, today, mtu>> /\ top \in Nat
    BY DEF DataInv, LogRow, linkVars, LogTypes
  <2>2. CASE /\ FileOfToday
             /\ files' = [files EXCEPT ![Len(files)].len = @ + 1]
             /\ top' = top + 1
    <3>1. LogTypes' /\ Table' /\ Grown(files, files')
      BY <2>1, <2>2, RowAdded
    <3> QED BY <2>1, <2>2, <3>1
  <2>3. CASE /\ ~FileOfToday
             /\ files' = Append(Closed(files),
                                [name |-> today, off |-> top, len |-> 3, active |-> TRUE])
             /\ top' = top + 3
    <3>1. LogTypes' /\ Table' /\ Grown(files, files')
      BY <2>1, <2>3, FileOpened, Zenon
    <3>2. top <= top'
      BY <2>1, <2>3
    <3> QED BY <3>1, <3>2
  <2> QED BY <2>2, <2>3 DEF LogRow
<1> QED BY <1>1, SteadyData DEF LogRow

LEMMA SameGrown ==
  ASSUME LogTypes
  PROVE  Grown(files, files)
BY FilesFacts, PayloadLenFacts DEF Grown

\* Steps that leave the log and the transfers alone.
LEMMA LinkData ==
  ASSUME DataInv, today' \in Nat \ {0}, today <= today', mtu' \in Nat \ {0},
         UNCHANGED <<files, top, erases, sendVars, transferVars, listingVars, starting,
                     clientVars>>
  PROVE  DataInv'
<1>1. LogTypes'
  BY DEF DataInv, LogTypes
<1>2. Table'
  <2>1. \A i \in DOMAIN files : files[i].name \in Nat /\ files[i].name <= today
    BY FilesFacts DEF DataInv, Table, File
  <2>2. \A i \in DOMAIN files : files[i].name <= today'
    BY <2>1 DEF DataInv, LogTypes
  <2> QED BY <2>2 DEF DataInv, Table
<1>3. Grown(files, files') /\ top <= top'
  BY SameGrown DEF DataInv, LogTypes
<1> QED BY <1>1, <1>2, <1>3, SteadyData

LEMMA ClearMemoryData ==
  ASSUME DataInv, ClearMemory
  PROVE  DataInv'
<1> USE DEF ClearMemory, linkVars, sendVars, transferVars, listingVars, fetchVars
<1>1. <<>> \in Seq(File) /\ <<>> \in Seq(Token) /\ DOMAIN <<>> = {}
  BY EmptySeq, LenProperties
<1>2. erases \in Nat /\ wantErases \in Nat /\ wantErases <= erases
  BY DEF DataInv, LogTypes
<1>3. wantErases' < erases' /\ wantErases' # erases'
  BY <1>2
<1>4. LogTypes' /\ Table'
  BY <1>1, <1>2 DEF DataInv, LogTypes, Table
<1>5. Found' /\ Sending' /\ ListedIsFetched'
  BY <1>3 DEF Found, Sending, ListedIsFetched
<1>6. Slicing'
  BY DEF DataInv, Slicing
<1>7. Listings'
  BY <1>1, <1>3 DEF DataInv, Listings, KeptIn
<1> QED BY <1>2, <1>3, <1>4, <1>5, <1>6, <1>7 DEF DataInv


-----------------------------------------------------------------------------
(* The steps of a file transfer. *)

LEMMA IndFacts ==
  /\ NoInd.k = "none"
  /\ \A k, data : Ind(k, data).k = k /\ Ind(k, data).data = data
BY DEF NoInd, Ind

LEMMA EmptyPrefix ==
  ASSUME NEW S, NEW whole \in Seq(S)
  PROVE  Prefix(whole, <<>>, <<>>, Len(<<>>))
BY EmptySeq, LenProperties DEF Prefix

LEMMA WriteFilenameData ==
  ASSUME IInv, DataInv, WriteFilename
  PROVE  DataInv'
<1> USE DEF WriteFilename, logVars, linkVars, sendVars, listingVars
<1>1. PICK i \in DOMAIN files :
        /\ transfer_entry' = files[i] /\ transfer_offset' = 0
        /\ want' = Payload(files[i]) /\ wantErases' = erases
  BY DEF StartTransfer
<1>2. LogTypes /\ Table /\ ~starting /\ erases \in Nat /\ top \in Nat
  BY DEF DataInv, Asks, LogTypes
<1>3. files[i] \in File /\ files[i].len >= 3 /\ files[i].off + files[i].len <= top
  BY <1>2, FilesFacts DEF Table
<1>4. /\ PayloadLen(files[i]) \in Nat /\ PayloadLen(files[i]) < files[i].len
      /\ files[i].off \in Nat /\ files[i].len \in Nat /\ files[i].name \in Nat \ {0}
  BY <1>3, PayloadLenFacts DEF File
<1>5. files[i].off + PayloadLen(files[i]) < top
  BY <1>2, <1>3, <1>4
<1>6. want' = Written(files[i])
  BY <1>1, <1>2, <1>3, <1>5, PayloadWritten
<1>7. want' \in Seq(Cell) /\ Len(want') = PayloadLen(files[i])
  BY <1>2, <1>3, <1>6, WrittenFacts
<1>8. LogTypes' /\ Table'
  BY <1>2 DEF LogTypes, Table
<1>9. Found'
  <2>1. Written(files[i])' = Written(files[i])
    BY DEF Written
  <2> QED BY <1>1, <1>3, <1>5, <1>6 DEF Found, Written
<1>10. Sending'
  <2> SUFFICES ASSUME ~tangled' PROVE Sending'
    BY DEF Sending
  <2>1. air.k = "none" /\ air' = air
    BY DEF Asks, IInv, ActiveIsDriven
  <2>2. got' = <<>> /\ <<>> \in Seq(Cell) /\ client' = "file"
    BY EmptySeq
  <2>3. Prefix(want', got', <<>>, Len(got'))
    BY <1>7, <2>2, EmptyPrefix
  <2> QED BY <1>1, <1>4, <2>1, <2>2, <2>3 DEF Sending, Cell
<1>11. Slicing' /\ Listings'
  BY DEF DataInv, Slicing, Listings
<1>12. ListedIsFetched'
  <2> SUFFICES ASSUME NEW k \in DOMAIN listed, listed[k].name = files[i].name
               PROVE  listed[k].size <= PayloadLen(files[i])
    BY <1>1, <1>7 DEF ListedIsFetched
  <2>1. PICK j \in DOMAIN files :
          files[j].name = listed[k].name /\ listed[k].size <= PayloadLen(files[j])
    BY <1>4 DEF DataInv, Listings, KeptIn
  <2>2. i = j
    <3>1. /\ i < j => files[i].name < files[j].name
          /\ j < i => files[j].name < files[i].name
      BY <1>2 DEF Table
    <3>2. i \in Nat /\ j \in Nat
      BY <1>2, FilesFacts
    <3> QED BY <1>4, <2>1, <3>1, <3>2
  <2> QED BY <2>1, <2>2
<1>13. wantErases' \in Nat /\ wantErases' <= erases' /\ client' = "file"
  BY <1>1, <1>2
<1> QED BY <1>8, <1>9, <1>10, <1>11, <1>12, <1>13 DEF DataInv

\* continue_file_transfer sends what comes next of want, from what the gateway
\* has with this step received on.
LEMMA ContinueSends ==
  ASSUME LogTypes, Found, Continue(FALSE), starting' = FALSE,
         client \in {"file", "fetched"}, ~tangled, wantErases = erases,
         client' \in {"file", "fetched"}, UNCHANGED <<want, tangled, wantErases, erases>>,
         transfer_offset \in 0..PayloadLen(transfer_entry),
         got' \in Seq(Cell), Prefix(want, got', <<>>, Len(got')),
         client' = "file" => ~transfer_active \/ Len(got') = transfer_offset,
         client' = "fetched" => ~transfer_active /\ Len(got') = Len(want)
  PROVE  Sending'
<1> DEFINE left == PayloadLen(transfer_entry) - transfer_offset
           n == ChunkLen(left)
           data == PayloadCells(transfer_entry, transfer_offset, n)
<1>1. /\ transfer_entry \in File
      /\ transfer_entry.off + PayloadLen(transfer_entry) < top
      /\ want = Written(transfer_entry)
  BY DEF Found
<1>2. /\ PayloadLen(transfer_entry) \in Nat /\ transfer_entry.off \in Nat /\ top \in Nat
  BY <1>1, PayloadLenFacts DEF File, LogTypes
<1>3. /\ want \in Seq(Cell) /\ Len(want) = PayloadLen(transfer_entry)
      /\ \A i \in 1..Len(want) :
           want[i] = [at |-> transfer_entry.off + i, erases |-> erases + 1]
  BY <1>1, WrittenFacts
<1>4. /\ left \in Nat /\ transfer_offset \in Nat
      /\ transfer_offset + left = PayloadLen(transfer_entry)
  BY <1>2
<1>5. n \in 0..left /\ (left > 0 => n > 0)
  BY <1>4, LesserFacts DEF ChunkLen
<1>6. Len(got') \in Nat /\ Len(<<>>) = 0
  BY LenProperties, EmptySeq
<1> HIDE DEF left, n, data
<1>7. CASE ~transfer_active /\ NotSent(FALSE) /\ UNCHANGED transferVars
  <2>1. air'.k = "none" /\ transfer_offset' = transfer_offset /\ transfer_entry' = transfer_entry
    BY <1>7, NotSentFacts DEF transferVars
  <2> QED BY <2>1 DEF Sending, Cell
<1>8. CASE /\ transfer_active /\ Sent(FALSE, Ind("file", data))
           /\ transfer_offset' = transfer_offset + n /\ UNCHANGED transfer_entry
  <2>1. air'.k = "file" /\ air'.data = data /\ client' = "file" /\ Len(got') = transfer_offset
    BY <1>8, IndFacts DEF Sent
  <2>2. transfer_entry.off + transfer_offset + n < top /\ n \in Nat
    BY <1>1, <1>2, <1>4, <1>5
  <2>3. /\ data \in Seq(Cell) /\ Len(data) = n
        /\ \A i \in 1..n :
             data[i] = [at |-> transfer_entry.off + transfer_offset + i, erases |-> erases + 1]
    BY <1>1, <1>4, <2>2, CellsFacts DEF data
  <2>4. \A i \in 1..n : data[i] = want[Len(got') + i]
    <3> TAKE i \in 1..n
    <3>1. /\ Len(got') + i \in 1..Len(want)
          /\ transfer_entry.off + (Len(got') + i) = transfer_entry.off + transfer_offset + i
      BY <1>2, <1>3, <1>4, <1>5, <2>1
    <3>2. want[Len(got') + i]
            = [at |-> transfer_entry.off + (Len(got') + i), erases |-> erases + 1]
      BY <1>3, <3>1
    <3> QED BY <2>3, <3>1, <3>2
  <2>5. Prefix(want, got', data, transfer_offset')
    <3>1. Len(got') + Len(data) = transfer_offset' /\ transfer_offset' <= Len(want)
      BY <1>2, <1>3, <1>4, <1>5, <1>8, <2>1, <2>3
    <3>2. \A i \in 1..Len(got') : got'[i] = want[i]
      BY Zenon DEF Prefix
    <3>3. \A i \in 1..Len(data) : data[i] = want[Len(got') + i]
      BY <2>3, <2>4
    <3> QED BY <3>1, <3>2, <3>3, Zenon DEF Prefix
  <2>6. transfer_offset' \in 0..PayloadLen(transfer_entry)
    BY <1>2, <1>4, <1>5, <1>8
  <2> QED BY <1>8, <2>1, <2>3, <2>5, <2>6 DEF Sending, Cell
<1>9. CASE /\ transfer_active /\ left = 0 /\ Sent(FALSE, Ind("eof", <<>>))
           /\ transfer_eof_pending' = TRUE /\ UNCHANGED <<transfer_entry, transfer_offset>>
  <2>1. air'.k = "eof" /\ client' = "file" /\ Len(got') = transfer_offset
    BY <1>9, IndFacts DEF Sent
  <2>2. Len(got') = Len(want)
    BY <1>2, <1>3, <1>4, <1>9, <2>1
  <2> QED BY <1>9, <2>1, <2>2 DEF Sending, Cell
<1>10. CASE /\ transfer_active /\ Refused(FALSE)
            /\ transfer_offset' = transfer_offset + n /\ UNCHANGED transfer_entry
  <2>1. air'.k = "none"
    BY <1>10, RefusedFacts, NotSentFacts
  <2>2. transfer_offset' \in 0..PayloadLen(transfer_entry)
    BY <1>2, <1>4, <1>5, <1>10
  <2> QED BY <1>10, <2>1, <2>2 DEF Sending, Cell
<1> QED BY <1>7, <1>8, <1>9, <1>10 DEF Continue, left, n, data

\* Whatever continue_file_transfer does, it sends from the same entry.
LEMMA ContinueKeepsEntry ==
  ASSUME NEW pending, Continue(pending)
  PROVE  transfer_entry' = transfer_entry
BY DEF Continue, transferVars


\* What a step that leaves the log, the entry and the listings alone has still
\* to show.
LEMMA TransferData ==
  ASSUME DataInv, UNCHANGED <<logVars, mtu, transfer_entry, want, wantErases, listed,
                              filename_listing>>,
         client' \in {"idle", "file", "fetched", "list", "listed"},
         client' \in {"file", "fetched"} => client \in {"file", "fetched"},
         ~(client' = "list" /\ ~tangled'),
         Sending', Slicing'
  PROVE  DataInv'
<1> USE DEF DataInv, logVars
<1>1. LogTypes' /\ Table'
  BY DEF LogTypes, Table
<1>2. Found'
  BY DEF Found, Written
<1>3. Listings' /\ ListedIsFetched'
  BY DEF Listings, ListedIsFetched
<1> QED BY <1>1, <1>2, <1>3

LEMMA SendFirstData ==
  ASSUME IInv, DataInv, SendFirst
  PROVE  DataInv'
<1> USE DEF SendFirst, linkVars, logVars, listingVars, clientVars, fetchVars, listVars
<1>1. transfer_entry' = transfer_entry
  BY ContinueKeepsEntry
<1>2. starting /\ starting' = FALSE /\ indication_pending \in BOOLEAN
  BY DEF IInv, Flags
<1>3. Sending'
  <2> SUFFICES ASSUME client \in {"file", "fetched"}, ~tangled, wantErases = erases
               PROVE  Sending'
    BY DEF Sending
  <2>1. /\ client = "file" /\ got = <<>> /\ transfer_offset = 0 /\ air.k = "none"
        /\ transfer_offset \in 0..PayloadLen(transfer_entry)
        /\ got \in Seq(Cell) /\ Prefix(want, got, <<>>, Len(got))
    BY <1>2 DEF DataInv, Sending, Cell
  <2>2. indication_pending = FALSE
    BY <1>2, <2>1 DEF IInv, ActiveIsDriven
  <2>3. Continue(FALSE)
    BY <2>2
  <2>4. Len(got) = 0
    BY <2>1, EmptySeq
  <2>5. LogTypes /\ Found
    BY DEF DataInv
  <2> QED BY <1>2, <2>1, <2>3, <2>4, <2>5, ContinueSends
<1>4. ~(client \in {"list", "listed"} /\ ~tangled)
  BY <1>2 DEF DataInv, Slicing
<1>5. Slicing'
  BY <1>4 DEF Slicing
<1> QED BY <1>1, <1>3, <1>4, <1>5, TransferData DEF DataInv

\* The gateway takes a chunk of the file, or its end.
LEMMA ReceivedTransfer ==
  ASSUME IInv, DataInv, Received, air.k \in {"file", "eof"}, ~starting
  PROVE  /\ listed' = listed
         /\ client' \in {"idle", "file", "fetched", "list", "listed"}
         /\ ~(client' \in {"list", "listed"} /\ ~tangled)
         /\ client' \in {"file", "fetched"} => client \in {"file", "fetched"}
         /\ client' \in {"file", "fetched"} /\ ~tangled /\ wantErases = erases =>
              /\ transfer_offset \in 0..PayloadLen(transfer_entry)
              /\ got' \in Seq(Cell) /\ Prefix(want, got', <<>>, Len(got'))
              /\ air.k = "file" => client' = "file" /\ Len(got') = transfer_offset
              /\ air.k = "eof" => /\ client' = "fetched" /\ transfer_eof_pending
                                  /\ Len(got') = Len(want)
<1> DEFINE complete == client = "list" /\ EofToken \in {listGot'[i] : i \in DOMAIN listGot'}
<1>1. ~(client \in {"list", "listed"} /\ ~tangled)
  BY DEF DataInv, Slicing
<1>2. /\ client' = IF air.k = "eof" /\ client = "file" THEN "fetched"
                   ELSE IF complete THEN "listed" ELSE client
      /\ listed' = IF complete /\ ~tangled /\ wantErases = erases THEN listGot' ELSE listed
      /\ got' = IF air.k = "file" /\ client = "file" THEN got \o air.data ELSE got
  BY DEF Received
<1> HIDE DEF complete
<1>3. complete => client = "list"
  BY DEF complete
<1>4. listed' = listed
  BY <1>1, <1>2, <1>3
<1>5. /\ client' \in {"idle", "file", "fetched", "list", "listed"}
      /\ ~(client' \in {"list", "listed"} /\ ~tangled)
      /\ client' \in {"file", "fetched"} => client \in {"file", "fetched"}
  BY <1>1, <1>2, <1>3 DEF DataInv
<1>6. ASSUME client' \in {"file", "fetched"}, ~tangled, wantErases = erases
      PROVE  /\ transfer_offset \in 0..PayloadLen(transfer_entry)
             /\ got' \in Seq(Cell) /\ Prefix(want, got', <<>>, Len(got'))
             /\ air.k = "file" => client' = "file" /\ Len(got') = transfer_offset
             /\ air.k = "eof" => /\ client' = "fetched" /\ transfer_eof_pending
                                 /\ Len(got') = Len(want)
  <2>1. /\ client \in {"file", "fetched"}
        /\ transfer_offset \in 0..PayloadLen(transfer_entry)
        /\ got \in Seq(Cell) /\ Prefix(want, got, <<>>, Len(got))
        /\ air.k = "file" => /\ client = "file" /\ air.data \in Seq(Cell)
                             /\ Prefix(want, got, air.data, transfer_offset)
        /\ air.k = "eof" => /\ client = "file" /\ transfer_eof_pending
                            /\ Len(got) = Len(want)
    BY <1>5, <1>6 DEF DataInv, Sending, Cell
  <2>2. want \in Seq(Cell)
    BY <1>6, <2>1, WrittenFacts DEF DataInv, Found
  <2>3. CASE air.k = "file"
    <3>1. client' = "file" /\ got' = got \o air.data
      BY <1>2, <1>3, <2>1, <2>3
    <3>2. /\ got \o air.data \in Seq(Cell) /\ Len(got \o air.data) = transfer_offset
          /\ Prefix(want, got \o air.data, <<>>, Len(got \o air.data))
      BY <2>1, <2>2, <2>3, PrefixFacts
    <3> QED BY <2>1, <2>3, <3>1, <3>2
  <2>4. CASE air.k = "eof"
    <3>1. client' = "fetched" /\ got' = got
      BY <1>2, <2>1, <2>4
    <3> QED BY <2>1, <2>4, <3>1
  <2> QED BY <2>3, <2>4
<1> QED BY <1>4, <1>5, <1>6

LEMMA ConfirmTransferData ==
  ASSUME IInv, DataInv, ConfirmTransfer
  PROVE  DataInv'
<1> USE DEF ConfirmTransfer
<1>1. /\ ~starting /\ starting' = FALSE /\ air.k \in {"file", "eof"} /\ Received
      /\ UNCHANGED <<logVars, mtu, listingVars, want, wantErases, tangled>>
  BY DEF Received, linkVars, IInv, Flags
<1>2. /\ listed' = listed
      /\ client' \in {"idle", "file", "fetched", "list", "listed"}
      /\ ~(client' \in {"list", "listed"} /\ ~tangled)
      /\ client' \in {"file", "fetched"} => client \in {"file", "fetched"}
  BY <1>1, ReceivedTransfer
<1>3. ASSUME client' \in {"file", "fetched"}, ~tangled, wantErases = erases
      PROVE  /\ transfer_offset \in 0..PayloadLen(transfer_entry)
             /\ got' \in Seq(Cell) /\ Prefix(want, got', <<>>, Len(got'))
             /\ air.k = "file" => client' = "file" /\ Len(got') = transfer_offset
             /\ air.k = "eof" => /\ client' = "fetched" /\ transfer_eof_pending
                                 /\ Len(got') = Len(want)
  BY <1>1, <1>3, ReceivedTransfer
<1>4. CASE transfer_eof_pending /\ StopTransfer /\ NotSent(FALSE)
           /\ UNCHANGED <<transfer_entry, transfer_offset>>
  <2>1. air'.k = "none"
    BY <1>4, NotSentFacts
  <2>2. air.k = "eof"
    BY <1>4 DEF IInv, ActiveIsDriven
  <2>3. Sending'
    <3> SUFFICES ASSUME client' \in {"file", "fetched"}, ~tangled, wantErases = erases
                 PROVE  Sending'
      BY <1>1 DEF Sending, logVars
    <3> QED BY <1>1, <1>3, <1>4, <2>1, <2>2 DEF Sending, Cell, logVars
  <2> QED BY <1>1, <1>2, <1>4, <2>3, TransferData DEF Slicing, listingVars
<1>5. CASE ~transfer_eof_pending /\ Continue(FALSE)
  <2>1. transfer_entry' = transfer_entry
    BY <1>5, ContinueKeepsEntry
  <2>2. Sending'
    <3> SUFFICES ASSUME client' \in {"file", "fetched"}, ~tangled, wantErases = erases
                 PROVE  Sending'
      BY <1>1 DEF Sending, logVars
    <3>1. air.k = "file" /\ client' = "file" /\ Len(got') = transfer_offset
      BY <1>1, <1>3, <1>5
    <3>2. LogTypes /\ Found
      BY DEF DataInv
    <3> QED BY <1>1, <1>2, <1>3, <1>5, <3>1, <3>2, ContinueSends DEF logVars
  <2> QED BY <1>1, <1>2, <2>1, <2>2, TransferData DEF Slicing, listingVars
<1> QED BY <1>4, <1>5


-----------------------------------------------------------------------------
(* The steps of a listing. *)

\* send_next_listing_chunk cuts the next slice of listWant, from what the
\* gateway has with this step received on.
LEMMA ListingSends ==
  ASSUME LogTypes, NEW pending \in BOOLEAN,
         NEW buffer \in Seq(Token), NEW len, NEW offset,
         SendListing(pending, buffer, len, offset), ~starting',
         client' \in {"list", "listed"} /\ ~tangled' =>
           /\ ~pending /\ Ended(listWant')
           /\ len = Len(listWant') /\ len <= Len(buffer)
           /\ \A i \in 1..len : buffer[i] = listWant'[i]
           /\ listGot' \in Seq(Token) /\ Len(listGot') = offset
           /\ Prefix(listWant', listGot', <<>>, offset)
           /\ client' = "listed" => offset = len
  PROVE  Slicing'
<1> SUFFICES ASSUME client' \in {"list", "listed"}, ~tangled'
             PROVE  Slicing'
  BY DEF Slicing
<1>1. /\ pending = FALSE /\ Ended(listWant')
      /\ len = Len(listWant') /\ len <= Len(buffer)
      /\ \A i \in 1..len : buffer[i] = listWant'[i]
      /\ listGot' \in Seq(Token) /\ Len(listGot') = offset
      /\ Prefix(listWant', listGot', <<>>, offset)
      /\ client' = "listed" => offset = len
  OBVIOUS
<1>2. /\ listWant' \in Seq(Token) /\ len \in Nat /\ offset \in Nat /\ Len(buffer) \in Nat
      /\ len > 0 /\ mtu \in Nat
  BY <1>1, LenProperties DEF Ended, LogTypes
<1>3. offset <= len /\ \A i \in 1..offset : listGot'[i] = listWant'[i]
  BY <1>1, Zenon DEF Prefix
<1>4. client' = "listed" => listGot' = listWant'
  <2> SUFFICES ASSUME client' = "listed" PROVE listGot' = listWant'
    OBVIOUS
  <2>1. Len(listGot') = Len(listWant') /\ \A i \in 1..Len(listGot') : listGot'[i] = listWant'[i]
    BY <1>1, <1>3
  <2> QED BY <1>1, <1>2, <2>1, SeqEqual
<1>5. ASSUME air'.k = "none"
      PROVE  Slicing'
  BY <1>1, <1>4, <1>5 DEF Slicing
<1> DEFINE n == Lesser(mtu, len - offset)
           data == SubSeq(buffer, offset + 1, offset + n)
<1>6. CASE NotSent(pending)
  BY <1>1, <1>5, <1>6, NotSentFacts
<1>7. CASE Refused(pending)
  BY <1>1, <1>5, <1>7, RefusedFacts, NotSentFacts
<1>8. CASE /\ offset < len /\ Sent(pending, Ind("list", data))
           /\ listing_tx_active' = TRUE /\ listing_tx_offset' = offset + n
           /\ filename_listing' = buffer /\ listing_tx_len' = len
  <2>1. air'.k = "list" /\ air'.data = data
    BY <1>8, IndFacts DEF Sent
  <2>2. n \in 0..(len - offset) /\ n > 0
    <3>1. len - offset \in Nat /\ len - offset > 0
      BY <1>2, <1>8
    <3> QED BY <3>1, LesserFacts
  <2> HIDE DEF n
  <2>3. /\ n \in Nat /\ offset + 1 \in Int /\ offset + n \in Int
        /\ offset + n <= len /\ offset + 1 <= offset + n
        /\ offset + n - (offset + 1) + 1 = n
    BY <1>2, <2>2
  <2>4. \A i \in (offset + 1)..(offset + n) : buffer[i] \in Token
    <3>1. \A i \in 1..Len(buffer) : buffer[i] \in Token
      BY ElementOfSeq
    <3> QED BY <1>1, <1>2, <2>3, <3>1
  <2>5. /\ data \in Seq(Token) /\ Len(data) = n
        /\ \A i \in 1..n : data[i] = buffer[offset + 1 + i - 1]
    <3> DEFINE from == offset + 1
               to   == offset + n
    <3>1. /\ SubSeq(buffer, from, to) \in Seq(Token)
          /\ Len(SubSeq(buffer, from, to)) = IF from <= to THEN to - from + 1 ELSE 0
          /\ \A i \in 1..(to - from + 1) : SubSeq(buffer, from, to)[i] = buffer[from + i - 1]
      <4>1. from \in Int /\ to \in Int /\ \A i \in from..to : buffer[i] \in Token
        BY <2>3, <2>4
      <4> HIDE DEF from, to
      <4> QED BY <4>1, SubSeqProperties
    <3>2. from <= to /\ to - from + 1 = n
      BY <2>3
    <3> QED BY <3>1, <3>2
  <2> HIDE DEF data
  <2>6. \A i \in 1..n : data[i] = listWant'[offset + i]
    <3> TAKE i \in 1..n
    <3>1. offset + 1 + i - 1 = offset + i /\ offset + i \in 1..len
      <4>1. i \in Nat /\ 1 <= i /\ i <= n
        BY <2>3
      <4>2. /\ offset \in Nat /\ len \in Nat /\ n \in Nat /\ offset + n <= len
        BY <1>2, <2>3
      <4> QED BY <4>1, <4>2
    <3> QED BY <1>1, <2>5, <3>1
  <2>7. Prefix(listWant', listGot', data, offset + n)
    <3>1. Len(listGot') + Len(data) = offset + n /\ offset + n <= Len(listWant')
      BY <1>1, <2>3, <2>5
    <3>2. /\ \A i \in 1..Len(listGot') : listGot'[i] = listWant'[i]
          /\ \A i \in 1..Len(data) : data[i] = listWant'[Len(listGot') + i]
      BY <1>1, <1>3, <2>5, <2>6
    <3> QED BY <3>1, <3>2, Zenon DEF Prefix
  <2>8. client' = "list"
    BY <1>1, <1>2, <1>8
  <2>9. listing_tx_offset' \in 1..listing_tx_len'
    BY <1>2, <1>8, <2>3
  <2> QED
    BY <1>1, <1>8, <2>1, <2>5, <2>7, <2>8, <2>9 DEF Slicing
<1> QED BY <1>6, <1>7, <1>8 DEF SendListing

\* The buffer is the one that was to be sent from.
LEMMA SendListingBuffer ==
  ASSUME NEW pending, NEW buffer, NEW len, NEW offset,
         SendListing(pending, buffer, len, offset)
  PROVE  filename_listing' = buffer
BY DEF SendListing

LEMMA WriteListData ==
  ASSUME IInv, DataInv, WriteList
  PROVE  DataInv'
<1> USE DEF WriteList, linkVars, logVars, transferVars
<1>1. /\ LogTypes /\ ~starting' /\ indication_pending \in BOOLEAN
      /\ tangled' = indication_pending /\ filename_listing \in Seq(Token)
  BY DEF DataInv, Asks, Listings, IInv, Flags
<1>2. /\ Listing \in Seq(Token) /\ Ended(Listing) /\ Len(Listing) \in Nat
      /\ Rewritten \in Seq(Token) /\ Len(Rewritten) >= Len(Listing)
      /\ Len(Rewritten) \in Nat
      /\ \A i \in 1..Len(Listing) : Rewritten[i] = Listing[i]
  BY <1>1, ListingFacts, RewrittenFacts, LenProperties
<1>3. listWant' = Listing /\ listGot' = <<>> /\ client' = "list"
  OBVIOUS
<1>4. <<>> \in Seq(Token) /\ Len(<<>>) = 0 /\ Prefix(Listing, <<>>, <<>>, 0)
  BY <1>2, EmptySeq, EmptyPrefix
<1>5. filename_listing' = Rewritten
  BY SendListingBuffer
<1>6. SendListing(indication_pending, Rewritten, Len(Listing), 0)
  OBVIOUS
<1>7. Slicing'
  <2>1. /\ Ended(listWant') /\ Len(Listing) = Len(listWant')
        /\ Len(Listing) <= Len(Rewritten)
        /\ \A i \in 1..Len(Listing) : Rewritten[i] = listWant'[i]
        /\ listGot' \in Seq(Token) /\ Len(listGot') = 0
        /\ Prefix(listWant', listGot', <<>>, 0)
    BY <1>2, <1>3, <1>4
  <2>2. ~tangled' => ~indication_pending
    BY <1>1
  <2>3. client' # "listed"
    BY <1>3
  <2> QED BY <1>1, <1>2, <1>6, <2>1, <2>2, <2>3, ListingSends
<1>8. KeptIn(Listing, files)
  <2> SUFFICES ASSUME NEW i \in DOMAIN Listing, Listing[i].name # 0
               PROVE  \E j \in DOMAIN files :
                        /\ files[j].name = Listing[i].name
                        /\ Listing[i].size <= PayloadLen(files[j])
    BY DEF KeptIn
  <2>1. i \in 1..Len(files)
    <3>1. i \in 1..(Len(files) + 1) /\ Len(files) \in Nat
      BY <1>1, <1>2, ListingFacts, FilesFacts, LenProperties
    <3>2. i # Len(files) + 1
      BY <1>1, ListingFacts DEF EofToken
    <3> QED BY <3>1, <3>2
  <2>2. Listing[i] = [name |-> files[i].name, size |-> PayloadLen(files[i])]
    BY <1>1, <2>1, ListingFacts
  <2>3. i \in DOMAIN files /\ PayloadLen(files[i]) \in Nat
    BY <1>1, <2>1, FilesFacts, PayloadLenFacts
  <2> QED BY <2>2, <2>3
<1>9. Listings'
  BY <1>2, <1>3, <1>5, <1>8 DEF DataInv, Listings
<1>10. LogTypes' /\ Table'
  BY DEF DataInv, LogTypes, Table
<1>11. wantErases' \in Nat /\ wantErases' <= erases'
  BY <1>1 DEF LogTypes
<1> QED
  BY <1>3, <1>7, <1>9, <1>10, <1>11 DEF DataInv, Found, Sending, ListedIsFetched

LEMMA ReadFilenameData ==
  ASSUME IInv, DataInv, ReadFilename
  PROVE  DataInv'
<1> USE DEF ReadFilename, linkVars, logVars, sendVars, transferVars, fetchVars, listVars
<1>1. Rewritten \in Seq(Token)
  BY RewrittenFacts DEF DataInv, Listings
<1>2. ~tangled' => ~tangled /\ ~listing_tx_active
  OBVIOUS
<1>3. Sending'
  BY <1>2 DEF DataInv, Sending
<1>4. Slicing'
  BY <1>2 DEF DataInv, Slicing
<1>5. Listings'
  BY <1>1, <1>2 DEF DataInv, Listings
<1>6. LogTypes' /\ Table' /\ Found' /\ ListedIsFetched'
  BY DEF DataInv, LogTypes, Table, Found, Written, ListedIsFetched
<1> QED BY <1>3, <1>4, <1>5, <1>6 DEF DataInv

LEMMA ConfirmListingData ==
  ASSUME IInv, DataInv, ConfirmListing
  PROVE  DataInv'
<1> USE DEF ConfirmListing, linkVars, logVars, transferVars
<1>1. /\ ~starting' /\ air.k = "list" /\ Received /\ LogTypes
      /\ UNCHANGED <<want, wantErases, tangled, listWant>>
  BY DEF Received, DataInv
<1> DEFINE complete == client = "list" /\ EofToken \in {listGot'[i] : i \in DOMAIN listGot'}
<1>2. /\ client' = IF complete THEN "listed" ELSE client
      /\ listed' = IF complete /\ ~tangled /\ wantErases = erases THEN listGot' ELSE listed
      /\ got' = got
      /\ client = "list" => listGot' = listGot \o air.data
  BY <1>1 DEF Received
<1>3. ASSUME client \in {"list", "listed"}, ~tangled
      PROVE  /\ client = "list" /\ listing_tx_active /\ Ended(listWant)
             /\ listing_tx_len = Len(listWant) /\ listing_tx_len <= Len(filename_listing)
             /\ \A i \in 1..listing_tx_len : filename_listing[i] = listWant[i]
             /\ listGot' \in Seq(Token) /\ Len(listGot') = listing_tx_offset
             /\ Prefix(listWant, listGot', <<>>, listing_tx_offset)
             /\ complete => listing_tx_offset = listing_tx_len /\ listGot' = listWant
  <2>1. /\ client = "list" /\ listing_tx_active /\ Ended(listWant)
        /\ listing_tx_len = Len(listWant) /\ Len(filename_listing) >= listing_tx_len
        /\ \A i \in 1..listing_tx_len : filename_listing[i] = listWant[i]
        /\ listGot \in Seq(Token) /\ air.data \in Seq(Token)
        /\ listing_tx_offset \in 1..listing_tx_len
        /\ Prefix(listWant, listGot, air.data, listing_tx_offset)
    BY <1>1, <1>3 DEF DataInv, Slicing
  <2>2. listWant \in Seq(Token) /\ Len(listWant) \in Nat /\ Len(filename_listing) \in Nat
    BY <2>1, LenProperties DEF Ended, DataInv, Listings
  <2>3. /\ listGot' \in Seq(Token) /\ Len(listGot') = listing_tx_offset
        /\ Prefix(listWant, listGot', <<>>, listing_tx_offset)
    <3>1. /\ listGot \o air.data \in Seq(Token)
          /\ Len(listGot \o air.data) = listing_tx_offset
          /\ Prefix(listWant, listGot \o air.data, <<>>, Len(listGot \o air.data))
      BY <2>1, <2>2, PrefixFacts
    <3>2. listGot' = listGot \o air.data
      BY <1>2, <2>1
    <3> QED BY <3>1, <3>2
  <2>4. \A i \in 1..listing_tx_offset : listGot'[i] = listWant[i]
    BY <2>3, Zenon DEF Prefix
  <2>5. ASSUME complete
        PROVE  listing_tx_offset = listing_tx_len /\ listGot' = listWant
    <3>1. PICK i \in DOMAIN listGot' : listGot'[i] = EofToken
      BY <2>5
    <3>2. i \in 1..listing_tx_offset
      BY <2>3, <3>1, LenProperties
    <3>3. i \in 1..Len(listWant) /\ listWant[i] = EofToken
      BY <2>1, <2>2, <2>4, <3>1, <3>2
    <3>4. i = Len(listWant)
      BY <2>1, <3>3 DEF Ended
    <3>5. listing_tx_offset = listing_tx_len
      BY <2>1, <2>2, <3>2, <3>4
    <3>6. Len(listGot') = Len(listWant) /\ \A j \in 1..Len(listGot') : listGot'[j] = listWant[j]
      BY <2>1, <2>3, <2>4, <3>5
    <3> QED BY <2>2, <2>3, <3>5, <3>6, SeqEqual
  <2> QED BY <2>1, <2>2, <2>3, <2>5
<1> HIDE DEF complete
<1>4. complete => client = "list"
  BY DEF complete
<1>5. Slicing' /\ filename_listing' = filename_listing
  <2>1. CASE SendListing(FALSE, filename_listing, listing_tx_len, listing_tx_offset)
    <3>1. filename_listing \in Seq(Token)
      BY DEF DataInv, Listings
    <3>2. client' \in {"list", "listed"} => client \in {"list", "listed"}
      BY <1>2, <1>4
    <3>3. client = "list" => (client' = "listed" => complete)
      BY <1>2
    <3>4. client' \in {"list", "listed"} /\ ~tangled' =>
           /\ Ended(listWant')
           /\ listing_tx_len = Len(listWant') /\ listing_tx_len <= Len(filename_listing)
           /\ \A i \in 1..listing_tx_len : filename_listing[i] = listWant'[i]
           /\ listGot' \in Seq(Token) /\ Len(listGot') = listing_tx_offset
           /\ Prefix(listWant', listGot', <<>>, listing_tx_offset)
           /\ client' = "listed" => listing_tx_offset = listing_tx_len
      BY <1>1, <1>3, <3>2, <3>3
    <3>5. Slicing'
      BY <1>1, <2>1, <3>1, <3>4, ListingSends
    <3> QED BY <2>1, <3>5, SendListingBuffer
  <2>2. CASE ~listing_tx_active /\ UNCHANGED listingVars
    <3>1. ~(client' \in {"list", "listed"} /\ ~tangled')
      BY <1>1, <1>2, <1>3, <1>4, <2>2
    <3> QED BY <2>2, <3>1 DEF Slicing, listingVars
  <2> QED BY <2>1, <2>2
<1>6. Listings'
  <2>1. CASE complete /\ ~tangled /\ wantErases = erases
    <3>1. listed' = listWant /\ KeptIn(listWant, files) /\ listWant \in Seq(Token)
      BY <1>2, <1>3, <1>4, <2>1 DEF DataInv, Listings, Ended
    <3> QED BY <1>1, <1>2, <1>5, <2>1, <3>1 DEF DataInv, Listings
  <2>2. CASE ~(complete /\ ~tangled /\ wantErases = erases)
    <3>1. listed' = listed /\ (client' = "list" => client = "list")
      BY <1>2, <2>2
    <3> QED BY <1>1, <1>5, <3>1 DEF DataInv, Listings
  <2> QED BY <2>1, <2>2
<1>7. client' \in {"file", "fetched"} => client \in {"file", "fetched"} /\ listed' = listed
  BY <1>2, <1>4
<1>8. Sending'
  <2>1. client \in {"file", "fetched"} /\ ~tangled => wantErases # erases
    BY <1>1 DEF DataInv, Sending
  <2> QED BY <1>1, <1>7, <2>1 DEF Sending
<1>9. Found' /\ ListedIsFetched'
  BY <1>1, <1>7 DEF DataInv, Found, Written, ListedIsFetched
<1>10. LogTypes' /\ Table' /\ client' \in {"idle", "file", "fetched", "list", "listed"}
  BY <1>2 DEF DataInv, LogTypes, Table
<1> QED BY <1>1, <1>5, <1>6, <1>8, <1>9, <1>10 DEF DataInv


-----------------------------------------------------------------------------
(* Failures and connections. *)

LEMMA IndicationFailsData ==
  ASSUME IInv, DataInv, IndicationFails
  PROVE  DataInv'
<1> USE DEF IndicationFails, linkVars, logVars, clientVars, fetchVars, listVars,
            transferVars, listingVars, StopTransfer
<1>1. /\ air'.k = "none" /\ ~starting' /\ UNCHANGED <<transfer_entry, transfer_offset,
                                                      filename_listing>>
  BY NotSentFacts DEF IInv, Flags
<1>2. Sending'
  BY <1>1 DEF DataInv, Sending
<1>3. Slicing'
  BY <1>1 DEF DataInv, Slicing
<1>4. LogTypes' /\ Table' /\ Found' /\ Listings' /\ ListedIsFetched'
  BY <1>1 DEF DataInv, LogTypes, Table, Found, Written, Listings, ListedIsFetched
<1> QED BY <1>2, <1>3, <1>4 DEF DataInv

LEMMA DisconnectData ==
  ASSUME DataInv, Disconnect
  PROVE  DataInv'
<1> USE DEF Disconnect, GatewayLeaves, logVars
<1>1. <<>> \in Seq(Token) /\ DOMAIN <<>> = {}
  BY EmptySeq, LenProperties
<1>2. Listings'
  BY <1>1 DEF DataInv, Listings, KeptIn
<1>3. LogTypes' /\ Table' /\ Found' /\ Sending' /\ Slicing' /\ ListedIsFetched'
  BY DEF DataInv, LogTypes, Table, Found, Sending, Slicing, ListedIsFetched
<1> QED BY <1>2, <1>3 DEF DataInv, LogTypes

LEMMA NextData == IInv /\ DataInv /\ [Next]_vars => DataInv'
<1> SUFFICES ASSUME IInv, DataInv, [Next]_vars PROVE DataInv'
  OBVIOUS
<1>1. LogTypes
  BY DEF DataInv
<1>2. CASE Midnight
  <2>1. today' \in Nat \ {0} /\ today <= today'
    BY <1>1, <1>2 DEF Midnight, LogTypes
  <2> QED BY <1>1, <1>2, <2>1, LinkData DEF Midnight, linkVars, LogTypes
<1>3. CASE Connect
  BY <1>1, <1>3, LinkData DEF Connect, logVars, LogTypes
<1>4. CASE MtuExchanged
  <2>1. mtu' \in Nat \ {0}
    BY <1>4, LinkAssumption DEF MtuExchanged
  <2> QED BY <1>1, <1>4, <2>1, LinkData DEF MtuExchanged, logVars, LogTypes
<1>5. CASE UNCHANGED vars
  BY <1>1, <1>5, LinkData DEF vars, logVars, linkVars, LogTypes
<1> QED
  BY <1>2, <1>3, <1>4, <1>5, LogRowData, ClearMemoryData, WriteFilenameData, SendFirstData,
     WriteListData, ReadFilenameData, ConfirmTransferData, ConfirmListingData,
     IndicationFailsData, DisconnectData DEF Next

THEOREM DataInvariant == Spec => [](IInv /\ DataInv)
<1>1. Init => IInv /\ DataInv
  BY InitDriven, InitData
<1>2. (IInv /\ DataInv) /\ [Next]_vars => (IInv /\ DataInv)'
  BY NextDriven, NextData
<1> QED BY <1>1, <1>2, PTL DEF Spec

-----------------------------------------------------------------------------
(* What a gateway that waits for its answers gets. *)

\* Whatever rows are logged, days break and indications fail between the
\* chunks that continue_file_transfer sends, they are a prefix of the file
\* that was found, and with the end mark all of it.
THEOREM DownloadsArePrefixes == Spec => []DownloadIsPrefix
<1>1. DataInv => DownloadIsPrefix
  <2> SUFFICES ASSUME DataInv, client \in {"file", "fetched"}, ~tangled, wantErases = erases
               PROVE  /\ Len(got) <= Len(want)
                      /\ got = SubSeq(want, 1, Len(got))
                      /\ client = "fetched" => Len(got) = Len(want)
    BY DEF DownloadIsPrefix
  <2>1. want \in Seq(Cell)
    BY WrittenFacts DEF DataInv, Found
  <2>2. /\ got \in Seq(Cell) /\ Prefix(want, got, <<>>, Len(got))
        /\ client = "fetched" => Len(got) = Len(want)
    BY DEF DataInv, Sending, Cell
  <2>3. /\ Len(got) <= Len(want) /\ \A i \in 1..Len(got) : got[i] = want[i]
    BY <2>2, Zenon DEF Prefix
  <2>4. Len(got) \in Nat /\ Len(want) \in Nat
    BY <2>1, <2>2, LenProperties
  <2>5. \A i \in 1..Len(got) : want[i] \in Cell
    BY <2>1, <2>3, <2>4, ElementOfSeq
  <2> DEFINE n == Len(got)
             part == SubSeq(want, 1, n)
  <2>6. /\ part \in Seq(Cell) /\ Len(part) = IF 1 <= n THEN n - 1 + 1 ELSE 0
        /\ \A i \in 1..(n - 1 + 1) : part[i] = want[1 + i - 1]
    <3>1. n \in Int /\ 1 \in Int /\ \A i \in 1..n : want[i] \in Cell
      BY <2>4, <2>5
    <3> HIDE DEF n
    <3> QED BY <3>1, SubSeqProperties
  <2>7. Len(part) = n /\ \A i \in 1..n : part[i] = got[i]
    <3>1. n - 1 + 1 = n /\ \A i \in 1..n : 1 + i - 1 = i
      BY <2>4
    <3>2. Len(part) = n
      BY <2>4, <2>6
    <3> QED BY <2>3, <2>6, <3>1, <3>2
  <2>8. got = part
    BY <2>2, <2>6, <2>7, SeqEqual
  <2> QED BY <2>2, <2>3, <2>8
<1> QED BY <1>1, DataInvariant, PTL

\* The slices of filename_listing a gateway has put together are the table of
\* one moment, although the table has changed and the buffer is shared.
THEOREM ListingsAreSnapshots == Spec => []ListingIsSnapshot
<1>1. DataInv => ListingIsSnapshot
  BY DEF DataInv, Slicing, ListingIsSnapshot
<1> QED BY <1>1, DataInvariant, PTL

\* A file that a listing named is found with at least the size it was listed
\* with, unless the log has been erased.
THEOREM ListedFilesAreFetched == Spec => []ListedIsFetched
<1>1. DataInv => ListedIsFetched
  BY DEF DataInv
<1> QED BY <1>1, DataInvariant, PTL

=============================================================================
