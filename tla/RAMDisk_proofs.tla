--------------------------- MODULE RAMDisk_proofs ---------------------------
(***************************************************************************)
(* The storage stack implements BlockStore, for any disk, table and        *)
(* clients.  What there is to show is arithmetic and ciphers: a request    *)
(* that fits its medium stays inside its partition, so that a copied block *)
(* is no other medium's, and a partition behind a filter, looked at        *)
(* through it, changes by the block that the client wrote.                 *)
(***************************************************************************)
EXTENDS RAMDisk, SequenceTheorems, TLAPS

\* A request on its way, and one that is done.
Moving ==
    {r \in [pc : {"sent", "moving"}, op : {"read", "write"}, media : Media, first : Nat,
            count : Nat, buffer : Seq(Cell), moved : Nat] :
        /\ r.count > 0
        /\ r.first + r.count <= Count(r.media)
        /\ r.moved <= r.count
        /\ Len(r.buffer) = IF r.op = "write" THEN r.count ELSE r.moved}
Finished == [pc : {"done"}, status : {"ok", "error"}, actual : Nat, buffer : Seq(Cell)]

\* The table is block 0, and a block behind it holds a cell.
BlocksTyped ==
    /\ m_buffer \in [0 .. DiskBlocks - 1 -> Cell \cup {kTable}]
    /\ m_buffer[0] = kTable
    /\ \A b \in 1 .. DiskBlocks - 1 : m_buffer[b] \in Cell

DiskInv ==
    /\ BlocksTyped
    /\ inactive \in BOOLEAN
    /\ m_partitions \subseteq Media
    /\ io \in [DiskClient -> {NoIO} \cup Moving \cup Finished]
-----------------------------------------------------------------------------
\* A partition's blocks are blocks of the disk behind the table.
LEMMA InDisk ==
    ASSUME NEW m \in Media
    PROVE  /\ Base(m) \in Nat /\ Count(m) \in Nat /\ Base(m) > 0 /\ Count(m) > 0 /\ m # 0
           /\ DiskBlocks \in Nat /\ Base(m) + Count(m) <= DiskBlocks
<1> DEFINE Entry == [blockStart : Nat, blockCount : Nat]
<1>1. Table \in Seq(Entry) /\ Media = 1 .. Len(Table) /\ Len(Table) \in Nat
  BY TableAssumption, LenProperties DEF Fits, Media
<1> HIDE DEF Entry
<1>2. Table[m] \in Entry /\ m # 0
  BY <1>1, ElementOfSeq
<1> USE DEF Entry
<1> QED  BY <1>2, TableAssumption DEF Fits, Media, Base, Count

\* No block belongs to two partitions.
LEMMA Apart ==
    ASSUME NEW m \in Media, NEW n \in Media, m # n,
           NEW b \in 0 .. Count(m) - 1, NEW d \in 0 .. Count(n) - 1
    PROVE  Base(m) + b # Base(n) + d
<1>1. Base(m) + Count(m) <= Base(n) \/ Base(n) + Count(n) <= Base(m)
  BY TableAssumption DEF Fits, Media, Base, Count
<1> QED  BY <1>1, InDisk

\* What a partition's client sees of a block.
Through(m, w) == IF m \in Encrypted THEN Flip(w) ELSE w

\* The filter's exclusive-or undoes itself.
LEMMA SeenTwice ==
    ASSUME NEW m, NEW w \in Cell
    PROVE  Through(m, w) \in Cell /\ Through(m, Through(m, w)) = w
BY CellAssumption DEF Through, Flip

\* Encrypting and decrypting goes block by block.
LEMMA PlainBlocks ==
    ASSUME NEW m, NEW data \in Seq(Cell)
    PROVE  /\ Plain(m, data) \in Seq(Cell) /\ Len(Plain(m, data)) = Len(data)
           /\ \A i \in 1 .. Len(data) : Plain(m, data)[i] = Through(m, data[i])
           /\ encryptBuffer(m, data) = Plain(m, data)
           /\ decryptBuffer(m, data) = Plain(m, data)
<1>1. Len(data) \in Nat /\ DOMAIN data = 1 .. Len(data) /\ \A i \in 1 .. Len(data) : data[i] \in Cell
  BY LenProperties, ElementOfSeq
<1>2. CASE m \in Encrypted
  <2>1. Plain(m, data) = [i \in 1 .. Len(data) |-> Flip(data[i])]
    BY <1>1, <1>2 DEF Plain, FlipAll
  <2>2. \A i \in 1 .. Len(data) : Flip(data[i]) \in Cell
    BY <1>1, CellAssumption DEF Flip
  <2> QED  BY <1>1, <1>2, <2>1, <2>2 DEF Through, encryptBuffer, decryptBuffer, Plain
<1>3. CASE m \notin Encrypted
  BY <1>1, <1>3 DEF Plain, Through, encryptBuffer, decryptBuffer
<1> QED  BY <1>2, <1>3

\* A block that is copied to a buffer is copied to what the client sees of it.
LEMMA PlainAppend ==
    ASSUME NEW m, NEW data \in Seq(Cell), NEW w \in Cell
    PROVE  Plain(m, Append(data, w)) = Append(Plain(m, data), Through(m, w))
<1>1. Append(data, w) \in Seq(Cell) /\ Len(Append(data, w)) = Len(data) + 1 /\ Len(data) \in Nat
  BY AppendProperties, LenProperties
<1>2. Plain(m, data) \in Seq(Cell) /\ Len(Plain(m, data)) = Len(data) /\ Through(m, w) \in Cell
  BY PlainBlocks, SeenTwice
<1>3. /\ Plain(m, Append(data, w)) \in Seq(Cell)
      /\ Len(Plain(m, Append(data, w))) = Len(data) + 1
      /\ \A i \in 1 .. Len(data) + 1 : Plain(m, Append(data, w))[i] = Through(m, Append(data, w)[i])
  <2> DEFINE longer == Append(data, w)
  <2>1. longer \in Seq(Cell) /\ Len(longer) = Len(data) + 1
    BY <1>1
  <2> HIDE DEF longer
  <2>2. /\ Plain(m, longer) \in Seq(Cell) /\ Len(Plain(m, longer)) = Len(data) + 1
        /\ \A i \in 1 .. Len(data) + 1 : Plain(m, longer)[i] = Through(m, longer[i])
    BY <2>1, PlainBlocks
  <2> QED  BY <2>2 DEF longer
<1>4. /\ Append(Plain(m, data), Through(m, w)) \in Seq(Cell)
      /\ Len(Append(Plain(m, data), Through(m, w))) = Len(data) + 1
  BY <1>2, AppendProperties
<1>5. ASSUME NEW i \in 1 .. Len(data) + 1
      PROVE  Plain(m, Append(data, w))[i] = Append(Plain(m, data), Through(m, w))[i]
  <2>1. Plain(m, Append(data, w))[i] = Through(m, Append(data, w)[i])
    BY <1>3
  <2>2. CASE i = Len(data) + 1
    BY <1>1, <1>2, <2>1, <2>2, AppendProperties
  <2>3. CASE i \in 1 .. Len(data)
    BY <1>1, <1>2, <2>1, <2>3, AppendProperties, PlainBlocks
  <2>4. i = Len(data) + 1 \/ i \in 1 .. Len(data)
    BY <1>1
  <2> QED  BY <2>2, <2>3, <2>4
<1> QED  BY <1>3, <1>4, <1>5, SeqEqual

\* Deciphering what was enciphered gives it back.
LEMMA PlainTwice ==
    ASSUME NEW m, NEW data \in Seq(Cell)
    PROVE  Plain(m, Plain(m, data)) = data
<1>1. /\ Plain(m, data) \in Seq(Cell) /\ Len(Plain(m, data)) = Len(data)
      /\ \A i \in 1 .. Len(data) : Plain(m, data)[i] = Through(m, data[i])
  BY PlainBlocks
<1>2. /\ Plain(m, Plain(m, data)) \in Seq(Cell) /\ Len(Plain(m, Plain(m, data))) = Len(data)
      /\ \A i \in 1 .. Len(data) : Plain(m, Plain(m, data))[i] = Through(m, Plain(m, data)[i])
  BY <1>1, PlainBlocks
<1>3. \A i \in 1 .. Len(data) : data[i] \in Cell
  BY ElementOfSeq
<1> QED  BY <1>1, <1>2, <1>3, SeenTwice, SeqEqual

\* A medium, as its clients see it.
LEMMA SeenMedium ==
    ASSUME BlocksTyped, NEW m \in Media
    PROVE  /\ Plain(m, Blocks(m)) \in Seq(Cell) /\ Len(Plain(m, Blocks(m))) = Count(m)
           /\ \A b \in 1 .. Count(m) : Plain(m, Blocks(m))[b] = Through(m, m_buffer[Base(m) + b - 1])
<1>1. Blocks(m) \in Seq(Cell) /\ Len(Blocks(m)) = Count(m)
  <2>1. \A b \in 1 .. Count(m) : m_buffer[Base(m) + b - 1] \in Cell
    BY InDisk DEF BlocksTyped
  <2> QED  BY <2>1, InDisk DEF Blocks
<1>2. \A b \in 1 .. Count(m) : Blocks(m)[b] = m_buffer[Base(m) + b - 1]
  BY DEF Blocks
<1> QED  BY <1>1, <1>2, PlainBlocks
-----------------------------------------------------------------------------
LEMMA DiskInvInit == DiskInit => DiskInv
<1> SUFFICES ASSUME DiskInit PROVE DiskInv
  OBVIOUS
<1>1. DiskBlocks \in Nat \ {0}
  BY TableAssumption DEF Fits
<1>2. BlocksTyped
  BY <1>1, CellAssumption DEF DiskInit, BlocksTyped, reportMaxValidBlock, m_blockCount
<1> QED  BY <1>2 DEF DiskInit, DiskInv

\* A step that changes one client's request only.
LEMMA RequestStep ==
    ASSUME DiskInv, NEW c \in DiskClient, NEW r \in {NoIO} \cup Moving \cup Finished,
           io' = [io EXCEPT ![c] = r], UNCHANGED <<m_buffer, inactive, m_partitions>>
    PROVE  DiskInv'
<1>1. BlocksTyped'
  BY DEF DiskInv, BlocksTyped
<1> QED  BY <1>1 DEF DiskInv

\* A request that fits goes to blocks behind the table.
LEMMA BlockInDisk ==
    ASSUME DiskInv, NEW c \in DiskClient, io[c] \in Moving, io[c].moved < io[c].count
    PROVE  /\ io[c].media \in Media /\ io[c].first \in Nat /\ io[c].moved \in Nat /\ io[c].count \in Nat
           /\ Block(c) + io[c].moved = Base(io[c].media) + (io[c].first + io[c].moved)
           /\ io[c].first + io[c].moved \in 0 .. Count(io[c].media) - 1
           /\ Block(c) + io[c].moved \in 1 .. DiskBlocks - 1
           /\ m_buffer[Block(c) + io[c].moved] \in Cell
<1>1. /\ io[c].media \in Media /\ io[c].first \in Nat /\ io[c].moved \in Nat /\ io[c].count \in Nat
      /\ io[c].first + io[c].count <= Count(io[c].media)
  BY DEF Moving
<1>2. /\ Base(io[c].media) \in Nat /\ Count(io[c].media) \in Nat /\ Base(io[c].media) > 0
      /\ DiskBlocks \in Nat /\ Base(io[c].media) + Count(io[c].media) <= DiskBlocks
  BY <1>1, InDisk
<1>3. Block(c) + io[c].moved \in 1 .. DiskBlocks - 1
  BY <1>1, <1>2 DEF Block
<1>4. Block(c) + io[c].moved = Base(io[c].media) + (io[c].first + io[c].moved)
  BY <1>1, <1>2 DEF Block
<1>5. m_buffer[Block(c) + io[c].moved] \in Cell
  BY <1>3 DEF DiskInv, BlocksTyped
<1> QED  BY <1>1, <1>2, <1>3, <1>4, <1>5

\* The fields of a request on its way.
LEMMA MovingFields ==
    ASSUME NEW r \in Moving
    PROVE  /\ r.pc \in {"sent", "moving"} /\ r.op \in {"read", "write"} /\ r.media \in Media
           /\ r.first \in Nat /\ r.count \in Nat /\ r.buffer \in Seq(Cell) /\ r.moved \in Nat
           /\ r.count > 0 /\ r.first + r.count <= Count(r.media) /\ r.moved <= r.count
           /\ Len(r.buffer) = IF r.op = "write" THEN r.count ELSE r.moved
           /\ r = [pc |-> r.pc, op |-> r.op, media |-> r.media, first |-> r.first,
                   count |-> r.count, buffer |-> r.buffer, moved |-> r.moved]
BY DEF Moving

\* A request of these fields is on its way.
LEMMA MovingRecord ==
    ASSUME NEW pc \in {"sent", "moving"}, NEW op \in {"read", "write"}, NEW m \in Media,
           NEW first \in Nat, NEW count \in Nat, NEW buffer \in Seq(Cell), NEW moved \in Nat,
           count > 0, first + count <= Count(m), moved <= count,
           Len(buffer) = IF op = "write" THEN count ELSE moved
    PROVE  [pc |-> pc, op |-> op, media |-> m, first |-> first, count |-> count,
            buffer |-> buffer, moved |-> moved] \in Moving
BY DEF Moving
-----------------------------------------------------------------------------
\* What the store's client has asked, told from the client's request alone.
Asked(r) ==
    CASE r.pc = "none" -> [op |-> "none"]
      [] r.pc = "done" -> [op |-> "done", status |-> r.status, actual |-> r.actual, data |-> r.buffer]
      [] OTHER -> [op |-> r.op, media |-> r.media, first |-> r.first + 1,
                   count |-> r.count, moved |-> r.moved, data |-> Plain(r.media, r.buffer)]

\* What the store sees of a request, by the request's stage.
LEMMA AskedCases ==
    /\ Asked(NoIO) = [op |-> "none"]
    /\ \A r \in Finished :
          Asked(r) = [op |-> "done", status |-> r.status, actual |-> r.actual, data |-> r.buffer]
    /\ \A r \in Moving :
          Asked(r) = [op |-> r.op, media |-> r.media, first |-> r.first + 1,
                      count |-> r.count, moved |-> r.moved, data |-> Plain(r.media, r.buffer)]
<1>1. Asked(NoIO) = [op |-> "none"]
  BY DEF Asked, NoIO
<1>2. ASSUME NEW r \in Finished
      PROVE  Asked(r) = [op |-> "done", status |-> r.status, actual |-> r.actual, data |-> r.buffer]
  BY DEF Asked, Finished
<1>3. ASSUME NEW r \in Moving
      PROVE  Asked(r) = [op |-> r.op, media |-> r.media, first |-> r.first + 1,
                         count |-> r.count, moved |-> r.moved, data |-> Plain(r.media, r.buffer)]
  <2>1. r.pc # "none" /\ r.pc # "done"
    BY DEF Moving
  <2> QED  BY <2>1 DEF Asked
<1> QED  BY <1>1, <1>2, <1>3

\* The store sees each client's request apart.
LEMMA AskedByRequest ==
    /\ Asks = [c \in DiskClient |-> Asked(io[c])]
    /\ Asks' = [c \in DiskClient |-> Asked(io'[c])]
BY DEF Asks, AskedOf, Asked, IOAt

\* A step that changes one request changes what the store sees of that client only.
LEMMA OneAsks ==
    ASSUME DiskInv, NEW c \in DiskClient, NEW r, io' = [io EXCEPT ![c] = r]
    PROVE  /\ Asks \in [DiskClient -> {Asks[d] : d \in DiskClient}]
           /\ Asks[c] = Asked(io[c])
           /\ Asks' = [Asks EXCEPT ![c] = Asked(r)]
BY AskedByRequest DEF DiskInv

\* The store's blocks depend on the disk's memory only.
LEMMA SameSeen == UNCHANGED m_buffer => UNCHANGED Seen
BY DEF Seen, Blocks

\* A write to a block of a partition changes that block of that partition.
LEMMA OneSeen ==
    ASSUME DiskInv, NEW m \in Media, NEW b \in 1 .. Count(m), NEW w \in Cell,
           m_buffer' = [m_buffer EXCEPT ![Base(m) + b - 1] = w]
    PROVE  /\ BlocksTyped'
           /\ Seen' = [Seen EXCEPT ![m] = [Seen[m] EXCEPT ![b] = Through(m, w)]]
<1>1. Base(m) + b - 1 \in 1 .. DiskBlocks - 1 /\ DiskBlocks \in Nat
  BY InDisk
<1>2. BlocksTyped'
  <2> DEFINE at == Base(m) + b - 1
  <2>1. at \in 1 .. DiskBlocks - 1 /\ m_buffer' = [m_buffer EXCEPT ![at] = w]
    BY <1>1
  <2> HIDE DEF at
  <2> QED  BY <1>1, <2>1 DEF DiskInv, BlocksTyped
<1>3. BlocksTyped
  BY DEF DiskInv
<1>4. ASSUME NEW n \in Media
      PROVE  /\ Plain(n, Blocks(n)') \in Seq(Cell) /\ Len(Plain(n, Blocks(n)')) = Count(n)
             /\ \A i \in 1 .. Count(n) : Plain(n, Blocks(n)')[i] = Through(n, m_buffer'[Base(n) + i - 1])
  <2>1. ASSUME NEW i \in 1 .. Count(n) PROVE m_buffer'[Base(n) + i - 1] \in Cell
    <3>1. Base(n) + i - 1 \in 1 .. DiskBlocks - 1
      BY InDisk
    <3> QED  BY <1>2, <3>1 DEF BlocksTyped
  <2>2. Blocks(n)' \in Seq(Cell) /\ Len(Blocks(n)') = Count(n)
    <3>1. Count(n) \in Nat /\ Blocks(n)' = [i \in 1 .. Count(n) |-> m_buffer'[Base(n) + i - 1]]
      BY InDisk DEF Blocks
    <3>2. Blocks(n)' \in [1 .. Count(n) -> Cell]
      BY <2>1, <3>1
    <3> QED  BY <3>1, <3>2
  <2>3. \A i \in 1 .. Count(n) : Blocks(n)'[i] = m_buffer'[Base(n) + i - 1]
    BY DEF Blocks
  <2> QED  BY <2>2, <2>3, PlainBlocks
<1>5. ASSUME NEW n \in Media, n # m
      PROVE  Plain(n, Blocks(n)') = Plain(n, Blocks(n))
  <2>1. \A i \in 1 .. Count(n) : m_buffer'[Base(n) + i - 1] = m_buffer[Base(n) + i - 1]
    <3> TAKE i \in 1 .. Count(n)
    <3>1. i - 1 \in 0 .. Count(n) - 1 /\ b - 1 \in 0 .. Count(m) - 1
      BY InDisk
    <3>2. Base(n) + (i - 1) # Base(m) + (b - 1)
      BY <1>5, <3>1, Apart
    <3>3. Base(n) + i - 1 # Base(m) + b - 1
      BY <3>2, InDisk
    <3>4. Base(n) + i - 1 \in 0 .. DiskBlocks - 1
      BY InDisk
    <3> QED  BY <1>3, <3>3, <3>4 DEF BlocksTyped
  <2>2. Blocks(n)' = Blocks(n)
    BY <2>1 DEF Blocks
  <2> QED  BY <2>2
<1>6. Plain(m, Blocks(m)') = [Plain(m, Blocks(m)) EXCEPT ![b] = Through(m, w)]
  <2>1. /\ Plain(m, Blocks(m)) \in Seq(Cell) /\ Len(Plain(m, Blocks(m))) = Count(m)
        /\ \A i \in 1 .. Count(m) : Plain(m, Blocks(m))[i] = Through(m, m_buffer[Base(m) + i - 1])
    BY <1>3, SeenMedium
  <2>2. /\ [Plain(m, Blocks(m)) EXCEPT ![b] = Through(m, w)] \in Seq(Cell)
        /\ Len([Plain(m, Blocks(m)) EXCEPT ![b] = Through(m, w)]) = Count(m)
        /\ \A i \in 1 .. Count(m) : [Plain(m, Blocks(m)) EXCEPT ![b] = Through(m, w)][i]
                                       = IF i = b THEN Through(m, w) ELSE Plain(m, Blocks(m))[i]
    BY <2>1, SeenTwice, ExceptSeq
  <2>3. \A i \in 1 .. Count(m) :
            m_buffer'[Base(m) + i - 1] = IF i = b THEN w ELSE m_buffer[Base(m) + i - 1]
    <3> TAKE i \in 1 .. Count(m)
    <3>1. Base(m) + i - 1 \in 0 .. DiskBlocks - 1 /\ (Base(m) + i - 1 = Base(m) + b - 1 <=> i = b)
      BY InDisk
    <3> QED  BY <1>3, <3>1 DEF BlocksTyped
  <2> QED  BY <1>4, <2>1, <2>2, <2>3, SeqEqual
<1>7. m_buffer'[0] = m_buffer[0]
  BY <1>1, <1>3 DEF BlocksTyped
<1>8. m # 0 /\ Seen[m] = Plain(m, Blocks(m))
  BY InDisk DEF Seen
<1>9. Seen' = [n \in Media \cup {0} |-> IF n = 0 THEN <<m_buffer'[0]>> ELSE Plain(n, Blocks(n)')]
  BY DEF Seen
<1>10. ASSUME NEW n \in Media \cup {0}
       PROVE  Seen'[n] = [Seen EXCEPT ![m] = [Seen[m] EXCEPT ![b] = Through(m, w)]][n]
  <2>1. CASE n = 0
    BY <1>7, <1>8, <1>9, <2>1 DEF Seen
  <2>2. CASE n = m
    BY <1>6, <1>8, <1>9, <2>2 DEF Seen
  <2>3. CASE n # 0 /\ n # m
    BY <1>5, <1>8, <1>9, <2>3 DEF Seen
  <2> QED  BY <2>1, <2>2, <2>3
<1>11. DOMAIN Seen' = Media \cup {0} /\ DOMAIN [Seen EXCEPT ![m] = [Seen[m] EXCEPT ![b] = Through(m, w)]] = Media \cup {0}
  BY <1>9 DEF Seen
<1>12. Seen' = [Seen EXCEPT ![m] = [Seen[m] EXCEPT ![b] = Through(m, w)]]
  BY <1>9, <1>10, <1>11
<1> QED  BY <1>2, <1>12
-----------------------------------------------------------------------------
\* What every step does: keep the invariant, and be a step of the store's or none.
Kept == DiskInv' /\ (Store!StoreNext \/ UNCHANGED <<Seen, Asks>>)

\* A request is typed by its stage.
LEMMA RequestOf ==
    ASSUME DiskInv, NEW c \in DiskClient
    PROVE  /\ io[c] \in {NoIO} \cup Moving \cup Finished
           /\ io[c].pc \in {"none", "sent", "moving", "done"}
           /\ io[c].pc \in {"sent", "moving"} => io[c] \in Moving
           /\ io[c].pc \in {"none", "done"} => Asked(io[c]).op \in {"none", "done"}
<1>1. io[c] \in {NoIO} \cup Moving \cup Finished
  BY DEF DiskInv
<1>2. NoIO.pc = "none" /\ (\A r \in Moving : r.pc \in {"sent", "moving"}) /\ \A r \in Finished : r.pc = "done"
  BY DEF NoIO, Moving, Finished
<1> QED  BY <1>1, <1>2, AskedCases

LEMMA ProbeKept == DiskInv /\ Probe => Kept
<1> SUFFICES ASSUME DiskInv, Probe PROVE Kept
  OBVIOUS
<1>1. BlocksTyped' /\ UNCHANGED <<Seen, Asks>>
  BY SameSeen, AskedByRequest DEF Probe, DiskInv, BlocksTyped
<1> QED  BY <1>1 DEF Kept, DiskInv, Probe, scan

LEMMA TerminateKept == DiskInv /\ Terminate => Kept
<1> SUFFICES ASSUME DiskInv, Terminate PROVE Kept
  OBVIOUS
<1>1. BlocksTyped' /\ UNCHANGED <<Seen, Asks>>
  BY SameSeen, AskedByRequest DEF Terminate, DiskInv, BlocksTyped
<1> QED  BY <1>1 DEF Kept, DiskInv, Terminate

\* A request that its medium accepts is a request of the store's.
LEMMA IssueKept ==
    ASSUME DiskInv, NEW c \in DiskClient, NEW m \in Media, NEW first \in 0 .. Count(m) - 1,
           NEW n \in 1 .. Count(m), NEW op \in {"read", "write"}, NEW buffer \in Seq(Cell),
           Len(buffer) = (IF op = "write" THEN n ELSE 0), Issue(c, m, first, op, n, buffer)
    PROVE  Kept
<1> DEFINE r == [pc |-> "sent", op |-> op, media |-> m, first |-> first, count |-> n,
                 buffer |-> buffer, moved |-> 0]
           a == [op |-> op, media |-> m, first |-> first + 1, count |-> n, moved |-> 0,
                 data |-> Plain(m, buffer)]
<1>1. io' = [io EXCEPT ![c] = r] /\ UNCHANGED <<m_buffer, inactive, m_partitions>> /\ first + n <= Count(m)
      /\ io[c].pc \in {"none", "done"}
  BY DEF Issue
<1>2. n \in Nat /\ first \in Nat /\ n > 0 /\ Count(m) \in Nat /\ DiskBlocks \in Nat /\ Count(m) <= DiskBlocks
  BY InDisk
<1>3. r \in Moving
  BY <1>1, <1>2 DEF Moving
<1>4. DiskInv'
  BY <1>1, <1>3, RequestStep
<1>5. Asks' = [Asks EXCEPT ![c] = a] /\ Asks[c].op \in {"none", "done"} /\ DOMAIN Asks = DiskClient
  <2>1. Asked(r) = a
    BY <1>3, AskedCases
  <2>2. Asked(io[c]).op \in {"none", "done"}
    BY <1>1, RequestOf
  <2> QED  BY <1>1, <2>1, <2>2, OneAsks
<1>6. Plain(m, buffer) \in Seq(Cell) /\ Len(Plain(m, buffer)) = Len(buffer)
  BY PlainBlocks
<1>7. Plain(m, buffer) \in Seq(Cell \cup {kTable})
  BY <1>6, SeqMonotonic
<1>8. a \in Store!Request /\ Len(a.data) = (IF a.op = "write" THEN a.count ELSE 0)
  BY <1>2, <1>6, <1>7 DEF Store!Request
<1>9. UNCHANGED Seen
  BY <1>1, SameSeen
<1> HIDE DEF a, r
<1>10. Asks'[c] = a
  BY <1>5
<1>11. Store!Submit(c)
  BY <1>5, <1>8, <1>9, <1>10 DEF Store!Submit
<1> QED  BY <1>4, <1>11 DEF Kept, Store!StoreNext

LEMMA ReadKept == \A c \in DiskClient : DiskInv /\ read(c) => Kept
<1> SUFFICES ASSUME NEW c \in DiskClient, DiskInv, read(c) PROVE Kept
  OBVIOUS
<1>1. PICK m \in Media : \E first \in 0 .. Count(m) - 1, n \in 1 .. Count(m) :
          Issue(c, m, first, "read", n, <<>>)
  BY DEF read
<1>2. PICK first \in 0 .. Count(m) - 1, n \in 1 .. Count(m) : Issue(c, m, first, "read", n, <<>>)
  BY <1>1
<1>3. <<>> \in Seq(Cell) /\ Len(<<>>) = (IF "read" = "write" THEN n ELSE 0) /\ "read" \in {"read", "write"}
  OBVIOUS
<1> QED  BY <1>2, <1>3, IssueKept

LEMMA WriteKept == \A c \in DiskClient : DiskInv /\ write(c) => Kept
<1> SUFFICES ASSUME NEW c \in DiskClient, DiskInv, write(c) PROVE Kept
  OBVIOUS
<1>1. PICK m \in Media : \E first \in 0 .. Count(m) - 1, n \in 1 .. Count(m) :
          \E data \in [1 .. n -> Cell] : Issue(c, m, first, "write", n, encryptBuffer(m, data))
  BY DEF write
<1>2. PICK first \in 0 .. Count(m) - 1, n \in 1 .. Count(m) :
          \E data \in [1 .. n -> Cell] : Issue(c, m, first, "write", n, encryptBuffer(m, data))
  BY <1>1
<1>3. PICK data \in [1 .. n -> Cell] : Issue(c, m, first, "write", n, encryptBuffer(m, data))
  BY <1>2
<1>4. n \in Nat /\ data \in Seq(Cell) /\ Len(data) = n
  BY InDisk
<1>5. encryptBuffer(m, data) \in Seq(Cell) /\ Len(encryptBuffer(m, data)) = n
  BY <1>4, PlainBlocks
<1> QED  BY <1>3, <1>5, IssueKept

\* A request that fails completes for the store's client too.
LEMMA FailKept ==
    ASSUME DiskInv, NEW c \in DiskClient, io[c] \in Moving, Fail(c),
           UNCHANGED <<m_buffer, inactive, m_partitions>>
    PROVE  Kept
<1> DEFINE r == [pc |-> "done", status |-> "error", actual |-> 0, buffer |-> <<>>]
           a == [op |-> "done", status |-> "error", actual |-> 0, data |-> <<>>]
<1>1. r \in Finished /\ io' = [io EXCEPT ![c] = r]
  BY DEF Finished, Fail
<1>2. DiskInv' /\ UNCHANGED Seen
  BY <1>1, RequestStep, SameSeen
<1>3. Asks' = [Asks EXCEPT ![c] = a] /\ Asks[c].op \in {"read", "write"}
  <2>1. Asked(r) = a
    BY <1>1, AskedCases
  <2>2. Asked(io[c]).op \in {"read", "write"}
    BY AskedCases, MovingFields
  <2> HIDE DEF r, a
  <2> QED  BY <1>1, <2>1, <2>2, OneAsks
<1>4. Store!Complete(c)
  BY <1>2, <1>3 DEF Store!Complete
<1> QED  BY <1>2, <1>4 DEF Kept, Store!StoreNext

LEMMA NoMemoryKept == \A c \in DiskClient : DiskInv /\ NoMemory(c) => Kept
BY FailKept, RequestOf DEF NoMemory, IOAt

LEMMA AsyncKept == \A c \in DiskClient : DiskInv /\ doAsyncReadWrite(c) => Kept
<1> SUFFICES ASSUME NEW c \in DiskClient, DiskInv, doAsyncReadWrite(c) PROVE Kept
  OBVIOUS
<1>1. io[c] \in Moving /\ UNCHANGED <<m_buffer, inactive, m_partitions>>
  BY RequestOf DEF doAsyncReadWrite, IOAt
<1>2. CASE Fail(c)
  BY <1>1, <1>2, FailKept
<1>3. CASE io' = [io EXCEPT ![c].pc = "moving"]
  <2> DEFINE old == io[c]
             r == [pc |-> "moving", op |-> old.op, media |-> old.media, first |-> old.first,
                   count |-> old.count, buffer |-> old.buffer, moved |-> old.moved]
  <2>1. r \in Moving
    BY <1>1, MovingFields, MovingRecord
  <2>2. io' = [io EXCEPT ![c] = r]
    <3>1. [old EXCEPT !.pc = "moving"] = r
      BY <1>1, MovingFields
    <3> QED  BY <1>3, <3>1
  <2>3. DiskInv' /\ UNCHANGED Seen
    BY <1>1, <2>1, <2>2, RequestStep, SameSeen
  <2>4. Asked(r) = Asked(io[c])
    BY <1>1, <2>1, AskedCases
  <2>5. Asks' = Asks
    <3> HIDE DEF r
    <3>1. Asks' = [Asks EXCEPT ![c] = Asks[c]]
      BY <2>2, <2>4, OneAsks
    <3>2. Asks = [d \in DiskClient |-> Asks[d]]
      BY DEF Asks
    <3> QED  BY <3>1, <3>2
  <2> QED  BY <2>3, <2>5 DEF Kept
<1> QED  BY <1>2, <1>3 DEF doAsyncReadWrite

\* A copied block is transferred, as its client sees it.
LEMMA PerformReadKept == \A c \in DiskClient : DiskInv /\ performRead(c) => Kept
<1> SUFFICES ASSUME NEW c \in DiskClient, DiskInv, performRead(c) PROVE Kept
  OBVIOUS
<1> DEFINE old == io[c]
           m == old.media
           w == m_buffer[Block(c) + old.moved]
           r == [pc |-> old.pc, op |-> old.op, media |-> old.media, first |-> old.first,
                 count |-> old.count, buffer |-> Append(old.buffer, w), moved |-> old.moved + 1]
           b == old.first + old.moved + 1
           ask == Asks[c]
           a == [op |-> old.op, media |-> old.media, first |-> old.first + 1, count |-> old.count,
                 moved |-> old.moved + 1, data |-> Append(ask.data, Seen[m][b])]
<1>1. /\ old \in Moving /\ UNCHANGED <<m_buffer, inactive, m_partitions>>
      /\ old.op = "read" /\ old.moved < old.count
      /\ io' = [io EXCEPT ![c].buffer = Append(@, w), ![c].moved = @ + 1]
  BY RequestOf DEF performRead, IOAt
<1>2. /\ m \in Media /\ old.first \in Nat /\ old.moved \in Nat /\ old.count \in Nat
      /\ b \in 1 .. Count(m) /\ w = m_buffer[Base(m) + b - 1] /\ w \in Cell
      /\ Base(m) \in Nat /\ Count(m) \in Nat /\ m # 0
  <2>1. /\ m \in Media /\ old.first \in Nat /\ old.moved \in Nat /\ old.count \in Nat
        /\ Block(c) + old.moved = Base(m) + (old.first + old.moved)
        /\ old.first + old.moved \in 0 .. Count(m) - 1 /\ w \in Cell
    BY <1>1, BlockInDisk
  <2>2. Base(m) \in Nat /\ Count(m) \in Nat /\ m # 0
    BY <2>1, InDisk
  <2>3. Block(c) + old.moved = Base(m) + b - 1 /\ b \in 1 .. Count(m)
    BY <2>1, <2>2
  <2> QED  BY <2>1, <2>2, <2>3
<1>3. io' = [io EXCEPT ![c] = r]
  <2> HIDE DEF w
  <2>1. old = [pc |-> old.pc, op |-> old.op, media |-> old.media, first |-> old.first,
               count |-> old.count, buffer |-> old.buffer, moved |-> old.moved]
    BY <1>1, MovingFields
  <2>2. [old EXCEPT !.buffer = Append(@, w), !.moved = @ + 1] = r
    <3> DEFINE longer == Append(old.buffer, w)
               more == old.moved + 1
               half == [pc |-> old.pc, op |-> old.op, media |-> old.media, first |-> old.first,
                        count |-> old.count, buffer |-> longer, moved |-> old.moved]
    <3> HIDE DEF old, w
    <3>1. [old EXCEPT !.buffer = longer] = half
      BY SMTT(20), <2>1
    <3>2. [half EXCEPT !.moved = more] =
              [pc |-> old.pc, op |-> old.op, media |-> old.media, first |-> old.first,
               count |-> old.count, buffer |-> longer, moved |-> more]
      <4> HIDE DEF longer, more
      <4> QED  OBVIOUS
    <3>3. [old EXCEPT !.buffer = longer, !.moved = more] = [[old EXCEPT !.buffer = longer] EXCEPT !.moved = more]
      OBVIOUS
    <3> QED  BY <3>1, <3>2, <3>3
  <2> QED  BY <1>1, <2>2
<1>4. r \in Moving
  <2> HIDE DEF w, m
  <2>1. old.buffer \in Seq(Cell) /\ Len(old.buffer) = old.moved
    BY <1>1, MovingFields
  <2>2. Append(old.buffer, w) \in Seq(Cell) /\ Len(Append(old.buffer, w)) = old.moved + 1
    BY <1>2, <2>1, AppendProperties
  <2>3. /\ old.pc \in {"sent", "moving"} /\ old.op \in {"read", "write"} /\ old.media \in Media
        /\ old.first \in Nat /\ old.count \in Nat /\ old.buffer \in Seq(Cell) /\ old.moved \in Nat
        /\ old.count > 0 /\ old.first + old.count <= Count(old.media)
        /\ old.moved + 1 \in Nat /\ old.moved + 1 <= old.count
    BY <1>1, MovingFields
  <2> DEFINE longer == Append(old.buffer, w)
             more == old.moved + 1
  <2>4. longer \in Seq(Cell) /\ Len(longer) = IF old.op = "write" THEN old.count ELSE more
    BY <1>1, <2>2
  <2>5. more \in Nat /\ more <= old.count
    BY <2>3
  <2> HIDE DEF longer, more, old
  <2>6. [pc |-> old.pc, op |-> old.op, media |-> old.media, first |-> old.first,
         count |-> old.count, buffer |-> longer, moved |-> more] \in Moving
    BY <2>3, <2>4, <2>5, MovingRecord
  <2> QED  BY <2>6 DEF longer, more
<1>5. DiskInv' /\ UNCHANGED Seen
  BY <1>1, <1>3, <1>4, RequestStep, SameSeen
<1>6. /\ ask = [op |-> old.op, media |-> m, first |-> old.first + 1, count |-> old.count,
                moved |-> old.moved, data |-> Plain(m, old.buffer)]
      /\ Asks' = [Asks EXCEPT ![c] = Asked(r)] /\ Asks = [d \in DiskClient |-> Asks[d]]
  <2>1. ask = Asked(io[c]) /\ Asks' = [Asks EXCEPT ![c] = Asked(r)]
    <3> HIDE DEF r
    <3> QED  BY <1>3, OneAsks
  <2>2. Asks = [d \in DiskClient |-> Asks[d]]
    BY DEF Asks
  <2> QED  BY <1>1, <2>1, <2>2, AskedCases
<1>7. Seen[m][b] = Through(m, w) /\ Seen[m] = Plain(m, Blocks(m)) /\ Len(Seen[m]) = Count(m)
  <2>1. Seen[m] = Plain(m, Blocks(m))
    BY <1>2 DEF Seen
  <2> QED  BY <1>2, <2>1, SeenMedium DEF DiskInv
<1>8. Asked(r) = a
  <2>1. Plain(m, Append(old.buffer, w)) = Append(Plain(m, old.buffer), Through(m, w))
    <3> HIDE DEF w, m
    <3> QED  BY <1>1, <1>2, MovingFields, PlainAppend
  <2>2. Asked(r) = [op |-> r.op, media |-> r.media, first |-> r.first + 1,
                    count |-> r.count, moved |-> r.moved, data |-> Plain(r.media, r.buffer)]
    <3> HIDE DEF r
    <3> QED  BY <1>4, AskedCases
  <2>3. ask.data = Plain(m, old.buffer)
    BY <1>6
  <2> HIDE DEF w, b
  <2> QED  BY <1>7, <2>1, <2>2, <2>3
<1>9. Store!Transfer(c)
  <2>1. Asks' = [Asks EXCEPT ![c].data = Append(@, Seen[m][b]), ![c].moved = @ + 1]
    <3> HIDE DEF b, ask, old
    <3> DEFINE block == Seen[m][b]
    <3> HIDE DEF block
    <3>1. [ask EXCEPT !.data = Append(@, block), !.moved = @ + 1] =
              [op |-> old.op, media |-> old.media, first |-> old.first + 1, count |-> old.count,
               moved |-> old.moved + 1, data |-> Append(ask.data, block)]
      <4> DEFINE longer == Append(ask.data, block)
                 more == ask.moved + 1
                 half == [op |-> old.op, media |-> old.media, first |-> old.first + 1, count |-> old.count,
                          moved |-> old.moved, data |-> longer]
      <4>1. [ask EXCEPT !.data = longer] = half
        <5> HIDE DEF longer
        <5> QED  BY <1>6
      <4>2. [half EXCEPT !.moved = more] =
                [op |-> old.op, media |-> old.media, first |-> old.first + 1, count |-> old.count,
                 moved |-> more, data |-> longer]
        BY SMTT(20)
      <4>3. [ask EXCEPT !.data = longer, !.moved = more] = [[ask EXCEPT !.data = longer] EXCEPT !.moved = more]
        OBVIOUS
      <4>4. more = old.moved + 1
        BY <1>6
      <4> QED  BY <4>1, <4>2, <4>3, <4>4
    <3> USE DEF block, ask, old
    <3>2. Asks' = [Asks EXCEPT ![c] = a]
      BY <1>6, <1>8
    <3> QED  BY <3>1, <3>2
  <2>2. /\ ask.op = "read" /\ ask.moved < ask.count /\ ask.media = m /\ ask.first + ask.moved = b
    BY <1>1, <1>2, <1>6
  <2>3. b \in 1 .. Len(Seen[m])
    BY <1>2, <1>7
  <2> HIDE DEF m, b, a, r, w, old
  <2>4. ask.op \in {"read", "write"} /\ UNCHANGED Seen
    BY <2>2, <1>5
  <2> QED  BY <2>1, <2>2, <2>3, <2>4 DEF Store!Transfer
<1> QED  BY <1>5, <1>9 DEF Kept, Store!StoreNext

LEMMA PerformWriteKept == \A c \in DiskClient : DiskInv /\ performWrite(c) => Kept
<1> SUFFICES ASSUME NEW c \in DiskClient, DiskInv, performWrite(c) PROVE Kept
  OBVIOUS
<1> DEFINE old == io[c]
           m == old.media
           w == old.buffer[old.moved + 1]
           r == [pc |-> old.pc, op |-> old.op, media |-> old.media, first |-> old.first,
                 count |-> old.count, buffer |-> old.buffer, moved |-> old.moved + 1]
           b == old.first + old.moved + 1
           ask == Asks[c]
           a == [op |-> old.op, media |-> old.media, first |-> old.first + 1, count |-> old.count,
                 moved |-> old.moved + 1, data |-> ask.data]
<1>1. /\ old \in Moving /\ UNCHANGED <<inactive, m_partitions>>
      /\ old.op = "write" /\ old.moved < old.count
      /\ m_buffer' = [m_buffer EXCEPT ![Block(c) + old.moved] = w]
      /\ io' = [io EXCEPT ![c].moved = @ + 1]
  BY RequestOf DEF performWrite, IOAt
<1>2. /\ m \in Media /\ old.first \in Nat /\ old.moved \in Nat /\ old.count \in Nat
      /\ b \in 1 .. Count(m) /\ Block(c) + old.moved = Base(m) + b - 1
      /\ Base(m) \in Nat /\ Count(m) \in Nat /\ m # 0
  <2>1. /\ m \in Media /\ old.first \in Nat /\ old.moved \in Nat /\ old.count \in Nat
        /\ Block(c) + old.moved = Base(m) + (old.first + old.moved)
        /\ old.first + old.moved \in 0 .. Count(m) - 1
    BY <1>1, BlockInDisk
  <2>2. Base(m) \in Nat /\ Count(m) \in Nat /\ m # 0
    BY <2>1, InDisk
  <2>3. Block(c) + old.moved = Base(m) + b - 1 /\ b \in 1 .. Count(m)
    BY <2>1, <2>2
  <2> QED  BY <2>1, <2>2, <2>3
<1>3. w \in Cell /\ old.moved + 1 \in 1 .. Len(old.buffer) /\ old.buffer \in Seq(Cell)
  <2>1. old.buffer \in Seq(Cell) /\ Len(old.buffer) = old.count
    BY <1>1, MovingFields
  <2>2. old.moved < old.count
    BY <1>1
  <2>3. old.moved + 1 \in 1 .. Len(old.buffer)
    <3>1. old.moved \in Nat /\ old.count \in Nat
      BY <1>2
    <3> HIDE DEF old
    <3> QED  BY <3>1, <2>1, <2>2
  <2> QED  BY <2>1, <2>3, ElementOfSeq
<1>4. io' = [io EXCEPT ![c] = r]
  <2>1. [old EXCEPT !.moved = @ + 1] = r
    BY <1>1, MovingFields
  <2> QED  BY <1>1, <2>1
<1>5. r \in Moving
  <2>1. /\ old.pc \in {"sent", "moving"} /\ old.op \in {"read", "write"} /\ old.media \in Media
        /\ old.first \in Nat /\ old.count \in Nat /\ old.buffer \in Seq(Cell) /\ old.moved \in Nat
        /\ old.count > 0 /\ old.first + old.count <= Count(old.media)
        /\ Len(old.buffer) = IF old.op = "write" THEN old.count ELSE old.moved + 1
    BY <1>1, MovingFields
  <2>a. old.moved < old.count
    BY <1>1
  <2> DEFINE more == old.moved + 1
  <2>2. more \in Nat /\ more <= old.count /\ Len(old.buffer) = IF old.op = "write" THEN old.count ELSE more
    BY <2>1, <2>a
  <2> HIDE DEF more, old
  <2>3. [pc |-> old.pc, op |-> old.op, media |-> old.media, first |-> old.first,
         count |-> old.count, buffer |-> old.buffer, moved |-> more] \in Moving
    BY <2>1, <2>2, MovingRecord
  <2> QED  BY <2>3 DEF more
<1>6. BlocksTyped' /\ Seen' = [Seen EXCEPT ![m] = [Seen[m] EXCEPT ![b] = Through(m, w)]]
  <2> HIDE DEF w, b, m
  <2> QED  BY <1>1, <1>2, <1>3, OneSeen
<1>7. DiskInv'
  <2> HIDE DEF r
  <2> QED  BY <1>1, <1>4, <1>5, <1>6 DEF DiskInv
<1>8. /\ ask = [op |-> old.op, media |-> m, first |-> old.first + 1, count |-> old.count,
                moved |-> old.moved, data |-> Plain(m, old.buffer)]
      /\ Asks' = [Asks EXCEPT ![c] = Asked(r)] /\ Asks = [d \in DiskClient |-> Asks[d]]
  <2>1. ask = Asked(io[c]) /\ Asks' = [Asks EXCEPT ![c] = Asked(r)]
    <3> HIDE DEF r
    <3> QED  BY <1>4, OneAsks
  <2>2. Asks = [d \in DiskClient |-> Asks[d]]
    BY DEF Asks
  <2> QED  BY <1>1, <2>1, <2>2, AskedCases
<1>9. Asked(r) = a
  BY <1>5, <1>8, AskedCases
<1>10. ask.data[ask.moved + 1] = Through(m, w)
  <2>1. Plain(m, old.buffer)[old.moved + 1] = Through(m, w)
    BY <1>3, PlainBlocks
  <2> QED  BY <1>8, <2>1
<1>11. Len(Seen[m]) = Count(m) /\ Seen = [n \in Media \cup {0} |-> Seen[n]]
  <2>1. Seen[m] = Plain(m, Blocks(m)) /\ Seen = [n \in Media \cup {0} |-> Seen[n]]
    BY <1>2 DEF Seen
  <2> QED  BY <1>2, <2>1, SeenMedium DEF DiskInv
<1>12. Store!Transfer(c)
  <2>1. Asks' = [Asks EXCEPT ![c].moved = @ + 1]
    <3>1. [ask EXCEPT !.moved = @ + 1] = a
      BY <1>8
    <3>2. Asks' = [Asks EXCEPT ![c] = a]
      BY <1>8, <1>9
    <3> QED  BY <3>1, <3>2
  <2>2. /\ ask.op = "write" /\ ask.moved < ask.count /\ ask.media = m /\ ask.first + ask.moved = b
    BY <1>1, <1>2, <1>8
  <2>3. b \in 1 .. Len(Seen[m])
    BY <1>2, <1>11
  <2> HIDE DEF m, b, a, r, w, old
  <2>4. Seen' = [Seen EXCEPT ![m][b] = ask.data[ask.moved + 1]]
    BY <1>6, <1>10, <1>11
  <2>5. ask.op \in {"read", "write"} /\ ask.op # "read"
    BY <2>2
  <2> QED  BY <2>1, <2>2, <2>3, <2>4, <2>5 DEF Store!Transfer
<1> QED  BY <1>7, <1>12 DEF Kept, Store!StoreNext

\* The completion hands over what was transferred, in the clear.
LEMMA CompletedKept == \A c \in DiskClient : DiskInv /\ readCompleted(c) => Kept
<1> SUFFICES ASSUME NEW c \in DiskClient, DiskInv, readCompleted(c) PROVE Kept
  OBVIOUS
<1> DEFINE old == io[c]
           m == old.media
           data == IF old.op = "read" THEN decryptBuffer(m, old.buffer) ELSE <<>>
           r == [pc |-> "done", status |-> "ok", actual |-> old.count, buffer |-> data]
           ask == Asks[c]
           a == [op |-> "done", status |-> "ok", actual |-> ask.count,
                 data |-> IF ask.op = "read" THEN ask.data ELSE <<>>]
<1>1. old \in Moving /\ UNCHANGED <<m_buffer, inactive, m_partitions>> /\ old.moved = old.count
  BY RequestOf DEF readCompleted, IOAt
<1>2. CASE Fail(c)
  BY <1>1, <1>2, FailKept
<1>3. CASE io' = [io EXCEPT ![c] = r]
  <2>1. data \in Seq(Cell) /\ data = IF old.op = "read" THEN Plain(m, old.buffer) ELSE <<>>
    <3>1. old.buffer \in Seq(Cell) /\ old.count \in Nat
      BY <1>1, MovingFields
    <3> QED  BY <3>1, PlainBlocks
  <2>2. r \in Finished
    <3> HIDE DEF data
    <3>1. old.count \in Nat
      BY <1>1, MovingFields
    <3> QED  BY <2>1, <3>1 DEF Finished
  <2>3. /\ ask = [op |-> old.op, media |-> m, first |-> old.first + 1, count |-> old.count,
                  moved |-> old.moved, data |-> Plain(m, old.buffer)]
        /\ Asks' = [Asks EXCEPT ![c] = Asked(r)]
    <3>1. ask = Asked(io[c]) /\ Asks' = [Asks EXCEPT ![c] = Asked(r)]
      <4> HIDE DEF r
      <4> QED  BY <1>3, OneAsks
    <3> QED  BY <1>1, <3>1, AskedCases
  <2>4. Asked(r) = a
    <3>1. Asked(r) = [op |-> "done", status |-> "ok", actual |-> old.count, data |-> data]
      <4> HIDE DEF data
      <4> QED  BY <2>2, AskedCases
    <3> HIDE DEF data, r
    <3> QED  BY <2>1, <2>3, <3>1
  <2>5. DiskInv' /\ UNCHANGED Seen
    <3> HIDE DEF r
    <3> QED  BY <1>1, <1>3, <2>2, RequestStep, SameSeen
  <2>6. Store!Complete(c)
    <3>1. ask.op \in {"read", "write"} /\ ask.moved = ask.count
      BY <1>1, <2>3, MovingFields
    <3>2. Asks' = [Asks EXCEPT ![c] =
              [op |-> "done", status |-> "ok", actual |-> @.count,
               data |-> IF @.op = "read" THEN @.data ELSE <<>>]]
      BY <2>3, <2>4
    <3> HIDE DEF r, a, data, old
    <3> QED  BY <2>5, <3>1, <3>2 DEF Store!Complete
  <2> QED  BY <2>5, <2>6 DEF Kept, Store!StoreNext
<1> QED  BY <1>2, <1>3 DEF readCompleted
-----------------------------------------------------------------------------
LEMMA StepKept == DiskInv /\ [DiskNext]_diskVars => Kept
<1> SUFFICES ASSUME DiskInv, [DiskNext]_diskVars PROVE Kept
  OBVIOUS
<1>1. CASE UNCHANGED diskVars
  <2>1. BlocksTyped' /\ UNCHANGED <<Seen, Asks>>
    BY <1>1, SameSeen, AskedByRequest DEF diskVars, DiskInv, BlocksTyped
  <2> QED  BY <1>1, <2>1 DEF Kept, DiskInv, diskVars
<1> QED
  BY <1>1, ProbeKept, TerminateKept, ReadKept, WriteKept, NoMemoryKept, AsyncKept,
     PerformReadKept, PerformWriteKept, CompletedKept DEF DiskNext

LEMMA DiskInvariant == DiskSpec => []DiskInv
<1>1. DiskInv /\ [DiskNext]_diskVars => DiskInv'
  BY StepKept DEF Kept
<1> QED  BY <1>1, DiskInvInit, PTL DEF DiskSpec

\* The state of the disk, of its device, of the media and of the requests stays
\* of its type, whatever the partitions' clients do.
THEOREM DiskTypeCorrect == DiskSpec => []DiskTypeOK
<1>1. DiskInv => DiskTypeOK
  BY RequestOf DEF DiskInv, BlocksTyped, DiskTypeOK
<1> QED  BY <1>1, DiskInvariant, PTL

\* No request reaches block 0 (RAMDiskStorageDevice::doAsyncReadWrite adds the
\* partition's base, and a medium refuses what is not on it): the table that
\* the partition scheme reads stays the one that RAMDisk::start wrote.
THEOREM TableStays == DiskSpec => []TableIntact
<1>1. DiskInv => TableIntact
  BY DEF DiskInv, BlocksTyped, TableIntact
<1> QED  BY <1>1, DiskInvariant, PTL

\* The stack of disk, partition scheme and filter implements BlockStore: every
\* medium is an array of blocks of its own, in the clear for its clients, and a
\* completed request has transferred each of its blocks.
THEOREM StorageRefinement == DiskSpec => ImplementsBlockStore
<1>1. DiskInit => Store!StoreInit
  <2> SUFFICES ASSUME DiskInit PROVE Store!StoreInit
    OBVIOUS
  <2>1. DiskInv
    BY DiskInvInit
  <2>2. ASSUME NEW m \in Media \cup {0} PROVE Seen[m] \in Seq(Cell \cup {kTable})
    <3>1. CASE m = 0
      <4>1. m_buffer[0] = kTable
        BY <2>1 DEF DiskInv, BlocksTyped
      <4> QED  BY <3>1, <4>1 DEF Seen
    <3>2. CASE m # 0
      <4>1. Seen[m] = Plain(m, Blocks(m)) /\ Plain(m, Blocks(m)) \in Seq(Cell)
        BY <2>1, <3>2, SeenMedium DEF Seen, DiskInv
      <4> QED  BY <4>1, SeqMonotonic
    <3> QED  BY <3>1, <3>2
  <2>3. Asks = [c \in DiskClient |-> [op |-> "none"]]
    BY AskedByRequest, AskedCases DEF DiskInit
  <2>4. Seen \in [Media \cup {0} -> Seq(Cell \cup {kTable})]
    BY <2>2 DEF Seen
  <2> QED  BY <2>3, <2>4 DEF Store!StoreInit, Store!NoRequest
<1>2. DiskInv /\ [DiskNext]_diskVars => [Store!StoreNext]_<<Seen, Asks>>
  BY StepKept DEF Kept
<1> QED
  BY <1>1, <1>2, DiskInvariant, PTL DEF DiskSpec, ImplementsBlockStore, Store!StoreSpec, Store!storeVars
=============================================================================
