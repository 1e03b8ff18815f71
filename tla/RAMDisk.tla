------------------------------ MODULE RAMDisk ------------------------------
(***************************************************************************)
(* The RAM disk, the partition scheme on it and the encryption filter on   *)
(* some of its partitions, as one stack.  A request to a partition's       *)
(* medium goes down through the filter, which encrypts what is written in  *)
(* a buffer of its own, and through the disk, which copies block by block; *)
(* its completion comes back up and decrypts what was read in place.       *)
(* IOMedia, which checks and shifts a request, and the matching of filters *)
(* to media are external.                                                  *)
(***************************************************************************)
EXTENDS Integers, Sequences

CONSTANTS
    DiskClient,
    DiskBlocks,     \* kDiskByteSize / kDiskBlockSize
    Table,          \* the partition table that RAMDisk::start writes
    Encrypted,      \* the partitions that carry a filter
    Cell            \* what a block holds

Media == DOMAIN Table
Base(m) == Table[m].blockStart
Count(m) == Table[m].blockCount

\* Partitions lie behind the table, inside the disk and apart from each other.
Fits(table, blocks) ==
    /\ blocks \in Nat \ {0}
    /\ table \in Seq([blockStart : Nat, blockCount : Nat])
    /\ \A m \in DOMAIN table :
        /\ table[m].blockStart > 0
        /\ table[m].blockCount > 0
        /\ table[m].blockStart + table[m].blockCount <= blocks
    /\ \A m, n \in DOMAIN table :
        m # n => \/ table[m].blockStart + table[m].blockCount <= table[n].blockStart
                 \/ table[n].blockStart + table[n].blockCount <= table[m].blockStart

\* The table in the source, in MiB of 2048 blocks.
SourceTable == <<[blockStart |-> 1, blockCount |-> 8], [blockStart |-> 9, blockCount |-> 7]>>
SourceDisk == 16

ASSUME TableAssumption == Fits(Table, DiskBlocks) /\ Fits(SourceTable, SourceDisk)
ASSUME CellAssumption == Cell = {0, 1} /\ Encrypted \subseteq Media

VARIABLES
    m_buffer,       \* the blocks of the disk, block 0 first
    inactive,       \* the device has been terminated
    m_partitions,   \* the media the partition scheme has published
    io              \* each client's request

diskVars == <<m_buffer, inactive, m_partitions, io>>

NoIO == [pc |-> "none"]
IOAt(c, pc) == io[c].pc = pc
kTable == 2                     \* the block that holds the partition table

\* RAMDisk::start and RAMDiskStorageDevice::init.
m_blockCount == DiskBlocks
reportMaxValidBlock == m_blockCount - 1
DiskInit ==
    /\ m_buffer = [b \in 0 .. reportMaxValidBlock |-> IF b = 0 THEN kTable ELSE 0]
    /\ inactive = FALSE
    /\ m_partitions = {}
    /\ io = [c \in DiskClient |-> NoIO]
-----------------------------------------------------------------------------
\* PartitionScheme::probe and requestProbe: the table is read and, unless the
\* read fails or finds none, its partitions published, beside those that are.
scan == IF m_buffer[0] = kTable THEN Media ELSE {}
Probe ==
    /\ ~inactive
    /\ m_partitions' = m_partitions \cup scan
    /\ UNCHANGED <<m_buffer, inactive, io>>

\* XOR with all ones.
Flip(w) == 1 - w
FlipAll(data) == [i \in DOMAIN data |-> Flip(data[i])]

\* A client calls the medium, which refuses what is not on it; a filter's
\* write() encrypts into a new buffer.
encryptBuffer(m, data) == IF m \in Encrypted THEN FlipAll(data) ELSE data
Issue(c, m, first, op, count, buffer) ==
    /\ io[c].pc \in {"none", "done"}
    /\ m \in m_partitions
    /\ first + count <= Count(m)
    /\ io' = [io EXCEPT ![c] =
          [pc |-> "sent", op |-> op, media |-> m, first |-> first, count |-> count,
           buffer |-> buffer, moved |-> 0]]
    /\ UNCHANGED <<m_buffer, inactive, m_partitions>>
read(c) ==
    \E m \in Media : \E first \in 0 .. Count(m) - 1, n \in 1 .. Count(m) :
        Issue(c, m, first, "read", n, <<>>)
write(c) ==
    \E m \in Media : \E first \in 0 .. Count(m) - 1, n \in 1 .. Count(m) :
        \E data \in [1 .. n -> Cell] : Issue(c, m, first, "write", n, encryptBuffer(m, data))

Fail(c) == io' = [io EXCEPT ![c] =
              [pc |-> "done", status |-> "error", actual |-> 0, buffer |-> <<>>]]

\* The filter has no memory for its buffer or its completion record.
NoMemory(c) ==
    /\ IOAt(c, "sent")
    /\ io[c].media \in Encrypted
    /\ Fail(c)
    /\ UNCHANGED <<m_buffer, inactive, m_partitions>>

\* Faulty variant: forgets the partition's base.
BlockUnshifted(c) == io[c].first
\* doAsyncReadWrite: refused when the device is inactive or the range is not on
\* the disk; IOMedia has added the partition's base.
Block(c) == Base(io[c].media) + io[c].first
doAsyncReadWrite(c) ==
    /\ IOAt(c, "sent")
    /\ IF inactive \/ Block(c) + io[c].count > m_blockCount
       THEN Fail(c)
       ELSE io' = [io EXCEPT ![c].pc = "moving"]
    /\ UNCHANGED <<m_buffer, inactive, m_partitions>>

\* performRead and performWrite copy without a lock, here block by block.
performRead(c) ==
    /\ IOAt(c, "moving")
    /\ io[c].op = "read"
    /\ io[c].moved < io[c].count
    /\ io' = [io EXCEPT ![c].buffer = Append(@, m_buffer[Block(c) + io[c].moved]),
                        ![c].moved = @ + 1]
    /\ UNCHANGED <<m_buffer, inactive, m_partitions>>
performWrite(c) ==
    /\ IOAt(c, "moving")
    /\ io[c].op = "write"
    /\ io[c].moved < io[c].count
    /\ m_buffer' = [m_buffer EXCEPT ![Block(c) + io[c].moved] = io[c].buffer[io[c].moved + 1]]
    /\ io' = [io EXCEPT ![c].moved = @ + 1]
    /\ UNCHANGED <<inactive, m_partitions>>

\* The completion; a filter's readCompleted decrypts first, and may fail to.
decryptBuffer(m, data) == IF m \in Encrypted THEN FlipAll(data) ELSE data
readCompleted(c) ==
    /\ IOAt(c, "moving")
    /\ io[c].moved = io[c].count
    /\ \/ io' = [io EXCEPT ![c] =
              [pc |-> "done", status |-> "ok", actual |-> @.count,
               buffer |-> IF @.op = "read" THEN decryptBuffer(@.media, @.buffer) ELSE <<>>]]
       \/ io[c].op = "read" /\ io[c].media \in Encrypted /\ Fail(c)
    /\ UNCHANGED <<m_buffer, inactive, m_partitions>>

Terminate ==
    /\ ~inactive
    /\ inactive' = TRUE
    /\ UNCHANGED <<m_buffer, m_partitions, io>>

DiskNext ==
    \/ Probe
    \/ \E c \in DiskClient :
        \/ read(c)
        \/ write(c)
        \/ NoMemory(c)
        \/ doAsyncReadWrite(c)
        \/ performRead(c)
        \/ performWrite(c)
        \/ readCompleted(c)
    \/ Terminate
DiskSpec == DiskInit /\ [][DiskNext]_diskVars
-----------------------------------------------------------------------------
DiskTypeOK ==
    /\ \A b \in 1 .. DiskBlocks - 1 : m_buffer[b] \in Cell
    /\ inactive \in BOOLEAN
    /\ m_partitions \subseteq Media
    /\ \A c \in DiskClient : io[c].pc \in {"none", "sent", "moving", "done"}

\* No request to a partition reaches the partition table.
TableIntact == m_buffer[0] = kTable

\* Each partition is an array of blocks of its own, through the filter or not,
\* and so is the table, medium 0, to which no request is made.
Plain(m, data) == IF m \in Encrypted THEN FlipAll(data) ELSE data
AskedOf(c) ==
    CASE IOAt(c, "none") -> [op |-> "none"]
      [] IOAt(c, "done") ->
            [op |-> "done", status |-> io[c].status, actual |-> io[c].actual, data |-> io[c].buffer]
      [] OTHER ->
            [op |-> io[c].op, media |-> io[c].media, first |-> io[c].first + 1,
             count |-> io[c].count, moved |-> io[c].moved,
             data |-> Plain(io[c].media, io[c].buffer)]
Blocks(m) == [b \in 1 .. Count(m) |-> m_buffer[Base(m) + b - 1]]
Seen == [m \in Media \cup {0} |-> IF m = 0 THEN <<m_buffer[0]>> ELSE Plain(m, Blocks(m))]
Asks == [c \in DiskClient |-> AskedOf(c)]
Store == INSTANCE BlockStore WITH
    Client <- DiskClient,
    Media <- Media \cup {0},
    Size <- DiskBlocks,
    Word <- Cell \cup {kTable},
    disk <- Seen,
    request <- Asks
ImplementsBlockStore == Store!StoreSpec
=============================================================================
