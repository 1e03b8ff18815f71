----------------------------- MODULE BlockStore -----------------------------
(***************************************************************************)
(* What the clients of the RAM disk's partitions are promised: each medium *)
(* is an array of blocks of its own.  A request transfers its blocks one   *)
(* by one, each at some moment between its submission and its completion,  *)
(* and is completed once; a successful one has transferred all of them.    *)
(***************************************************************************)
EXTENDS Integers, Sequences

CONSTANTS Client, Media, Size, Word

VARIABLES
    disk,           \* the blocks of each medium
    request         \* each client's request

storeVars == <<disk, request>>

NoRequest == [op |-> "none"]

StoreInit ==
    /\ disk \in [Media -> Seq(Word)]
    /\ request = [c \in Client |-> NoRequest]

Request == [op : {"read", "write"}, media : Media, first : 1 .. Size, count : 1 .. Size,
            data : Seq(Word), moved : {0}]
Submit(c) ==
    /\ request[c].op \in {"none", "done"}
    /\ request'[c] \in Request
    /\ Len(request'[c].data) = (IF request'[c].op = "write" THEN request'[c].count ELSE 0)
    /\ request' = [request EXCEPT ![c] = request'[c]]
    /\ UNCHANGED disk

Transfer(c) ==
    /\ request[c].op \in {"read", "write"}
    /\ request[c].moved < request[c].count
    /\ LET r == request[c]  b == r.first + r.moved IN
        /\ b \in 1 .. Len(disk[r.media])
        /\ IF r.op = "read"
           THEN /\ request' = [request EXCEPT ![c].data = Append(@, disk[r.media][b]),
                                              ![c].moved = @ + 1]
                /\ UNCHANGED disk
           ELSE /\ disk' = [disk EXCEPT ![r.media][b] = r.data[r.moved + 1]]
                /\ request' = [request EXCEPT ![c].moved = @ + 1]

\* A request that fails has transferred some of its blocks or none, and its
\* data is not to be used.
Complete(c) ==
    /\ request[c].op \in {"read", "write"}
    /\ \/ /\ request[c].moved = request[c].count
          /\ request' = [request EXCEPT ![c] =
                [op |-> "done", status |-> "ok", actual |-> @.count,
                 data |-> IF @.op = "read" THEN @.data ELSE <<>>]]
       \/ request' = [request EXCEPT ![c] =
                [op |-> "done", status |-> "error", actual |-> 0, data |-> <<>>]]
    /\ UNCHANGED disk

StoreNext == \E c \in Client : Submit(c) \/ Transfer(c) \/ Complete(c)
StoreSpec == StoreInit /\ [][StoreNext]_storeVars
=============================================================================
