---------------------------------- MODULE Dfs ----------------------------------
(***************************************************************************)
(* The files, the block table and the block cache of dfs.h, used by several *)
(* threads: a file has a readers/writers lock, the cache a mutex, and the  *)
(* table of all blocks nothing.  The accesses to the table and the cache    *)
(* are steps of their own: nothing protects the table, and a hit in the     *)
(* cache lets a reader release the mutex of another (stray), after which    *)
(* the mutex protects nothing either.                                      *)
(*                                                                         *)
(* Sizes are positive, allocation of a block succeeds, and a byte is the    *)
(* value its write was given with its place in that write's buffer.  What   *)
(* the code has no right to do ends the run with a fault of its kind, but    *)
(* for the release of a mutex that the thread does not hold, which frees it. *)
(***************************************************************************)
EXTENDS Integers, Sequences, FiniteSets

CONSTANTS
    Clients,        \* the threads that call the file system
    NoClient,
    MaxFiles,       \* files that are created
    BlockSize,      \* DFS_BLOCK_SIZE
    BlockCapacity,  \* block_capacity
    CacheCapacity,  \* cache->capacity
    Ranges,         \* <<offset, size>> of the calls
    Values,         \* what the writes write; 0 stands for what calloc left
    MaxCalls        \* reads and writes

ASSUME ClientsAssumption == NoClient \notin Clients
ASSUME SizesAssumption ==
    /\ MaxFiles \in Nat /\ BlockSize \in Nat \ {0} /\ BlockCapacity \in Nat
    /\ CacheCapacity \in Nat /\ MaxCalls \in Nat
ASSUME RangesAssumption == Ranges \subseteq Nat \X (Nat \ {0})
ASSUME ValuesAssumption == 0 \notin Values

VARIABLES
    files,       \* how many files there are
    size, list,  \* file->size, file->block_list
    writer, readers,  \* who holds file->lock
    blocks,      \* the blocks by id, as allocated: next_block_id is Len(blocks) + 1
    table, count,     \* block_table (0 is NULL), block_count
    entries, cached,  \* cache->entries (no data is NULL), cache->count
    cache_lock,
    pc,          \* what each client does next
    call,        \* the arguments of its call
    at, index,   \* its i (a block of the file) and j or idx (a table's slot)
    moved,       \* the bytes its call has copied
    hit,         \* its read has copied a block from the cache
    calls,
    fault,       \* "none", or the kind of the undefined step that ended the run
    served,      \* stats.cache_hits is not zero
    stray,       \* history: a thread has released the mutex without holding it
    content, short    \* history: what was written; a write returned less than its size

fileVars  == <<files, size, list, writer, readers, content, short>>
blockVars == <<blocks, table, count>>
cacheVars == <<entries, cached, cache_lock, served, stray>>
callVars  == <<call, at, moved, hit, calls>>
vars == <<fileVars, blockVars, cacheVars, callVars, pc, index, fault>>

Files == 1..MaxFiles
Zero  == <<0, 0>>
Goto(t, label) == pc' = [pc EXCEPT ![t] = label]

(* The arguments of a call, with the length of the caller's buffer.          *)
Arguments(f, r, v) == [file |-> f, offset |-> r[1], size |-> r[2], buffer |-> r[2], value |-> v]
NoCall == Arguments(0, <<0, 0>>, 0)

Init ==
    /\ files = 0
    /\ size = [f \in Files |-> 0] /\ list = [f \in Files |-> <<>>]
    /\ writer = [f \in Files |-> NoClient] /\ readers = [f \in Files |-> {}]
    /\ blocks = <<>> /\ table = [j \in 1..BlockCapacity |-> 0] /\ count = 0
    /\ entries = [j \in 1..CacheCapacity |-> [block_id |-> 0, data |-> <<>>]]
    /\ cached = 0 /\ cache_lock = NoClient
    /\ pc = [t \in Clients |-> "idle"]
    /\ call = [t \in Clients |-> NoCall]
    /\ at = [t \in Clients |-> 0] /\ index = [t \in Clients |-> 0]
    /\ moved = [t \in Clients |-> <<>>] /\ hit = [t \in Clients |-> FALSE]
    /\ calls = 0 /\ fault = "none" /\ served = FALSE /\ stray = FALSE
    /\ content = [f \in Files |-> <<>>] /\ short = [f \in Files |-> FALSE]

-----------------------------------------------------------------------------
(* The part of block i of a file that a call c covers.                     *)

FirstBlock(c) == c.offset \div BlockSize
LastBlock(c)  == (c.offset + c.size - 1) \div BlockSize

BlockOffset(c, i) == IF i = FirstBlock(c) THEN c.offset % BlockSize ELSE 0

(* block_size; a negative one stands for one that wraps around.              *)
PieceSize(c, i) ==
    LET rest == ((c.offset + c.size) % BlockSize) - BlockOffset(c, i)
    IN  IF i # LastBlock(c) \/ rest = 0 THEN BlockSize - BlockOffset(c, i) ELSE rest

Wraps(c) == \E i \in FirstBlock(c)..LastBlock(c) : PieceSize(c, i) < 0

Piece(c, i, data) == SubSeq(data, BlockOffset(c, i) + 1, BlockOffset(c, i) + PieceSize(c, i))

(* A search of the block table, which dereferences every slot that it meets. *)
InTable(id) == \E j \in 1..count : table[j] = id
MeetsNull(id) == \E j \in 1..count : table[j] = 0 /\ \A k \in 1..(j - 1) : table[k] # id

(* What is left of the call's blocks.                                        *)
Id(t) == list[call[t].file][at[t] + 1]
Last(t) == at[t] = LastBlock(call[t])

-----------------------------------------------------------------------------

(* dfs_create_file, under the global lock.                                   *)
CreateFile(t) ==
    /\ pc[t] = "idle" /\ files < MaxFiles
    /\ files' = files + 1
    /\ UNCHANGED <<size, list, writer, readers, content, short, blockVars, cacheVars, callVars,
                   pc, index, fault>>

-----------------------------------------------------------------------------
(* dfs_write                                                               *)

(* Takes the lock of the file; without memory for a longer list it returns.   *)
StartWrite(t) ==
    /\ pc[t] = "idle" /\ calls < MaxCalls
    /\ \E f \in 1..files, r \in Ranges, v \in Values :
        LET c == Arguments(f, r, v) IN
        /\ writer[f] = NoClient /\ readers[f] = {}
        /\ call' = [call EXCEPT ![t] = c]
        /\ at' = [at EXCEPT ![t] = FirstBlock(c)]
        /\ \/ /\ LastBlock(c) < Len(list[f])
              /\ Goto(t, "store")
              /\ writer' = [writer EXCEPT ![f] = t]
           \/ /\ LastBlock(c) >= Len(list[f])
              /\ Goto(t, "extend")
              /\ writer' = [writer EXCEPT ![f] = t]
           \/ /\ LastBlock(c) >= Len(list[f])
              /\ UNCHANGED <<pc, writer>>
    /\ calls' = calls + 1
    /\ UNCHANGED <<files, size, list, readers, content, short, blockVars, cacheVars, moved, hit,
                   index, fault>>

Extended(t) == IF Len(list[call[t].file]) > LastBlock(call[t]) THEN "store" ELSE "extend"

Block(f, i) == [file_id |-> f, place |-> i, data |-> [k \in 1..BlockSize |-> Zero],
                checksum |-> FALSE]

(* A new block at the end of the list, to be put into the table if it has room; *)
(* index is the count that was tested.                                       *)
NewBlock(t, id, room) ==
    LET f == call[t].file IN
    /\ pc[t] = "extend"
    /\ blocks' = Append(blocks, Block(f, Len(list[f])))
    /\ list' = [list EXCEPT ![f] = Append(@, id)]
    /\ Goto(t, IF room THEN "load"
               ELSE IF Len(list[f]) = LastBlock(call[t]) THEN "store" ELSE "extend")
    /\ index' = [index EXCEPT ![t] = count]
    /\ UNCHANGED <<files, size, writer, readers, content, short, table, count, cacheVars, callVars,
                   fault>>

(* Mutants: a block takes its number from block_count; the table is not tested. *)
ExtendByCount(t)  == NewBlock(t, count + 1, count < BlockCapacity)
ExtendUntested(t) == NewBlock(t, Len(blocks) + 1, TRUE)

Extend(t) == NewBlock(t, Len(blocks) + 1, count < BlockCapacity)

(* block_table[block_count++] = block: a load and two stores in any order.    *)
LoadCount(t) ==
    /\ pc[t] = "load"
    /\ \/ /\ count < BlockCapacity
          /\ index' = [index EXCEPT ![t] = count + 1]
          /\ Goto(t, "link")
          /\ UNCHANGED fault
       \/ /\ count >= BlockCapacity
          /\ fault' = "table"
          /\ UNCHANGED <<index, pc>>
    /\ UNCHANGED <<fileVars, blockVars, cacheVars, callVars>>

StoreSlot(t) ==
    /\ pc[t] \in {"link", "slot"}
    /\ table' = [table EXCEPT ![index[t]] = list[call[t].file][Len(list[call[t].file])]]
    /\ Goto(t, IF pc[t] = "link" THEN "count" ELSE Extended(t))
    /\ UNCHANGED <<fileVars, blocks, count, cacheVars, callVars, index, fault>>

StoreCount(t) ==
    /\ pc[t] \in {"link", "count"}
    /\ count' = index[t]
    /\ Goto(t, IF pc[t] = "link" THEN "slot" ELSE Extended(t))
    /\ UNCHANGED <<fileVars, blocks, table, cacheVars, callVars, index, fault>>

(* The block b after n bytes from place from on have been copied into it, the *)
(* first of them at place start of the buffer, with its new checksum.         *)
Stored(b, value, from, n, start) ==
    [file_id |-> b.file_id, place |-> b.place,
     data |-> [k \in 1..BlockSize |->
                  IF k \in (from + 1)..(from + n) THEN <<value, start + k - from>> ELSE b.data[k]],
     checksum |-> TRUE]

(* What copying n bytes to or from the caller's buffer does wrong, if anything. *)
CopyFault(t, n) ==
    IF n < 0 THEN "length"
    ELSE IF Len(moved[t]) + n > call[t].buffer THEN "buffer" ELSE "none"

(* One turn of the loop over the blocks; one that is not found is skipped.    *)
StoreBlock(t) ==
    /\ pc[t] = "store"
    /\ LET c == call[t]
           from == BlockOffset(c, at[t])
           n == PieceSize(c, at[t])
           start == Len(moved[t])
       IN  /\ fault' = IF MeetsNull(Id(t)) THEN "null"
                       ELSE IF InTable(Id(t)) THEN CopyFault(t, n) ELSE "none"
           /\ IF fault' = "none" /\ InTable(Id(t))
              THEN /\ blocks' = [blocks EXCEPT ![Id(t)] = Stored(@, c.value, from, n, start)]
                   /\ moved' = [moved EXCEPT ![t] = @ \o [k \in 1..n |-> <<c.value, start + k>>]]
              ELSE UNCHANGED <<blocks, moved>>
    /\ IF fault' = "none"
       THEN /\ at' = [at EXCEPT ![t] = @ + 1]
            /\ Goto(t, IF Last(t) THEN "written" ELSE "store")
       ELSE UNCHANGED <<at, pc>>
    /\ UNCHANGED <<fileVars, table, count, cacheVars, call, hit, calls, index>>

(* The size of the file after a call, and what it is to hold.                 *)
Extent(c) == IF c.offset + c.size > size[c.file] THEN c.offset + c.size ELSE size[c.file]

Overwritten(c) ==
    [p \in 1..Extent(c) |->
        IF p \in (c.offset + 1)..(c.offset + c.size) THEN <<c.value, p - c.offset>>
        ELSE IF p <= size[c.file] THEN content[c.file][p] ELSE Zero]

(* The end of a call, with which its variables go.                           *)
Leave(t) ==
    /\ call' = [call EXCEPT ![t] = NoCall]
    /\ at' = [at EXCEPT ![t] = 0] /\ index' = [index EXCEPT ![t] = 0]
    /\ moved' = [moved EXCEPT ![t] = <<>>]
    /\ Goto(t, "idle")

(* The size, and the lock is released.                                       *)
EndWrite(t) ==
    /\ pc[t] = "written"
    /\ LET c == call[t] IN
        /\ content' = [content EXCEPT ![c.file] = Overwritten(c)]
        /\ size' = [size EXCEPT ![c.file] = Extent(c)]
        /\ short' = [short EXCEPT ![c.file] = @ \/ Len(moved[t]) < c.size]
        /\ writer' = [writer EXCEPT ![c.file] = NoClient]
    /\ Leave(t)
    /\ UNCHANGED <<files, list, readers, blockVars, cacheVars, hit, calls, fault>>

-----------------------------------------------------------------------------
(* dfs_read                                                                *)

(* The size is cut off where the file ends.                                  *)
BeginRead(t, f) ==
    /\ pc[t] = "idle" /\ calls < MaxCalls
    /\ \E r \in Ranges :
        /\ r[1] < size[f]
        /\ call' = [call EXCEPT ![t] =
              [Arguments(f, r, 0) EXCEPT
                  !.size = IF r[1] + r[2] > size[f] THEN size[f] - r[1] ELSE r[2]]]
        /\ at' = [at EXCEPT ![t] = r[1] \div BlockSize]
    /\ readers' = [readers EXCEPT ![f] = @ \cup {t}]
    /\ calls' = calls + 1
    /\ Goto(t, "lookup")
    /\ UNCHANGED <<files, size, list, writer, content, short, blockVars, cacheVars, moved, hit,
                   index, fault>>

(* Mutant: the lock of the file is not waited for.                           *)
StartReadUnlocked(t) == \E f \in 1..files : BeginRead(t, f)

StartRead(t) == \E f \in 1..files : writer[f] = NoClient /\ BeginRead(t, f)

(* The next turn of the loop over the blocks.                                *)
Turn(t) ==
    /\ at' = [at EXCEPT ![t] = @ + 1]
    /\ Goto(t, IF Last(t) \/ at[t] + 1 >= Len(list[call[t].file]) THEN "read" ELSE "lookup")

(* Copies this block's piece from data and goes on, unless that is a fault.   *)
Copy(t, data, next) ==
    LET kind == IF data = <<>> THEN "data" ELSE CopyFault(t, PieceSize(call[t], at[t])) IN
    /\ fault' = kind
    /\ IF kind = "none"
       THEN /\ moved' = [moved EXCEPT ![t] = @ \o Piece(call[t], at[t], data)]
            /\ Goto(t, next)
       ELSE UNCHANGED <<moved, pc>>

(* The search of the cache, under its mutex ...                              *)
Lookup(t) ==
    /\ pc[t] = "lookup" /\ cache_lock = NoClient
    /\ cache_lock' = t
    /\ index' = [index EXCEPT ![t] = 1]
    /\ Goto(t, "scan")
    /\ UNCHANGED <<fileVars, blockVars, entries, cached, served, stray, callVars, fault>>

(* ... looks at one entry after the other.  A hit is copied.                  *)
Scan(t) ==
    /\ pc[t] = "scan"
    /\ UNCHANGED <<fileVars, blockVars, entries, cached, cache_lock, stray, call, at, calls>>
    /\ \/ /\ index[t] > cached
          /\ Goto(t, "miss")
          /\ UNCHANGED <<moved, hit, served, index, fault>>
       \/ /\ index[t] <= cached /\ index[t] > CacheCapacity
          /\ fault' = "entries"
          /\ UNCHANGED <<moved, hit, served, index, pc>>
       \/ /\ index[t] <= cached /\ index[t] <= CacheCapacity
          /\ entries[index[t]].block_id # Id(t)
          /\ index' = [index EXCEPT ![t] = @ + 1]
          /\ UNCHANGED <<moved, hit, served, pc, fault>>
       \/ /\ index[t] <= cached /\ index[t] <= CacheCapacity
          /\ entries[index[t]].block_id = Id(t)
          /\ Copy(t, entries[index[t]].data, "hit")
          /\ hit' = [hit EXCEPT ![t] = @ \/ fault' = "none"]
          /\ served' = TRUE
          /\ UNCHANGED index

(* The mutex is released after a hit, with which the search goes on without   *)
(* it; where the search ends, to fetch the block from the table, hit or no     *)
(* hit; and where the insertion ends.                                        *)
Unlock(t) ==
    /\ pc[t] \in {"hit", "miss", "inserted"}
    /\ cache_lock' = NoClient
    /\ stray' = (stray \/ cache_lock # t)
    /\ \/ /\ pc[t] = "hit"
          /\ index' = [index EXCEPT ![t] = @ + 1]
          /\ Goto(t, "scan")
          /\ UNCHANGED at
       \/ /\ pc[t] = "miss"
          /\ index' = [index EXCEPT ![t] = 0]
          /\ Goto(t, "fetch")
          /\ UNCHANGED at
       \/ /\ pc[t] = "inserted"
          /\ index' = [index EXCEPT ![t] = 0]
          /\ Turn(t)
    /\ UNCHANGED <<fileVars, blockVars, entries, cached, served, call, moved, hit, calls, fault>>

(* A block that was never written does not have its checksum and is skipped.  *)
Fetch(t) ==
    /\ pc[t] = "fetch"
    /\ \/ /\ MeetsNull(Id(t))
          /\ fault' = "null"
          /\ UNCHANGED <<moved, at, pc>>
       \/ /\ ~MeetsNull(Id(t)) /\ InTable(Id(t)) /\ blocks[Id(t)].checksum
          /\ Copy(t, blocks[Id(t)].data, "insert")
          /\ UNCHANGED at
       \/ /\ ~MeetsNull(Id(t)) /\ ~(InTable(Id(t)) /\ blocks[Id(t)].checksum)
          /\ Turn(t)
          /\ UNCHANGED <<moved, fault>>
    /\ UNCHANGED <<fileVars, blockVars, cacheVars, call, hit, calls, index>>

(* The insertion into the cache: the mutex is taken, the count tested ...     *)
InsertLock(t) ==
    /\ pc[t] = "insert" /\ cache_lock = NoClient
    /\ cache_lock' = t
    /\ Goto(t, "room")
    /\ UNCHANGED <<fileVars, blockVars, entries, cached, served, stray, callVars, index, fault>>

TestBelow(t, capacity) ==
    /\ pc[t] = "room"
    /\ Goto(t, IF cached < capacity THEN "take" ELSE "inserted")
    /\ UNCHANGED <<fileVars, blockVars, cacheVars, callVars, index, fault>>

(* Mutant: the cache is one entry longer than its array.                     *)
TestOffByOne(t) == TestBelow(t, CacheCapacity + 1)

TestRoom(t) == TestBelow(t, CacheCapacity)

(* ... loaded and stored by count++, and the entry filled in.                 *)
TakeEntry(t) ==
    /\ pc[t] = "take"
    /\ index' = [index EXCEPT ![t] = cached + 1]
    /\ Goto(t, "grow")
    /\ UNCHANGED <<fileVars, blockVars, cacheVars, callVars, fault>>

Grow(t) ==
    /\ pc[t] = "grow"
    /\ cached' = index[t]
    /\ Goto(t, "name")
    /\ UNCHANGED <<fileVars, blockVars, entries, cache_lock, served, stray, callVars, index, fault>>

Name(t) ==
    /\ pc[t] = "name"
    /\ \/ /\ index[t] <= CacheCapacity
          /\ entries' = [entries EXCEPT ![index[t]] = [block_id |-> Id(t), data |-> @.data]]
          /\ Goto(t, "fill")
          /\ UNCHANGED fault
       \/ /\ index[t] > CacheCapacity
          /\ fault' = "entries"
          /\ UNCHANGED <<entries, pc>>
    /\ UNCHANGED <<fileVars, blockVars, cached, cache_lock, served, stray, callVars, index>>

Fill(t) ==
    /\ pc[t] = "fill"
    /\ entries' = [entries EXCEPT ![index[t]] =
                      [block_id |-> @.block_id, data |-> blocks[Id(t)].data]]
    /\ Goto(t, "inserted")
    /\ UNCHANGED <<fileVars, blockVars, cached, cache_lock, served, stray, callVars, index, fault>>

EndRead(t) ==
    /\ pc[t] = "read"
    /\ readers' = [readers EXCEPT ![call[t].file] = @ \ {t}]
    /\ hit' = [hit EXCEPT ![t] = FALSE]
    /\ Leave(t)
    /\ UNCHANGED <<files, size, list, writer, content, short, blockVars, cacheVars, calls, fault>>

-----------------------------------------------------------------------------

Write(t) == StartWrite(t) \/ Extend(t) \/ LoadCount(t) \/ StoreSlot(t) \/ StoreCount(t)
            \/ StoreBlock(t) \/ EndWrite(t)

Read(t) == StartRead(t) \/ Lookup(t) \/ Scan(t) \/ Unlock(t) \/ Fetch(t) \/ EndRead(t)
           \/ InsertLock(t) \/ TestRoom(t) \/ TakeEntry(t) \/ Grow(t) \/ Name(t) \/ Fill(t)

Next == fault = "none" /\ \E t \in Clients : CreateFile(t) \/ Write(t) \/ Read(t)

Spec == Init /\ [][Next]_vars

-----------------------------------------------------------------------------
(* Properties.                                                             *)

Byte   == {Zero} \cup (Values \X Nat)
Writes == {"extend", "load", "link", "slot", "count", "store", "written"}
Reads  == {"lookup", "scan", "hit", "miss", "fetch", "insert", "room", "take", "grow", "name",
           "fill", "inserted", "read"}
Faults == {"length", "buffer", "null", "table", "data", "entries"}

(* Every variable stays in its range, and as long as no mutex was released by a *)
(* thread that did not hold it the cache has no more entries than its array.   *)
TypeOK ==
    /\ files \in 0..MaxFiles
    /\ size \in [Files -> Nat] /\ list \in [Files -> Seq(1..Len(blocks))]
    /\ writer \in [Files -> Clients \cup {NoClient}] /\ readers \in [Files -> SUBSET Clients]
    /\ \A b \in 1..Len(blocks) :
        /\ blocks[b].file_id \in Files /\ blocks[b].place \in Nat
        /\ blocks[b].checksum \in BOOLEAN /\ blocks[b].data \in [1..BlockSize -> Byte]
    /\ table \in [1..BlockCapacity -> 0..Len(blocks)] /\ count \in 0..BlockCapacity
    /\ DOMAIN entries = 1..CacheCapacity
    /\ \A j \in 1..CacheCapacity : entries[j].block_id \in 0..Len(blocks)
    /\ cached \in Nat /\ (cached <= CacheCapacity \/ stray)
    /\ served \in BOOLEAN /\ stray \in BOOLEAN /\ cache_lock \in Clients \cup {NoClient}
    /\ pc \in [Clients -> {"idle"} \cup Writes \cup Reads]
    /\ hit \in [Clients -> BOOLEAN] /\ calls \in 0..MaxCalls
    /\ fault \in {"none"} \cup Faults

(* A block belongs to the place of the one file that lists it, and a file's   *)
(* list reaches as far as its size: no interleaving of the unprotected        *)
(* appends lets two files share a block.                                     *)
BlocksOwned ==
    \A f \in Files :
        /\ size[f] <= Len(list[f]) * BlockSize
        /\ \A i \in 1..Len(list[f]) :
            blocks[list[f][i]].file_id = f /\ blocks[list[f][i]].place = i - 1

(* If every write on a file has returned the size it was given, then a read   *)
(* that finds nothing in the cache and returns the size it asked for returns  *)
(* what was written last, of one writer after the other.                     *)
ColdReadsTrue ==
    \A t \in Clients :
        LET c == call[t] IN
        pc[t] = "read" /\ ~hit[t] /\ ~short[c.file] /\ Len(moved[t]) = c.size =>
            moved[t] = SubSeq(content[c.file], c.offset + 1, c.offset + c.size)

(* Nothing undefined happens without a cause:                                *)
(*   - a length wraps only for a range that begins inside a block and ends      *)
(*     exactly with it;                                                      *)
(*   - a call runs over its caller's buffer only if it was served a block twice, *)
(*     from the cache and from the table;                                    *)
(*   - a NULL slot is met only while another thread is between the two stores   *)
(*     of an append, and the table overflows only if another has appended       *)
(*     since it was found to have room;                                      *)
(*   - an entry without data is met only while another thread fills it in, by   *)
(*     a reader that goes on after a hit without the mutex, or with a mutex      *)
(*     that was released under it, which it takes for the cache to overflow;    *)
(*   - and no mutex is released by a thread that does not hold it before the     *)
(*     first hit.                                                            *)
FaultsNeedCause ==
    /\ fault = "length"  => \E t \in Clients : Wraps(call[t])
    /\ fault = "buffer"  => \E t \in Clients : hit[t]
    /\ fault = "null"    => \E t \in Clients : pc[t] = "slot"
    /\ fault = "table"   => \E t \in Clients : pc[t] = "load" /\ index[t] < count
    /\ fault = "data"    => /\ \E t \in Clients : pc[t] = "fill"
                            /\ stray \/ \E t \in Clients : pc[t] = "scan" /\ hit[t]
    /\ fault = "entries" => stray
    /\ stray => served
================================================================================
