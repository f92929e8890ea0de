------------------------------- MODULE DfsProofs -------------------------------
(***************************************************************************)
(* For any number of threads, files, blocks and ranges, in spite of the     *)
(* unprotected appends: the blocks of dfs.h belong to one file each; the    *)
(* tables keep their bounds, that of the cache until a mutex is released by *)
(* a thread that does not hold it; every kind of undefined behaviour has    *)
(* its cause; and a read that the cache did not serve returns what was      *)
(* written.                                                                 *)
(***************************************************************************)
EXTENDS Dfs, SequenceTheorems, TLAPS

USE ClientsAssumption, SizesAssumption, RangesAssumption, ValuesAssumption

Data     == [1..BlockSize -> Byte]
BlockSet == [file_id : Files, place : Nat, data : Data, checksum : BOOLEAN]
CallSet  == [file : 0..MaxFiles, offset : Nat, size : Nat, buffer : Nat, value : Values \cup {0}]
Labels   == {"idle"} \cup Writes \cup Reads

FileTypes ==
    /\ files \in 0..MaxFiles
    /\ size \in [Files -> Nat] /\ list \in [Files -> Seq(1..Len(blocks))]
    /\ writer \in [Files -> Clients \cup {NoClient}] /\ readers \in [Files -> SUBSET Clients]

TableTypes ==
    /\ blocks \in Seq(BlockSet)
    /\ table \in [1..BlockCapacity -> 0..Len(blocks)] /\ count \in 0..BlockCapacity

CacheTypes ==
    /\ entries \in [1..CacheCapacity -> [block_id : 0..Len(blocks), data : Data \cup {<<>>}]]
    /\ cached \in Nat /\ cache_lock \in Clients \cup {NoClient}
    /\ served \in BOOLEAN /\ stray \in BOOLEAN

CallTypes ==
    /\ pc \in [Clients -> Labels] /\ call \in [Clients -> CallSet]
    /\ at \in [Clients -> Nat] /\ index \in [Clients -> Nat]
    /\ moved \in [Clients -> Seq(Byte)] /\ hit \in [Clients -> BOOLEAN]
    /\ calls \in 0..MaxCalls /\ fault \in {"none"} \cup Faults

Types == FileTypes /\ TableTypes /\ CacheTypes /\ CallTypes

(* Where a client is in its call.                                            *)
Blocks(t) == Len(list[call[t].file])

Client(t) ==
    /\ pc[t] # "idle" => /\ call[t].file \in Files /\ call[t].size > 0
                         /\ call[t].size <= call[t].buffer
    /\ pc[t] \in Writes => call[t].value \in Values
    /\ pc[t] # "idle" => at[t] >= FirstBlock(call[t])
    /\ pc[t] \in (Writes \cup Reads) \ {"written", "read"} => at[t] <= LastBlock(call[t])
    /\ pc[t] \in {"load", "link", "slot", "count"} => Blocks(t) > 0
    /\ pc[t] = "load" => index[t] < BlockCapacity
    /\ pc[t] \in {"link", "slot", "count"} => index[t] \in 1..BlockCapacity
    /\ pc[t] \in {"store", "written"} => LastBlock(call[t]) < Blocks(t)
    /\ pc[t] \in Reads \ {"read"} => at[t] < Blocks(t)
    /\ pc[t] \in {"scan", "hit", "grow", "name"} => index[t] > 0
    /\ pc[t] = "fill" => index[t] \in 1..CacheCapacity

ClientInv == \A t \in Clients : Client(t)

IInv == Types /\ ClientInv /\ BlocksOwned

-----------------------------------------------------------------------------
(* Arithmetic.                                                             *)

LEMMA Division ==
  ASSUME NEW a \in Nat, NEW b \in Nat \ {0}
  PROVE  a \div b \in Nat /\ a % b \in 0..(b - 1)
BY SMT

LEMMA BlockOfPosition ==
  ASSUME NEW a \in Nat, NEW b \in Nat \ {0}, NEW m \in Nat
  PROVE  a < m * b <=> a \div b < m
BY SMT

LEMMA DivisionMonotonic ==
  ASSUME NEW a \in Nat, NEW c \in Nat, NEW b \in Nat \ {0}, a <= c
  PROVE  a \div b <= c \div b
BY SMT

(* The first block of a call comes before its last one.                      *)
LEMMA CallBlocks ==
  ASSUME NEW c \in CallSet, c.size > 0
  PROVE  FirstBlock(c) \in Nat /\ LastBlock(c) \in Nat /\ FirstBlock(c) <= LastBlock(c)
<1>1. c.offset \in Nat /\ c.offset + c.size - 1 \in Nat /\ c.offset <= c.offset + c.size - 1
  BY DEF CallSet
<1> QED
  BY <1>1, Division, DivisionMonotonic DEF FirstBlock, LastBlock

(* A piece lies inside its block.                                            *)
LEMMA PieceFits ==
  ASSUME NEW c \in CallSet, c.size > 0, NEW i \in Nat
  PROVE  /\ BlockOffset(c, i) \in 0..(BlockSize - 1) /\ PieceSize(c, i) \in Int
         /\ PieceSize(c, i) >= 0 => BlockOffset(c, i) + PieceSize(c, i) <= BlockSize
<1>1. /\ c.offset \in Nat /\ c.offset + c.size \in Nat
      /\ c.offset % BlockSize \in 0..(BlockSize - 1)
      /\ (c.offset + c.size) % BlockSize \in 0..(BlockSize - 1)
  <2>1. c.offset \in Nat /\ c.offset + c.size \in Nat /\ BlockSize \in Nat \ {0}
    BY DEF CallSet
  <2> QED
    BY <2>1, Division
<1> QED
  BY <1>1 DEF BlockOffset, PieceSize

LEMMA BytesOfPiece ==
  ASSUME NEW c \in CallSet, c.size > 0, NEW i \in Nat, PieceSize(c, i) >= 0, NEW data \in Data
  PROVE  Piece(c, i, data) \in Seq(Byte)
<1>1. data \in Seq(Byte) /\ Len(data) = BlockSize
  BY LenProperties, SeqDef DEF Data
<1>2. /\ BlockOffset(c, i) \in Nat /\ PieceSize(c, i) \in Int
      /\ BlockOffset(c, i) + PieceSize(c, i) <= BlockSize
  BY PieceFits
<1> QED
  BY <1>1, <1>2, SubSeqProperties DEF Piece

(* A block of the file stays one when the list grows.                        *)
LEMMA IdInBlocks ==
  ASSUME Types, NEW t \in Clients, Client(t), pc[t] # "idle", at[t] < Blocks(t)
  PROVE  Id(t) \in 1..Len(blocks)
<1>1. /\ call[t].file \in Files /\ at[t] + 1 \in 1..Len(list[call[t].file])
      /\ list[call[t].file] \in Seq(1..Len(blocks))
  BY DEF Types, FileTypes, CallTypes, Client, Blocks
<1> QED
  BY <1>1, ElementOfSeq DEF Id

-----------------------------------------------------------------------------

LEMMA InitInv == Init => IInv
<1> SUFFICES ASSUME Init PROVE IInv
  OBVIOUS
<1>1. FileTypes
  BY EmptySeq DEF Init, FileTypes
<1>2. TableTypes
  BY EmptySeq DEF Init, TableTypes
<1>3. CacheTypes
  <2>1. served \in BOOLEAN /\ stray \in BOOLEAN
    BY Zenon DEF Init
  <2> QED
    BY <2>1 DEF Init, CacheTypes
<1>4. CallTypes
  <2>1. call \in [Clients -> CallSet] /\ pc \in [Clients -> Labels]
    BY DEF Init, NoCall, Arguments, CallSet, Labels
  <2>2. moved \in [Clients -> Seq(Byte)]
    BY EmptySeq DEF Init
  <2>3. hit \in [Clients -> BOOLEAN] /\ fault \in {"none"} \cup Faults
    BY Zenon DEF Init
  <2> QED
    BY <2>1, <2>2, <2>3 DEF Init, CallTypes
<1>5. ClientInv
  BY DEF Init, ClientInv, Client, Writes, Reads
<1>6. BlocksOwned
  BY DEF Init, BlocksOwned
<1> QED
  BY <1>1, <1>2, <1>3, <1>4, <1>5, <1>6 DEF IInv, Types

-----------------------------------------------------------------------------
(* A step of t leaves the other clients where they are.                      *)

LEMMA Others ==
  ASSUME IInv, fault = "none", NEW t \in Clients, CallTypes', Client(t)',
         \A f \in Files : Len(list[f]) \in Nat /\ Len(list'[f]) \in Nat
                          /\ Len(list[f]) <= Len(list'[f]),
         \A u \in Clients \ {t} : /\ pc'[u] = pc[u] /\ call'[u] = call[u]
                                  /\ at'[u] = at[u] /\ index'[u] = index[u]
  PROVE  ClientInv'
<1> SUFFICES ASSUME NEW u \in Clients \ {t} PROVE Client(u)'
  BY DEF ClientInv
<1>1. Client(u) /\ pc[u] \in Labels
  BY DEF IInv, ClientInv, Types, CallTypes
<1>2. CASE pc[u] = "idle"
  BY <1>2 DEF Client, Writes, Reads
<1>3. CASE pc[u] # "idle"
  <2>1. call[u].file \in Files /\ Blocks(u) \in Nat /\ Blocks(u)' \in Nat /\ Blocks(u) <= Blocks(u)'
    BY <1>1, <1>3 DEF Client, Blocks
  <2>2. LastBlock(call[u]) \in Nat /\ at[u] \in Nat
    BY <1>1, <1>3, CallBlocks DEF Client, IInv, Types, CallTypes
  <2> QED
    BY <1>1, <1>3, <2>1, <2>2 DEF Client, Labels, Writes, Reads
<1> QED
  BY <1>2, <1>3

LEMMA OwnedKept ==
  ASSUME IInv, UNCHANGED <<size, list>>,
         \A b \in 1..Len(blocks) : /\ blocks'[b].file_id = blocks[b].file_id
                                   /\ blocks'[b].place = blocks[b].place
  PROVE  BlocksOwned'
<1>1. \A f \in Files : \A i \in 1..Len(list[f]) : list[f][i] \in 1..Len(blocks)
  BY ElementOfSeq DEF IInv, Types, FileTypes
<1> QED
  BY <1>1, SMTT(30) DEF IInv, BlocksOwned

LEMMA ListLengths ==
  ASSUME Types
  PROVE  \A f \in Files : Len(list[f]) \in Nat
BY LenProperties DEF Types, FileTypes

(* What a step keeps that leaves files, blocks and the size of lists alone.   *)
LEMMA Inner ==
  ASSUME IInv, fault = "none", NEW t \in Clients, UNCHANGED <<size, list, blocks>>,
         FileTypes', TableTypes', CacheTypes', CallTypes', Client(t)',
         \A u \in Clients \ {t} : /\ pc'[u] = pc[u] /\ call'[u] = call[u]
                                  /\ at'[u] = at[u] /\ index'[u] = index[u]
  PROVE  IInv'
<1>1. ClientInv'
  BY Others, ListLengths DEF IInv
<1>2. BlocksOwned'
  BY OwnedKept
<1> QED
  BY <1>1, <1>2 DEF IInv, Types

-----------------------------------------------------------------------------
(* The steps of a write.                                                   *)

LEMMA CallOfRange ==
  ASSUME NEW f \in Files, NEW r \in Ranges, NEW v \in Values \cup {0}
  PROVE  /\ Arguments(f, r, v) \in CallSet /\ Arguments(f, r, v).size > 0
         /\ Arguments(f, r, v).size <= Arguments(f, r, v).buffer
BY DEF Arguments, CallSet, Files

LEMMA CreateFileInv ==
  ASSUME IInv, fault = "none", NEW t \in Clients, CreateFile(t)
  PROVE  IInv'
<1> USE DEF fileVars, blockVars, cacheVars, callVars
<1>1. FileTypes' /\ TableTypes' /\ CacheTypes' /\ CallTypes'
  BY SMTT(30) DEF CreateFile, IInv, Types, FileTypes, TableTypes, CacheTypes, CallTypes
<1>2. Client(t)'
  BY DEF CreateFile, IInv, ClientInv, Client, Blocks
<1> QED
  BY <1>1, <1>2, Inner DEF CreateFile

LEMMA StartWriteInv ==
  ASSUME IInv, fault = "none", NEW t \in Clients, StartWrite(t)
  PROVE  IInv'
<1> USE DEF fileVars, blockVars, cacheVars, callVars, Goto
<1>0. PICK f \in 1..files, r \in Ranges, v \in Values :
        LET c == Arguments(f, r, v) IN
        /\ call' = [call EXCEPT ![t] = c]
        /\ at' = [at EXCEPT ![t] = FirstBlock(c)]
        /\ \/ /\ LastBlock(c) < Len(list[f])
              /\ pc' = [pc EXCEPT ![t] = "store"]
              /\ writer' = [writer EXCEPT ![f] = t]
           \/ /\ LastBlock(c) >= Len(list[f])
              /\ pc' = [pc EXCEPT ![t] = "extend"]
              /\ writer' = [writer EXCEPT ![f] = t]
           \/ UNCHANGED <<pc, writer>>
  BY DEF StartWrite
<1> DEFINE c == Arguments(f, r, v)
<1>1. f \in Files /\ v \in Values
  BY DEF IInv, Types, FileTypes, Files
<1>2. c \in CallSet /\ c.size > 0 /\ c.file = f /\ c.value = v /\ c.size <= c.buffer
  BY <1>1, CallOfRange DEF Arguments
<1>3. FirstBlock(c) \in Nat /\ LastBlock(c) \in Nat /\ FirstBlock(c) <= LastBlock(c)
  BY <1>2, CallBlocks
<1>4. /\ call'[t] = c /\ at'[t] = FirstBlock(c) /\ pc[t] = "idle"
      /\ call' \in [Clients -> CallSet] /\ at' \in [Clients -> Nat]
  BY <1>0, <1>2, <1>3 DEF IInv, Types, CallTypes, StartWrite
<1>5. /\ pc' \in [Clients -> Labels] /\ pc'[t] \in {"idle", "store", "extend"}
      /\ pc'[t] = "store" => LastBlock(c) < Len(list[f])
      /\ \A u \in Clients \ {t} : pc'[u] = pc[u]
  BY <1>0, <1>4 DEF IInv, Types, CallTypes, Labels, Writes
<1>6. writer' \in [Files -> Clients \cup {NoClient}]
  BY <1>0, <1>1 DEF IInv, Types, FileTypes
<1>7. FileTypes' /\ TableTypes' /\ CacheTypes'
  BY <1>6 DEF StartWrite, IInv, Types, FileTypes, TableTypes, CacheTypes
<1>9. CallTypes'
  <2>1. UNCHANGED <<moved, hit, index, fault>>
    BY DEF StartWrite
  <2>2. calls' \in 0..MaxCalls
    BY DEF StartWrite, IInv, Types, CallTypes
  <2> QED
    BY <1>4, <1>5, <2>1, <2>2 DEF IInv, Types, CallTypes
<1>10. Client(t)'
  <2>1. Blocks(t)' = Len(list[f])
    BY <1>2, <1>4 DEF StartWrite, Blocks
  <2> QED
    BY <1>1, <1>2, <1>3, <1>4, <1>5, <2>1 DEF Client, Writes, Reads
<1>11. \A u \in Clients \ {t} : /\ pc'[u] = pc[u] /\ call'[u] = call[u]
                                /\ at'[u] = at[u] /\ index'[u] = index[u]
  BY <1>0, <1>5 DEF StartWrite, IInv, Types, CallTypes
<1> QED
  BY <1>7, <1>9, <1>10, <1>11, Inner DEF StartWrite

LEMMA LoadCountInv ==
  ASSUME IInv, fault = "none", NEW t \in Clients, LoadCount(t)
  PROVE  IInv'
<1> USE DEF fileVars, blockVars, cacheVars, callVars
<1>0. /\ pc[t] = "load" /\ UNCHANGED <<fileVars, blockVars, cacheVars, callVars>>
      /\ \/ /\ count < BlockCapacity /\ index' = [index EXCEPT ![t] = count + 1]
            /\ pc' = [pc EXCEPT ![t] = "link"] /\ UNCHANGED fault
         \/ fault' = "table" /\ UNCHANGED <<index, pc>>
  BY Zenon DEF LoadCount, Goto
<1>1. FileTypes' /\ TableTypes' /\ CacheTypes'
  BY <1>0 DEF IInv, Types, FileTypes, TableTypes, CacheTypes
<1>2. count \in Nat /\ Client(t) /\ Blocks(t)' = Blocks(t)
  BY <1>0 DEF IInv, ClientInv, Types, TableTypes, Blocks
<1>3. CASE /\ count < BlockCapacity /\ index' = [index EXCEPT ![t] = count + 1]
           /\ pc' = [pc EXCEPT ![t] = "link"] /\ UNCHANGED fault
  <2>1. CallTypes'
    BY <1>0, <1>2, <1>3 DEF IInv, Types, CallTypes, Labels, Writes
  <2>2. /\ pc'[t] = "link" /\ index'[t] = count + 1 /\ call'[t] = call[t] /\ at'[t] = at[t]
    BY <1>0, <1>3 DEF IInv, Types, CallTypes
  <2>3. index'[t] \in 1..BlockCapacity
    BY <1>2, <1>3, <2>2
  <2>4. Client(t)'
    BY <1>0, <1>2, <2>2, <2>3 DEF Client, Writes, Reads
  <2>5. \A u \in Clients \ {t} : /\ pc'[u] = pc[u] /\ call'[u] = call[u]
                                 /\ at'[u] = at[u] /\ index'[u] = index[u]
    BY <1>0, <1>3 DEF IInv, Types, CallTypes
  <2> QED
    BY <1>0, <1>1, <2>1, <2>4, <2>5, Inner
<1>4. CASE fault' = "table" /\ UNCHANGED <<index, pc>>
  <2>1. CallTypes'
    BY <1>0, <1>4 DEF IInv, Types, CallTypes, Faults
  <2>2. Client(t)'
    BY <1>0, <1>2, <1>4 DEF Client
  <2> QED
    BY <1>0, <1>1, <1>4, <2>1, <2>2, Inner
<1> QED
  BY <1>0, <1>3, <1>4

(* The two stores of an append.                                              *)
LEMMA AppendInv ==
  ASSUME IInv, fault = "none", NEW t \in Clients, StoreSlot(t) \/ StoreCount(t)
  PROVE  IInv'
<1> USE DEF fileVars, blockVars, cacheVars, callVars, Goto
<1>1. /\ Client(t) /\ pc[t] \in {"link", "slot", "count"} /\ index[t] \in 1..BlockCapacity
      /\ call[t].file \in Files /\ Blocks(t) > 0
  BY DEF StoreSlot, StoreCount, IInv, ClientInv, Client
<1>2. list[call[t].file][Len(list[call[t].file])] \in 1..Len(blocks)
  <2>1. list[call[t].file] \in Seq(1..Len(blocks)) /\ Len(list[call[t].file]) \in Nat
    BY <1>1, LenProperties DEF IInv, Types, FileTypes
  <2> QED
    BY <1>1, <2>1, ElementOfSeq DEF Blocks
<1>3. table' \in [1..BlockCapacity -> 0..Len(blocks)] /\ count' \in 0..BlockCapacity
  <2>1. PICK b : b = list[call[t].file][Len(list[call[t].file])]
    OBVIOUS
  <2>2. Len(blocks) \in Nat /\ b \in 0..Len(blocks)
    BY <1>2, <2>1, LenProperties DEF IInv, Types, TableTypes
  <2>3. table' = table \/ table' = [table EXCEPT ![index[t]] = b]
    BY <2>1, Zenon DEF StoreSlot, StoreCount
  <2>4. count' = count \/ count' = index[t]
    BY Zenon DEF StoreSlot, StoreCount
  <2>5. table \in [1..BlockCapacity -> 0..Len(blocks)] /\ count \in 0..BlockCapacity
    BY DEF IInv, Types, TableTypes
  <2>6. table' \in [1..BlockCapacity -> 0..Len(blocks)]
    BY <1>1, <2>2, <2>3, <2>5, Zenon
  <2>7. count' \in 0..BlockCapacity
    BY <1>1, <2>4, <2>5
  <2> QED
    BY <2>6, <2>7
<1>4. FileTypes' /\ TableTypes' /\ CacheTypes'
  BY <1>3 DEF StoreSlot, StoreCount, IInv, Types, FileTypes, TableTypes, CacheTypes
<1>5. /\ pc'[t] \in {"slot", "count", "store", "extend"} /\ pc' \in [Clients -> Labels]
      /\ pc'[t] \in {"slot", "count"} \/ pc'[t] = Extended(t)
      /\ \A u \in Clients \ {t} : pc'[u] = pc[u]
  <2>1. PICK x : x = Extended(t)
    OBVIOUS
  <2>2. PICK l \in {"slot", "count", x} : pc' = [pc EXCEPT ![t] = l]
    BY <2>1 DEF StoreSlot, StoreCount
  <2>3. x \in {"store", "extend"}
    BY <2>1 DEF Extended
  <2>4. l \in Labels /\ pc \in [Clients -> Labels]
    BY <2>2, <2>3 DEF Labels, Writes, IInv, Types, CallTypes
  <2> QED
    BY <2>1, <2>2, <2>3, <2>4
<1>6. CallTypes'
  BY <1>5 DEF StoreSlot, StoreCount, IInv, Types, CallTypes
<1>7. Client(t)'
  <2>1. /\ call'[t] = call[t] /\ at'[t] = at[t] /\ index'[t] = index[t] /\ Blocks(t)' = Blocks(t)
    BY DEF StoreSlot, StoreCount, Blocks
  <2>2. pc'[t] = "store" => LastBlock(call[t]) < Blocks(t)
    <3>1. LastBlock(call[t]) \in Nat /\ Blocks(t) \in Nat
      BY <1>1, CallBlocks, ListLengths DEF Client, IInv, Types, CallTypes, Blocks
    <3> QED
      BY <1>5, <3>1 DEF Extended, Blocks
  <2> QED
    BY <1>1, <1>5, <2>1, <2>2 DEF Client, Writes, Reads
<1> QED
  BY <1>4, <1>5, <1>6, <1>7, Inner DEF StoreSlot, StoreCount
(* A new block belongs to the end of the list that gets it.                  *)
LEMMA ExtendInv ==
  ASSUME IInv, fault = "none", NEW t \in Clients, Extend(t)
  PROVE  IInv'
<1> USE DEF fileVars, cacheVars, callVars
<1> DEFINE f == call[t].file
<1>1. /\ Client(t) /\ pc[t] = "extend" /\ f \in Files
      /\ Len(blocks) \in Nat /\ Len(list[f]) \in Nat
  BY ListLengths, LenProperties
     DEF Extend, NewBlock, IInv, ClientInv, Client, Types, TableTypes
<1>2. PICK n, m, b : n = Len(blocks) /\ m = Len(list[f]) /\ b = Block(f, m)
  OBVIOUS
<1>3. /\ blocks' = Append(blocks, b) /\ list' = [list EXCEPT ![f] = Append(list[f], n + 1)]
      /\ UNCHANGED <<size, table, count, cacheVars, callVars, fault>>
      /\ UNCHANGED <<files, writer, readers>> /\ index' = [index EXCEPT ![t] = count]
  BY <1>2 DEF Extend, NewBlock
<1>4. b \in BlockSet /\ b.file_id = f /\ b.place = m
  BY <1>1, <1>2 DEF Block, BlockSet, Data, Byte
<1>5. /\ blocks' \in Seq(BlockSet) /\ Len(blocks') = n + 1 /\ blocks'[n + 1] = b
      /\ \A j \in 1..n : blocks'[j] = blocks[j]
  BY <1>2, <1>3, <1>4, AppendProperties DEF IInv, Types, TableTypes
<1>6. \A g \in Files : list[g] \in Seq(1..n) /\ list[g] \in Seq(1..(n + 1))
  <2> SUFFICES ASSUME NEW g \in Files PROVE list[g] \in Seq(1..n) /\ list[g] \in Seq(1..(n + 1))
    OBVIOUS
  <2>1. list[g] \in Seq(1..n) /\ 1..n \subseteq 1..(n + 1)
    BY <1>1, <1>2 DEF IInv, Types, FileTypes
  <2>2. PICK S, T, s : S = 1..n /\ T = 1..(n + 1) /\ s = list[g]
    OBVIOUS
  <2>3. s \in Seq(T)
    <3>1. s \in Seq(S) /\ S \subseteq T
      BY <2>1, <2>2
    <3> QED
      BY <3>1, SeqMonotonic, Zenon
  <2> QED
    BY <2>1, <2>2, <2>3
<1>7. /\ list'[f] \in Seq(1..(n + 1)) /\ Len(list'[f]) = m + 1 /\ list'[f][m + 1] = n + 1
      /\ \A i \in 1..m : list'[f][i] = list[f][i]
  <2>1. n + 1 \in 1..(n + 1) /\ list[f] \in Seq(1..(n + 1)) /\ list'[f] = Append(list[f], n + 1)
    BY <1>1, <1>2, <1>3, <1>6 DEF IInv, Types, FileTypes
  <2> QED
    BY <1>2, <2>1, AppendProperties
<1>8. /\ \A g \in Files \ {f} : list'[g] = list[g]
      /\ list' \in [Files -> Seq(1..(n + 1))]
  BY <1>1, <1>3, <1>6, <1>7 DEF IInv, Types, FileTypes
<1>9. FileTypes' /\ TableTypes' /\ CacheTypes'
  <2>1. FileTypes'
    BY <1>3, <1>5, <1>8 DEF IInv, Types, FileTypes
  <2>2. 0..n \subseteq 0..(n + 1) /\ Len(blocks) = n
    BY <1>1, <1>2
  <2>3. TableTypes'
    BY <1>3, <1>5, <2>2 DEF IInv, Types, TableTypes
  <2>4. CacheTypes'
    BY <1>3, <1>5, <2>2 DEF IInv, Types, CacheTypes
  <2> QED
    BY <2>1, <2>3, <2>4
<1>10. /\ pc' \in [Clients -> Labels] /\ pc'[t] \in {"load", "store", "extend"}
       /\ pc'[t] = "store" => m = LastBlock(call[t])
       /\ pc'[t] = "load" => count < BlockCapacity
       /\ \A u \in Clients \ {t} : pc'[u] = pc[u]
  <2>1. PICK l : /\ l \in {"load", "store", "extend"} /\ (l = "store" => m = LastBlock(call[t]))
                 /\ pc' = [pc EXCEPT ![t] = l] /\ (l = "load" => count < BlockCapacity)
    <3>1. PICK l : /\ l = IF count < BlockCapacity THEN "load"
                          ELSE IF m = LastBlock(call[t]) THEN "store" ELSE "extend"
                   /\ pc' = [pc EXCEPT ![t] = l]
      BY <1>2 DEF Extend, NewBlock, Goto
    <3>2. /\ l \in {"load", "store", "extend"} /\ (l = "store" => m = LastBlock(call[t]))
          /\ (l = "load" => count < BlockCapacity)
      BY <3>1
    <3> QED
      BY <3>1, <3>2
  <2>2. l \in Labels /\ pc \in [Clients -> Labels]
    BY <2>1 DEF Labels, Writes, IInv, Types, CallTypes
  <2> QED
    BY <2>1, <2>2
<1>11. CallTypes' /\ index'[t] = count
  <2>1. count \in Nat
    BY DEF IInv, Types, TableTypes
  <2> QED
    BY <1>3, <1>10, <2>1 DEF IInv, Types, CallTypes
<1>12. Client(t)'
  <2>1. /\ call'[t] = call[t] /\ at'[t] = at[t] /\ Blocks(t)' = m + 1 /\ m \in Nat
    BY <1>1, <1>2, <1>3, <1>7 DEF Blocks
  <2> QED
    BY <1>1, <1>10, <1>11, <2>1 DEF Client, Writes, Reads
<1>13. \A g \in Files : Len(list[g]) \in Nat /\ Len(list'[g]) \in Nat
                        /\ Len(list[g]) <= Len(list'[g])
  <2> SUFFICES ASSUME NEW g \in Files
               PROVE  /\ Len(list[g]) \in Nat /\ Len(list'[g]) \in Nat
                      /\ Len(list[g]) <= Len(list'[g])
    OBVIOUS
  <2>1. Len(list[g]) \in Nat
    BY ListLengths DEF IInv
  <2>2. CASE g = f
    BY <1>2, <1>7, <2>1, <2>2
  <2>3. CASE g # f
    BY <1>8, <2>1, <2>3
  <2> QED
    BY <2>2, <2>3
<1>14. \A u \in Clients \ {t} : /\ pc'[u] = pc[u] /\ call'[u] = call[u]
                                /\ at'[u] = at[u] /\ index'[u] = index[u]
  BY <1>3, <1>10 DEF IInv, Types, CallTypes
<1>15. ClientInv'
  BY <1>11, <1>12, <1>13, <1>14, Others
<1>16. BlocksOwned'
  <2> SUFFICES ASSUME NEW g \in Files
               PROVE  /\ size'[g] <= Len(list'[g]) * BlockSize
                      /\ \A i \in 1..Len(list'[g]) :
                            /\ blocks'[list'[g][i]].file_id = g
                            /\ blocks'[list'[g][i]].place = i - 1
    BY DEF BlocksOwned
  <2>1. /\ size[g] \in Nat /\ size[g] <= Len(list[g]) * BlockSize
        /\ \A i \in 1..Len(list[g]) : blocks[list[g][i]].file_id = g
                                      /\ blocks[list[g][i]].place = i - 1
    BY DEF IInv, BlocksOwned, Types, FileTypes
  <2>2. \A i \in 1..Len(list[g]) : list[g][i] \in 1..n
    BY <1>6, ElementOfSeq
  <2>3. CASE g # f
    <3>1. list'[g] = list[g] /\ size'[g] = size[g]
      BY <1>3, <1>8, <2>3
    <3>2. \A i \in 1..Len(list[g]) : blocks'[list[g][i]] = blocks[list[g][i]]
      BY <1>5, <2>2
    <3> QED
      BY <2>1, <3>1, <3>2
  <2>4. CASE g = f
    <3>1. size'[g] = size[g] /\ Len(list'[g]) = m + 1 /\ Len(list[g]) = m /\ m \in Nat
      BY <1>1, <1>2, <1>3, <1>7, <2>4
    <3>2. m * BlockSize <= (m + 1) * BlockSize /\ m * BlockSize \in Nat
          /\ (m + 1) * BlockSize \in Nat
      BY <3>1
    <3>3. size'[g] <= Len(list'[g]) * BlockSize
      BY <2>1, <3>1, <3>2
    <3>4. \A i \in 1..m : blocks'[list'[g][i]] = blocks[list[g][i]]
      BY <1>5, <1>7, <2>2, <2>4, <3>1
    <3>5. blocks'[list'[g][m + 1]].file_id = g /\ blocks'[list'[g][m + 1]].place = m
      BY <1>4, <1>5, <1>7, <2>4
    <3>6. \A i \in 1..(m + 1) : /\ blocks'[list'[g][i]].file_id = g
                               /\ blocks'[list'[g][i]].place = i - 1
      <4> SUFFICES ASSUME NEW i \in 1..(m + 1)
                   PROVE  /\ blocks'[list'[g][i]].file_id = g
                          /\ blocks'[list'[g][i]].place = i - 1
        OBVIOUS
      <4>1. CASE i \in 1..m
        BY <2>1, <3>1, <3>4, <4>1
      <4>2. CASE i = m + 1
        BY <3>1, <3>5, <4>2
      <4> QED
        BY <3>1, <4>1, <4>2
    <3> QED
      BY <3>1, <3>3, <3>6, Zenon
  <2> QED
    BY <2>3, <2>4
<1> QED
  BY <1>9, <1>11, <1>15, <1>16 DEF IInv, Types
(* A block that is written into keeps its owner.                             *)
LEMMA StoredKeeps ==
  ASSUME NEW b \in BlockSet, NEW value \in Values, NEW from \in Nat, NEW n \in Nat,
         NEW start \in Nat
  PROVE  /\ Stored(b, value, from, n, start) \in BlockSet
         /\ Stored(b, value, from, n, start).file_id = b.file_id
         /\ Stored(b, value, from, n, start).place = b.place
<1>1. [k \in 1..BlockSize |-> IF k \in (from + 1)..(from + n) THEN <<value, start + k - from>>
                              ELSE b.data[k]] \in Data
  <2> SUFFICES ASSUME NEW k \in 1..BlockSize
               PROVE  (IF k \in (from + 1)..(from + n) THEN <<value, start + k - from>>
                       ELSE b.data[k]) \in Byte
    BY DEF Data
  <2>1. CASE k \in (from + 1)..(from + n)
    <3>1. start + k - from \in Nat
      BY <2>1
    <3> QED
      BY <2>1, <3>1 DEF Byte
  <2>2. CASE k \notin (from + 1)..(from + n)
    BY <2>2 DEF BlockSet, Data
  <2> QED
    BY <2>1, <2>2
<1> QED
  BY <1>1 DEF Stored, BlockSet

LEMMA StoreBlockInv ==
  ASSUME IInv, fault = "none", NEW t \in Clients, StoreBlock(t)
  PROVE  IInv'
<1> USE DEF fileVars, cacheVars
<1>1. /\ Client(t) /\ pc[t] = "store" /\ call[t] \in CallSet /\ call[t].size > 0
      /\ call[t].value \in Values /\ at[t] \in Nat /\ at[t] <= LastBlock(call[t])
      /\ at[t] >= FirstBlock(call[t]) /\ LastBlock(call[t]) < Blocks(t)
      /\ moved[t] \in Seq(Byte)
  BY DEF StoreBlock, IInv, ClientInv, Client, Types, CallTypes, Writes, Reads
<1>2. LastBlock(call[t]) \in Nat /\ Blocks(t) \in Nat
  BY <1>1, CallBlocks, ListLengths DEF Client, IInv, Blocks
<1>3. Id(t) \in 1..Len(blocks) /\ Len(blocks) \in Nat /\ blocks \in Seq(BlockSet)
  <2>1. at[t] < Blocks(t) /\ pc[t] # "idle" /\ Types
    BY <1>1, <1>2 DEF IInv
  <2>2. Id(t) \in 1..Len(blocks)
    BY <1>1, <2>1, IdInBlocks
  <2>3. blocks \in Seq(BlockSet)
    BY <2>1 DEF Types, TableTypes
  <2> QED
    BY <2>2, <2>3, LenProperties
<1>4. PICK id, c, from, n, start :
        /\ id = Id(t) /\ c = call[t] /\ from = BlockOffset(c, at[t])
        /\ n = PieceSize(c, at[t]) /\ start = Len(moved[t])
  OBVIOUS
<1>5. from \in Nat /\ n \in Int /\ start \in Nat /\ c.value \in Values
  <2>1. from \in 0..(BlockSize - 1) /\ n \in Int
    BY <1>1, <1>4, PieceFits
  <2>2. start \in Nat
    BY <1>1, <1>4, LenProperties
  <2> QED
    BY <1>1, <1>4, <2>1, <2>2
<1>6. /\ \/ /\ n >= 0 /\ blocks' = [blocks EXCEPT ![id] = Stored(blocks[id], c.value, from, n, start)]
            /\ moved' = [moved EXCEPT ![t] = moved[t] \o [k \in 1..n |-> <<c.value, start + k>>]]
         \/ UNCHANGED <<blocks, moved>>
      /\ \/ /\ at' = [at EXCEPT ![t] = at[t] + 1]
            /\ pc' = [pc EXCEPT ![t] = IF at[t] = LastBlock(call[t]) THEN "written" ELSE "store"]
         \/ UNCHANGED <<at, pc>>
      /\ UNCHANGED <<fileVars, table, count, cacheVars, call, hit, calls, index>>
  <2>1. PICK kind : kind = fault'
    OBVIOUS
  <2>2. kind = "none" /\ InTable(id) => n >= 0
    <3>1. kind = "none" /\ InTable(id) => CopyFault(t, n) = "none"
      BY <1>4, <2>1 DEF StoreBlock
    <3> QED
      BY <1>5, <3>1 DEF CopyFault
  <2>3. /\ \/ /\ n >= 0
               /\ blocks' = [blocks EXCEPT ![id] = Stored(blocks[id], c.value, from, n, start)]
               /\ moved' = [moved EXCEPT ![t] = moved[t] \o [k \in 1..n |-> <<c.value, start + k>>]]
            \/ UNCHANGED <<blocks, moved>>
    BY <1>4, <2>1, <2>2, Zenon DEF StoreBlock
  <2> QED
    BY <1>4, <2>3 DEF StoreBlock, Goto, Last
<1>7. fault' \in {"none"} \cup Faults
  <2>1. fault' = "null" \/ fault' = "none" \/ fault' = CopyFault(t, n)
    BY <1>4 DEF StoreBlock
  <2>2. CopyFault(t, n) \in {"none", "length", "buffer"}
    BY DEF CopyFault
  <2> QED
    BY <2>1, <2>2 DEF Faults
<1>8. /\ blocks' \in Seq(BlockSet) /\ Len(blocks') = Len(blocks)
      /\ \A b \in 1..Len(blocks) : /\ blocks'[b].file_id = blocks[b].file_id
                                   /\ blocks'[b].place = blocks[b].place
  <2>1. CASE UNCHANGED blocks
    BY <1>3, <2>1
  <2>2. CASE n >= 0 /\ blocks' = [blocks EXCEPT ![id] = Stored(blocks[id], c.value, from, n, start)]
    <3>1. blocks[id] \in BlockSet /\ n \in Nat
      BY <1>3, <1>4, <1>5, <2>2, ElementOfSeq
    <3>2. PICK e \in BlockSet : /\ e = Stored(blocks[id], c.value, from, n, start)
                                /\ e.file_id = blocks[id].file_id /\ e.place = blocks[id].place
      <4>1. PICK b, v : b = blocks[id] /\ v = c.value
        OBVIOUS
      <4>2. b \in BlockSet /\ v \in Values /\ from \in Nat /\ n \in Nat /\ start \in Nat
        BY <1>5, <3>1, <4>1
      <4>3. /\ Stored(b, v, from, n, start) \in BlockSet
            /\ Stored(b, v, from, n, start).file_id = b.file_id
            /\ Stored(b, v, from, n, start).place = b.place
        BY <4>2, StoredKeeps
      <4> QED
        BY <4>1, <4>3, Zenon
    <3> QED
      BY <1>3, <1>4, <2>2, <3>2, ExceptSeq
  <2> QED
    BY <1>6, <2>1, <2>2
<1>9. moved' \in [Clients -> Seq(Byte)]
  <2>1. CASE UNCHANGED moved
    BY <2>1 DEF IInv, Types, CallTypes
  <2>2. CASE n >= 0 /\ moved' = [moved EXCEPT ![t] = moved[t] \o [k \in 1..n |-> <<c.value, start + k>>]]
    <3>1. PICK s : s = [k \in 1..n |-> <<c.value, start + k>>]
      OBVIOUS
    <3>2. n \in Nat /\ s \in [1..n -> Byte]
      BY <1>5, <2>2, <3>1 DEF Byte
    <3>3. s \in Seq(Byte)
      BY <3>2, SeqDef
    <3>4. moved[t] \o s \in Seq(Byte)
      BY <1>1, <3>3, ConcatProperties
    <3> QED
      BY <2>2, <3>1, <3>4 DEF IInv, Types, CallTypes
  <2> QED
    BY <1>6, <2>1, <2>2
<1>10. FileTypes' /\ TableTypes' /\ CacheTypes'
  BY <1>6, <1>8 DEF IInv, Types, FileTypes, TableTypes, CacheTypes
<1>11. /\ CallTypes' /\ call'[t] = call[t]
       /\ \/ /\ at'[t] = at[t] + 1
             /\ pc'[t] = IF at[t] = LastBlock(call[t]) THEN "written" ELSE "store"
          \/ at'[t] = at[t] /\ pc'[t] = "store"
       /\ \A u \in Clients \ {t} : pc'[u] = pc[u] /\ at'[u] = at[u]
  <2>1. PICK l : l = IF at[t] = LastBlock(call[t]) THEN "written" ELSE "store"
    OBVIOUS
  <2>2. l \in Labels /\ pc \in [Clients -> Labels] /\ at \in [Clients -> Nat]
    BY <2>1 DEF IInv, Types, CallTypes, Labels, Writes
  <2>3. \/ at' = [at EXCEPT ![t] = at[t] + 1] /\ pc' = [pc EXCEPT ![t] = l]
        \/ UNCHANGED <<at, pc>>
    BY <1>6, <2>1
  <2>4. /\ pc' \in [Clients -> Labels] /\ at' \in [Clients -> Nat]
        /\ \/ at'[t] = at[t] + 1 /\ pc'[t] = l
           \/ at'[t] = at[t] /\ pc'[t] = "store"
        /\ \A u \in Clients \ {t} : pc'[u] = pc[u] /\ at'[u] = at[u]
    BY <1>1, <2>2, <2>3
  <2>5. UNCHANGED <<call, hit, calls, index>>
    BY <1>6
  <2>6. CallTypes'
    BY <1>7, <1>9, <2>4, <2>5 DEF IInv, Types, CallTypes
  <2> QED
    BY <2>1, <2>4, <2>5, <2>6
<1>12. Client(t)'
  <2>1. Blocks(t)' = Blocks(t)
    BY <1>6, <1>11 DEF Blocks
  <2>2. FirstBlock(call[t]) \in Nat
    BY <1>1, CallBlocks
  <2> QED
    BY <1>1, <1>2, <1>11, <2>1, <2>2 DEF Client, Writes, Reads
<1>13. \A u \in Clients \ {t} : /\ pc'[u] = pc[u] /\ call'[u] = call[u]
                                /\ at'[u] = at[u] /\ index'[u] = index[u]
  BY <1>6, <1>11
<1>14. ClientInv'
  BY <1>6, <1>11, <1>12, <1>13, Others, ListLengths DEF IInv
<1>15. BlocksOwned'
  BY <1>6, <1>8, OwnedKept
<1> QED
  BY <1>10, <1>11, <1>14, <1>15 DEF IInv, Types

(* A client that leaves its call is idle.                                    *)
LEMMA Left ==
  ASSUME IInv, NEW t \in Clients, Leave(t), hit' \in [Clients -> BOOLEAN],
         UNCHANGED <<calls, fault>>
  PROVE  /\ CallTypes' /\ pc'[t] = "idle"
         /\ \A u \in Clients \ {t} : /\ pc'[u] = pc[u] /\ call'[u] = call[u]
                                     /\ at'[u] = at[u] /\ index'[u] = index[u]
<1>1. <<>> \in Seq(Byte)
  BY EmptySeq
<1>2. PICK none : none = NoCall
  OBVIOUS
<1>3. none \in CallSet
  BY <1>2 DEF NoCall, Arguments, CallSet
<1>4. /\ call' = [call EXCEPT ![t] = none] /\ at' = [at EXCEPT ![t] = 0]
      /\ index' = [index EXCEPT ![t] = 0] /\ moved' = [moved EXCEPT ![t] = <<>>]
      /\ pc' = [pc EXCEPT ![t] = "idle"]
  BY <1>2 DEF Leave, Goto
<1> QED
  BY <1>1, <1>3, <1>4 DEF IInv, Types, CallTypes, Labels

LEMMA EndWriteInv ==
  ASSUME IInv, fault = "none", NEW t \in Clients, EndWrite(t)
  PROVE  IInv'
<1> USE DEF blockVars, cacheVars
<1>1. /\ Client(t) /\ pc[t] = "written" /\ call[t] \in CallSet /\ call[t].size > 0
      /\ call[t].file \in Files /\ LastBlock(call[t]) < Blocks(t)
  BY DEF EndWrite, IInv, ClientInv, Client, Types, CallTypes, Writes, Reads
<1>2. PICK f, m, s : f = call[t].file /\ m = Len(list[f]) /\ s = Extent(call[t])
  OBVIOUS
<1>3. s \in Nat /\ s <= m * BlockSize /\ f \in Files /\ m \in Nat
  <2>1. /\ call[t].offset + call[t].size - 1 \in Nat /\ m \in Nat /\ f \in Files
        /\ size[f] \in Nat /\ size[f] <= m * BlockSize
    <3>1. f \in Files
      BY <1>1, <1>2
    <3>2. m \in Nat
      BY <1>2, <3>1, ListLengths DEF IInv
    <3>3. size[f] \in Nat
      BY <3>1 DEF IInv, Types, FileTypes
    <3>4. size[f] <= m * BlockSize
      BY <1>2, <3>1 DEF IInv, BlocksOwned
    <3>5. call[t].offset \in Nat /\ call[t].size \in Nat
      BY <1>1 DEF CallSet
    <3> QED
      BY <1>1, <3>1, <3>2, <3>3, <3>4, <3>5
  <2>2. call[t].offset + call[t].size - 1 < m * BlockSize
    BY <1>1, <1>2, <2>1, BlockOfPosition DEF LastBlock, Blocks
  <2>3. m * BlockSize \in Nat /\ call[t].offset \in Nat /\ call[t].size \in Nat
    BY <1>1, <2>1 DEF CallSet
  <2>4. s = IF call[t].offset + call[t].size > size[f] THEN call[t].offset + call[t].size
            ELSE size[f]
    BY <1>2 DEF Extent
  <2>5. PICK top : top = m * BlockSize
    OBVIOUS
  <2> QED
    BY <2>1, <2>2, <2>3, <2>4, <2>5
<1>4. /\ size' = [size EXCEPT ![f] = s] /\ writer' = [writer EXCEPT ![f] = NoClient]
      /\ Leave(t) /\ UNCHANGED <<files, list, readers, blockVars, cacheVars, hit, calls, fault>>
  BY <1>2 DEF EndWrite
<1>5. FileTypes' /\ TableTypes' /\ CacheTypes'
  BY <1>3, <1>4 DEF IInv, Types, FileTypes, TableTypes, CacheTypes
<1>6. /\ CallTypes' /\ pc'[t] = "idle"
      /\ \A u \in Clients \ {t} : /\ pc'[u] = pc[u] /\ call'[u] = call[u]
                                  /\ at'[u] = at[u] /\ index'[u] = index[u]
  <2>1. hit' \in [Clients -> BOOLEAN]
    BY <1>4 DEF IInv, Types, CallTypes
  <2> QED
    BY <1>4, <2>1, Left
<1>8. ClientInv'
  <2>1. Client(t)'
    BY <1>6 DEF Client, Writes, Reads
  <2> QED
    BY <1>4, <1>6, <2>1, Others, ListLengths DEF IInv
<1>9. BlocksOwned'
  <2>1. \A g \in Files : size'[g] <= Len(list[g]) * BlockSize
    BY <1>2, <1>3, <1>4 DEF IInv, BlocksOwned, Types, FileTypes
  <2> QED
    BY <1>4, <2>1 DEF IInv, BlocksOwned
<1> QED
  BY <1>5, <1>6, <1>8, <1>9 DEF IInv, Types
-----------------------------------------------------------------------------
(* The steps of a read.                                                    *)

LEMMA StartReadInv ==
  ASSUME IInv, fault = "none", NEW t \in Clients, StartRead(t)
  PROVE  IInv'
<1> USE DEF blockVars, cacheVars, Goto
<1>0. PICK f \in 1..files : BeginRead(t, f)
  BY DEF StartRead
<1>1. PICK r \in Ranges :
        /\ r[1] < size[f]
        /\ call' = [call EXCEPT ![t] =
              [Arguments(f, r, 0) EXCEPT
                  !.size = IF r[1] + r[2] > size[f] THEN size[f] - r[1] ELSE r[2]]]
        /\ at' = [at EXCEPT ![t] = r[1] \div BlockSize]
  BY <1>0, Zenon DEF BeginRead
<1>2. f \in Files /\ size[f] \in Nat /\ r[1] \in Nat /\ r[2] \in Nat \ {0}
  BY DEF IInv, Types, FileTypes, Files
<1>3. PICK n : n = IF r[1] + r[2] > size[f] THEN size[f] - r[1] ELSE r[2]
  OBVIOUS
<1>4. n \in Nat \ {0} /\ n <= r[2]
  BY <1>1, <1>2, <1>3
<1>5. PICK c : c = [Arguments(f, r, 0) EXCEPT !.size = n]
  OBVIOUS
<1>6. /\ c \in CallSet /\ c.size = n /\ c.file = f /\ c.offset = r[1] /\ c.buffer = r[2]
  BY <1>2, <1>4, <1>5 DEF Arguments, CallSet, Files
<1>7. FirstBlock(c) = r[1] \div BlockSize /\ FirstBlock(c) \in Nat
      /\ LastBlock(c) \in Nat /\ FirstBlock(c) <= LastBlock(c)
  BY <1>4, <1>6, CallBlocks DEF FirstBlock
<1>8. r[1] \div BlockSize < Len(list[f])
  <2>1. PICK m \in Nat : m = Len(list[f])
    BY <1>2, ListLengths DEF IInv
  <2>2. size[f] <= m * BlockSize
    BY <1>2, <2>1 DEF IInv, BlocksOwned
  <2>3. PICK top \in Nat : top = m * BlockSize
    OBVIOUS
  <2>4. r[1] < m * BlockSize
    BY <1>1, <1>2, <2>2, <2>3
  <2> QED
    BY <1>2, <2>1, <2>4, BlockOfPosition
<1>9. /\ call' = [call EXCEPT ![t] = c] /\ at' = [at EXCEPT ![t] = FirstBlock(c)]
      /\ pc' = [pc EXCEPT ![t] = "lookup"]
      /\ readers' = [readers EXCEPT ![f] = readers[f] \cup {t}] /\ calls' = calls + 1
      /\ calls < MaxCalls
      /\ UNCHANGED <<files, size, list, writer, content, short, blockVars, cacheVars, moved, hit,
                     index, fault>>
  <2>1. call' = [call EXCEPT ![t] = c]
    BY <1>1, <1>3, <1>5, Zenon
  <2> QED
    BY <1>0, <1>1, <1>7, <2>1 DEF BeginRead
<1>10. FileTypes' /\ TableTypes' /\ CacheTypes'
  <2>1. readers' \in [Files -> SUBSET Clients]
    BY <1>2, <1>9 DEF IInv, Types, FileTypes
  <2> QED
    BY <1>9, <2>1 DEF IInv, Types, FileTypes, TableTypes, CacheTypes
<1>11. CallTypes'
  <2>2. pc' \in [Clients -> Labels] /\ call' \in [Clients -> CallSet] /\ at' \in [Clients -> Nat]
    BY <1>6, <1>7, <1>9 DEF IInv, Types, CallTypes, Labels, Reads
  <2>3. calls' \in 0..MaxCalls
    BY <1>9 DEF IInv, Types, CallTypes
  <2> QED
    BY <1>9, <2>2, <2>3 DEF IInv, Types, CallTypes
<1>12. Client(t)'
  <2>1. /\ call'[t] = c /\ at'[t] = FirstBlock(c) /\ pc'[t] = "lookup"
        /\ Blocks(t)' = Len(list[f])
    BY <1>6, <1>9 DEF IInv, Types, CallTypes, Blocks
  <2> QED
    BY <1>2, <1>4, <1>6, <1>7, <1>8, <2>1 DEF Client, Writes, Reads
<1>13. \A u \in Clients \ {t} : /\ pc'[u] = pc[u] /\ call'[u] = call[u]
                                /\ at'[u] = at[u] /\ index'[u] = index[u]
  BY <1>9 DEF IInv, Types, CallTypes
<1> QED
  BY <1>9, <1>10, <1>11, <1>12, <1>13, Inner

(* What a read has in its buffer are bytes.                                  *)
LEMMA Copied ==
  ASSUME IInv, NEW t \in Clients, call[t].size > 0, NEW data \in Data \cup {<<>>},
         NEW next \in Labels, Copy(t, data, next)
  PROVE  /\ moved' \in [Clients -> Seq(Byte)] /\ fault' \in {"none"} \cup Faults
         /\ pc' \in [Clients -> Labels] /\ \A u \in Clients \ {t} : pc'[u] = pc[u]
         /\ pc'[t] \in {pc[t], next}
<1>1. /\ call[t] \in CallSet /\ at[t] \in Nat /\ moved[t] \in Seq(Byte)
      /\ moved \in [Clients -> Seq(Byte)] /\ pc \in [Clients -> Labels]
  BY DEF IInv, Types, CallTypes
<1>2. PICK p, n : p = Piece(call[t], at[t], data) /\ n = PieceSize(call[t], at[t])
  OBVIOUS
<1>3. fault' = IF data = <<>> THEN "data" ELSE CopyFault(t, n)
  BY <1>2 DEF Copy
<1>4. CopyFault(t, n) \in {"none", "length", "buffer"} /\ (CopyFault(t, n) = "none" => ~(n < 0))
  BY DEF CopyFault
<1>5. fault' \in {"none"} \cup Faults
  BY <1>3, <1>4 DEF Faults
<1>6. CASE fault' = "none"
  <2>1. data \in Data /\ n \in Int /\ n >= 0
    <3>1. n \in Int
      BY <1>1, <1>2, PieceFits
    <3>2. data # <<>> /\ ~(n < 0)
      BY <1>3, <1>4, <1>6
    <3> QED
      BY <3>1, <3>2
  <2>2. p \in Seq(Byte)
    BY <1>1, <1>2, <2>1, BytesOfPiece
  <2>3. moved[t] \o p \in Seq(Byte)
    BY <1>1, <2>2, ConcatProperties
  <2>4. moved' = [moved EXCEPT ![t] = moved[t] \o p] /\ pc' = [pc EXCEPT ![t] = next]
    BY <1>2, <1>6 DEF Copy, Goto
  <2> QED
    BY <1>1, <1>5, <2>3, <2>4
<1>7. CASE fault' # "none"
  <2>1. UNCHANGED <<moved, pc>>
    BY <1>7 DEF Copy
  <2> QED
    BY <1>1, <1>5, <2>1
<1> QED
  BY <1>6, <1>7

(* A step of a read that goes on with the same block.                        *)
LEMMA ReadStep ==
  ASSUME IInv, fault = "none", NEW t \in Clients, pc[t] \in Reads \ {"read"},
         UNCHANGED <<fileVars, blockVars, call, at, calls>>, CacheTypes',
         moved' \in [Clients -> Seq(Byte)], hit' \in [Clients -> BOOLEAN],
         fault' \in {"none"} \cup Faults, index' \in [Clients -> Nat], pc' \in [Clients -> Labels],
         \A u \in Clients \ {t} : pc'[u] = pc[u] /\ index'[u] = index[u],
         pc'[t] \in Reads \ {"read"},
         pc'[t] \in {"scan", "hit", "grow", "name"} => index'[t] > 0,
         pc'[t] = "fill" => index'[t] \in 1..CacheCapacity
  PROVE  IInv'
<1> USE DEF fileVars, blockVars
<1>1. FileTypes' /\ TableTypes' /\ CallTypes'
  BY DEF IInv, Types, FileTypes, TableTypes, CallTypes
<1>2. Client(t)'
  <2>1. Client(t) /\ call'[t] = call[t] /\ at'[t] = at[t] /\ Blocks(t)' = Blocks(t)
    BY DEF IInv, ClientInv, Blocks
  <2> QED
    BY <2>1 DEF Client, Writes, Reads
<1> QED
  BY <1>1, <1>2, Inner

(* The entry that a step of a read looks at or fills in.                     *)
LEMMA BlockRead ==
  ASSUME IInv, NEW t \in Clients, pc[t] \in Reads \ {"read"}
  PROVE  /\ Id(t) \in 1..Len(blocks) /\ blocks[Id(t)].data \in Data /\ call[t].size > 0
         /\ Client(t) /\ index[t] \in Nat
<1>1. /\ Client(t) /\ pc[t] # "idle" /\ call[t].size > 0 /\ at[t] < Blocks(t) /\ Types
      /\ index[t] \in Nat
  BY DEF IInv, ClientInv, Client, Types, CallTypes, Reads
<1>2. Id(t) \in 1..Len(blocks)
  BY <1>1, IdInBlocks
<1>3. blocks[Id(t)] \in BlockSet
  BY <1>1, <1>2, ElementOfSeq DEF Types, TableTypes
<1> QED
  BY <1>1, <1>2, <1>3 DEF BlockSet

LEMMA LookupInv ==
  ASSUME IInv, fault = "none", NEW t \in Clients, Lookup(t)
  PROVE  IInv'
<1> USE DEF callVars
<1>1. /\ pc[t] = "lookup" /\ index' = [index EXCEPT ![t] = 1] /\ pc' = [pc EXCEPT ![t] = "scan"]
      /\ UNCHANGED <<fileVars, blockVars, entries, cached, served, stray, callVars, fault>>
      /\ cache_lock' = t
  BY DEF Lookup, Goto
<1>2. CacheTypes'
  BY <1>1 DEF IInv, Types, CacheTypes, TableTypes, blockVars
<1>3. pc[t] \in Reads \ {"read"} /\ "scan" \in Reads \ {"read"}
  BY <1>1 DEF Reads
<1>4. /\ index' \in [Clients -> Nat] /\ index'[t] = 1
      /\ pc' \in [Clients -> Labels] /\ pc'[t] = "scan"
      /\ \A u \in Clients \ {t} : pc'[u] = pc[u] /\ index'[u] = index[u]
      /\ moved' \in [Clients -> Seq(Byte)] /\ hit' \in [Clients -> BOOLEAN]
      /\ fault' \in {"none"} \cup Faults
  BY <1>1, <1>3 DEF IInv, Types, CallTypes, Labels
<1>5. /\ pc'[t] \in Reads \ {"read"} /\ pc'[t] # "fill"
      /\ pc'[t] \in {"scan", "hit", "grow", "name"} => index'[t] > 0
  BY <1>3, <1>4
<1>6. UNCHANGED <<fileVars, blockVars, call, at, calls>>
  BY <1>1
<1> QED
  BY <1>2, <1>3, <1>4, <1>5, <1>6, ReadStep

LEMMA ScanInv ==
  ASSUME IInv, fault = "none", NEW t \in Clients, Scan(t)
  PROVE  IInv'
<1>1. /\ pc[t] = "scan" /\ UNCHANGED <<entries, cached, cache_lock, stray, call, at, calls>>
      /\ UNCHANGED <<fileVars, blockVars>>
  BY DEF Scan
<1>2. /\ pc[t] \in Reads \ {"read"} /\ {"scan", "hit", "miss"} \subseteq Reads \ {"read"}
      /\ Reads \subseteq Labels /\ call[t].size > 0 /\ index[t] \in Nat /\ index[t] > 0
  <2>1. pc[t] \in Reads \ {"read"}
    BY <1>1 DEF Reads
  <2>2. Client(t) /\ call[t].size > 0 /\ index[t] \in Nat
    BY <2>1, BlockRead
  <2> QED
    BY <1>1, <2>1, <2>2 DEF Reads, Labels, Client
<1>3. \/ pc' = [pc EXCEPT ![t] = "miss"] /\ UNCHANGED <<moved, hit, served, index, fault>>
      \/ fault' = "entries" /\ UNCHANGED <<moved, hit, served, index, pc>>
      \/ index' = [index EXCEPT ![t] = index[t] + 1] /\ UNCHANGED <<moved, hit, served, pc, fault>>
      \/ /\ index[t] <= CacheCapacity /\ Copy(t, entries[index[t]].data, "hit")
         /\ hit' = [hit EXCEPT ![t] = hit[t] \/ fault' = "none"]
         /\ served' = TRUE /\ UNCHANGED index
  BY Zenon DEF Scan, Goto
<1>4. /\ pc \in [Clients -> Labels] /\ index \in [Clients -> Nat] /\ hit \in [Clients -> BOOLEAN]
      /\ moved \in [Clients -> Seq(Byte)] /\ served \in BOOLEAN
      /\ fault \in {"none"} \cup Faults /\ "entries" \in Faults
  BY DEF IInv, Types, CallTypes, CacheTypes, Faults
<1>5. /\ moved' \in [Clients -> Seq(Byte)] /\ hit' \in [Clients -> BOOLEAN] /\ served' \in BOOLEAN
      /\ fault' \in {"none"} \cup Faults /\ index' \in [Clients -> Nat] /\ pc' \in [Clients -> Labels]
      /\ \A u \in Clients \ {t} : pc'[u] = pc[u] /\ index'[u] = index[u]
      /\ pc'[t] \in {"scan", "hit", "miss"} /\ index'[t] > 0
  <2>1. CASE pc' = [pc EXCEPT ![t] = "miss"] /\ UNCHANGED <<moved, hit, served, index, fault>>
    BY <1>2, <1>4, <2>1
  <2>2. CASE fault' = "entries" /\ UNCHANGED <<moved, hit, served, index, pc>>
    BY <1>1, <1>2, <1>4, <2>2
  <2>3. CASE /\ index' = [index EXCEPT ![t] = index[t] + 1]
             /\ UNCHANGED <<moved, hit, served, pc, fault>>
    BY <1>1, <1>2, <1>4, <2>3
  <2>4. CASE /\ index[t] <= CacheCapacity /\ Copy(t, entries[index[t]].data, "hit")
             /\ hit' = [hit EXCEPT ![t] = hit[t] \/ fault' = "none"]
             /\ served' = TRUE /\ UNCHANGED index
    <3>1. index[t] \in 1..CacheCapacity
      BY <1>2, <2>4
    <3>2. PICK data \in Data \cup {<<>>} : data = entries[index[t]].data
      BY <3>1 DEF IInv, Types, CacheTypes
    <3>3. /\ moved' \in [Clients -> Seq(Byte)] /\ fault' \in {"none"} \cup Faults
          /\ pc' \in [Clients -> Labels] /\ \A u \in Clients \ {t} : pc'[u] = pc[u]
          /\ pc'[t] \in {pc[t], "hit"}
      BY <1>2, <2>4, <3>2, Copied
    <3>4. hit' \in [Clients -> BOOLEAN] /\ served' \in BOOLEAN
      BY <1>4, <2>4, Zenon
    <3> QED
      BY <1>1, <1>2, <1>4, <2>4, <3>3, <3>4
  <2> QED
    BY <1>3, <2>1, <2>2, <2>3, <2>4
<1>6. CacheTypes'
  BY <1>1, <1>5 DEF IInv, Types, CacheTypes, blockVars
<1> QED
  BY <1>1, <1>2, <1>5, <1>6, ReadStep

(* The next turn of the loop over the blocks is for a block of the file.      *)
LEMMA TurnTo ==
  ASSUME IInv, NEW t \in Clients, pc[t] \in Reads \ {"read"}, Turn(t),
         UNCHANGED <<call, list>>, index' \in [Clients -> Nat]
  PROVE  /\ at' \in [Clients -> Nat] /\ pc' \in [Clients -> Labels] /\ Client(t)'
         /\ \A u \in Clients \ {t} : at'[u] = at[u] /\ pc'[u] = pc[u]
<1>1. /\ Client(t) /\ call[t] \in CallSet /\ call[t].size > 0 /\ at[t] \in Nat
      /\ at[t] <= LastBlock(call[t]) /\ at[t] >= FirstBlock(call[t])
      /\ FirstBlock(call[t]) \in Nat /\ LastBlock(call[t]) \in Nat
  BY CallBlocks DEF IInv, ClientInv, Client, Types, CallTypes, Writes, Reads
<1>2. Blocks(t) \in Nat /\ Blocks(t)' = Blocks(t)
  BY <1>1, ListLengths DEF IInv, ClientInv, Client, Blocks, Writes, Reads
<1>3. PICK l : /\ l \in {"read", "lookup"} /\ pc' = [pc EXCEPT ![t] = l]
               /\ (l = "lookup" => at[t] # LastBlock(call[t]) /\ ~(at[t] + 1 >= Blocks(t)))
  <2>1. CASE at[t] = LastBlock(call[t]) \/ at[t] + 1 >= Blocks(t)
    <3>1. pc' = [pc EXCEPT ![t] = "read"]
      BY <2>1 DEF Turn, Goto, Last, Blocks
    <3>2. "read" # "lookup"
      OBVIOUS
    <3> QED
      BY <3>1, <3>2, Zenon
  <2>2. CASE ~(at[t] = LastBlock(call[t]) \/ at[t] + 1 >= Blocks(t))
    <3>1. pc' = [pc EXCEPT ![t] = "lookup"]
      BY <2>2 DEF Turn, Goto, Last, Blocks
    <3> QED
      BY <2>2, <3>1, Zenon
  <2> QED
    BY <2>1, <2>2
<1>4. pc' \in [Clients -> Labels] /\ pc'[t] = l /\ \A u \in Clients \ {t} : pc'[u] = pc[u]
  BY <1>3 DEF IInv, Types, CallTypes, Labels, Reads
<1>5. /\ at' \in [Clients -> Nat] /\ at'[t] = at[t] + 1
      /\ \A u \in Clients \ {t} : at'[u] = at[u]
  BY <1>1 DEF Turn, IInv, Types, CallTypes
<1>6. Client(t)'
  BY <1>1, <1>2, <1>3, <1>4, <1>5 DEF Client, Writes, Reads
<1> QED
  BY <1>4, <1>5, <1>6

LEMMA UnlockInv ==
  ASSUME IInv, fault = "none", NEW t \in Clients, Unlock(t)
  PROVE  IInv'
<1>1. /\ pc[t] \in {"hit", "miss", "inserted"} /\ cache_lock' = NoClient
      /\ stray' = (stray \/ cache_lock # t)
      /\ UNCHANGED <<fileVars, blockVars, entries, cached, served, call, moved, hit, calls, fault>>
  BY DEF Unlock
<1>2. CacheTypes'
  <2>1. stray' \in BOOLEAN
    BY <1>1, Zenon
  <2> QED
    BY <1>1, <2>1 DEF IInv, Types, CacheTypes, blockVars
<1>3. /\ pc[t] \in Reads \ {"read"} /\ index[t] \in Nat
      /\ {"scan", "fetch"} \subseteq Reads \ {"read"} /\ Reads \subseteq Labels
  BY <1>1 DEF IInv, Types, CallTypes, Reads, Labels
<1>4. /\ moved' \in [Clients -> Seq(Byte)] /\ hit' \in [Clients -> BOOLEAN]
      /\ fault' \in {"none"} \cup Faults
  BY <1>1 DEF IInv, Types, CallTypes
<1>5. CASE /\ pc[t] = "hit" /\ index' = [index EXCEPT ![t] = index[t] + 1] /\ UNCHANGED at
           /\ pc' = [pc EXCEPT ![t] = "scan"]
  <2>1. /\ index' \in [Clients -> Nat] /\ index'[t] > 0 /\ pc' \in [Clients -> Labels]
        /\ pc'[t] = "scan" /\ \A u \in Clients \ {t} : pc'[u] = pc[u] /\ index'[u] = index[u]
    BY <1>3, <1>5 DEF IInv, Types, CallTypes
  <2> QED
    BY <1>1, <1>2, <1>3, <1>4, <1>5, <2>1, ReadStep
<1>6. CASE /\ pc[t] = "miss" /\ index' = [index EXCEPT ![t] = 0] /\ UNCHANGED at
           /\ pc' = [pc EXCEPT ![t] = "fetch"]
  <2>1. /\ index' \in [Clients -> Nat] /\ pc' \in [Clients -> Labels]
        /\ pc'[t] = "fetch" /\ \A u \in Clients \ {t} : pc'[u] = pc[u] /\ index'[u] = index[u]
    BY <1>3, <1>6 DEF IInv, Types, CallTypes
  <2> QED
    BY <1>1, <1>2, <1>3, <1>4, <1>6, <2>1, ReadStep
<1>7. CASE pc[t] = "inserted" /\ index' = [index EXCEPT ![t] = 0] /\ Turn(t)
  <2>1. index' \in [Clients -> Nat] /\ \A u \in Clients \ {t} : index'[u] = index[u]
    BY <1>7 DEF IInv, Types, CallTypes
  <2>2. /\ at' \in [Clients -> Nat] /\ pc' \in [Clients -> Labels] /\ Client(t)'
        /\ \A u \in Clients \ {t} : at'[u] = at[u] /\ pc'[u] = pc[u]
    BY <1>1, <1>3, <1>7, <2>1, TurnTo DEF fileVars
  <2>3. FileTypes' /\ TableTypes' /\ CallTypes'
    BY <1>1, <1>4, <2>1, <2>2
       DEF IInv, Types, FileTypes, TableTypes, CallTypes, fileVars, blockVars
  <2> QED
    BY <1>1, <1>2, <2>1, <2>2, <2>3, Inner DEF fileVars, blockVars
<1> QED
  BY <1>5, <1>6, <1>7 DEF Unlock, Goto

LEMMA FetchInv ==
  ASSUME IInv, fault = "none", NEW t \in Clients, Fetch(t)
  PROVE  IInv'
<1> USE DEF cacheVars
<1>1. /\ pc[t] = "fetch" /\ UNCHANGED <<fileVars, blockVars, cacheVars, call, hit, calls, index>>
  BY DEF Fetch
<1>2. /\ pc[t] \in Reads \ {"read"} /\ {"fetch", "insert"} \subseteq Reads \ {"read"}
      /\ Reads \subseteq Labels
  BY <1>1 DEF Reads, Labels
<1>3. call[t].size > 0 /\ blocks[Id(t)].data \in Data
  BY <1>2, BlockRead
<1>4. CacheTypes' /\ index' \in [Clients -> Nat] /\ hit' \in [Clients -> BOOLEAN]
  BY <1>1 DEF IInv, Types, CacheTypes, CallTypes, blockVars
<1>5. CASE fault' = "null" /\ UNCHANGED <<moved, at, pc>>
  <2>1. /\ moved' \in [Clients -> Seq(Byte)] /\ fault' \in {"none"} \cup Faults
        /\ pc' \in [Clients -> Labels]
    BY <1>5 DEF IInv, Types, CallTypes, Faults
  <2> QED
    BY <1>1, <1>2, <1>4, <1>5, <2>1, ReadStep
<1>6. CASE Copy(t, blocks[Id(t)].data, "insert") /\ UNCHANGED at
  <2>1. /\ moved' \in [Clients -> Seq(Byte)] /\ fault' \in {"none"} \cup Faults
        /\ pc' \in [Clients -> Labels] /\ \A u \in Clients \ {t} : pc'[u] = pc[u]
        /\ pc'[t] \in {pc[t], "insert"}
    BY <1>2, <1>3, <1>6, Copied
  <2>2. pc'[t] \in {"fetch", "insert"}
    BY <1>1, <2>1
  <2> QED
    BY <1>1, <1>2, <1>4, <1>6, <2>1, <2>2, ReadStep
<1>7. CASE Turn(t) /\ UNCHANGED <<moved, fault>>
  <2>1. /\ at' \in [Clients -> Nat] /\ pc' \in [Clients -> Labels] /\ Client(t)'
        /\ \A u \in Clients \ {t} : at'[u] = at[u] /\ pc'[u] = pc[u]
    BY <1>1, <1>2, <1>4, <1>7, TurnTo DEF fileVars
  <2>2. FileTypes' /\ TableTypes' /\ CallTypes'
    BY <1>1, <1>4, <1>7, <2>1
       DEF IInv, Types, FileTypes, TableTypes, CallTypes, fileVars, blockVars
  <2> QED
    BY <1>1, <1>4, <2>1, <2>2, Inner DEF fileVars, blockVars
<1> QED
  BY <1>5, <1>6, <1>7, Zenon DEF Fetch

(* The steps under the mutex that only go on, or take an entry.              *)
LEMMA InsertInv ==
  ASSUME IInv, fault = "none", NEW t \in Clients,
         InsertLock(t) \/ TestRoom(t) \/ TakeEntry(t) \/ Grow(t)
  PROVE  IInv'
<1> USE DEF callVars, cacheVars
<1>1. /\ pc[t] \in {"insert", "room", "take", "grow"} /\ pc[t] \in Reads \ {"read"}
      /\ UNCHANGED <<fileVars, blockVars, entries, served, stray, callVars, fault>>
      /\ \/ /\ pc[t] \in {"insert", "room"} /\ UNCHANGED index
            /\ \E l \in {"room", "take", "inserted"} : pc' = [pc EXCEPT ![t] = l]
         \/ /\ pc[t] = "take" /\ index' = [index EXCEPT ![t] = cached + 1]
            /\ pc' = [pc EXCEPT ![t] = "grow"]
         \/ /\ pc[t] = "grow" /\ UNCHANGED index /\ pc' = [pc EXCEPT ![t] = "name"]
      /\ cached' = cached \/ cached' = index[t]
      /\ cache_lock' \in {cache_lock, t}
  BY DEF InsertLock, TestRoom, TestBelow, TakeEntry, Grow, Goto, Reads
<1>2. CacheTypes'
  BY <1>1 DEF IInv, Types, CacheTypes, CallTypes, blockVars
<1>3. /\ index[t] \in Nat /\ cached \in Nat /\ (pc[t] = "grow" => index[t] > 0)
  BY DEF IInv, ClientInv, Client, Types, CacheTypes, CallTypes
<1>4. {"room", "take", "inserted", "grow", "name"} \subseteq Labels \cap (Reads \ {"read"})
  BY DEF Labels, Reads
<1>5. /\ pc \in [Clients -> Labels] /\ index \in [Clients -> Nat]
      /\ moved' \in [Clients -> Seq(Byte)] /\ hit' \in [Clients -> BOOLEAN]
      /\ fault' \in {"none"} \cup Faults
  BY <1>1 DEF IInv, Types, CallTypes
<1>6. /\ index' \in [Clients -> Nat] /\ \A u \in Clients \ {t} : index'[u] = index[u]
      /\ (pc[t] = "take" => index'[t] > 0) /\ (pc[t] = "grow" => index'[t] > 0)
  <2>1. CASE pc[t] = "take" /\ index' = [index EXCEPT ![t] = cached + 1]
    BY <1>3, <1>5, <2>1
  <2>2. CASE pc[t] # "take" /\ UNCHANGED index
    BY <1>3, <1>5, <2>2
  <2> QED
    BY <1>1, <2>1, <2>2
<1>7. PICK l \in {"room", "take", "inserted", "grow", "name"} :
        /\ pc' = [pc EXCEPT ![t] = l] /\ (l = "grow" => pc[t] = "take")
        /\ (l = "name" => pc[t] = "grow")
  BY <1>1
<1>8. /\ pc' \in [Clients -> Labels] /\ pc'[t] = l /\ \A u \in Clients \ {t} : pc'[u] = pc[u]
  BY <1>4, <1>5, <1>7
<1>9. /\ pc'[t] \in Reads \ {"read"} /\ (pc'[t] = "fill" => index'[t] \in 1..CacheCapacity)
      /\ (pc'[t] \in {"scan", "hit", "grow", "name"} => index'[t] > 0)
  BY <1>4, <1>6, <1>7, <1>8
<1> QED
  BY <1>1, <1>2, <1>5, <1>6, <1>8, <1>9, ReadStep

LEMMA NameInv ==
  ASSUME IInv, fault = "none", NEW t \in Clients, Name(t)
  PROVE  IInv'
<1> USE DEF callVars
<1>1. PICK id : id = Id(t)
  OBVIOUS
<1>2. /\ pc[t] = "name" /\ UNCHANGED <<fileVars, blockVars, callVars, index>>
      /\ UNCHANGED <<cached, cache_lock, served, stray>>
      /\ \/ /\ index[t] <= CacheCapacity /\ pc' = [pc EXCEPT ![t] = "fill"] /\ UNCHANGED fault
            /\ entries' = [entries EXCEPT ![index[t]] =
                             [block_id |-> id, data |-> entries[index[t]].data]]
         \/ fault' = "entries" /\ UNCHANGED <<entries, pc>>
  BY <1>1 DEF Name, Goto
<1>3. /\ pc[t] \in Reads \ {"read"} /\ {"name", "fill"} \subseteq Labels \cap (Reads \ {"read"})
      /\ "entries" \in Faults
  BY <1>2 DEF Reads, Labels, Faults
<1>4. index[t] \in Nat /\ index[t] > 0 /\ id \in 0..Len(blocks)
  <2>1. Client(t) /\ index[t] \in Nat /\ Id(t) \in 1..Len(blocks)
    BY <1>3, BlockRead
  <2>2. Len(blocks) \in Nat
    BY LenProperties DEF IInv, Types, TableTypes
  <2> QED
    BY <1>1, <1>2, <2>1, <2>2 DEF Client
<1>5. CacheTypes'
  <2>1. CASE UNCHANGED entries
    BY <1>2, <2>1 DEF IInv, Types, CacheTypes, blockVars
  <2>2. CASE /\ index[t] <= CacheCapacity
             /\ entries' = [entries EXCEPT ![index[t]] =
                              [block_id |-> id, data |-> entries[index[t]].data]]
    <3>1. index[t] \in 1..CacheCapacity
      BY <1>4, <2>2
    <3>2. entries[index[t]].data \in Data \cup {<<>>}
      BY <3>1 DEF IInv, Types, CacheTypes
    <3>3. entries' \in [1..CacheCapacity -> [block_id : 0..Len(blocks), data : Data \cup {<<>>}]]
      BY <1>4, <2>2, <3>1, <3>2 DEF IInv, Types, CacheTypes
    <3> QED
      BY <1>2, <3>3 DEF IInv, Types, CacheTypes, blockVars
  <2> QED
    BY <1>2, <2>1, <2>2
<1>6. /\ moved' \in [Clients -> Seq(Byte)] /\ hit' \in [Clients -> BOOLEAN]
      /\ fault' \in {"none"} \cup Faults /\ index' \in [Clients -> Nat]
  BY <1>2, <1>3 DEF IInv, Types, CallTypes
<1>7. /\ pc' \in [Clients -> Labels] /\ \A u \in Clients \ {t} : pc'[u] = pc[u]
      /\ pc'[t] \in {"name", "fill"} /\ index'[t] > 0
      /\ (pc'[t] = "fill" => index'[t] \in 1..CacheCapacity)
  <2>1. PICK l \in {"name", "fill"} :
           /\ pc' = [pc EXCEPT ![t] = l] /\ (l = "fill" => index[t] <= CacheCapacity)
    <3>1. CASE pc' = [pc EXCEPT ![t] = "fill"] /\ index[t] <= CacheCapacity
      BY <3>1
    <3>2. CASE UNCHANGED pc
      BY <1>2, <3>2 DEF IInv, Types, CallTypes
    <3> QED
      BY <1>2, <3>1, <3>2
  <2>2. pc \in [Clients -> Labels] /\ l \in Labels /\ index'[t] = index[t]
    BY <1>2, <1>3 DEF IInv, Types, CallTypes
  <2>3. /\ pc' \in [Clients -> Labels] /\ pc'[t] = l /\ \A u \in Clients \ {t} : pc'[u] = pc[u]
    BY <2>1, <2>2
  <2> QED
    BY <1>4, <2>1, <2>2, <2>3
<1> QED
  BY <1>2, <1>3, <1>5, <1>6, <1>7, ReadStep

LEMMA FillInv ==
  ASSUME IInv, fault = "none", NEW t \in Clients, Fill(t)
  PROVE  IInv'
<1> USE DEF callVars
<1>1. PICK data : data = blocks[Id(t)].data
  OBVIOUS
<1>2. /\ pc[t] = "fill" /\ pc' = [pc EXCEPT ![t] = "inserted"]
      /\ entries' = [entries EXCEPT ![index[t]] = [block_id |-> entries[index[t]].block_id,
                                                   data |-> data]]
      /\ UNCHANGED <<fileVars, blockVars, cached, cache_lock, served, stray, callVars, index, fault>>
  BY <1>1 DEF Fill, Goto
<1>3. pc[t] \in Reads \ {"read"} /\ "inserted" \in Labels \cap (Reads \ {"read"})
  BY <1>2 DEF Reads, Labels
<1>4. index[t] \in 1..CacheCapacity /\ data \in Data
  <2>1. Client(t) /\ blocks[Id(t)].data \in Data
    BY <1>3, BlockRead
  <2> QED
    BY <1>1, <1>2, <2>1 DEF Client
<1>5. CacheTypes'
  <2>1. entries[index[t]].block_id \in 0..Len(blocks)
    BY <1>4 DEF IInv, Types, CacheTypes
  <2>2. entries' \in [1..CacheCapacity -> [block_id : 0..Len(blocks), data : Data \cup {<<>>}]]
    BY <1>2, <1>4, <2>1 DEF IInv, Types, CacheTypes
  <2> QED
    BY <1>2, <2>2 DEF IInv, Types, CacheTypes, blockVars
<1>6. /\ moved' \in [Clients -> Seq(Byte)] /\ hit' \in [Clients -> BOOLEAN]
      /\ fault' \in {"none"} \cup Faults /\ index' \in [Clients -> Nat]
  BY <1>2 DEF IInv, Types, CallTypes
<1>7. /\ pc' \in [Clients -> Labels] /\ pc'[t] = "inserted"
      /\ \A u \in Clients \ {t} : pc'[u] = pc[u] /\ index'[u] = index[u]
  BY <1>2, <1>3 DEF IInv, Types, CallTypes
<1> QED
  BY <1>2, <1>3, <1>5, <1>6, <1>7, ReadStep

LEMMA EndReadInv ==
  ASSUME IInv, fault = "none", NEW t \in Clients, EndRead(t)
  PROVE  IInv'
<1> USE DEF blockVars, cacheVars
<1>1. call[t].file \in Files
  BY DEF EndRead, IInv, ClientInv, Client, Reads
<1>2. FileTypes' /\ TableTypes' /\ CacheTypes'
  <2>1. readers' \in [Files -> SUBSET Clients]
    BY <1>1 DEF EndRead, IInv, Types, FileTypes
  <2> QED
    BY <2>1 DEF EndRead, IInv, Types, FileTypes, TableTypes, CacheTypes
<1>3. /\ CallTypes' /\ pc'[t] = "idle"
      /\ \A u \in Clients \ {t} : /\ pc'[u] = pc[u] /\ call'[u] = call[u]
                                  /\ at'[u] = at[u] /\ index'[u] = index[u]
  <2>1. hit' \in [Clients -> BOOLEAN]
    BY Zenon DEF EndRead, IInv, Types, CallTypes
  <2> QED
    BY <2>1, Left DEF EndRead
<1>4. Client(t)'
  BY <1>3 DEF Client, Writes, Reads
<1> QED
  BY <1>2, <1>3, <1>4, Inner DEF EndRead

-----------------------------------------------------------------------------

LEMMA StepInv == IInv /\ [Next]_vars => IInv'
<1> SUFFICES ASSUME IInv, [Next]_vars PROVE IInv'
  OBVIOUS
<1>1. CASE UNCHANGED vars
  BY <1>1 DEF vars, fileVars, blockVars, cacheVars, callVars, IInv, Types, FileTypes, TableTypes,
              CacheTypes, CallTypes, ClientInv, Client, Blocks, BlocksOwned
<1>2. CASE Next
  <2>1. PICK t \in Clients : fault = "none" /\ (CreateFile(t) \/ Write(t) \/ Read(t))
    BY <1>2 DEF Next
  <2>2. CASE CreateFile(t)
    BY <2>1, <2>2, CreateFileInv
  <2>3. CASE Write(t)
    BY <2>1, <2>3, StartWriteInv, ExtendInv, LoadCountInv, AppendInv, StoreBlockInv, EndWriteInv
       DEF Write
  <2>4. CASE Read(t)
    BY <2>1, <2>4, StartReadInv, LookupInv, ScanInv, UnlockInv, FetchInv, InsertInv, NameInv,
       FillInv, EndReadInv DEF Read
  <2> QED
    BY <2>1, <2>2, <2>3, <2>4
<1> QED
  BY <1>1, <1>2

LEMMA Inductive == Spec => []IInv
<1> QED
  BY InitInv, StepInv, PTL DEF Spec

-----------------------------------------------------------------------------
(* The mutex of the cache.  Until it is released by a client that does not    *)
(* hold it, the client that inserts a block holds it, and the count that it   *)
(* has tested, loaded and stored is that of the cache.  The search holds it    *)
(* too, or goes on after a hit.                                              *)

Inserting == {"room", "take", "grow", "name", "fill", "inserted"}
Searching == {"scan", "hit", "miss"}

Holds(t) ==
    /\ pc[t] \in Inserting => cache_lock = t
    /\ pc[t] = "take" => cached < CacheCapacity
    /\ pc[t] = "grow" => cached < CacheCapacity /\ index[t] = cached + 1
    /\ pc[t] = "name" => index[t] <= CacheCapacity

Searches(t) ==
    /\ pc[t] \in Searching => cache_lock = t \/ hit[t] \/ stray
    /\ pc[t] = "hit" => hit[t]
    /\ hit[t] => served

CacheInv ==
    /\ ~stray => cached <= CacheCapacity /\ \A t \in Clients : Holds(t)
    /\ \A t \in Clients : Searches(t)
    /\ stray => served

(* A step that leaves the mutex alone, but for a count that it may store.      *)
LEMMA MutexKept ==
  ASSUME IInv, CacheInv, NEW t \in Clients, UNCHANGED <<cache_lock, stray>>,
         \A u \in Clients \ {t} : pc'[u] = pc[u] /\ index'[u] = index[u] /\ hit'[u] = hit[u],
         served => served', ~stray => cached' <= CacheCapacity /\ Holds(t)',
         ~(UNCHANGED cached) => pc[t] \in Inserting,
         Searches(t)'
  PROVE  CacheInv'
<1>1. ASSUME NEW u \in Clients, ~stray PROVE Holds(u)'
  <2>1. Holds(t) /\ Holds(u)
    BY <1>1 DEF CacheInv
  <2>2. CASE u = t
    BY <1>1, <2>2
  <2>3. CASE u # t /\ UNCHANGED cached
    BY <2>1, <2>3 DEF Holds
  <2>4. CASE u # t /\ pc[t] \in Inserting
    BY <2>1, <2>4 DEF Holds, Inserting
  <2> QED
    BY <2>2, <2>3, <2>4
<1>2. ASSUME NEW u \in Clients PROVE Searches(u)'
  <2>1. Searches(u)
    BY DEF CacheInv
  <2> QED
    BY <2>1 DEF Searches
<1>3. stray' => served'
  BY DEF CacheInv
<1> QED
  BY <1>1, <1>2, <1>3 DEF CacheInv

(* A step of a client that is not between taking and releasing it.            *)
LEMMA MutexAside ==
  ASSUME IInv, CacheInv, NEW t \in Clients, UNCHANGED <<cached, cache_lock, served, stray>>,
         \A u \in Clients \ {t} : pc'[u] = pc[u] /\ index'[u] = index[u] /\ hit'[u] = hit[u],
         pc'[t] \notin Inserting \cup Searching, hit'[t] => hit[t]
  PROVE  CacheInv'
<1>1. Searches(t)' /\ Holds(t)'
  BY DEF CacheInv, Searches, Holds, Inserting, Searching
<1>2. ~stray => cached' <= CacheCapacity
  BY DEF CacheInv
<1> QED
  BY <1>1, <1>2, MutexKept

LEMMA MutexTaken ==
  ASSUME IInv, CacheInv, NEW t \in Clients, Lookup(t) \/ InsertLock(t)
  PROVE  CacheInv'
<1> USE DEF callVars, Goto
<1>1. /\ cache_lock = NoClient /\ cache_lock' = t /\ pc'[t] \in {"scan", "room"}
      /\ UNCHANGED <<cached, served, stray, hit>>
      /\ \A u \in Clients \ {t} : pc'[u] = pc[u] /\ index'[u] = index[u]
  BY DEF Lookup, InsertLock, IInv, Types, CallTypes
<1>2. ASSUME ~stray PROVE \A u \in Clients : Holds(u)'
  <2> SUFFICES ASSUME NEW u \in Clients PROVE Holds(u)'
    OBVIOUS
  <2>1. Holds(u) /\ u # NoClient
    BY <1>2 DEF CacheInv
  <2>2. CASE u = t
    BY <1>1, <2>2 DEF Holds
  <2>3. CASE u # t
    BY <1>1, <2>1, <2>3 DEF Holds, Inserting
  <2> QED
    BY <2>2, <2>3
<1>3. ASSUME NEW u \in Clients PROVE Searches(u)'
  <2>1. Searches(u) /\ u # NoClient
    BY DEF CacheInv
  <2> QED
    BY <1>1, <2>1 DEF Searches
<1>4. (stray' => served') /\ (~stray => cached' <= CacheCapacity)
  BY <1>1 DEF CacheInv
<1> QED
  BY <1>1, <1>2, <1>3, <1>4 DEF CacheInv

(* Without the mutex it is released only after a hit.                        *)
LEMMA MutexReleased ==
  ASSUME IInv, CacheInv, NEW t \in Clients, Unlock(t)
  PROVE  CacheInv'
<1>1. /\ pc[t] \in {"hit", "miss", "inserted"} /\ cache_lock' = NoClient
      /\ UNCHANGED <<cached, served, hit>>
  BY DEF Unlock
<1>2. /\ (~stray' => ~stray /\ cache_lock = t) /\ (stray => stray')
      /\ (stray' => stray \/ cache_lock # t)
  BY Zenon DEF Unlock
<1>3. /\ pc'[t] \notin Inserting /\ (pc'[t] \in Searching => pc[t] = "hit" /\ pc'[t] = "scan")
      /\ \A u \in Clients \ {t} : pc'[u] = pc[u] /\ index'[u] = index[u]
  <2>1. PICK l \in {"scan", "fetch", "read", "lookup"} :
           pc' = [pc EXCEPT ![t] = l] /\ (l = "scan" => pc[t] = "hit")
    BY DEF Unlock, Turn, Goto
  <2>2. PICK j : index' = [index EXCEPT ![t] = j]
    BY DEF Unlock
  <2>3. pc \in [Clients -> Labels] /\ index \in [Clients -> Nat]
    BY DEF IInv, Types, CallTypes
  <2>4. pc'[t] = l /\ \A u \in Clients \ {t} : pc'[u] = pc[u]
    BY <2>1, <2>3
  <2>5. \A u \in Clients \ {t} : index'[u] = index[u]
    BY <2>2, <2>3
  <2> QED
    BY <2>1, <2>4, <2>5 DEF Inserting, Searching
<1>4. ASSUME ~stray' PROVE cached' <= CacheCapacity /\ \A u \in Clients : Holds(u)'
  <2>1. ~stray /\ cache_lock = t
    BY <1>2, <1>4
  <2>2. \A u \in Clients : Holds(u)
    BY <2>1 DEF CacheInv
  <2>3. ASSUME NEW u \in Clients PROVE Holds(u)'
    <3>1. CASE u = t
      BY <1>3, <3>1 DEF Holds, Inserting
    <3>2. CASE u # t
      BY <1>3, <2>1, <2>2, <3>2 DEF Holds, Inserting
    <3> QED
      BY <3>1, <3>2
  <2> QED
    BY <1>1, <2>1, <2>3 DEF CacheInv
<1>5. ASSUME NEW u \in Clients PROVE Searches(u)'
  <2>1. Searches(u) /\ Searches(t)
    BY DEF CacheInv
  <2>2. CASE u = t
    BY <1>1, <1>3, <2>1, <2>2 DEF Searches, Searching
  <2>3. CASE u # t
    BY <1>1, <1>2, <1>3, <2>1, <2>3 DEF Searches
  <2> QED
    BY <2>2, <2>3
<1>6. stray' => served'
  <2>1. (stray => served) /\ Searches(t) /\ (~stray => Holds(t))
    BY DEF CacheInv
  <2>2. stray' => served
    BY <1>1, <1>2, <2>1 DEF Searches, Holds, Searching, Inserting
  <2> QED
    BY <1>1, <2>2
<1> QED
  BY <1>4, <1>5, <1>6 DEF CacheInv

LEMMA MutexScan ==
  ASSUME IInv, CacheInv, NEW t \in Clients, Scan(t)
  PROVE  CacheInv'
<1>1. /\ pc[t] = "scan" /\ UNCHANGED <<cached, cache_lock, stray>>
      /\ pc \in [Clients -> Labels] /\ index \in [Clients -> Nat] /\ hit \in [Clients -> BOOLEAN]
  BY DEF Scan, IInv, Types, CallTypes
<1>2. \/ UNCHANGED <<hit, served>> /\ (pc' = [pc EXCEPT ![t] = "miss"] \/ UNCHANGED pc)
      \/ /\ Copy(t, entries[index[t]].data, "hit") /\ served'
         /\ hit' = [hit EXCEPT ![t] = hit[t] \/ fault' = "none"]
  BY Zenon DEF Scan, Goto
<1>3. \A u \in Clients \ {t} : index'[u] = index[u]
  BY <1>1 DEF Scan
<1>4. Searches(t)
  BY DEF CacheInv
<1>5. CASE UNCHANGED <<hit, served>> /\ (pc' = [pc EXCEPT ![t] = "miss"] \/ UNCHANGED pc)
  <2>1. pc'[t] \in {"scan", "miss"} /\ \A u \in Clients \ {t} : pc'[u] = pc[u]
    BY <1>1, <1>5
  <2>2. Searches(t)' /\ Holds(t)'
    BY <1>1, <1>4, <1>5, <2>1 DEF Searches, Holds, Inserting, Searching
  <2>3. ~stray => cached' <= CacheCapacity
    BY <1>1 DEF CacheInv
  <2> QED
    BY <1>1, <1>3, <1>5, <2>1, <2>2, <2>3, MutexKept
<1>6. CASE /\ Copy(t, entries[index[t]].data, "hit") /\ served'
           /\ hit' = [hit EXCEPT ![t] = hit[t] \/ fault' = "none"]
  <2>1. \/ fault' = "none" /\ pc' = [pc EXCEPT ![t] = "hit"]
        \/ fault' # "none" /\ UNCHANGED pc
    BY <1>6, Zenon DEF Copy, Goto
  <2>2. /\ (hit[t] => hit'[t]) /\ (fault' = "none" => hit'[t])
        /\ \A u \in Clients \ {t} : hit'[u] = hit[u]
    BY <1>1, <1>6, Zenon
  <2>3. /\ pc'[t] \in {"scan", "hit"} /\ (pc'[t] = "hit" => fault' = "none")
        /\ \A u \in Clients \ {t} : pc'[u] = pc[u]
    BY <1>1, <2>1
  <2>4. Searches(t)' /\ Holds(t)'
    BY <1>1, <1>4, <1>6, <2>2, <2>3 DEF Searches, Holds, Inserting, Searching
  <2>5. ~stray => cached' <= CacheCapacity
    BY <1>1 DEF CacheInv
  <2> QED
    BY <1>1, <1>3, <1>6, <2>2, <2>3, <2>4, <2>5, MutexKept
<1> QED
  BY <1>2, <1>5, <1>6

(* The steps of an insertion under the mutex.                                *)
LEMMA MutexInsert ==
  ASSUME IInv, CacheInv, NEW t \in Clients,
         TestRoom(t) \/ TakeEntry(t) \/ Grow(t) \/ Name(t) \/ Fill(t)
  PROVE  CacheInv'
<1> USE DEF callVars, cacheVars, Goto
<1>1. /\ pc[t] \in Inserting /\ UNCHANGED <<cache_lock, stray, served, hit>>
      /\ pc \in [Clients -> Labels] /\ index \in [Clients -> Nat] /\ cached \in Nat
  BY DEF TestRoom, TestBelow, TakeEntry, Grow, Name, Fill, Inserting, IInv, Types, CallTypes,
         CacheTypes
<1>2. PICK l \in Inserting :
        /\ pc' = [pc EXCEPT ![t] = l]
        /\ \/ /\ UNCHANGED <<index, cached>>
              /\ l \in {"take", "inserted", "fill"} \/ (l = "name" /\ pc[t] = "name")
              /\ l = "take" => cached < CacheCapacity
           \/ pc[t] = "take" /\ l = "grow" /\ UNCHANGED cached /\ index' = [index EXCEPT ![t] = cached + 1]
           \/ pc[t] = "grow" /\ l = "name" /\ UNCHANGED index /\ cached' = index[t]
  <2>1. CASE TestRoom(t)
    BY <2>1 DEF TestRoom, TestBelow, Inserting
  <2>2. CASE TakeEntry(t) \/ Grow(t) \/ Fill(t)
    BY <2>2 DEF TakeEntry, Grow, Fill, Inserting
  <2>3. CASE Name(t)
    <3>1. pc' = [pc EXCEPT ![t] = "fill"] \/ UNCHANGED pc
      BY <2>3 DEF Name
    <3>2. [pc EXCEPT ![t] = pc[t]] = pc
      BY <1>1
    <3> QED
      BY <2>3, <3>1, <3>2 DEF Name, Inserting
  <2> QED
    BY <2>1, <2>2, <2>3
<1>3. pc'[t] = l /\ \A u \in Clients \ {t} : pc'[u] = pc[u] /\ index'[u] = index[u]
  BY <1>1, <1>2
<1>4. Searches(t)
  BY DEF CacheInv
<1>5. Searches(t)'
  BY <1>1, <1>2, <1>3, <1>4 DEF Searches, Inserting, Searching
<1>6. ASSUME ~stray PROVE cached' <= CacheCapacity /\ Holds(t)'
  <2>1. Holds(t) /\ cached <= CacheCapacity /\ CacheCapacity \in Nat
    BY <1>6 DEF CacheInv
  <2>2. cache_lock' = t
    BY <1>1, <2>1 DEF Holds
  <2>3. CASE /\ UNCHANGED <<index, cached>>
             /\ l \in {"take", "inserted", "fill"} \/ (l = "name" /\ pc[t] = "name")
             /\ l = "take" => cached < CacheCapacity
    BY <1>3, <2>1, <2>2, <2>3 DEF Holds, Inserting
  <2>4. CASE /\ pc[t] = "take" /\ l = "grow" /\ UNCHANGED cached
             /\ index' = [index EXCEPT ![t] = cached + 1]
    <3>1. index'[t] = cached + 1
      BY <1>1, <2>4
    <3> QED
      BY <1>3, <2>1, <2>2, <2>4, <3>1 DEF Holds, Inserting
  <2>5. CASE pc[t] = "grow" /\ l = "name" /\ UNCHANGED index /\ cached' = index[t]
    BY <1>1, <1>3, <2>1, <2>2, <2>5 DEF Holds, Inserting
  <2> QED
    BY <1>2, <2>3, <2>4, <2>5
<1> QED
  BY <1>1, <1>3, <1>5, <1>6, MutexKept

LEMMA MutexStep == IInv /\ CacheInv /\ [Next]_vars => CacheInv'
<1> SUFFICES ASSUME IInv, CacheInv, [Next]_vars PROVE CacheInv'
  OBVIOUS
<1> USE DEF cacheVars
<1>0. /\ pc \in [Clients -> Labels] /\ index \in [Clients -> Nat] /\ hit \in [Clients -> BOOLEAN]
  BY DEF IInv, Types, CallTypes
<1>1. CASE UNCHANGED vars
  BY <1>1 DEF vars, callVars, CacheInv, Holds, Searches
<1>2. ASSUME NEW t \in Clients, CreateFile(t) PROVE CacheInv'
  BY <1>2 DEF CreateFile, callVars, CacheInv, Holds, Searches
<1>3. ASSUME NEW t \in Clients, Write(t) PROVE CacheInv'
  <2>1. UNCHANGED <<cached, cache_lock, served, stray, hit>>
    BY <1>3 DEF Write, StartWrite, Extend, NewBlock, LoadCount, StoreSlot, StoreCount, StoreBlock,
       EndWrite, callVars
  <2>2. PICK x : x = Extended(t) /\ x \in {"store", "extend"}
    BY DEF Extended
  <2>3. PICK l \in Writes \cup {"idle"} : pc' = [pc EXCEPT ![t] = l]
    <3>1. pc' = [pc EXCEPT ![t] = pc[t]] \/ \E l \in Writes \cup {"idle"} : pc' = [pc EXCEPT ![t] = l]
      <4>1. [pc EXCEPT ![t] = pc[t]] = pc
        BY <1>0
      <4> QED
        BY <1>3, <2>2, <4>1 DEF Write, StartWrite, Extend, NewBlock, LoadCount, StoreSlot,
           StoreCount, StoreBlock, EndWrite, Leave, Goto, Writes
    <3>2. pc[t] \in Writes \cup {"idle"}
      BY <1>3 DEF Write, StartWrite, Extend, NewBlock, LoadCount, StoreSlot, StoreCount, StoreBlock,
         EndWrite, Writes
    <3> QED
      BY <3>1, <3>2
  <2>4. UNCHANGED index \/ \E j : index' = [index EXCEPT ![t] = j]
    BY <1>3 DEF Write, StartWrite, Extend, NewBlock, LoadCount, StoreSlot, StoreCount, StoreBlock,
       EndWrite, Leave
  <2>5. pc'[t] = l /\ \A u \in Clients \ {t} : pc'[u] = pc[u] /\ index'[u] = index[u]
    BY <1>0, <2>3, <2>4
  <2> QED
    BY <2>1, <2>3, <2>5, MutexAside DEF Writes, Inserting, Searching
<1>4. ASSUME NEW t \in Clients, StartRead(t) \/ Fetch(t) \/ EndRead(t) PROVE CacheInv'
  <2>1. /\ UNCHANGED <<cached, cache_lock, served, stray>>
        /\ UNCHANGED hit \/ hit' = [hit EXCEPT ![t] = FALSE]
    BY <1>4 DEF StartRead, BeginRead, Fetch, EndRead
  <2>2. \A u \in Clients \ {t} : hit'[u] = hit[u]
    BY <1>0, <2>1, Zenon
  <2>3. hit'[t] => hit[t]
    BY <1>0, <2>1, Zenon
  <2>4. PICK l \in {"lookup", "insert", "read", "idle", "fetch"} : pc' = [pc EXCEPT ![t] = l]
    <3>1. [pc EXCEPT ![t] = pc[t]] = pc
      BY <1>0
    <3> QED
      BY <1>4, <3>1 DEF StartRead, BeginRead, Fetch, EndRead, Leave, Copy, Turn, Goto
  <2>5. UNCHANGED index \/ \E j : index' = [index EXCEPT ![t] = j]
    BY <1>4 DEF StartRead, BeginRead, Fetch, EndRead, Leave
  <2>6. pc'[t] = l /\ \A u \in Clients \ {t} : pc'[u] = pc[u] /\ index'[u] = index[u]
    BY <1>0, <2>4, <2>5
  <2> QED
    BY <2>1, <2>2, <2>3, <2>4, <2>6, MutexAside DEF Inserting, Searching
<1> QED
  BY <1>1, <1>2, <1>3, <1>4, MutexTaken, MutexReleased, MutexScan, MutexInsert DEF Next, Read

LEMMA CacheInductive == Spec => []CacheInv
<1>1. Init => CacheInv
  <2> SUFFICES ASSUME Init PROVE CacheInv
    OBVIOUS
  <2>1. ~stray /\ cached = 0 /\ \A t \in Clients : pc[t] = "idle" /\ ~hit[t]
    BY Zenon DEF Init
  <2> QED
    BY <2>1 DEF CacheInv, Holds, Searches, Inserting, Searching
<1> QED
  BY <1>1, Inductive, MutexStep, PTL DEF Spec

(* Every variable of the file system keeps its type.  The unprotected counter *)
(* of the block table never exceeds the table (a store behind it is a fault), *)
(* no slot names a block that does not exist, and the cache has no more       *)
(* entries than its array until its mutex is released by a thread that does   *)
(* not hold it: the test, the load and the store of its counter are one       *)
(* critical section, and only then.                                          *)
THEOREM TypeCorrect == Spec => []TypeOK
<1>1. IInv /\ CacheInv => TypeOK
  <2> SUFFICES ASSUME IInv, CacheInv PROVE TypeOK
    OBVIOUS
  <2>1. \A b \in 1..Len(blocks) : blocks[b] \in BlockSet
    BY ElementOfSeq DEF IInv, Types, TableTypes
  <2>2. \A b \in 1..Len(blocks) :
          /\ blocks[b].file_id \in Files /\ blocks[b].place \in Nat
          /\ blocks[b].checksum \in BOOLEAN /\ blocks[b].data \in [1..BlockSize -> Byte]
    BY <2>1 DEF BlockSet, Data
  <2>3. /\ DOMAIN entries = 1..CacheCapacity
        /\ \A j \in 1..CacheCapacity : entries[j].block_id \in 0..Len(blocks)
    BY DEF IInv, Types, CacheTypes
  <2>4. cached <= CacheCapacity \/ stray
    BY DEF CacheInv
  <2> QED
    BY <2>2, <2>3, <2>4 DEF TypeOK, IInv, Types, FileTypes, TableTypes, CacheTypes, CallTypes, Labels
<1> QED
  BY <1>1, Inductive, CacheInductive, PTL

(* A block belongs to the place of the one file that lists it, and a file's   *)
(* list reaches as far as its size, whatever the unprotected appends of the   *)
(* threads do to the table of all blocks.                                    *)
THEOREM OwnedCorrect == Spec => []BlocksOwned
<1>1. IInv => BlocksOwned
  BY DEF IInv
<1> QED
  BY <1>1, Inductive, PTL
-----------------------------------------------------------------------------
(* What a search meets.  A slot of the table that the count has passed is      *)
(* filled, or the client that has counted it is about to store into it; an     *)
(* entry that names a block has its data, or a client is about to copy it.     *)

Counting == {"link", "slot", "count"}

Filled(j) == table[j] # 0 \/ \E u \in Clients : pc[u] = "slot" /\ index[u] = j
Whole(j) == \/ entries[j].block_id = 0 \/ entries[j].data # <<>>
             \/ \E u \in Clients : pc[u] = "fill" /\ index[u] = j

Counts(t) ==
    /\ pc[t] \in Counting => \A j \in 1..(index[t] - 1) : Filled(j)
    /\ pc[t] = "count" => table[index[t]] # 0

PendingInv ==
    /\ \A j \in 1..count : Filled(j)
    /\ \A t \in Clients : Counts(t)
    /\ \A j \in 1..CacheCapacity : Whole(j)

(* A step of t keeps what is filled, and so what the others have counted.      *)
LEMMA FilledKept ==
  ASSUME IInv, NEW t \in Clients,
         \A u \in Clients \ {t} : pc'[u] = pc[u] /\ index'[u] = index[u],
         \A j \in 1..BlockCapacity : table'[j] # table[j] => table'[j] # 0,
         pc[t] = "slot" => table'[index[t]] # 0,
         NEW j \in 1..BlockCapacity, Filled(j)
  PROVE  Filled(j)'
BY DEF Filled

LEMMA PendingKept ==
  ASSUME IInv, PendingInv, NEW t \in Clients, count' \in Nat,
         \A u \in Clients \ {t} : pc'[u] = pc[u] /\ index'[u] = index[u],
         \A j \in 1..BlockCapacity : table'[j] # table[j] => table'[j] # 0,
         pc[t] = "slot" => table'[index[t]] # 0,
         \A j \in (count + 1)..count' : Filled(j)', Counts(t)',
         \A j \in 1..CacheCapacity : Whole(j)'
  PROVE  PendingInv'
<1>1. count \in 0..BlockCapacity /\ BlockCapacity \in Nat
  BY DEF IInv, Types, TableTypes
<1>2. ASSUME NEW j \in 1..count' PROVE Filled(j)'
  <2>1. CASE j <= count
    <3>1. Filled(j) /\ j \in 1..BlockCapacity
      BY <1>1, <1>2, <2>1 DEF PendingInv
    <3> QED
      BY <3>1, FilledKept
  <2>2. CASE ~(j <= count)
    BY <1>1, <1>2, <2>2
  <2> QED
    BY <2>1, <2>2
<1>3. ASSUME NEW u \in Clients \ {t} PROVE Counts(u)'
  <2>1. Counts(u) /\ pc'[u] = pc[u] /\ index'[u] = index[u]
    BY DEF PendingInv
  <2>2. pc[u] \in Counting => index[u] \in 1..BlockCapacity
    BY DEF IInv, ClientInv, Client, Counting
  <2>3. ASSUME pc[u] \in Counting, NEW j \in 1..(index[u] - 1) PROVE Filled(j)'
    <3>1. Filled(j) /\ j \in 1..BlockCapacity
      BY <1>1, <2>1, <2>2, <2>3 DEF Counts
    <3> QED
      BY <3>1, FilledKept
  <2>4. pc[u] = "count" => table'[index[u]] # 0
    BY <2>1, <2>2 DEF Counts, Counting
  <2> QED
    BY <2>1, <2>3, <2>4 DEF Counts
<1> QED
  BY <1>2, <1>3 DEF PendingInv

(* A step that stores into neither of them.                                  *)
LEMMA PendingAside ==
  ASSUME IInv, PendingInv, NEW t \in Clients, UNCHANGED <<table, count, entries>>,
         \A u \in Clients \ {t} : pc'[u] = pc[u] /\ index'[u] = index[u],
         pc[t] \notin {"link", "slot", "count", "fill"},
         pc'[t] \in Counting => pc'[t] = "link" /\ index'[t] = count + 1
  PROVE  PendingInv'
<1>1. count' \in Nat /\ \A j \in (count + 1)..count' : FALSE
  BY DEF IInv, Types, TableTypes
<1>2. count \in 0..BlockCapacity /\ \A j \in 1..count : Filled(j)
  BY DEF IInv, Types, TableTypes, PendingInv
<1>3. \A j \in 1..count : Filled(j)'
  BY <1>2 DEF Filled
<1>4. Counts(t)'
  BY <1>2, <1>3 DEF Counts, Counting
<1>5. \A j \in 1..CacheCapacity : Whole(j)'
  BY DEF PendingInv, Whole
<1> QED
  BY <1>1, <1>4, <1>5, PendingKept

(* The two stores of an append.                                              *)
LEMMA PendingAppend ==
  ASSUME IInv, PendingInv, NEW t \in Clients, StoreSlot(t) \/ StoreCount(t)
  PROVE  PendingInv'
<1> USE DEF cacheVars, Goto
<1>1. /\ pc \in [Clients -> Labels] /\ UNCHANGED <<index, entries>>
      /\ table \in [1..BlockCapacity -> 0..Len(blocks)] /\ count \in Nat
      /\ index[t] \in 1..BlockCapacity /\ pc[t] \in Counting /\ Counts(t)
  BY DEF StoreSlot, StoreCount, IInv, ClientInv, Client, Types, CallTypes, TableTypes, Counting,
         PendingInv
<1>2. PICK b, x : b = list[call[t].file][Len(list[call[t].file])] /\ x = Extended(t)
  OBVIOUS
<1>3. b # 0 /\ x \in {"store", "extend"}
  <2>1. call[t].file \in Files /\ Blocks(t) > 0
    BY <1>1 DEF IInv, ClientInv, Client, Counting
  <2>2. list[call[t].file] \in Seq(1..Len(blocks)) /\ Len(list[call[t].file]) \in Nat
    BY <2>1, LenProperties DEF IInv, Types, FileTypes
  <2>3. b \in 1..Len(blocks)
    BY <1>2, <2>1, <2>2, ElementOfSeq DEF Blocks
  <2> QED
    BY <1>2, <2>3 DEF Extended
<1>4. \A j \in 1..CacheCapacity : Whole(j)'
  <2>1. \A u \in Clients : pc[u] = "fill" => pc'[u] = "fill"
    BY <1>1 DEF StoreSlot, StoreCount, Counting
  <2> QED
    BY <1>1, <2>1 DEF PendingInv, Whole
<1>5. CASE StoreSlot(t)
  <2>1. /\ pc[t] \in {"link", "slot"} /\ table' = [table EXCEPT ![index[t]] = b] /\ UNCHANGED count
        /\ pc' = [pc EXCEPT ![t] = IF pc[t] = "link" THEN "count" ELSE x]
    BY <1>2, <1>5 DEF StoreSlot
  <2>2. /\ table'[index[t]] = b
        /\ \A j \in 1..BlockCapacity : table'[j] # table[j] => table'[j] = b
    BY <1>1, <2>1
  <2>3. /\ pc'[t] \in {"count", "store", "extend"} /\ \A u \in Clients \ {t} : pc'[u] = pc[u]
    BY <1>1, <1>3, <2>1
  <2>4. \A j \in 1..(index[t] - 1) : Filled(j)'
    <3> SUFFICES ASSUME NEW j \in 1..(index[t] - 1) PROVE Filled(j)'
      OBVIOUS
    <3>1. Filled(j) /\ j \in 1..BlockCapacity
      BY <1>1 DEF Counts
    <3> QED
      BY <1>1, <1>3, <2>2, <2>3, <3>1, FilledKept
  <2>5. Counts(t)'
    BY <1>1, <1>3, <2>2, <2>3, <2>4 DEF Counts
  <2>6. \A j \in (count + 1)..count' : Filled(j)'
    BY <1>1, <2>1
  <2> QED
    BY <1>1, <1>3, <1>4, <2>1, <2>2, <2>3, <2>5, <2>6, PendingKept
<1>6. CASE StoreCount(t)
  <2>1. /\ pc[t] \in {"link", "count"} /\ count' = index[t] /\ UNCHANGED table
        /\ pc' = [pc EXCEPT ![t] = IF pc[t] = "link" THEN "slot" ELSE x]
    BY <1>2, <1>6 DEF StoreCount
  <2>2. /\ pc'[t] \in {"slot", "store", "extend"} /\ (pc[t] = "link" => pc'[t] = "slot")
        /\ \A u \in Clients \ {t} : pc'[u] = pc[u]
    BY <1>1, <1>3, <2>1
  <2>3. \A j \in 1..(index[t] - 1) : Filled(j)'
    <3> SUFFICES ASSUME NEW j \in 1..(index[t] - 1) PROVE Filled(j)'
      OBVIOUS
    <3>1. Filled(j) /\ j \in 1..BlockCapacity
      BY <1>1 DEF Counts
    <3> QED
      BY <1>1, <2>1, <2>2, <3>1, FilledKept
  <2>4. \A j \in (count + 1)..count' : Filled(j)'
    <3> SUFFICES ASSUME NEW j \in (count + 1)..count' PROVE Filled(j)'
      OBVIOUS
    <3>1. PICK k : k = index[t]
      OBVIOUS
    <3>2. j \in 1..(index[t] - 1) \/ j = k
      BY <1>1, <2>1, <3>1
    <3>3. Filled(k)'
      <4>1. CASE pc[t] = "link"
        BY <1>1, <2>2, <3>1, <4>1 DEF Filled
      <4>2. CASE pc[t] = "count"
        BY <1>1, <2>1, <3>1, <4>2 DEF Filled, Counts
      <4> QED
        BY <2>1, <4>1, <4>2
    <3> QED
      BY <2>3, <3>2, <3>3
  <2>5. Counts(t)'
    BY <1>1, <2>2, <2>3 DEF Counts
  <2> QED
    BY <1>1, <1>4, <2>1, <2>2, <2>4, <2>5, PendingKept
<1> QED
  BY <1>5, <1>6

(* The two stores of an insertion.                                           *)
LEMMA PendingEntry ==
  ASSUME IInv, PendingInv, NEW t \in Clients, Name(t) \/ Fill(t)
  PROVE  PendingInv'
<1> USE DEF Goto
<1>1. /\ UNCHANGED <<table, count, index>> /\ pc[t] \in {"name", "fill"}
      /\ pc \in [Clients -> Labels] /\ index[t] \in Nat \ {0} /\ blocks[Id(t)].data # <<>>
  <2>1. UNCHANGED <<table, count, index>> /\ pc[t] \in {"name", "fill"}
    BY DEF Name, Fill, blockVars
  <2>2. Client(t) /\ index[t] \in Nat /\ blocks[Id(t)].data \in Data
    BY <2>1, BlockRead DEF Reads
  <2>3. Len(blocks[Id(t)].data) = BlockSize
    BY <2>2, LenProperties, SeqDef DEF Data
  <2> QED
    BY <2>1, <2>2, <2>3 DEF Client, IInv, Types, CallTypes
<1>2. /\ pc'[t] \in {"name", "fill", "inserted"} /\ \A u \in Clients \ {t} : pc'[u] = pc[u]
  <2>1. pc' = pc \/ pc' = [pc EXCEPT ![t] = "fill"] \/ pc' = [pc EXCEPT ![t] = "inserted"]
    BY DEF Name, Fill
  <2> QED
    BY <1>1, <2>1
<1>3. PICK id, d : id = Id(t) /\ d = blocks[Id(t)].data
  OBVIOUS
<1>4. /\ entries \in [1..CacheCapacity -> [block_id : 0..Len(blocks), data : Data \cup {<<>>}]]
      /\ \A j \in 1..CacheCapacity : Whole(j)
  BY DEF IInv, Types, CacheTypes, PendingInv
<1>5. \A j \in 1..CacheCapacity : Whole(j)'
  <2> SUFFICES ASSUME NEW j \in 1..CacheCapacity PROVE Whole(j)'
    OBVIOUS
  <2>1. CASE Name(t) /\ index[t] <= CacheCapacity
    <3>1. /\ entries' = [entries EXCEPT ![index[t]] =
                            [block_id |-> id, data |-> entries[index[t]].data]]
          /\ pc' = [pc EXCEPT ![t] = "fill"] /\ pc[t] = "name"
      BY <1>1, <1>3, <2>1 DEF Name
    <3>2. pc'[t] = "fill"
      BY <1>1, <3>1
    <3>3. CASE j = index[t]
      BY <1>1, <3>2, <3>3 DEF Whole
    <3>4. CASE j # index[t]
      <4>1. entries'[j] = entries[j]
        BY <1>4, <3>1, <3>4
      <4> QED
        BY <1>1, <1>2, <1>4, <3>1, <4>1 DEF Whole
    <3> QED
      BY <3>3, <3>4
  <2>2. CASE Name(t) /\ ~(index[t] <= CacheCapacity)
    <3>1. UNCHANGED <<entries, pc, index>>
      BY <1>1, <2>2 DEF Name
    <3> QED
      BY <1>4, <3>1 DEF Whole
  <2>3. CASE Fill(t)
    <3>1. /\ entries' = [entries EXCEPT ![index[t]] =
                            [block_id |-> entries[index[t]].block_id, data |-> d]]
          /\ d # <<>> /\ pc[t] = "fill"
      BY <1>1, <1>3, <2>3 DEF Fill
    <3>2. CASE j = index[t]
      <4>1. entries'[j].data = d
        BY <1>4, <3>1, <3>2
      <4> QED
        BY <3>1, <4>1 DEF Whole
    <3>3. CASE j # index[t]
      <4>1. entries'[j] = entries[j]
        BY <1>4, <3>1, <3>3
      <4>2. CASE entries[j].block_id = 0 \/ entries[j].data # <<>>
        BY <4>1, <4>2 DEF Whole
      <4>3. CASE ~(entries[j].block_id = 0 \/ entries[j].data # <<>>)
        <5>1. PICK u \in Clients : pc[u] = "fill" /\ index[u] = j
          BY <1>4, <4>3 DEF Whole
        <5>2. u # t /\ pc'[u] = "fill" /\ index'[u] = j
          BY <1>1, <1>2, <3>3, <5>1
        <5> QED
          BY <5>2 DEF Whole
      <4> QED
        BY <4>2, <4>3
    <3> QED
      BY <3>2, <3>3
  <2> QED
    BY <2>1, <2>2, <2>3
<1>6. Counts(t)' /\ count' \in Nat /\ \A j \in (count + 1)..count' : FALSE
  BY <1>1, <1>2 DEF Counts, Counting, IInv, Types, TableTypes
<1> QED
  BY <1>1, <1>2, <1>5, <1>6, PendingKept

LEMMA PendingStep == IInv /\ PendingInv /\ [Next]_vars => PendingInv'
<1> SUFFICES ASSUME IInv, PendingInv, [Next]_vars PROVE PendingInv'
  OBVIOUS
<1> USE DEF blockVars, cacheVars
<1>0. pc \in [Clients -> Labels] /\ index \in [Clients -> Nat]
  BY DEF IInv, Types, CallTypes
<1>1. CASE UNCHANGED <<table, count, entries, pc, index>>
  BY <1>1 DEF PendingInv, Filled, Whole, Counts
<1>2. ASSUME NEW t \in Clients,
             \/ StartWrite(t) \/ Extend(t) \/ StoreBlock(t) \/ EndWrite(t)
             \/ StartRead(t) \/ Lookup(t) \/ Scan(t) \/ Unlock(t) \/ Fetch(t) \/ InsertLock(t)
             \/ TestRoom(t) \/ TakeEntry(t) \/ Grow(t) \/ EndRead(t)
      PROVE  PendingInv'
  <2> USE DEF callVars, Goto, Leave, Turn, Copy
  <2>0. [pc EXCEPT ![t] = pc[t]] = pc /\ [index EXCEPT ![t] = index[t]] = index
    BY <1>0
  <2>1. /\ UNCHANGED <<table, count, entries>> /\ pc[t] \notin {"link", "slot", "count", "fill"}
        /\ \E l \in Labels \ Counting : pc' = [pc EXCEPT ![t] = l]
        /\ \E j : index' = [index EXCEPT ![t] = j]
    <3>1. CASE StartWrite(t) \/ Extend(t) \/ StoreBlock(t) \/ EndWrite(t)
      BY <2>0, <3>1 DEF StartWrite, Extend, NewBlock, StoreBlock, EndWrite, Labels, Writes, Reads,
         Counting
    <3>2. CASE StartRead(t) \/ Lookup(t) \/ Scan(t) \/ Unlock(t) \/ Fetch(t)
      BY <2>0, <3>2 DEF StartRead, BeginRead, Lookup, Scan, Unlock, Fetch, Labels, Writes, Reads,
         Counting
    <3>3. CASE InsertLock(t) \/ TestRoom(t) \/ TakeEntry(t) \/ Grow(t) \/ EndRead(t)
      BY <2>0, <3>3 DEF InsertLock, TestRoom, TestBelow, TakeEntry, Grow, EndRead, Labels, Writes,
         Reads, Counting
    <3> QED
      BY <1>2, <3>1, <3>2, <3>3
  <2> QED
    BY <1>0, <2>1, PendingAside
<1>3. ASSUME NEW t \in Clients, LoadCount(t) PROVE PendingInv'
  <2>1. /\ pc[t] = "load" /\ UNCHANGED <<table, count, entries>>
        /\ \/ pc' = [pc EXCEPT ![t] = "link"] /\ index' = [index EXCEPT ![t] = count + 1]
           \/ UNCHANGED <<pc, index>>
    BY <1>3 DEF LoadCount, Goto
  <2>2. CASE pc' = [pc EXCEPT ![t] = "link"] /\ index' = [index EXCEPT ![t] = count + 1]
    BY <1>0, <2>1, <2>2, PendingAside
  <2>3. CASE UNCHANGED <<pc, index>>
    BY <1>1, <2>1, <2>3
  <2> QED
    BY <2>1, <2>2, <2>3
<1>4. CASE Next
  <2>1. PICK t \in Clients : CreateFile(t) \/ Write(t) \/ Read(t)
    BY <1>4 DEF Next
  <2>2. CASE CreateFile(t)
    BY <1>1, <2>2 DEF CreateFile
  <2> QED
    BY <1>2, <1>3, <2>1, <2>2, PendingAppend, PendingEntry DEF Write, Read
<1> QED
  BY <1>1, <1>4 DEF vars

LEMMA PendingInductive == Spec => []PendingInv
<1>1. Init => PendingInv
  BY DEF Init, PendingInv, Filled, Whole, Counts, Counting
<1> QED
  BY <1>1, Inductive, PendingStep, PTL DEF Spec

-----------------------------------------------------------------------------
(* What a read returns.  First the places of a call's bytes in its file.    *)

LEMMA Divided ==
  ASSUME NEW a \in Nat, NEW b \in Nat \ {0}
  PROVE  /\ a = ((a \div b) * b) + (a % b) /\ a \div b \in Nat /\ a % b \in Nat /\ a % b < b
         /\ (a \div b) * b \in Nat
BY SMT

LEMMA Multiples ==
  ASSUME NEW i \in Nat, NEW j \in Nat, i < j
  PROVE  i * BlockSize \in Nat /\ i * BlockSize + BlockSize <= j * BlockSize
<1>1. (i + 1) * BlockSize = i * BlockSize + BlockSize /\ i * BlockSize \in Nat
  BY SMT
<1>2. PICK d \in Nat : j = (i + 1) + d
  <2>1. j - (i + 1) \in Nat /\ j = (i + 1) + (j - (i + 1))
    OBVIOUS
  <2> QED
    BY <2>1
<1>3. j * BlockSize = (i + 1) * BlockSize + d * BlockSize /\ d * BlockSize \in Nat
  BY <1>2, SMT
<1> QED
  BY <1>1, <1>3

LEMMA Quotient ==
  ASSUME NEW q \in Nat, NEW r \in 0..(BlockSize - 1), NEW a \in Nat, a = q * BlockSize + r
  PROVE  a \div BlockSize = q /\ a % BlockSize = r
<1>1. PICK p \in Nat, s \in Nat : p = a \div BlockSize /\ s = a % BlockSize
  BY Divided
<1>2. a = p * BlockSize + s /\ s < BlockSize
  BY <1>1, Divided
<1>3. p * BlockSize \in Nat /\ q * BlockSize \in Nat
  OBVIOUS
<1>4. ~(p < q) /\ ~(q < p)
  BY <1>2, <1>3, Multiples
<1> QED
  BY <1>1, <1>2, <1>4

(* How many bytes of a call come before block i of its file.                 *)
Reach(c, i) == IF i <= FirstBlock(c) THEN 0
               ELSE IF i > LastBlock(c) THEN c.size ELSE i * BlockSize - c.offset

(* It grows from nothing to the size of the call.                            *)
LEMMA ReachGrows ==
  ASSUME NEW c \in CallSet, c.size > 0, NEW i \in Nat
  PROVE  /\ Reach(c, i) \in Nat /\ Reach(c, i) <= Reach(c, i + 1) /\ Reach(c, i) <= c.size
         /\ Reach(c, FirstBlock(c)) = 0 /\ Reach(c, LastBlock(c) + 1) = c.size
<1>1. PICK o \in Nat, e \in Nat : o = c.offset /\ e = c.offset + c.size - 1
  BY DEF CallSet
<1>2. PICK F \in Nat, L \in Nat : F = o \div BlockSize /\ L = e \div BlockSize
  BY Divided
<1>3. F = FirstBlock(c) /\ L = LastBlock(c)
  BY <1>1, <1>2 DEF FirstBlock, LastBlock
<1>4. PICK FB \in Nat, LB \in Nat : FB = F * BlockSize /\ LB = L * BlockSize
  OBVIOUS
<1>5. FB <= o /\ o < FB + BlockSize /\ LB <= e
  BY <1>2, <1>4, Divided
<1>6. F <= L
  BY <1>3, CallBlocks
<1>7. ASSUME NEW j \in Nat, F < j
      PROVE  j * BlockSize \in Nat /\ j * BlockSize > o /\ (j <= L => j * BlockSize <= LB)
  <2>1. F * BlockSize + BlockSize <= j * BlockSize /\ j * BlockSize \in Nat
    BY <1>7, Multiples
  <2>2. j < L => j * BlockSize + BlockSize <= L * BlockSize
    BY Multiples
  <2>3. j = L => j * BlockSize = LB
    BY <1>4
  <2> QED
    BY <1>4, <1>5, <2>1, <2>2, <2>3
<1>8. i * BlockSize <= (i + 1) * BlockSize /\ i * BlockSize \in Nat
  <2>1. i < i + 1 /\ i + 1 \in Nat
    OBVIOUS
  <2>2. i * BlockSize + BlockSize <= (i + 1) * BlockSize /\ i * BlockSize \in Nat
    BY <2>1, Multiples
  <2> QED
    BY <2>2
<1>9. c.size \in Nat /\ c.size = e + 1 - o
  BY <1>1 DEF CallSet
<1>10. ASSUME NEW j \in Nat PROVE Reach(c, j) \in Nat /\ Reach(c, j) <= c.size
  <2>1. F < j => j * BlockSize \in Nat /\ j * BlockSize > o /\ (j <= L => j * BlockSize <= LB)
    BY <1>7
  <2> QED
    BY <1>1, <1>3, <1>5, <1>9, <2>1 DEF Reach
<1>11. Reach(c, i) <= Reach(c, i + 1)
  <2>1. Reach(c, i + 1) \in Nat /\ Reach(c, i) <= c.size
    BY <1>10
  <2>2. PICK ib \in Nat, jb \in Nat : ib = i * BlockSize /\ jb = (i + 1) * BlockSize /\ ib <= jb
    BY <1>8
  <2> QED
    BY <1>1, <1>3, <1>9, <2>1, <2>2 DEF Reach
<1> QED
  BY <1>3, <1>6, <1>10, <1>11 DEF Reach

(* Where the piece of block i begins, in the file and in the call's buffer.   *)
LEMMA PieceReach ==
  ASSUME NEW c \in CallSet, c.size > 0, NEW i \in Nat, FirstBlock(c) <= i, i <= LastBlock(c),
         PieceSize(c, i) >= 0
  PROVE  /\ i * BlockSize \in Nat /\ PieceSize(c, i) \in Nat /\ BlockOffset(c, i) \in Nat
         /\ i * BlockSize + BlockOffset(c, i) = c.offset + Reach(c, i)
         /\ BlockOffset(c, i) + PieceSize(c, i) <= BlockSize
         /\ Reach(c, i + 1) = Reach(c, i) + PieceSize(c, i)
<1>1. PICK o \in Nat, e \in Nat : o = c.offset /\ e = c.offset + c.size - 1
  BY DEF CallSet
<1>2. PICK F \in Nat, L \in Nat, p \in Nat, q \in Nat :
        F = o \div BlockSize /\ L = e \div BlockSize /\ p = o % BlockSize /\ q = e % BlockSize
  BY Divided
<1>3. F = FirstBlock(c) /\ L = LastBlock(c)
  BY <1>1, <1>2 DEF FirstBlock, LastBlock
<1>4. PICK FB \in Nat, LB \in Nat, ib \in Nat, jb \in Nat :
        FB = F * BlockSize /\ LB = L * BlockSize /\ ib = i * BlockSize /\ jb = (i + 1) * BlockSize
  OBVIOUS
<1>5. o = FB + p /\ p < BlockSize /\ e = LB + q /\ q < BlockSize
  BY <1>2, <1>4, Divided
<1>6. jb = ib + BlockSize
  BY <1>4, SMT
<1>7. (e + 1) % BlockSize = IF q + 1 = BlockSize THEN 0 ELSE q + 1
  <2>1. CASE q + 1 = BlockSize
    <3>1. e + 1 = (L + 1) * BlockSize + 0
      <4>1. (L + 1) * BlockSize = LB + BlockSize
        BY <1>4, SMT
      <4> QED
        BY <1>5, <2>1, <4>1
    <3>2. PICK a \in Nat, k \in Nat : a = e + 1 /\ k = L + 1
      OBVIOUS
    <3>3. a = k * BlockSize + 0 /\ 0 \in 0..(BlockSize - 1)
      BY <3>1, <3>2
    <3>4. a % BlockSize = 0
      BY <3>3, Quotient
    <3>5. (e + 1) % BlockSize = 0
      BY <3>2, <3>4
    <3> QED
      BY <2>1, <3>5
  <2>2. CASE q + 1 # BlockSize
    <3>1. PICK a \in Nat, r \in 0..(BlockSize - 1) : a = e + 1 /\ r = q + 1
      BY <1>5, <2>2
    <3>2. a = L * BlockSize + r
      BY <1>4, <1>5, <3>1
    <3>3. a % BlockSize = r
      BY <3>2, Quotient
    <3> QED
      BY <2>2, <3>1, <3>3
  <2> QED
    BY <2>1, <2>2
<1>8. PICK m \in Nat : m = (e + 1) % BlockSize
  BY <1>5, <1>7
<1>9. c.offset + c.size = e + 1 /\ c.size = e + 1 - o /\ c.size \in Nat /\ o <= e
  BY <1>1 DEF CallSet
<1>10. BlockOffset(c, i) = IF i = F THEN p ELSE 0
  BY <1>1, <1>2, <1>3 DEF BlockOffset
<1>11. PICK b \in Nat : b = BlockOffset(c, i)
  BY <1>10
<1>12. PieceSize(c, i) = IF i # L \/ m - b = 0 THEN BlockSize - b ELSE m - b
  BY <1>3, <1>8, <1>9, <1>11 DEF PieceSize
<1>13. /\ i = F => ib = FB
       /\ i = L => ib = LB
       /\ F < i => FB + BlockSize <= ib
       /\ i < L => jb <= LB
  <2>1. F < i => F * BlockSize + BlockSize <= i * BlockSize
    BY Multiples
  <2>2. i < L => i * BlockSize + BlockSize <= L * BlockSize
    BY Multiples
  <2> QED
    BY <1>4, <1>6, <2>1, <2>2
<1>14. Reach(c, i) = IF i = F THEN 0 ELSE ib - o
  BY <1>1, <1>3, <1>4 DEF Reach
<1>15. Reach(c, i + 1) = IF i = L THEN e + 1 - o ELSE jb - o
  <2>1. PICK j \in Nat : j = i + 1
    OBVIOUS
  <2>2. Reach(c, j) = IF j <= F THEN 0 ELSE IF j > L THEN e + 1 - o ELSE jb - o
    BY <1>1, <1>3, <1>4, <1>9, <2>1 DEF Reach
  <2> QED
    BY <1>3, <2>1, <2>2
<1>16. /\ PieceSize(c, i) \in Nat /\ ib + b = o + Reach(c, i) /\ b + PieceSize(c, i) <= BlockSize
  <2>1. ib + b = o + Reach(c, i)
    BY <1>3, <1>5, <1>10, <1>11, <1>13, <1>14
  <2>2. b <= BlockSize
    BY <1>5, <1>10, <1>11
  <2>3. m <= BlockSize
    BY <1>5, <1>7, <1>8
  <2> QED
    BY <1>12, <2>1, <2>2, <2>3
<1>17. Reach(c, i + 1) = Reach(c, i) + PieceSize(c, i)
  <2>1. CASE i # L
    <3>1. PieceSize(c, i) = BlockSize - b
      BY <1>12, <2>1
    <3> QED
      BY <1>6, <1>15, <1>16, <2>1, <3>1, <1>14
  <2>2. CASE i = L
    <3>1. m = IF q + 1 = BlockSize THEN 0 ELSE q + 1
      BY <1>7, <1>8
    <3> QED
      BY <1>3, <1>5, <1>9, <1>10, <1>11, <1>12, <1>13, <1>14, <1>15, <1>16, <2>2, <3>1
  <2> QED
    BY <2>1, <2>2
<1> QED
  BY <1>1, <1>4, <1>11, <1>16, <1>17

-----------------------------------------------------------------------------
(* The lock of a file is held by the clients that are at work on it, by one  *)
(* writer or by readers.                                                    *)

LockInv ==
    /\ \A f \in Files, t \in Clients :
        /\ writer[f] = t <=> pc[t] \in Writes /\ call[t].file = f
        /\ t \in readers[f] <=> pc[t] \in Reads /\ call[t].file = f
    /\ \A f \in Files : writer[f] # NoClient => readers[f] = {}

(* A client goes on with its call, or stays without one.                      *)
LEMMA LockWithin ==
  ASSUME LockInv, NEW t \in Clients, UNCHANGED <<writer, readers>>,
         pc'[t] \in Writes <=> pc[t] \in Writes, pc'[t] \in Reads <=> pc[t] \in Reads,
         pc[t] # "idle" => call'[t] = call[t],
         \A u \in Clients \ {t} : pc'[u] = pc[u] /\ call'[u] = call[u]
  PROVE  LockInv'
<1>1. ASSUME NEW f \in Files, NEW u \in Clients
      PROVE  /\ writer'[f] = u <=> pc'[u] \in Writes /\ call'[u].file = f
             /\ u \in readers'[f] <=> pc'[u] \in Reads /\ call'[u].file = f
  <2>1. /\ writer[f] = u <=> pc[u] \in Writes /\ call[u].file = f
        /\ u \in readers[f] <=> pc[u] \in Reads /\ call[u].file = f
    BY DEF LockInv
  <2>2. CASE u = t
    BY <2>1, <2>2 DEF Writes, Reads
  <2>3. CASE u # t
    BY <2>1, <2>3
  <2> QED
    BY <2>2, <2>3
<1> QED
  BY <1>1 DEF LockInv

(* What a client does between taking the lock and releasing it.               *)
WithinWrite(t) == Extend(t) \/ LoadCount(t) \/ StoreSlot(t) \/ StoreCount(t) \/ StoreBlock(t)
WithinRead(t)  == Lookup(t) \/ Scan(t) \/ Unlock(t) \/ Fetch(t) \/ InsertLock(t) \/ TestRoom(t)
                  \/ TakeEntry(t) \/ Grow(t) \/ Name(t) \/ Fill(t)
Within(t)      == WithinWrite(t) \/ WithinRead(t)

LEMMA WithinCall ==
  ASSUME IInv, NEW t \in Clients, Within(t)
  PROVE  /\ UNCHANGED <<size, writer, readers, content, short, call>>
         /\ pc[t] # "idle" /\ pc'[t] \in Labels
         /\ pc'[t] \in Writes <=> pc[t] \in Writes
         /\ pc'[t] \in Reads <=> pc[t] \in Reads
         /\ \A u \in Clients \ {t} : pc'[u] = pc[u]
<1> USE DEF fileVars, blockVars, cacheVars, callVars, Goto
<1>0. pc \in [Clients -> Labels]
  BY DEF IInv, Types, CallTypes
<1>1. PICK x : x = Extended(t)
  OBVIOUS
<1>2. x \in {"store", "extend"}
  BY <1>1 DEF Extended
<1>3. [pc EXCEPT ![t] = pc[t]] = pc
  BY <1>0
<1>4. CASE WithinWrite(t)
  <2>1. UNCHANGED <<size, writer, readers, content, short, call>> /\ pc[t] \in Writes
    BY <1>4 DEF WithinWrite, Extend, NewBlock, LoadCount, StoreSlot, StoreCount, StoreBlock, Writes
  <2>2. PICK l \in Writes : pc' = [pc EXCEPT ![t] = l]
    BY <1>1, <1>2, <1>3, <1>4
       DEF WithinWrite, Extend, NewBlock, LoadCount, StoreSlot, StoreCount, StoreBlock, Writes
  <2>3. pc'[t] = l /\ \A u \in Clients \ {t} : pc'[u] = pc[u]
    BY <1>0, <2>2
  <2> QED
    BY <2>1, <2>2, <2>3 DEF Writes, Reads, Labels
<1>5. CASE WithinRead(t)
  <2>1. UNCHANGED <<size, writer, readers, content, short, call>> /\ pc[t] \in Reads
    BY <1>5 DEF WithinRead, Lookup, Scan, Unlock, Fetch, InsertLock, TestRoom, TestBelow, TakeEntry,
       Grow, Name, Fill, Reads
  <2>2. PICK l \in Reads : pc' = [pc EXCEPT ![t] = l]
    <3>1. CASE Lookup(t) \/ Scan(t) \/ Unlock(t) \/ Fetch(t)
      BY <1>3, <2>1, <3>1 DEF Lookup, Scan, Unlock, Fetch, Turn, Copy, Reads
    <3>2. CASE InsertLock(t) \/ TestRoom(t) \/ TakeEntry(t) \/ Grow(t) \/ Name(t) \/ Fill(t)
      BY <1>3, <2>1, <3>2 DEF InsertLock, TestRoom, TestBelow, TakeEntry, Grow, Name, Fill, Reads
    <3> QED
      BY <1>5, <3>1, <3>2 DEF WithinRead
  <2>3. pc'[t] \in Reads /\ \A u \in Clients \ {t} : pc'[u] = pc[u]
    BY <1>0, <2>1, <2>2
  <2> QED
    BY <2>1, <2>3 DEF Writes, Reads, Labels
<1> QED
  BY <1>4, <1>5 DEF Within

LEMMA LockStep ==
  ASSUME IInv, LockInv, NEW t \in Clients, Write(t) \/ Read(t)
  PROVE  LockInv'
<1> USE DEF fileVars, blockVars, cacheVars, callVars, Goto
<1>0. /\ pc \in [Clients -> Labels] /\ call \in [Clients -> CallSet]
      /\ writer \in [Files -> Clients \cup {NoClient}] /\ readers \in [Files -> SUBSET Clients]
  BY DEF IInv, Types, CallTypes, FileTypes
<1>1. CASE Within(t)
  BY <1>1, WithinCall, LockWithin
<1>2. CASE StartWrite(t)
  <2>0. PICK f \in 1..files, r \in Ranges, v \in Values :
          /\ writer[f] = NoClient /\ readers[f] = {}
          /\ call' = [call EXCEPT ![t] = Arguments(f, r, v)]
          /\ \/ /\ \/ pc' = [pc EXCEPT ![t] = "store"]
                   \/ pc' = [pc EXCEPT ![t] = "extend"]
                /\ writer' = [writer EXCEPT ![f] = t]
             \/ UNCHANGED <<pc, writer>>
    BY <1>2, Zenon DEF StartWrite
  <2>1. PICK c : c = Arguments(f, r, v) /\ call' = [call EXCEPT ![t] = c]
    BY <2>0
  <2>2. /\ f \in Files /\ c.file = f /\ call'[t] = c /\ pc[t] = "idle" /\ UNCHANGED readers
        /\ \A u \in Clients \ {t} : call'[u] = call[u]
    BY <1>0, <1>2, <2>1 DEF StartWrite, Arguments, IInv, Types, FileTypes, Files
  <2>3. CASE UNCHANGED <<pc, writer>>
    BY <2>2, <2>3, LockWithin
  <2>4. CASE /\ \/ pc' = [pc EXCEPT ![t] = "store"]
                \/ pc' = [pc EXCEPT ![t] = "extend"]
             /\ writer' = [writer EXCEPT ![f] = t]
    <3>1. /\ pc'[t] \in {"store", "extend"} /\ \A u \in Clients \ {t} : pc'[u] = pc[u]
          /\ writer'[f] = t /\ \A g \in Files \ {f} : writer'[g] = writer[g]
      BY <1>0, <2>2, <2>4
    <3> QED
      BY <2>0, <2>1, <2>2, <3>1, SMTT(30) DEF LockInv, Writes, Reads
  <2> QED
    BY <2>0, <2>3, <2>4
<1>3. CASE EndWrite(t)
  <2>1. PICK f : f = call[t].file
    OBVIOUS
  <2>2. /\ f \in Files /\ writer' = [writer EXCEPT ![f] = NoClient] /\ UNCHANGED readers
        /\ pc[t] = "written" /\ pc' = [pc EXCEPT ![t] = "idle"]
        /\ call' = [call EXCEPT ![t] = NoCall]
    BY <1>3, <2>1 DEF EndWrite, Leave, IInv, ClientInv, Client
  <2>3. /\ pc'[t] = "idle" /\ \A u \in Clients \ {t} : pc'[u] = pc[u] /\ call'[u] = call[u]
        /\ writer'[f] = NoClient /\ \A g \in Files \ {f} : writer'[g] = writer[g]
    BY <1>0, <2>2
  <2>4. writer[f] = t
    BY <2>1, <2>2 DEF LockInv, Writes
  <2> QED
    BY <2>1, <2>2, <2>3, <2>4, SMTT(30) DEF LockInv, Writes, Reads
<1>4. CASE StartRead(t)
  <2>1. PICK f \in 1..files : writer[f] = NoClient /\ BeginRead(t, f)
    BY <1>4 DEF StartRead
  <2>2. PICK r, n, c : c = [Arguments(f, r, 0) EXCEPT !.size = n] /\ call' = [call EXCEPT ![t] = c]
    BY <2>1, Zenon DEF BeginRead
  <2>3. /\ f \in Files /\ c.file = f /\ pc[t] = "idle" /\ pc' = [pc EXCEPT ![t] = "lookup"]
        /\ UNCHANGED writer /\ readers' = [readers EXCEPT ![f] = readers[f] \cup {t}]
    BY <2>1, <2>2 DEF BeginRead, Arguments, IInv, Types, FileTypes, Files
  <2>4. /\ pc'[t] = "lookup" /\ \A u \in Clients \ {t} : pc'[u] = pc[u]
        /\ call'[t] = c /\ \A u \in Clients \ {t} : call'[u] = call[u]
        /\ readers'[f] = readers[f] \cup {t} /\ \A g \in Files \ {f} : readers'[g] = readers[g]
    BY <1>0, <2>2, <2>3
  <2> QED
    BY <2>1, <2>3, <2>4, SMTT(30) DEF LockInv, Writes, Reads
<1>5. CASE EndRead(t)
  <2>1. PICK f : f = call[t].file
    OBVIOUS
  <2>2. /\ f \in Files /\ readers' = [readers EXCEPT ![f] = readers[f] \ {t}]
        /\ UNCHANGED writer /\ pc[t] = "read" /\ pc' = [pc EXCEPT ![t] = "idle"]
        /\ call' = [call EXCEPT ![t] = NoCall]
    BY <1>5, <2>1 DEF EndRead, Leave, IInv, ClientInv, Client
  <2>3. /\ pc'[t] = "idle" /\ \A u \in Clients \ {t} : pc'[u] = pc[u] /\ call'[u] = call[u]
        /\ readers'[f] = readers[f] \ {t} /\ \A g \in Files \ {f} : readers'[g] = readers[g]
    BY <1>0, <2>2
  <2> QED
    BY <2>1, <2>2, <2>3, SMTT(30) DEF LockInv, Writes, Reads
<1> QED
  BY <1>1, <1>2, <1>3, <1>4, <1>5 DEF Within, WithinWrite, WithinRead, Write, Read

(* What was written has the size of the file.                                *)
HistoryInv ==
    /\ content \in [Files -> Seq(Byte)] /\ short \in [Files -> BOOLEAN]
    /\ \A f \in Files : Len(content[f]) = size[f]

LEMMA HistoryStep ==
  ASSUME IInv, HistoryInv, NEW t \in Clients, Write(t) \/ Read(t)
  PROVE  HistoryInv'
<1> USE DEF fileVars
<1>1. CASE UNCHANGED <<size, content, short>>
  BY <1>1 DEF HistoryInv
<1>2. CASE EndWrite(t)
  <2>1. PICK c, f, w, e, s : /\ c = call[t] /\ f = c.file /\ w = Overwritten(c) /\ e = Extent(c)
                             /\ s = (short[f] \/ Len(moved[t]) < c.size)
    OBVIOUS
  <2>2. /\ content' = [content EXCEPT ![f] = w] /\ size' = [size EXCEPT ![f] = e]
        /\ short' = [short EXCEPT ![f] = s]
    BY <1>2, <2>1 DEF EndWrite
  <2>3. /\ f \in Files /\ c.value \in Values /\ c.offset \in Nat /\ c.size \in Nat
        /\ size \in [Files -> Nat]
    BY <1>2, <2>1 DEF EndWrite, IInv, ClientInv, Client, Types, CallTypes, FileTypes, CallSet,
       Writes
  <2>4. e \in Nat
    BY <2>1, <2>3 DEF Extent
  <2>5. \A p \in 1..size[f] : content[f][p] \in Byte
    BY <2>3, ElementOfSeq DEF HistoryInv
  <2>6. w \in [1..e -> Byte]
    <3> SUFFICES ASSUME NEW p \in 1..e
                 PROVE  (IF p \in (c.offset + 1)..(c.offset + c.size) THEN <<c.value, p - c.offset>>
                         ELSE IF p <= size[f] THEN content[f][p] ELSE Zero) \in Byte
      BY <2>1 DEF Overwritten
    <3>1. CASE p \in (c.offset + 1)..(c.offset + c.size)
      <4>1. p - c.offset \in Nat
        BY <2>3, <3>1
      <4> QED
        BY <2>3, <3>1, <4>1 DEF Byte
    <3>2. CASE p \notin (c.offset + 1)..(c.offset + c.size)
      <4>1. p <= size[f] => content[f][p] \in Byte
        BY <2>3, <2>5
      <4> QED
        BY <3>2, <4>1 DEF Byte
    <3> QED
      BY <3>1, <3>2
  <2>7. w \in Seq(Byte) /\ Len(w) = e
    BY <2>4, <2>6, LenProperties, SeqDef
  <2>8. content' \in [Files -> Seq(Byte)] /\ \A g \in Files : Len(content'[g]) = size'[g]
    BY <2>2, <2>3, <2>7 DEF HistoryInv
  <2>9. short' \in [Files -> BOOLEAN]
    <3>1. s \in BOOLEAN
      BY <2>1, Zenon
    <3> QED
      BY <2>2, <3>1, Zenon DEF HistoryInv
  <2> QED
    BY <2>8, <2>9 DEF HistoryInv
<1> QED
  BY <1>1, <1>2, WithinCall
     DEF Write, Read, Within, WithinWrite, WithinRead, StartWrite, StartRead, BeginRead, EndRead

-----------------------------------------------------------------------------
(* The bytes in the blocks.  As long as no write on a file was short, its    *)
(* blocks hold what was written and zeros behind it, under the part of the   *)
(* writer's buffer that it has stored so far.                                *)

Place(i, k)      == (i - 1) * BlockSize + k
InBlock(f, i, k) == blocks[list[f][i]].data[k]
Old(f, p)        == IF p <= size[f] THEN content[f][p] ELSE Zero

Overlaid(c, n, p) ==
    IF p \in (c.offset + 1)..(c.offset + n) THEN <<c.value, p - c.offset>> ELSE Old(c.file, p)

Laid(c, n) ==
    \A i \in 1..Len(list[c.file]), k \in 1..BlockSize :
        InBlock(c.file, i, k) = Overlaid(c, n, Place(i, k))

Kept(f) ==
    writer[f] = NoClient /\ ~short[f] =>
        \A i \in 1..Len(list[f]), k \in 1..BlockSize : InBlock(f, i, k) = Old(f, Place(i, k))

Appending == {"extend", "load", "link", "slot", "count"}

(* A writer that has stored fewer bytes than its place asks for stays short.   *)
Writing(t) ==
    pc[t] \in Writes =>
        /\ pc[t] \in Appending => at[t] = FirstBlock(call[t])
        /\ pc[t] = "written" => at[t] = LastBlock(call[t]) + 1
        /\ Len(moved[t]) <= Reach(call[t], at[t])
        /\ ~short[call[t].file] /\ Len(moved[t]) = Reach(call[t], at[t]) =>
              Laid(call[t], Reach(call[t], at[t]))

(* So does a reader; with hits in the cache it may have more than was asked.   *)
ReadTo(t) ==
    Reach(call[t], IF pc[t] \in {"insert"} \cup Inserting THEN at[t] + 1 ELSE at[t])

Reading(t) ==
    pc[t] \in Reads =>
        /\ call[t].offset + call[t].size <= size[call[t].file]
        /\ ~hit[t] => Len(moved[t]) <= ReadTo(t)
        /\ ~hit[t] /\ ~short[call[t].file] /\ Len(moved[t]) = ReadTo(t) =>
              \A k \in 1..Len(moved[t]) : moved[t][k] = content[call[t].file][call[t].offset + k]

Idle(t) == pc[t] = "idle" => moved[t] = <<>>

BytesInv ==
    /\ \A f \in Files : Kept(f)
    /\ \A t \in Clients : Writing(t) /\ Reading(t) /\ Idle(t)

ColdInv == LockInv /\ HistoryInv /\ BytesInv

LEMMA PlaceOf ==
  ASSUME NEW i \in Nat, NEW k \in Nat
  PROVE  Place(i + 1, k) = i * BlockSize + k /\ i * BlockSize \in Nat /\ Place(i + 1, k) \in Nat
<1>1. PICK j : j = i + 1
  OBVIOUS
<1>2. j - 1 = i
  BY <1>1
<1>3. i * BlockSize \in Nat
  OBVIOUS
<1>4. Place(j, k) = i * BlockSize + k
  BY <1>2 DEF Place
<1> QED
  BY <1>1, <1>3, <1>4

LEMMA BytesSame ==
  ASSUME BytesInv,
         UNCHANGED <<size, list, writer, content, short, blocks, pc, call, at, moved, hit>>
  PROVE  BytesInv'
BY DEF BytesInv, Kept, Writing, Reading, ReadTo, Idle, Laid, InBlock, Overlaid, Old

(* A step that leaves the files and the bytes alone.                          *)
LEMMA BytesInner ==
  ASSUME BytesInv, NEW t \in Clients, UNCHANGED <<size, list, content, short, blocks>>,
         \A f \in Files : writer'[f] = NoClient => writer[f] = NoClient,
         \A u \in Clients \ {t} : /\ pc'[u] = pc[u] /\ call'[u] = call[u] /\ at'[u] = at[u]
                                  /\ moved'[u] = moved[u] /\ hit'[u] = hit[u],
         Writing(t)', Reading(t)', Idle(t)'
  PROVE  BytesInv'
<1>1. ASSUME NEW f \in Files PROVE Kept(f)'
  <2>1. Kept(f)
    BY DEF BytesInv
  <2> QED
    BY <2>1 DEF Kept, InBlock, Old
<1>2. ASSUME NEW u \in Clients \ {t} PROVE (Writing(u) /\ Reading(u) /\ Idle(u))'
  <2>1. Writing(u) /\ Reading(u) /\ Idle(u)
    BY DEF BytesInv
  <2>2. Writing(u)'
    <3>1. PICK c, r : c = call[u] /\ r = Reach(call[u], at[u])
      OBVIOUS
    <3>2. Laid(c, r)' = Laid(c, r)
      BY DEF Laid, InBlock, Overlaid, Old
    <3>3. c = call'[u] /\ r = Reach(call'[u], at'[u])
      BY <3>1
    <3> QED
      BY <2>1, <3>1, <3>2, <3>3 DEF Writing
  <2>3. Reading(u)' /\ Idle(u)'
    BY <2>1 DEF Reading, ReadTo, Idle
  <2> QED
    BY <2>2, <2>3
<1> QED
  BY <1>1, <1>2 DEF BytesInv

(* A step of a writer within its file.                                       *)
LEMMA BytesFrame ==
  ASSUME IInv, LockInv, BytesInv, NEW t \in Clients, pc[t] \in Writes,
         NEW f \in Files, f = call[t].file,
         \A g \in Files \ {f} :
            /\ size'[g] = size[g] /\ list'[g] = list[g] /\ content'[g] = content[g]
            /\ short'[g] = short[g] /\ writer'[g] = writer[g]
            /\ \A i \in 1..Len(list[g]), k \in 1..BlockSize :
                  blocks'[list[g][i]].data[k] = blocks[list[g][i]].data[k],
         \A u \in Clients \ {t} : /\ pc'[u] = pc[u] /\ call'[u] = call[u] /\ at'[u] = at[u]
                                  /\ moved'[u] = moved[u] /\ hit'[u] = hit[u],
         Kept(f)', Writing(t)', Reading(t)', Idle(t)'
  PROVE  BytesInv'
<1>1. ASSUME NEW g \in Files \ {f} PROVE Kept(g)'
  <2>1. Kept(g)
    BY DEF BytesInv
  <2> QED
    BY <2>1 DEF Kept, InBlock, Old
<1>2. ASSUME NEW u \in Clients \ {t} PROVE (Writing(u) /\ Reading(u) /\ Idle(u))'
  <2>1. Writing(u) /\ Reading(u) /\ Idle(u)
    BY DEF BytesInv
  <2>2. CASE pc[u] \in Writes \cup Reads
    <3>1. PICK g : g = call[u].file
      OBVIOUS
    <3>2. g \in Files
      BY <2>2, <3>1 DEF IInv, ClientInv, Client, Writes, Reads
    <3>3. g # f
      <4>1. writer[f] = t /\ t # NoClient /\ readers[f] = {}
        BY DEF LockInv
      <4>2. /\ writer[f] = u <=> pc[u] \in Writes /\ call[u].file = f
            /\ u \in readers[f] <=> pc[u] \in Reads /\ call[u].file = f
        BY DEF LockInv
      <4> QED
        BY <2>2, <3>1, <4>1, <4>2
    <3>4. Writing(u)'
      <4>1. PICK c, r : c = call[u] /\ r = Reach(call[u], at[u])
        OBVIOUS
      <4>2. \A p : Overlaid(c, r, p)' = Overlaid(c, r, p)
        BY <3>1, <3>2, <3>3, <4>1 DEF Overlaid, Old
      <4>3. Laid(c, r)' <=> Laid(c, r)
        <5>1. c.file = g /\ list'[g] = list[g]
          BY <3>1, <3>2, <3>3, <4>1
        <5>2. \A i \in 1..Len(list[g]), k \in 1..BlockSize : InBlock(g, i, k)' = InBlock(g, i, k)
          BY <3>2, <3>3, <5>1 DEF InBlock
        <5> QED
          BY <4>2, <5>1, <5>2 DEF Laid, Place
      <4>4. /\ c = call'[u] /\ r = Reach(call'[u], at'[u])
            /\ short'[g] = short[g]
        BY <3>2, <3>3, <4>1
      <4> QED
        BY <2>1, <3>1, <4>1, <4>3, <4>4 DEF Writing
    <3>5. Reading(u)' /\ Idle(u)'
      <4>1. ReadTo(u)' = ReadTo(u)
        BY DEF ReadTo
      <4>2. size'[g] = size[g] /\ content'[g] = content[g] /\ short'[g] = short[g]
        BY <3>2, <3>3
      <4> QED
        BY <2>1, <3>1, <4>1, <4>2 DEF Reading, Idle
    <3> QED
      BY <3>4, <3>5
  <2>3. CASE pc[u] \notin Writes \cup Reads
    BY <2>1, <2>3 DEF Writing, Reading, Idle
  <2> QED
    BY <2>2, <2>3
<1> QED
  BY <1>1, <1>2 DEF BytesInv

-----------------------------------------------------------------------------
(* The steps of a writer.                                                   *)

LEMMA BytesStartWrite ==
  ASSUME IInv, BytesInv, NEW t \in Clients, StartWrite(t)
  PROVE  BytesInv'
<1> USE DEF fileVars, blockVars, cacheVars, callVars, Goto
<1>0. /\ pc \in [Clients -> Labels] /\ call \in [Clients -> CallSet]
      /\ at \in [Clients -> Nat]
      /\ writer \in [Files -> Clients \cup {NoClient}]
  BY DEF IInv, Types, CallTypes, FileTypes
<1>1. PICK f \in 1..files, r \in Ranges, v \in Values :
        /\ writer[f] = NoClient
        /\ call' = [call EXCEPT ![t] = Arguments(f, r, v)]
        /\ at' = [at EXCEPT ![t] = FirstBlock(Arguments(f, r, v))]
        /\ \/ /\ \/ pc' = [pc EXCEPT ![t] = "store"]
                 \/ pc' = [pc EXCEPT ![t] = "extend"]
              /\ writer' = [writer EXCEPT ![f] = t]
           \/ UNCHANGED <<pc, writer>>
  BY Zenon DEF StartWrite
<1>2. PICK c : c = Arguments(f, r, v)
  OBVIOUS
<1>3. f \in Files /\ v \in Values
  BY DEF IInv, Types, FileTypes, Files
<1>4. c \in CallSet /\ c.size > 0 /\ c.file = f
  BY <1>2, <1>3, CallOfRange DEF Arguments
<1>5. Reach(c, FirstBlock(c)) = 0 /\ FirstBlock(c) \in Nat /\ c.offset \in Nat
  BY <1>4, ReachGrows, CallBlocks DEF CallSet
<1>6. /\ call'[t] = c /\ at'[t] = FirstBlock(c) /\ pc[t] = "idle"
      /\ UNCHANGED <<size, list, content, short, blocks, moved, hit>>
      /\ \A u \in Clients \ {t} : call'[u] = call[u] /\ at'[u] = at[u]
  BY <1>0, <1>1, <1>2 DEF StartWrite
<1>7. moved[t] = <<>>
  BY <1>6 DEF BytesInv, Idle
<1>8. /\ pc'[t] \in {"idle", "store", "extend"} /\ \A u \in Clients \ {t} : pc'[u] = pc[u]
      /\ \A g \in Files : writer'[g] = NoClient => writer[g] = NoClient
  BY <1>0, <1>1, <1>3, <1>6
<1>9. Writing(t)'
  <2>1. ~short[f] => Laid(c, 0)
    <3>1. Kept(f)
      BY <1>3 DEF BytesInv
    <3>2. \A p : Overlaid(c, 0, p) = Old(f, p)
      BY <1>4, <1>5 DEF Overlaid
    <3> QED
      BY <1>1, <1>4, <3>1, <3>2 DEF Kept, Laid
  <2>2. Laid(c, 0)' = Laid(c, 0)
    BY <1>6 DEF Laid, InBlock, Overlaid, Old
  <2>3. ~short[f] => Laid(c, 0)'
    BY <2>1, <2>2
  <2>4. Len(moved'[t]) = 0 /\ short' = short
    BY <1>6, <1>7
  <2> QED
    BY <1>4, <1>5, <1>6, <1>8, <2>3, <2>4 DEF Writing, Writes
<1>10. Reading(t)' /\ Idle(t)'
  BY <1>6, <1>7, <1>8 DEF Reading, Reads, Idle
<1> QED
  BY <1>6, <1>8, <1>9, <1>10, BytesInner

LEMMA BytesAppend ==
  ASSUME IInv, BytesInv, NEW t \in Clients, LoadCount(t) \/ StoreSlot(t) \/ StoreCount(t)
  PROVE  BytesInv'
<1> USE DEF fileVars, blockVars, cacheVars, callVars, Goto
<1>1. /\ UNCHANGED <<size, list, writer, content, short, blocks, call, at, moved, hit>>
      /\ pc[t] \in Appending
  BY DEF LoadCount, StoreSlot, StoreCount, Appending
<1>2. PICK x : x = Extended(t)
  OBVIOUS
<1>3. PICK l \in Appending \cup {"store"} : pc' = [pc EXCEPT ![t] = l]
  <2>1. x \in {"store", "extend"}
    BY <1>2 DEF Extended
  <2>2. [pc EXCEPT ![t] = pc[t]] = pc
    BY DEF IInv, Types, CallTypes
  <2> QED
    BY <1>2, <2>1, <2>2 DEF LoadCount, StoreSlot, StoreCount, Appending
<1>4. pc'[t] = l /\ \A u \in Clients \ {t} : pc'[u] = pc[u]
  BY <1>3 DEF IInv, Types, CallTypes
<1>5. Writing(t)'
  <2>1. Writing(t)
    BY DEF BytesInv
  <2>2. Laid(call[t], Reach(call[t], at[t]))' = Laid(call[t], Reach(call[t], at[t]))
    BY <1>1 DEF Laid, InBlock, Overlaid, Old
  <2> QED
    BY <1>1, <1>3, <1>4, <2>1, <2>2 DEF Writing, Writes, Appending
<1>6. Reading(t)' /\ Idle(t)'
  BY <1>3, <1>4 DEF Reading, Reads, Idle, Appending
<1> QED
  BY <1>1, <1>4, <1>5, <1>6, BytesInner

(* A new block holds zeros, and it lies behind the size of the file.          *)
LEMMA BytesExtend ==
  ASSUME IInv, LockInv, BytesInv, fault = "none", NEW t \in Clients, Extend(t)
  PROVE  BytesInv'
<1> USE DEF cacheVars, callVars
<1>1. PICK f, m, n, c : /\ f = call[t].file /\ m = Len(list[f]) /\ n = Len(blocks) /\ c = call[t]
  OBVIOUS
<1>2. /\ blocks' = Append(blocks, Block(f, m)) /\ list' = [list EXCEPT ![f] = Append(list[f], n + 1)]
      /\ UNCHANGED <<size, content, short, writer, call, at, moved, hit>> /\ pc[t] = "extend"
  BY <1>1 DEF Extend, NewBlock
<1>3. f \in Files /\ m \in Nat /\ n \in Nat /\ blocks \in Seq(BlockSet) /\ list[f] \in Seq(1..n)
      /\ size[f] \in Nat /\ size[f] <= m * BlockSize /\ c.offset \in Nat /\ c \in CallSet
      /\ c.size > 0 /\ c.file = f
  <2>1. f \in Files /\ c \in CallSet /\ c.offset \in Nat /\ c.size > 0
    BY <1>1, <1>2 DEF IInv, ClientInv, Client, Types, CallTypes, CallSet
  <2>2. blocks \in Seq(BlockSet) /\ list[f] \in Seq(1..n) /\ size[f] \in Nat
    BY <1>1, <2>1 DEF IInv, Types, FileTypes, TableTypes
  <2>3. m \in Nat /\ n \in Nat
    BY <1>1, <2>2, LenProperties
  <2> QED
    BY <1>1, <2>1, <2>2, <2>3 DEF IInv, BlocksOwned
<1>4. /\ \A j \in 1..n : blocks'[j] = blocks[j]
      /\ \A k \in 1..BlockSize : blocks'[n + 1].data[k] = Zero
  <2>1. PICK b : b = Block(f, m)
    OBVIOUS
  <2>2. \A k \in 1..BlockSize : b.data[k] = Zero
    BY <2>1 DEF Block
  <2>3. b \in BlockSet
    BY <1>3, <2>1 DEF Block, BlockSet, Data, Byte
  <2>4. blocks'[n + 1] = b /\ \A j \in 1..n : blocks'[j] = blocks[j]
    BY <1>1, <1>2, <1>3, <2>1, <2>3, AppendProperties
  <2> QED
    BY <2>2, <2>4
<1>5. /\ Len(list'[f]) = m + 1 /\ list'[f][m + 1] = n + 1
      /\ \A i \in 1..m : list'[f][i] = list[f][i] /\ list[f][i] \in 1..n
      /\ \A g \in Files \ {f} : list'[g] = list[g]
  <2>1. list'[f] = Append(list[f], n + 1) /\ \A g \in Files \ {f} : list'[g] = list[g]
    BY <1>2, <1>3 DEF IInv, Types, FileTypes
  <2>2. list[f] \in Seq(Nat) /\ n + 1 \in Nat
    <3>1. PICK S, T, q : S = 1..n /\ T = Nat /\ q = list[f]
      OBVIOUS
    <3>2. q \in Seq(S) /\ S \subseteq T
      BY <1>3, <3>1
    <3>3. q \in Seq(T)
      BY <3>2, SeqMonotonic, Zenon
    <3> QED
      BY <1>3, <3>1, <3>3
  <2>3. /\ Len(list'[f]) = m + 1 /\ list'[f][m + 1] = n + 1
        /\ \A i \in 1..m : list'[f][i] = list[f][i]
    BY <1>1, <2>1, <2>2, AppendProperties
  <2>4. \A i \in 1..m : list[f][i] \in 1..n
    BY <1>1, <1>3, ElementOfSeq
  <2> QED
    BY <2>1, <2>3, <2>4
<1>6. \A g \in Files \ {f} : \A i \in 1..Len(list[g]), k \in 1..BlockSize :
        blocks'[list[g][i]].data[k] = blocks[list[g][i]].data[k]
  <2> SUFFICES ASSUME NEW g \in Files \ {f}, NEW i \in 1..Len(list[g])
               PROVE  blocks'[list[g][i]] = blocks[list[g][i]]
    OBVIOUS
  <2>1. list[g] \in Seq(1..n)
    BY <1>1 DEF IInv, Types, FileTypes
  <2>2. list[g][i] \in 1..n
    BY <2>1, ElementOfSeq
  <2> QED
    BY <1>4, <2>2
<1>7. /\ pc'[t] \in {"load", "store", "extend"} /\ \A u \in Clients \ {t} : pc'[u] = pc[u]
  <2>1. PICK l \in {"load", "store", "extend"} : pc' = [pc EXCEPT ![t] = l]
    BY DEF Extend, NewBlock, Goto
  <2> QED
    BY <2>1 DEF IInv, Types, CallTypes
<1>8. Kept(f)'
  <2>1. writer[f] = t
    BY <1>1, <1>2, <1>3 DEF LockInv, Writes
  <2> QED
    BY <1>2, <2>1 DEF Kept
<1>9. Writing(t)'
  <2>1. /\ Writing(t) /\ at[t] = FirstBlock(c) /\ Reach(c, at[t]) = 0
    BY <1>1, <1>2, <1>3, ReachGrows DEF BytesInv, Writing, Writes, Appending
  <2>2. ASSUME Laid(c, 0) PROVE Laid(c, 0)'
    <3>1. ASSUME NEW i \in 1..(m + 1), NEW k \in 1..BlockSize
          PROVE  InBlock(f, i, k)' = Old(f, Place(i, k))
      <4>1. CASE i \in 1..m
        <5>1. InBlock(f, i, k) = Old(f, Place(i, k))
          <6>1. InBlock(f, i, k) = Overlaid(c, 0, Place(i, k))
            BY <1>1, <1>3, <2>2, <4>1 DEF Laid
          <6>2. \A p : Overlaid(c, 0, p) = Old(f, p)
            BY <1>3 DEF Overlaid
          <6> QED
            BY <6>1, <6>2
        <5> QED
          BY <1>4, <1>5, <4>1, <5>1 DEF InBlock
      <4>2. CASE i = m + 1
        <5>1. Place(m + 1, k) = m * BlockSize + k /\ m * BlockSize \in Nat
          <6>1. m \in Nat /\ k \in Nat
            BY <1>3
          <6> QED
            BY <6>1, PlaceOf, Zenon
        <5>2. PICK p, top \in Nat : p = Place(m + 1, k) /\ top = m * BlockSize
          BY <5>1
        <5>3. ~(p <= size[f])
          BY <1>3, <5>1, <5>2
        <5>4. Old(f, p) = Zero
          BY <5>3 DEF Old
        <5> QED
          BY <1>4, <1>5, <4>2, <5>2, <5>4 DEF InBlock
      <4> QED
        BY <1>3, <4>1, <4>2
    <3>2. \A p : Overlaid(c, 0, p)' = Old(f, p)
      BY <1>2, <1>3 DEF Overlaid, Old
    <3> QED
      BY <1>3, <1>5, <3>1, <3>2 DEF Laid, Place
  <2>3. Len(moved[t]) = 0 => Laid(c, 0) \/ short[f]
    BY <1>1, <1>2, <1>3, <2>1 DEF Writing, Writes
  <2> QED
    BY <1>1, <1>2, <1>3, <1>7, <2>1, <2>2, <2>3 DEF Writing, Writes, Appending
<1>10. Reading(t)' /\ Idle(t)'
  BY <1>7 DEF Reading, Reads, Idle
<1> QED
  BY <1>1, <1>2, <1>3, <1>5, <1>6, <1>7, <1>8, <1>9, <1>10, BytesFrame DEF Writes

(* The bytes of a piece lie in its block and nowhere else.                   *)
LEMMA PieceInFile ==
  ASSUME NEW c \in CallSet, c.size > 0, NEW i \in Nat, FirstBlock(c) <= i, i <= LastBlock(c),
         PieceSize(c, i) >= 0, NEW j \in Nat, NEW k \in 1..BlockSize
  PROVE  Place(j + 1, k) \in (c.offset + Reach(c, i) + 1)..(c.offset + Reach(c, i + 1))
         <=> j = i /\ k \in (BlockOffset(c, i) + 1)..(BlockOffset(c, i) + PieceSize(c, i))
<1>1. PICK ib \in Nat, jb \in Nat, b \in Nat, n \in Nat, o \in Nat, r \in Nat, e \in Nat :
        /\ ib = i * BlockSize /\ jb = j * BlockSize /\ b = BlockOffset(c, i)
        /\ n = PieceSize(c, i) /\ o = c.offset /\ r = Reach(c, i) /\ e = Reach(c, i + 1)
  <2>1. /\ i * BlockSize \in Nat /\ PieceSize(c, i) \in Nat /\ BlockOffset(c, i) \in Nat
    BY PieceReach
  <2>2. Reach(c, i) \in Nat /\ Reach(c, i + 1) \in Nat /\ c.offset \in Nat /\ j * BlockSize \in Nat
    BY ReachGrows DEF CallSet
  <2> QED
    BY <2>1, <2>2
<1>2. ib + b = o + r /\ b + n <= BlockSize /\ e = r + n
  BY <1>1, PieceReach
<1>3. Place(j + 1, k) = jb + k
  BY <1>1, PlaceOf
<1>4. /\ i < j => ib + BlockSize <= jb
      /\ j < i => jb + BlockSize <= ib
      /\ i = j => ib = jb
  <2>1. i < j => i * BlockSize + BlockSize <= j * BlockSize
    BY Multiples
  <2>2. j < i => j * BlockSize + BlockSize <= i * BlockSize
    BY Multiples
  <2> QED
    BY <1>1, <2>1, <2>2
<1>5. Place(j + 1, k) \in (o + r + 1)..(o + e) <=> j = i /\ k \in (b + 1)..(b + n)
  BY <1>2, <1>3, <1>4
<1> QED
  BY <1>1, <1>5

LEMMA WithinPiece ==
  ASSUME NEW o \in Nat, NEW r \in Nat, NEW n \in Nat, NEW p \in Nat
  PROVE  /\ p \in (o + r + 1)..(o + (r + n)) => p \in (o + 1)..(o + (r + n))
         /\ p \notin (o + r + 1)..(o + (r + n)) =>
              (p \in (o + 1)..(o + (r + n)) <=> p \in (o + 1)..(o + r))
OBVIOUS

(* A piece that goes where the call asks for it; what other bytes hold stays.  *)
LEMMA LaidNext ==
  ASSUME NEW c \in CallSet, c.size > 0, c.file \in Files, NEW i \in Nat, FirstBlock(c) <= i,
         i <= LastBlock(c), PieceSize(c, i) >= 0, Len(list[c.file]) \in Nat,
         UNCHANGED <<size, list, content>>, Laid(c, Reach(c, i)),
         \A j \in 1..Len(list[c.file]), k \in 1..BlockSize :
            InBlock(c.file, j, k)' =
                IF j = i + 1 /\ k \in (BlockOffset(c, i) + 1)..(BlockOffset(c, i) + PieceSize(c, i))
                THEN <<c.value, Reach(c, i) + k - BlockOffset(c, i)>> ELSE InBlock(c.file, j, k)
  PROVE  Laid(c, Reach(c, i + 1))'
<1>1. ASSUME NEW j \in 1..Len(list[c.file]), NEW k \in 1..BlockSize
      PROVE  InBlock(c.file, j, k)' = Overlaid(c, Reach(c, i + 1), Place(j, k))
  <2>1. PICK h \in Nat : j = h + 1
    <3>1. j - 1 \in Nat /\ j = (j - 1) + 1
      OBVIOUS
    <3> QED
      BY <3>1
  <2>2. PICK o \in Nat, b \in Nat, n \in Nat, r \in Nat, ib \in Nat, p \in Nat :
          /\ o = c.offset /\ b = BlockOffset(c, i) /\ n = PieceSize(c, i) /\ r = Reach(c, i)
          /\ ib = i * BlockSize /\ p = Place(j, k)
    <3>1. /\ PieceSize(c, i) \in Nat /\ BlockOffset(c, i) \in Nat /\ i * BlockSize \in Nat
          /\ Reach(c, i) \in Nat
      BY PieceReach, ReachGrows, Zenon
    <3>2. c.offset \in Nat /\ k \in Nat
      BY DEF CallSet
    <3>3. Place(j, k) \in Nat
      BY <2>1, <3>2, PlaceOf, Zenon
    <3> QED
      BY <3>1, <3>2, <3>3, Zenon
  <2>3. Reach(c, i + 1) = r + n /\ ib + b = o + r
    BY <2>2, PieceReach, Zenon
  <2>4. p \in (o + r + 1)..(o + (r + n)) <=> h = i /\ k \in (b + 1)..(b + n)
    BY <2>1, <2>2, <2>3, PieceInFile, Zenon
  <2>5. InBlock(c.file, j, k) = Overlaid(c, r, p)
    BY <1>1, <2>2, Zenon DEF Laid
  <2>6. InBlock(c.file, j, k)' = IF j = i + 1 /\ k \in (b + 1)..(b + n)
                                 THEN <<c.value, r + k - b>> ELSE InBlock(c.file, j, k)
    BY <1>1, <2>2, Zenon
  <2>7. CASE p \in (o + r + 1)..(o + (r + n))
    <3>1. InBlock(c.file, j, k)' = <<c.value, r + k - b>>
      BY <2>1, <2>4, <2>6, <2>7, Zenon
    <3>2. p = ib + k
      <4>1. Place(i + 1, k) = i * BlockSize + k
        BY PlaceOf
      <4> QED
        BY <2>1, <2>2, <2>4, <2>7, <4>1, Zenon
    <3>3. p - o = r + k - b
      BY <2>3, <3>2
    <3>4. Overlaid(c, r + n, p) = <<c.value, p - o>>
      BY <2>2, <2>7, WithinPiece, Zenon DEF Overlaid
    <3> QED
      BY <2>2, <2>3, <3>1, <3>3, <3>4, Zenon
  <2>8. CASE p \notin (o + r + 1)..(o + (r + n))
    <3>1. ~(j = i + 1 /\ k \in (b + 1)..(b + n))
      <4>1. j = i + 1 => h = i
        BY <2>1
      <4> QED
        BY <2>4, <2>8, <4>1, Zenon
    <3>2. InBlock(c.file, j, k)' = InBlock(c.file, j, k)
      BY <2>6, <3>1, Zenon
    <3>3. Overlaid(c, r + n, p) = Overlaid(c, r, p)
      BY <2>2, <2>8, WithinPiece, Zenon DEF Overlaid
    <3> QED
      BY <2>2, <2>3, <2>5, <3>2, <3>3, Zenon
  <2> QED
    BY <2>7, <2>8
<1>2. \A n, p : Overlaid(c, n, p)' = Overlaid(c, n, p)
  BY DEF Overlaid, Old
<1> QED
  BY <1>1, <1>2 DEF Laid, Place

LEMMA BytesStore ==
  ASSUME IInv, LockInv, BytesInv, fault = "none", NEW t \in Clients, StoreBlock(t)
  PROVE  BytesInv'
<1> USE DEF fileVars, cacheVars, Goto
<1>0. CASE fault' # "none"
  BY <1>0, BytesSame DEF StoreBlock
<1> SUFFICES ASSUME fault' = "none" PROVE BytesInv'
  BY <1>0
<1>1. PICK c, f, i, id, n, m, r, start :
        /\ c = call[t] /\ f = c.file /\ i = at[t] /\ id = Id(t) /\ n = PieceSize(c, i)
        /\ m = Len(list[f]) /\ r = Reach(c, i) /\ start = Len(moved[t])
  OBVIOUS
<1>2. /\ c \in CallSet /\ c.size > 0 /\ f \in Files /\ i \in Nat /\ pc[t] = "store"
      /\ FirstBlock(c) <= i /\ i <= LastBlock(c) /\ LastBlock(c) < m /\ moved[t] \in Seq(Byte)
      /\ c.value \in Values
  BY <1>1 DEF StoreBlock, IInv, ClientInv, Client, Blocks, Types, CallTypes, Writes
<1>3. /\ m \in Nat /\ list[f] \in Seq(1..Len(blocks)) /\ blocks \in Seq(BlockSet)
      /\ start \in Nat /\ n \in Int /\ LastBlock(c) \in Nat
  BY <1>1, <1>2, LenProperties, PieceFits, CallBlocks DEF IInv, Types, FileTypes, TableTypes
<1>4. /\ id = list[f][i + 1] /\ i + 1 \in 1..m /\ id \in 1..Len(blocks)
  <2>1. i + 1 \in 1..m
    BY <1>2, <1>3
  <2>2. id = list[f][i + 1]
    BY <1>1 DEF Id
  <2> QED
    BY <1>1, <1>3, <2>1, <2>2, ElementOfSeq
<1>5. \A g \in Files : \A j \in 1..Len(list[g]) :
         blocks[list[g][j]].file_id = g /\ blocks[list[g][j]].place = j - 1
  BY DEF IInv, BlocksOwned
<1>6. blocks[id].file_id = f /\ blocks[id].place = (i + 1) - 1
  <2>1. i + 1 \in 1..Len(list[f]) /\ f \in Files /\ id = list[f][i + 1]
    BY <1>1, <1>2, <1>4
  <2> QED
    BY <1>5, <2>1, Zenon
<1>7. /\ UNCHANGED <<size, list, writer, content, short, call, hit>>
      /\ at' = [at EXCEPT ![t] = i + 1]
      /\ pc' = [pc EXCEPT ![t] = IF i = LastBlock(c) THEN "written" ELSE "store"]
  BY <1>1 DEF StoreBlock, Last
<1>8. /\ at'[t] = i + 1 /\ pc'[t] \in {"store", "written"}
      /\ pc'[t] = "written" => i = LastBlock(c)
      /\ \A u \in Clients \ {t} : at'[u] = at[u] /\ pc'[u] = pc[u]
  BY <1>7 DEF IInv, Types, CallTypes
<1>9. \/ /\ n >= 0
         /\ blocks' = [blocks EXCEPT ![id] = Stored(blocks[id], c.value, BlockOffset(c, i), n, start)]
         /\ moved' = [moved EXCEPT ![t] = moved[t] \o [k \in 1..n |-> <<c.value, start + k>>]]
      \/ UNCHANGED <<blocks, moved>>
  <2>1. InTable(id) => CopyFault(t, n) = "none"
    BY <1>1 DEF StoreBlock
  <2>2. InTable(id) => n >= 0
    BY <1>3, <2>1 DEF CopyFault
  <2> QED
    BY <1>1, <2>2, Zenon DEF StoreBlock
<1>10. /\ r \in Nat /\ r <= Reach(c, i + 1) /\ Reach(c, i + 1) \in Nat
       /\ start <= r /\ (~short[f] /\ start = r => Laid(c, r))
  <2>1. r \in Nat /\ r <= Reach(c, i + 1) /\ Reach(c, i + 1) \in Nat
    <3>1. i + 1 \in Nat
      BY <1>2
    <3> QED
      BY <1>1, <1>2, <3>1, ReachGrows
  <2>2. Writing(t)
    BY DEF BytesInv
  <2> QED
    BY <1>1, <1>2, <2>1, <2>2 DEF Writing, Writes
<1>11. /\ \A u \in Clients \ {t} : moved'[u] = moved[u]
       /\ \A g \in Files \ {f} : \A j \in 1..Len(list[g]), k \in 1..BlockSize :
             blocks'[list[g][j]].data[k] = blocks[list[g][j]].data[k]
       /\ Len(moved'[t]) \in Nat /\ Len(moved'[t]) <= Reach(c, i + 1)
       /\ ~short[f] /\ Len(moved'[t]) = Reach(c, i + 1) => Laid(c, Reach(c, i + 1))'
  <2>1. CASE UNCHANGED <<blocks, moved>>
    <3>1. Laid(c, r)' = Laid(c, r)
      BY <1>7, <2>1 DEF Laid, InBlock, Overlaid, Old
    <3>2. Len(moved'[t]) = start
      BY <1>1, <2>1
    <3>3. start = Reach(c, i + 1) => start = r /\ Reach(c, i + 1) = r
      BY <1>3, <1>10
    <3>4. start <= Reach(c, i + 1)
      BY <1>3, <1>10
    <3>5. ~short[f] /\ start = Reach(c, i + 1) => Laid(c, Reach(c, i + 1))'
      BY <1>10, <3>1, <3>3, Zenon
    <3> QED
      BY <1>3, <2>1, <3>2, <3>4, <3>5
  <2>2. CASE /\ n >= 0
             /\ blocks' = [blocks EXCEPT ![id] =
                              Stored(blocks[id], c.value, BlockOffset(c, i), n, start)]
             /\ moved' = [moved EXCEPT ![t] = moved[t] \o [k \in 1..n |-> <<c.value, start + k>>]]
    <3>1. PICK d, s : /\ d = Stored(blocks[id], c.value, BlockOffset(c, i), n, start)
                      /\ s = [k \in 1..n |-> <<c.value, start + k>>]
      OBVIOUS
    <3>2. /\ blocks'[id] = d /\ \A q \in 1..Len(blocks) : q # id => blocks'[q] = blocks[q]
      BY <1>3, <1>4, <2>2, <3>1, ExceptSeq
    <3>3. s \in Seq(Byte) /\ Len(s) = n
      <4>1. n \in Nat /\ s \in [1..n -> Byte]
        BY <1>2, <1>3, <2>2, <3>1 DEF Byte
      <4> QED
        BY <4>1, LenProperties, SeqDef
    <3>4. moved'[t] = moved[t] \o s /\ \A u \in Clients \ {t} : moved'[u] = moved[u]
      BY <2>2, <3>1 DEF IInv, Types, CallTypes
    <3>5. Len(moved'[t]) = start + n
      <4>1. PICK v : v = moved[t]
        OBVIOUS
      <4>2. v \in Seq(Byte) /\ Len(v) = start
        BY <1>1, <1>2, <4>1
      <4>3. Len(v \o s) = start + n
        BY <3>3, <4>2, ConcatProperties
      <4> QED
        BY <3>4, <4>1, <4>3
    <3>6. Reach(c, i + 1) = r + n
      BY <1>1, <1>2, <2>2, PieceReach
    <3>7. \A g \in Files \ {f} : \A j \in 1..Len(list[g]), k \in 1..BlockSize :
            blocks'[list[g][j]].data[k] = blocks[list[g][j]].data[k]
      <4> SUFFICES ASSUME NEW g \in Files \ {f}, NEW j \in 1..Len(list[g])
                   PROVE  blocks'[list[g][j]] = blocks[list[g][j]]
        OBVIOUS
      <4>1. list[g][j] \in 1..Len(blocks)
        BY ElementOfSeq DEF IInv, Types, FileTypes
      <4>2. blocks[list[g][j]].file_id = g /\ blocks[id].file_id = f
        BY <1>5, <1>6
      <4> QED
        BY <3>2, <4>1, <4>2
    <3>8. ASSUME ~short[f], start = r PROVE Laid(c, r + n)'
      <4>1. ASSUME NEW j \in 1..m, NEW k \in 1..BlockSize
            PROVE  InBlock(f, j, k)' =
                     IF j = i + 1 /\ k \in (BlockOffset(c, i) + 1)..(BlockOffset(c, i) + n)
                     THEN <<c.value, r + k - BlockOffset(c, i)>> ELSE InBlock(f, j, k)
        <5>1. list[f][j] \in 1..Len(blocks)
          BY <1>1, <1>3, ElementOfSeq
        <5>2. list'[f] = list[f]
          BY <1>7
        <5>3. CASE j = i + 1
          <6>1. list[f][j] = id
            BY <1>4, <5>3
          <6>2. InBlock(f, j, k)' = d.data[k] /\ InBlock(f, j, k) = blocks[id].data[k]
            BY <3>2, <5>2, <6>1, Zenon DEF InBlock
          <6>3. d.data[k] = IF k \in (BlockOffset(c, i) + 1)..(BlockOffset(c, i) + n)
                            THEN <<c.value, r + k - BlockOffset(c, i)>> ELSE blocks[id].data[k]
            BY <3>1, <3>8, <4>1 DEF Stored
          <6> QED
            BY <5>3, <6>2, <6>3, Zenon
        <5>4. CASE j # i + 1
          <6>1. blocks[list[f][j]].place = j - 1 /\ blocks[id].place = (i + 1) - 1
            BY <1>1, <1>2, <1>5, <1>6
          <6>2. j - 1 # (i + 1) - 1
            BY <1>2, <1>3, <5>4
          <6>3. list[f][j] # id
            BY <6>1, <6>2
          <6>4. InBlock(f, j, k)' = InBlock(f, j, k)
            BY <3>2, <5>1, <5>2, <6>3, Zenon DEF InBlock
          <6> QED
            BY <5>4, <6>4, Zenon
        <5> QED
          BY <5>3, <5>4
      <4>2. Laid(c, r) /\ Len(list[f]) \in Nat /\ PieceSize(c, i) >= 0
            /\ UNCHANGED <<size, list, content>>
        BY <1>1, <1>3, <1>7, <1>10, <2>2, <3>8
      <4>3. Laid(c, Reach(c, i + 1))'
        BY <1>1, <1>2, <4>1, <4>2, LaidNext, Zenon
      <4> QED
        BY <3>6, <4>3, Zenon
    <3>9. /\ start + n \in Nat /\ start + n <= r + n
          /\ start + n = r + n => start = r
      BY <1>3, <1>10, <2>2
    <3> QED
      BY <3>4, <3>5, <3>6, <3>7, <3>8, <3>9
  <2> QED
    BY <1>9, <2>1, <2>2
<1>12. Kept(f)'
  <2>1. writer[f] = t
    BY <1>1, <1>2 DEF LockInv, Writes
  <2> QED
    BY <1>7, <2>1 DEF Kept
<1>13. Writing(t)'
  <2>1. call'[t] = c /\ short'[f] = short[f] /\ f = c.file /\ at'[t] = i + 1
    BY <1>1, <1>7, <1>8
  <2>2. Len(moved'[t]) <= Reach(c, i + 1)
    BY <1>11
  <2>3. ~short[f] /\ Len(moved'[t]) = Reach(c, i + 1) => Laid(c, Reach(c, i + 1))'
    BY <1>11
  <2>4. Len(moved'[t]) <= Reach(call'[t], at'[t])
    BY <2>1, <2>2
  <2>5. ~short'[call'[t].file] /\ Len(moved'[t]) = Reach(call'[t], at'[t]) =>
          Laid(call[t], Reach(call[t], at[t]))'
    BY <2>1, <2>3
  <2>6. pc'[t] \notin Appending /\ (pc'[t] = "written" => at'[t] = LastBlock(call'[t]) + 1)
    BY <1>8, <2>1 DEF Appending
  <2> QED
    BY <2>4, <2>5, <2>6, Zenon DEF Writing
<1>14. Reading(t)' /\ Idle(t)'
  BY <1>8 DEF Reading, Reads, Idle
<1>15. \A g \in Files \ {f} :
         /\ size'[g] = size[g] /\ list'[g] = list[g] /\ content'[g] = content[g]
         /\ short'[g] = short[g] /\ writer'[g] = writer[g]
         /\ \A j \in 1..Len(list[g]), k \in 1..BlockSize :
               blocks'[list[g][j]].data[k] = blocks[list[g][j]].data[k]
  <2>1. \A g \in Files \ {f} : \A j \in 1..Len(list[g]), k \in 1..BlockSize :
          blocks'[list[g][j]].data[k] = blocks[list[g][j]].data[k]
    BY <1>11
  <2>2. UNCHANGED <<size, list, content, short, writer>>
    BY <1>7
  <2> QED
    BY <2>1, <2>2
<1>16. \A u \in Clients \ {t} : /\ pc'[u] = pc[u] /\ call'[u] = call[u] /\ at'[u] = at[u]
                                /\ moved'[u] = moved[u] /\ hit'[u] = hit[u]
  <2>1. \A u \in Clients \ {t} : moved'[u] = moved[u]
    BY <1>11
  <2> QED
    BY <1>7, <1>8, <2>1
<1>17. pc[t] \in Writes /\ f = call[t].file
  BY <1>1, <1>2 DEF Writes
<1> QED
  BY <1>2, <1>12, <1>13, <1>14, <1>15, <1>16, <1>17, BytesFrame, Zenon

(* A write that was not short leaves what it was to write.                    *)
LEMMA BytesEndWrite ==
  ASSUME IInv, LockInv, BytesInv, HistoryInv, NEW t \in Clients, EndWrite(t)
  PROVE  BytesInv'
<1> USE DEF blockVars, cacheVars, Goto
<1>1. PICK c, f, m : c = call[t] /\ f = c.file /\ m = Len(list[f])
  OBVIOUS
<1>2. /\ c \in CallSet /\ c.size > 0 /\ f \in Files /\ pc[t] = "written" /\ c.offset \in Nat
      /\ c.size \in Nat /\ moved[t] \in Seq(Byte) /\ size[f] \in Nat /\ size \in [Files -> Nat]
  BY <1>1 DEF EndWrite, IInv, ClientInv, Client, Types, CallTypes, FileTypes, CallSet, Writes
<1>3. m \in Nat /\ Len(moved[t]) \in Nat
  BY <1>1, <1>2, LenProperties DEF IInv, Types, FileTypes
<1>4. PICK w, e, s : w = Overwritten(c) /\ e = Extent(c) /\ s = (short[f] \/ Len(moved[t]) < c.size)
  OBVIOUS
<1>5. /\ content' = [content EXCEPT ![f] = w] /\ size' = [size EXCEPT ![f] = e]
      /\ short' = [short EXCEPT ![f] = s] /\ writer' = [writer EXCEPT ![f] = NoClient]
      /\ moved' = [moved EXCEPT ![t] = <<>>] /\ pc' = [pc EXCEPT ![t] = "idle"]
      /\ call' = [call EXCEPT ![t] = NoCall] /\ at' = [at EXCEPT ![t] = 0]
      /\ UNCHANGED <<list, blocks, hit>>
  BY <1>1, <1>4 DEF EndWrite, Leave
<1>6. /\ content'[f] = w /\ size'[f] = e /\ short'[f] = s
      /\ \A g \in Files \ {f} : /\ content'[g] = content[g] /\ size'[g] = size[g]
                                /\ short'[g] = short[g] /\ writer'[g] = writer[g]
  BY <1>2, <1>5 DEF HistoryInv, IInv, Types, FileTypes
<1>7. /\ moved'[t] = <<>> /\ pc'[t] = "idle"
      /\ \A u \in Clients \ {t} : /\ moved'[u] = moved[u] /\ pc'[u] = pc[u]
                                  /\ call'[u] = call[u] /\ at'[u] = at[u]
  BY <1>5 DEF IInv, Types, CallTypes
<1>8. ASSUME ~s PROVE Laid(c, c.size)
  <2>1. ~short[f] /\ ~(Len(moved[t]) < c.size)
    BY <1>4, <1>8
  <2>2. at[t] = LastBlock(c) + 1 /\ Reach(c, LastBlock(c) + 1) = c.size
    <3>1. Writing(t)
      BY DEF BytesInv
    <3>2. Reach(c, LastBlock(c) + 1) = c.size
      <4>1. 0 \in Nat
        OBVIOUS
      <4> QED
        BY <1>2, <4>1, ReachGrows
    <3> QED
      BY <1>1, <1>2, <3>1, <3>2 DEF Writing, Writes
  <2>3. Len(moved[t]) <= c.size /\ (~short[f] /\ Len(moved[t]) = c.size => Laid(c, c.size))
    BY <1>1, <1>2, <2>2 DEF BytesInv, Writing, Writes
  <2> QED
    BY <1>2, <1>3, <2>1, <2>3
<1>9. ASSUME NEW p \in Nat \ {0}
      PROVE  Overlaid(c, c.size, p) = IF p <= e THEN w[p] ELSE Zero
  <2>1. e \in Nat /\ e >= size[f] /\ e >= c.offset + c.size
    BY <1>1, <1>2, <1>4 DEF Extent
  <2>2. p <= e => w[p] = IF p \in (c.offset + 1)..(c.offset + c.size) THEN <<c.value, p - c.offset>>
                         ELSE IF p <= size[f] THEN content[f][p] ELSE Zero
    <3>1. p <= e => p \in 1..e
      BY <2>1
    <3> QED
      BY <1>1, <1>4, <3>1 DEF Overwritten
  <2>3. Overlaid(c, c.size, p) =
          IF p \in (c.offset + 1)..(c.offset + c.size) THEN <<c.value, p - c.offset>>
          ELSE IF p <= size[f] THEN content[f][p] ELSE Zero
    BY <1>1 DEF Overlaid, Old
  <2>4. /\ p \in (c.offset + 1)..(c.offset + c.size) => p <= e
        /\ p <= size[f] => p <= e
    BY <1>2, <2>1
  <2> QED
    BY <2>2, <2>3, <2>4, Zenon
<1>10. Kept(f)'
  <2> SUFFICES ASSUME ~short'[f], NEW j \in 1..Len(list'[f]), NEW k \in 1..BlockSize
               PROVE  InBlock(f, j, k)' = Old(f, Place(j, k))'
    BY DEF Kept
  <2>1. Laid(c, c.size) /\ j \in 1..m
    BY <1>1, <1>5, <1>6, <1>8
  <2>2. InBlock(f, j, k) = Overlaid(c, c.size, Place(j, k))
    BY <1>1, <2>1 DEF Laid
  <2>3. PICK p \in Nat \ {0} : p = Place(j, k)
    <3>1. PICK h \in Nat : j = h + 1
      <4>1. j - 1 \in Nat /\ j = (j - 1) + 1
        BY <1>3, <2>1
      <4> QED
        BY <4>1
    <3>2. k \in Nat /\ k > 0
      OBVIOUS
    <3>3. PICK hb \in Nat : Place(h + 1, k) = hb + k
      BY <3>2, PlaceOf, Zenon
    <3> QED
      BY <3>1, <3>2, <3>3
  <2>4. InBlock(f, j, k)' = InBlock(f, j, k)
    BY <1>5 DEF InBlock
  <2>5. Old(f, p)' = IF p <= e THEN w[p] ELSE Zero
    BY <1>6 DEF Old
  <2>6. InBlock(f, j, k)' = Old(f, p)'
    BY <1>9, <2>2, <2>3, <2>4, <2>5, Zenon
  <2> QED
    BY <2>3, <2>6 DEF Place
<1>11. Writing(t)' /\ Reading(t)' /\ Idle(t)'
  BY <1>7 DEF Writing, Writes, Reading, Reads, Idle
<1>12. \A g \in Files \ {f} :
         /\ size'[g] = size[g] /\ list'[g] = list[g] /\ content'[g] = content[g]
         /\ short'[g] = short[g] /\ writer'[g] = writer[g]
         /\ \A j \in 1..Len(list[g]), k \in 1..BlockSize :
               blocks'[list[g][j]].data[k] = blocks[list[g][j]].data[k]
  BY <1>5, <1>6
<1>13. \A u \in Clients \ {t} : /\ pc'[u] = pc[u] /\ call'[u] = call[u] /\ at'[u] = at[u]
                                /\ moved'[u] = moved[u] /\ hit'[u] = hit[u]
  BY <1>5, <1>7
<1>14. pc[t] \in Writes /\ f = call[t].file
  BY <1>1, <1>2 DEF Writes
<1> QED
  BY <1>2, <1>10, <1>11, <1>12, <1>13, <1>14, BytesFrame, Zenon
-----------------------------------------------------------------------------
(* The steps of a reader.                                                   *)

LEMMA BytesReader ==
  ASSUME BytesInv, NEW t \in Clients,
         UNCHANGED <<size, list, writer, content, short, blocks>>,
         \A u \in Clients \ {t} : /\ pc'[u] = pc[u] /\ call'[u] = call[u] /\ at'[u] = at[u]
                                  /\ moved'[u] = moved[u] /\ hit'[u] = hit[u],
         pc'[t] \in Reads, Reading(t)'
  PROVE  BytesInv'
<1>1. Writing(t)' /\ Idle(t)'
  BY DEF Writing, Idle, Reads, Writes
<1>2. UNCHANGED <<size, list, content, short, blocks>>
  OBVIOUS
<1>3. \A f \in Files : writer'[f] = NoClient => writer[f] = NoClient
  OBVIOUS
<1> QED
  BY <1>1, <1>2, <1>3, BytesInner, Zenon

LEMMA BytesStartRead ==
  ASSUME IInv, BytesInv, NEW t \in Clients, StartRead(t)
  PROVE  BytesInv'
<1> USE DEF blockVars, cacheVars, Goto
<1>0. PICK f \in 1..files : BeginRead(t, f)
  BY DEF StartRead
<1>1. PICK r \in Ranges :
        /\ r[1] < size[f]
        /\ call' = [call EXCEPT ![t] =
              [Arguments(f, r, 0) EXCEPT
                  !.size = IF r[1] + r[2] > size[f] THEN size[f] - r[1] ELSE r[2]]]
        /\ at' = [at EXCEPT ![t] = r[1] \div BlockSize]
  BY <1>0, Zenon DEF BeginRead
<1>2. f \in Files /\ size[f] \in Nat /\ r[1] \in Nat /\ r[2] \in Nat \ {0}
  BY DEF IInv, Types, FileTypes, Files
<1>3. PICK n : n = IF r[1] + r[2] > size[f] THEN size[f] - r[1] ELSE r[2]
  OBVIOUS
<1>4. n \in Nat \ {0} /\ r[1] + n <= size[f]
  BY <1>1, <1>2, <1>3
<1>5. PICK c : c = [Arguments(f, r, 0) EXCEPT !.size = n]
  OBVIOUS
<1>6. c \in CallSet /\ c.size = n /\ c.file = f /\ c.offset = r[1]
  BY <1>2, <1>4, <1>5 DEF Arguments, CallSet, Files
<1>7. FirstBlock(c) = r[1] \div BlockSize /\ Reach(c, FirstBlock(c)) = 0
  <2>1. 0 \in Nat
    OBVIOUS
  <2> QED
    BY <1>4, <1>6, <2>1, ReachGrows DEF FirstBlock
<1>8. /\ call' = [call EXCEPT ![t] = c] /\ at' = [at EXCEPT ![t] = FirstBlock(c)]
      /\ pc' = [pc EXCEPT ![t] = "lookup"] /\ pc[t] = "idle"
      /\ UNCHANGED <<size, list, writer, content, short, blocks, moved, hit>>
  <2>1. call' = [call EXCEPT ![t] = c]
    BY <1>1, <1>3, <1>5, Zenon
  <2> QED
    BY <1>0, <1>1, <1>7, <2>1 DEF BeginRead
<1>9. /\ call'[t] = c /\ at'[t] = FirstBlock(c) /\ pc'[t] = "lookup"
      /\ \A u \in Clients \ {t} : pc'[u] = pc[u] /\ call'[u] = call[u] /\ at'[u] = at[u]
  BY <1>8 DEF IInv, Types, CallTypes
<1>10. moved'[t] = <<>>
  BY <1>8 DEF BytesInv, Idle
<1>11. Reading(t)'
  <2>1. ReadTo(t)' = 0
    BY <1>7, <1>9 DEF ReadTo, Inserting
  <2>2. Len(moved'[t]) = 0
    BY <1>10
  <2>3. call'[t].offset + call'[t].size <= size'[call'[t].file]
    BY <1>4, <1>6, <1>8, <1>9
  <2> QED
    BY <2>1, <2>2, <2>3 DEF Reading
<1> QED
  BY <1>8, <1>9, <1>11, BytesReader DEF Reads

(* A hit may leave a read with more than it was asked for.                    *)
LEMMA BytesScan ==
  ASSUME IInv, BytesInv, NEW t \in Clients, Scan(t)
  PROVE  BytesInv'
<1> USE DEF fileVars, blockVars, Goto
<1>1. /\ UNCHANGED <<size, list, writer, content, short, blocks, call, at>> /\ pc[t] = "scan"
      /\ pc \in [Clients -> Labels] /\ hit \in [Clients -> BOOLEAN]
      /\ moved \in [Clients -> Seq(Byte)]
  BY DEF Scan, IInv, Types, CallTypes
<1>2. Reading(t) /\ pc[t] \in Reads
  BY <1>1 DEF BytesInv, Reads
<1>3. \/ UNCHANGED <<moved, hit>> /\ (pc' = [pc EXCEPT ![t] = "miss"] \/ UNCHANGED pc)
      \/ /\ Copy(t, entries[index[t]].data, "hit")
         /\ hit' = [hit EXCEPT ![t] = hit[t] \/ fault' = "none"]
  BY Zenon DEF Scan
<1>4. CASE UNCHANGED <<moved, hit>> /\ (pc' = [pc EXCEPT ![t] = "miss"] \/ UNCHANGED pc)
  <2>1. pc'[t] \in {"scan", "miss"} /\ \A u \in Clients \ {t} : pc'[u] = pc[u]
    BY <1>1, <1>4
  <2>2. ReadTo(t)' = ReadTo(t)
    BY <1>1, <2>1 DEF ReadTo, Inserting
  <2>3. Reading(t)'
    BY <1>1, <1>2, <1>4, <2>2 DEF Reading
  <2> QED
    BY <1>1, <1>4, <2>1, <2>3, BytesReader DEF Reads
<1>5. CASE /\ Copy(t, entries[index[t]].data, "hit")
           /\ hit' = [hit EXCEPT ![t] = hit[t] \/ fault' = "none"]
  <2>1. \A u \in Clients \ {t} : hit'[u] = hit[u]
    BY <1>1, <1>5, Zenon
  <2>2. CASE fault' = "none"
    <3>1. hit'[t]
      BY <1>1, <1>5, <2>2, Zenon
    <3>2. PICK q : moved' = [moved EXCEPT ![t] = q] /\ pc' = [pc EXCEPT ![t] = "hit"]
      BY <1>5, <2>2 DEF Copy
    <3>3. /\ pc'[t] = "hit"
          /\ \A u \in Clients \ {t} : moved'[u] = moved[u] /\ pc'[u] = pc[u]
      BY <1>1, <3>2
    <3>4. Reading(t)'
      BY <1>1, <1>2, <3>1, <3>3 DEF Reading
    <3> QED
      BY <1>1, <2>1, <3>3, <3>4, BytesReader DEF Reads
  <2>3. CASE fault' # "none"
    <3>1. UNCHANGED <<moved, pc>>
      BY <1>5, <2>3 DEF Copy
    <3>2. hit[t] => hit'[t]
      BY <1>1, <1>5, Zenon
    <3>3. Reading(t)'
      <4>1. ReadTo(t)' = ReadTo(t)
        BY <1>1, <3>1 DEF ReadTo
      <4> QED
        BY <1>1, <1>2, <3>1, <3>2, <4>1 DEF Reading
    <3> QED
      BY <1>1, <2>1, <3>1, <3>3, BytesReader DEF Reads
  <2> QED
    BY <2>2, <2>3
<1> QED
  BY <1>3, <1>4, <1>5

(* The steps around it, up to the next turn after a block that has been read.  *)
LEMMA BytesInsert ==
  ASSUME IInv, BytesInv, NEW t \in Clients,
         \/ Lookup(t) \/ Unlock(t) \/ InsertLock(t) \/ TestRoom(t)
         \/ TakeEntry(t) \/ Grow(t) \/ Name(t) \/ Fill(t)
  PROVE  BytesInv'
<1> USE DEF fileVars, blockVars, cacheVars, callVars, Goto
<1>1. /\ UNCHANGED <<size, list, writer, content, short, blocks, call, moved, hit>>
      /\ pc[t] \in {"lookup", "hit", "miss", "insert"} \cup Inserting
      /\ pc \in [Clients -> Labels] /\ at \in [Clients -> Nat]
  BY DEF Lookup, Unlock, InsertLock, TestRoom, TestBelow, TakeEntry, Grow, Name, Fill, Inserting,
         IInv, Types, CallTypes
<1>2. /\ pc'[t] \in Reads /\ \A u \in Clients \ {t} : pc'[u] = pc[u] /\ at'[u] = at[u]
      /\ ReadTo(t)' = ReadTo(t)
  <2>1. CASE pc[t] = "inserted" /\ Turn(t)
    <3>1. PICK l \in {"read", "lookup"} : pc' = [pc EXCEPT ![t] = l]
      BY <2>1 DEF Turn
    <3>2. /\ pc'[t] = l /\ at'[t] = at[t] + 1
          /\ \A u \in Clients \ {t} : pc'[u] = pc[u] /\ at'[u] = at[u]
      BY <1>1, <2>1, <3>1 DEF Turn
    <3> QED
      BY <1>1, <2>1, <3>1, <3>2 DEF ReadTo, Reads, Inserting
  <2>2. CASE /\ UNCHANGED at /\ pc[t] \in {"lookup", "hit", "miss"}
             /\ \E l \in {"scan", "fetch"} : pc' = [pc EXCEPT ![t] = l]
    <3>1. pc'[t] \in {"scan", "fetch"} /\ \A u \in Clients \ {t} : pc'[u] = pc[u]
      BY <1>1, <2>2
    <3> QED
      BY <1>1, <2>2, <3>1 DEF ReadTo, Reads, Inserting
  <2>3. CASE /\ UNCHANGED at /\ pc[t] \in {"insert"} \cup Inserting
             /\ \E l \in Inserting : pc' = [pc EXCEPT ![t] = l]
    <3>1. pc'[t] \in Inserting /\ \A u \in Clients \ {t} : pc'[u] = pc[u]
      BY <1>1, <2>3
    <3> QED
      BY <1>1, <2>3, <3>1 DEF ReadTo, Reads, Inserting
  <2>4. [pc EXCEPT ![t] = pc[t]] = pc
    BY <1>1
  <2>5. CASE Lookup(t) \/ Unlock(t)
    BY <2>1, <2>2, <2>5 DEF Lookup, Unlock
  <2>6. CASE InsertLock(t) \/ TestRoom(t) \/ TakeEntry(t) \/ Grow(t) \/ Name(t) \/ Fill(t)
    BY <2>3, <2>4, <2>6 DEF InsertLock, TestRoom, TestBelow, TakeEntry, Grow, Name, Fill, Inserting
  <2> QED
    BY <2>5, <2>6
<1>3. Reading(t)'
  <2>1. Reading(t) /\ pc[t] \in Reads
    BY <1>1 DEF BytesInv, Reads, Inserting
  <2> QED
    BY <1>1, <1>2, <2>1 DEF Reading
<1> QED
  BY <1>1, <1>2, <1>3, BytesReader

LEMMA BytesEndRead ==
  ASSUME IInv, BytesInv, NEW t \in Clients, EndRead(t)
  PROVE  BytesInv'
<1> USE DEF blockVars, cacheVars, Goto
<1>1. /\ UNCHANGED <<size, list, writer, content, short, blocks>>
      /\ pc' = [pc EXCEPT ![t] = "idle"] /\ moved' = [moved EXCEPT ![t] = <<>>]
      /\ hit' = [hit EXCEPT ![t] = FALSE]
      /\ call' = [call EXCEPT ![t] = NoCall] /\ at' = [at EXCEPT ![t] = 0]
  BY DEF EndRead, Leave
<1>2. /\ pc'[t] = "idle" /\ moved'[t] = <<>>
      /\ \A u \in Clients \ {t} : /\ pc'[u] = pc[u] /\ moved'[u] = moved[u] /\ hit'[u] = hit[u]
                                  /\ call'[u] = call[u] /\ at'[u] = at[u]
  BY <1>1 DEF IInv, Types, CallTypes
<1>3. Writing(t)' /\ Reading(t)' /\ Idle(t)'
  BY <1>2 DEF Writing, Reading, Idle, Writes, Reads
<1> QED
  BY <1>1, <1>2, <1>3, BytesInner

(* What is copied from a block is what was written to its place in the file.   *)
LEMMA PieceRead ==
  ASSUME IInv, LockInv, HistoryInv, BytesInv, NEW t \in Clients, pc[t] = "fetch",
         PieceSize(call[t], at[t]) >= 0, ~short[call[t].file],
         NEW k \in 1..PieceSize(call[t], at[t])
  PROVE  Piece(call[t], at[t], blocks[Id(t)].data)[k]
           = content[call[t].file][call[t].offset + (Reach(call[t], at[t]) + k)]
<1>1. PICK c, f, i, n, b, r, o, d :
        /\ c = call[t] /\ f = c.file /\ i = at[t] /\ n = PieceSize(c, i) /\ b = BlockOffset(c, i)
        /\ r = Reach(c, i) /\ o = c.offset /\ d = blocks[Id(t)].data
  OBVIOUS
<1>2. /\ c \in CallSet /\ c.size > 0 /\ f \in Files /\ i \in Nat /\ FirstBlock(c) <= i
      /\ i <= LastBlock(c) /\ i < Len(list[f]) /\ o \in Nat /\ c.size \in Nat
      /\ t \in readers[f] /\ Types /\ Client(t)
  <2>1. Types /\ Client(t) /\ call[t] \in CallSet /\ at[t] \in Nat
    BY DEF IInv, ClientInv, Types, CallTypes
  <2>2. /\ call[t].size > 0 /\ call[t].file \in Files /\ FirstBlock(call[t]) <= at[t]
        /\ at[t] <= LastBlock(call[t]) /\ at[t] < Len(list[call[t].file])
    <3>1. FirstBlock(call[t]) \in Nat
      BY <2>1, CallBlocks DEF Client
    <3> QED
      BY <2>1, <3>1 DEF Client, Blocks, Writes, Reads
  <2>3. t \in readers[call[t].file]
    BY <2>2 DEF LockInv, Reads
  <2>4. call[t].offset \in Nat /\ call[t].size \in Nat
    BY <2>1 DEF CallSet
  <2> QED
    BY <1>1, <2>1, <2>2, <2>3, <2>4
<1>3. n \in Nat /\ b \in Nat /\ r \in Nat /\ b + n <= BlockSize /\ r + n <= c.size
      /\ Place(i + 1, b + k) = o + (r + k)
  <2>1. /\ i * BlockSize \in Nat /\ PieceSize(c, i) \in Nat /\ BlockOffset(c, i) \in Nat
        /\ i * BlockSize + BlockOffset(c, i) = c.offset + Reach(c, i)
        /\ BlockOffset(c, i) + PieceSize(c, i) <= BlockSize
        /\ Reach(c, i + 1) = Reach(c, i) + PieceSize(c, i)
    BY <1>1, <1>2, PieceReach
  <2>2. Reach(c, i) \in Nat /\ Reach(c, i + 1) <= c.size
    <3>1. i + 1 \in Nat
      BY <1>2
    <3> QED
      BY <1>2, <3>1, ReachGrows
  <2>3. b + k \in Nat /\ Place(i + 1, b + k) = i * BlockSize + (b + k)
    <3>1. b + k \in Nat
      BY <1>1, <2>1
    <3> QED
      BY <1>2, <3>1, PlaceOf, Zenon
  <2>4. PICK ib \in Nat, e \in Nat : /\ ib = i * BlockSize /\ e = Reach(c, i + 1) /\ ib + b = o + r
                                   /\ e = r + n /\ b + n <= BlockSize /\ e <= c.size
    <3>1. Reach(c, i + 1) \in Nat
      BY <2>1, <2>2
    <3> QED
      BY <1>1, <2>1, <2>2, <3>1, Zenon
  <2>5. n \in Nat /\ b \in Nat /\ r \in Nat /\ r + n <= c.size
    BY <1>1, <2>1, <2>2, <2>4
  <2>6. ib + (b + k) = o + (r + k)
    <3>1. k \in Nat
      BY <1>1, <2>5
    <3> QED
      BY <1>2, <2>4, <2>5, <3>1
  <2> QED
    BY <2>3, <2>4, <2>5, <2>6
<1>4. b + k \in 1..BlockSize /\ o + (r + k) <= size[f] /\ k \in 1..n
  <2>1. o + c.size <= size[f] /\ size[f] \in Nat
    BY <1>1, <1>2 DEF BytesInv, Reading, Reads, Types, FileTypes
  <2>2. k \in 1..n
    BY <1>1
  <2> QED
    BY <1>2, <1>3, <2>1, <2>2
<1>5. d[b + k] = content[f][o + (r + k)]
  <2>1. writer[f] = NoClient
    BY <1>2 DEF LockInv
  <2>2. i + 1 \in 1..Len(list[f])
    <3>1. Len(list[f]) \in Nat
      BY <1>2, ListLengths
    <3> QED
      BY <1>2, <3>1
  <2>3. InBlock(f, i + 1, b + k) = Old(f, Place(i + 1, b + k))
    <3>1. Kept(f) /\ ~short[f]
      BY <1>1, <1>2 DEF BytesInv
    <3> QED
      BY <1>4, <2>1, <2>2, <3>1, Zenon DEF Kept
  <2>4. InBlock(f, i + 1, b + k) = d[b + k]
    BY <1>1 DEF InBlock, Id
  <2>5. Old(f, o + (r + k)) = content[f][o + (r + k)]
    BY <1>4 DEF Old
  <2> QED
    BY <1>3, <2>3, <2>4, <2>5
<1>6. Piece(c, i, d)[k] = d[b + k]
  <2>1. d \in Data
    <3>1. Id(t) \in 1..Len(blocks)
      BY <1>1, <1>2, IdInBlocks DEF Blocks
    <3>2. blocks[Id(t)] \in BlockSet
      BY <1>2, <3>1, ElementOfSeq DEF Types, TableTypes
    <3> QED
      BY <1>1, <3>2 DEF BlockSet
  <2>2. \A j \in (b + 1)..(b + n) : d[j] \in Byte
    BY <1>3, <2>1 DEF Data
  <2>3. \A j \in 1..((b + n) - (b + 1) + 1) : SubSeq(d, b + 1, b + n)[j] = d[b + 1 + j - 1]
    BY <1>3, <2>2, SubSeqProperties
  <2>4. k \in 1..((b + n) - (b + 1) + 1) /\ b + 1 + k - 1 = b + k
    BY <1>3, <1>4
  <2>5. Piece(c, i, d) = SubSeq(d, b + 1, b + n)
    BY <1>1 DEF Piece
  <2> QED
    BY <2>3, <2>4, <2>5
<1> QED
  BY <1>1, <1>5, <1>6

LEMMA BytesFetch ==
  ASSUME IInv, LockInv, HistoryInv, BytesInv, fault = "none", NEW t \in Clients, Fetch(t)
  PROVE  BytesInv'
<1> USE DEF fileVars, blockVars, cacheVars, Goto
<1>0. CASE fault' # "none"
  BY <1>0, BytesSame DEF Fetch, Copy, Turn
<1> SUFFICES ASSUME fault' = "none" PROVE BytesInv'
  BY <1>0
<1>1. /\ UNCHANGED <<size, list, writer, content, short, blocks, call, hit>> /\ pc[t] = "fetch"
  BY DEF Fetch
<1>2. PICK c, f, i, n, r, m : /\ c = call[t] /\ f = c.file /\ i = at[t] /\ n = PieceSize(c, i)
                              /\ r = Reach(c, i) /\ m = moved[t]
  OBVIOUS
<1>3. /\ Types /\ Client(t) /\ c \in CallSet /\ c.size > 0 /\ i \in Nat /\ FirstBlock(c) <= i
      /\ i <= LastBlock(c) /\ i < Blocks(t) /\ m \in Seq(Byte)
  <2>1. Types /\ Client(t) /\ call[t] \in CallSet /\ at[t] \in Nat /\ moved[t] \in Seq(Byte)
    BY DEF IInv, ClientInv, Types, CallTypes
  <2>2. /\ call[t].size > 0 /\ at[t] >= FirstBlock(call[t])
        /\ at[t] <= LastBlock(call[t]) /\ at[t] < Blocks(t)
    BY <1>1, <2>1 DEF Client, Writes, Reads
  <2>3. FirstBlock(call[t]) \in Nat
    BY <2>1, <2>2, CallBlocks
  <2> QED
    BY <1>2, <2>1, <2>2, <2>3
<1>4. /\ r \in Nat /\ Reach(c, i + 1) \in Nat /\ r <= Reach(c, i + 1) /\ Len(m) \in Nat
  <2>1. i + 1 \in Nat
    BY <1>3
  <2> QED
    BY <1>2, <1>3, <2>1, ReachGrows, LenProperties
<1>5. /\ c.offset + c.size <= size[f]
      /\ ~hit[t] => Len(m) <= r
      /\ ~hit[t] /\ ~short[f] /\ Len(m) = r =>
            \A k \in 1..Len(m) : m[k] = content[f][c.offset + k]
  <2>1. Reading(t) /\ pc[t] \in Reads
    BY <1>1 DEF BytesInv, Reads
  <2>2. ReadTo(t) = r
    BY <1>1, <1>2 DEF ReadTo, Inserting
  <2> QED
    BY <1>2, <2>1, <2>2 DEF Reading
<1>6. PICK d : d = blocks[Id(t)].data
  OBVIOUS
<1>7. CASE /\ n >= 0 /\ moved' = [moved EXCEPT ![t] = m \o Piece(c, i, d)]
           /\ pc' = [pc EXCEPT ![t] = "insert"] /\ UNCHANGED at
  <2>1. PICK s : s = Piece(c, i, d)
    OBVIOUS
  <2>2. s \in Seq(Byte) /\ Len(s) = n /\ n \in Nat
    <3>1. d \in Data
      <4>1. Id(t) \in 1..Len(blocks)
        BY <1>1, <1>2, <1>3, IdInBlocks
      <4>2. blocks[Id(t)] \in BlockSet
        BY <1>3, <4>1, ElementOfSeq DEF Types, TableTypes
      <4> QED
        BY <1>6, <4>2 DEF BlockSet
    <3>2. PICK b : b = BlockOffset(c, i)
      OBVIOUS
    <3>3. b \in Nat /\ n \in Nat /\ b + n <= BlockSize
      BY <1>2, <1>3, <1>7, <3>2, PieceReach
    <3>4. \A j \in (b + 1)..(b + n) : d[j] \in Byte
      BY <3>1, <3>3 DEF Data
    <3>5. s = SubSeq(d, b + 1, b + n)
      BY <1>2, <2>1, <3>2 DEF Piece
    <3>6. s \in Seq(Byte) /\ Len(s) = IF b + 1 <= b + n THEN (b + n) - (b + 1) + 1 ELSE 0
      BY <3>3, <3>4, <3>5, SubSeqProperties
    <3> QED
      BY <3>3, <3>6
  <2>3. /\ moved'[t] = m \o s /\ pc'[t] = "insert"
        /\ \A u \in Clients \ {t} : moved'[u] = moved[u] /\ pc'[u] = pc[u]
    BY <1>7, <2>1 DEF IInv, Types, CallTypes
  <2>4. /\ Len(m \o s) = Len(m) + n
        /\ \A k \in 1..(Len(m) + n) : (m \o s)[k] = IF k <= Len(m) THEN m[k] ELSE s[k - Len(m)]
    BY <1>3, <2>2, ConcatProperties
  <2>5. Reach(c, i + 1) = r + n
    BY <1>2, <1>3, <1>7, PieceReach
  <2>6. ASSUME ~hit[t], ~short[f], Len(m) = r, NEW k \in 1..(r + n)
        PROVE  (m \o s)[k] = content[f][c.offset + k]
    <3>1. CASE k <= r
      <4>1. k \in 1..Len(m)
        BY <1>4, <2>6, <3>1
      <4>2. (m \o s)[k] = m[k]
        BY <2>4, <2>6, <3>1
      <4> QED
        BY <1>5, <2>6, <4>1, <4>2, Zenon
    <3>2. CASE ~(k <= r)
      <4>1. PICK q \in 1..n : k = r + q
        <5>1. k - r \in 1..n /\ k = r + (k - r)
          BY <1>4, <2>2, <3>2
        <5> QED
          BY <5>1
      <4>2. (m \o s)[k] = s[q]
        <5>1. k - Len(m) = q
          BY <1>4, <2>6, <4>1
        <5> QED
          BY <2>4, <2>6, <3>2, <5>1
      <4>3. s[q] = content[f][c.offset + (r + q)]
        <5>1. PieceSize(call[t], at[t]) >= 0 /\ ~short[call[t].file]
              /\ q \in 1..PieceSize(call[t], at[t])
          BY <1>2, <1>7, <2>6
        <5>2. Piece(call[t], at[t], blocks[Id(t)].data)[q]
                = content[call[t].file][call[t].offset + (Reach(call[t], at[t]) + q)]
          BY <1>1, <5>1, PieceRead, Zenon
        <5> QED
          BY <1>2, <1>6, <2>1, <5>2
      <4> QED
        BY <4>1, <4>2, <4>3
    <3> QED
      BY <3>1, <3>2
  <2>7. Reading(t)'
    <3>1. ReadTo(t)' = r + n
      BY <1>1, <1>2, <1>7, <2>3, <2>5 DEF ReadTo
    <3>2. Len(moved'[t]) = Len(m) + n
      BY <2>3, <2>4
    <3>3. call'[t] = c /\ size'[f] = size[f] /\ short'[f] = short[f] /\ hit'[t] = hit[t]
          /\ content'[f] = content[f] /\ f = c.file
      BY <1>1, <1>2
    <3>4. /\ Len(m) <= r => Len(m) + n <= r + n
          /\ Len(m) + n = r + n => Len(m) = r
      BY <1>4, <2>2
    <3>5. ~hit[t] /\ ~short[f] /\ Len(m) + n = r + n =>
            \A k \in 1..(Len(m) + n) : (m \o s)[k] = content[f][c.offset + k]
      BY <2>6, <3>4
    <3>6. call'[t].offset + call'[t].size <= size'[call'[t].file]
      BY <1>5, <3>3
    <3>7. ~hit'[t] => Len(moved'[t]) <= ReadTo(t)'
      BY <1>5, <3>1, <3>2, <3>3, <3>4
    <3>8. ~hit'[t] /\ ~short'[call'[t].file] /\ Len(moved'[t]) = ReadTo(t)' =>
            \A k \in 1..Len(moved'[t]) :
               moved'[t][k] = content'[call'[t].file][call'[t].offset + k]
      BY <2>3, <3>1, <3>2, <3>3, <3>5
    <3> QED
      BY <3>6, <3>7, <3>8, Zenon DEF Reading
  <2>8. /\ pc'[t] \in Reads
        /\ \A u \in Clients \ {t} : /\ pc'[u] = pc[u] /\ call'[u] = call[u] /\ at'[u] = at[u]
                                    /\ moved'[u] = moved[u] /\ hit'[u] = hit[u]
    BY <1>1, <1>7, <2>3 DEF Reads
  <2> QED
    BY <1>1, <2>7, <2>8, BytesReader
<1>8. CASE Turn(t) /\ UNCHANGED moved
  <2>1. PICK l \in {"read", "lookup"} : pc' = [pc EXCEPT ![t] = l]
    BY <1>8 DEF Turn
  <2>2. /\ pc'[t] = l /\ at'[t] = i + 1
        /\ \A u \in Clients \ {t} : pc'[u] = pc[u] /\ at'[u] = at[u]
    BY <1>2, <1>8, <2>1 DEF Turn, IInv, Types, CallTypes
  <2>3. Reading(t)'
    <3>1. ReadTo(t)' = Reach(c, i + 1)
      BY <1>1, <1>2, <2>1, <2>2 DEF ReadTo, Inserting
    <3>2. /\ Len(m) <= r => Len(m) <= Reach(c, i + 1)
          /\ Len(m) <= r /\ Len(m) = Reach(c, i + 1) => Len(m) = r
      BY <1>4
    <3>3. call'[t] = c /\ moved'[t] = m /\ UNCHANGED <<size, short, content, hit>> /\ f = c.file
      BY <1>1, <1>2, <1>8
    <3> QED
      BY <1>5, <3>1, <3>2, <3>3 DEF Reading
  <2>4. pc'[t] \in Reads
    BY <2>1, <2>2 DEF Reads
  <2> QED
    BY <1>1, <1>8, <2>2, <2>3, <2>4, BytesReader
<1>9. \/ /\ n >= 0 /\ moved' = [moved EXCEPT ![t] = m \o Piece(c, i, d)]
         /\ pc' = [pc EXCEPT ![t] = "insert"] /\ UNCHANGED at
      \/ Turn(t) /\ UNCHANGED moved
  <2>1. n \in Int
    BY <1>2, <1>3, PieceFits
  <2>2. \/ Copy(t, d, "insert") /\ UNCHANGED at
        \/ Turn(t) /\ UNCHANGED moved
    BY <1>6 DEF Fetch
  <2>3. Copy(t, d, "insert") => n >= 0
    BY <1>2, <2>1 DEF Copy, CopyFault
  <2> QED
    BY <1>2, <2>2, <2>3 DEF Copy
<1> QED
  BY <1>7, <1>8, <1>9

-----------------------------------------------------------------------------

LEMMA BytesStep ==
  ASSUME IInv, LockInv, HistoryInv, BytesInv, fault = "none", NEW t \in Clients, Write(t) \/ Read(t)
  PROVE  BytesInv'
BY BytesStartWrite, BytesExtend, BytesAppend, BytesStore, BytesEndWrite, BytesStartRead, BytesScan,
   BytesFetch, BytesInsert, BytesEndRead DEF Write, Read

(* A read that returns what it was asked for has read what was written.       *)
LEMMA ColdFromBytes ==
  ASSUME IInv, HistoryInv, BytesInv
  PROVE  ColdReadsTrue
<1> SUFFICES ASSUME NEW t \in Clients, pc[t] = "read", ~hit[t], ~short[call[t].file],
                    Len(moved[t]) = call[t].size
             PROVE  moved[t] = SubSeq(content[call[t].file], call[t].offset + 1,
                                      call[t].offset + call[t].size)
  BY DEF ColdReadsTrue
<1>1. PICK c, f, m, w, o, n :
        /\ c = call[t] /\ f = c.file /\ m = moved[t] /\ w = content[f] /\ o = c.offset /\ n = c.size
  OBVIOUS
<1>2. /\ c \in CallSet /\ n > 0 /\ f \in Files /\ o \in Nat /\ n \in Nat /\ m \in Seq(Byte)
      /\ Len(m) = n /\ at[t] \in Nat
  <2>1. Client(t) /\ call[t] \in CallSet /\ moved[t] \in Seq(Byte) /\ at[t] \in Nat
    BY DEF IInv, ClientInv, Types, CallTypes
  <2>2. call[t].file \in Files /\ call[t].size > 0
    BY <2>1 DEF Client
  <2> QED
    BY <1>1, <2>1, <2>2 DEF CallSet
<1>3. o + n <= size[f] /\ \A k \in 1..n : m[k] = w[o + k]
  <2>1. Reading(t) /\ pc[t] \in Reads
    BY DEF BytesInv, Reads
  <2>2. ReadTo(t) = Reach(c, at[t])
    BY <1>1 DEF ReadTo, Inserting
  <2>3. Reach(c, at[t]) \in Nat /\ Reach(c, at[t]) <= n
    BY <1>1, <1>2, ReachGrows
  <2>4. Len(moved[t]) <= ReadTo(t) /\ o + n <= size[f]
    BY <1>1, <2>1 DEF Reading
  <2>5. Len(moved[t]) = ReadTo(t)
    BY <1>1, <1>2, <2>2, <2>3, <2>4
  <2>6. \A k \in 1..Len(moved[t]) : moved[t][k] = content[call[t].file][call[t].offset + k]
    BY <2>1, <2>5 DEF Reading
  <2> QED
    BY <1>1, <1>2, <2>4, <2>6
<1>4. w \in Seq(Byte) /\ Len(w) = size[f] /\ size[f] \in Nat
  BY <1>1, <1>2 DEF HistoryInv, IInv, Types, FileTypes
<1>5. PICK s : s = SubSeq(w, o + 1, o + n)
  OBVIOUS
<1>6. s \in Seq(Byte) /\ Len(s) = n /\ \A k \in 1..n : s[k] = w[o + k]
  <2>1. \A j \in (o + 1)..(o + n) : w[j] \in Byte
    <3>1. \A j \in (o + 1)..(o + n) : j \in 1..Len(w)
      BY <1>2, <1>3, <1>4
    <3> QED
      BY <1>4, <3>1, ElementOfSeq
  <2>2. /\ s \in Seq(Byte) /\ Len(s) = IF o + 1 <= o + n THEN (o + n) - (o + 1) + 1 ELSE 0
        /\ \A k \in 1..((o + n) - (o + 1) + 1) : s[k] = w[o + 1 + k - 1]
    BY <1>2, <1>5, <2>1, SubSeqProperties
  <2> QED
    BY <1>2, <2>2
<1>7. m = s
  <2>1. m \in Seq(Byte) /\ s \in Seq(Byte) /\ Len(m) = Len(s)
    BY <1>2, <1>6
  <2>2. \A k \in 1..Len(m) : m[k] = s[k]
    BY <1>2, <1>3, <1>6
  <2> QED
    BY <2>1, <2>2, SeqEqual
<1> QED
  BY <1>1, <1>5, <1>7

LEMMA ColdStep == IInv /\ ColdInv /\ [Next]_vars => ColdInv'
<1> SUFFICES ASSUME IInv, ColdInv, [Next]_vars PROVE ColdInv'
  OBVIOUS
<1> USE DEF fileVars, blockVars, cacheVars, callVars
<1>1. CASE UNCHANGED <<size, list, writer, readers, content, short, blocks, pc, call, at, moved, hit>>
  <2>1. BytesInv'
    BY <1>1, BytesSame DEF ColdInv
  <2> QED
    BY <1>1, <2>1 DEF ColdInv, LockInv, HistoryInv
<1>2. ASSUME NEW t \in Clients, fault = "none", Write(t) \/ Read(t) PROVE ColdInv'
  BY <1>2, LockStep, HistoryStep, BytesStep DEF ColdInv
<1>3. CASE UNCHANGED vars
  BY <1>1, <1>3 DEF vars
<1>4. CASE Next
  <2>1. PICK t \in Clients : fault = "none" /\ (CreateFile(t) \/ Write(t) \/ Read(t))
    BY <1>4 DEF Next
  <2>2. CASE CreateFile(t)
    BY <1>1, <2>2 DEF CreateFile
  <2> QED
    BY <1>2, <2>1, <2>2
<1> QED
  BY <1>3, <1>4

LEMMA ColdInductive == Spec => []ColdInv
<1>1. Init => ColdInv
  <2> SUFFICES ASSUME Init PROVE ColdInv
    OBVIOUS
  <2>1. LockInv
    BY DEF Init, LockInv, Writes, Reads
  <2>2. HistoryInv
    <3>1. content \in [Files -> Seq(Byte)] /\ \A f \in Files : Len(content[f]) = size[f]
      BY EmptySeq DEF Init
    <3>2. short \in [Files -> BOOLEAN]
      BY Zenon DEF Init
    <3> QED
      BY <3>1, <3>2 DEF HistoryInv
  <2>3. BytesInv
    BY DEF Init, BytesInv, Kept, Writing, Reading, Idle, Writes, Reads
  <2> QED
    BY <2>1, <2>2, <2>3 DEF ColdInv
<1> QED
  BY <1>1, Inductive, ColdStep, PTL DEF Spec

(* A read that was asked for a range, found nothing in the cache and got all  *)
(* of the range has what the last writes to it were given, for any number of  *)
(* threads, files and ranges, unless a write on the file returned less than   *)
(* its size.                                                                *)
THEOREM ColdReadsCorrect == Spec => []ColdReadsTrue
<1>1. IInv /\ ColdInv => ColdReadsTrue
  BY ColdFromBytes DEF ColdInv
<1> QED
  BY <1>1, Inductive, ColdInductive, PTL
-----------------------------------------------------------------------------
(* What ends a run.                                                        *)

(* A piece of a negative size is one of a range that wraps.                   *)
LEMMA PieceWraps ==
  ASSUME IInv, NEW t \in Clients, pc[t] \in (Writes \cup Reads) \ {"written", "read"},
         PieceSize(call[t], at[t]) < 0
  PROVE  Wraps(call[t])
<1>1. /\ call[t] \in CallSet /\ call[t].size > 0 /\ at[t] \in Nat
      /\ at[t] >= FirstBlock(call[t]) /\ at[t] <= LastBlock(call[t])
  BY DEF IInv, ClientInv, Client, Types, CallTypes, Writes, Reads
<1>2. FirstBlock(call[t]) \in Nat /\ LastBlock(call[t]) \in Nat
  BY <1>1, CallBlocks
<1>3. at[t] \in FirstBlock(call[t])..LastBlock(call[t])
  BY <1>1, <1>2
<1> QED
  BY <1>3 DEF Wraps

(* A copy goes wrong only where the range wraps or after a hit: without one,   *)
(* what a call has copied is no more than what lies before the block that it   *)
(* is at.                                                                   *)
LEMMA CopyCause ==
  ASSUME IInv, BytesInv, NEW t \in Clients, pc[t] \in {"store", "scan", "fetch"},
         NEW kind, kind = CopyFault(t, PieceSize(call[t], at[t]))
  PROVE  /\ kind \in {"none", "length", "buffer"}
         /\ kind = "length" => Wraps(call[t])
         /\ kind = "buffer" => hit[t]
<1>1. PICK c, i, n, len : c = call[t] /\ i = at[t] /\ n = PieceSize(c, i) /\ len = Len(moved[t])
  OBVIOUS
<1>2. /\ c \in CallSet /\ c.size > 0 /\ i \in Nat /\ FirstBlock(c) <= i /\ i <= LastBlock(c)
      /\ c.size <= c.buffer /\ len \in Nat /\ n \in Int /\ c.size \in Nat /\ c.buffer \in Nat
  <2>1. /\ Client(t) /\ call[t] \in CallSet /\ at[t] \in Nat /\ moved[t] \in Seq(Byte)
    BY DEF IInv, ClientInv, Types, CallTypes
  <2>2. /\ call[t].size > 0 /\ call[t].size <= call[t].buffer
        /\ at[t] >= FirstBlock(call[t]) /\ at[t] <= LastBlock(call[t])
    BY <2>1 DEF Client, Writes, Reads
  <2>3. FirstBlock(call[t]) \in Nat
    BY <2>1, <2>2, CallBlocks
  <2>4. n \in Int
    BY <1>1, <2>1, <2>2, PieceFits
  <2> QED
    BY <1>1, <2>1, <2>2, <2>3, <2>4, LenProperties DEF CallSet
<1>3. kind = IF n < 0 THEN "length" ELSE IF len + n > c.buffer THEN "buffer" ELSE "none"
  BY <1>1 DEF CopyFault
<1>4. n < 0 => Wraps(call[t])
  BY <1>1, PieceWraps DEF Writes, Reads
<1>5. ASSUME ~(n < 0), ~hit[t] PROVE len + n <= c.buffer
  <2>1. PICK r, e : r = Reach(c, i) /\ e = Reach(c, i + 1)
    OBVIOUS
  <2>2. len <= r
    <3>1. Writing(t) /\ Reading(t)
      BY DEF BytesInv
    <3>2. CASE pc[t] = "store"
      BY <1>1, <2>1, <3>1, <3>2 DEF Writing, Writes
    <3>3. CASE pc[t] \in {"scan", "fetch"}
      <4>1. ReadTo(t) = r
        BY <1>1, <2>1, <3>3 DEF ReadTo, Inserting
      <4> QED
        BY <1>1, <1>5, <3>1, <3>3, <4>1 DEF Reading, Reads
    <3> QED
      BY <3>2, <3>3
  <2>3. e = r + n /\ r \in Nat
    <3>1. n >= 0
      BY <1>2, <1>5
    <3>2. Reach(c, i + 1) = Reach(c, i) + PieceSize(c, i)
      BY <1>1, <1>2, <3>1, PieceReach
    <3> QED
      BY <1>1, <1>2, <2>1, <3>2, ReachGrows
  <2>4. e <= c.size
    <3>1. i + 1 \in Nat
      BY <1>2
    <3> QED
      BY <1>2, <2>1, <3>1, ReachGrows
  <2> QED
    BY <1>2, <2>2, <2>3, <2>4
<1>6. /\ kind \in {"none", "length", "buffer"}
      /\ kind = "length" => n < 0
      /\ kind = "buffer" => ~(n < 0) /\ len + n > c.buffer
  BY <1>3
<1>7. kind = "buffer" => hit[t]
  <2> SUFFICES ASSUME ~(n < 0), ~hit[t], len + n > c.buffer PROVE FALSE
    BY <1>6
  <2>1. len + n <= c.buffer
    BY <1>5
  <2> QED
    BY <1>2, <2>1
<1> QED
  BY <1>4, <1>6, <1>7

(* A NULL slot is one that the client that counted it has not stored yet.      *)
LEMMA NullCause ==
  ASSUME IInv, PendingInv, NEW id, MeetsNull(id)
  PROVE  \E u \in Clients : pc[u] = "slot"
<1>1. PICK j \in 1..count : table[j] = 0
  BY DEF MeetsNull
<1> QED
  BY <1>1 DEF PendingInv, Filled

LEMMA FaultOfWrite ==
  ASSUME IInv, BytesInv, PendingInv, NEW t \in Clients, StoreBlock(t), fault' # "none",
         stray' => served'
  PROVE  FaultsNeedCause'
<1>1. PICK kind : kind = CopyFault(t, PieceSize(call[t], at[t]))
  OBVIOUS
<1>2. /\ kind \in {"none", "length", "buffer"} /\ (kind = "length" => Wraps(call[t]))
      /\ (kind = "buffer" => hit[t])
  BY <1>1, CopyCause DEF StoreBlock
<1>3. UNCHANGED <<call, hit, pc, index, count, stray>>
  BY DEF StoreBlock, cacheVars
<1>4. (fault' = "null" /\ MeetsNull(Id(t))) \/ fault' = kind
  BY <1>1 DEF StoreBlock
<1>5. fault' = "null" => \E u \in Clients : pc[u] = "slot"
  BY <1>2, <1>4, NullCause
<1>6. Wraps(call[t])' = Wraps(call[t])
  BY <1>3 DEF Wraps
<1> QED
  BY <1>2, <1>3, <1>4, <1>5, <1>6 DEF FaultsNeedCause

LEMMA FaultOfFetch ==
  ASSUME IInv, BytesInv, PendingInv, fault = "none", NEW t \in Clients, Fetch(t), fault' # "none",
         stray' => served'
  PROVE  FaultsNeedCause'
<1>1. PICK kind : kind = CopyFault(t, PieceSize(call[t], at[t]))
  OBVIOUS
<1>2. /\ kind \in {"none", "length", "buffer"} /\ (kind = "length" => Wraps(call[t]))
      /\ (kind = "buffer" => hit[t])
  BY <1>1, CopyCause DEF Fetch
<1>3. UNCHANGED <<call, hit, pc, index, count, stray>>
  BY DEF Fetch, Copy, blockVars, cacheVars
<1>4. blocks[Id(t)].data # <<>>
  <2>1. blocks[Id(t)].data \in Data
    BY BlockRead DEF Fetch, Reads
  <2>2. Len(blocks[Id(t)].data) = BlockSize
    BY <2>1, LenProperties, SeqDef DEF Data
  <2> QED
    BY <2>2
<1>5. (fault' = "null" /\ MeetsNull(Id(t))) \/ fault' = kind
  BY <1>1, <1>4 DEF Fetch, Copy
<1>6. fault' = "null" => \E u \in Clients : pc[u] = "slot"
  BY <1>2, <1>5, NullCause
<1>7. Wraps(call[t])' = Wraps(call[t])
  BY <1>3 DEF Wraps
<1> QED
  BY <1>2, <1>3, <1>5, <1>6, <1>7 DEF FaultsNeedCause

(* The client that fills the entry in holds the mutex, unless it was released  *)
(* under it; so the one that meets the entry goes on without it.              *)
LEMMA FaultOfScan ==
  ASSUME IInv, CacheInv, BytesInv, PendingInv, fault = "none", NEW t \in Clients, Scan(t),
         fault' # "none", stray' => served'
  PROVE  FaultsNeedCause'
<1>1. PICK kind : kind = CopyFault(t, PieceSize(call[t], at[t]))
  OBVIOUS
<1>2. /\ kind \in {"none", "length", "buffer"} /\ (kind = "length" => Wraps(call[t]))
      /\ (kind = "buffer" => hit[t])
  BY <1>1, CopyCause DEF Scan
<1>3. UNCHANGED <<call, pc, index, count, stray>> /\ pc[t] = "scan"
  BY DEF Scan, Copy, blockVars
<1>4. hit[t] => hit'[t]
  <2>1. hit \in [Clients -> BOOLEAN]
    BY DEF IInv, Types, CallTypes
  <2>2. hit' = hit \/ hit' = [hit EXCEPT ![t] = hit[t] \/ fault' = "none"]
    BY Zenon DEF Scan
  <2> QED
    BY <2>1, <2>2, Zenon
<1>5. /\ index[t] \in Nat \ {0} /\ Id(t) # 0 /\ CacheCapacity \in Nat /\ cached \in Nat
  <2>1. Client(t) /\ index[t] \in Nat /\ Id(t) \in 1..Len(blocks)
    BY <1>3, BlockRead DEF Reads
  <2> QED
    BY <1>3, <2>1 DEF Client, IInv, Types, CacheTypes
<1>6. \/ fault' = "entries" /\ ~(cached <= CacheCapacity)
      \/ fault' = kind
      \/ /\ fault' = "data" /\ index[t] \in 1..CacheCapacity
         /\ entries[index[t]].data = <<>> /\ entries[index[t]].block_id # 0
  <2>1. \/ fault' = "entries" /\ index[t] <= cached /\ index[t] > CacheCapacity
        \/ /\ index[t] <= CacheCapacity /\ entries[index[t]].block_id = Id(t)
           /\ Copy(t, entries[index[t]].data, "hit")
    BY Zenon DEF Scan
  <2>2. Copy(t, entries[index[t]].data, "hit") =>
            fault' = IF entries[index[t]].data = <<>> THEN "data" ELSE kind
    BY <1>1 DEF Copy
  <2> QED
    BY <1>5, <2>1, <2>2
<1>7. fault' = "entries" => stray
  BY <1>2, <1>6 DEF CacheInv
<1>8. ASSUME fault' = "data"
      PROVE  (\E u \in Clients : pc[u] = "fill") /\ (stray \/ hit[t])
  <2>1. /\ index[t] \in 1..CacheCapacity
        /\ entries[index[t]].data = <<>> /\ entries[index[t]].block_id # 0
    BY <1>2, <1>6, <1>8
  <2>2. PICK u \in Clients : pc[u] = "fill"
    BY <2>1 DEF PendingInv, Whole
  <2>3. stray \/ hit[t] \/ cache_lock = t
    BY <1>3 DEF CacheInv, Searches, Searching
  <2>4. ~stray => cache_lock = u
    BY <2>2 DEF CacheInv, Holds, Inserting
  <2> QED
    BY <1>3, <2>2, <2>3, <2>4
<1>9. Wraps(call[t])' = Wraps(call[t])
  BY <1>3 DEF Wraps
<1> QED
  BY <1>2, <1>3, <1>4, <1>6, <1>7, <1>8, <1>9 DEF FaultsNeedCause

(* The table and the array of the cache.                                     *)
LEMMA FaultOfBounds ==
  ASSUME IInv, CacheInv, fault = "none", NEW t \in Clients, LoadCount(t) \/ Name(t),
         fault' # "none", stray' => served'
  PROVE  FaultsNeedCause'
<1>1. CASE LoadCount(t)
  <2>1. /\ fault' = "table" /\ count >= BlockCapacity /\ pc[t] = "load"
        /\ UNCHANGED <<pc, index, count>>
    BY <1>1 DEF LoadCount, blockVars
  <2>2. index[t] < BlockCapacity /\ index[t] \in Nat /\ count \in Nat /\ BlockCapacity \in Nat
    BY <2>1 DEF IInv, ClientInv, Client, Types, CallTypes, TableTypes
  <2> QED
    BY <2>1, <2>2 DEF FaultsNeedCause
<1>2. CASE Name(t)
  <2>1. fault' = "entries" /\ ~(index[t] <= CacheCapacity) /\ pc[t] = "name" /\ UNCHANGED stray
    <3>1. fault' = "entries" /\ index[t] > CacheCapacity /\ pc[t] = "name" /\ UNCHANGED stray
      BY <1>2 DEF Name
    <3> QED
      BY <3>1 DEF IInv, Types, CallTypes
  <2>2. stray
    BY <2>1 DEF CacheInv, Holds
  <2> QED
    BY <2>1, <2>2 DEF FaultsNeedCause
<1> QED
  BY <1>1, <1>2

LEMMA FaultStep ==
  IInv /\ CacheInv /\ CacheInv' /\ PendingInv /\ ColdInv /\ FaultsNeedCause /\ [Next]_vars
    => FaultsNeedCause'
<1> SUFFICES ASSUME IInv, CacheInv, CacheInv', PendingInv, ColdInv, FaultsNeedCause, [Next]_vars
             PROVE  FaultsNeedCause'
  OBVIOUS
<1>1. BytesInv /\ (stray' => served')
  BY DEF ColdInv, CacheInv
<1>2. CASE UNCHANGED vars
  BY <1>2 DEF vars, blockVars, cacheVars, callVars, FaultsNeedCause, Wraps
<1>3. CASE Next
  <2>1. PICK t \in Clients : fault = "none" /\ (CreateFile(t) \/ Write(t) \/ Read(t))
    BY <1>3 DEF Next
  <2>2. CASE fault' = "none"
    BY <1>1, <2>2 DEF FaultsNeedCause
  <2>3. CASE fault' # "none"
    <3>1. LoadCount(t) \/ StoreBlock(t) \/ Scan(t) \/ Fetch(t) \/ Name(t)
      BY <2>1, <2>3 DEF CreateFile, Write, Read, StartWrite, Extend, NewBlock, StoreSlot, StoreCount,
         EndWrite, StartRead, BeginRead, Lookup, Unlock, InsertLock, TestRoom, TestBelow, TakeEntry,
         Grow, Fill, EndRead
    <3> QED
      BY <1>1, <2>1, <2>3, <3>1, FaultOfWrite, FaultOfFetch, FaultOfScan, FaultOfBounds
  <2> QED
    BY <2>2, <2>3
<1> QED
  BY <1>2, <1>3

(* Nothing undefined happens without its cause, for any number of threads and  *)
(* any sizes: a length wraps only for a range that begins inside a block and   *)
(* ends with it, a read runs over its buffer only if the cache has served it,   *)
(* a NULL slot or an entry without data is another thread's that is about to   *)
(* store, the table overflows only past a test that another has overtaken, and  *)
(* the cache only once its mutex was released by a thread that did not hold    *)
(* it, which takes a hit.                                                    *)
THEOREM FaultsCorrect == Spec => []FaultsNeedCause
<1>1. Init => FaultsNeedCause
  <2> SUFFICES ASSUME Init PROVE FaultsNeedCause
    OBVIOUS
  <2>1. fault = "none" /\ ~stray
    BY Zenon DEF Init
  <2> QED
    BY <2>1 DEF FaultsNeedCause
<1> QED
  BY <1>1, Inductive, CacheInductive, PendingInductive, ColdInductive, FaultStep, PTL DEF Spec
================================================================================
