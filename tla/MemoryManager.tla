---------------------------- MODULE MemoryManager ----------------------------
(***************************************************************************)
(* The memory manager of the simulation library, src/src/memory/memory_    *)
(* manager.c: a table of blocks under memory_lock, each block with a mutex *)
(* of its own.  free_shared_memory changes reference_count under the first *)
(* and replicate_memory under the second: an update of either can be lost, *)
(* a block can be freed under a caller that is about to write to it, and   *)
(* malloc can give the same memory to another block before it does.        *)
(*                                                                         *)
(* The contents of the blocks are left out; a call of replicate_memory     *)
(* begins on a block that is in the table.                                 *)
(***************************************************************************)
EXTENDS LibCommon

CONSTANTS MaxBlocks,    \* MAX_MEMORY_BLOCKS
          MaxReplicas,  \* MAX_NODES, length of replicated_nodes
          MaxAllocs,    \* bound: blocks ever allocated
          Addresses     \* where malloc may put a SharedMemory

ASSUME MemoryAssumption == MaxBlocks \in Nat /\ MaxReplicas \in Nat /\ MaxAllocs \in Nat

VARIABLES
    blocks,        \* memory_blocks[0 .. block_count - 1]
    nextMemoryId,  \* next_memory_id
    locked,        \* the addresses where mem->lock is held
    freeing,       \* the call inside free_shared_memory that has found its block
    copying,       \* calls between the read and the write of replicate_memory
    references,    \* history: the references to the block at an address, none lost
    overlaps,      \* history: pairs of overlapping calls on it that change its count
    reused         \* history: addresses allocated again under a late writer

memVars == <<blocks, nextMemoryId, locked, freeing, copying, references, overlaps, reused>>

Block == [memory_id : Nat, address : Addresses, owner_node : Nodes, reference_count : Int,
          replicas : SUBSET Nodes]

(* A call of free_shared_memory works on the block of an id, one of            *)
(* replicate_memory on what its pointer points to; with the count it has read. *)
Freeing == [client : Clients, memory_id : Nat, read : Int, stored : BOOLEAN]
Copying == [client : Clients, address : Addresses, read : Int]

MemoryFree     == freeing = {}
Idle(c)        == \A call \in freeing \cup copying : call.client # c
Replicating(a) == \E call \in copying : call.address = a
Used(a)        == \E k \in DOMAIN blocks : blocks[k].address = a
Releasing(b)   == \E call \in freeing : call.memory_id = b.memory_id

(* A block with another count, and another set of replicas.                  *)
With(b, count, nodes) ==
    [memory_id |-> b.memory_id, address |-> b.address, owner_node |-> b.owner_node,
     reference_count |-> count, replicas |-> nodes]

(* The pointers behind a freed block move up by one.                         *)
Without(s, k) == [j \in 1..(Len(s) - 1) |-> IF j < k THEN s[j] ELSE s[j + 1]]

-----------------------------------------------------------------------------

MemInit ==
    /\ blocks = <<>> /\ nextMemoryId = 1 /\ locked = {} /\ freeing = {} /\ copying = {}
    /\ references = [a \in Addresses |-> 0] /\ overlaps = [a \in Addresses |-> 0]
    /\ reused = {}

(* allocate_shared_memory; with a full table nothing changes.                *)
AllocateSharedMemory(owner) ==
    /\ MemoryFree
    /\ Len(blocks) < MaxBlocks
    /\ nextMemoryId <= MaxAllocs
    /\ \E a \in Addresses :
        /\ ~Used(a)
        /\ blocks' = Append(blocks, [memory_id |-> nextMemoryId, address |-> a,
                                     owner_node |-> owner, reference_count |-> 1,
                                     replicas |-> {}])
        /\ locked' = locked \ {a}
        /\ references' = [references EXCEPT ![a] = 1]
        /\ overlaps' = [overlaps EXCEPT ![a] = 0]
        /\ reused' = IF Replicating(a) THEN reused \cup {a} ELSE reused
    /\ nextMemoryId' = nextMemoryId + 1
    /\ UNCHANGED <<freeing, copying>>

-----------------------------------------------------------------------------
(* free_shared_memory, under memory_lock                                   *)

(* It finds the block and reads its count ...                                *)
FreeRead(c, k) ==
    /\ MemoryFree /\ Idle(c)
    /\ freeing' = {[client |-> c, memory_id |-> blocks[k].memory_id,
                    read |-> blocks[k].reference_count, stored |-> FALSE]}
    /\ overlaps' = [overlaps EXCEPT ![blocks[k].address] =
                       IF Replicating(blocks[k].address) THEN @ + 1 ELSE @]
    /\ UNCHANGED <<blocks, nextMemoryId, locked, copying, references, reused>>

(* ... stores it less one ...                                                *)
FreeStore(c) ==
    /\ \E call \in freeing, k \in DOMAIN blocks :
        /\ call.client = c /\ ~call.stored /\ blocks[k].memory_id = call.memory_id
        /\ blocks' = [blocks EXCEPT ![k] = With(@, call.read - 1, @.replicas)]
        /\ freeing' = {[client |-> c, memory_id |-> call.memory_id, read |-> call.read,
                        stored |-> TRUE]}
        /\ references' = [references EXCEPT ![blocks[k].address] = @ - 1]
    /\ UNCHANGED <<nextMemoryId, locked, copying, overlaps, reused>>

(* ... and tests it: the count it has stored, or the one it reads again.     *)
FreeTestAgainst(c, last) ==
    /\ \E call \in freeing, k \in DOMAIN blocks :
        /\ call.client = c /\ call.stored /\ blocks[k].memory_id = call.memory_id
        /\ \E tested \in {call.read - 1, blocks[k].reference_count} :
            IF tested <= last
            THEN /\ blocks' = Without(blocks, k)
                 /\ references' = [references EXCEPT ![blocks[k].address] = 0]
                 /\ overlaps' = [overlaps EXCEPT ![blocks[k].address] = 0]
                 /\ reused' = reused \ {blocks[k].address}
            ELSE UNCHANGED <<blocks, references, overlaps, reused>>
    /\ freeing' = {}
    /\ UNCHANGED <<nextMemoryId, locked, copying>>

(* Mutant: a block without references is kept.                               *)
FreeTestBelowZero(c) == FreeTestAgainst(c, -1)

FreeTest(c) == FreeTestAgainst(c, 0)

-----------------------------------------------------------------------------
(* replicate_memory                                                        *)

Room(block, target) ==
    target \notin block.replicas /\ Cardinality(block.replicas) < MaxReplicas

(* By a client, under the block's mutex only: the node is noted and the       *)
(* count read ...                                                            *)
ReplicateRead(c, k, target) ==
    /\ Idle(c) /\ blocks[k].address \notin locked
    /\ Room(blocks[k], target)
    /\ blocks' = [blocks EXCEPT ![k] = With(@, @.reference_count, @.replicas \cup {target})]
    /\ locked' = locked \cup {blocks[k].address}
    /\ copying' = copying \cup {[client |-> c, address |-> blocks[k].address,
                                 read |-> blocks[k].reference_count]}
    /\ overlaps' = [overlaps EXCEPT ![blocks[k].address] =
                       IF Releasing(blocks[k]) THEN @ + 1 ELSE @]
    /\ UNCHANGED <<nextMemoryId, freeing, references, reused>>

(* ... and written, to whatever block is at that address by now, before the   *)
(* mutex there is released.                                                  *)
ReplicateWrite(c) ==
    \E call \in copying :
        /\ call.client = c
        /\ blocks' = [k \in DOMAIN blocks |->
                         IF blocks[k].address = call.address
                         THEN With(blocks[k], call.read + 1, blocks[k].replicas)
                         ELSE blocks[k]]
        /\ locked' = locked \ {call.address}
        /\ copying' = copying \ {call}
        /\ references' = [references EXCEPT ![call.address] =
                             IF Used(call.address) THEN @ + 1 ELSE @]
        /\ UNCHANGED <<nextMemoryId, freeing, overlaps, reused>>

(* By the fault manager, under memory_lock, for the blocks of an owner: the    *)
(* whole call is a step, since nobody else changes a count under both mutexes. *)
Copied(block, target) ==
    IF Room(block, target)
    THEN With(block, block.reference_count + 1, block.replicas \cup {target}) ELSE block

ReplicateOwned(owner, target) ==
    /\ \A k \in DOMAIN blocks : blocks[k].owner_node = owner => blocks[k].address \notin locked
    /\ blocks' = [k \in DOMAIN blocks |->
                     IF blocks[k].owner_node = owner THEN Copied(blocks[k], target)
                     ELSE blocks[k]]
    /\ references' = [a \in Addresses |->
           IF \E k \in DOMAIN blocks : /\ blocks[k].address = a /\ blocks[k].owner_node = owner
                                       /\ Room(blocks[k], target)
           THEN references[a] + 1 ELSE references[a]]
    /\ UNCHANGED <<nextMemoryId, locked, freeing, copying, overlaps, reused>>

MemoryClient(c) ==
    \/ \E k \in DOMAIN blocks : FreeRead(c, k)
    \/ \E k \in DOMAIN blocks, target \in Nodes : ReplicateRead(c, k, target)
    \/ FreeStore(c) \/ FreeTest(c)
    \/ ReplicateWrite(c)

-----------------------------------------------------------------------------

MemTypeOK ==
    /\ blocks \in Seq(Block) /\ Len(blocks) <= MaxBlocks
    /\ nextMemoryId \in Nat
    /\ locked \subseteq Addresses
    /\ freeing \subseteq Freeing /\ copying \subseteq Copying
    /\ references \in [Addresses -> Int] /\ overlaps \in [Addresses -> Nat]
    /\ reused \subseteq Addresses

Table == {blocks[k] : k \in DOMAIN blocks}
Kept(id) == \E k \in DOMAIN blocks : blocks[k].memory_id = id

(* Under two mutexes a count loses at most one update for each pair of calls   *)
(* that overlap on the block itself: free_shared_memory frees no block with    *)
(* more references than that, and keeps none that has run out of them by       *)
(* more.  Without such a pair a block is freed with its last reference, no     *)
(* sooner and no later.  (Nothing is said of a block whose memory malloc has    *)
(* given it while a call that began on the freed one was still to write.)      *)
FreedAtLastReference ==
    [][\A b \in Table :
          b.address \notin reused =>
            /\ ~Kept(b.memory_id)' => references[b.address] <= overlaps[b.address]
            /\ Releasing(b) /\ freeing' = {} /\ Kept(b.memory_id)' =>
                  references[b.address] + overlaps[b.address] > 0]_memVars
=============================================================================
