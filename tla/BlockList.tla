------------------------------ MODULE BlockList ------------------------------
(***************************************************************************)
(* meBlockList (core/containers/me_blocklist.{h,inl}): a chain of blocks   *)
(* of BLOCK_SIZE slots with stable indices.  A list is a record            *)
(*   used   : the indices whose free bit is clear (freeBits, all blocks),  *)
(*   counts : the count field of each block, in chain order,               *)
(*   size   : the size field of the list.                                  *)
(* The three are kept separately by the code, and push trusts count to     *)
(* tell whether a block has a free bit, so they are kept separately here.  *)
(* The slots' contents belong to the user of the list (ResourcePool).      *)
(***************************************************************************)
EXTENDS Naturals, Sequences, FiniteSets

CONSTANT BLOCK_SIZE

ASSUME BlockSizeAssumption == BLOCK_SIZE \in Nat \ {0}

ListOf(S) == [used : SUBSET S, counts : Seq(Nat), size : Nat]

EmptyList == [used |-> {}, counts |-> <<>>, size |-> 0]

BlockOf(i) == i \div BLOCK_SIZE

InBlock(S, b) == {i \in S : BlockOf(i) = b}

(* get and markDeleted assert that the block exists and the bit is clear.  *)
InUse(bl, i) == i \in bl.used

(* push walks to the first block that is not full, or appends one.         *)
PushBlock(bl, b) ==
    /\ b \in 0 .. Len(bl.counts)
    /\ \A c \in 0 .. b - 1 : bl.counts[c + 1] = BLOCK_SIZE
    /\ b < Len(bl.counts) => bl.counts[b + 1] # BLOCK_SIZE

(* ... and takes the first free bit of that block.                         *)
PushesAt(bl, i) ==
    /\ PushBlock(bl, BlockOf(i))
    /\ i \notin bl.used
    /\ \A j \in 0 .. i - 1 : BlockOf(j) = BlockOf(i) => j \in bl.used

Pushed(bl, i) ==
    LET b == BlockOf(i)
    IN  [used   |-> bl.used \cup {i},
         counts |-> IF b = Len(bl.counts)
                    THEN Append(bl.counts, 1)
                    ELSE [bl.counts EXCEPT ![b + 1] = @ + 1],
         size   |-> bl.size + 1]

(* Mutant: the block's count is not taken down.                            *)
DeletedCountKept(bl, i) ==
    [bl EXCEPT !.used = @ \ {i}, !.size = @ - 1]

Deleted(bl, i) ==
    [used   |-> bl.used \ {i},
     counts |-> [bl.counts EXCEPT ![BlockOf(i) + 1] = @ - 1],
     size   |-> bl.size - 1]

(* The counters agree with the free bits, so a block whose count is below  *)
(* BLOCK_SIZE really has a free bit and push never runs into its "something*)
(* has gone terribly wrong" assertion.                                     *)
CountsMatchFreeBits(bl) ==
    /\ \A b \in 0 .. Len(bl.counts) - 1 :
          bl.counts[b + 1] = Cardinality(InBlock(bl.used, b))
    /\ \A i \in bl.used : BlockOf(i) \in 0 .. Len(bl.counts) - 1
    /\ bl.size = Cardinality(bl.used)
=============================================================================
