------------------------------- MODULE BlockPool -------------------------------
(***************************************************************************)
(* What the heap promises the rest of the VM, with no free list in it: the *)
(* clients own a set of blocks, each an address and its bytes.  Alloc      *)
(* hands out a block whose bytes and header overlap no block handed out    *)
(* before, or fails; Free takes back exactly the blocks that are owned;    *)
(* and nothing but its owner's writes changes the bytes of a block.        *)
(*                                                                         *)
(* The actions constrain the next values directly, so that TLC can check a *)
(* step against them without enumerating contents.                         *)
(***************************************************************************)
EXTENDS HeapLayout, Integers

VARIABLES owned,    \* the owned blocks: address -> size
          bytes,    \* their contents: address -> (offset -> byte)
          answer    \* the last call: operation, argument and error

poolVars == <<owned, bytes, answer>>

NoBlocks == [a \in {} |-> 0]

Contents(n) == [0 .. (n - 1) -> Byte]

(* A block of n bytes at address a lies in RAM beside every owned block. *)
Vacant(a, n) ==
    /\ Extent(a, n) \subseteq Cell
    /\ \A b \in DOMAIN owned : Extent(a, n) \cap Extent(b, owned[b]) = {}

PoolInit ==
    /\ owned = NoBlocks
    /\ bytes = NoBlocks
    /\ answer = [op |-> "reset", arg |-> 0, err |-> "ok"]

PoolAlloc(a) ==
    /\ a \notin DOMAIN owned
    /\ DOMAIN owned' = DOMAIN owned \cup {a}
    /\ DOMAIN bytes' = DOMAIN owned'
    /\ owned'[a] \in Nat \ {0}
    /\ Vacant(a, owned'[a])
    /\ bytes'[a] \in Contents(owned'[a])
    /\ \A b \in DOMAIN owned : owned'[b] = owned[b] /\ bytes'[b] = bytes[b]
    /\ answer' = [op |-> "alloc", arg |-> owned'[a], err |-> "ok"]

PoolAllocFails ==
    /\ answer'.op = "alloc"
    /\ answer'.err = (IF answer'.arg = 0 THEN "zero" ELSE "oom")
    /\ UNCHANGED <<owned, bytes>>

PoolWrite(a) ==
    /\ DOMAIN bytes' = DOMAIN owned
    /\ bytes' = [bytes EXCEPT ![a] = bytes'[a]]
    /\ bytes'[a] \in Contents(owned[a])
    /\ UNCHANGED <<owned, answer>>

PoolFree(a) ==
    /\ owned' = [b \in DOMAIN owned \ {a} |-> owned[b]]
    /\ bytes' = [b \in DOMAIN owned \ {a} |-> bytes[b]]
    /\ answer' = [op |-> "free", arg |-> a, err |-> "ok"]

PoolFreeFails ==
    /\ answer'.op = "free"
    /\ answer'.arg \notin DOMAIN owned
    /\ answer'.err \in {"invalid", "double"}
    /\ UNCHANGED <<owned, bytes>>

PoolReset ==
    /\ owned' = NoBlocks
    /\ bytes' = NoBlocks
    /\ answer' = [op |-> "reset", arg |-> 0, err |-> "ok"]

PoolNext ==
    \/ \E a \in DOMAIN owned' : PoolAlloc(a)
    \/ PoolAllocFails
    \/ \E a \in DOMAIN owned : PoolWrite(a) \/ PoolFree(a)
    \/ PoolFreeFails
    \/ PoolReset

PoolSpec == PoolInit /\ [][PoolNext]_poolVars
================================================================================
