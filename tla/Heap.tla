---------------------------------- MODULE Heap ----------------------------------
(***************************************************************************)
(* The heap manager of the flux VM: vm/memory/heap.go.                     *)
(*                                                                         *)
(* One call is in progress at a time (the VM is single-threaded).  Alloc's *)
(* first-fit loop is modelled iteration by iteration, so that its cursor   *)
(* is part of the state: BeginAlloc starts it at offset 0, StepOver is one *)
(* round that does not fit, and TakeBlock, OutOfMemory and Panic are the   *)
(* ways it ends.  Free and Reset are single steps.  Fill is the client's   *)
(* part: the VM copies a string into every block it gets for one.          *)
(*                                                                         *)
(* hdrs, live and damaged are history variables: they record where headers *)
(* were written, which blocks the clients own, and whether the chain of    *)
(* headers is still whole.  The code keeps none of them and no action lets *)
(* them decide what RAM becomes; hdrs only lists addresses worth freeing.  *)
(***************************************************************************)
EXTENDS HeapLayout, Integers, FiniteSets

CONSTANTS Sizes,    \* sizes clients ask for
          Fills,    \* bytes of the strings clients store
          Strays    \* addresses no Alloc returned that clients still free

ASSUME HeapAssumption ==
    /\ Sizes \subseteq U32
    /\ Fills \subseteq Byte
    /\ Strays \subseteq U32

VARIABLES RAM,      \* the byte array
          pc,       \* "idle", "walk" inside Alloc's loop, "panicked"
          size,     \* Alloc's parameter
          cursor,   \* Alloc's loop variable
          ret,      \* the last call that returned: operation, argument, error
          addr,     \* what it returned: a block's address, or 0
          hdrs,     \* history: offsets at which a header was written
          live,     \* history: address -> size of the blocks clients own
          damaged   \* history: a header was lost, or a byte that is none cleared

callVars == <<pc, size, cursor>>
history  == <<hdrs, live, damaged>>
vars     == <<RAM, pc, size, cursor, ret, addr, hdrs, live, damaged>>

Answer(o, x, e) == [op |-> o, arg |-> x, err |-> e]

-----------------------------------------------------------------------------
(* Reset, also run by the package's init. *)
Fresh ==
    /\ RAM' = ResetRAM
    /\ ret' = Answer("reset", 0, "ok")
    /\ addr' = 0
    /\ hdrs' = {0}
    /\ live' = [a \in {} |-> 0]
    /\ damaged' = FALSE

Init ==
    /\ RAM = ResetRAM
    /\ pc = "idle"
    /\ size = 0
    /\ cursor = 0
    /\ ret = Answer("reset", 0, "ok")
    /\ addr = 0
    /\ hdrs = {0}
    /\ live = [a \in {} |-> 0]
    /\ damaged = FALSE

Reset ==
    /\ pc = "idle"
    /\ Fresh
    /\ UNCHANGED callVars

-----------------------------------------------------------------------------
(* Alloc. *)
AllocZero ==
    /\ pc = "idle"
    /\ 0 \in Sizes
    /\ ret' = Answer("alloc", 0, "zero")
    /\ addr' = 0
    /\ UNCHANGED <<RAM, callVars, history>>

(* Mutant of BeginAlloc: the loop starts behind the first header. *)
BeginPastHeader(n) ==
    /\ pc = "idle"
    /\ n # 0
    /\ pc' = "walk"
    /\ size' = n
    /\ cursor' = HeaderSize
    /\ UNCHANGED <<RAM, ret, addr, history>>

BeginAlloc(n) ==
    /\ pc = "idle"
    /\ n # 0
    /\ pc' = "walk"
    /\ size' = n
    /\ cursor' = 0
    /\ UNCHANGED <<RAM, ret, addr, history>>

AtHeader == pc = "walk" /\ InLoop(cursor) /\ Readable(cursor)

Return(e, a) ==
    /\ pc' = "idle"
    /\ size' = 0
    /\ cursor' = 0
    /\ ret' = Answer("alloc", size, e)
    /\ addr' = a

StepOver ==
    /\ AtHeader
    /\ ~Fits(RAM, cursor, size)
    /\ cursor' = NextCursor(RAM, cursor)
    /\ UNCHANGED <<RAM, pc, size, ret, addr, history>>

Grant(a, n) ==
    live' = [b \in DOMAIN live \cup {a} |-> IF b = a THEN n ELSE live[b]]

TakeBlock ==
    /\ AtHeader
    /\ Fits(RAM, cursor, size)
    /\ CanCarve(RAM, cursor, size)
    /\ RAM' = Carve(RAM, cursor, size)
    /\ Return("ok", cursor + HeaderSize)
    /\ hdrs' = IF Splits(RAM, cursor, size)
               THEN hdrs \cup {SplitAt(cursor, size)} ELSE hdrs
    /\ Grant(cursor + HeaderSize, size)
    /\ damaged' = (damaged \/ Severs(RAM, cursor, size))

OutOfMemory ==
    /\ pc = "walk"
    /\ ~InLoop(cursor)
    /\ Return("oom", 0)
    /\ UNCHANGED <<RAM, history>>

(* An index out of range ends the process: in the loop's reads, in the     *)
(* write of a split header, or in the client's copy into its block.        *)
Halt == pc' = "panicked" /\ UNCHANGED <<RAM, size, cursor, ret, addr, history>>

Panic ==
    /\ pc = "walk"
    /\ InLoop(cursor)
    /\ Readable(cursor) =>
           Fits(RAM, cursor, size) /\ ~CanCarve(RAM, cursor, size)
    /\ Halt

-----------------------------------------------------------------------------
(* The VM's copy of a string of byte f and its NUL into the block it just  *)
(* allocated for it.                                                       *)
Stored(r, a, n, f) ==
    [i \in Cell |-> IF i \in a .. (a + n - 1)
                    THEN IF i = a + n - 1 THEN 0 ELSE f
                    ELSE r[i]]

Fill(f) ==
    /\ pc = "idle"
    /\ addr # 0
    /\ addr + ret.arg <= RAMSize
    /\ RAM' = Stored(RAM, addr, ret.arg, f)
    /\ UNCHANGED <<callVars, ret, addr, history>>

FillPanic ==
    /\ pc = "idle"
    /\ addr # 0
    /\ addr + ret.arg > RAMSize
    /\ Halt

-----------------------------------------------------------------------------
(* Free. *)
(* Mutant of FreeAnswer: a block that is already free may be freed. *)
FreeAnswerUnchecked(a) == IF ~InRange(a) THEN "invalid" ELSE "ok"

FreeAnswer(a) ==
    IF ~InRange(a) THEN "invalid"
    ELSE IF Flag(RAM, a - HeaderSize) = 0 THEN "double" ELSE "ok"

Free(a) ==
    /\ pc = "idle"
    /\ ret' = Answer("free", a, FreeAnswer(a))
    /\ addr' = 0
    /\ IF FreeAnswer(a) = "ok"
       THEN /\ RAM' = SetFlag(RAM, a - HeaderSize, 0)
            /\ live' = [b \in DOMAIN live \ {a} |-> live[b]]
            /\ damaged' = (damaged \/ a - HeaderSize \notin hdrs)
       ELSE UNCHANGED <<RAM, live, damaged>>
    /\ UNCHANGED <<callVars, hdrs>>

(* What clients free: blocks they own, blocks they already freed or never  *)
(* got, and any stray address.                                             *)
Freeable == {h + HeaderSize : h \in hdrs} \cup Strays

-----------------------------------------------------------------------------
Next ==
    \/ AllocZero
    \/ \E n \in Sizes : BeginAlloc(n)
    \/ StepOver
    \/ TakeBlock
    \/ OutOfMemory
    \/ Panic
    \/ \E f \in Fills : Fill(f)
    \/ FillPanic
    \/ \E a \in Freeable : Free(a)
    \/ Reset

Spec == Init /\ [][Next]_vars

(* A call that has begun is run to its end by the goroutine that made it.  *)
FairSpec == Spec /\ WF_vars(StepOver \/ TakeBlock \/ OutOfMemory \/ Panic)

-----------------------------------------------------------------------------
TypeOK ==
    /\ RAM \in [Cell -> Byte]
    /\ pc \in {"idle", "walk", "panicked"}
    /\ size \in U32
    /\ cursor \in U32
    /\ ret \in [op  : {"alloc", "free", "reset"}, arg : U32,
                err : {"ok", "zero", "oom", "invalid", "double"}]
    /\ addr \in U32
    /\ hdrs \subseteq Cell
    /\ DOMAIN live \subseteq U32
    /\ live \in [DOMAIN live -> U32]
    /\ damaged \in BOOLEAN

-----------------------------------------------------------------------------
(***************************************************************************)
(* What makes the heap correct.  Each part is claimed while the chain of   *)
(* headers is whole; the runs that leave out `damaged` show what the code  *)
(* does afterwards.                                                        *)
(***************************************************************************)
Tiling == Tiles(RAM, hdrs)

OwnerFlags ==
    /\ \A h \in hdrs :
         Flag(RAM, h) = IF h + HeaderSize \in DOMAIN live THEN 1 ELSE 0
    /\ \A a \in DOMAIN live :
         /\ a >= HeaderSize
         /\ a - HeaderSize \in hdrs
         /\ Uint32(RAM, a - HeaderSize) = live[a]
         /\ live[a] # 0

OwnedApart ==
    /\ \A a \in DOMAIN live : Extent(a, live[a]) \subseteq Cell
    /\ \A a, b \in DOMAIN live :
           a # b => Extent(a, live[a]) \cap Extent(b, live[b]) = {}

FirstFitWalk ==
    pc = "walk" =>
        /\ size # 0
        /\ cursor \in hdrs \/ (cursor <= RAMSize /\ ~InLoop(cursor))
        /\ \A h \in hdrs : h < cursor => ~Fits(RAM, h, size)

OOMMeansFull ==
    (ret.op = "alloc" /\ ret.err = "oom") =>
        \A h \in hdrs : ~Fits(RAM, h, ret.arg)

LastGranted ==
    addr # 0 => /\ ret.op = "alloc" /\ ret.err = "ok"
                /\ addr \in DOMAIN live /\ live[addr] = ret.arg

(* The headers written so far tile RAM: every block ends at the next       *)
(* header, and only the last may leave a gap, too short for a header.      *)
(* Alloc's split and resize, heap.go:71-89.                                *)
ChainTiles == damaged \/ Tiling

(* A header says allocated exactly for the blocks the clients own, with    *)
(* the size they asked for: Free can tell a double free from a first one,  *)
(* whatever was allocated, split and reused in between (heap.go:109-113).  *)
FlagsMatchOwners == damaged \/ OwnerFlags

(* No two owned blocks share a byte, headers included, and all lie in RAM: *)
(* Alloc returns a freshly allocated block (heap.go:53-55).                *)
LiveDisjoint == damaged \/ OwnedApart

(* Alloc's loop is at a header or past the last one, and has passed over   *)
(* no free block that is large enough: it is a first fit (heap.go:66-95).  *)
WalkIsFirstFit == damaged \/ FirstFitWalk

(* ErrOOM is returned only when no free block is large enough (the doc     *)
(* comment of Alloc, heap.go:60).                                          *)
HonestOOM == damaged \/ OOMMeansFull

(* No index is out of range: the process does not panic in the heap.       *)
NoPanic == damaged \/ pc # "panicked"

(* The inductive invariant of HeapProofs. *)
Sound ==
    /\ Tiling
    /\ OwnerFlags
    /\ FirstFitWalk
    /\ OOMMeansFull
    /\ LastGranted
    /\ pc # "panicked"

IInv == TypeOK /\ (damaged \/ Sound)

(* Alloc's loop leaves at the cursor where the one-step form of the walk,  *)
(* which FluxVM uses, stops: also over a chain whose headers were lost or  *)
(* overwritten (the for loop of heap.go:66-95).                            *)
LoopMatchesWalkEnd ==
    [][pc = "walk" /\ pc' # "walk" => cursor = WalkEnd(RAM, size)]_vars

(* A call of Alloc returns: its walk makes progress at every header.       *)
AllocReturns == (pc = "walk" /\ ~damaged) ~> (pc # "walk")

(* The pool of disjoint blocks that the heap stands for. *)
Bytes(r, a, n) == [i \in 0 .. (n - 1) |-> r[a + i]]

Contents == [a \in DOMAIN live |-> Bytes(RAM, a, live[a])]

Pool == INSTANCE BlockPool WITH owned  <- live,
                                bytes  <- Contents,
                                answer <- ret

(* The heap implements the pool, contents included, up to the first lost   *)
(* header, and again after a Reset: every Alloc, Free, write and walk is a *)
(* step of the pool or none (heap.go:56-117, 126-143).                     *)
PoolUntilDamaged == Pool!PoolInit /\ [][damaged' \/ Pool!PoolNext]_(Pool!poolVars)

-----------------------------------------------------------------------------
(***************************************************************************)
(* Claims of the documentation that the code does not keep.                *)
(***************************************************************************)
(* README.md:160 and heap.go:100-102: an address that does not lie just    *)
(* past a header is refused with "invalid address".                        *)
StrayFreeRefused ==
    [][\A a \in Freeable : Free(a) /\ a - HeaderSize \notin hdrs
                               => ret'.err = "invalid"]_vars
==================================================================================
