-------------------------------- MODULE Heap --------------------------------
(***************************************************************************)
(* core/mem.c: the heap behind mem_malloc, mem_free and mem_trim.          *)
(*                                                                         *)
(* The heap is a list of blocks, each a header (struct mem) followed by    *)
(* user data.  A header is named by its offset in ram[]; next, prev and    *)
(* used are functions on the set of headers.  A header that plug_holes or  *)
(* mem_trim takes out of the list is user data from then on and leaves     *)
(* their domain.  ram_end is the offset MEM_SIZE_ALIGNED; it is always in  *)
(* use and its prev is never read, so it is in none of the functions.      *)
(*                                                                         *)
(* Definitions named Def_Variant are mutations of Def; no specification    *)
(* uses them.                                                              *)
(***************************************************************************)
EXTENDS Integers, FiniteSets

CONSTANTS
    Requests,           \* the sizes callers ask for
    MEM_ALIGNMENT,
    SIZEOF_STRUCT_MEM,  \* aligned size of a header
    MIN_SIZE_ALIGNED,   \* least user data of a block
    MEM_SIZE_ALIGNED,   \* size of the heap
    SizeWrap            \* mem_size_t counts modulo SizeWrap (2^16)

ASSUME HeapAssumption ==
    /\ MEM_ALIGNMENT \in Nat \ {0}
    /\ SIZEOF_STRUCT_MEM \in Nat \ {0}
    /\ MIN_SIZE_ALIGNED \in Nat \ {0}
    /\ MEM_SIZE_ALIGNED \in Nat
    /\ MEM_SIZE_ALIGNED >= SIZEOF_STRUCT_MEM + MIN_SIZE_ALIGNED
    /\ SizeWrap \in Nat /\ SizeWrap > MEM_SIZE_ALIGNED
    /\ Requests \subseteq 0..(SizeWrap - 1)

VARIABLES
    next, prev, used,   \* the headers
    lfree,              \* the lowest free block, or ram_end
    live                \* history: block in use |-> size its owner asked for

vars == <<next, prev, used, lfree, live>>

ram_end == MEM_SIZE_ALIGNED
Headers == DOMAIN next
Offset  == 0..MEM_SIZE_ALIGNED

TypeOK ==
    /\ Headers \subseteq 0..(MEM_SIZE_ALIGNED - 1)
    /\ next \in [Headers -> Offset]
    /\ prev \in [Headers -> Offset]
    /\ used \in [Headers -> BOOLEAN]
    /\ lfree \in Offset
    /\ DOMAIN live \subseteq Headers
    /\ live \in [DOMAIN live -> Nat]

\* LWIP_MEM_ALIGN_SIZE, then the least block size.
AlignSize(size) ==
    (((size + MEM_ALIGNMENT - 1) \div MEM_ALIGNMENT) * MEM_ALIGNMENT) % SizeWrap

BlockSize(size) ==
    IF AlignSize(size) < MIN_SIZE_ALIGNED THEN MIN_SIZE_ALIGNED ELSE AlignSize(size)

\* Bytes of user data between a header and the next one.
Room(b) == next[b] - (b + SIZEOF_STRUCT_MEM)

Init ==
    /\ next = [b \in {0} |-> MEM_SIZE_ALIGNED]
    /\ prev = [b \in {0} |-> 0]
    /\ used = [b \in {0} |-> FALSE]
    /\ lfree = 0
    /\ live = [b \in {} |-> 0]

-----------------------------------------------------------------------------
\* The blocks the scan of mem_malloc may stop at.  It starts at lfree and
\* follows next; every header from lfree on is in that chain.
Candidates_TooSmall(n) ==
    {b \in Headers : /\ lfree <= b /\ b < MEM_SIZE_ALIGNED - n
                     /\ ~used[b] /\ Room(b) + SIZEOF_STRUCT_MEM >= n}
Candidates_AnySize(n) ==
    {b \in Headers : lfree <= b /\ b < MEM_SIZE_ALIGNED - n /\ ~used[b]}
Candidates(n) ==
    {b \in Headers : /\ lfree <= b /\ b < MEM_SIZE_ALIGNED - n
                     /\ ~used[b] /\ Room(b) >= n}

\* Is there room for another header and some data behind n bytes of block b?
Splits_NoHeader(b, n) == Room(b) >= n
Splits(b, n) == Room(b) >= n + SIZEOF_STRUCT_MEM + MIN_SIZE_ALIGNED

\* A header c is linked in behind b.
LinkNext(N, b, c) == [x \in DOMAIN N \cup {c} |->
                        IF x = b THEN c ELSE IF x = c THEN N[b] ELSE N[x]]
LinkPrev(N, P, b, c) == [x \in DOMAIN N \cup {c} |->
                           IF x = c THEN b ELSE IF x = N[b] THEN c ELSE P[x]]

\* The header behind b is taken out: b reaches to the end of that block.
UnlinkNext(N, b) == [x \in DOMAIN N \ {N[b]} |-> IF x = b THEN N[N[b]] ELSE N[x]]
UnlinkPrev(N, P, b) == [x \in DOMAIN N \ {N[b]} |-> IF x = N[N[b]] THEN b ELSE P[x]]

\* The end of block b becomes a free block c; b is in use.
SplitOff(b, c) ==
    /\ next' = LinkNext(next, b, c)
    /\ prev' = LinkPrev(next, prev, b, c)
    /\ used' = [x \in Headers \cup {c} |->
                  IF x = c THEN FALSE ELSE IF x = b THEN TRUE ELSE used[x]]

\* The loop behind mem_malloc_adjust_lfree: lfree is the first free block at or
\* behind b in the new list, or ram_end.
LowestFree_Stay(b) == lfree' = lfree
LowestFree(b) ==
    /\ lfree' \in {c \in DOMAIN next' : c >= b /\ ~used'[c]} \cup {ram_end}
    /\ \A c \in DOMAIN next' : (c >= b /\ ~used'[c]) => lfree' <= c

\* mem_malloc returns block b.
Malloc(size, b) ==
    LET n == BlockSize(size)
    IN  /\ size # 0 /\ n <= MEM_SIZE_ALIGNED
        /\ b \in Candidates(n) /\ \A c \in Candidates(n) : b <= c
        /\ \/ /\ Splits(b, n)
              /\ SplitOff(b, b + SIZEOF_STRUCT_MEM + n)
           \/ /\ ~Splits(b, n)
              /\ used' = [used EXCEPT ![b] = TRUE]
              /\ UNCHANGED <<next, prev>>
        /\ IF b = lfree THEN LowestFree(b) ELSE UNCHANGED lfree
        /\ live' = [x \in DOMAIN live \cup {b} |-> IF x = b THEN size ELSE live[x]]

\* mem_malloc returns NULL.
MallocFails(size) ==
    LET n == BlockSize(size)
    IN  /\ size = 0 \/ n > MEM_SIZE_ALIGNED \/ Candidates(n) = {}
        /\ UNCHANGED vars

-----------------------------------------------------------------------------
\* The successor of b is free (ram_end never is), its predecessor is free.
NextFree(b) == next[b] # ram_end /\ ~used[next[b]]
PrevFree_Never(b) == FALSE
PrevFree(b) == prev[b] # b /\ ~used[prev[b]]

\* mem_free marks b unused, lowers lfree, and plug_holes merges b with a free
\* successor, then a free predecessor with b.
mem_free(b) ==
    LET n1 == IF NextFree(b) THEN UnlinkNext(next, b) ELSE next
        p1 == IF NextFree(b) THEN UnlinkPrev(next, prev, b) ELSE prev
        l1 == IF b < lfree THEN b ELSE lfree
        l2 == IF NextFree(b) /\ l1 = next[b] THEN b ELSE l1
        a  == prev[b]
    IN  /\ b \in DOMAIN live
        /\ next' = IF PrevFree(b) THEN UnlinkNext(n1, a) ELSE n1
        /\ prev' = IF PrevFree(b) THEN UnlinkPrev(n1, p1, a) ELSE p1
        /\ used' = [x \in DOMAIN next' |-> IF x = b THEN FALSE ELSE used[x]]
        /\ lfree' = IF PrevFree(b) /\ l2 = b THEN a ELSE l2
        /\ live' = [x \in DOMAIN live \ {b} |-> live[x]]

-----------------------------------------------------------------------------
\* mem_trim shrinks block b.  A free successor is moved down to the new end c;
\* in front of a used one a new free block is made if there is room for it.
MoveDown(b, c) ==
    LET n1 == UnlinkNext(next, b)
        p1 == UnlinkPrev(next, prev, b)
    IN  /\ next' = LinkNext(n1, b, c)
        /\ prev' = LinkPrev(n1, p1, b, c)
        /\ used' = [x \in DOMAIN next' |-> IF x = c THEN FALSE ELSE used[x]]
        /\ lfree' = IF lfree = next[b] THEN c ELSE lfree

mem_trim(b, newsize) ==
    LET n == BlockSize(newsize)
        c == b + SIZEOF_STRUCT_MEM + n
    IN  /\ b \in DOMAIN live
        /\ n <= Room(b) /\ newsize <= live[b]
        /\ \/ /\ n = Room(b)
              /\ UNCHANGED <<next, prev, used, lfree>>
           \/ /\ n < Room(b) /\ NextFree(b)
              /\ MoveDown(b, c)
           \/ /\ n < Room(b) /\ ~NextFree(b)
              /\ IF Splits(b, n)
                 THEN SplitOff(b, c) /\ lfree' = IF c < lfree THEN c ELSE lfree
                 ELSE UNCHANGED <<next, prev, used, lfree>>
        /\ live' = [live EXCEPT ![b] = newsize]

Next ==
    \/ \E size \in Requests : \/ \E b \in Headers : Malloc(size, b)
                              \/ MallocFails(size)
    \/ \E b \in DOMAIN live : \/ mem_free(b)
                              \/ \E size \in Requests : mem_trim(b, size)

Spec == Init /\ [][Next]_vars
-----------------------------------------------------------------------------
(***************************************************************************)
(* Properties.                                                             *)
(***************************************************************************)

\* The blocks tile the heap: each reaches exactly to the next header, which
\* points back to it.
Tiles(N, P) ==
    /\ 0 \in DOMAIN N /\ P[0] = 0
    /\ \A b \in DOMAIN N :
          /\ b + SIZEOF_STRUCT_MEM + MIN_SIZE_ALIGNED <= N[b]
          /\ N[b] \in DOMAIN N \cup {ram_end}
          /\ N[b] \in DOMAIN N => P[N[b]] = b
          /\ b # 0 => P[b] \in DOMAIN N /\ N[P[b]] = b
          /\ \A c \in DOMAIN N : c <= b \/ N[b] <= c
Tiled == Tiles(next, prev)

\* "if not we have 2 unused structs in a row, plug_holes should have take care
\* of this": no two neighbouring blocks are free.
NoTwoFree == \A b \in Headers : (~used[b] /\ next[b] \in Headers) => used[next[b]]

\* lfree is the lowest free block, or ram_end when there is none.
LfreeLowest ==
    /\ lfree = ram_end \/ (lfree \in Headers /\ ~used[lfree])
    /\ \A b \in Headers : ~used[b] => lfree <= b

\* The blocks in use are those that callers own.
LiveUsed == DOMAIN live = {b \in Headers : used[b]}

\* The heap's bookkeeping is consistent.
Consistent == Tiled /\ NoTwoFree /\ LfreeLowest /\ LiveUsed

\* Every owner has at least the bytes asked for ("minimum size of the
\* requested block").
LiveFits == \A b \in DOMAIN live : live[b] <= Room(b)

\* Coalescing and lfree lose nothing: whenever n bytes and a header lie side by
\* side outside the blocks in use, mem_malloc finds a block for n bytes.
NothingOverlooked ==
    \A size \in Requests \ {0} :
        LET n == BlockSize(size) + SIZEOF_STRUCT_MEM
        IN  (\E a \in 0..(MEM_SIZE_ALIGNED - n) :
                \A b \in Headers : used[b] => (next[b] <= a \/ a + n <= b))
              => Candidates(BlockSize(size)) # {}

\* The heap implements the abstract allocator: user data starts behind the
\* header.
UserArea == [a \in {b + SIZEOF_STRUCT_MEM : b \in DOMAIN live} |->
               live[a - SIZEOF_STRUCT_MEM]]

A == INSTANCE Allocator WITH Size <- MEM_SIZE_ALIGNED, area <- UserArea
AllocatorSpec == A!Spec
=============================================================================
