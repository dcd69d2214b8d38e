----------------------------- MODULE HeapProofs -----------------------------
(***************************************************************************)
(* The heap's bookkeeping stays consistent for every heap size, alignment, *)
(* header size and set of requested sizes.                                 *)
(***************************************************************************)
EXTENDS Heap, TLAPS

HDR == SIZEOF_STRUCT_MEM
MIN == MIN_SIZE_ALIGNED
END == MEM_SIZE_ALIGNED

\* What the provers need of the constants.
LEMMA Constants ==
    ASSUME HeapAssumption
    PROVE  /\ HDR \in Nat \ {0} /\ MIN \in Nat \ {0} /\ END \in Nat
           /\ END >= HDR + MIN
  BY DEF HeapAssumption, HDR, MIN, END

\* N and P are the next and prev of a well-formed list of blocks.
List(N, P) == /\ DOMAIN N \subseteq 0..(END - 1)
              /\ N \in [DOMAIN N -> 0..END]
              /\ P \in [DOMAIN N -> 0..END]
              /\ Tiles(N, P)

\* A well-formed list, block by block.
LEMMA ListFacts ==
    ASSUME HeapAssumption, NEW N, NEW P, List(N, P)
    PROVE  /\ 0 \in DOMAIN N /\ P[0] = 0
           /\ \A x \in DOMAIN N :
                 /\ x \in Nat /\ x < END /\ N[x] \in Nat /\ N[x] <= END
                 /\ x + HDR + MIN <= N[x]
                 /\ N[x] \in DOMAIN N \cup {END}
                 /\ N[x] \in DOMAIN N => P[N[x]] = x
                 /\ x # 0 => P[x] \in DOMAIN N /\ N[P[x]] = x
                 /\ \A y \in DOMAIN N : y <= x \/ N[x] <= y
<1>0. END \in Nat
  BY Constants
<1>1. /\ 0 \in DOMAIN N /\ P[0] = 0
      /\ \A x \in DOMAIN N :
            /\ x + HDR + MIN <= N[x]
            /\ N[x] \in DOMAIN N \cup {END}
            /\ N[x] \in DOMAIN N => P[N[x]] = x
            /\ x # 0 => P[x] \in DOMAIN N /\ N[P[x]] = x
            /\ \A y \in DOMAIN N : y <= x \/ N[x] <= y
  BY DEF List, Tiles, HDR, MIN, END, ram_end
<1>2. \A x \in DOMAIN N : x \in 0..(END - 1) /\ N[x] \in 0..END
  BY DEF List
<1>3. \A x \in DOMAIN N : x \in Nat /\ x < END /\ N[x] \in Nat /\ N[x] <= END
  BY <1>0, <1>2
<1> QED  BY <1>1, <1>3

\* Conversely, these facts make a list.
LEMMA MakesList ==
    ASSUME HeapAssumption, NEW N, NEW P, NEW D, D \subseteq 0..(END - 1),
           N \in [D -> 0..END], P \in [D -> 0..END], 0 \in D, P[0] = 0,
           \A x \in D :
              /\ x + HDR + MIN <= N[x]
              /\ N[x] \in D \cup {END}
              /\ N[x] \in D => P[N[x]] = x
              /\ x # 0 => P[x] \in D /\ N[P[x]] = x
              /\ \A y \in D : y <= x \/ N[x] <= y
    PROVE  List(N, P) /\ DOMAIN N = D
<1>1. DOMAIN N = D
  OBVIOUS
<1>2. Tiles(N, P)
  BY <1>1 DEF Tiles, HDR, MIN, END, ram_end
<1> QED  BY <1>1, <1>2 DEF List

\* Putting a header c between b and its successor keeps the list in order.
LEMMA LinkKeepsList ==
    ASSUME HeapAssumption, NEW N, NEW P, List(N, P), NEW b \in DOMAIN N,
           NEW c \in Nat, b + HDR + MIN <= c, c + HDR + MIN <= N[b]
    PROVE  /\ List(LinkNext(N, b, c), LinkPrev(N, P, b, c))
           /\ DOMAIN LinkNext(N, b, c) = DOMAIN N \cup {c}
           /\ c \notin DOMAIN N /\ c < END
<1> DEFINE N2 == LinkNext(N, b, c)
           P2 == LinkPrev(N, P, b, c)
           D2 == DOMAIN N \cup {c}
<1>a. HDR \in Nat \ {0} /\ MIN \in Nat \ {0} /\ END \in Nat
  BY Constants
<1>8. /\ 0 \in DOMAIN N /\ P[0] = 0
      /\ \A x \in DOMAIN N :
            /\ x \in Nat /\ x < END /\ N[x] \in Nat /\ N[x] <= END
            /\ x + HDR + MIN <= N[x]
            /\ N[x] \in DOMAIN N \cup {END}
            /\ N[x] \in DOMAIN N => P[N[x]] = x
            /\ x # 0 => P[x] \in DOMAIN N /\ N[P[x]] = x
            /\ \A y \in DOMAIN N : y <= x \/ N[x] <= y
  BY ListFacts
<1>0. b \in Nat /\ N[b] \in Nat /\ N[b] <= END /\ b < END
  BY <1>8
<1>1. c \notin DOMAIN N /\ b # c /\ c < END /\ N[b] # c
  <2>1. \A y \in DOMAIN N : y \in Nat /\ (y <= b \/ N[b] <= y)
    BY <1>8
  <2> QED  BY <2>1, <1>0, <1>a
<1>3. N2[c] = N[b] /\ N2[b] = c /\ \A x \in DOMAIN N \ {b} : N2[x] = N[x]
  BY <1>1 DEF LinkNext
<1>4. P2[c] = b /\ \A x \in DOMAIN N : P2[x] = IF x = N[b] THEN c ELSE P[x]
  BY <1>1 DEF LinkPrev
<1>5. N2 \in [D2 -> 0..END] /\ P2 \in [D2 -> 0..END] /\ D2 \subseteq 0..(END - 1)
  <2>1. D2 \subseteq 0..(END - 1)
    BY <1>a, <1>1 DEF List
  <2>2. b \in 0..END /\ c \in 0..END /\ N[b] \in 0..END
    BY <1>a, <1>0, <1>1
  <2>3. N2 \in [D2 -> 0..END]
    BY <2>2 DEF List, LinkNext
  <2>4. P2 \in [D2 -> 0..END]
    BY <2>2 DEF List, LinkPrev
  <2> QED  BY <2>1, <2>3, <2>4
<1>6. 0 \in D2 /\ P2[0] = 0
  <2>1. N[b] # 0
    BY <1>a, <1>0
  <2> QED  BY <2>1, <1>4, <1>8
<1>7. ASSUME NEW x \in D2
      PROVE  /\ x + HDR + MIN <= N2[x]
             /\ N2[x] \in D2 \cup {END}
             /\ N2[x] \in D2 => P2[N2[x]] = x
             /\ x # 0 => P2[x] \in D2 /\ N2[P2[x]] = x
             /\ \A y \in D2 : y <= x \/ N2[x] <= y
  <2>0. x \in DOMAIN N =>
          /\ x \in Nat /\ N[x] \in Nat
          /\ x <= b \/ N[b] <= x
          /\ b <= x \/ N[x] <= b
    BY <1>8
  <2>1. CASE x = c
    <3>1. N2[x] \in D2 => P2[N2[x]] = x
      BY <2>1, <1>0, <1>a, <1>1, <1>3, <1>4, <1>8
    <3>2. \A y \in D2 : y <= x \/ N2[x] <= y
      <4>1. \A y \in DOMAIN N : y \in Nat /\ (y <= b \/ N[b] <= y)
        BY <1>8
      <4>2. \A y \in DOMAIN N : y <= c \/ N[b] <= y
        BY <4>1, <1>0, <1>a
      <4> QED  BY <4>2, <2>1, <1>3
    <3> QED  BY <2>1, <3>1, <3>2, <1>0, <1>a, <1>1, <1>3, <1>4, <1>8
  <2>2. CASE x = b
    <3>1. x # 0 => P2[x] \in D2 /\ N2[P2[x]] = x
      <4>1. b # N[b]
        BY <1>0, <1>a
      <4>2. b # 0 => P[b] \in DOMAIN N /\ N[P[b]] = b
        BY <1>8
      <4>3. P2[b] = P[b]
        BY <4>1, <1>4
      <4>4. b # 0 => P[b] # b
        BY <4>1, <4>2
      <4> QED  BY <4>2, <4>3, <4>4, <2>2, <1>3
    <3>2. \A y \in D2 : y <= x \/ N2[x] <= y
      <4>1. \A y \in DOMAIN N : y \in Nat /\ (y <= b \/ N[b] <= y)
        BY <1>8
      <4>2. \A y \in DOMAIN N : y <= b \/ c <= y
        BY <4>1, <1>0, <1>a
      <4>3. N2[x] = c /\ c <= c
        BY <2>2, <1>3
      <4> QED  BY <4>2, <4>3, <2>2
    <3>3. N2[x] = c /\ P2[c] = b /\ c \in D2 /\ x + HDR + MIN <= c
      BY <2>2, <1>3, <1>4
    <3> QED  BY <2>2, <3>1, <3>2, <3>3
  <2>3. CASE x \in DOMAIN N \ {b}
    <3>1. x + HDR + MIN <= N2[x] /\ N2[x] \in D2 \cup {END}
      BY <2>3, <1>0, <1>a, <1>3, <1>8
    <3>2. N2[x] \in D2 => P2[N2[x]] = x
      <4>1. N[x] # c /\ N2[x] = N[x]
        <5>1. N[x] \in DOMAIN N \cup {END}
          BY <2>3, <1>8
        <5>2. END # c
          BY <1>0, <1>a, <1>1
        <5> QED  BY <5>1, <5>2, <2>3, <1>1, <1>3
      <4>2. N[x] \in DOMAIN N => N[x] # N[b]
        BY <2>3, <1>0, <1>a, <1>1, <1>8
      <4> QED  BY <4>1, <4>2, <2>3, <1>4, <1>8
    <3>3. x # 0 => P2[x] \in D2 /\ N2[P2[x]] = x
      <4>1. CASE x = N[b]
        BY <4>1, <2>3, <1>1, <1>3, <1>4, <1>8
      <4>2. CASE x # N[b]
        BY <4>2, <2>3, <1>1, <1>3, <1>4, <1>8
      <4> QED  BY <4>1, <4>2
    <3>4. \A y \in D2 : y <= x \/ N2[x] <= y
      <4>1. c <= x \/ N[x] <= c
        BY <2>0, <2>3, <1>0, <1>a
      <4> QED  BY <4>1, <2>3, <1>3, <1>8
    <3> QED  BY <3>1, <3>2, <3>3, <3>4
  <2> QED  BY <2>1, <2>2, <2>3
<1>9. List(N2, P2) /\ DOMAIN N2 = D2
  <2> HIDE DEF N2, P2, D2
  <2> QED  BY <1>5, <1>6, <1>7, MakesList
<1> QED  BY <1>1, <1>9

\* Taking the header behind b out of the list keeps the list in order.
LEMMA UnlinkKeepsList ==
    ASSUME HeapAssumption, NEW N, NEW P, List(N, P), NEW b \in DOMAIN N,
           N[b] \in DOMAIN N
    PROVE  /\ List(UnlinkNext(N, b), UnlinkPrev(N, P, b))
           /\ DOMAIN UnlinkNext(N, b) = DOMAIN N \ {N[b]}
           /\ b # N[b]
<1> DEFINE d  == N[b]
           e  == N[d]
           D2 == DOMAIN N \ {d}
           N2 == UnlinkNext(N, b)
           P2 == UnlinkPrev(N, P, b)
<1>a. HDR \in Nat \ {0} /\ MIN \in Nat \ {0} /\ END \in Nat
  BY Constants
<1>8. /\ 0 \in DOMAIN N /\ P[0] = 0
      /\ \A x \in DOMAIN N :
            /\ x \in Nat /\ x < END /\ N[x] \in Nat /\ N[x] <= END
            /\ x + HDR + MIN <= N[x]
            /\ N[x] \in DOMAIN N \cup {END}
            /\ N[x] \in DOMAIN N => P[N[x]] = x
            /\ x # 0 => P[x] \in DOMAIN N /\ N[P[x]] = x
            /\ \A y \in DOMAIN N : y <= x \/ N[x] <= y
  BY ListFacts
<1>0. /\ b \in Nat /\ d \in Nat /\ e \in Nat /\ e <= END /\ b < END
      /\ b + HDR + MIN <= d /\ d + HDR + MIN <= e
      /\ e \in DOMAIN N \cup {END} /\ P[d] = b
      /\ e \in DOMAIN N => P[e] = d
  BY <1>8
<1>1. b # d /\ d # e /\ b # e /\ d # 0 /\ e # 0 /\ d # END
  <2>1. d < END
    BY <1>8
  <2> QED  BY <2>1, <1>0, <1>a
<1>3. N2[b] = e /\ \A x \in D2 \ {b} : N2[x] = N[x]
  BY <1>1 DEF UnlinkNext
<1>4. \A x \in D2 : P2[x] = IF x = e THEN b ELSE P[x]
  BY DEF UnlinkPrev
<1>5. N2 \in [D2 -> 0..END] /\ P2 \in [D2 -> 0..END] /\ D2 \subseteq 0..(END - 1)
  <2>1. D2 \subseteq 0..(END - 1)
    BY DEF List
  <2>2. b \in 0..END /\ e \in 0..END
    BY <1>a, <1>0
  <2>3. N2 \in [D2 -> 0..END]
    BY <2>2 DEF List, UnlinkNext
  <2>4. P2 \in [D2 -> 0..END]
    BY <2>2 DEF List, UnlinkPrev
  <2> QED  BY <2>1, <2>3, <2>4
<1>6. 0 \in D2 /\ P2[0] = 0
  BY <1>1, <1>4, <1>8
<1>7. ASSUME NEW x \in D2
      PROVE  /\ x + HDR + MIN <= N2[x]
             /\ N2[x] \in D2 \cup {END}
             /\ N2[x] \in D2 => P2[N2[x]] = x
             /\ x # 0 => P2[x] \in D2 /\ N2[P2[x]] = x
             /\ \A y \in D2 : y <= x \/ N2[x] <= y
  <2>0. x # d /\ x \in DOMAIN N
    OBVIOUS
  \* the predecessor pointer
  <2>1. x # 0 => P2[x] \in D2 /\ N2[P2[x]] = x
    <3>1. CASE x = e
      BY <3>1, <1>1, <1>3, <1>4
    <3>2. CASE x # e
      <4>1. P2[x] = P[x]
        BY <3>2, <1>4
      <4>2. x # 0 => P[x] \in DOMAIN N /\ N[P[x]] = x
        BY <2>0, <1>8
      <4>3. x # 0 => P[x] # d /\ P[x] # b
        BY <4>2, <3>2, <2>0
      <4> QED  BY <4>1, <4>2, <4>3, <1>3
    <3> QED  BY <3>1, <3>2
  <2>2. CASE x = b
    <3>1. N2[x] = e /\ x + HDR + MIN <= e /\ e \in D2 \cup {END}
      BY <2>2, <1>0, <1>1, <1>a, <1>3
    <3>2. e \in D2 => P2[e] = b
      BY <1>4
    <3>3. \A y \in D2 : y <= x \/ e <= y
      <4>1. \A y \in DOMAIN N : y \in Nat /\ (y <= b \/ d <= y) /\ (y <= d \/ e <= y)
        BY <1>8
      <4>2. \A y \in D2 : y <= b \/ e <= y
        BY <4>1, <1>0
      <4> QED  BY <4>2, <2>2
    <3> QED  BY <2>1, <2>2, <3>1, <3>2, <3>3
  <2>3. CASE x # b
    <3>1. N2[x] = N[x]
      BY <2>3, <1>3
    <3>2. x + HDR + MIN <= N[x] /\ N[x] \in DOMAIN N \cup {END}
      BY <2>0, <1>8
    <3>3. N[x] # d
      BY <2>0, <2>3, <1>0, <1>8
    <3>4. N[x] \in DOMAIN N => N[x] # e
      BY <2>0, <1>0, <1>8
    <3>5. N[x] \in D2 => P2[N[x]] = x
      BY <3>4, <2>0, <1>4, <1>8
    <3>6. \A y \in D2 : y <= x \/ N[x] <= y
      BY <2>0, <1>8
    <3> QED  BY <2>1, <3>1, <3>2, <3>3, <3>5, <3>6
  <2> QED  BY <2>2, <2>3
<1>9. List(N2, P2) /\ DOMAIN N2 = D2
  <2> HIDE DEF N2, P2, D2
  <2> QED  BY <1>5, <1>6, <1>7, MakesList
<1> QED  BY <1>1, <1>9

-----------------------------------------------------------------------------
(***************************************************************************)
(* The inductive invariant: the type invariant and Consistent.             *)
(***************************************************************************)
IInv == TypeOK /\ Consistent

LEMMA IInvFacts ==
    ASSUME HeapAssumption, IInv
    PROVE  /\ List(next, prev) /\ Headers = DOMAIN next
           /\ used \in [Headers -> BOOLEAN]
           /\ lfree \in 0..END
           /\ lfree = END \/ (lfree \in Headers /\ ~used[lfree])
           /\ \A x \in Headers : ~used[x] => lfree <= x
           /\ \A x \in Headers : (~used[x] /\ next[x] \in Headers) => used[next[x]]
           /\ live \in [DOMAIN live -> Nat]
           /\ DOMAIN live = {x \in Headers : used[x]}
<1>1. List(next, prev)
  BY DEF IInv, TypeOK, Consistent, Tiled, List, Headers, Offset, END
<1> QED  BY <1>1 DEF IInv, TypeOK, Consistent, NoTwoFree, LfreeLowest, LiveUsed,
                     Headers, Offset, END, ram_end

\* The facts that make the invariant hold in the next state.
LEMMA MakesIInv ==
    ASSUME HeapAssumption, List(next, prev)',
           used' \in [Headers' -> BOOLEAN],
           lfree' \in 0..END,
           lfree' = END \/ (lfree' \in Headers' /\ ~used'[lfree']),
           \A x \in Headers' : ~used'[x] => lfree' <= x,
           \A x \in Headers' : (~used'[x] /\ next'[x] \in Headers') => used'[next'[x]],
           live' \in [DOMAIN live' -> Nat],
           DOMAIN live' = {x \in Headers' : used'[x]}
    PROVE  IInv'
<1>1. TypeOK'
  BY DEF TypeOK, List, Headers, Offset, END
<1>2. Tiled'
  BY DEF Tiled, List
<1>3. NoTwoFree' /\ LfreeLowest' /\ LiveUsed'
  BY DEF NoTwoFree, LfreeLowest, LiveUsed, ram_end, END
<1> QED  BY <1>1, <1>2, <1>3 DEF IInv, Consistent

LEMMA InitIInv == ASSUME HeapAssumption, Init
                  PROVE  IInv
<1>1. DOMAIN next = {0} /\ next[0] = END /\ prev[0] = 0 /\ used[0] = FALSE
  BY DEF Init, END
<1>2. END \in Nat /\ HDR \in Nat \ {0} /\ MIN \in Nat \ {0} /\ HDR + MIN <= END
  BY Constants
<1>3. TypeOK
  <2>1. 0 \in 0..(END - 1) /\ 0 \in 0..END /\ END \in 0..END
    BY <1>2
  <2> QED  BY <2>1 DEF Init, TypeOK, Headers, Offset, END
<1>4. Tiled
  BY <1>1, <1>2 DEF Tiled, Tiles, HDR, MIN, END, ram_end
<1>5. NoTwoFree
  BY <1>1, <1>2 DEF NoTwoFree, Headers
<1>6. LfreeLowest
  BY <1>1 DEF LfreeLowest, Init, Headers
<1>7. LiveUsed
  BY <1>1 DEF LiveUsed, Init, Headers
<1> QED  BY <1>3, <1>4, <1>5, <1>6, <1>7 DEF IInv, Consistent

\* A block size is a natural number, no smaller than the least block.
LEMMA BlockSizeType ==
    ASSUME HeapAssumption, NEW size \in Requests
    PROVE  BlockSize(size) \in Nat /\ BlockSize(size) >= MIN
<1>1. size \in Nat /\ MEM_ALIGNMENT \in Nat \ {0} /\ SizeWrap \in Nat \ {0}
      /\ MIN_SIZE_ALIGNED \in Nat
  BY DEF HeapAssumption
<1>2. (size + MEM_ALIGNMENT - 1) \div MEM_ALIGNMENT \in Int
  BY <1>1
<1>3. ((size + MEM_ALIGNMENT - 1) \div MEM_ALIGNMENT) * MEM_ALIGNMENT \in Int
  BY <1>1, <1>2
<1>4. AlignSize(size) \in Nat
  BY <1>1, <1>3 DEF AlignSize
<1> QED  BY <1>1, <1>4 DEF BlockSize, MIN

\* What SplitOff does to the list and to the free blocks, for a block b whose
\* successor is not free.
LEMMA SplitKeeps ==
    ASSUME HeapAssumption, IInv, NEW b \in Headers, NEW n \in Nat, n >= MIN,
           Room(b) >= n + HDR + MIN, SplitOff(b, b + HDR + n),
           next[b] \in Headers => used[next[b]]
    PROVE  LET c == b + HDR + n
           IN  /\ List(next, prev)' /\ Headers' = Headers \cup {c}
               /\ c \notin Headers /\ c \in Nat /\ b < c /\ c < END
               /\ used' \in [Headers' -> BOOLEAN]
               /\ ~used'[c] /\ used'[b]
               /\ \A x \in Headers \ {b} : used'[x] = used[x]
               /\ next'[b] = c
               /\ \A x \in Headers \ {b} : next'[x] = next[x]
               /\ \A x \in Headers' :
                     (~used'[x] /\ next'[x] \in Headers') => used'[next'[x]]
<1> DEFINE c == b + HDR + n
<1>1. HDR \in Nat \ {0} /\ MIN \in Nat \ {0} /\ END \in Nat
  BY Constants
<1>2. /\ List(next, prev) /\ Headers = DOMAIN next
      /\ used \in [Headers -> BOOLEAN]
      /\ \A x \in Headers : (~used[x] /\ next[x] \in Headers) => used[next[x]]
  BY IInvFacts
<1>3. \A x \in Headers : x \in Nat /\ next[x] \in Nat
  BY <1>2, ListFacts
<1>4. c \in Nat /\ b + HDR + MIN <= c /\ c + HDR + MIN <= next[b] /\ b < c
  <2>1. next[b] - (b + HDR) >= n + HDR + MIN
    BY DEF Room, HDR
  <2> QED  BY <2>1, <1>1, <1>3
<1>5. next' = LinkNext(next, b, c) /\ prev' = LinkPrev(next, prev, b, c)
  BY DEF SplitOff
<1>6. List(next, prev)' /\ DOMAIN next' = DOMAIN next \cup {c}
      /\ c \notin Headers /\ c < END
  BY <1>2, <1>4, <1>5, LinkKeepsList
<1>7. Headers' = Headers \cup {c}
  BY <1>6 DEF Headers
<1>8. /\ used' \in [Headers' -> BOOLEAN] /\ ~used'[c] /\ used'[b]
      /\ \A x \in Headers \ {b} : used'[x] = used[x]
  BY <1>2, <1>4, <1>6, <1>7 DEF SplitOff
<1>9. ASSUME NEW x \in Headers', ~used'[x], next'[x] \in Headers'
      PROVE  used'[next'[x]]
  <2>1. x # b
    BY <1>9, <1>8
  <2>2. CASE x = c
    <3>1. next'[x] = next[b]
      BY <2>2, <1>2, <1>4, <1>5, <1>6 DEF LinkNext
    <3>2. next[b] # c /\ next[b] # b
      BY <1>1, <1>3, <1>4
    <3> QED  BY <3>1, <3>2, <1>7, <1>8, <1>9
  <2>3. CASE x # c
    <3>1. x \in Headers /\ next'[x] = next[x] /\ ~used[x]
      BY <2>1, <2>3, <1>2, <1>5, <1>7, <1>8, <1>9 DEF LinkNext
    <3>2. next[x] # c
      <4>1. next[x] \in DOMAIN next \cup {END}
        BY <3>1, <1>2, ListFacts
      <4>2. c # END
        BY <1>1, <1>4, <1>6
      <4> QED  BY <4>1, <4>2, <1>2, <1>6
    <3>3. next[x] \in Headers /\ used[next[x]]
      BY <3>1, <3>2, <1>2, <1>7, <1>9
    <3> QED  BY <3>1, <3>3, <1>8
  <2> QED  BY <2>2, <2>3
<1>10. next'[b] = c /\ \A x \in Headers \ {b} : next'[x] = next[x]
  BY <1>2, <1>5, <1>6 DEF LinkNext
<1> QED  BY <1>4, <1>6, <1>7, <1>8, <1>9, <1>10

LEMMA MallocStep ==
    ASSUME HeapAssumption, IInv, NEW size \in Requests, NEW b \in Headers,
           Malloc(size, b)
    PROVE  /\ IInv'
           /\ b \in DOMAIN live' /\ b \notin DOMAIN live
           /\ next'[b] >= b + HDR + BlockSize(size)
           /\ \A x \in DOMAIN live : next'[x] = next[x]
<1> DEFINE n == BlockSize(size)
           c == b + HDR + n
<1>1. HDR \in Nat \ {0} /\ MIN \in Nat \ {0} /\ END \in Nat /\ n \in Nat /\ n >= MIN
  BY Constants, BlockSizeType
<1> HIDE DEF n
<1>2. /\ List(next, prev) /\ Headers = DOMAIN next
      /\ used \in [Headers -> BOOLEAN] /\ lfree \in 0..END
      /\ lfree = END \/ (lfree \in Headers /\ ~used[lfree])
      /\ \A x \in Headers : ~used[x] => lfree <= x
      /\ \A x \in Headers : (~used[x] /\ next[x] \in Headers) => used[next[x]]
      /\ live \in [DOMAIN live -> Nat]
      /\ DOMAIN live = {x \in Headers : used[x]}
  BY IInvFacts
<1>3. \A x \in Headers : x \in Nat /\ x < END /\ next[x] \in Nat
  BY <1>2, ListFacts
<1>4. ~used[b] /\ lfree <= b
  BY DEF Malloc, Candidates
<1>5. size \in Nat
  BY DEF HeapAssumption
<1>6. live' \in [DOMAIN live' -> Nat] /\ DOMAIN live' = DOMAIN live \cup {b}
  BY <1>2, <1>5 DEF Malloc
<1>7. IF b = lfree THEN LowestFree(b) ELSE lfree' = lfree
  BY DEF Malloc
<1> DEFINE Shape == /\ List(next, prev)'
                    /\ Headers \subseteq Headers'
                    /\ used' \in [Headers' -> BOOLEAN]
                    /\ used'[b]
                    /\ \A x \in Headers \ {b} : used'[x] = used[x]
                    /\ \A x \in Headers' \ Headers : b < x /\ ~used'[x]
                    /\ \A x \in Headers' : x \in Nat /\ x < END
                    /\ \A x \in Headers' :
                          (~used'[x] /\ next'[x] \in Headers') => used'[next'[x]]
<1>8. Shape
  <2>1. CASE Splits(b, n)
    <3>1. SplitOff(b, c) /\ Room(b) >= n + HDR + MIN
      BY <2>1 DEF Malloc, Splits, HDR, MIN, n
    <3>2. next[b] \in Headers => used[next[b]]
      BY <1>2, <1>4
    <3> HIDE DEF c
    <3>3. /\ List(next, prev)' /\ Headers' = Headers \cup {c}
          /\ c \notin Headers /\ c \in Nat /\ b < c /\ c < END
          /\ used' \in [Headers' -> BOOLEAN]
          /\ ~used'[c] /\ used'[b]
          /\ \A x \in Headers \ {b} : used'[x] = used[x]
          /\ \A x \in Headers' :
                (~used'[x] /\ next'[x] \in Headers') => used'[next'[x]]
      BY <1>1, <3>1, <3>2, SplitKeeps DEF c
    <3> QED  BY <3>3, <1>3
  <2>2. CASE ~Splits(b, n)
    <3>1. used' = [used EXCEPT ![b] = TRUE] /\ next' = next /\ prev' = prev
      BY <2>2 DEF Malloc, n
    <3>2. List(next, prev)' /\ Headers' = Headers
      BY <3>1, <1>2 DEF List, Headers
    <3>3. /\ used' \in [Headers -> BOOLEAN] /\ used'[b]
          /\ \A x \in Headers \ {b} : used'[x] = used[x]
      BY <3>1, <1>2
    <3>4. \A x \in Headers :
             (~used'[x] /\ next'[x] \in Headers) => used'[next'[x]]
      BY <3>1, <3>3, <1>2
    <3> QED  BY <3>2, <3>3, <3>4, <1>3
  <2> QED  BY <2>1, <2>2
<1>9. /\ lfree' \in 0..END
      /\ lfree' = END \/ (lfree' \in Headers' /\ ~used'[lfree'])
      /\ \A x \in Headers' : ~used'[x] => lfree' <= x
  <2>1. CASE b = lfree
    <3>1. /\ lfree' \in {x \in Headers' : x >= b /\ ~used'[x]} \cup {END}
          /\ \A x \in Headers' : (x >= b /\ ~used'[x]) => lfree' <= x
      BY <2>1, <1>7 DEF LowestFree, Headers, ram_end, END
    <3>2. lfree' \in 0..END /\ (lfree' = END \/ (lfree' \in Headers' /\ ~used'[lfree']))
      BY <3>1, <1>1, <1>8
    <3>3. ASSUME NEW x \in Headers', ~used'[x]
          PROVE  lfree' <= x
      <4>1. x >= b
        <5>1. CASE x \in Headers
          BY <5>1, <3>3, <2>1, <1>2, <1>8
        <5>2. CASE x \notin Headers
          BY <5>2, <1>3, <1>8
        <5> QED  BY <5>1, <5>2
      <4> QED  BY <4>1, <3>1, <3>3
    <3> QED  BY <3>2, <3>3
  <2>2. CASE b # lfree
    <3>1. lfree' = lfree /\ lfree < b
      BY <2>2, <1>2, <1>3, <1>4, <1>7
    <3>2. lfree \in Headers /\ ~used[lfree]
      BY <3>1, <1>1, <1>2, <1>3
    <3>3. ASSUME NEW x \in Headers', ~used'[x]
          PROVE  lfree <= x
      <4>1. CASE x \in Headers
        BY <4>1, <3>3, <1>2, <1>8
      <4>2. CASE x \notin Headers
        BY <4>2, <3>1, <1>2, <1>3, <1>8
      <4> QED  BY <4>1, <4>2
    <3> QED  BY <3>1, <3>2, <3>3, <2>2, <1>2, <1>8
  <2> QED  BY <2>1, <2>2
<1>10. DOMAIN live' = {x \in Headers' : used'[x]}
  BY <1>2, <1>6, <1>8
<1>11. next'[b] >= b + HDR + n /\ \A x \in DOMAIN live : next'[x] = next[x]
  <2>0. \A x \in DOMAIN live : x \in Headers \ {b}
    BY <1>2, <1>4
  <2>1. CASE Splits(b, n)
    <3>1. SplitOff(b, c) /\ Room(b) >= n + HDR + MIN
      BY <2>1 DEF Malloc, Splits, HDR, MIN, n
    <3>2. next[b] \in Headers => used[next[b]]
      BY <1>2, <1>4
    <3> HIDE DEF c
    <3>3. /\ next'[b] = c
          /\ \A x \in Headers \ {b} : next'[x] = next[x]
      BY <1>1, <3>1, <3>2, SplitKeeps DEF c
    <3> QED  BY <3>3, <2>0, <1>1, <1>3 DEF c
  <2>2. CASE ~Splits(b, n)
    <3>1. next' = next
      BY <2>2 DEF Malloc, n
    <3>2. next[b] - (b + HDR) >= n
      BY DEF Malloc, Candidates, Room, HDR, n
    <3> QED  BY <3>1, <3>2, <1>1, <1>3
  <2> QED  BY <2>1, <2>2
<1>12. IInv'
  BY <1>6, <1>8, <1>9, <1>10, MakesIInv
<1> QED  BY <1>2, <1>4, <1>6, <1>11, <1>12 DEF n

\* plug_holes keeps the list well formed, and with it NoTwoFree: a block whose
\* predecessor stays in front of it has no free predecessor.
LEMMA FreeStep ==
    ASSUME HeapAssumption, IInv, NEW b, mem_free(b)
    PROVE  IInv' /\ \A x \in DOMAIN live \ {b} : next'[x] = next[x]
<1> DEFINE s  == next[b]
           a  == prev[b]
           n1 == IF NextFree(b) THEN UnlinkNext(next, b) ELSE next
           p1 == IF NextFree(b) THEN UnlinkPrev(next, prev, b) ELSE prev
           D1 == IF NextFree(b) THEN Headers \ {s} ELSE Headers
           D2 == IF PrevFree(b) THEN D1 \ {b} ELSE D1
<1>1. HDR \in Nat \ {0} /\ MIN \in Nat \ {0} /\ END \in Nat
  BY Constants
<1>2. /\ List(next, prev) /\ Headers = DOMAIN next
      /\ used \in [Headers -> BOOLEAN] /\ lfree \in 0..END
      /\ lfree = END \/ (lfree \in Headers /\ ~used[lfree])
      /\ \A x \in Headers : ~used[x] => lfree <= x
      /\ \A x \in Headers : (~used[x] /\ next[x] \in Headers) => used[next[x]]
      /\ live \in [DOMAIN live -> Nat]
      /\ DOMAIN live = {x \in Headers : used[x]}
  BY IInvFacts
<1>3. /\ 0 \in Headers /\ prev[0] = 0
      /\ \A x \in Headers :
            /\ x \in Nat /\ x < END /\ next[x] \in Nat /\ next[x] <= END
            /\ x + HDR + MIN <= next[x]
            /\ next[x] \in Headers \cup {END}
            /\ next[x] \in Headers => prev[next[x]] = x
            /\ x # 0 => prev[x] \in Headers /\ next[prev[x]] = x
  BY <1>2, ListFacts
<1>4. b \in Headers /\ used[b]
  BY <1>2 DEF mem_free
<1>5. /\ next' = IF PrevFree(b) THEN UnlinkNext(n1, a) ELSE n1
      /\ prev' = IF PrevFree(b) THEN UnlinkPrev(n1, p1, a) ELSE p1
      /\ used' = [x \in DOMAIN next' |-> IF x = b THEN FALSE ELSE used[x]]
      /\ live' = [x \in DOMAIN live \ {b} |-> live[x]]
  BY DEF mem_free
<1>6. NextFree(b) => s \in Headers /\ ~used[s]
  BY <1>3, <1>4 DEF NextFree, ram_end, END
<1>7. b < s /\ s \in Nat /\ b \in Nat
  BY <1>1, <1>3, <1>4
<1>8. /\ List(n1, p1) /\ DOMAIN n1 = D1
      /\ \A x \in D1 \ {b} : n1[x] = next[x]
      /\ n1[b] \in Headers => used[n1[b]]
  <2>1. CASE NextFree(b)
    <3>1. List(n1, p1) /\ DOMAIN n1 = D1
      BY <2>1, <1>2, <1>4, <1>6, UnlinkKeepsList
    <3>2. \A x \in D1 \ {b} : n1[x] = next[x]
      BY <2>1, <1>2, <1>7 DEF UnlinkNext
    <3>3. n1[b] = next[s]
      BY <2>1, <1>2, <1>4, <1>7 DEF UnlinkNext
    <3> QED  BY <3>1, <3>2, <3>3, <2>1, <1>2, <1>6
  <2>2. CASE ~NextFree(b)
    <3>1. s \in Headers => used[s]
      BY <2>2, <1>1, <1>3 DEF NextFree, ram_end, END
    <3> QED  BY <3>1, <2>2, <1>2
  <2> QED  BY <2>1, <2>2
<1>9. b \in D1 /\ n1[b] \in Nat /\ b < n1[b]
  <2>1. b \in D1
    BY <1>4, <1>7
  <2> HIDE DEF n1, p1, D1
  <2> QED  BY <2>1, <1>1, <1>8, ListFacts
<1>10. PrevFree(b) => /\ a \in Headers /\ ~used[a] /\ a < b /\ next[a] = b
                      /\ a \in D1 /\ n1[a] = b
  <2> SUFFICES ASSUME PrevFree(b)
               PROVE  /\ a \in Headers /\ ~used[a] /\ a < b /\ next[a] = b
                      /\ a \in D1 /\ n1[a] = b
    OBVIOUS
  <2>1. b # 0 /\ ~used[a] /\ a # b
    BY <1>3 DEF PrevFree
  <2>2. a \in Headers /\ next[a] = b
    BY <2>1, <1>3, <1>4
  <2>3. a \in Nat /\ a < b
    BY <2>2, <1>1, <1>3
  <2>4. a \in D1
    BY <2>2, <2>3, <1>7
  <2> HIDE DEF n1, D1, a
  <2> QED  BY <2>1, <2>2, <2>3, <2>4, <1>8
<1> HIDE DEF n1, p1, D1, s, a
<1>11. /\ List(next, prev)' /\ Headers' = D2
       /\ \A x \in D2 : (x # b /\ ~(PrevFree(b) /\ x = a)) => next'[x] = next[x]
       /\ PrevFree(b) => next'[a] = n1[b]
       /\ ~PrevFree(b) => next'[b] = n1[b]
  <2>1. CASE PrevFree(b)
    <3>1. next' = UnlinkNext(n1, a) /\ prev' = UnlinkPrev(n1, p1, a)
      BY <2>1, <1>5
    <3>2. List(UnlinkNext(n1, a), UnlinkPrev(n1, p1, a))
          /\ DOMAIN UnlinkNext(n1, a) = DOMAIN n1 \ {n1[a]} /\ a # n1[a]
      BY <2>1, <1>8, <1>9, <1>10, UnlinkKeepsList
    <3>3. List(next, prev)' /\ Headers' = D2
      BY <3>1, <3>2, <2>1, <1>8, <1>10 DEF Headers
    <3>4. \A x \in D2 : next'[x] = IF x = a THEN n1[b] ELSE n1[x]
      BY <3>1, <2>1, <1>8, <1>10 DEF UnlinkNext
    <3>5. a \in D2
      BY <3>2, <2>1, <1>10
    <3> QED  BY <3>3, <3>4, <3>5, <2>1, <1>8
  <2>2. CASE ~PrevFree(b)
    <3>1. next' = n1 /\ prev' = p1
      BY <2>2, <1>5
    <3>2. List(next, prev)' /\ Headers' = D2
      BY <3>1, <2>2, <1>8 DEF Headers
    <3> QED  BY <3>1, <3>2, <2>2, <1>8
  <2> QED  BY <2>1, <2>2
<1>12. D2 \subseteq Headers
  BY DEF D1
<1>13. used' = [x \in D2 |-> IF x = b THEN FALSE ELSE used[x]]
  BY <1>5, <1>11 DEF Headers
<1>14. used' \in [Headers' -> BOOLEAN]
  BY <1>2, <1>11, <1>12, <1>13
<1>15. ASSUME NEW x \in Headers', ~used'[x], next'[x] \in Headers'
       PROVE  used'[next'[x]]
  <2>0. x \in D2 /\ x \in Headers /\ next'[x] \in D2 /\ next'[x] \in Headers
    BY <1>11, <1>12, <1>15
  <2>1. ASSUME next'[x] = n1[b]
        PROVE  used'[next'[x]]
    <3>1. next'[x] # b
      BY <2>1, <1>7, <1>9
    <3>2. used[next'[x]]
      BY <2>0, <2>1, <1>8
    <3> QED  BY <3>1, <3>2, <2>0, <1>13
  <2>2. CASE x = b
    <3>1. ~PrevFree(b)
      BY <2>0, <2>2
    <3> QED  BY <3>1, <2>1, <2>2, <1>11
  <2>3. CASE PrevFree(b) /\ x = a
    BY <2>1, <2>3, <1>11
  <2>4. CASE x # b /\ ~(PrevFree(b) /\ x = a)
    <3>1. next'[x] = next[x] /\ ~used[x]
      BY <2>0, <2>4, <1>11, <1>13, <1>15
    <3>2. used[next[x]]
      BY <3>1, <2>0, <1>2
    <3>3. next[x] # b
      <4> SUFFICES ASSUME next[x] = b PROVE FALSE
        OBVIOUS
      <4>1. prev[b] = x
        BY <2>0, <1>3, <1>4
      <4>2. PrevFree(b) /\ x = a
        BY <4>1, <3>1, <2>4 DEF PrevFree, a
      <4> QED  BY <4>2, <2>4
    <3> QED  BY <3>1, <3>2, <3>3, <2>0, <1>13
  <2> QED  BY <2>2, <2>3, <2>4
<1>16. lfree \in Nat /\ lfree # b
  <2>1. lfree \in Nat
    BY <1>1, <1>2
  <2>2. END # b
    BY <1>1, <1>3, <1>4
  <2> QED  BY <2>1, <2>2, <1>2, <1>4
<1>17. /\ lfree' = IF b < lfree THEN b ELSE lfree
       /\ PrevFree(b) => lfree < b
  <2>1. PrevFree(b) => lfree < b
    <3>1. PrevFree(b) => lfree <= a /\ a \in Nat /\ a < b
      BY <1>2, <1>3, <1>10
    <3> QED  BY <3>1, <1>7, <1>16
  <2>2. (IF b < lfree THEN b ELSE lfree) # s
    BY <1>7, <1>16
  <2>3. lfree' = LET l1 == IF b < lfree THEN b ELSE lfree
                     l2 == IF NextFree(b) /\ l1 = s THEN b ELSE l1
                 IN  IF PrevFree(b) /\ l2 = b THEN a ELSE l2
    BY DEF mem_free, a, s
  <2>4. lfree' = LET l1 == IF b < lfree THEN b ELSE lfree
                 IN  IF PrevFree(b) /\ l1 = b THEN a ELSE l1
    BY <2>2, <2>3
  <2> QED  BY <2>1, <2>4, <1>7, <1>16
<1>18. /\ lfree' \in 0..END
       /\ lfree' = END \/ (lfree' \in Headers' /\ ~used'[lfree'])
       /\ \A x \in Headers' : ~used'[x] => lfree' <= x
  <2>1. CASE b < lfree
    <3>1. lfree' = b /\ ~PrevFree(b)
      BY <2>1, <1>7, <1>16, <1>17
    <3>2. b \in D2 /\ ~used'[b]
      BY <3>1, <1>9, <1>13
    <3>3. ASSUME NEW x \in D2, ~used'[x]
          PROVE  b <= x
      <4>1. x \in Headers /\ x \in Nat
        BY <1>3, <1>12
      <4>2. x = b \/ ~used[x]
        BY <3>3, <1>13
      <4>3. x = b \/ lfree <= x
        BY <4>1, <4>2, <1>2
      <4> QED  BY <4>1, <4>3, <2>1, <1>7, <1>16
    <3> QED  BY <3>1, <3>2, <3>3, <1>1, <1>3, <1>4, <1>11
  <2>2. CASE ~(b < lfree)
    <3>1. lfree' = lfree /\ lfree < b
      BY <2>2, <1>7, <1>16, <1>17
    <3>2. lfree \in Headers /\ ~used[lfree] /\ lfree # s
      BY <3>1, <1>1, <1>2, <1>3, <1>4, <1>7, <1>16
    <3>3. lfree \in D2
      BY <3>2, <1>16 DEF D1
    <3>4. ~used'[lfree]
      BY <3>2, <3>3, <1>13, <1>16
    <3>5. \A x \in D2 : ~used'[x] => lfree <= x
      BY <3>1, <1>2, <1>7, <1>12, <1>13, <1>16
    <3> QED  BY <3>1, <3>3, <3>4, <3>5, <1>2, <1>11
  <2> QED  BY <2>1, <2>2
<1>19. live' \in [DOMAIN live' -> Nat] /\ DOMAIN live' = DOMAIN live \ {b}
  BY <1>2, <1>5
<1>20. DOMAIN live' = {x \in Headers' : used'[x]}
  <2>1. ASSUME NEW x \in Headers, used[x], x # b
        PROVE  x \in D2
    BY <2>1, <1>6 DEF D1
  <2>2. \A x \in D2 : used'[x] <=> (x # b /\ used[x])
    BY <1>2, <1>12, <1>13
  <2> HIDE DEF D2
  <2> QED  BY <2>1, <2>2, <1>2, <1>11, <1>12, <1>19
<1>21. ASSUME NEW x \in DOMAIN live \ {b}
       PROVE  next'[x] = next[x]
  <2>1. x \in Headers /\ used[x]
    BY <1>2
  <2>2. x \in D2
    BY <2>1, <1>6 DEF D1
  <2> QED  BY <2>1, <2>2, <1>10, <1>11
<1> HIDE DEF D2
<1> QED  BY <1>11, <1>14, <1>15, <1>18, <1>19, <1>20, <1>21, MakesIInv

\* mem_trim moves a free successor's header down.
LEMMA MoveDownKeeps ==
    ASSUME HeapAssumption, IInv, NEW b \in Headers, used[b], NEW n \in Nat, n >= MIN,
           n < Room(b), NextFree(b), MoveDown(b, b + HDR + n),
           live' \in [DOMAIN live -> Nat]
    PROVE  /\ IInv' /\ next'[b] = b + HDR + n
           /\ \A x \in DOMAIN live \ {b} : next'[x] = next[x]
<1> DEFINE s  == next[b]
           c  == b + HDR + n
           n1 == UnlinkNext(next, b)
           p1 == UnlinkPrev(next, prev, b)
<1>1. HDR \in Nat \ {0} /\ MIN \in Nat \ {0} /\ END \in Nat
  BY Constants
<1>2. /\ List(next, prev) /\ Headers = DOMAIN next
      /\ used \in [Headers -> BOOLEAN] /\ lfree \in 0..END
      /\ lfree = END \/ (lfree \in Headers /\ ~used[lfree])
      /\ \A x \in Headers : ~used[x] => lfree <= x
      /\ \A x \in Headers : (~used[x] /\ next[x] \in Headers) => used[next[x]]
      /\ live \in [DOMAIN live -> Nat]
      /\ DOMAIN live = {x \in Headers : used[x]}
  BY IInvFacts
<1>3. \A x \in Headers :
         /\ x \in Nat /\ x < END /\ next[x] \in Nat /\ next[x] <= END
         /\ x + HDR + MIN <= next[x]
         /\ next[x] \in Headers \cup {END}
         /\ \A y \in Headers : y <= x \/ next[x] <= y
  BY <1>2, ListFacts
<1>4. s \in Headers /\ ~used[s]
  BY <1>3 DEF NextFree, ram_end, END
<1>5. s \in Nat /\ next[s] \in Nat /\ s + HDR + MIN <= next[s] /\ s < END /\ b \in Nat
  BY <1>3, <1>4
<1>6. c \in Nat /\ b + HDR + MIN <= c /\ c < s /\ b < c
  <2>1. n < s - (b + HDR)
    BY DEF Room, HDR
  <2> QED  BY <2>1, <1>1, <1>5
<1>7. c \notin Headers /\ c # END
  BY <1>3, <1>5, <1>6
<1>8. List(n1, p1) /\ DOMAIN n1 = Headers \ {s}
  BY <1>2, <1>4, UnlinkKeepsList
<1>9. n1[b] = next[s] /\ \A x \in Headers \ {s, b} : n1[x] = next[x]
  BY <1>2, <1>5, <1>6 DEF UnlinkNext
<1>10. next' = LinkNext(n1, b, c) /\ prev' = LinkPrev(n1, p1, b, c)
       /\ used' = [x \in DOMAIN next' |-> IF x = c THEN FALSE ELSE used[x]]
       /\ lfree' = IF lfree = s THEN c ELSE lfree
  BY DEF MoveDown
<1>11. b \in DOMAIN n1 /\ c + HDR + MIN <= n1[b]
  <2>1. b \in DOMAIN n1
    BY <1>5, <1>6, <1>8
  <2>2. c + HDR + MIN <= next[s]
    BY <1>1, <1>5, <1>6
  <2> QED  BY <2>1, <2>2, <1>9
<1> HIDE DEF n1, p1, c, s
<1>12. List(next, prev)' /\ Headers' = (Headers \ {s}) \cup {c}
  <2>1. /\ List(LinkNext(n1, b, c), LinkPrev(n1, p1, b, c))
        /\ DOMAIN LinkNext(n1, b, c) = DOMAIN n1 \cup {c}
    BY <1>6, <1>8, <1>11, LinkKeepsList
  <2>2. List(next, prev)'
    BY <2>1, <1>10
  <2>3. Headers' = DOMAIN n1 \cup {c}
    BY <2>1, <1>10 DEF Headers
  <2> QED  BY <2>2, <2>3, <1>8
<1>13. /\ next'[b] = c /\ next'[c] = next[s]
       /\ \A x \in Headers \ {s, b} : next'[x] = next[x]
  <2>1. next' = [x \in (Headers \ {s}) \cup {c} |->
                   IF x = b THEN c ELSE IF x = c THEN n1[b] ELSE n1[x]]
    BY <1>8, <1>10 DEF LinkNext
  <2>2. b # c /\ b \in Headers \ {s}
    BY <1>5, <1>6, <1>8, <1>11
  <2> QED  BY <2>1, <2>2, <1>7, <1>9
<1>14. used' \in [Headers' -> BOOLEAN] /\ ~used'[c]
       /\ \A x \in Headers \ {s} : used'[x] = used[x]
  BY <1>2, <1>7, <1>10, <1>12 DEF Headers
<1>15. ASSUME NEW x \in Headers', ~used'[x], next'[x] \in Headers'
       PROVE  used'[next'[x]]
  <2>1. CASE x = c
    <3>1. next'[x] = next[s] /\ next[s] # s /\ next[s] # c
      BY <2>1, <1>1, <1>5, <1>6, <1>13
    <3>2. next[s] \in Headers /\ used[next[s]]
      BY <3>1, <1>2, <1>4, <1>12, <1>15
    <3> QED  BY <3>1, <3>2, <1>14
  <2>2. CASE x # c
    <3>1. x \in Headers /\ x # s /\ x # b
      BY <2>2, <1>7, <1>12, <1>14, <1>15
    <3>2. next'[x] = next[x] /\ ~used[x]
      BY <3>1, <1>13, <1>14, <1>15
    <3>3. next[x] \in Headers /\ next[x] # s
      <4>1. next[x] # c
        BY <3>1, <1>3, <1>7
      <4> QED  BY <4>1, <3>2, <1>12, <1>15, <1>7, <1>4
    <3> QED  BY <3>1, <3>2, <3>3, <1>2, <1>14
  <2> QED  BY <2>1, <2>2
<1>16. lfree \in Nat /\ lfree <= s
  BY <1>1, <1>2, <1>4
<1>17. /\ lfree' \in 0..END
       /\ lfree' = END \/ (lfree' \in Headers' /\ ~used'[lfree'])
       /\ \A x \in Headers' : ~used'[x] => lfree' <= x
  <2>1. CASE lfree = s
    <3>1. lfree' = c
      BY <2>1, <1>10
    <3>2. ASSUME NEW x \in Headers', ~used'[x]
          PROVE  c <= x
      <4>1. CASE x = c
        BY <4>1, <1>6
      <4>2. CASE x # c
        <5>1. x \in Headers /\ ~used[x] /\ x \in Nat
          BY <4>2, <3>2, <1>3, <1>12, <1>14
        <5> QED  BY <5>1, <2>1, <1>2, <1>5, <1>6
      <4> QED  BY <4>1, <4>2
    <3>3. c \in 0..END /\ c \in Headers'
      BY <1>1, <1>5, <1>6, <1>12
    <3> QED  BY <3>1, <3>2, <3>3, <1>14
  <2>2. CASE lfree # s
    <3>1. lfree' = lfree /\ lfree < s
      BY <2>2, <1>5, <1>10, <1>16
    <3>2. lfree \in Headers /\ ~used[lfree]
      BY <3>1, <1>1, <1>2, <1>5
    <3>3. lfree <= b
      BY <3>1, <3>2, <1>3, <1>5 DEF s
    <3>4. ASSUME NEW x \in Headers', ~used'[x]
          PROVE  lfree <= x
      <4>1. CASE x = c
        BY <4>1, <3>3, <1>5, <1>6, <1>16
      <4>2. CASE x # c
        BY <4>2, <3>4, <1>2, <1>12, <1>14
      <4> QED  BY <4>1, <4>2
    <3>5. lfree \in Headers' /\ ~used'[lfree]
      BY <3>2, <2>2, <1>12, <1>14
    <3> QED  BY <3>1, <3>4, <3>5, <1>2
  <2> QED  BY <2>1, <2>2
<1>18. DOMAIN live' = {x \in Headers' : used'[x]}
  BY <1>2, <1>4, <1>7, <1>12, <1>14
<1>19. live' \in [DOMAIN live' -> Nat]
  OBVIOUS
<1>20. IInv'
  BY <1>12, <1>14, <1>15, <1>17, <1>18, <1>19, MakesIInv
<1>21. \A x \in DOMAIN live \ {b} : next'[x] = next[x]
  BY <1>2, <1>4, <1>13
<1> QED  BY <1>13, <1>20, <1>21 DEF c

LEMMA TrimStep ==
    ASSUME HeapAssumption, IInv, NEW b, NEW newsize \in Requests, mem_trim(b, newsize)
    PROVE  /\ IInv'
           /\ next'[b] >= b + HDR + BlockSize(newsize)
           /\ \A x \in DOMAIN live \ {b} : next'[x] = next[x]
<1> DEFINE n == BlockSize(newsize)
           c == b + HDR + n
<1>1. HDR \in Nat \ {0} /\ MIN \in Nat \ {0} /\ END \in Nat /\ n \in Nat /\ n >= MIN
  BY Constants, BlockSizeType
<1>2. /\ List(next, prev) /\ Headers = DOMAIN next
      /\ used \in [Headers -> BOOLEAN] /\ lfree \in 0..END
      /\ lfree = END \/ (lfree \in Headers /\ ~used[lfree])
      /\ \A x \in Headers : ~used[x] => lfree <= x
      /\ \A x \in Headers : (~used[x] /\ next[x] \in Headers) => used[next[x]]
      /\ live \in [DOMAIN live -> Nat]
      /\ DOMAIN live = {x \in Headers : used[x]}
  BY IInvFacts
<1>3. b \in Headers /\ used[b]
  BY <1>2 DEF mem_trim
<1>4. newsize \in Nat
  BY DEF HeapAssumption
<1>5. live' \in [DOMAIN live -> Nat]
  BY <1>2, <1>4 DEF mem_trim
<1>6. DOMAIN live' = DOMAIN live /\ live' \in [DOMAIN live' -> Nat]
  BY <1>5
<1> DEFINE Kept == /\ next'[b] >= b + HDR + BlockSize(newsize)
                   /\ \A x \in DOMAIN live \ {b} : next'[x] = next[x]
<1>7. ASSUME UNCHANGED <<next, prev, used, lfree>>
      PROVE  IInv' /\ Kept
  <2>1. List(next, prev)' /\ Headers' = Headers
    BY <1>7, <1>2 DEF List, Headers
  <2>2. next' = next /\ used' = used /\ lfree' = lfree
    BY <1>7
  <2>3. DOMAIN live' = {x \in Headers' : used'[x]}
    BY <2>1, <2>2, <1>2, <1>6
  <2>4. \A x \in Headers' : (~used'[x] /\ next'[x] \in Headers') => used'[next'[x]]
    BY <2>1, <2>2, <1>2
  <2>5. /\ lfree' \in 0..END
        /\ lfree' = END \/ (lfree' \in Headers' /\ ~used'[lfree'])
        /\ \A x \in Headers' : ~used'[x] => lfree' <= x
        /\ used' \in [Headers' -> BOOLEAN]
    BY <2>1, <2>2, <1>2
  <2>6. Kept
    <3>1. n <= next[b] - (b + HDR)
      BY DEF mem_trim, Room, HDR
    <3>2. next[b] \in Nat /\ b \in Nat
      BY <1>2, <1>3, ListFacts
    <3> HIDE DEF n
    <3>3. next[b] >= b + HDR + n
      BY <3>1, <3>2, <1>1
    <3> QED  BY <3>3, <2>2 DEF n
  <2> QED  BY <2>1, <2>3, <2>4, <2>5, <2>6, <1>6, MakesIInv
<1>8. ASSUME n < Room(b), NextFree(b), MoveDown(b, c)
      PROVE  IInv' /\ Kept
  <2> HIDE DEF n
  <2>1. b \in Nat
    BY <1>2, <1>3, ListFacts
  <2>2. /\ IInv' /\ next'[b] = b + HDR + n
        /\ \A x \in DOMAIN live \ {b} : next'[x] = next[x]
    BY <1>8, <1>1, <1>3, <1>5, MoveDownKeeps
  <2>3. next'[b] >= b + HDR + n
    BY <2>1, <2>2, <1>1
  <2> QED  BY <2>2, <2>3 DEF n
<1>9. ASSUME ~NextFree(b), Splits(b, n), SplitOff(b, c),
             lfree' = IF c < lfree THEN c ELSE lfree
      PROVE  IInv' /\ Kept
  <2>1. Room(b) >= n + HDR + MIN
    BY <1>9 DEF Splits, HDR, MIN
  <2>2. next[b] \in Headers => used[next[b]]
    <3>1. END \notin Headers
      BY <1>1, <1>2, ListFacts
    <3> QED  BY <3>1, <1>9 DEF NextFree, ram_end, END
  <2> HIDE DEF n, c
  <2>3. /\ List(next, prev)' /\ Headers' = Headers \cup {c}
        /\ c \notin Headers /\ c \in Nat /\ b < c /\ c < END
        /\ used' \in [Headers' -> BOOLEAN]
        /\ ~used'[c] /\ used'[b]
        /\ \A x \in Headers \ {b} : used'[x] = used[x]
        /\ next'[b] = c
        /\ \A x \in Headers \ {b} : next'[x] = next[x]
        /\ \A x \in Headers' :
              (~used'[x] /\ next'[x] \in Headers') => used'[next'[x]]
    BY <1>1, <1>3, <1>9, <2>1, <2>2, SplitKeeps DEF c
  <2>4. \A x \in Headers : used'[x] <=> used[x]
    BY <2>3, <1>3
  <2>5. DOMAIN live' = {x \in Headers' : used'[x]}
    BY <2>3, <2>4, <1>2, <1>6
  <2>6. lfree \in Nat /\ \A x \in Headers : x \in Nat
    <3>1. lfree \in 0..END /\ END \in Nat
      BY <1>1, <1>2
    <3>2. lfree \in Nat
      BY <3>1
    <3>3. \A x \in DOMAIN next : x \in Nat
      BY <1>2, ListFacts
    <3> QED  BY <3>2, <3>3, <1>2
  <2>7. \A x \in Headers' : ~used'[x] => lfree' <= x
    <3>1. lfree' <= c /\ lfree' <= lfree /\ lfree' \in Nat
      BY <2>3, <2>6, <1>9
    <3>2. ASSUME NEW x \in Headers, ~used'[x]
          PROVE  lfree' <= x
      <4>1. lfree <= x
        BY <3>2, <2>4, <1>2
      <4> QED  BY <4>1, <3>1, <2>6
    <3> QED  BY <3>1, <3>2, <2>3
  <2>8. lfree' \in 0..END /\ (lfree' = END \/ (lfree' \in Headers' /\ ~used'[lfree']))
    <3>1. CASE c < lfree
      BY <3>1, <2>3, <1>1, <1>9
    <3>2. CASE ~(c < lfree)
      <4>1. lfree' = lfree
        BY <3>2, <1>9
      <4> QED  BY <4>1, <2>3, <2>4, <1>2
    <3> QED  BY <3>1, <3>2
  <2>9. Kept
    <3>1. next'[b] >= c
      BY <2>3
    <3> QED  BY <3>1, <2>3, <1>2 DEF c, n
  <2> QED  BY <2>3, <2>5, <2>7, <2>8, <2>9, <1>6, MakesIInv
<1>10. \/ UNCHANGED <<next, prev, used, lfree>>
       \/ n < Room(b) /\ NextFree(b) /\ MoveDown(b, c)
       \/ /\ ~NextFree(b) /\ Splits(b, n) /\ SplitOff(b, c)
          /\ lfree' = IF c < lfree THEN c ELSE lfree
  BY DEF mem_trim, HDR
<1> QED  BY <1>7, <1>8, <1>9, <1>10

LEMMA NextIInv ==
    ASSUME HeapAssumption, IInv, [Next]_vars
    PROVE  IInv'
<1>1. CASE UNCHANGED vars
  BY <1>1 DEF vars, IInv, TypeOK, Consistent, Tiled, Tiles, NoTwoFree, LfreeLowest,
              LiveUsed, Headers
<1>2. ASSUME NEW size \in Requests, NEW b \in Headers, Malloc(size, b)
      PROVE  IInv'
  BY <1>2, MallocStep
<1>3. ASSUME NEW size \in Requests, MallocFails(size)
      PROVE  IInv'
  BY <1>1, <1>3 DEF MallocFails
<1>4. ASSUME NEW b \in DOMAIN live, mem_free(b)
      PROVE  IInv'
  BY <1>4, FreeStep
<1>5. ASSUME NEW b \in DOMAIN live, NEW size \in Requests, mem_trim(b, size)
      PROVE  IInv'
  BY <1>5, TrimStep
<1> QED  BY <1>1, <1>2, <1>3, <1>4, <1>5 DEF Next

\* Type correctness: headers stay inside the heap, next, prev and used stay
\* defined on the same headers (mem_malloc, mem_free, plug_holes, mem_trim).
THEOREM TypeCorrect == Spec => []TypeOK
<1>1. Init => IInv
  BY HeapAssumption, InitIInv
<1>2. IInv /\ [Next]_vars => IInv'
  BY HeapAssumption, NextIInv
<1>3. IInv => TypeOK
  BY DEF IInv
<1> QED  BY <1>1, <1>2, <1>3, PTL DEF Spec

\* The bookkeeping of mem.c is always consistent: the blocks tile the heap, no
\* two neighbours are free, lfree is the lowest free block, and the blocks in
\* use are exactly those mem_malloc handed out.
THEOREM AlwaysConsistent == Spec => []Consistent
<1>1. Init => IInv
  BY HeapAssumption, InitIInv
<1>2. IInv /\ [Next]_vars => IInv'
  BY HeapAssumption, NextIInv
<1>3. IInv => Consistent
  BY DEF IInv
<1> QED  BY <1>1, <1>2, <1>3, PTL DEF Spec

-----------------------------------------------------------------------------
\* mem_size_t can hold every requested size rounded up to the alignment.
NoWrap == \A size \in Requests : size + MEM_ALIGNMENT - 1 < SizeWrap

\* Then LWIP_MEM_ALIGN_SIZE rounds up, and a block is as large as asked for.
LEMMA BlockSizeCovers ==
    ASSUME HeapAssumption, NoWrap, NEW size \in Requests
    PROVE  size \in Nat /\ size <= BlockSize(size)
<1> DEFINE AL == MEM_ALIGNMENT
           t  == size + AL - 1
           q  == t \div AL
<1>1. size \in Nat /\ AL \in Nat \ {0} /\ SizeWrap \in Nat /\ t < SizeWrap
      /\ MIN_SIZE_ALIGNED \in Nat
  BY DEF HeapAssumption, NoWrap
<1>2. t \in Nat
  BY <1>1
<1>3. q \in Int /\ q * AL <= t /\ t < q * AL + AL
  BY <1>1, <1>2
<1>4. q * AL \in Int /\ size <= q * AL /\ q * AL < SizeWrap
  <2>1. q * AL \in Int
    BY <1>1, <1>3
  <2> HIDE DEF q
  <2> QED  BY <2>1, <1>1, <1>3
<1>5. (q * AL) % SizeWrap = q * AL
  <2> DEFINE r == q * AL
  <2>1. r \in Nat /\ r < SizeWrap
    BY <1>1, <1>4
  <2> HIDE DEF r
  <2>2. r % SizeWrap = r
    BY <2>1, <1>1
  <2> QED  BY <2>2 DEF r
<1>6. AlignSize(size) = q * AL
  BY <1>5 DEF AlignSize
<1>7. AlignSize(size) \in Int /\ size <= AlignSize(size)
  BY <1>4, <1>6
<1> QED  BY <1>1, <1>7 DEF BlockSize

\* LiveFits with the room spelled out.
Fits == \A x \in DOMAIN live : x + HDR + live[x] <= next[x]

LEMMA FitsIsLiveFits ==
    ASSUME HeapAssumption, IInv
    PROVE  LiveFits <=> Fits
<1>1. \A x \in DOMAIN live : x \in Nat /\ next[x] \in Nat /\ live[x] \in Nat
  BY IInvFacts, ListFacts
<1>2. HDR \in Nat
  BY Constants
<1> QED  BY <1>1, <1>2 DEF LiveFits, Fits, Room, HDR

LEMMA FitsStep ==
    ASSUME HeapAssumption, NoWrap, IInv, Fits, [Next]_vars
    PROVE  Fits'
<1>0. /\ HDR \in Nat
      /\ \A x \in DOMAIN live : x \in Nat /\ next[x] \in Nat /\ live[x] \in Nat
  BY Constants, IInvFacts, ListFacts
<1>a. IInv'
  BY NextIInv
<1>b. \A x \in DOMAIN live' : next'[x] \in Nat
  <2>1. List(next, prev)' /\ DOMAIN live' \subseteq DOMAIN next'
    BY <1>a DEF IInv, TypeOK, Consistent, Tiled, List, Headers, Offset, END
  <2> QED  BY <2>1, ListFacts
<1>1. CASE UNCHANGED vars
  BY <1>1 DEF vars, Fits
<1>2. ASSUME NEW size \in Requests, NEW b \in Headers, Malloc(size, b)
      PROVE  Fits'
  <2>1. /\ b \in DOMAIN live' /\ b \notin DOMAIN live
        /\ next'[b] >= b + HDR + BlockSize(size)
        /\ \A x \in DOMAIN live : next'[x] = next[x]
    BY <1>2, MallocStep
  <2>2. live' = [x \in DOMAIN live \cup {b} |-> IF x = b THEN size ELSE live[x]]
    BY <1>2 DEF Malloc
  <2>3. size \in Nat /\ size <= BlockSize(size) /\ BlockSize(size) \in Nat
    BY BlockSizeCovers, BlockSizeType
  <2>4. b \in Nat /\ next'[b] \in Nat
    BY <2>1, <1>b, IInvFacts, ListFacts
  <2>5. b + HDR + size <= next'[b]
    BY <2>1, <2>3, <2>4, <1>0
  <2> QED  BY <2>1, <2>2, <2>5 DEF Fits
<1>3. ASSUME NEW size \in Requests, MallocFails(size)
      PROVE  Fits'
  BY <1>1, <1>3 DEF MallocFails
<1>4. ASSUME NEW b \in DOMAIN live, mem_free(b)
      PROVE  Fits'
  <2>1. \A x \in DOMAIN live \ {b} : next'[x] = next[x]
    BY <1>4, FreeStep
  <2>2. live' = [x \in DOMAIN live \ {b} |-> live[x]]
    BY <1>4 DEF mem_free
  <2> QED  BY <2>1, <2>2 DEF Fits
<1>5. ASSUME NEW b \in DOMAIN live, NEW size \in Requests, mem_trim(b, size)
      PROVE  Fits'
  <2>1. /\ next'[b] >= b + HDR + BlockSize(size)
        /\ \A x \in DOMAIN live \ {b} : next'[x] = next[x]
    BY <1>5, TrimStep
  <2>2. live' = [live EXCEPT ![b] = size]
    BY <1>5 DEF mem_trim
  <2>3. size \in Nat /\ size <= BlockSize(size) /\ BlockSize(size) \in Nat
    BY BlockSizeCovers, BlockSizeType
  <2>4. b \in Nat /\ next'[b] \in Nat
    BY <2>2, <1>0, <1>b
  <2>5. b + HDR + size <= next'[b]
    BY <2>1, <2>3, <2>4, <1>0
  <2> QED  BY <2>1, <2>2, <2>5 DEF Fits
<1> QED  BY <1>1, <1>2, <1>3, <1>4, <1>5 DEF Next

\* Every owner has at least the bytes asked for, as long as mem_size_t can
\* hold the aligned sizes (mem_malloc, mem_trim: LWIP_MEM_ALIGN_SIZE).
THEOREM EveryRequestFits == NoWrap => (Spec => []LiveFits)
<1> SUFFICES ASSUME NoWrap PROVE Spec => []LiveFits
  OBVIOUS
<1>1. Init => IInv /\ Fits
  <2>1. Init => IInv
    BY HeapAssumption, InitIInv
  <2>2. Init => Fits
    BY DEF Init, Fits
  <2> QED  BY <2>1, <2>2
<1>2. IInv /\ Fits /\ [Next]_vars => (IInv /\ Fits)'
  BY HeapAssumption, NextIInv, FitsStep
<1>3. IInv /\ Fits => LiveFits
  BY HeapAssumption, FitsIsLiveFits
<1> QED  BY <1>1, <1>2, <1>3, PTL DEF Spec

-----------------------------------------------------------------------------
\* The areas handed out, block by block.
LEMMA AreaFacts ==
    ASSUME HeapAssumption, IInv
    PROVE  /\ DOMAIN UserArea = {x + HDR : x \in DOMAIN live}
           /\ \A x \in DOMAIN live : x + HDR \in DOMAIN UserArea
                                      /\ UserArea[x + HDR] = live[x]
<1>1. HDR \in Nat /\ \A x \in DOMAIN live : x \in Nat
  BY Constants, IInvFacts, ListFacts
<1>2. \A x \in DOMAIN live : (x + HDR) - HDR = x
  BY <1>1
<1> QED  BY <1>2 DEF UserArea, HDR

\* mem_malloc is an Alloc of the abstract allocator.
LEMMA MallocRefines ==
    ASSUME HeapAssumption, NoWrap, IInv, Fits, NEW size \in Requests,
           NEW b \in Headers, Malloc(size, b)
    PROVE  A!Alloc
<1> DEFINE a == b + HDR
<1>1. /\ IInv' /\ b \in DOMAIN live' /\ b \notin DOMAIN live
      /\ next'[b] >= b + HDR + BlockSize(size)
      /\ \A x \in DOMAIN live : next'[x] = next[x]
  BY MallocStep
<1>2. live' = [x \in DOMAIN live \cup {b} |-> IF x = b THEN size ELSE live[x]]
      /\ size # 0
  BY DEF Malloc
<1>3. size \in Nat /\ size <= BlockSize(size) /\ BlockSize(size) \in Nat
  BY BlockSizeCovers, BlockSizeType
<1>4. HDR \in Nat \ {0} /\ END \in Nat
  BY Constants
<1>5. List(next, prev) /\ DOMAIN live \subseteq DOMAIN next /\ b \in DOMAIN next
      /\ live \in [DOMAIN live -> Nat]
  BY IInvFacts
<1>6. List(next, prev)' /\ DOMAIN live' \subseteq DOMAIN next'
  BY <1>1 DEF IInv, TypeOK, Consistent, Tiled, List, Headers, Offset, END
<1>7. b \in Nat /\ \A x \in DOMAIN live :
         /\ x \in Nat /\ next[x] \in Nat /\ live[x] \in Nat
         /\ b <= x \/ next[x] <= b
  BY <1>5, ListFacts
<1>8. next'[b] \in Nat /\ next'[b] <= END
      /\ \A x \in DOMAIN live : x <= b \/ next'[b] <= x
  <2>1. b \in DOMAIN next' /\ DOMAIN live \subseteq DOMAIN next'
    BY <1>1, <1>2, <1>6
  <2> QED  BY <2>1, <1>6, ListFacts
<1>9. a \in Nat /\ a + size <= next'[b]
  BY <1>1, <1>3, <1>4, <1>7, <1>8
<1>10. a \in 0..(END - 1) /\ size \in 1..END /\ a + size <= END
  BY <1>2, <1>3, <1>4, <1>8, <1>9
<1>11. DOMAIN UserArea = {x + HDR : x \in DOMAIN live}
       /\ \A x \in DOMAIN live : UserArea[x + HDR] = live[x]
  BY AreaFacts
<1>12. ASSUME NEW y \in DOMAIN UserArea
       PROVE  y # a /\ (y + UserArea[y] <= a \/ a + size <= y)
  <2>1. PICK x \in DOMAIN live : y = x + HDR
    BY <1>11
  <2>2. UserArea[y] = live[x]
    BY <2>1, <1>11
  <2>3. x + HDR + live[x] <= next[x] /\ x # b
    BY <1>1 DEF Fits
  <2>4. x \in Nat /\ next[x] \in Nat /\ live[x] \in Nat
    BY <1>7
  <2>5. CASE next[x] <= b
    <3>1. y # a
      BY <2>1, <2>3, <2>4, <1>4, <1>7
    <3>2. y + live[x] <= a
      BY <2>1, <2>3, <2>4, <2>5, <1>4, <1>7
    <3> QED  BY <3>1, <3>2, <2>2
  <2>6. CASE b < x
    <3>1. next'[b] <= x
      BY <2>4, <2>6, <1>7, <1>8
    <3> QED  BY <3>1, <2>1, <2>4, <2>6, <1>3, <1>4, <1>7, <1>8, <1>9
  <2> QED  BY <2>3, <2>4, <2>5, <2>6, <1>7
<1>13. UserArea' = [y \in DOMAIN UserArea \cup {a} |->
                      IF y = a THEN size ELSE UserArea[y]]
  <2>1. DOMAIN live' = DOMAIN live \cup {b}
    BY <1>2
  <2>2. UserArea' = [y \in {x + HDR : x \in DOMAIN live'} |-> live'[y - HDR]]
    BY DEF UserArea, HDR
  <2>3. {x + HDR : x \in DOMAIN live'} = DOMAIN UserArea \cup {a}
    BY <2>1, <1>11
  <2>4. ASSUME NEW y \in DOMAIN UserArea \cup {a}
        PROVE  live'[y - HDR] = IF y = a THEN size ELSE UserArea[y]
    <3>1. CASE y = a
      <4>1. y - HDR = b
        BY <3>1, <1>4, <1>7
      <4> QED  BY <4>1, <3>1, <1>2
    <3>2. CASE y # a
      <4>1. PICK x \in DOMAIN live : y = x + HDR
        BY <3>2, <1>11
      <4>2. y - HDR = x
        BY <4>1, <1>4, <1>7
      <4> QED  BY <4>1, <4>2, <3>2, <1>1, <1>2, <1>11
    <3> QED  BY <3>1, <3>2
  <2> QED  BY <2>2, <2>3, <2>4
<1> HIDE DEF a
<1> QED  BY <1>10, <1>12, <1>13 DEF A!Alloc, A!Free, END

\* mem_free is a Release, mem_trim a Shrink.
LEMMA FreeRefines ==
    ASSUME HeapAssumption, IInv, NEW b \in DOMAIN live, mem_free(b)
    PROVE  A!Release
<1>1. live' = [x \in DOMAIN live \ {b} |-> live[x]]
  BY DEF mem_free
<1>2. HDR \in Nat /\ \A x \in DOMAIN live : x \in Nat
  BY Constants, IInvFacts, ListFacts
<1>3. DOMAIN UserArea = {x + HDR : x \in DOMAIN live}
      /\ \A x \in DOMAIN live : UserArea[x + HDR] = live[x]
  BY AreaFacts
<1>4. UserArea' = [y \in {x + HDR : x \in DOMAIN live'} |-> live'[y - HDR]]
  BY DEF UserArea, HDR
<1>5. {x + HDR : x \in DOMAIN live'} = DOMAIN UserArea \ {b + HDR}
  <2>1. \A x \in DOMAIN live : x + HDR = b + HDR => x = b
    BY <1>2
  <2> QED  BY <2>1, <1>1, <1>3
<1>6. ASSUME NEW y \in DOMAIN UserArea \ {b + HDR}
      PROVE  live'[y - HDR] = UserArea[y]
  <2>1. PICK x \in DOMAIN live : y = x + HDR
    BY <1>3
  <2>2. y - HDR = x /\ x # b
    BY <2>1, <1>2
  <2> QED  BY <2>1, <2>2, <1>1, <1>3
<1>7. UserArea' = [y \in DOMAIN UserArea \ {b + HDR} |-> UserArea[y]]
  BY <1>4, <1>5, <1>6
<1>8. b + HDR \in DOMAIN UserArea
  BY <1>3
<1> QED  BY <1>7, <1>8 DEF A!Release

LEMMA TrimRefines ==
    ASSUME HeapAssumption, IInv, Fits, NEW b \in DOMAIN live,
           NEW size \in Requests, mem_trim(b, size)
    PROVE  A!Shrink
<1>1. live' = [live EXCEPT ![b] = size] /\ size <= live[b]
  BY DEF mem_trim
<1>2. HDR \in Nat /\ END \in Nat /\ size \in Nat
      /\ \A x \in DOMAIN live : x \in Nat /\ live[x] \in Nat
                                 /\ next[x] \in Nat /\ next[x] <= END
  BY Constants, IInvFacts, ListFacts DEF HeapAssumption
<1>3. DOMAIN UserArea = {x + HDR : x \in DOMAIN live}
      /\ \A x \in DOMAIN live : UserArea[x + HDR] = live[x]
  BY AreaFacts
<1>4. UserArea' = [y \in {x + HDR : x \in DOMAIN live'} |-> live'[y - HDR]]
  BY DEF UserArea, HDR
<1>5. DOMAIN live' = DOMAIN live /\ live \in [DOMAIN live -> Nat]
  BY <1>1, IInvFacts
<1>6. ASSUME NEW y \in DOMAIN UserArea
      PROVE  live'[y - HDR] = IF y = b + HDR THEN size ELSE UserArea[y]
  <2>1. PICK x \in DOMAIN live : y = x + HDR
    BY <1>3
  <2>2. y - HDR = x /\ (y = b + HDR <=> x = b)
    BY <2>1, <1>2
  <2> QED  BY <2>1, <2>2, <1>1, <1>3, <1>5
<1>7. UserArea' = [y \in DOMAIN UserArea |->
                     IF y = b + HDR THEN size ELSE UserArea[y]]
  BY <1>3, <1>4, <1>5, <1>6
<1>8. UserArea = [y \in DOMAIN UserArea |-> UserArea[y]]
  BY DEF UserArea
<1>9. UserArea' = [UserArea EXCEPT ![b + HDR] = size]
  BY <1>7, <1>8
<1>10. b + HDR \in DOMAIN UserArea /\ size <= UserArea[b + HDR]
  BY <1>1, <1>3
<1>11. size \in 0..END
  <2>1. b + HDR + live[b] <= next[b]
    BY DEF Fits
  <2> QED  BY <2>1, <1>1, <1>2
<1> QED  BY <1>9, <1>10, <1>11 DEF A!Shrink, END

\* The heap implements the abstract allocator: areas handed out lie inside the
\* heap, never overlap, and stay put until freed (mem_malloc, mem_free, mem_trim).
THEOREM HeapImplementsAllocator == NoWrap => (Spec => AllocatorSpec)
<1> SUFFICES ASSUME NoWrap PROVE Spec => AllocatorSpec
  OBVIOUS
<1>1. Init => IInv /\ Fits /\ A!Init
  <2>1. Init => IInv
    BY HeapAssumption, InitIInv
  <2>2. Init => Fits
    BY DEF Init, Fits
  <2>3. Init => UserArea = [a \in {} |-> 0]
    BY DEF Init, UserArea
  <2> QED  BY <2>1, <2>2, <2>3 DEF A!Init
<1>2. IInv /\ Fits /\ [Next]_vars => (IInv /\ Fits)'
  BY HeapAssumption, NextIInv, FitsStep
<1>3. IInv /\ Fits /\ [Next]_vars => [A!Next]_UserArea
  <2> SUFFICES ASSUME IInv, Fits, [Next]_vars
               PROVE  [A!Next]_UserArea
    OBVIOUS
  <2>1. CASE UNCHANGED vars
    BY <2>1 DEF vars, UserArea
  <2>2. ASSUME NEW size \in Requests, NEW b \in Headers, Malloc(size, b)
        PROVE  A!Next
    BY <2>2, HeapAssumption, MallocRefines DEF A!Next
  <2>3. ASSUME NEW size \in Requests, MallocFails(size)
        PROVE  UNCHANGED vars
    BY <2>3 DEF MallocFails
  <2>4. ASSUME NEW b \in DOMAIN live, mem_free(b)
        PROVE  A!Next
    BY <2>4, HeapAssumption, FreeRefines DEF A!Next
  <2>5. ASSUME NEW b \in DOMAIN live, NEW size \in Requests, mem_trim(b, size)
        PROVE  A!Next
    BY <2>5, HeapAssumption, TrimRefines DEF A!Next
  <2> QED  BY <2>1, <2>2, <2>3, <2>4, <2>5 DEF Next
<1> QED  BY <1>1, <1>2, <1>3, PTL DEF Spec, AllocatorSpec, A!Spec

=============================================================================
