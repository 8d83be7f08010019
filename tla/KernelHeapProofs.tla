--------------------------- MODULE KernelHeapProofs ---------------------------
(****************************************************************************)
(* The heap's invariants and its refinement of Allocator, for a heap and    *)
(* requests of any size.                                                    *)
(****************************************************************************)
EXTENDS KernelHeap, TLAPS

(* The inductive invariant.  That blocks do not overlap is not enough for a *)
(* merge to keep it: the block merged must be the neighbour, which Linked   *)
(* says; and that a pointer is handed out once needs the two directions of  *)
(* GrantsBacked together.                                                   *)
IInv == TypeOK /\ BlocksApart /\ Linked /\ GrantsBacked

LEMMA SizeNat == ASSUME NEW n \in Sizes PROVE n \in Nat
BY HeapAssumption

\* AlignUp yields a size, at least the one asked for unless it wraps.
LEMMA AlignUpSize ==
  ASSUME NEW n \in Sizes
  PROVE  /\ AlignUp(n) \in Nat
         /\ ~Wraps(n) => AlignUp(n) >= n
BY HeapAssumption, SMT DEF AlignUp, Wraps

\* The blocks before a step, by their fields.
LEMMA BlockFacts ==
  ASSUME IInv, NEW b \in Blocks
  PROVE  /\ b \in Nat /\ hdr[b].size \in Nat /\ hdr[b].free \in BOOLEAN
         /\ hdr[b].next \in Nat /\ End(b) \in Nat /\ Ptr(b) \in Nat
         /\ b > 0
BY HeapAssumption DEF IInv, TypeOK, Header, Blocks, End, Ptr, HeaderSize, BlocksApart

------------------------------------------------------------------------------
\* A header is a record of its fields.
LEMMA HeaderRecord ==
  ASSUME NEW n \in Nat, NEW f \in BOOLEAN, NEW x \in Nat
  PROVE  [size |-> n, free |-> f, next |-> x] \in Header
BY DEF Header

LEMMA BlockHeader == ASSUME IInv, NEW b \in Blocks PROVE hdr[b] \in Header
BY DEF IInv, TypeOK

\* init_memory leaves one block over the whole heap.
LEMMA InitIInv == Init => IInv
BY HeapAssumption DEF Init, IInv, TypeOK, Header, BlocksApart, Linked, GrantsBacked,
   Blocks, End, Ptr, HeaderSize, HeapEnd, NULL

\* Marking a block occupied or free changes no size and no link.
LEMMA MarkKeepsTiling ==
  ASSUME IInv, NEW b \in Blocks, NEW f \in BOOLEAN, hdr' = Marked(b, f)
  PROVE  /\ Blocks' = Blocks
         /\ hdr' \in [Blocks -> Header]
         /\ hdr'[b].free = f
         /\ \A c \in Blocks \ {b} : hdr'[c] = hdr[c]
         /\ BlocksApart' /\ Linked'
<1>1. Blocks' = Blocks
  BY DEF Blocks, Marked
<1>2. /\ hdr'[b] = [size |-> hdr[b].size, free |-> f, next |-> hdr[b].next]
      /\ \A c \in Blocks \ {b} : hdr'[c] = hdr[c]
  BY DEF Marked
<1>3. hdr' \in [Blocks -> Header]
  <2>1. hdr' = [c \in Blocks |-> hdr'[c]]
    BY DEF Marked
  <2>2. hdr'[b] \in Header
    BY <1>2, BlockFacts, HeaderRecord
  <2> QED BY <2>1, <2>2, <1>2, BlockHeader
<1>4. \A c \in Blocks : End(c)' = End(c) /\ hdr'[c].next = hdr[c].next
  BY <1>1, <1>2 DEF End
<1> QED
  BY <1>1, <1>2, <1>3, <1>4 DEF IInv, BlocksApart, Linked

\* A split replaces block b by two blocks over the same bytes.
LEMMA CutKeepsTiling ==
  ASSUME IInv, NEW b \in Blocks, NEW s \in Nat,
         Splits(b, s), hdr' = Cut(b, s)
  PROVE  /\ Blocks' = Blocks \cup {Ptr(b) + s}
         /\ Ptr(b) + s \notin Blocks
         /\ hdr' \in [Blocks' -> Header] /\ Blocks' \subseteq Nat
         /\ hdr'[b].size = s /\ ~hdr'[b].free
         /\ hdr'[Ptr(b) + s].free
         /\ \A c \in Blocks \ {b} : hdr'[c] = hdr[c]
         /\ BlocksApart' /\ Linked'
<1> DEFINE rest == Ptr(b) + s
<1>1. /\ rest \in Nat /\ b < rest /\ rest + HeaderSize < End(b)
      /\ hdr[b].size - s - HeaderSize \in Nat
  BY BlockFacts DEF Splits, Ptr, End, HeaderSize, MinData
<1>2. rest \notin Blocks
  BY <1>1, BlockFacts DEF IInv, BlocksApart, HeaderSize
<1>3. Blocks' = Blocks \cup {rest}
  BY DEF Cut, Blocks
<1>4. /\ hdr'[b] = [size |-> s, free |-> FALSE, next |-> rest]
      /\ hdr'[rest] = [size |-> hdr[b].size - s - HeaderSize, free |-> TRUE,
                       next |-> hdr[b].next]
      /\ \A c \in Blocks \ {b} : hdr'[c] = hdr[c]
  BY <1>2 DEF Cut
<1>5. \A c \in Blocks' : hdr'[c] \in Header
  <2>1. hdr'[b] \in Header
    BY <1>1, <1>4, HeaderRecord
  <2>2. hdr'[rest] \in Header
    BY <1>1, <1>4, BlockFacts, HeaderRecord
  <2> QED BY <2>1, <2>2, <1>3, <1>4, BlockHeader
<1>6. hdr' \in [Blocks' -> Header]
  <2>1. hdr' = [c \in Blocks' |-> hdr'[c]]
    BY <1>3 DEF Cut
  <2> QED BY <2>1, <1>5
<1>7. /\ End(b)' = rest /\ End(rest)' = End(b)
      /\ \A c \in Blocks \ {b} : End(c)' = End(c)
  BY <1>1, <1>4, BlockFacts DEF End, Ptr, HeaderSize
<1>8. BlocksApart'
  <2>1. \A c \in Blocks' : HeapStart =< c /\ End(c)' =< HeapEnd
    BY <1>1, <1>3, <1>7, BlockFacts, HeapAssumption
       DEF IInv, BlocksApart, HeapEnd, HeaderSize
  <2>2. ASSUME NEW c \in Blocks', NEW d \in Blocks', c < d
        PROVE  End(c)' =< d
    <3>1. CASE c \in Blocks /\ d \in Blocks
      BY <3>1, <2>2, <1>1, <1>7, BlockFacts DEF IInv, BlocksApart, HeaderSize
    <3>2. CASE c \in Blocks /\ d = rest
      BY <3>2, <2>2, <1>1, <1>7, BlockFacts DEF IInv, BlocksApart, HeaderSize, End
    <3>3. CASE c = rest /\ d \in Blocks
      BY <3>3, <2>2, <1>1, <1>7, BlockFacts DEF IInv, BlocksApart, HeaderSize
    <3>4. CASE c = rest /\ d = rest
      BY <3>4, <2>2, <1>1
    <3> QED BY <1>3, <3>1, <3>2, <3>3, <3>4
  <2> QED BY <2>1, <2>2 DEF BlocksApart, HeapEnd
<1>9. Linked'
  BY <1>3, <1>4, <1>7 DEF IInv, Linked, HeapEnd, NULL
<1> QED
  BY <1>1, <1>2, <1>3, <1>4, <1>6, <1>8, <1>9 DEF IInv, TypeOK

\* A merge replaces block b and its successor by one block over their bytes.
LEMMA MergeKeepsTiling ==
  ASSUME IInv, NEW b \in Blocks, Absorbs(b), hdr' = Merged(b)
  PROVE  /\ hdr[b].next > b
         /\ Blocks' = Blocks \ {hdr[b].next}
         /\ hdr' \in [Blocks' -> Header]
         /\ hdr'[b].free
         /\ \A c \in Blocks' \ {b} : hdr'[c] = hdr[c]
         /\ BlocksApart' /\ Linked'
<1> DEFINE gone == hdr[b].next
<1>1. gone \in Blocks /\ gone = End(b) /\ gone > b
  BY BlockFacts DEF IInv, Linked, Absorbs, NULL, End, HeaderSize
<1>2. Blocks' = Blocks \ {gone}
  BY DEF Merged, Blocks
<1>3. /\ hdr'[b] = [size |-> hdr[b].size + HeaderSize + hdr[gone].size,
                    free |-> TRUE, next |-> hdr[gone].next]
      /\ \A c \in Blocks' \ {b} : hdr'[c] = hdr[c]
  BY <1>1, <1>2, BlockFacts DEF Merged
<1>4. \A c \in Blocks' : hdr'[c] \in Header
  <2>1. hdr[b].size + HeaderSize + hdr[gone].size \in Nat /\ hdr[gone].next \in Nat
    BY <1>1, BlockFacts DEF HeaderSize
  <2>2. hdr'[b] \in Header
    BY <2>1, <1>3, HeaderRecord
  <2> QED BY <2>2, <1>2, <1>3, BlockHeader
<1>5. hdr' \in [Blocks' -> Header]
  <2>1. hdr' = [c \in Blocks' |-> hdr'[c]]
    BY <1>2 DEF Merged
  <2> QED BY <2>1, <1>4
<1>6. /\ End(b)' = End(gone)
      /\ \A c \in Blocks' \ {b} : End(c)' = End(c)
  BY <1>1, <1>3, BlockFacts DEF End, HeaderSize
<1>7. BlocksApart'
  <2>1. \A c \in Blocks' : HeapStart =< c /\ End(c)' =< HeapEnd
    BY <1>1, <1>2, <1>6 DEF IInv, BlocksApart
  <2>2. ASSUME NEW c \in Blocks', NEW d \in Blocks', c < d
        PROVE  End(c)' =< d
    <3>1. CASE c = b
      <4>1. d > gone
        BY <3>1, <2>2, <1>1, <1>2, BlockFacts DEF IInv, BlocksApart
      <4> QED BY <4>1, <3>1, <1>1, <1>2, <1>6 DEF IInv, BlocksApart
    <3>2. CASE c # b
      BY <3>2, <2>2, <1>2, <1>6 DEF IInv, BlocksApart
    <3> QED BY <3>1, <3>2
  <2> QED BY <2>1, <2>2 DEF BlocksApart, HeapEnd
<1>8. Linked'
  <2>1. hdr[gone].next # gone
    BY <1>1, BlockFacts DEF IInv, Linked, NULL, End, HeaderSize
  <2>2. \A c \in Blocks' \ {b} : hdr[c].next # gone
    <3> SUFFICES ASSUME NEW c \in Blocks' \ {b}, hdr[c].next = gone PROVE FALSE
      OBVIOUS
    <3>1. End(c) = gone /\ c < gone
      BY <1>1, <1>2, BlockFacts DEF IInv, Linked, NULL, End, HeaderSize
    <3>2. c < b \/ b < c
      BY <1>2, BlockFacts
    <3> QED
      BY <3>1, <3>2, <1>1, <1>2, BlockFacts DEF IInv, BlocksApart, End, HeaderSize
  <2> QED
    BY <2>1, <2>2, <1>1, <1>2, <1>3, <1>6 DEF IInv, Linked, HeapEnd, NULL
<1> QED
  BY <1>1, <1>2, <1>3, <1>5, <1>7, <1>8

------------------------------------------------------------------------------
\* kmalloc keeps the invariant.
LEMMA KmallocStep ==
  ASSUME IInv, NEW n \in Sizes, NEW b \in Blocks, KmallocFrom(b, n)
  PROVE  IInv'
<1> DEFINE s == AlignUp(n)
<1>1. s \in Nat
  BY AlignUpSize
<1>2. hdr[b].free
  BY DEF KmallocFrom, FirstFit, Fits
<1>3. live' = [p \in DOMAIN live \cup {Ptr(b)} |-> IF p = Ptr(b) THEN n ELSE live[p]]
  BY DEF KmallocFrom
<1>4. live' \in [DOMAIN live' -> Sizes] /\ DOMAIN live' = DOMAIN live \cup {Ptr(b)}
      /\ DOMAIN live' \subseteq Nat
  BY <1>3, BlockFacts DEF IInv, TypeOK
<1>5. /\ Ptr(b) - HeaderSize = b
      /\ \A p \in DOMAIN live : /\ p - HeaderSize \in Blocks \ {b}
                                /\ ~hdr[p - HeaderSize].free
  BY <1>2, BlockFacts DEF IInv, GrantsBacked, Ptr, HeaderSize
<1>6. CASE Splits(b, s)
  <2>1. hdr' = Cut(b, s)
    BY <1>6 DEF KmallocFrom
  <2>2. TypeOK' /\ BlocksApart' /\ Linked'
    BY <2>1, <1>1, <1>4, <1>6, CutKeepsTiling DEF IInv, TypeOK
  <2>3. GrantsBacked'
    <3>1. \A p \in DOMAIN live' : p - HeaderSize \in Blocks'
                                  /\ ~hdr'[p - HeaderSize].free
      BY <2>1, <1>1, <1>4, <1>6, <1>5, CutKeepsTiling DEF IInv
    <3>2. \A c \in Blocks' : ~hdr'[c].free => Ptr(c) \in DOMAIN live'
      BY <2>1, <1>1, <1>4, <1>6, CutKeepsTiling DEF IInv, GrantsBacked
    <3> QED BY <3>1, <3>2 DEF GrantsBacked, Ptr
  <2> QED BY <2>2, <2>3 DEF IInv
<1>7. CASE ~Splits(b, s)
  <2>1. hdr' = Marked(b, FALSE)
    BY <1>7 DEF KmallocFrom, Occupied
  <2>2. TypeOK' /\ BlocksApart' /\ Linked'
    BY <2>1, <1>4, MarkKeepsTiling DEF IInv, TypeOK
  <2>3. GrantsBacked'
    <3>1. \A p \in DOMAIN live' : p - HeaderSize \in Blocks'
                                  /\ ~hdr'[p - HeaderSize].free
      BY <2>1, <1>4, <1>5, MarkKeepsTiling
    <3>2. \A c \in Blocks' : ~hdr'[c].free => Ptr(c) \in DOMAIN live'
      BY <2>1, <1>4, MarkKeepsTiling DEF IInv, GrantsBacked
    <3> QED BY <3>1, <3>2 DEF GrantsBacked, Ptr
  <2> QED BY <2>2, <2>3 DEF IInv
<1> QED
  BY <1>6, <1>7

\* kfree keeps the invariant: the block it absorbs is free, so no caller holds
\* the pointer of that block.
LEMMA KfreeStep ==
  ASSUME IInv, NEW p \in DOMAIN live, Kfree(p)
  PROVE  IInv'
<1> DEFINE b == p - HeaderSize
<1>1. b \in Blocks /\ p = Ptr(b) /\ p \in Nat
  BY DEF Kfree, Ptr, IInv, TypeOK, HeaderSize
<1>2. /\ live' \in [DOMAIN live' -> Sizes] /\ DOMAIN live' = DOMAIN live \ {p}
      /\ DOMAIN live' \subseteq Nat
  BY DEF Kfree, IInv, TypeOK
<1>3. \A q \in DOMAIN live' : /\ q - HeaderSize \in Blocks \ {b}
                              /\ ~hdr[q - HeaderSize].free
  BY <1>1, <1>2 DEF IInv, TypeOK, GrantsBacked, HeaderSize
<1>4. CASE Absorbs(b)
  <2> DEFINE gone == hdr[b].next
  <2>1. hdr' = Merged(b)
    BY <1>4 DEF Kfree
  <2>2. HeapStart # gone
    BY <2>1, <1>1, <1>4, MergeKeepsTiling, BlockFacts, HeapAssumption
       DEF IInv, BlocksApart
  <2>3. TypeOK' /\ BlocksApart' /\ Linked'
    BY <2>1, <2>2, <1>1, <1>2, <1>4, MergeKeepsTiling DEF IInv, TypeOK
  <2>4. GrantsBacked'
    <3>1. \A q \in DOMAIN live' : q - HeaderSize \in Blocks'
                                  /\ ~hdr'[q - HeaderSize].free
      BY <2>1, <1>1, <1>3, <1>4, MergeKeepsTiling DEF Absorbs
    <3>2. \A c \in Blocks' : ~hdr'[c].free => Ptr(c) \in DOMAIN live'
      BY <2>1, <1>1, <1>2, <1>4, MergeKeepsTiling, BlockFacts
         DEF IInv, GrantsBacked, Ptr, HeaderSize
    <3> QED BY <3>1, <3>2 DEF GrantsBacked, Ptr
  <2> QED BY <2>3, <2>4 DEF IInv
<1>5. CASE ~Absorbs(b)
  <2>1. hdr' = Marked(b, TRUE)
    BY <1>5 DEF Kfree, Released
  <2>2. TypeOK' /\ BlocksApart' /\ Linked'
    BY <2>1, <1>1, <1>2, MarkKeepsTiling DEF IInv, TypeOK
  <2>3. GrantsBacked'
    <3>1. \A q \in DOMAIN live' : q - HeaderSize \in Blocks'
                                  /\ ~hdr'[q - HeaderSize].free
      <4>1. Blocks' = Blocks /\ \A c \in Blocks \ {b} : hdr'[c] = hdr[c]
        BY <2>1, <1>1, MarkKeepsTiling
      <4> QED BY <4>1, <1>3
    <3>2. \A c \in Blocks' : ~hdr'[c].free => Ptr(c) \in DOMAIN live'
      <4>1. /\ Blocks' = Blocks /\ hdr'[b].free = TRUE
            /\ \A c \in Blocks \ {b} : hdr'[c] = hdr[c]
        BY <2>1, <1>1, MarkKeepsTiling
      <4>2. \A c \in Blocks \ {b} : Ptr(c) # p
        BY <1>1, BlockFacts DEF Ptr, HeaderSize
      <4>3. \A c \in Blocks \ {b} : ~hdr[c].free => Ptr(c) \in DOMAIN live'
        BY <1>2, <4>2 DEF IInv, GrantsBacked
      <4> QED BY <4>1, <4>3
    <3> QED BY <3>1, <3>2 DEF GrantsBacked, Ptr
  <2> QED BY <2>2, <2>3 DEF IInv
<1> QED
  BY <1>4, <1>5

\* A step that changes nothing keeps the invariant.
LEMMA StutterStep == IInv /\ UNCHANGED vars => IInv'
BY DEF IInv, vars, TypeOK, BlocksApart, Linked, GrantsBacked, Blocks, End, Ptr

LEMMA NextIInv == IInv /\ [Next]_vars => IInv'
<1> SUFFICES ASSUME IInv, [Next]_vars PROVE IInv'
  OBVIOUS
<1>1. ASSUME NEW n \in Sizes, NEW b \in Blocks, KmallocFrom(b, n) PROVE IInv'
  BY <1>1, KmallocStep
<1>2. ASSUME NEW n \in Sizes, KmallocFails(n) PROVE IInv'
  BY <1>2, StutterStep DEF KmallocFails
<1>3. ASSUME NEW p \in DOMAIN live, Kfree(p) PROVE IInv'
  BY <1>3, KfreeStep
<1>4. CASE UNCHANGED vars
  BY <1>4, StutterStep
<1> QED
  BY <1>1, <1>2, <1>3, <1>4 DEF Next

\* The inductive invariant holds of every heap: the types are kept, the blocks
\* tile the heap, and the occupied ones are those the callers hold.
THEOREM HeapInvariant == Spec => []IInv
BY InitIInv, NextIInv, PTL DEF Spec

\* kmalloc and kfree keep the fields of every header well typed.
THEOREM HeapTypeCorrect == Spec => []TypeOK
<1>1. IInv => TypeOK
  BY DEF IInv
<1> QED BY <1>1, HeapInvariant, PTL

\* The blocks tile the heap after any sequence of kmalloc and kfree, whatever
\* the sizes asked for: one that wraps in ALIGN included.
THEOREM HeapAlwaysTiled == Spec => []HeapTiled
<1>1. IInv => HeapTiled
  BY DEF IInv, HeapTiled
<1> QED BY <1>1, HeapInvariant, PTL

\* A block is occupied if and only if a caller holds its pointer.
THEOREM HeapGrantsBacked == Spec => []GrantsBacked
<1>1. IInv => GrantsBacked
  BY DEF IInv
<1> QED BY <1>1, HeapInvariant, PTL

------------------------------------------------------------------------------
(* A block is never smaller than what ALIGN made of the size it was given   *)
(* for.  GrantLargeEnough and the refinement of Allocator both follow.      *)
BlocksHold == \A p \in DOMAIN live : AlignUp(live[p]) =< hdr[p - HeaderSize].size

LInv == IInv /\ BlocksHold

\* The sizes held are sizes, and so is what ALIGN makes of them.
LEMMA LiveSizes ==
  ASSUME IInv, NEW p \in DOMAIN live
  PROVE  live[p] \in Sizes /\ AlignUp(live[p]) \in Nat
<1>1. live[p] \in Sizes
  BY DEF IInv, TypeOK
<1> QED BY <1>1, AlignUpSize

\* Blocks given to a caller keep their size until they are freed.
LEMMA BlocksHoldStep ==
  ASSUME IInv, BlocksHold, [Next]_vars
  PROVE  BlocksHold'
<1>1. ASSUME NEW n \in Sizes, NEW b \in Blocks, KmallocFrom(b, n)
      PROVE  BlocksHold'
  <2> DEFINE s == AlignUp(n)
  <2>1. s \in Nat
    BY AlignUpSize
  <2>2. hdr[b].free /\ hdr[b].size >= s /\ hdr[b].size \in Nat
    BY <1>1, BlockFacts DEF KmallocFrom, FirstFit, Fits
  <2>3. /\ Ptr(b) - HeaderSize = b
        /\ \A p \in DOMAIN live : p - HeaderSize \in Blocks \ {b}
    BY <2>2, BlockFacts DEF IInv, GrantsBacked, Ptr, HeaderSize
  <2>4. /\ DOMAIN live' = DOMAIN live \cup {Ptr(b)}
        /\ live'[Ptr(b)] = n
        /\ \A p \in DOMAIN live : live'[p] = live[p]
    <3>1. Ptr(b) \notin DOMAIN live
      BY <2>3
    <3> QED BY <1>1, <3>1 DEF KmallocFrom
  <2>5. /\ hdr'[b].size >= s
        /\ \A c \in Blocks \ {b} : hdr'[c] = hdr[c]
    <3>1. CASE Splits(b, s)
      BY <1>1, <2>1, <3>1, CutKeepsTiling DEF KmallocFrom
    <3>2. CASE ~Splits(b, s)
      <4>1. hdr' = Marked(b, FALSE)
        BY <1>1, <3>2 DEF KmallocFrom, Occupied
      <4> QED BY <2>1, <2>2, <4>1 DEF Marked
    <3> QED BY <3>1, <3>2
  <2>6. ASSUME NEW p \in DOMAIN live'
        PROVE  AlignUp(live'[p]) =< hdr'[p - HeaderSize].size
    <3>1. CASE p = Ptr(b)
      BY <2>3, <2>4, <2>5, <3>1
    <3>2. CASE p # Ptr(b)
      BY <2>3, <2>4, <2>5, <3>2 DEF BlocksHold
    <3> QED BY <3>1, <3>2
  <2> QED
    BY <2>6 DEF BlocksHold, AlignUp
<1>2. ASSUME NEW p \in DOMAIN live, Kfree(p)
      PROVE  BlocksHold'
  <2> DEFINE b == p - HeaderSize
  <2>1. b \in Blocks
    BY <1>2 DEF Kfree
  <2>2. /\ DOMAIN live' = DOMAIN live \ {p}
        /\ \A q \in DOMAIN live' : live'[q] = live[q]
    BY <1>2 DEF Kfree
  <2>3. \A q \in DOMAIN live' : q - HeaderSize \in Blocks \ {b}
    BY <2>1, <2>2 DEF IInv, TypeOK, GrantsBacked, HeaderSize
  <2>4. \A c \in Blocks' \ {b} : c \in Blocks /\ hdr'[c] = hdr[c]
    BY <1>2, <2>1, MergeKeepsTiling, MarkKeepsTiling DEF Kfree, Released
  <2>5. \A q \in DOMAIN live' : q - HeaderSize \in Blocks' /\ q \in DOMAIN live
    <3>1. IInv'
      BY <1>2, KfreeStep
    <3> QED BY <2>2, <3>1 DEF IInv, GrantsBacked
  <2>6. ASSUME NEW q \in DOMAIN live'
        PROVE  AlignUp(live'[q]) =< hdr'[q - HeaderSize].size
    BY <2>2, <2>3, <2>4, <2>5 DEF BlocksHold
  <2> QED
    BY <2>6 DEF BlocksHold, AlignUp
<1>3. CASE UNCHANGED vars
  BY <1>3 DEF vars, BlocksHold, AlignUp
<1> QED
  BY <1>1, <1>2, <1>3 DEF Next, KmallocFails

LEMMA InitLInv == Init => LInv
BY InitIInv DEF LInv, BlocksHold, Init

LEMMA NextLInv == LInv /\ [Next]_vars => LInv'
BY NextIInv, BlocksHoldStep DEF LInv

\* A caller that gets a pointer gets as many bytes as it asked for, whatever the
\* others ask for, unless its own size is one of those ALIGN wraps to 0.
THEOREM HeapGrantsLargeEnough == Spec => []GrantLargeEnough
<1>1. LInv => GrantLargeEnough
  <2> SUFFICES ASSUME LInv, NEW p \in DOMAIN live, ~Wraps(live[p])
               PROVE  live[p] =< hdr[p - HeaderSize].size
    BY DEF GrantLargeEnough
  <2>1. live[p] \in Nat /\ AlignUp(live[p]) \in Nat /\ AlignUp(live[p]) >= live[p]
    <3>1. live[p] \in Sizes
      BY LiveSizes DEF LInv
    <3>2. AlignUp(live[p]) \in Nat /\ AlignUp(live[p]) >= live[p]
      BY <3>1, AlignUpSize, Zenon
    <3>3. live[p] \in Nat
      BY <3>1, SizeNat
    <3> QED BY <3>2, <3>3
  <2>2. hdr[p - HeaderSize].size \in Nat /\ AlignUp(live[p]) =< hdr[p - HeaderSize].size
    BY BlockFacts DEF LInv, IInv, GrantsBacked, BlocksHold
  <2> QED BY <2>1, <2>2
<1> QED
  BY <1>1, InitLInv, NextLInv, PTL DEF Spec

------------------------------------------------------------------------------
(* The refinement of Allocator.                                             *)

\* What a caller is granted: the bytes of Allocator behind each pointer.
Bytes == [p \in DOMAIN live |-> AlignUp(live[p])]

\* Two occupied blocks give their callers ranges with no byte in common.
LEMMA GrantsApart ==
  ASSUME LInv, NEW p \in DOMAIN live, NEW q \in DOMAIN live, p # q
  PROVE  A!Apart(p, Bytes[p], q, Bytes[q])
<1> DEFINE b == p - HeaderSize
           c == q - HeaderSize
<1>1. b \in Blocks /\ c \in Blocks /\ b # c /\ Bytes[p] \in Nat /\ Bytes[q] \in Nat
  BY LiveSizes DEF LInv, IInv, TypeOK, GrantsBacked, HeaderSize, Bytes
<1>2. Bytes[p] =< hdr[b].size /\ Bytes[q] =< hdr[c].size
  BY DEF LInv, BlocksHold, Bytes
<1>3. /\ p + Bytes[p] =< End(b) /\ q + Bytes[q] =< End(c)
      /\ b =< p /\ c =< q /\ p \in Nat /\ q \in Nat
  BY <1>1, <1>2, BlockFacts DEF LInv, IInv, TypeOK, End, HeaderSize
<1>4. End(b) =< c \/ End(c) =< b
  BY <1>1, BlockFacts DEF LInv, IInv, BlocksApart
<1> QED
  BY <1>1, <1>3, <1>4, BlockFacts DEF A!Apart, LInv

AllApart == \A p, q \in DOMAIN live : p # q => A!Apart(p, Bytes[p], q, Bytes[q])

\* The same after a step.
LEMMA GrantsApartNext == LInv' => AllApart'
<1>1. LInv => AllApart
  BY GrantsApart DEF AllApart
<1> QED BY <1>1, PTL

\* Each step of the heap is a step of Allocator or changes no grant.
LEMMA StepRefines ==
  ASSUME LInv, LInv', [Next]_vars
  PROVE  [A!Next]_Bytes
<1>1. ASSUME NEW n \in Sizes, NEW b \in Blocks, KmallocFrom(b, n)
      PROVE  A!Next
  <2> DEFINE p == Ptr(b)
             s == AlignUp(n)
  <2>1. /\ live' = [q \in DOMAIN live \cup {p} |-> IF q = p THEN n ELSE live[q]]
        /\ hdr[b].free
    BY <1>1 DEF KmallocFrom, FirstFit, Fits
  <2>2. p \notin DOMAIN live
    BY <2>1, BlockFacts DEF LInv, IInv, GrantsBacked, Ptr, HeaderSize
  <2>3. p \in DOMAIN live' /\ live'[p] = n /\ p \in Nat
    BY <2>1, BlockFacts DEF LInv
  <2>4. /\ DOMAIN Bytes = DOMAIN live /\ s \in Nat
        /\ Bytes' = [q \in DOMAIN live \cup {p} |-> IF q = p THEN s ELSE Bytes[q]]
    BY <2>1, AlignUpSize DEF Bytes, AlignUp
  <2>5. Bytes'[p] = s /\ \A q \in DOMAIN live : q # p => Bytes'[q] = Bytes[q]
    BY <2>4
  <2>6. HeapStart =< p /\ p + s =< HeapEnd /\ p =< HeapEnd
    <3>1. /\ p - HeaderSize \in Blocks' /\ p - HeaderSize \in Nat
          /\ hdr'[p - HeaderSize].size \in Nat
          /\ End(p - HeaderSize)' =< HeapEnd /\ HeapStart =< p - HeaderSize
      BY <2>3 DEF LInv, IInv, TypeOK, Header, BlocksApart, GrantsBacked,
                  HeapEnd, HeaderSize
    <3>2. s =< hdr'[p - HeaderSize].size
      BY <2>3 DEF LInv, BlocksHold, AlignUp
    <3> QED
      BY <2>3, <2>4, <3>1, <3>2, HeapAssumption DEF End, HeaderSize, HeapEnd
  <2>7. \A q \in DOMAIN live : A!Apart(p, s, q, Bytes[q])
    <3> SUFFICES ASSUME NEW q \in DOMAIN live
                 PROVE  A!Apart(p, s, q, Bytes[q])
      OBVIOUS
    <3>1. q \in DOMAIN live' /\ q # p /\ Bytes'[q] = Bytes[q]
      BY <2>1, <2>2, <2>5
    <3>2. A!Apart(p, Bytes'[p], q, Bytes'[q])
      BY <2>3, <3>1, GrantsApartNext DEF AllApart
    <3> QED BY <2>5, <3>1, <3>2
  <2>8. A!Malloc(s)
    <3>1. HeapStart \in Nat /\ HeapEnd \in Nat /\ p \in HeapStart .. HeapEnd
      BY <2>3, <2>6, HeapAssumption DEF HeapEnd
    <3> QED
      BY <2>2, <2>4, <2>6, <2>7, <3>1 DEF A!Malloc, Bytes
  <2> QED BY <2>8 DEF A!Next
<1>2. ASSUME NEW p \in DOMAIN live, Kfree(p)
      PROVE  A!Next
  <2>1. live' = [q \in DOMAIN live \ {p} |-> live[q]]
    BY <1>2 DEF Kfree
  <2>2. Bytes' = [q \in DOMAIN Bytes \ {p} |-> Bytes[q]] /\ p \in DOMAIN Bytes
    BY <2>1 DEF Bytes, AlignUp
  <2> QED BY <2>2 DEF A!Next, A!Free, Bytes
<1>3. CASE UNCHANGED vars
  <2>1. Bytes' = Bytes
    BY <1>3 DEF vars, Bytes, AlignUp
  <2> QED BY <2>1
<1> QED
  BY <1>1, <1>2, <1>3 DEF Next, KmallocFails

\* The kernel heap implements Allocator: what a caller is granted is inside the
\* heap and nobody else's until it is freed, and it is the size ALIGN makes of
\* what it asked for.
THEOREM HeapRefinesAllocator == Spec => RefinesAllocator
<1>1. Init => LInv /\ A!Init
  BY InitLInv DEF Init, A!Init
<1>2. LInv /\ [Next]_vars => LInv' /\ [A!Next]_Bytes
  BY NextLInv, StepRefines
<1> QED
  BY <1>1, <1>2, PTL DEF Spec, RefinesAllocator, A!Spec, Bytes

\* Allocator's own safety: a grant is disjoint from all others when it is made.
LEMMA AllocatorSafe == ASSUME HeapStart \in Nat, HeapEnd \in Nat
                       PROVE  A!Spec => [](A!GrantsDisjoint)
<1> DEFINE D == A!GrantsDisjoint /\ \A p \in DOMAIN Bytes : p \in Nat /\ Bytes[p] \in Nat
<1>1. A!Init => D
  BY DEF A!Init, A!GrantsDisjoint, Bytes
<1>2. D /\ [A!Next]_Bytes => D'
  <2> SUFFICES ASSUME D, [A!Next]_Bytes PROVE D'
    OBVIOUS
  <2>1. ASSUME NEW n \in Sizes, A!Malloc(AlignUp(n)) PROVE D'
    <3>1. AlignUp(n) \in Nat
      BY AlignUpSize
    <3>2. PICK p \in HeapStart .. HeapEnd :
            /\ p + AlignUp(n) =< HeapEnd
            /\ p \notin DOMAIN Bytes
            /\ \A q \in DOMAIN Bytes : A!Apart(p, AlignUp(n), q, Bytes[q])
            /\ Bytes' = [q \in DOMAIN Bytes \cup {p} |->
                          IF q = p THEN AlignUp(n) ELSE Bytes[q]]
      BY <2>1 DEF A!Malloc, Bytes
    <3>3. /\ DOMAIN Bytes' = DOMAIN Bytes \cup {p}
          /\ Bytes'[p] = AlignUp(n) /\ p \in Nat /\ HeapStart =< p
          /\ \A q \in DOMAIN Bytes : q # p /\ Bytes'[q] = Bytes[q]
      BY <3>2
    <3>4. \A q \in DOMAIN Bytes : HeapStart =< q /\ q + Bytes[q] =< HeapEnd
      BY DEF A!GrantsDisjoint, Bytes
    <3>5. \A q, r \in DOMAIN Bytes : q # r => A!Apart(q, Bytes[q], r, Bytes[r])
      BY DEF A!GrantsDisjoint, Bytes
    <3>6. \A q \in DOMAIN Bytes' : HeapStart =< q /\ q + Bytes'[q] =< HeapEnd
      BY <3>2, <3>3, <3>4
    <3>7. \A q, r \in DOMAIN Bytes' : q # r => A!Apart(q, Bytes'[q], r, Bytes'[r])
      BY <3>2, <3>3, <3>5 DEF A!Apart
    <3>8. A!GrantsDisjoint'
      BY <3>6, <3>7 DEF A!GrantsDisjoint, A!Apart, Bytes
    <3> QED BY <3>1, <3>3, <3>8
  <2>2. ASSUME NEW p \in DOMAIN Bytes, A!Free(p) PROVE D'
    BY <2>2 DEF A!Free, A!GrantsDisjoint, A!Apart, Bytes
  <2>3. CASE UNCHANGED Bytes
    BY <2>3 DEF A!GrantsDisjoint, A!Apart, Bytes
  <2> QED BY <2>1, <2>2, <2>3 DEF A!Next, Bytes
<1>3. D => A!GrantsDisjoint
  OBVIOUS
<1> QED
  BY <1>1, <1>2, <1>3, PTL DEF A!Spec, Bytes

\* What two callers are granted never overlaps and never leaves the heap: with
\* the sizes kmalloc rounded to, which are those they asked for or more unless
\* one wraps.
THEOREM HeapGrantsDisjoint == Spec => []GrantsDisjoint
<1>1. Spec => A!Spec
  BY HeapRefinesAllocator DEF RefinesAllocator
<1>2. HeapStart \in Nat /\ HeapEnd \in Nat
  BY HeapAssumption DEF HeapEnd
<1>3. A!Spec => [](A!GrantsDisjoint)
  BY <1>2, AllocatorSafe
<1> QED
  BY <1>1, <1>3, PTL DEF GrantsDisjoint
==============================================================================
