------------------------------ MODULE KernelHeap ------------------------------
(****************************************************************************)
(* The kernel heap of core/kernel/memory.c: kmalloc, a first-fit search of  *)
(* a linked list of blocks, and kfree.                                      *)
(*                                                                          *)
(* Memory is modelled by the headers in it: hdr maps the address of each    *)
(* header to its fields.  An address with HEAP_MAGIC is one in DOMAIN hdr;  *)
(* the header a merge absorbs leaves the domain, since no pointer to it is  *)
(* left.  The variable live is a history of the callers: what they hold.    *)
(****************************************************************************)
EXTENDS Integers, FiniteSets

CONSTANTS HeapStart,   \* HEAP_START, 1 MB in the code
          HeapSize,    \* HEAP_MAX_SIZE, 64 MB in the code
          Word,        \* number of values of size_t, 2^32 in the code
          Sizes        \* the sizes callers ask for

HeaderSize == 16       \* sizeof(heap_block_t) on i386
MinData    == 16       \* least data kmalloc leaves in the rest of a split
NULL       == 0
HeapEnd    == HeapStart + HeapSize

ASSUME HeapAssumption ==
  /\ HeapStart \in Nat \ {0}
  /\ HeapSize \in Nat /\ HeapSize >= HeaderSize
  /\ Word \in Nat /\ Word % 4 = 0 /\ HeapEnd < Word
  /\ Sizes \subseteq 0 .. Word - 1

VARIABLES hdr,    \* header address -> [size, free, next]
          live    \* pointer held by a caller -> size the caller asked for

vars == <<hdr, live>>

Blocks  == DOMAIN hdr
End(b)  == b + HeaderSize + hdr[b].size   \* first address after block b
Ptr(b)  == b + HeaderSize                 \* the pointer kmalloc returns for b

\* Mutant: rounds down instead of up.
AlignUp_Down(n) == n - (n % 4)

\* ALIGN(size, 4) in arithmetic modulo Word: one of the three last sizes wraps
\* to 0, which kmalloc does not refuse, since it tests size == 0 before.
AlignUp(n) == LET up == IF n + 3 < Word THEN n + 3 ELSE n + 3 - Word
              IN  up - (up % 4)

------------------------------------------------------------------------------
(* init_memory: one free block over the whole heap.                         *)
Init == /\ hdr = [b \in {HeapStart} |->
                    [size |-> HeapSize - HeaderSize, free |-> TRUE, next |-> NULL]]
        /\ live = [p \in {} |-> 0]

(* The i-th header met when following next from heap_head, NULL past the    *)
(* end of the list.                                                         *)
Walk[i \in Nat] ==
  IF i = 0 THEN HeapStart
  ELSE LET before == Walk[i - 1]
       IN  IF before \in Blocks THEN hdr[before].next ELSE NULL

\* Mutant: the free flag of the block is not tested.
Fits_Occupied(b, s) == b \in Blocks /\ hdr[b].size >= s

Fits(b, s) == b \in Blocks /\ hdr[b].free /\ hdr[b].size >= s

\* The search of kmalloc stops at b.
FirstFit(b, s) ==
  /\ Fits(b, s)
  /\ \E i \in 0 .. Cardinality(Blocks) :
       Walk[i] = b /\ \A j \in 0 .. i - 1 : ~Fits(Walk[j], s)

\* Mutant: forgets the room for the second header.
Splits_NoRoom(b, s) == hdr[b].size > s

\* Block b is large enough to be cut after s bytes of data.
Splits(b, s) == hdr[b].size >= s + HeaderSize + MinData

(* hdr after b was cut: a new free block takes the rest and b's next.       *)
Cut(b, s) ==
  LET rest == Ptr(b) + s
  IN  [c \in Blocks \cup {rest} |->
         IF c = b THEN [size |-> s, free |-> FALSE, next |-> rest]
         ELSE IF c = rest
              THEN [size |-> hdr[b].size - s - HeaderSize, free |-> TRUE,
                    next |-> hdr[b].next]
              ELSE hdr[c]]

\* Mutant: the block is not marked.
Occupied_Unmarked(b) == hdr

Marked(b, f) == [c \in Blocks |->
                   IF c = b THEN [size |-> hdr[b].size, free |-> f,
                                  next |-> hdr[b].next]
                   ELSE hdr[c]]

Occupied(b) == Marked(b, FALSE)

(* kmalloc(n) that returns Ptr(b).                                          *)
KmallocFrom(b, n) ==
  /\ n # 0
  /\ FirstFit(b, AlignUp(n))
  /\ hdr' = IF Splits(b, AlignUp(n)) THEN Cut(b, AlignUp(n)) ELSE Occupied(b)
  /\ live' = [p \in DOMAIN live \cup {Ptr(b)} |-> IF p = Ptr(b) THEN n ELSE live[p]]

(* kmalloc(n) that returns NULL: no size, or the list is exhausted.         *)
KmallocFails(n) ==
  /\ n = 0 \/ \A i \in 0 .. Cardinality(Blocks) : ~Fits(Walk[i], AlignUp(n))
  /\ UNCHANGED vars

(* kfree(p) absorbs the next block when that one is free; the block before  *)
(* is not looked at.                                                        *)
Absorbs(b) == hdr[b].next \in Blocks /\ hdr[hdr[b].next].free

\* Mutant: the absorbed header's own bytes are not counted.
Merged_NoHeader(b) ==
  LET gone == hdr[b].next
  IN  [c \in Blocks \ {gone} |->
         IF c = b THEN [size |-> hdr[b].size + hdr[gone].size,
                        free |-> TRUE, next |-> hdr[gone].next]
         ELSE hdr[c]]

Merged(b) ==
  LET gone == hdr[b].next
  IN  [c \in Blocks \ {gone} |->
         IF c = b THEN [size |-> hdr[b].size + HeaderSize + hdr[gone].size,
                        free |-> TRUE, next |-> hdr[gone].next]
         ELSE hdr[c]]

Released(b) == Marked(b, TRUE)

(* kfree(p) of a pointer in a caller's hands; kfree(NULL) and kfree of a    *)
(* pointer without a header before it return at once, a stuttering step.    *)
Kfree(p) ==
  LET b == p - HeaderSize
  IN  /\ b \in Blocks
      /\ hdr' = IF Absorbs(b) THEN Merged(b) ELSE Released(b)
      /\ live' = [q \in DOMAIN live \ {p} |-> live[q]]

Next == \/ \E n \in Sizes, b \in Blocks : KmallocFrom(b, n)
        \/ \E n \in Sizes : KmallocFails(n)
        \/ \E p \in DOMAIN live : Kfree(p)

Spec == Init /\ [][Next]_vars

------------------------------------------------------------------------------
Header == [size : Nat, free : BOOLEAN, next : Nat]

\* hdr and live are functions from addresses to headers and to sizes, and
\* init_memory's first header is still the head of the list.
TypeOK == /\ hdr \in [Blocks -> Header] /\ Blocks \subseteq Nat
          /\ live \in [DOMAIN live -> Sizes] /\ DOMAIN live \subseteq Nat
          /\ HeapStart \in Blocks

\* Two blocks never overlap and none leaves the heap.
BlocksApart ==
  /\ \A b \in Blocks : HeapStart =< b /\ End(b) =< HeapEnd
  /\ \A b, c \in Blocks : b < c => End(b) =< c

\* A block ends where the heap ends or where the block it links to begins.
Linked == \A b \in Blocks :
            \/ hdr[b].next = NULL /\ End(b) = HeapEnd
            \/ hdr[b].next \in Blocks /\ hdr[b].next = End(b)

\* HeapTiled: after any mix of kmalloc and kfree the blocks cover the heap
\* with no overlap and no gap, in the order of the list (the splits of
\* kmalloc and the merges of kfree neither lose nor double a byte).
HeapTiled == BlocksApart /\ Linked

\* GrantsBacked: the occupied blocks are exactly those whose pointer a caller
\* holds, so kmalloc never hands out a block twice and kfree frees only its own.
GrantsBacked ==
  /\ \A p \in DOMAIN live : p - HeaderSize \in Blocks /\ ~hdr[p - HeaderSize].free
  /\ \A b \in Blocks : ~hdr[b].free => Ptr(b) \in DOMAIN live

\* A size whose ALIGN wraps: the caller gets a block of no bytes for it.
Wraps(n) == n + 3 >= Word

\* GrantLargeEnough: a caller that got a pointer for a size that does not wrap in
\* ALIGN (memory.c:278) has as many bytes as it asked for until it frees them,
\* whatever the other callers ask for, sizes that do wrap included.
GrantLargeEnough ==
  \A p \in DOMAIN live :
    p - HeaderSize \in Blocks /\ ~Wraps(live[p]) => live[p] =< hdr[p - HeaderSize].size

(* Kmalloc and kfree keep the promise of Allocator: a caller is granted the *)
(* size ALIGN makes of what it asked for, 0 bytes for a size that wraps.    *)
A == INSTANCE Allocator
       WITH Lo <- HeapStart, Hi <- HeapEnd, Sizes <- {AlignUp(n) : n \in Sizes},
            granted <- [p \in DOMAIN live |-> AlignUp(live[p])]

\* RefinesAllocator: the heap implements Allocator.
RefinesAllocator == A!Spec

\* GrantsDisjoint: the bytes two callers of kmalloc are granted never overlap and
\* never leave the heap.
GrantsDisjoint == A!GrantsDisjoint
==============================================================================
