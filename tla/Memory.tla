-------------------------------- MODULE Memory --------------------------------
(****************************************************************************)
(* The two halves of core/kernel/memory.c over one physical memory: the     *)
(* kernel heap, which lies from HEAP_START on, and the frames alloc_page    *)
(* gives out.  Neither half knows of the other.                             *)
(*                                                                          *)
(* Each half is modelled as if it alone wrote to its memory.  That is so as *)
(* long as HeapApartFromFrames has held, and nothing is said of what comes  *)
(* after.                                                                   *)
(****************************************************************************)
EXTENDS Integers, FiniteSets

CONSTANTS HeapStart, HeapSize, Word, Sizes,
          TotalFrames, WordBits, Reserved, PageEntries, DirEntries,
          CallerPages, FlagSets,
          PageSize         \* bytes of a frame, 4096 in the code

VARIABLES hdr, live,
          bitmap, used_frames, dir_frame, dir_user, table, granted

heap  == <<hdr, live>>
pages == <<bitmap, used_frames, dir_frame, dir_user, table, granted>>

Heap   == INSTANCE KernelHeap
Paging == INSTANCE Paging

Init == Heap!Init /\ Paging!Init

Next == \/ Heap!Next /\ UNCHANGED pages
        \/ Paging!Next /\ UNCHANGED heap

Spec == Init /\ [][Next]_<<heap, pages>>

------------------------------------------------------------------------------
(* The bytes from lo to hi - 1 and those of frame f have one in common.     *)
Meets(f, lo, hi) == lo < (f + 1) * PageSize /\ f * PageSize < hi

\* HeapApartFromFrames: init_memory "Reserva os primeiros 2 MB para o kernel e
\* estruturas críticas" (src/core/kernel/memory.c:118): no frame that alloc_page
\* clears and gives out has a header of the heap or a byte of a block in use.
HeapApartFromFrames ==
  \A f \in granted \cup Paging!TableFrames, b \in Heap!Blocks :
    ~Meets(f, b, IF hdr[b].free THEN Heap!Ptr(b) ELSE Heap!End(b))
==============================================================================
