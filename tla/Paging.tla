-------------------------------- MODULE Paging --------------------------------
(****************************************************************************)
(* The physical frames and the page tables of core/kernel/memory.c.         *)
(*                                                                          *)
(* The frames of page tables are tables here, with the entries they hold;   *)
(* a frame nobody holds has bytes of its former owner, which read as a      *)
(* table are entries like any others.  What a caller keeps in a frame is    *)
(* left out.  The heap, which the code lays over the same frames, is not    *)
(* part of this module: see Memory.                                         *)
(****************************************************************************)
EXTENDS Integers, FiniteSets

CONSTANTS TotalFrames,   \* total_frames, from the memory the boot loader found
          WordBits,      \* frames in a word of frame_bitmap, 32 in the code
          Reserved,      \* frames of the first 2 MB, 512 in the code
          PageEntries,   \* PAGE_ENTRIES, 1024 in the code
          DirEntries,    \* entries of kernel_page_dir, 1024 in the code
          CallerPages,   \* bound: the pages callers map and unmap
          FlagSets       \* the flags they map them with

ASSUME PagingAssumption ==
  /\ TotalFrames \in Nat /\ WordBits \in Nat \ {0}
  /\ Reserved \in 1 .. TotalFrames
  /\ PageEntries \in Nat \ {0} /\ DirEntries \in Nat \ {0}
  /\ CallerPages \subseteq 0 .. DirEntries * PageEntries - 1
  /\ FlagSets \subseteq SUBSET {"PRESENT", "WRITABLE", "USER"}

Dirs    == 0 .. DirEntries - 1
Entries == 0 .. PageEntries - 1
Pages   == 0 .. DirEntries * PageEntries - 1
Frames  == 0 .. TotalFrames - 1
None    == -1

VARIABLES bitmap,        \* frames marked in frame_bitmap
          used_frames,
          dir_frame,     \* kernel_page_dir: entry -> frame of its table, or None
          dir_user,      \* entry -> its user bit
          table,         \* frame -> the page table in it
          granted        \* frames alloc_page gave to callers

vars == <<bitmap, used_frames, dir_frame, dir_user, table, granted>>

PageEntry(f, flags) == [frame |-> f, flags |-> flags]
NotPresent == PageEntry(0, {})
Stale      == PageEntry(0, {"PRESENT", "USER"})   \* bytes of a former owner

------------------------------------------------------------------------------
(* frame_find_free returns f: the first frame that is not marked in a whole *)
(* word of the bitmap.  It is never 0, which stands for none.               *)
Scanned == 0 .. (TotalFrames \div WordBits) * WordBits - 1

FrameFindFree(f) ==
  /\ f \in Scanned \ bitmap
  /\ \A g \in Scanned \ bitmap : f =< g

NoFreeFrame == Scanned \subseteq bitmap

\* Mutant: alloc_page does not clear the frame.
Cleared_Stale(f) == table[f]

(* kmemset of a frame that is given out, read as a page table.              *)
Cleared(f) == [i \in Entries |-> NotPresent]

FrameSet(f) == bitmap' = bitmap \cup {f} /\ used_frames' = used_frames + 1

FrameClear(f) == bitmap' = bitmap \ {f} /\ used_frames' = used_frames - 1

FrameTest(f) == f \in bitmap

AllocPage(f) ==
  /\ FrameFindFree(f)
  /\ FrameSet(f)
  /\ table' = [table EXCEPT ![f] = Cleared(f)]
  /\ granted' = granted \cup {f}
  /\ UNCHANGED <<dir_frame, dir_user>>

AllocPageFails == NoFreeFrame /\ UNCHANGED vars

\* Mutants: free_page forgets the test of the bitmap, or that of the address.
Freeable_Unmarked(f) == f >= Reserved
Freeable_Low(f)      == FrameTest(f)

Freeable(f) == f >= Reserved /\ FrameTest(f)

(* free_page; what the caller wrote stays in the frame.                     *)
FreePage(f) ==
  /\ Freeable(f)
  /\ FrameClear(f)
  /\ table' = [table EXCEPT ![f] = [i \in Entries |-> Stale]]
  /\ granted' = granted \ {f}
  /\ UNCHANGED <<dir_frame, dir_user>>

FreePageIgnored(f) == ~Freeable(f) /\ UNCHANGED vars

DirIndex(v)   == v \div PageEntries

TableIndex(v) == v % PageEntries

(* map_page where the directory has a table for v.                          *)
MapInTable(v, f, flags) ==
  /\ dir_frame[DirIndex(v)] # None
  /\ table' = [table EXCEPT ![dir_frame[DirIndex(v)]][TableIndex(v)] =
                              PageEntry(f, flags)]
  /\ UNCHANGED <<bitmap, used_frames, dir_frame, dir_user, granted>>

(* It has none: a frame becomes the table, and the directory entry takes    *)
(* the user bit of this first mapping.                                      *)
MapInNewTable(v, f, flags) ==
  /\ dir_frame[DirIndex(v)] = None
  /\ \E t \in Frames :
       /\ FrameFindFree(t)
       /\ FrameSet(t)
       /\ dir_frame' = [dir_frame EXCEPT ![DirIndex(v)] = t]
       /\ dir_user' = [dir_user EXCEPT ![DirIndex(v)] = "USER" \in flags]
       /\ table' = [table EXCEPT ![t] = [Cleared(t) EXCEPT ![TableIndex(v)] =
                                           PageEntry(f, flags)]]
  /\ UNCHANGED granted

(* No frame is left for it: map_page returns and says nothing.              *)
MapNothing(v) ==
  /\ dir_frame[DirIndex(v)] = None
  /\ NoFreeFrame
  /\ UNCHANGED vars

MapPage(v, f, flags) ==
  MapInTable(v, f, flags) \/ MapInNewTable(v, f, flags) \/ MapNothing(v)

UnmapPage(v) ==
  /\ dir_frame[DirIndex(v)] # None
  /\ table' = [table EXCEPT ![dir_frame[DirIndex(v)]][TableIndex(v)].flags =
                              @ \ {"PRESENT"}]
  /\ UNCHANGED <<bitmap, used_frames, dir_frame, dir_user, granted>>

------------------------------------------------------------------------------
(* init_memory: the reserved frames, then an identity mapping of the first  *)
(* 4 MB, all in one table, in the first frame behind the reserved ones; it  *)
(* is missing when there is none.                                           *)
Init ==
  /\ granted = {}
  /\ dir_user = [d \in Dirs |-> FALSE]
  /\ IF Reserved \in Scanned
     THEN /\ bitmap = 0 .. Reserved
          /\ used_frames = Reserved + 1
          /\ dir_frame = [d \in Dirs |-> IF d = 0 THEN Reserved ELSE None]
          /\ table = [f \in Frames |-> [i \in Entries |->
                        IF f = Reserved THEN PageEntry(i, {"PRESENT", "WRITABLE"})
                        ELSE Stale]]
     ELSE /\ bitmap = 0 .. Reserved - 1
          /\ used_frames = Reserved
          /\ dir_frame = [d \in Dirs |-> None]
          /\ table = [f \in Frames |-> [i \in Entries |-> Stale]]

TableFrames == {dir_frame[d] : d \in Dirs} \ {None}

(* Callers map the frames they hold; they may free one twice, or one that   *)
(* was never theirs to free, but know of none that holds a page table.      *)
Next == \/ \E f \in Frames : AllocPage(f)
        \/ AllocPageFails
        \/ \E f \in Frames \ TableFrames : FreePage(f) \/ FreePageIgnored(f)
        \/ \E v \in CallerPages, f \in granted, flags \in FlagSets :
             MapPage(v, f, flags)
        \/ \E v \in CallerPages : UnmapPage(v)

Spec == Init /\ [][Next]_vars

------------------------------------------------------------------------------
TypeOK == /\ bitmap \subseteq Frames
          /\ used_frames \in Nat
          /\ dir_frame \in [Dirs -> Frames \cup {None}]
          /\ dir_user \in [Dirs -> BOOLEAN]
          /\ table \in [Frames -> [Entries -> [frame : Nat,
                          flags : SUBSET {"PRESENT", "WRITABLE", "USER"}]]]
          /\ granted \subseteq Frames

TablesDistinct ==
  \A d, e \in Dirs : dir_frame[d] = dir_frame[e] /\ dir_frame[d] # None => d = e

\* FramesAccounted: a marked frame is reserved, one page table or a caller's, and
\* never two of these; used_frames counts them.  Were one given out twice, a
\* caller would write into a page table, or two directory entries share one.
FramesAccounted ==
  /\ bitmap = (0 .. Reserved - 1) \cup TableFrames \cup granted
  /\ TableFrames \cap granted = {}
  /\ TablesDistinct
  /\ \A f \in TableFrames \cup granted : f >= Reserved
  /\ used_frames = Cardinality(bitmap)

(* What the processor finds for page v: its entry, if it is present.        *)
Translation(v) ==
  IF dir_frame[DirIndex(v)] = None THEN NotPresent
  ELSE LET e == table[dir_frame[DirIndex(v)]][TableIndex(v)]
       IN  IF "PRESENT" \in e.flags THEN e ELSE NotPresent

\* MappingsIndependent: no operation changes where two pages lead: map_page and
\* unmap_page touch the page they are called for, a new page table brings no
\* mapping with it, and a frame given out or back is no page table in use.
MappingsIndependent ==
  [][\A v, w \in Pages : Translation(v)' # Translation(v)
                           /\ Translation(w)' # Translation(w) => v = w]_vars
==============================================================================
