------------------------------- MODULE ElfLoader -------------------------------
(****************************************************************************)
(* map_elf_segments and load_elf of core/loader/elf_loader.c over the page  *)
(* tables, one step for each call of alloc_page and of map_page.            *)
(*                                                                          *)
(* An image is a sequence of the segments that are loaded: those of type    *)
(* LOAD with p_memsz not 0.  A segment is the pages it touches, counted     *)
(* past the end of the address space where it reaches there, and the flags  *)
(* for them.  Where the loop over them ends is computed in u32.  The bytes  *)
(* of a segment are left out.  A file is an image and what validate_elf     *)
(* looks at: the bytes there are, whether its header says a 32-bit          *)
(* little-endian i386 program or library, and the place of its table of     *)
(* program headers.                                                         *)
(****************************************************************************)
EXTENDS Paging, Sequences

CONSTANTS Files,       \* [size, ident, phoff, phnum, phentsize, image]
          HeaderSize,  \* sizeof(elf32_header_t), 52 in the code
          Word         \* number of values of u32

(* Pages of the address space: 4 GB of them in the code.                    *)
PageCount == DirEntries * PageEntries

(* A sequence of [first : page, last : number, flags : flag set].           *)
Images == {f.image : f \in Files}

ASSUME ElfLoaderAssumption ==
  /\ HeaderSize \in Nat /\ Word \in Nat \ {0}
  /\ \A f \in Files :
       /\ {f.size, f.phoff, f.phnum, f.phentsize} \subseteq 0 .. Word - 1
       /\ f.ident \in BOOLEAN
       /\ Len(f.image) =< f.phnum

(* p_memsz is a u32 and not 0.  Every page a segment is loaded to is        *)
(* present and the program's.                                               *)
ASSUME ImagesAssumption ==
  \A m \in Images :
    /\ m \in Seq([first : Pages, last : Nat,
                  flags : SUBSET {"PRESENT", "WRITABLE", "USER"}])
    /\ \A k \in 1 .. Len(m) : /\ m[k].first =< m[k].last
                              /\ m[k].last =< m[k].first + PageCount
                              /\ {"PRESENT", "USER"} \subseteq m[k].flags

VARIABLES status,   \* "idle", inside map_elf_segments "alloc" or "map", and
                    \* its result: "loaded" (0), "failed" (-1, -2)
          image,    \* the image of the latest load
          i, va,    \* the segment and the page the loops are at
          phys      \* the frame alloc_page returned for that page

lvars == <<status, image, i, va, phys>>
evars == <<vars, lvars>>

Loading == status \in {"alloc", "map"}

EInit == Init /\ status = "idle" /\ image = <<>> /\ i = 1 /\ va = 0 /\ phys = 0

ValidateElf(f) ==
  /\ f.size >= HeaderSize
  /\ f.ident
  /\ (f.phoff + f.phnum * f.phentsize) % Word =< f.size

(* load_elf of a valid file.                                                *)
LoadElf(f) ==
  /\ ~Loading /\ ValidateElf(f)
  /\ status' = "alloc"
  /\ image' = f.image
  /\ i' = 1
  /\ va' = IF f.image = <<>> THEN 0 ELSE f.image[1].first
  /\ phys' = 0
  /\ UNCHANGED vars

(* vend, the page behind the segment: the sum and the alignment are u32's,  *)
(* so that it is page 0 for a segment that ends with the address space.     *)
SegmentEnd(s) == (s.last + 1) % PageCount

\* Mutant: the loop stops one page early.
MorePages_OneLess == va + 1 < SegmentEnd(image[i])

MorePages == va < SegmentEnd(image[i])

MapSegmentPage ==
  /\ status = "alloc" /\ i =< Len(image)
  /\ MorePages
  /\ \E f \in Frames : AllocPage(f) /\ phys' = f
  /\ status' = "map"
  /\ UNCHANGED <<image, i, va>>

(* The variables of the loops are gone once a call has returned.            *)
Forgotten == image' = <<>> /\ i' = 1 /\ va' = 0 /\ phys' = 0

(* load_elf of any other file: -2.                                          *)
LoadElfRefused(f) ==
  /\ ~Loading /\ ~ValidateElf(f)
  /\ status' = "failed"
  /\ Forgotten
  /\ UNCHANGED vars

(* alloc_page returned 0: -1, and what was mapped so far stays.             *)
MapSegmentsFails ==
  /\ status = "alloc" /\ i =< Len(image)
  /\ MorePages
  /\ NoFreeFrame
  /\ status' = "failed"
  /\ Forgotten
  /\ UNCHANGED vars

\* Mutant: every page gets the flags of the first segment.
PageFlags_First(s) == image[1].flags

(* PAGE_PRESENT and PAGE_USER, and PAGE_WRITABLE for a segment with PF_W.   *)
PageFlags(s) == s.flags

PageMapped ==
  /\ status = "map"
  /\ MapPage(va, phys, PageFlags(image[i]))
  /\ va' = va + 1
  /\ status' = "alloc"
  /\ UNCHANGED <<image, i, phys>>

(* No page of the segment is left, or there was none to walk.               *)
SegmentMapped ==
  /\ status = "alloc" /\ i =< Len(image)
  /\ ~MorePages
  /\ i' = i + 1
  /\ va' = IF i < Len(image) THEN image[i + 1].first ELSE 0
  /\ UNCHANGED <<vars, status, image, phys>>

LoadElfReturns ==
  /\ status = "alloc" /\ i > Len(image)
  /\ status' = "loaded"
  /\ UNCHANGED <<vars, image, i, va, phys>>

(* The other operations on pages come between two loads.                    *)
PageOperation ==
  /\ ~Loading
  /\ Next
  /\ status' = "idle"
  /\ Forgotten

ENext == \/ \E f \in Files : LoadElf(f) \/ LoadElfRefused(f)
         \/ MapSegmentPage
         \/ MapSegmentsFails
         \/ PageMapped
         \/ SegmentMapped
         \/ LoadElfReturns
         \/ PageOperation

ESpec == EInit /\ [][ENext]_evars

------------------------------------------------------------------------------
ETypeOK == /\ TypeOK
           /\ status \in {"idle", "alloc", "map", "loaded", "failed"}
           /\ image \in Images \cup {<<>>}
           /\ i \in 1 .. Len(image) + 1 /\ va \in Pages /\ phys \in Frames

(* The pages the loop walks.                                                *)
SegmentPages(s) == {v \in Pages : s.first =< v /\ v < SegmentEnd(s)}

(* The last segment of the image for which the loop walks page v.           *)
LastSegment(v) ==
  CHOOSE k \in 1 .. Len(image) :
    /\ v \in SegmentPages(image[k])
    /\ \A l \in 1 .. Len(image) : v \in SegmentPages(image[l]) => l =< k

(* Page v of segment k has yet to get a frame.                              *)
Wants(k, v) == /\ v \in SegmentPages(image[k])
               /\ k = i => v > va \/ (v = va /\ status = "alloc")

Pending == {p \in (i .. Len(image)) \X Pages : Wants(p[1], p[2])}

(* How many frames map_elf_segments still takes for them.                   *)
PagesLeft == IF Loading THEN Cardinality(Pending) ELSE 0

(* What exec_program needs of a load: the frames it may take, and when it   *)
(* may fail.                                                                *)
L == INSTANCE Loader WITH
       free <- Cardinality(Scanned \ bitmap), left <- PagesLeft,
       result <- IF Loading THEN "loading" ELSE status

\* RefinesLoader: seen from outside a load is Loader's: one frame for each page its
\* loops walk, and page tables; it gives no frame back, fails inside an image only
\* when no frame is left, and does not succeed before the last page had its frame.
RefinesLoader == L!Spec

(* vend wraps: the segment reaches the last page, or past the 4 GB.         *)
Wraps(s) == s.last + 1 >= PageCount

(* Every page of the other segments.                                        *)
ImagePages ==
  UNION {image[k].first .. image[k].last : k \in {l \in 1 .. Len(image) : ~Wraps(image[l])}}

HasTable(v) == dir_frame[DirIndex(v)] # None

\* LoadedUnlessExhausted: load_elf "mapeando todos os segmentos LOAD"
\* (src/core/loader/elf_loader.c:148): a load that returns 0 has mapped every page
\* of every segment whose end does not wrap, each to a frame of its own, with the
\* flags of the last segment that walks the page.  The one way it loses a page is
\* that of map_page, which says nothing when it has no frame for a table: then no
\* frame is left and no table is there.  Of a segment whose end wraps it may have
\* mapped nothing, and returns 0 all the same.
LoadedUnlessExhausted ==
  status = "loaded" =>
    /\ \A v \in ImagePages :
         IF HasTable(v) THEN /\ Translation(v).flags = image[LastSegment(v)].flags
                             /\ Translation(v).frame \in granted
         ELSE NoFreeFrame
    /\ \A v, w \in ImagePages :
         HasTable(v) /\ HasTable(w) /\ Translation(v).frame = Translation(w).frame => v = w
==============================================================================
