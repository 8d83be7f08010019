----------------------------- MODULE PagingProofs -----------------------------
(****************************************************************************)
(* The safety of the frames, of the page tables and of the loader above     *)
(* them, for any memory, any table sizes and any files.                     *)
(****************************************************************************)
EXTENDS ElfLoader, NaturalLemmas

LEMMA Sizes == /\ TotalFrames \in Nat /\ WordBits \in Nat \ {0}
               /\ Reserved \in Nat \ {0} /\ Reserved =< TotalFrames
               /\ PageEntries \in Nat \ {0} /\ DirEntries \in Nat \ {0}
BY PagingAssumption

\* A page number is a place in the directory and one in a table, and no other
\* page has both.
LEMMA PageParts ==
  ASSUME NEW v \in Pages
  PROVE  /\ DirIndex(v) \in Dirs /\ TableIndex(v) \in Entries
         /\ v = PageEntries * DirIndex(v) + TableIndex(v)
<1> DEFINE P == PageEntries
           D == DirEntries
<1>1. P \in Nat \ {0} /\ D \in Nat \ {0} /\ v \in Nat /\ v < D * P
  BY Sizes DEF Pages
<1>2. /\ v \div P \in Int /\ v % P \in 0 .. P - 1
      /\ v = P * (v \div P) + (v % P)
  BY <1>1
<1>3. v \div P >= 0
  BY <1>1, <1>2
<1>4. v \div P < D
  BY <1>1, <1>2
<1> QED BY <1>1, <1>2, <1>3, <1>4 DEF DirIndex, TableIndex, Dirs, Entries

\* The scan of the bitmap reads whole words of it and never past its end.
LEMMA ScannedFrames == Scanned \subseteq Frames
<1> DEFINE T == TotalFrames
           W == WordBits
<1>1. T \in Nat /\ W \in Nat \ {0}
  BY Sizes
<1>2. T = W * (T \div W) + (T % W) /\ T % W \in 0 .. W - 1 /\ T \div W \in Int
  BY <1>1
<1>3. (T \div W) * W \in Int /\ (T \div W) * W =< T
  BY <1>1, <1>2
<1> QED BY <1>1, <1>3 DEF Scanned, Frames

LEMMA FramesFinite == \A S \in SUBSET Frames : IsFiniteSet(S) /\ Cardinality(S) \in Nat
<1>1. TotalFrames - 1 \in Int
  BY Sizes
<1>2. IsFiniteSet(Frames)
  BY <1>1, FS_Interval DEF Frames
<1> QED BY <1>2, FS_Subset, FS_CardinalityType

LEMMA FrameFacts == Frames \subseteq Nat /\ None \notin Frames
BY Sizes DEF Frames, None

------------------------------------------------------------------------------
(* The frames and the page tables.                                          *)

Flags == SUBSET {"PRESENT", "WRITABLE", "USER"}

PInv == TypeOK /\ FramesAccounted

\* A frame that is free is nobody's: not reserved, not a table, not a caller's.
LEMMA FreeFrameFacts ==
  ASSUME PInv, NEW f, FrameFindFree(f)
  PROVE  /\ f \in Frames /\ f \notin bitmap /\ f >= Reserved
         /\ f \notin TableFrames /\ f \notin granted
         /\ \A d \in Dirs : dir_frame[d] # f
         /\ bitmap \cup {f} \subseteq Frames
         /\ Cardinality(bitmap \cup {f}) = Cardinality(bitmap) + 1
<1>1. f \in Scanned /\ f \notin bitmap
  BY DEF FrameFindFree
<1>2. f \in Frames /\ f \in Nat /\ Reserved \in Nat
  BY <1>1, ScannedFrames, FrameFacts, Sizes
<1>3. f \notin 0 .. Reserved - 1 /\ f \notin TableFrames /\ f \notin granted
  BY <1>1 DEF PInv, FramesAccounted
<1>4. \A d \in Dirs : dir_frame[d] # f
  BY <1>2, <1>3, FrameFacts DEF TableFrames
<1>5. Cardinality(bitmap \cup {f}) = Cardinality(bitmap) + 1
  BY <1>1, FramesFinite, FS_AddElement DEF PInv, TypeOK
<1> QED BY <1>1, <1>2, <1>3, <1>4, <1>5 DEF PInv, TypeOK

LEMMA PInvKept == ASSUME PInv, UNCHANGED vars PROVE PInv'
BY DEF vars, PInv, TypeOK, FramesAccounted, TableFrames, TablesDistinct

LEMMA AllocPageStep == ASSUME PInv, NEW f, AllocPage(f) PROVE PInv'
<1>1. /\ bitmap' = bitmap \cup {f} /\ used_frames' = used_frames + 1
      /\ table' = [table EXCEPT ![f] = Cleared(f)]
      /\ granted' = granted \cup {f}
      /\ UNCHANGED <<dir_frame, dir_user>>
  BY DEF AllocPage, FrameSet
<1>2. /\ f \in Frames /\ f \notin bitmap /\ f >= Reserved
      /\ f \notin TableFrames /\ f \notin granted
      /\ bitmap \cup {f} \subseteq Frames
      /\ Cardinality(bitmap \cup {f}) = Cardinality(bitmap) + 1
  BY FreeFrameFacts DEF AllocPage
<1>3. TypeOK'
  <2>1. table' \in [Frames -> [Entries -> [frame : Nat, flags : Flags]]]
    <3>1. Cleared(f) \in [Entries -> [frame : Nat, flags : Flags]]
      BY DEF Cleared, NotPresent, PageEntry, Flags
    <3> QED BY <1>1, <3>1 DEF PInv, TypeOK, Flags
  <2> QED BY <1>1, <1>2, <2>1 DEF PInv, TypeOK, Flags
<1>4. FramesAccounted'
  BY <1>1, <1>2 DEF PInv, FramesAccounted, TableFrames, TablesDistinct
<1> QED BY <1>3, <1>4 DEF PInv

LEMMA FreePageStep ==
  ASSUME PInv, NEW f \in Frames \ TableFrames, FreePage(f) PROVE PInv'
<1>1. /\ bitmap' = bitmap \ {f} /\ used_frames' = used_frames - 1
      /\ table' = [table EXCEPT ![f] = [e \in Entries |-> Stale]]
      /\ granted' = granted \ {f}
      /\ UNCHANGED <<dir_frame, dir_user>>
      /\ f >= Reserved /\ f \in bitmap
  BY DEF FreePage, FrameClear, Freeable, FrameTest
<1>2. /\ Cardinality(bitmap \ {f}) = Cardinality(bitmap) - 1
      /\ Cardinality(bitmap \ {f}) \in Nat
  BY <1>1, FramesFinite, FS_RemoveElement DEF PInv, TypeOK
<1>3. TypeOK'
  <2>1. [e \in Entries |-> Stale] \in [Entries -> [frame : Nat, flags : Flags]]
    BY DEF Stale, PageEntry, Flags
  <2>2. table' \in [Frames -> [Entries -> [frame : Nat, flags : Flags]]]
    BY <1>1, <2>1 DEF PInv, TypeOK, Flags
  <2>3. used_frames' \in Nat
    BY <1>1, <1>2 DEF PInv, FramesAccounted
  <2> QED BY <1>1, <2>2, <2>3 DEF PInv, TypeOK, Flags
<1>4. FramesAccounted'
  <2>1. f \notin 0 .. Reserved - 1
    BY <1>1, FrameFacts, Sizes
  <2>2. TableFrames' = TableFrames /\ TablesDistinct'
    BY <1>1 DEF TableFrames, PInv, FramesAccounted, TablesDistinct
  <2> QED BY <1>1, <1>2, <2>1, <2>2 DEF PInv, FramesAccounted
<1> QED BY <1>3, <1>4 DEF PInv

LEMMA MapPageStep ==
  ASSUME PInv, NEW v \in Pages, NEW f \in Frames, NEW flags \in Flags,
         MapPage(v, f, flags)
  PROVE  PInv'
<1>1. DirIndex(v) \in Dirs /\ TableIndex(v) \in Entries
  BY PageParts
<1>2. PageEntry(f, flags) \in [frame : Nat, flags : Flags]
  BY FrameFacts DEF PageEntry
<1>3. CASE MapInTable(v, f, flags)
  <2>1. dir_frame[DirIndex(v)] \in Frames
    BY <1>1, <1>3 DEF MapInTable, PInv, TypeOK
  <2>2. table' \in [Frames -> [Entries -> [frame : Nat, flags : Flags]]]
    BY <1>1, <1>2, <1>3, <2>1 DEF MapInTable, PInv, TypeOK, Flags
  <2> QED BY <1>3, <2>2 DEF MapInTable, PInv, TypeOK, Flags, FramesAccounted,
                           TableFrames, TablesDistinct
<1>4. CASE MapInNewTable(v, f, flags)
  <2>1. PICK t \in Frames :
          /\ FrameFindFree(t)
          /\ FrameSet(t)
          /\ dir_frame' = [dir_frame EXCEPT ![DirIndex(v)] = t]
          /\ dir_user' = [dir_user EXCEPT ![DirIndex(v)] = "USER" \in flags]
          /\ table' = [table EXCEPT ![t] = [Cleared(t) EXCEPT ![TableIndex(v)] =
                                              PageEntry(f, flags)]]
    BY <1>4 DEF MapInNewTable
  <2>2. /\ t \notin bitmap /\ t >= Reserved
        /\ t \notin TableFrames /\ t \notin granted
        /\ \A d \in Dirs : dir_frame[d] # t
        /\ bitmap \cup {t} \subseteq Frames
        /\ Cardinality(bitmap \cup {t}) = Cardinality(bitmap) + 1
    BY <2>1, FreeFrameFacts
  <2>3. /\ bitmap' = bitmap \cup {t} /\ used_frames' = used_frames + 1
        /\ granted' = granted
    BY <1>4, <2>1 DEF FrameSet, MapInNewTable
  <2>4. TypeOK'
    <3>1. [Cleared(t) EXCEPT ![TableIndex(v)] = PageEntry(f, flags)]
            \in [Entries -> [frame : Nat, flags : Flags]]
      <4>1. Cleared(t) \in [Entries -> [frame : Nat, flags : Flags]]
        BY DEF Cleared, NotPresent, PageEntry, Flags
      <4> QED BY <1>2, <4>1
    <3>2. table' \in [Frames -> [Entries -> [frame : Nat, flags : Flags]]]
      BY <2>1, <3>1 DEF PInv, TypeOK, Flags
    <3>3. dir_user' \in [Dirs -> BOOLEAN]
      <4>1. ("USER" \in flags) \in BOOLEAN
        OBVIOUS
      <4> QED BY <2>1, <4>1 DEF PInv, TypeOK
    <3>4. dir_frame' \in [Dirs -> Frames \cup {None}]
      BY <2>1 DEF PInv, TypeOK
    <3> QED BY <2>2, <2>3, <3>2, <3>3, <3>4 DEF PInv, TypeOK, Flags
  <2>5. TableFrames' = TableFrames \cup {t}
    <3>1. dir_frame[DirIndex(v)] = None
      BY <1>4 DEF MapInNewTable
    <3>2. \A d \in Dirs : dir_frame'[d] = IF d = DirIndex(v) THEN t ELSE dir_frame[d]
      BY <2>1 DEF PInv, TypeOK
    <3>3. t # None
      BY FrameFacts
    <3> QED BY <1>1, <3>1, <3>2, <3>3 DEF TableFrames
  <2>6. TablesDistinct'
    BY <2>1, <2>2 DEF PInv, TypeOK, FramesAccounted, TablesDistinct
  <2>7. FramesAccounted'
    BY <2>2, <2>3, <2>5, <2>6 DEF PInv, FramesAccounted
  <2> QED BY <2>4, <2>7 DEF PInv
<1>5. CASE MapNothing(v)
  BY <1>5, PInvKept DEF MapNothing
<1> QED BY <1>3, <1>4, <1>5 DEF MapPage

LEMMA UnmapPageStep ==
  ASSUME PInv, NEW v \in Pages, UnmapPage(v) PROVE PInv'
<1> DEFINE t == dir_frame[DirIndex(v)]
           e == TableIndex(v)
<1>1. DirIndex(v) \in Dirs /\ e \in Entries
  BY PageParts
<1>2. t \in Frames
  BY <1>1 DEF UnmapPage, PInv, TypeOK
<1>3. /\ table' = [table EXCEPT ![t][e].flags = @ \ {"PRESENT"}]
      /\ UNCHANGED <<bitmap, used_frames, dir_frame, dir_user, granted>>
  BY DEF UnmapPage
<1>4. table[t][e] \in [frame : Nat, flags : Flags] /\ table[t] \in [Entries -> [frame : Nat, flags : Flags]]
  BY <1>1, <1>2 DEF PInv, TypeOK, Flags
<1>5. table' \in [Frames -> [Entries -> [frame : Nat, flags : Flags]]]
  <2> DEFINE x == [table[t][e] EXCEPT !.flags = @ \ {"PRESENT"}]
  <2>1. x \in [frame : Nat, flags : Flags]
    BY <1>4 DEF Flags
  <2>2. table' = [table EXCEPT ![t] = [table[t] EXCEPT ![e] = x]]
    BY <1>3
  <2> HIDE DEF x, t, e
  <2> QED BY <1>1, <1>2, <1>4, <2>1, <2>2 DEF PInv, TypeOK, Flags
<1> QED BY <1>3, <1>5 DEF PInv, TypeOK, Flags, FramesAccounted, TableFrames, TablesDistinct

\* init_memory leaves the reserved frames, and one page table where memory
\* reaches behind them.
LEMMA InitPInv == ASSUME Init PROVE PInv
<1>1. TypeOK
  <2>1. \A k \in Entries : /\ PageEntry(k, {"PRESENT", "WRITABLE"}) \in [frame : Nat, flags : Flags]
                           /\ Stale \in [frame : Nat, flags : Flags]
    BY Sizes DEF Entries, PageEntry, Stale, Flags
  <2>2. table \in [Frames -> [Entries -> [frame : Nat, flags : Flags]]]
    BY <2>1 DEF Init
  <2>3. Reserved \in Scanned => Reserved \in Frames
    BY ScannedFrames
  <2>4. bitmap \subseteq Frames
    BY <2>3, Sizes DEF Init, Frames
  <2>5. dir_frame \in [Dirs -> Frames \cup {None}]
    BY <2>3 DEF Init
  <2> QED BY <2>2, <2>4, <2>5, Sizes DEF Init, TypeOK, Flags
<1>2. CASE Reserved \in Scanned
  <2>1. /\ bitmap = 0 .. Reserved /\ used_frames = Reserved + 1 /\ granted = {}
        /\ dir_frame = [d \in Dirs |-> IF d = 0 THEN Reserved ELSE None]
    BY <1>2 DEF Init
  <2>2. 0 \in Dirs
    BY Sizes DEF Dirs
  <2>3. TableFrames = {Reserved} /\ TablesDistinct
    BY <2>1, <2>2, Sizes DEF TableFrames, TablesDistinct, None
  <2>4. 0 .. Reserved = (0 .. Reserved - 1) \cup {Reserved}
    BY Sizes
  <2>5. Cardinality(0 .. Reserved) = Reserved + 1
    BY Sizes, FS_Interval
  <2> QED BY <1>1, <2>1, <2>3, <2>4, <2>5, Sizes DEF PInv, FramesAccounted
<1>3. CASE Reserved \notin Scanned
  <2>1. /\ bitmap = 0 .. Reserved - 1 /\ used_frames = Reserved /\ granted = {}
        /\ dir_frame = [d \in Dirs |-> None]
    BY <1>3 DEF Init
  <2>2. TableFrames = {} /\ TablesDistinct
    BY <2>1 DEF TableFrames, TablesDistinct
  <2>3. Cardinality(0 .. Reserved - 1) = Reserved
    BY Sizes, FS_Interval
  <2> QED BY <1>1, <2>1, <2>2, <2>3 DEF PInv, FramesAccounted
<1> QED BY <1>2, <1>3

\* A frame that is given out, or given back, is no page table: no page leads
\* elsewhere for it.
LEMMA FrameMovesNoPage ==
  ASSUME PInv, NEW f \in Frames, f \notin TableFrames, NEW x,
         table' = [table EXCEPT ![f] = x], UNCHANGED dir_frame
  PROVE  \A w \in Pages : Translation(w)' = Translation(w)
<1> SUFFICES ASSUME NEW w \in Pages PROVE Translation(w)' = Translation(w)
  OBVIOUS
<1>1. DirIndex(w) \in Dirs
  BY PageParts
<1>2. dir_frame[DirIndex(w)] # None => dir_frame[DirIndex(w)] \in Frames \ {f}
  BY <1>1 DEF PInv, TypeOK, TableFrames
<1>3. dir_frame[DirIndex(w)] # None => table'[dir_frame[DirIndex(w)]] = table[dir_frame[DirIndex(w)]]
  BY <1>2 DEF PInv, TypeOK
<1> QED BY <1>3 DEF Translation

LEMMA AllocMovesNoPage ==
  ASSUME PInv, NEW f, AllocPage(f)
  PROVE  \A w \in Pages : Translation(w)' = Translation(w)
BY FreeFrameFacts, FrameMovesNoPage DEF AllocPage

\* Two pages of one directory entry differ in the table entry.
LEMMA PagesApart ==
  ASSUME NEW v \in Pages, NEW w \in Pages,
         DirIndex(v) = DirIndex(w), TableIndex(v) = TableIndex(w)
  PROVE  v = w
BY PageParts

\* map_page moves the page it is called for and no other, and the page leads
\* where it was told, unless there was no frame for a table.
LEMMA MapMovesOnePage ==
  ASSUME PInv, NEW v \in Pages, NEW f \in Frames, NEW flags \in Flags,
         MapPage(v, f, flags)
  PROVE  /\ \A w \in Pages \ {v} : Translation(w)' = Translation(w)
         /\ "PRESENT" \in flags /\ HasTable(v)' => Translation(v)' = PageEntry(f, flags)
<1>1. DirIndex(v) \in Dirs /\ TableIndex(v) \in Entries
  BY PageParts
<1>2. CASE MapInTable(v, f, flags)
  <2> DEFINE t == dir_frame[DirIndex(v)]
             row == [table[t] EXCEPT ![TableIndex(v)] = PageEntry(f, flags)]
  <2>1. t \in Frames /\ t # None
    BY <1>1, <1>2 DEF MapInTable, PInv, TypeOK
  <2>2. table' = [table EXCEPT ![t] = row] /\ dir_frame' = dir_frame
    BY <1>2 DEF MapInTable
  <2>3. table'[t] = row /\ \A g \in Frames \ {t} : table'[g] = table[g]
    BY <2>1, <2>2 DEF PInv, TypeOK
  <2>4. /\ row[TableIndex(v)] = PageEntry(f, flags)
        /\ \A e \in Entries \ {TableIndex(v)} : row[e] = table[t][e]
    BY <1>1, <2>1 DEF PInv, TypeOK
  <2>5. ASSUME NEW w \in Pages \ {v} PROVE Translation(w)' = Translation(w)
    <3>1. DirIndex(w) \in Dirs /\ TableIndex(w) \in Entries
      BY PageParts
    <3>2. CASE dir_frame[DirIndex(w)] = t
      <4>1. DirIndex(w) = DirIndex(v)
        BY <1>1, <2>1, <3>1, <3>2 DEF PInv, FramesAccounted, TablesDistinct
      <4>2. TableIndex(w) # TableIndex(v)
        BY <4>1, PagesApart
      <4>3. table'[dir_frame[DirIndex(w)]][TableIndex(w)] = table[dir_frame[DirIndex(w)]][TableIndex(w)]
        BY <2>3, <2>4, <3>1, <3>2, <4>2
      <4> QED BY <2>2, <4>3 DEF Translation, TableIndex, DirIndex
    <3>3. CASE dir_frame[DirIndex(w)] # t /\ dir_frame[DirIndex(w)] # None
      <4>1. dir_frame[DirIndex(w)] \in Frames \ {t}
        BY <3>1, <3>3 DEF PInv, TypeOK
      <4>2. table'[dir_frame[DirIndex(w)]] = table[dir_frame[DirIndex(w)]]
        BY <2>3, <4>1
      <4> QED BY <2>2, <4>2 DEF Translation, TableIndex, DirIndex
    <3>4. CASE dir_frame[DirIndex(w)] = None
      BY <2>2, <3>4 DEF Translation, DirIndex
    <3> QED BY <3>2, <3>3, <3>4
  <2>6. "PRESENT" \in flags => Translation(v)' = PageEntry(f, flags)
    BY <2>1, <2>2, <2>3, <2>4 DEF Translation, TableIndex, DirIndex, PageEntry
  <2> QED BY <2>5, <2>6
<1>3. CASE MapInNewTable(v, f, flags)
  <2>1. PICK t \in Frames :
          /\ FrameFindFree(t)
          /\ dir_frame' = [dir_frame EXCEPT ![DirIndex(v)] = t]
          /\ table' = [table EXCEPT ![t] = [Cleared(t) EXCEPT ![TableIndex(v)] =
                                              PageEntry(f, flags)]]
    BY <1>3 DEF MapInNewTable
  <2> DEFINE row == [Cleared(t) EXCEPT ![TableIndex(v)] = PageEntry(f, flags)]
  <2>2. t # None /\ (\A d \in Dirs : dir_frame[d] # t) /\ dir_frame[DirIndex(v)] = None
    BY <1>3, <2>1, FreeFrameFacts, FrameFacts DEF MapInNewTable
  <2>3. /\ table'[t] = row /\ \A g \in Frames \ {t} : table'[g] = table[g]
        /\ dir_frame'[DirIndex(v)] = t
        /\ \A d \in Dirs \ {DirIndex(v)} : dir_frame'[d] = dir_frame[d]
    BY <1>1, <2>1 DEF PInv, TypeOK
  <2>4. /\ row[TableIndex(v)] = PageEntry(f, flags)
        /\ \A e \in Entries \ {TableIndex(v)} : row[e] = NotPresent
    BY <1>1 DEF Cleared
  <2>5. ASSUME NEW w \in Pages \ {v} PROVE Translation(w)' = Translation(w)
    <3>1. DirIndex(w) \in Dirs /\ TableIndex(w) \in Entries
      BY PageParts
    <3>2. CASE DirIndex(w) = DirIndex(v)
      <4>1. TableIndex(w) # TableIndex(v)
        BY <3>2, PagesApart
      <4>2. table'[dir_frame'[DirIndex(w)]][TableIndex(w)] = NotPresent
        BY <2>3, <2>4, <3>1, <3>2, <4>1
      <4>3. Translation(w) = NotPresent
        BY <2>2, <3>2 DEF Translation
      <4> QED BY <4>2, <4>3 DEF Translation, TableIndex, DirIndex, NotPresent, PageEntry
    <3>3. CASE DirIndex(w) # DirIndex(v)
      <4>1. dir_frame'[DirIndex(w)] = dir_frame[DirIndex(w)]
        BY <2>3, <3>1, <3>3
      <4>2. dir_frame[DirIndex(w)] # None => dir_frame[DirIndex(w)] \in Frames \ {t}
        BY <2>2, <3>1 DEF PInv, TypeOK
      <4>3. dir_frame[DirIndex(w)] # None =>
              table'[dir_frame[DirIndex(w)]] = table[dir_frame[DirIndex(w)]]
        BY <2>3, <4>2
      <4> QED BY <4>1, <4>3 DEF Translation, TableIndex, DirIndex
    <3> QED BY <3>2, <3>3
  <2>6. "PRESENT" \in flags => Translation(v)' = PageEntry(f, flags)
    <3>1. table'[dir_frame'[DirIndex(v)]][TableIndex(v)] = PageEntry(f, flags)
      BY <2>3, <2>4
    <3>2. dir_frame'[DirIndex(v)] # None /\ PageEntry(f, flags).flags = flags
      BY <2>2, <2>3 DEF PageEntry
    <3> HIDE DEF row
    <3> QED BY <3>1, <3>2 DEF Translation, TableIndex, DirIndex
  <2> QED BY <2>5, <2>6
<1>4. CASE MapNothing(v)
  <2>1. ~HasTable(v)'
    BY <1>4 DEF MapNothing, HasTable, vars, DirIndex
  <2> QED BY <1>4, <2>1 DEF MapNothing, vars, Translation
<1> QED BY <1>2, <1>3, <1>4 DEF MapPage

\* Without a table for its page map_page takes one, or there is no frame for it;
\* and it takes no table away.
LEMMA MapTables ==
  ASSUME PInv, NEW v \in Pages, NEW f, NEW flags, MapPage(v, f, flags)
  PROVE  /\ ~HasTable(v)' => NoFreeFrame
         /\ \A w \in Pages : HasTable(w)' /\ ~HasTable(w) => ~NoFreeFrame
<1>1. DirIndex(v) \in Dirs /\ \A w \in Pages : DirIndex(w) \in Dirs
  BY PageParts
<1>2. CASE MapInTable(v, f, flags)
  BY <1>2 DEF MapInTable, HasTable, DirIndex
<1>3. CASE MapInNewTable(v, f, flags)
  <2>1. PICK t \in Frames : /\ FrameFindFree(t)
                            /\ dir_frame' = [dir_frame EXCEPT ![DirIndex(v)] = t]
    BY <1>3 DEF MapInNewTable
  <2>2. ~NoFreeFrame
    BY <2>1 DEF FrameFindFree, NoFreeFrame
  <2>3. dir_frame'[DirIndex(v)] = t /\ t # None
    BY <1>1, <2>1, FrameFacts DEF PInv, TypeOK
  <2> QED BY <2>2, <2>3 DEF HasTable, DirIndex
<1>4. CASE MapNothing(v)
  BY <1>4 DEF MapNothing, HasTable, vars, DirIndex
<1> QED BY <1>2, <1>3, <1>4 DEF MapPage

LEMMA TablesStay ==
  ASSUME PInv, NEW v \in Pages, NEW f, NEW flags, MapPage(v, f, flags)
  PROVE  \A w \in Pages : HasTable(w) => HasTable(w)'
<1>1. UNCHANGED dir_frame \/ \E t \in Frames : dir_frame' = [dir_frame EXCEPT ![DirIndex(v)] = t]
  BY DEF MapPage, MapInTable, MapInNewTable, MapNothing, vars
<1>2. \A w \in Pages : DirIndex(w) \in Dirs
  BY PageParts
<1> QED BY <1>1, <1>2, FrameFacts DEF HasTable, DirIndex, PInv, TypeOK

LEMMA UnmapMovesOnePage ==
  ASSUME PInv, NEW v \in Pages, UnmapPage(v)
  PROVE  \A w \in Pages \ {v} : Translation(w)' = Translation(w)
<1> DEFINE t == dir_frame[DirIndex(v)]
           e == TableIndex(v)
<1>1. DirIndex(v) \in Dirs /\ e \in Entries
  BY PageParts
<1>2. t \in Frames /\ t # None
  BY <1>1 DEF UnmapPage, PInv, TypeOK
<1>3. table' = [table EXCEPT ![t][e].flags = @ \ {"PRESENT"}] /\ dir_frame' = dir_frame
  BY DEF UnmapPage
<1>4. /\ \A g \in Frames \ {t} : table'[g] = table[g]
      /\ \A k \in Entries \ {e} : table'[t][k] = table[t][k]
      /\ dir_frame' = dir_frame
  BY <1>1, <1>2, <1>3 DEF PInv, TypeOK
<1> HIDE DEF t, e
<1> SUFFICES ASSUME NEW w \in Pages \ {v} PROVE Translation(w)' = Translation(w)
  OBVIOUS
<1>5. DirIndex(w) \in Dirs /\ TableIndex(w) \in Entries
  BY PageParts
<1>6. CASE dir_frame[DirIndex(w)] = t
  <2>1. DirIndex(w) = DirIndex(v)
    BY <1>1, <1>2, <1>5, <1>6 DEF PInv, FramesAccounted, TablesDistinct, t
  <2>2. TableIndex(w) # e
    BY <2>1, PagesApart DEF e
  <2>3. table'[dir_frame[DirIndex(w)]][TableIndex(w)] = table[dir_frame[DirIndex(w)]][TableIndex(w)]
    BY <1>4, <1>5, <1>6, <2>2
  <2> QED BY <1>4, <2>3 DEF Translation, TableIndex, DirIndex
<1>7. CASE dir_frame[DirIndex(w)] # t /\ dir_frame[DirIndex(w)] # None
  <2>1. dir_frame[DirIndex(w)] \in Frames \ {t}
    BY <1>5, <1>7 DEF PInv, TypeOK
  <2>2. table'[dir_frame[DirIndex(w)]] = table[dir_frame[DirIndex(w)]]
    BY <1>4, <2>1
  <2> QED BY <1>4, <2>2 DEF Translation, TableIndex, DirIndex
<1>8. CASE dir_frame[DirIndex(w)] = None
  BY <1>4, <1>8 DEF Translation, DirIndex
<1> QED BY <1>6, <1>7, <1>8

OnePageMoves == \A v, w \in Pages : Translation(v)' # Translation(v)
                                      /\ Translation(w)' # Translation(w) => v = w

LEMMA CallersMapPages ==
  /\ CallerPages \subseteq Pages /\ FlagSets \subseteq Flags
BY PagingAssumption DEF Pages, Flags

\* Every operation on pages keeps the frames accounted for and moves one page
\* at most.
LEMMA NextStep == ASSUME PInv, Next PROVE PInv' /\ OnePageMoves
<1>1. ASSUME NEW f \in Frames, AllocPage(f) PROVE PInv' /\ OnePageMoves
  BY <1>1, AllocPageStep, AllocMovesNoPage DEF OnePageMoves
<1>2. CASE UNCHANGED vars
  BY <1>2, PInvKept DEF OnePageMoves, Translation, vars
<1>3. ASSUME NEW f \in Frames \ TableFrames, FreePage(f) PROVE PInv' /\ OnePageMoves
  <2>1. PInv'
    BY <1>3, FreePageStep
  <2>2. \A w \in Pages : Translation(w)' = Translation(w)
    BY <1>3, FrameMovesNoPage DEF FreePage
  <2> QED BY <2>1, <2>2 DEF OnePageMoves
<1>4. ASSUME NEW v \in CallerPages, NEW f \in granted, NEW flags \in FlagSets,
             MapPage(v, f, flags)
      PROVE  PInv' /\ OnePageMoves
  <2>1. v \in Pages /\ f \in Frames /\ flags \in Flags
    BY CallersMapPages DEF PInv, TypeOK
  <2>2. PInv'
    BY <1>4, <2>1, MapPageStep
  <2>3. \A w \in Pages \ {v} : Translation(w)' = Translation(w)
    BY <1>4, <2>1, MapMovesOnePage
  <2> QED BY <2>2, <2>3 DEF OnePageMoves
<1>5. ASSUME NEW v \in CallerPages, UnmapPage(v) PROVE PInv' /\ OnePageMoves
  <2>1. v \in Pages
    BY CallersMapPages
  <2>2. PInv'
    BY <1>5, <2>1, UnmapPageStep
  <2>3. \A w \in Pages \ {v} : Translation(w)' = Translation(w)
    BY <1>5, <2>1, UnmapMovesOnePage
  <2> QED BY <2>2, <2>3 DEF OnePageMoves
<1> QED
  BY <1>1, <1>2, <1>3, <1>4, <1>5 DEF Next, AllocPageFails, FreePageIgnored

\* The frames are accounted for whatever callers allocate, free and map.
THEOREM PagingInvariant == Spec => []PInv
<1>1. PInv /\ [Next]_vars => PInv'
  BY NextStep, PInvKept
<1> QED BY <1>1, InitPInv, PTL DEF Spec

------------------------------------------------------------------------------
(* The loader.                                                              *)

Segments == [first : Pages, last : Nat, flags : Flags]

(* Where the loops of map_elf_segments are.                                 *)
LoopsInImage ==
  /\ Loading /\ i =< Len(image) => image[i].first =< va
  /\ status = "map" => i =< Len(image) /\ MorePages /\ phys \in granted
  /\ status = "loaded" => i = Len(image) + 1

(* map_page has been called for page v of segment k.                        *)
Done(k, v) == /\ k \in 1 .. Len(image) /\ v \in SegmentPages(image[k])
              /\ k < i \/ (k = i /\ v < va)

(* What is loaded of the image so far is where LoadedUnlessExhausted says,  *)
(* and the frame in hand is not yet any page's.                             *)
MappedSoFar ==
  status \in {"alloc", "map", "loaded"} =>
    /\ \A k, v \in Nat : Done(k, v) =>
         IF HasTable(v)
         THEN /\ Translation(v).frame \in granted
              /\ status = "map" => Translation(v).frame # phys
              /\ (\A l \in Nat : Done(l, v) => l =< k) => Translation(v).flags = image[k].flags
         ELSE NoFreeFrame
    /\ \A k, l, v, w \in Nat :
         (/\ Done(k, v) /\ Done(l, w) /\ HasTable(v) /\ HasTable(w)
          /\ Translation(v).frame = Translation(w).frame) => v = w

EInv == PInv /\ ETypeOK /\ LoopsInImage /\ MappedSoFar

LEMMA PagesFacts ==
  /\ PageCount \in Nat \ {0} /\ Pages = 0 .. PageCount - 1
  /\ Pages \subseteq Nat /\ 0 \in Pages /\ 0 \in Frames
<1>1. PageCount \in Nat \ {0}
  BY Sizes DEF PageCount
<1> QED BY <1>1, Sizes DEF Pages, Frames, PageCount

\* vend is a page, and the one behind the segment unless it wraps.
LEMMA EndFacts ==
  ASSUME NEW s, s.last \in Nat
  PROVE  SegmentEnd(s) \in Pages /\ (~Wraps(s) => SegmentEnd(s) = s.last + 1)
<1>1. s.last + 1 \in Nat /\ PageCount \in Nat \ {0}
  BY PagesFacts
<1>2. /\ (s.last + 1) % PageCount \in 0 .. PageCount - 1
      /\ s.last + 1 < PageCount => (s.last + 1) % PageCount = s.last + 1
  BY <1>1, Remainder
<1>3. ~Wraps(s) <=> s.last + 1 < PageCount
  BY <1>1 DEF Wraps
<1> QED BY <1>2, <1>3, PagesFacts DEF SegmentEnd

LEMMA ImageFacts ==
  ASSUME NEW m \in Images \cup {<<>>}
  PROVE  /\ m \in Seq(Segments) /\ Len(m) \in Nat
         /\ \A k \in 1 .. Len(m) : /\ m[k] \in Segments
                                  /\ m[k].first \in Pages /\ m[k].last \in Nat
                                  /\ m[k].first =< m[k].last
                                  /\ {"PRESENT", "USER"} \subseteq m[k].flags
                                  /\ SegmentEnd(m[k]) \in Pages
                                  /\ SegmentPages(m[k]) \subseteq Pages
<1>1. CASE m \in Images
  <2>1. /\ m \in Seq(Segments)
        /\ \A k \in 1 .. Len(m) : m[k].first =< m[k].last /\ {"PRESENT", "USER"} \subseteq m[k].flags
    BY <1>1, ImagesAssumption DEF Segments, Flags
  <2>2. \A k \in 1 .. Len(m) : m[k] \in Segments
    BY <2>1
  <2>3. \A k \in 1 .. Len(m) : m[k].first \in Pages /\ m[k].last \in Nat
    BY <2>2 DEF Segments
  <2> QED BY <2>1, <2>2, <2>3, EndFacts DEF SegmentPages
<1>2. CASE m = <<>>
  BY <1>2
<1> QED BY <1>1, <1>2

LEMMA InitEInv == ASSUME EInit PROVE EInv
<1>1. PInv
  BY InitPInv DEF EInit
<1>2. status = "idle" /\ image = <<>> /\ i = 1 /\ va = 0 /\ phys = 0
  BY DEF EInit
<1>3. ETypeOK
  BY <1>1, <1>2, PagesFacts DEF ETypeOK, PInv
<1> QED BY <1>1, <1>2, <1>3 DEF EInv, LoopsInImage, Loading, MappedSoFar

\* load_elf starts before the first page of the image.
LEMMA LoadElfStep == ASSUME EInv, NEW f \in Files, LoadElf(f) PROVE EInv' /\ UNCHANGED vars
<1>1. /\ status' = "alloc" /\ image' = f.image /\ i' = 1 /\ phys' = 0
      /\ va' = IF f.image = <<>> THEN 0 ELSE f.image[1].first
      /\ UNCHANGED vars
      /\ image' \in Images
  BY DEF LoadElf, Images
<1>2. /\ image' \in Seq(Segments) /\ Len(image') \in Nat
      /\ \A k \in 1 .. Len(image') : image'[k].first \in Pages
  BY <1>1, ImageFacts
<1>3. PInv'
  BY <1>1, PInvKept DEF EInv
<1>4. image' # <<>> => 1 \in 1 .. Len(image') /\ va' = image'[1].first
  BY <1>1, <1>2
<1>5. i' =< Len(image') => image'[i'].first \in Pages /\ image'[i'].first = va'
  BY <1>1, <1>2, <1>4
<1>6. ETypeOK'
  <2>1. va' \in Pages
    BY <1>1, <1>2, <1>4, PagesFacts
  <2>2. i' \in 1 .. Len(image') + 1
    BY <1>1, <1>2
  <2> QED BY <1>1, <1>3, <2>1, <2>2, PagesFacts DEF ETypeOK, PInv
<1>7. LoopsInImage'
  BY <1>1, <1>5, PagesFacts DEF LoopsInImage
<1>8. \A k, v \in Nat : ~Done(k, v)'
  <2> SUFFICES ASSUME NEW k \in Nat, NEW v \in Nat, Done(k, v)' PROVE FALSE
    OBVIOUS
  <2>1. k \in 1 .. Len(image') /\ v \in SegmentPages(image'[k]) /\ (k < 1 \/ (k = 1 /\ v < va'))
    BY <1>1 DEF Done
  <2>2. k = 1 /\ v < va' /\ image' # <<>>
    BY <1>2, <2>1
  <2>3. image'[1].first \in Pages /\ image'[1].first \in Nat
    BY <1>2, <2>1, <2>2, PagesFacts
  <2>4. v >= image'[1].first
    BY <2>1, <2>2, <2>3 DEF SegmentPages
  <2>5. va' = image'[1].first
    BY <1>4, <2>2
  <2> QED BY <2>2, <2>3, <2>4, <2>5
<1>9. MappedSoFar'
  BY <1>8 DEF MappedSoFar
<1> QED BY <1>1, <1>3, <1>6, <1>7, <1>9 DEF EInv

\* A load that is over, or never began, leaves nothing to the next.
LEMMA ForgottenStep ==
  ASSUME EInv, PInv', Forgotten, status' \in {"idle", "failed"} PROVE EInv'
<1>1. image' = <<>> /\ i' = 1 /\ va' = 0 /\ phys' = 0
  BY DEF Forgotten
<1>2. ETypeOK'
  BY <1>1, PagesFacts DEF ETypeOK, PInv
<1> QED BY <1>1, <1>2 DEF EInv, LoopsInImage, Loading, MappedSoFar

\* What a step leaves of the image it leaves of the pages walked.
LEMMA WalkKept ==
  ASSUME UNCHANGED image
  PROVE  /\ \A k : SegmentPages(image[k])' = SegmentPages(image[k])
         /\ \A k : SegmentEnd(image[k])' = SegmentEnd(image[k])
         /\ UNCHANGED i => \A k : SegmentEnd(image[i])' = SegmentEnd(image[i])
BY DEF SegmentPages, SegmentEnd, PageCount, Pages

\* Marking frames does not make one free.
LEMMA NoFreeFrameStays ==
  ASSUME bitmap \subseteq bitmap', NoFreeFrame PROVE NoFreeFrame'
BY DEF NoFreeFrame, Scanned

\* The frame alloc_page returns is new to every page loaded before.
LEMMA MapSegmentPageStep ==
  ASSUME EInv, MapSegmentPage
  PROVE  EInv' /\ \A w \in Pages : Translation(w)' = Translation(w)
<1>1. PICK f \in Frames : AllocPage(f) /\ phys' = f
  BY DEF MapSegmentPage
<1>2. /\ status = "alloc" /\ i =< Len(image) /\ MorePages /\ status' = "map"
      /\ UNCHANGED <<image, i, va>>
  BY DEF MapSegmentPage
<1>3. PInv /\ PInv' /\ \A w \in Pages : Translation(w)' = Translation(w)
  BY <1>1, AllocPageStep, AllocMovesNoPage DEF EInv
<1>4. /\ granted' = granted \cup {f} /\ f \notin granted
      /\ bitmap \subseteq bitmap' /\ UNCHANGED dir_frame
  BY <1>1, <1>3, FreeFrameFacts DEF AllocPage, FrameSet
<1>5. ETypeOK'
  BY <1>1, <1>2, <1>3 DEF EInv, ETypeOK, PInv
<1>6. LoopsInImage'
  <2>1. MorePages'
    BY <1>2, WalkKept DEF MorePages
  <2> QED BY <1>1, <1>2, <1>4, <2>1 DEF EInv, LoopsInImage, Loading
<1>7. \A k, v \in Nat : Done(k, v)' <=> Done(k, v)
  BY <1>2, WalkKept DEF Done
<1>8. \A k, v \in Nat : Done(k, v) => v \in Pages
  BY ImageFacts DEF Done, EInv, ETypeOK
<1>9. MappedSoFar'
  <2>1. /\ NoFreeFrame => NoFreeFrame'
        /\ \A v \in Pages : HasTable(v)' <=> HasTable(v)
    BY <1>4, NoFreeFrameStays DEF HasTable, DirIndex
  <2>2. \A k, v \in Nat : Done(k, v) =>
          IF HasTable(v)
          THEN /\ Translation(v).frame \in granted
               /\ (\A l \in Nat : Done(l, v) => l =< k) => Translation(v).flags = image[k].flags
          ELSE NoFreeFrame
    BY <1>2 DEF EInv, MappedSoFar
  <2>3. \A k, l, v, w \in Nat :
          (/\ Done(k, v) /\ Done(l, w) /\ HasTable(v) /\ HasTable(w)
           /\ Translation(v).frame = Translation(w).frame) => v = w
    BY <1>2 DEF EInv, MappedSoFar
  <2>4. ASSUME NEW k \in Nat, NEW v \in Nat, Done(k, v)'
        PROVE  IF HasTable(v)'
               THEN /\ Translation(v)'.frame \in granted'
                    /\ Translation(v)'.frame # phys'
                    /\ (\A l \in Nat : Done(l, v)' => l =< k)
                          => Translation(v)'.flags = image'[k].flags
               ELSE NoFreeFrame'
    <3>1. /\ Done(k, v) /\ Translation(v)' = Translation(v)
          /\ HasTable(v)' <=> HasTable(v)
      BY <1>3, <1>7, <1>8, <2>1, <2>4
    <3>2. (\A l \in Nat : Done(l, v)' => l =< k) => \A l \in Nat : Done(l, v) => l =< k
      BY <1>7
    <3> QED BY <1>1, <1>2, <1>4, <2>1, <2>2, <3>1, <3>2
  <2>5. ASSUME NEW k \in Nat, NEW l \in Nat, NEW v \in Nat, NEW w \in Nat,
               Done(k, v)', Done(l, w)', HasTable(v)', HasTable(w)',
               Translation(v)'.frame = Translation(w)'.frame
        PROVE  v = w
    <3>1. /\ Translation(v)' = Translation(v) /\ Translation(w)' = Translation(w)
          /\ HasTable(v) /\ HasTable(w)
      BY <1>3, <1>7, <1>8, <2>1, <2>5
    <3> QED BY <1>7, <2>3, <2>5, <3>1
  <2> QED BY <2>4, <2>5 DEF MappedSoFar
<1> QED BY <1>3, <1>5, <1>6, <1>9 DEF EInv

\* The loops of map_elf_segments after the call of map_page: what is done by
\* then is what was, and the page of the call.
LEMMA LoopsAdvance ==
  ASSUME EInv, PageMapped
  PROVE  /\ i \in 1 .. Len(image) /\ va \in SegmentPages(image[i])
         /\ va' \in Pages /\ image[i].first =< va'
         /\ \A k, v \in Nat : Done(k, v)' <=> Done(k, v) \/ (k = i /\ v = va)
         /\ \A k, v \in Nat : Done(k, v) => k =< i
<1>1. status = "map" /\ UNCHANGED <<image, i>> /\ va' = va + 1
  BY DEF PageMapped
<1>2. /\ Len(image) \in Nat /\ i \in Nat /\ i \in 1 .. Len(image)
      /\ va \in Pages /\ va \in Nat /\ image[i].first =< va
      /\ va < SegmentEnd(image[i])
  BY <1>1, ImageFacts, PagesFacts DEF EInv, LoopsInImage, ETypeOK, Loading, MorePages
<1>3. /\ image[i].first \in Nat /\ SegmentEnd(image[i]) \in Nat
      /\ SegmentEnd(image[i]) \in Pages
  BY <1>2, ImageFacts, PagesFacts DEF EInv, ETypeOK
<1>4. va \in SegmentPages(image[i])
  BY <1>2 DEF SegmentPages
<1>5. va' \in Pages /\ image[i].first =< va'
  BY <1>1, <1>2, <1>3, PagesFacts
<1>6. \A k, v \in Nat : Done(k, v) => k =< i
  BY <1>2 DEF Done
<1>7. ASSUME NEW k \in Nat, NEW v \in Nat
      PROVE  Done(k, v)' <=> Done(k, v) \/ (k = i /\ v = va)
  <2> DEFINE In == k \in 1 .. Len(image) /\ v \in SegmentPages(image[k])
  <2>1. Done(k, v)' <=> In /\ (k < i \/ (k = i /\ v < va + 1))
    BY <1>1, WalkKept DEF Done
  <2>2. Done(k, v) <=> In /\ (k < i \/ (k = i /\ v < va))
    BY DEF Done
  <2>3. k = i /\ v = va => In
    BY <1>2, <1>4
  <2>4. v < va + 1 <=> v < va \/ v = va
    BY <1>2
  <2> HIDE DEF In
  <2> QED BY <2>1, <2>2, <2>3, <2>4
<1> QED BY <1>2, <1>4, <1>5, <1>6, <1>7

\* map_page leads the page to the frame in hand, with the flags of this
\* segment: the last one so far to walk the page.
LEMMA PageMappedStep ==
  ASSUME EInv, PageMapped
  PROVE  EInv' /\ \A w \in Pages \ {va} : Translation(w)' = Translation(w)
<1> DEFINE fl == image[i].flags
<1>1. /\ status = "map" /\ status' = "alloc" /\ UNCHANGED <<image, i, phys>>
      /\ MapPage(va, phys, fl)
  BY DEF PageMapped, PageFlags
<1>2. /\ i \in 1 .. Len(image) /\ va \in SegmentPages(image[i])
      /\ va' \in Pages /\ image[i].first =< va'
      /\ \A k, v \in Nat : Done(k, v)' <=> Done(k, v) \/ (k = i /\ v = va)
      /\ \A k, v \in Nat : Done(k, v) => k =< i
  BY LoopsAdvance
<1>3. /\ PInv /\ va \in Pages /\ va \in Nat /\ i \in Nat
      /\ phys \in Frames /\ phys \in granted
      /\ fl \in Flags /\ "PRESENT" \in fl
  BY <1>1, <1>2, ImageFacts, PagesFacts DEF EInv, ETypeOK, LoopsInImage, Segments
<1> HIDE DEF fl
<1>a. PICK page \in Pages, frame \in Frames, bits \in Flags :
        page = va /\ frame = phys /\ bits = fl
  BY <1>3
<1>b. MapPage(page, frame, bits)
  BY <1>1, <1>a
<1>4. PInv'
  BY <1>3, <1>b, MapPageStep
<1>5. /\ \A w \in Pages \ {page} : Translation(w)' = Translation(w)
      /\ HasTable(page)' => Translation(page)' = PageEntry(frame, bits)
  BY <1>3, <1>a, <1>b, MapMovesOnePage
<1>6. bitmap \subseteq bitmap' /\ UNCHANGED granted
  BY <1>1 DEF MapPage, MapInTable, MapInNewTable, MapNothing, FrameSet, vars
<1>c. /\ NoFreeFrame => NoFreeFrame'
      /\ ~HasTable(page)' => NoFreeFrame
      /\ \A w \in Pages : HasTable(w)' /\ ~HasTable(w) => ~NoFreeFrame
      /\ \A w \in Pages : HasTable(w) => HasTable(w)'
  <2>1. \A w \in Pages : HasTable(w) => HasTable(w)'
    BY <1>3, <1>b, TablesStay
  <2> QED BY <1>3, <1>6, <1>b, <2>1, MapTables, NoFreeFrameStays
<1>7. ETypeOK'
  BY <1>1, <1>2, <1>3, <1>4 DEF EInv, ETypeOK, PInv
<1>8. LoopsInImage'
  BY <1>1, <1>2 DEF LoopsInImage
<1>9. MappedSoFar'
  <2>2. \A k, v \in Nat : Done(k, v) =>
          IF HasTable(v)
          THEN /\ Translation(v).frame \in granted
               /\ Translation(v).frame # phys
               /\ (\A l \in Nat : Done(l, v) => l =< k) => Translation(v).flags = image[k].flags
          ELSE NoFreeFrame
    BY <1>1 DEF EInv, MappedSoFar
  <2>3. \A k, l, v, w \in Nat :
          (/\ Done(k, v) /\ Done(l, w) /\ HasTable(v) /\ HasTable(w)
           /\ Translation(v).frame = Translation(w).frame) => v = w
    BY <1>1 DEF EInv, MappedSoFar
  <2>4. HasTable(page)' => Translation(page)'.frame = phys /\ Translation(page)'.flags = fl
    BY <1>5, <1>a DEF PageEntry
  <2>5. \A k, v \in Nat : Done(k, v) => v \in Pages
    BY ImageFacts DEF Done, EInv, ETypeOK
  <2>a. \A k, v \in Nat : Done(k, v)' /\ v # page =>
          /\ Done(k, v) /\ Translation(v)' = Translation(v)
          /\ HasTable(v)' <=> HasTable(v)
    <3> SUFFICES ASSUME NEW k \in Nat, NEW v \in Nat, Done(k, v)', v # page
                 PROVE  /\ Done(k, v) /\ Translation(v)' = Translation(v)
                        /\ HasTable(v)' <=> HasTable(v)
      OBVIOUS
    <3>1. Done(k, v) /\ v \in Pages
      BY <1>2, <1>a, <2>5
    <3>2. ~HasTable(v) => NoFreeFrame
      BY <2>2, <3>1
    <3> QED BY <1>5, <1>c, <3>1, <3>2
  <2>6. ASSUME NEW k \in Nat, NEW v \in Nat, Done(k, v)'
        PROVE  IF HasTable(v)'
               THEN /\ Translation(v)'.frame \in granted'
                    /\ (\A l \in Nat : Done(l, v)' => l =< k)
                          => Translation(v)'.flags = image'[k].flags
               ELSE NoFreeFrame'
    <3>1. CASE v = page
      <4>1. (\A l \in Nat : Done(l, v)' => l =< k) => k = i
        <5>1. \A l \in Nat : l = i => Done(l, v)'
          BY <1>2, <1>3, <1>a, <3>1
        <5>2. k =< i
          BY <1>2, <1>3, <2>6
        <5> QED BY <1>3, <5>1, <5>2
      <4>2. HasTable(v)' => Translation(v)'.frame = phys /\ Translation(v)'.flags = image[i].flags
        BY <2>4, <3>1 DEF fl
      <4> QED BY <1>1, <1>3, <1>6, <1>c, <3>1, <4>1, <4>2
    <3>2. CASE v # page
      <4>1. /\ Done(k, v) /\ Translation(v)' = Translation(v)
            /\ HasTable(v)' <=> HasTable(v)
        BY <2>a, <2>6, <3>2
      <4>2. (\A l \in Nat : Done(l, v)' => l =< k) => \A l \in Nat : Done(l, v) => l =< k
        BY <1>2
      <4> QED BY <1>1, <1>6, <1>c, <2>2, <4>1, <4>2
    <3> QED BY <3>1, <3>2
  <2>7. ASSUME NEW k \in Nat, NEW l \in Nat, NEW v \in Nat, NEW w \in Nat,
               Done(k, v)', Done(l, w)', HasTable(v)', HasTable(w)',
               Translation(v)'.frame = Translation(w)'.frame
        PROVE  v = w
    <3>2. CASE v # page /\ w # page
      BY <2>3, <2>7, <2>a, <3>2
    <3>3. CASE v = page /\ w # page
      BY <2>2, <2>4, <2>7, <2>a, <3>3
    <3>4. CASE v # page /\ w = page
      BY <2>2, <2>4, <2>7, <2>a, <3>4
    <3> QED BY <3>2, <3>3, <3>4
  <2> QED BY <1>1, <2>6, <2>7 DEF MappedSoFar
<1> QED BY <1>4, <1>5, <1>a, <1>7, <1>8, <1>9 DEF EInv

\* Behind its last page a segment is done with.
LEMMA SegmentMappedStep == ASSUME EInv, SegmentMapped PROVE EInv' /\ UNCHANGED vars
<1>1. /\ status = "alloc" /\ i =< Len(image) /\ ~MorePages /\ i' = i + 1
      /\ va' = IF i < Len(image) THEN image[i + 1].first ELSE 0
      /\ UNCHANGED <<vars, status, image, phys>>
  BY DEF SegmentMapped
<1>2. /\ Len(image) \in Nat /\ i \in Nat /\ i \in 1 .. Len(image) /\ va \in Nat
      /\ SegmentEnd(image[i]) =< va
  <2>1. /\ Len(image) \in Nat /\ i \in Nat /\ i \in 1 .. Len(image) /\ va \in Nat
        /\ ~(va < SegmentEnd(image[i]))
    BY <1>1, ImageFacts, PagesFacts DEF EInv, ETypeOK, MorePages
  <2>2. SegmentEnd(image[i]) \in Nat
    BY <2>1, ImageFacts, PagesFacts DEF EInv, ETypeOK
  <2> QED BY <2>1, <2>2
<1>3. \A k \in 1 .. Len(image) : image[k].first \in Pages /\ image[k].first \in Nat
  BY ImageFacts, PagesFacts DEF EInv, ETypeOK
<1>4. /\ i' \in 1 .. Len(image) + 1 /\ va' \in Pages
      /\ i' =< Len(image) => image[i'].first = va'
  <2>1. i < Len(image) => i + 1 \in 1 .. Len(image)
    BY <1>2
  <2> QED BY <1>1, <1>2, <1>3, <2>1, PagesFacts
<1>5. PInv'
  BY <1>1, PInvKept DEF EInv
<1>6. ETypeOK'
  BY <1>1, <1>4, <1>5 DEF EInv, ETypeOK, PInv
<1>7. LoopsInImage'
  <2>1. i' =< Len(image) => image[i'].first =< va'
    BY <1>1, <1>2, <1>3, <1>4
  <2> QED BY <1>1, <2>1 DEF LoopsInImage
<1>8. ASSUME NEW k \in Nat, NEW v \in Nat PROVE Done(k, v)' <=> Done(k, v)
  <2> DEFINE In == k \in 1 .. Len(image) /\ v \in SegmentPages(image[k])
  <2>1. Done(k, v)' <=> In /\ (k < i + 1 \/ (k = i + 1 /\ v < va'))
    BY <1>1, WalkKept DEF Done
  <2>2. Done(k, v) <=> In /\ (k < i \/ (k = i /\ v < va))
    BY DEF Done
  <2>3. k = i /\ In => v < va
    <3>1. SegmentEnd(image[i]) \in Nat
      BY <1>2, ImageFacts, PagesFacts DEF EInv, ETypeOK
    <3> QED BY <1>2, <3>1 DEF SegmentPages
  <2>4. In /\ k = i + 1 => ~(v < va')
    BY <1>1, <1>2, <1>3, <1>4 DEF SegmentPages
  <2>5. k < i + 1 <=> k < i \/ k = i
    BY <1>2
  <2> HIDE DEF In
  <2> QED BY <1>2, <2>1, <2>2, <2>3, <2>4, <2>5
<1>9. \A v \in Nat : Translation(v)' = Translation(v) /\ (HasTable(v)' <=> HasTable(v))
  BY <1>1 DEF Translation, HasTable, DirIndex, vars
<1>10. MappedSoFar'
  BY <1>1, <1>8, <1>9 DEF EInv, MappedSoFar, NoFreeFrame, Scanned, vars
<1> QED BY <1>1, <1>5, <1>6, <1>7, <1>10 DEF EInv

LEMMA LoadElfReturnsStep == ASSUME EInv, LoadElfReturns PROVE EInv' /\ UNCHANGED vars
<1>1. /\ status = "alloc" /\ status' = "loaded" /\ i > Len(image)
      /\ UNCHANGED <<vars, image, i, va, phys>>
  BY DEF LoadElfReturns
<1>2. PInv'
  BY <1>1, PInvKept DEF EInv
<1>3. Len(image) \in Nat
  BY ImageFacts DEF EInv, ETypeOK
<1>4. ETypeOK'
  BY <1>1, <1>2 DEF EInv, ETypeOK, PInv
<1>5. LoopsInImage'
  BY <1>1, <1>3 DEF EInv, ETypeOK, LoopsInImage, Loading
<1>6. \A k, v \in Nat : Done(k, v)' <=> Done(k, v)
  BY <1>1, WalkKept DEF Done
<1>7. \A v \in Nat : Translation(v)' = Translation(v) /\ (HasTable(v)' <=> HasTable(v))
  BY <1>1 DEF Translation, HasTable, DirIndex, vars
<1>8. MappedSoFar'
  BY <1>1, <1>6, <1>7 DEF EInv, MappedSoFar, NoFreeFrame, Scanned, vars
<1> QED BY <1>1, <1>2, <1>4, <1>5, <1>8 DEF EInv

LEMMA ENextStep == ASSUME EInv, [ENext]_evars PROVE EInv' /\ OnePageMoves
<1>0. PInv
  BY DEF EInv
<1>1. ASSUME UNCHANGED vars PROVE PInv' /\ OnePageMoves
  BY <1>0, <1>1, PInvKept DEF OnePageMoves, Translation, vars
<1>2. ASSUME NEW f \in Files, LoadElf(f) PROVE EInv' /\ OnePageMoves
  BY <1>1, <1>2, LoadElfStep
<1>3. ASSUME NEW f \in Files, LoadElfRefused(f) PROVE EInv' /\ OnePageMoves
  BY <1>1, <1>3, ForgottenStep DEF LoadElfRefused
<1>4. CASE MapSegmentPage
  BY <1>4, MapSegmentPageStep DEF OnePageMoves
<1>5. CASE MapSegmentsFails
  BY <1>1, <1>5, ForgottenStep DEF MapSegmentsFails
<1>6. CASE PageMapped
  <2>1. EInv' /\ \A w \in Pages \ {va} : Translation(w)' = Translation(w)
    BY <1>6, PageMappedStep
  <2> QED BY <2>1 DEF OnePageMoves
<1>7. CASE LoadElfReturns
  BY <1>1, <1>7, LoadElfReturnsStep
<1>8. CASE PageOperation
  <2>1. Next /\ Forgotten /\ status' = "idle"
    BY <1>8 DEF PageOperation
  <2>2. PInv' /\ OnePageMoves
    BY <1>0, <2>1, NextStep
  <2> QED BY <2>1, <2>2, ForgottenStep
<1>9. CASE UNCHANGED evars
  <2>1. UNCHANGED vars /\ UNCHANGED <<status, image, i, va, phys>>
    BY <1>9 DEF evars, lvars
  <2>2. PInv' /\ OnePageMoves
    BY <1>1, <2>1
  <2>3. \A k, v \in Nat : /\ Done(k, v)' <=> Done(k, v)
                          /\ Translation(v)' = Translation(v)
                          /\ HasTable(v)' <=> HasTable(v)
    BY <2>1, WalkKept DEF Done, Translation, HasTable, DirIndex, vars
  <2>4. ETypeOK'
    BY <2>1, <2>2 DEF EInv, ETypeOK, PInv
  <2>5. LoopsInImage'
    BY <2>1, WalkKept DEF EInv, LoopsInImage, Loading, MorePages, vars
  <2>6. MappedSoFar'
    BY <2>1, <2>3 DEF EInv, MappedSoFar, NoFreeFrame, Scanned, vars
  <2> QED BY <2>2, <2>4, <2>5, <2>6 DEF EInv
<1>10. CASE SegmentMapped
  BY <1>1, <1>10, SegmentMappedStep
<1> QED
  BY <1>2, <1>3, <1>4, <1>5, <1>6, <1>7, <1>8, <1>9, <1>10 DEF ENext

\* The frames, the tables and the loops of the loader keep to the invariant.
THEOREM ElfLoaderInvariant == ESpec => []EInv
<1>1. EInv /\ [ENext]_evars => EInv'
  BY ENextStep
<1>2. EInit => EInv
  BY InitEInv
<1> QED BY <1>1, <1>2, PTL DEF ESpec

\* The tables, the directory and the loops of the loader keep their types.
THEOREM ElfLoaderTypeCorrect == ESpec => []ETypeOK
BY ElfLoaderInvariant, PTL DEF EInv

\* No frame is two things at once, whatever is loaded, mapped and freed.
THEOREM PagingFramesAccounted == ESpec => []FramesAccounted
<1>1. EInv => FramesAccounted
  BY DEF EInv, PInv
<1> QED BY <1>1, ElfLoaderInvariant, PTL

\* No call, and no step of a load, moves two pages.
THEOREM PagingMappingsIndependent == ESpec => MappingsIndependent
<1>1. EInv /\ [ENext]_evars
        => \A v, w \in Pages : Translation(v)' # Translation(v)
                                /\ Translation(w)' # Translation(w) => v = w
  BY ENextStep DEF OnePageMoves
<1> QED BY <1>1, ElfLoaderInvariant, PTL DEF ESpec, MappingsIndependent

\* The loops walk every page of a segment whose end does not wrap.
LEMMA ImagePagesWalked ==
  ASSUME ETypeOK, NEW v \in ImagePages
  PROVE  v \in Nat /\ \E k \in 1 .. Len(image) : v \in SegmentPages(image[k])
<1>1. PICK k \in 1 .. Len(image) : ~Wraps(image[k]) /\ v \in image[k].first .. image[k].last
  BY DEF ImagePages
<1>2. image[k].first \in Nat /\ image[k].last \in Nat
  BY ImageFacts, PagesFacts DEF ETypeOK
<1>3. SegmentEnd(image[k]) \in Pages /\ SegmentEnd(image[k]) = image[k].last + 1
  BY <1>1, <1>2, EndFacts
<1>4. v \in Nat /\ image[k].first =< v /\ v < SegmentEnd(image[k])
  BY <1>1, <1>2, <1>3
<1>5. v \in Pages
  BY <1>3, <1>4, PagesFacts
<1> QED BY <1>4, <1>5 DEF SegmentPages

\* In an image, the segments that walk a page have a last one.
LEMMA LastSegmentExists ==
  ASSUME EInv, NEW v \in ImagePages
  PROVE  /\ LastSegment(v) \in 1 .. Len(image)
         /\ v \in SegmentPages(image[LastSegment(v)])
         /\ \A l \in 1 .. Len(image) : v \in SegmentPages(image[l]) => l =< LastSegment(v)
<1> DEFINE With == {l \in 1 .. Len(image) : v \in SegmentPages(image[l])}
           S == {Len(image) - l : l \in With}
<1>1. Len(image) \in Nat
  BY ImageFacts DEF EInv, ETypeOK
<1>2. S \in SUBSET Nat /\ S # {}
  BY <1>1, ImagePagesWalked DEF EInv
<1>3. PICK n \in S : \A m \in S : n =< m
  BY <1>2, LeastExists
<1>4. PICK k \in With : n = Len(image) - k
  BY <1>3
<1>5. \A l \in With : l =< k
  <2> SUFFICES ASSUME NEW l \in With PROVE l =< k
    OBVIOUS
  <2>1. Len(image) - l \in S /\ l \in Nat /\ k \in Nat
    BY <1>1
  <2>2. n =< Len(image) - l
    BY <1>3, <2>1
  <2> QED BY <1>1, <1>4, <2>1, <2>2
<1>6. \E l \in 1 .. Len(image) :
        /\ v \in SegmentPages(image[l])
        /\ \A m \in 1 .. Len(image) : v \in SegmentPages(image[m]) => m =< l
  BY <1>4, <1>5
<1> QED BY <1>6 DEF LastSegment

LEMMA LoadedFollows == EInv => LoadedUnlessExhausted
<1> SUFFICES ASSUME EInv, status = "loaded"
             PROVE  /\ \A v \in ImagePages :
                         IF HasTable(v) THEN /\ Translation(v).flags = image[LastSegment(v)].flags
                                             /\ Translation(v).frame \in granted
                         ELSE NoFreeFrame
                    /\ \A v, w \in ImagePages :
                         HasTable(v) /\ HasTable(w) /\ Translation(v).frame = Translation(w).frame
                           => v = w
  BY DEF LoadedUnlessExhausted
<1>1. Len(image) \in Nat /\ i = Len(image) + 1
  BY ImageFacts DEF EInv, ETypeOK, LoopsInImage
<1>2. \A v \in ImagePages : /\ v \in Nat
                            /\ \E k \in 1 .. Len(image) : v \in SegmentPages(image[k])
  BY ImagePagesWalked DEF EInv
<1>3. \A k, v \in Nat : Done(k, v) <=> k \in 1 .. Len(image) /\ v \in SegmentPages(image[k])
  BY <1>1 DEF Done
<1>4. /\ \A k, v \in Nat : Done(k, v) =>
           IF HasTable(v)
           THEN /\ Translation(v).frame \in granted
                /\ (\A l \in Nat : Done(l, v) => l =< k) => Translation(v).flags = image[k].flags
           ELSE NoFreeFrame
      /\ \A k, l, v, w \in Nat :
           (/\ Done(k, v) /\ Done(l, w) /\ HasTable(v) /\ HasTable(w)
            /\ Translation(v).frame = Translation(w).frame) => v = w
  BY DEF EInv, MappedSoFar
<1>5. ASSUME NEW v \in ImagePages
      PROVE  IF HasTable(v) THEN /\ Translation(v).flags = image[LastSegment(v)].flags
                                 /\ Translation(v).frame \in granted
             ELSE NoFreeFrame
  <2>1. /\ LastSegment(v) \in Nat /\ Done(LastSegment(v), v)
        /\ \A l \in Nat : Done(l, v) => l =< LastSegment(v)
    BY <1>1, <1>2, <1>3, LastSegmentExists
  <2> QED BY <1>2, <1>4, <2>1
<1>6. ASSUME NEW v \in ImagePages, NEW w \in ImagePages, HasTable(v), HasTable(w),
             Translation(v).frame = Translation(w).frame
      PROVE  v = w
  <2>1. PICK k \in 1 .. Len(image), l \in 1 .. Len(image) :
          v \in SegmentPages(image[k]) /\ w \in SegmentPages(image[l])
    BY <1>2
  <2>2. k \in Nat /\ l \in Nat
    BY <1>1
  <2> QED BY <1>2, <1>3, <1>4, <1>6, <2>1, <2>2
<1> QED BY <1>5, <1>6

\* A load that returns 0 mapped every page of the segments whose end does not
\* wrap, but for the pages map_page found no frame for a table for.
THEOREM ElfLoadedUnlessExhausted == ESpec => []LoadedUnlessExhausted
BY ElfLoaderInvariant, LoadedFollows, PTL

------------------------------------------------------------------------------
(* A load seen from outside: Loader.                                        *)

FreeFrames == Scanned \ bitmap

LEMMA FreeFinite == IsFiniteSet(FreeFrames) /\ Cardinality(FreeFrames) \in Nat
BY ScannedFrames, FramesFinite DEF FreeFrames

\* Taking a frame leaves one less.
LEMMA FrameTaken ==
  ASSUME NEW f, FrameFindFree(f), FrameSet(f)
  PROVE  /\ Cardinality(FreeFrames) > 0
         /\ Cardinality(FreeFrames') = Cardinality(FreeFrames) - 1
<1>1. f \in FreeFrames
  BY DEF FrameFindFree, FreeFrames
<1>2. FreeFrames' = FreeFrames \ {f}
  BY DEF FrameSet, FreeFrames, Scanned
<1>3. Cardinality(FreeFrames \ {f}) = Cardinality(FreeFrames) - 1
  BY <1>1, FreeFinite, FS_RemoveElement
<1>4. Cardinality(FreeFrames) # 0
  BY <1>1, FreeFinite, FS_EmptySet
<1> QED BY <1>2, <1>3, <1>4, FreeFinite

LEMMA FinitePages ==
  ASSUME NEW a \in Int, NEW b \in Int, NEW S \in SUBSET ((a .. b) \X Pages)
  PROVE  IsFiniteSet(S) /\ Cardinality(S) \in Nat
<1>1. IsFiniteSet(a .. b)
  BY FS_Interval
<1>2. DirEntries * PageEntries - 1 \in Int
  BY Sizes
<1>3. IsFiniteSet(Pages)
  BY <1>2, FS_Interval DEF Pages
<1>4. IsFiniteSet((a .. b) \X Pages)
  BY <1>1, <1>3, FS_Product
<1> QED BY <1>4, FS_Subset, FS_CardinalityType

LEMMA PendingFinite ==
  ASSUME ETypeOK PROVE IsFiniteSet(Pending) /\ Cardinality(Pending) \in Nat
<1>1. Len(image) \in Int /\ i \in Int
  BY ImageFacts DEF ETypeOK
<1>2. Pending \subseteq (i .. Len(image)) \X Pages
  BY DEF Pending
<1> QED BY <1>1, <1>2, FinitePages

\* The page the loops are at, while there is one.
LEMMA PageWalked ==
  ASSUME EInv, Loading, i =< Len(image), MorePages
  PROVE  /\ Len(image) \in Nat /\ i \in 1 .. Len(image) /\ i \in Nat
         /\ va \in Pages /\ va \in Nat /\ va \in SegmentPages(image[i])
<1>1. /\ Len(image) \in Nat /\ i \in 1 .. Len(image) /\ i \in Nat
      /\ va \in Pages /\ va \in Nat
  BY ImageFacts, PagesFacts DEF EInv, ETypeOK
<1>2. image[i].first =< va /\ va < SegmentEnd(image[i])
  BY DEF EInv, LoopsInImage, MorePages
<1> QED BY <1>1, <1>2 DEF SegmentPages

\* alloc_page, for a page of the image, is Loader's TakePage.
LEMMA PageTaken ==
  ASSUME EInv, MapSegmentPage
  PROVE  /\ Cardinality(Pending) > 0
         /\ Cardinality(Pending') = Cardinality(Pending) - 1
<1>1. /\ status = "alloc" /\ i =< Len(image) /\ MorePages
      /\ status' = "map" /\ UNCHANGED <<image, i, va>>
  BY DEF MapSegmentPage
<1>2. /\ Len(image) \in Nat /\ i \in 1 .. Len(image) /\ i \in Nat /\ va \in Pages /\ va \in Nat
      /\ va \in SegmentPages(image[i])
  BY <1>1, PageWalked DEF Loading
<1>3. \A k \in i .. Len(image), v \in Pages :
        Wants(k, v)' <=> Wants(k, v) /\ ~(k = i /\ v = va)
  BY <1>1, <1>2, WalkKept, PagesFacts DEF Wants
<1>4. Wants(i, va) /\ <<i, va>> \in (i .. Len(image)) \X Pages
  BY <1>1, <1>2 DEF Wants
<1>5. <<i, va>> \in Pending
  BY <1>4 DEF Pending
<1>6. Pending' = Pending \ {<<i, va>>}
  <2>1. Pending' = {p \in (i .. Len(image)) \X Pages : Wants(p[1], p[2])'}
    BY <1>1 DEF Pending, Pages, Wants, SegmentPages, SegmentEnd, PageCount
  <2>2. \A p \in (i .. Len(image)) \X Pages :
          Wants(p[1], p[2])' <=> Wants(p[1], p[2]) /\ p # <<i, va>>
    BY <1>3
  <2> QED BY <2>1, <2>2 DEF Pending
<1>7. Cardinality(Pending \ {<<i, va>>}) = Cardinality(Pending) - 1
  BY <1>5, PendingFinite, FS_RemoveElement DEF EInv
<1>8. Cardinality(Pending) # 0
  BY <1>5, PendingFinite, FS_EmptySet DEF EInv
<1> QED BY <1>6, <1>7, <1>8, PendingFinite DEF EInv

\* map_page takes no frame for a page of the image, and leaves the loops at the
\* next page of the segment.
LEMMA PendingKept == ASSUME EInv, PageMapped PROVE Pending' = Pending
<1>1. status = "map" /\ status' = "alloc" /\ UNCHANGED <<image, i>> /\ va' = va + 1
  BY DEF PageMapped
<1>2. va \in Nat
  BY PagesFacts DEF EInv, ETypeOK
<1>3. \A k \in i .. Len(image), v \in Pages : Wants(k, v)' <=> Wants(k, v)
  BY <1>1, <1>2, WalkKept, PagesFacts DEF Wants
<1>4. \A p \in (i .. Len(image)) \X Pages : Wants(p[1], p[2])' <=> Wants(p[1], p[2])
  BY <1>3
<1>5. Pending' = {p \in (i .. Len(image)) \X Pages : Wants(p[1], p[2])'}
  BY <1>1 DEF Pending, Pages, Wants, SegmentPages, SegmentEnd, PageCount
<1> QED BY <1>4, <1>5 DEF Pending

\* Behind the last page of a segment none of it wants a frame, and every page of
\* the next does.
LEMMA PendingKeptBehind == ASSUME EInv, SegmentMapped PROVE Pending' = Pending
<1>1. /\ status = "alloc" /\ status' = "alloc" /\ UNCHANGED image /\ i' = i + 1
      /\ i =< Len(image) /\ ~(va < SegmentEnd(image[i]))
      /\ va' = IF i < Len(image) THEN image[i + 1].first ELSE 0
  BY DEF SegmentMapped, MorePages
<1>2. Len(image) \in Nat /\ i \in Nat /\ i \in 1 .. Len(image) /\ va \in Nat
  BY <1>1, ImageFacts, PagesFacts DEF EInv, ETypeOK
<1>3. \A k \in 1 .. Len(image) : image[k].first \in Nat /\ SegmentEnd(image[k]) \in Nat
  BY ImageFacts, PagesFacts DEF EInv, ETypeOK
<1>4. ASSUME NEW k \in i + 1 .. Len(image), NEW v \in Pages
      PROVE  Wants(k, v)' <=> Wants(k, v)
  <2>1. k # i /\ k \in 1 .. Len(image) /\ v \in Nat
    BY <1>2, PagesFacts
  <2>2. Wants(k, v) <=> v \in SegmentPages(image[k])
    BY <2>1 DEF Wants
  <2>3. Wants(k, v)' <=> /\ v \in SegmentPages(image[k])
                         /\ k = i + 1 => v > va' \/ v = va'
    BY <1>1, WalkKept DEF Wants
  <2>4. v \in SegmentPages(image[k]) /\ k = i + 1 => v > va' \/ v = va'
    BY <1>1, <1>2, <1>3, <2>1 DEF SegmentPages
  <2> QED BY <2>2, <2>3, <2>4
<1>5. \A v \in Pages : ~Wants(i, v)
  BY <1>1, <1>2, <1>3, PagesFacts DEF Wants, SegmentPages
<1>6. i .. Len(image) = {i} \cup (i + 1 .. Len(image)) /\ i \notin i + 1 .. Len(image)
  BY <1>2
<1>7. Pending' = {p \in (i + 1 .. Len(image)) \X Pages : Wants(p[1], p[2])'}
  BY <1>1 DEF Pending, Pages, Wants, SegmentPages, SegmentEnd, PageCount
<1>8. \A p \in (i + 1 .. Len(image)) \X Pages : Wants(p[1], p[2])' <=> Wants(p[1], p[2])
  BY <1>4
<1>9. Pending = {p \in (i + 1 .. Len(image)) \X Pages : Wants(p[1], p[2])}
  BY <1>5, <1>6 DEF Pending
<1> QED BY <1>7, <1>8, <1>9

LEMMA LoadInits == ASSUME EInit PROVE L!Init
<1>1. ~Loading /\ status = "idle"
  BY DEF EInit, Loading
<1>2. Cardinality(Scanned \ bitmap) \in Nat
  BY FreeFinite DEF FreeFrames
<1> QED BY <1>1, <1>2 DEF L!Init, PagesLeft

\* Every step of the loader, or of another caller, is one of Loader or none.
LEMMA LoadSteps ==
  ASSUME EInv, EInv', [ENext]_evars PROVE L!Next \/ UNCHANGED L!vars
<1> DEFINE free == Cardinality(Scanned \ bitmap)
<1>0. /\ free \in Nat /\ free' \in Nat
      /\ PagesLeft \in Nat /\ PagesLeft' \in Nat
  <2>1. free \in Nat
    BY FreeFinite DEF FreeFrames
  <2>2. free' \in Nat
    BY ScannedFrames, FramesFinite DEF Scanned
  <2>3. Cardinality(Pending) \in Nat
    BY PendingFinite DEF EInv
  <2>4. Cardinality(Pending') \in Nat
    <3>1. Len(image') \in Int /\ i' \in Int
      BY ImageFacts DEF EInv, ETypeOK
    <3>2. Pending' \subseteq (i' .. Len(image')) \X Pages
      BY DEF Pending, Pages
    <3> QED BY <3>1, <3>2, FinitePages
  <2> QED BY <2>1, <2>2, <2>3, <2>4 DEF PagesLeft
<1>T. L!Loading <=> Loading
  BY DEF L!Loading, Loading, EInv, ETypeOK
<1>1. ASSUME NEW f \in Files, LoadElf(f) PROVE L!Start
  <2>1. ~Loading /\ status' = "alloc" /\ UNCHANGED bitmap
    BY <1>1 DEF LoadElf, vars
  <2>2. free' = free
    BY <2>1 DEF Scanned
  <2>3. Loading'
    BY <2>1 DEF Loading
  <2> QED BY <1>0, <1>T, <2>1, <2>2, <2>3 DEF L!Start
<1>2. ASSUME NEW f \in Files, LoadElfRefused(f) PROVE L!Refuse
  <2>1. ~Loading /\ status' = "failed" /\ UNCHANGED bitmap
    BY <1>2 DEF LoadElfRefused, vars
  <2>2. free' = free
    BY <2>1 DEF Scanned
  <2>3. ~Loading'
    BY <2>1 DEF Loading
  <2>4. PagesLeft' = PagesLeft
    BY <2>1, <2>3 DEF PagesLeft
  <2> QED BY <1>T, <2>1, <2>2, <2>3, <2>4 DEF L!Refuse
<1>3. CASE MapSegmentPage
  <2>1. status = "alloc" /\ status' = "map" /\ Loading /\ Loading'
    BY <1>3 DEF MapSegmentPage, Loading
  <2>2. PICK f \in Frames : FrameFindFree(f) /\ FrameSet(f)
    BY <1>3 DEF MapSegmentPage, AllocPage
  <2>3. free > 0 /\ free' = free - 1
    BY <2>2, FrameTaken DEF FreeFrames, Scanned
  <2>4. PagesLeft > 0 /\ PagesLeft' = PagesLeft - 1
    BY <1>3, <2>1, PageTaken DEF PagesLeft
  <2>5. L!TakePage
    BY <1>T, <2>1, <2>3, <2>4 DEF L!TakePage
  <2> QED BY <2>5 DEF L!Next
<1>4. CASE MapSegmentsFails
  <2>1. /\ status = "alloc" /\ i =< Len(image) /\ MorePages /\ NoFreeFrame
        /\ status' = "failed" /\ UNCHANGED bitmap
    BY <1>4 DEF MapSegmentsFails, vars
  <2>2. Loading /\ ~Loading'
    BY <2>1 DEF Loading
  <2>3. Scanned \ bitmap = {}
    BY <2>1 DEF NoFreeFrame
  <2>4. free = 0 /\ free' = free
    BY <2>1, <2>3, FS_EmptySet DEF Scanned
  <2>5. PagesLeft > 0
    <3>1. /\ va \in SegmentPages(image[i]) /\ va \in Pages /\ i \in i .. Len(image)
      BY <2>1, <2>2, PageWalked
    <3>2. Wants(i, va) /\ <<i, va>> \in (i .. Len(image)) \X Pages
      BY <2>1, <3>1 DEF Wants
    <3>3. Pending # {}
      BY <3>2 DEF Pending
    <3>4. IsFiniteSet(Pending) /\ Cardinality(Pending) # 0
      BY <3>3, PendingFinite, FS_EmptySet DEF EInv
    <3> QED BY <1>0, <2>2, <3>4 DEF PagesLeft
  <2>6. PagesLeft' = 0
    BY <2>2 DEF PagesLeft
  <2>7. L!Fail
    BY <1>T, <2>1, <2>2, <2>4, <2>5, <2>6 DEF L!Fail
  <2> QED BY <2>7 DEF L!Next
<1>5. CASE PageMapped
  <2>1. status = "map" /\ status' = "alloc" /\ Loading /\ Loading'
    BY <1>5 DEF PageMapped, Loading
  <2>2. PagesLeft' = PagesLeft
    BY <1>5, <2>1, PendingKept DEF PagesLeft
  <2>3. \/ UNCHANGED bitmap
        \/ \E t \in Frames : FrameFindFree(t) /\ FrameSet(t)
    BY <1>5 DEF PageMapped, MapPage, MapInTable, MapInNewTable, MapNothing, vars
  <2>4. CASE UNCHANGED bitmap
    <3>1. free' = free
      BY <2>4 DEF Scanned
    <3> QED BY <2>1, <2>2, <3>1 DEF L!vars
  <2>5. CASE \E t \in Frames : FrameFindFree(t) /\ FrameSet(t)
    <3>1. free > 0 /\ free' = free - 1
      BY <2>5, FrameTaken DEF FreeFrames, Scanned
    <3>2. L!TakeTable
      BY <1>T, <2>1, <2>2, <3>1 DEF L!TakeTable
    <3> QED BY <3>2 DEF L!Next
  <2> QED BY <2>3, <2>4, <2>5
<1>6. CASE LoadElfReturns
  <2>1. status = "alloc" /\ status' = "loaded" /\ i > Len(image) /\ UNCHANGED bitmap
    BY <1>6 DEF LoadElfReturns, vars
  <2>2. Loading /\ ~Loading'
    BY <2>1 DEF Loading
  <2>3. free' = free
    BY <2>1 DEF Scanned
  <2>4. Pending = {}
    <3>1. i .. Len(image) = {}
      BY <2>1, ImageFacts DEF EInv, ETypeOK
    <3> QED BY <3>1 DEF Pending
  <2>5. PagesLeft = 0 /\ PagesLeft' = 0
    BY <2>2, <2>4, FS_EmptySet DEF PagesLeft
  <2>6. L!Finish
    BY <1>T, <2>1, <2>2, <2>3, <2>5 DEF L!Finish
  <2> QED BY <2>6 DEF L!Next
<1>7. CASE PageOperation
  <2>1. ~Loading /\ status' = "idle" /\ ~Loading'
    BY <1>7 DEF PageOperation, Loading
  <2>2. PagesLeft' = PagesLeft
    BY <2>1 DEF PagesLeft
  <2>3. L!Others
    BY <1>0, <1>T, <2>1, <2>2 DEF L!Others
  <2> QED BY <2>3 DEF L!Next
<1>8. CASE UNCHANGED evars
  <2>1. UNCHANGED <<bitmap, status, image, i, va>>
    BY <1>8 DEF evars, vars, lvars
  <2>2. free' = free
    BY <2>1 DEF Scanned
  <2>3. Pending' = Pending
    BY <2>1 DEF Pending, Pages, Wants, SegmentPages, SegmentEnd, PageCount
  <2>4. PagesLeft' = PagesLeft /\ (Loading' <=> Loading)
    BY <2>1, <2>3 DEF PagesLeft, Loading
  <2> QED BY <2>1, <2>2, <2>4 DEF L!vars
<1>9. CASE SegmentMapped
  <2>1. status = "alloc" /\ UNCHANGED <<status, bitmap>>
    BY <1>9 DEF SegmentMapped, vars
  <2>2. free' = free
    BY <2>1 DEF Scanned
  <2>3. PagesLeft' = PagesLeft /\ Loading /\ Loading'
    BY <1>9, <2>1, PendingKeptBehind DEF PagesLeft, Loading
  <2> QED BY <2>2, <2>3 DEF L!vars
<1> QED
  BY <1>1, <1>2, <1>3, <1>4, <1>5, <1>6, <1>7, <1>8, <1>9 DEF ENext, L!Next

\* Whatever the tables and the segments, a load is what Loader says it is.
THEOREM ElfRefinesLoader == ESpec => RefinesLoader
<1>1. EInit => L!Init
  BY LoadInits
<1>2. EInv /\ EInv' /\ [ENext]_evars => [L!Next]_(L!vars)
  BY LoadSteps
<1> QED BY <1>1, <1>2, ElfLoaderInvariant, PTL DEF ESpec, RefinesLoader, L!Spec
==============================================================================
