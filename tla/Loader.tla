-------------------------------- MODULE Loader --------------------------------
(****************************************************************************)
(* What load_elf of core/loader/elf_loader.c does to the free frames and    *)
(* what its caller may expect of it, whatever the pages and the tables.     *)
(* ElfLoader implements it; Exec builds on it.                              *)
(****************************************************************************)
EXTENDS Naturals

VARIABLES free,     \* frames alloc_page can still give
          left,     \* pages of the image that still want a frame
          result    \* "idle", "loading", "loaded" or "failed"

vars == <<free, left, result>>

Loading == result = "loading"

Init == free \in Nat /\ left = 0 /\ result = "idle"

(* A valid image, of any number of pages.                                   *)
Start == ~Loading /\ result' = "loading" /\ left' \in Nat /\ UNCHANGED free

Refuse == ~Loading /\ result' = "failed" /\ UNCHANGED <<free, left>>

(* alloc_page, for the next page.                                           *)
TakePage == /\ Loading /\ left > 0 /\ free > 0
            /\ free' = free - 1 /\ left' = left - 1
            /\ UNCHANGED result

(* map_page may want one more, for a page table, and does without.          *)
TakeTable == Loading /\ free > 0 /\ free' = free - 1 /\ UNCHANGED <<left, result>>

(* Nothing is given back of what the load took.                             *)
Fail == /\ Loading /\ left > 0 /\ free = 0
        /\ result' = "failed" /\ left' = 0
        /\ UNCHANGED free

Finish == Loading /\ left = 0 /\ result' = "loaded" /\ UNCHANGED <<free, left>>

(* alloc_page and free_page of others, between two loads.                   *)
Others == ~Loading /\ free' \in Nat /\ result' = "idle" /\ UNCHANGED left

Next == \/ Start \/ Refuse \/ TakePage \/ TakeTable
        \/ Fail \/ Finish \/ Others

Spec == Init /\ [][Next]_vars
==============================================================================
