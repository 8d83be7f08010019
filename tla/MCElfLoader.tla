----------------------------- MODULE MCElfLoader -----------------------------
(* Instances of ElfLoader for TLC.                                            *)
EXTENDS ElfLoader

User == {"PRESENT", "USER"}
UserData == {"PRESENT", "WRITABLE", "USER"}

Segment(a, b, f) == [first |-> a, last |-> b, flags |-> f]

\* A segment up to the last page, then text and data that share a page, across
\* two tables.
MCImage == <<Segment(2, 3, UserData), Segment(1, 2, User), Segment(2, 2, UserData)>>

\* A file whose table of three headers ends where it ends; one with a header that
\* is not loaded; one cut short by a byte, one of another kind, one too small.
ElfFile(size, ident, phnum, m) ==
  [size |-> size, ident |-> ident, phoff |-> 4, phnum |-> phnum,
   phentsize |-> 2, image |-> m]
MCFiles == {ElfFile(10, TRUE, 3, MCImage), ElfFile(10, TRUE, 1, <<>>),
            ElfFile(9, TRUE, 3, MCImage), ElfFile(10, FALSE, 3, MCImage),
            ElfFile(3, TRUE, 0, <<>>)}

\* A page of the first table and one of the image, in the second.
MCCallerPages == {0, 2}

\* What callers other than the loader map with.
MCFlagSets == {{"PRESENT", "WRITABLE"}}
==============================================================================
