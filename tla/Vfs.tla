--------------------------------- MODULE Vfs ---------------------------------
(****************************************************************************)
(* The in-memory file system of core/fs/vfs.c (memfs), its descriptors, and *)
(* the system calls open, read, write and close of core/kernel/syscall.c.   *)
(*                                                                          *)
(* What the files hold is left out: the properties are about which file a   *)
(* descriptor reaches, how far, and under which name.  Two things the code  *)
(* writes and nobody reads are left out too: the mount table, which vfs_init*)
(* enters "/" in, and the flags a descriptor is opened with.                *)
(* memfs_write adds offset + size in u32.  A sum that wraps passes its test,*)
(* and kmemcpy then runs over the memory behind the data array: overrun     *)
(* keeps the size asked for, and what the kernel does after that is left out*)
(*                                                                          *)
(* A path is [slashes, name]: how many slashes it begins with and what      *)
(* follows them.  The name of a file has the same form, since vfs_open      *)
(* removes one character of the path, a slash or not, and keeps the rest.   *)
(****************************************************************************)
EXTENDS Integers, FiniteSets

CONSTANTS MaxFiles,     \* MEMFS_MAX_FILES, 32 in the code
          MaxFileSize,  \* MEMFS_MAX_FILESIZE, 4096 in the code
          MaxFds,       \* VFS_MAX_OPEN_FILES, 256 in the code
          ReadmeSize,   \* bytes vfs_init writes to README.TXT
          Word,         \* number of values of u32, 2^32 in the code
          Lengths,      \* the sizes programs read and write
          Names,        \* names without a slash, the empty one included
          Rest,         \* name -> the name without its first character
          Readme,       \* the name README.TXT
          Empty,        \* the empty name
          Paths,        \* the paths programs open
          FlagSets      \* the flags they open them with

ASSUME VfsAssumption ==
  /\ MaxFiles \in Nat \ {0} /\ MaxFds \in Nat /\ MaxFileSize \in Nat
  /\ ReadmeSize \in 0 .. MaxFileSize
  /\ Word \in Nat /\ MaxFileSize < Word
  /\ Lengths \subseteq 0 .. Word - 1
  /\ Readme \in Names /\ Empty \in Names /\ Rest \in [Names -> Names]
  /\ Paths \subseteq [slashes : Nat, name : Names]
  /\ FlagSets \subseteq SUBSET {"CREATE", "APPEND", "TRUNC"}

Files == 0 .. MaxFiles - 1
Fds   == 0 .. MaxFds - 1
None  == -1                \* no slot, no descriptor

VARIABLES used,            \* memfs_files: slot -> used
          name, inode, size,
          inode_counter,
          memfs_file_count,
          found,           \* the one node memfs_finddir returns: its inode
          in_use,          \* fds: descriptor -> in use
          node,            \* descriptor -> "root", "file" (&found) or "NULL"
          offset,
          overrun          \* sizes of the writes whose copy left the data array

memfs == <<used, name, inode, size, inode_counter, memfs_file_count>>
fds   == <<in_use, node, offset>>
vars  == <<memfs, found, fds, overrun>>

------------------------------------------------------------------------------
(* vfs_init: README.TXT in slot 0.                                          *)
Init == /\ used = [i \in Files |-> i = 0]
        /\ name = [i \in Files |-> [slashes |-> 0,
                                    name |-> IF i = 0 THEN Readme ELSE Empty]]
        /\ inode = [i \in Files |-> IF i = 0 THEN 1 ELSE 0]
        /\ size = [i \in Files |-> IF i = 0 THEN ReadmeSize ELSE 0]
        /\ inode_counter = 2
        /\ memfs_file_count = 1
        /\ found = 0
        /\ in_use = [d \in Fds |-> FALSE]
        /\ node = [d \in Fds |-> "NULL"]
        /\ offset = [d \in Fds |-> 0]
        /\ overrun = {}

(* The slot memfs_finddir stops at for name n, from tables u and nm: the    *)
(* first used one with that name.                                           *)
Matches(u, nm, i, n) == u[i] /\ nm[i] = n

FindDir(u, nm, n) ==
  IF \E i \in Files : Matches(u, nm, i, n)
  THEN CHOOSE i \in Files : /\ Matches(u, nm, i, n)
                            /\ \A j \in Files : j < i => ~Matches(u, nm, j, n)
  ELSE None

IsRoot(p) == p.slashes = 1 /\ p.name = Empty

(* vfs_resolve_path for a path that is not "/": every slash at its head is  *)
(* skipped; without one nothing is looked up.                               *)
Resolve(p) ==
  IF p.slashes = 0 THEN None ELSE FindDir(used, name, [slashes |-> 0, name |-> p.name])

(* The name vfs_open gives a file it creates: path + 1.                     *)
CreatedName(p) ==
  IF p.slashes = 0 THEN [slashes |-> 0, name |-> Rest[p.name]]
  ELSE [slashes |-> p.slashes - 1, name |-> p.name]

(* find_free_fd: the first descriptor not in use.                           *)
FreeFd(d) == ~in_use[d] /\ \A e \in Fds : e < d => in_use[e]

(* The end of vfs_open, on a node of the given kind: a descriptor at offset *)
(* 0, or -1 when there is none left.                                        *)
Attach(kind) ==
  \/ \E d \in Fds :
       /\ FreeFd(d)
       /\ in_use' = [in_use EXCEPT ![d] = TRUE]
       /\ node' = [node EXCEPT ![d] = kind]
       /\ offset' = [offset EXCEPT ![d] = 0]
  \/ (\A d \in Fds : in_use[d]) /\ UNCHANGED fds

OpenRoot(p) ==
  /\ IsRoot(p)
  /\ Attach("root")
  /\ UNCHANGED <<memfs, found, overrun>>

(* The file is there; finding it overwrites the node of every other file.   *)
OpenFound(p) ==
  /\ ~IsRoot(p) /\ Resolve(p) # None
  /\ found' = inode[Resolve(p)]
  /\ Attach("file")
  /\ UNCHANGED <<memfs, overrun>>

FreeFile(i) == ~used[i] /\ \A j \in Files : j < i => used[j]

\* Two mutants: the number is not advanced; vfs_open leaves the count to vfs_init.
NextInode_Same == inode_counter
CountAfter_Kept == memfs_file_count

NextInode == inode_counter + 1

CountAfter == memfs_file_count + 1

(* The file vfs_open makes of slot i, under the next inode number.          *)
Created(i, p) ==
  /\ used' = [used EXCEPT ![i] = TRUE]
  /\ name' = [name EXCEPT ![i] = CreatedName(p)]
  /\ inode' = [inode EXCEPT ![i] = inode_counter]
  /\ size' = [size EXCEPT ![i] = 0]
  /\ inode_counter' = NextInode
  /\ memfs_file_count' = CountAfter

(* It is not and CREATE is set: the first unused slot becomes the file,     *)
(* before anything is known of a descriptor.                                *)
OpenCreates(p, f) ==
  /\ ~IsRoot(p) /\ Resolve(p) = None /\ "CREATE" \in f
  /\ \E i \in Files :
       /\ FreeFile(i)
       /\ Created(i, p)
       /\ found' = inode'[FindDir(used', name', CreatedName(p))]
       /\ Attach("file")
       /\ UNCHANGED overrun

(* No such file, and no CREATE or no slot for one: -1.                      *)
OpenFails(p, f) ==
  /\ ~IsRoot(p) /\ Resolve(p) = None
  /\ "CREATE" \notin f \/ \A i \in Files : used[i]
  /\ UNCHANGED vars

SysOpen(p, f) == OpenRoot(p) \/ OpenFound(p) \/ OpenCreates(p, f) \/ OpenFails(p, f)

------------------------------------------------------------------------------
(* The file a descriptor reaches: the one whose inode is in the shared node.*)
Reaches(d, i) == in_use[d] /\ node[d] = "file" /\ used[i] /\ inode[i] = found

Least(a, b) == IF a =< b THEN a ELSE b

(* memfs_read: how many bytes there are to read.                            *)
BytesRead(i, off, n) == IF off >= size[i] THEN 0 ELSE Least(n, size[i] - off)

(* a + b in u32.                                                            *)
Plus(a, b) == IF a + b < Word THEN a + b ELSE a + b - Word

(* memfs_write: how many bytes it copies, those that fit unless the end     *)
(* wraps; the size grows with the end.                                      *)
\* Two mutants: the test forgets the length; the size follows every write.
BytesWritten_NoLength(off, n) == IF off > MaxFileSize THEN MaxFileSize - off ELSE n
SizeAfter_Always(i, end) == end

BytesWritten(off, n) == IF Plus(off, n) > MaxFileSize THEN MaxFileSize - off ELSE n

SizeAfter(i, end) == IF end > size[i] THEN end ELSE size[i]

(* vfs_read through a descriptor; one of "/" has no read operation.         *)
SysRead(d, n) ==
  /\ d # 0                        \* stdin is the keyboard
  /\ \E i \in Files :
       /\ Reaches(d, i)
       /\ offset' = [offset EXCEPT ![d] = @ + BytesRead(i, offset[d], n)]
  /\ UNCHANGED <<memfs, found, in_use, node, overrun>>

SysWrite(d, n) ==
  /\ d \notin {1, 2}              \* stdout and stderr are the screen
  /\ \E i \in Files :
       LET count == BytesWritten(offset[d], n)
       IN  /\ Reaches(d, i)
           /\ size' = [size EXCEPT ![i] = SizeAfter(i, Plus(offset[d], count))]
           /\ offset' = [offset EXCEPT ![d] = Plus(@, count)]
           /\ overrun' = IF offset[d] + count > MaxFileSize THEN {n} ELSE {}
  /\ UNCHANGED <<used, name, inode, inode_counter, memfs_file_count, found, in_use, node>>

(* sys_close refuses 0, 1 and 2, whatever they are.                         *)
\* A mutant: the descriptor is given up with its node.
SysClose_KeepsNode(d) ==
  /\ d > 2 /\ in_use[d]
  /\ in_use' = [in_use EXCEPT ![d] = FALSE]
  /\ offset' = [offset EXCEPT ![d] = 0]
  /\ UNCHANGED <<memfs, found, node, overrun>>

SysClose(d) ==
  /\ d > 2 /\ in_use[d]
  /\ in_use' = [in_use EXCEPT ![d] = FALSE]
  /\ node' = [node EXCEPT ![d] = "NULL"]
  /\ offset' = [offset EXCEPT ![d] = 0]
  /\ UNCHANGED <<memfs, found, overrun>>

(* load_elf_from_file opens, reads and closes; what is left is the node.    *)
LoadElf(p) ==
  /\ ~IsRoot(p) /\ Resolve(p) # None
  /\ found' = inode[Resolve(p)]
  /\ UNCHANGED <<memfs, fds, overrun>>

------------------------------------------------------------------------------
(* memfs_readdir: the slot of the used file with the given index, if any.   *)
ReadDir(index) ==
  LET At(i) == used[i] /\ Cardinality({j \in Files : j < i /\ used[j]}) = index
  IN  IF \E i \in Files : At(i) THEN CHOOSE i \in Files : At(i) ELSE None

(* vfs_list asks for index after index until there is none, and prints for  *)
(* each the name found and the size of the first file with its inode.       *)
Listed == {k \in Files : \A l \in 0 .. k : ReadDir(l) # None}

SizeListed(k) ==
  LET Has(i) == used[i] /\ inode[i] = inode[ReadDir(k)]
  IN  size[CHOOSE i \in Files : Has(i) /\ \A j \in Files : j < i => ~Has(j)]

(* No copy has left the data array of its file.                             *)
Intact == overrun = {}

SystemCall == \/ \E p \in Paths, f \in FlagSets : SysOpen(p, f)
              \/ \E d \in Fds, n \in Lengths : SysRead(d, n) \/ SysWrite(d, n)
              \/ \E d \in Fds : SysClose(d)
              \/ \E p \in Paths : LoadElf(p)

Next == \/ Intact /\ SystemCall
        \/ ~Intact /\ UNCHANGED vars    \* overwritten: nothing more is said

Spec == Init /\ [][Next]_vars

------------------------------------------------------------------------------
\* The tables hold what the code puts in them; a descriptor has a node if and
\* only if it is in use, so no operation follows a NULL node.
TypeOK == /\ used \in [Files -> BOOLEAN]
          /\ name \in [Files -> [slashes : Nat, name : Names]]
          /\ inode \in [Files -> Nat] /\ size \in [Files -> Nat]
          /\ inode_counter \in Nat /\ memfs_file_count \in Nat /\ found \in Nat
          /\ in_use \in [Fds -> BOOLEAN]
          /\ node \in [Fds -> {"NULL", "root", "file"}]
          /\ \A d \in Fds : in_use[d] <=> node[d] # "NULL"
          /\ offset \in [Fds -> Nat]
          /\ overrun \subseteq Lengths

\* DescriptorsWithinFile: no file grows past its storage and no offset lies past
\* it, whichever file the descriptor reaches by now, so MEMFS_MAX_FILESIZE - offset
\* in memfs_write never wraps; and a copy leaves the data array only for a size
\* less than MEMFS_MAX_FILESIZE away from 2^32, whose sum with the offset wraps
\* past the test (vfs.c:71).
DescriptorsWithinFile ==
  /\ Intact => /\ \A i \in Files : size[i] =< MaxFileSize
               /\ \A d \in Fds : offset[d] =< MaxFileSize
  /\ \A n \in overrun : n + MaxFileSize >= Word

\* InodesUnique: no two files have one inode, and the node in use stands for a file
\* that exists: memfs_read and memfs_write, which search by inode, find one file.
InodesUnique ==
  Intact =>
    /\ \A i, j \in Files : used[i] /\ used[j] /\ inode[i] = inode[j] => i = j
    /\ \A d \in Fds : node[d] = "file" => \E i \in Files : used[i] /\ inode[i] = found

\* ListingComplete: what vfs_list prints is the directory: every file once, beside
\* its own size and not that of another with its inode, and below them a total,
\* counted by other code than the lines above it, that is their number.
ListingComplete ==
  Intact =>
    /\ {ReadDir(k) : k \in Listed} = {i \in Files : used[i]}
    /\ \A k \in Listed : SizeListed(k) = size[ReadDir(k)]
    /\ memfs_file_count = Cardinality(Listed)

\* Every file is there after the step as before, and no shorter.
FilesKept ==
  Intact' => \A i \in Files : used[i] => /\ used'[i] /\ inode'[i] = inode[i]
                                        /\ size'[i] >= size[i]

\* NoWriteShrinks: a file is never removed, never becomes another file and never
\* loses bytes, by a write before its end for one, as long as the copies stay in
\* the data arrays.
NoWriteShrinks == [][FilesKept]_vars
==============================================================================
