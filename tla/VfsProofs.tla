------------------------------ MODULE VfsProofs ------------------------------
(****************************************************************************)
(* The file system's safety for any number of files, descriptors and names, *)
(* whatever the programs open, read, write and close.                       *)
(****************************************************************************)
EXTENDS Vfs, NaturalLemmas

(* An inode number is new when a file gets it: above those of all files.    *)
InodesGiven == \A i \in Files : used[i] => inode[i] < inode_counter

Used == {i \in Files : used[i]}

(* The count that vfs_open keeps is that of the files.                      *)
CountsUsed == memfs_file_count = Cardinality(Used)

(* No size and no offset passes the storage of a file.                      *)
StoredWithin == /\ \A i \in Files : size[i] =< MaxFileSize
                /\ \A d \in Fds : offset[d] =< MaxFileSize

(* Inodes tell files apart and the shared node stands for one of them.      *)
InodesApart ==
  /\ \A i, j \in Files : used[i] /\ used[j] /\ inode[i] = inode[j] => i = j
  /\ \A d \in Fds : node[d] = "file" => \E i \in Files : used[i] /\ inode[i] = found

(* A copy passes the storage only for a size that wraps with some offset.   *)
OverrunsWrap == \A n \in overrun : n + MaxFileSize >= Word

IInv == /\ TypeOK /\ StoredWithin /\ InodesApart /\ InodesGiven /\ CountsUsed
        /\ OverrunsWrap

LEMMA VfsSets == /\ Files \subseteq Nat /\ 0 \in Files /\ None \notin Files
                 /\ \A i \in Files : i < MaxFiles
                 /\ Fds \subseteq Nat
<1>1. MaxFiles \in Nat \ {0} /\ MaxFds \in Nat
  BY VfsAssumption
<1> QED BY <1>1 DEF Files, Fds, None

\* A length is a size of u32.
LEMMA LengthNat == ASSUME NEW n \in Lengths PROVE n \in Nat /\ n < Word
BY VfsAssumption

LEMMA FilesFinite == IsFiniteSet(Files) /\ \A S \in SUBSET Files : IsFiniteSet(S)
<1>1. MaxFiles - 1 \in Int
  BY VfsAssumption
<1>2. IsFiniteSet(Files)
  BY <1>1, FS_Interval DEF Files
<1> QED BY <1>2, FS_Subset

\* memfs_finddir finds a file with the name it looks for if there is one, and
\* nothing else: the scan of the table stops at the first slot that matches.
LEMMA FindDirFinds ==
  ASSUME NEW u, NEW nm, NEW n
  PROVE  /\ FindDir(u, nm, n) \in Files \cup {None}
         /\ FindDir(u, nm, n) # None => Matches(u, nm, FindDir(u, nm, n), n)
         /\ (\E i \in Files : Matches(u, nm, i, n)) => FindDir(u, nm, n) # None
<1> DEFINE S == {i \in Files : Matches(u, nm, i, n)}
<1>1. CASE S = {}
  BY <1>1 DEF FindDir
<1>2. CASE S # {}
  <2>1. PICK i \in S : \A m \in S : i =< m
    BY <1>2, LeastExists, VfsSets
  <2>2. /\ i \in Files /\ Matches(u, nm, i, n)
        /\ \A j \in Files : j < i => ~Matches(u, nm, j, n)
    BY <2>1, VfsSets
  <2>3. /\ FindDir(u, nm, n) \in Files
        /\ Matches(u, nm, FindDir(u, nm, n), n)
    BY <2>2 DEF FindDir
  <2> QED BY <2>3, VfsSets
<1> QED BY <1>1, <1>2

\* A path that resolves, resolves to a file.
LEMMA ResolveFinds ==
  ASSUME NEW p, Resolve(p) # None
  PROVE  Resolve(p) \in Files /\ used[Resolve(p)]
BY FindDirFinds DEF Resolve, Matches

\* However vfs_open ends, descriptors and nodes go together and the offset
\* of the descriptor it hands out is 0.
LEMMA AttachKeeps ==
  ASSUME TypeOK, NEW kind \in {"root", "file"}, Attach(kind)
  PROVE  /\ in_use' \in [Fds -> BOOLEAN]
         /\ node' \in [Fds -> {"NULL", "root", "file"}]
         /\ \A d \in Fds : in_use'[d] <=> node'[d] # "NULL"
         /\ offset' \in [Fds -> Nat]
         /\ \A d \in Fds : offset'[d] = 0 \/ offset'[d] = offset[d]
         /\ \A d \in Fds : node'[d] = node[d] \/ node'[d] = kind
<1>1. CASE UNCHANGED fds
  BY <1>1 DEF TypeOK, fds
<1>2. CASE \E d \in Fds : /\ in_use' = [in_use EXCEPT ![d] = TRUE]
                          /\ node' = [node EXCEPT ![d] = kind]
                          /\ offset' = [offset EXCEPT ![d] = 0]
  BY <1>2 DEF TypeOK
<1> QED BY <1>1, <1>2 DEF Attach

\* A step that changes nothing keeps the invariant.
LEMMA IdleStep == ASSUME IInv, UNCHANGED vars PROVE IInv'
BY DEF vars, memfs, fds, IInv, TypeOK, StoredWithin, InodesApart,
       InodesGiven, CountsUsed, Used, OverrunsWrap

\* A step that keeps the files, hands out descriptors at most by Attach and
\* leaves the shared node on a file that exists keeps the invariant.
LEMMA AttachedStep ==
  ASSUME IInv, UNCHANGED <<memfs, overrun>>, NEW kind \in {"root", "file"}, Attach(kind),
         \/ kind = "root" /\ UNCHANGED found
         \/ found' \in Nat /\ \E i \in Files : used[i] /\ inode[i] = found'
  PROVE  IInv'
<1>1. /\ UNCHANGED <<used, name, inode, size, inode_counter, memfs_file_count>>
      /\ UNCHANGED overrun /\ TypeOK
  BY DEF memfs, IInv
<1>2. /\ in_use' \in [Fds -> BOOLEAN]
      /\ node' \in [Fds -> {"NULL", "root", "file"}]
      /\ \A d \in Fds : in_use'[d] <=> node'[d] # "NULL"
      /\ offset' \in [Fds -> Nat]
      /\ \A d \in Fds : offset'[d] = 0 \/ offset'[d] = offset[d]
      /\ \A d \in Fds : node'[d] = node[d] \/ node'[d] = kind
  BY <1>1, AttachKeeps
<1>3. TypeOK'
  BY <1>1, <1>2 DEF TypeOK
<1>4. StoredWithin'
  <2>1. \A d \in Fds : offset'[d] =< MaxFileSize
    BY <1>2, VfsAssumption DEF IInv, StoredWithin
  <2> QED BY <1>1, <2>1 DEF IInv, StoredWithin
<1>5. InodesApart'
  <2>1. \A d \in Fds : node'[d] = "file" => \E i \in Files : used[i] /\ inode[i] = found'
    BY <1>2 DEF IInv, InodesApart
  <2> QED BY <1>1, <2>1 DEF IInv, InodesApart
<1>6. InodesGiven' /\ CountsUsed' /\ OverrunsWrap'
  BY <1>1 DEF IInv, InodesGiven, CountsUsed, Used, OverrunsWrap
<1> QED BY <1>3, <1>4, <1>5, <1>6 DEF IInv

\* A file vfs_open makes takes an unused slot and an inode no file has.
LEMMA CreateStep ==
  ASSUME IInv, NEW p \in Paths, NEW f \in FlagSets, OpenCreates(p, f)
  PROVE  IInv'
<1>1. PICK i \in Files : /\ FreeFile(i) /\ Created(i, p)
                         /\ found' = inode'[FindDir(used', name', CreatedName(p))]
                         /\ Attach("file") /\ UNCHANGED overrun
  BY DEF OpenCreates
<1>2. /\ used' = [used EXCEPT ![i] = TRUE]
      /\ name' = [name EXCEPT ![i] = CreatedName(p)]
      /\ inode' = [inode EXCEPT ![i] = inode_counter]
      /\ size' = [size EXCEPT ![i] = 0]
      /\ inode_counter' = inode_counter + 1
      /\ memfs_file_count' = memfs_file_count + 1
      /\ ~used[i]
  BY <1>1 DEF Created, NextInode, CountAfter, FreeFile
<1>3. TypeOK
  BY DEF IInv
<1>4. CreatedName(p) \in [slashes : Nat, name : Names]
  <2>1. p \in [slashes : Nat, name : Names] /\ Rest \in [Names -> Names]
    BY VfsAssumption
  <2>2. p.slashes # 0 => p.slashes - 1 \in Nat
    BY <2>1
  <2> QED BY <2>1, <2>2 DEF CreatedName
<1>5. \A j \in Files : used'[j] <=> used[j] \/ j = i
  BY <1>2, <1>3 DEF TypeOK
<1>6. /\ used' \in [Files -> BOOLEAN] /\ inode' \in [Files -> Nat]
      /\ inode'[i] = inode_counter /\ \A j \in Files : j # i => inode'[j] = inode[j]
  BY <1>2, <1>3 DEF TypeOK
<1>7. \E j \in Files : used'[j] /\ inode'[j] = found'
  <2>1. Matches(used', name', i, CreatedName(p))
    BY <1>2, <1>3, <1>5 DEF Matches, TypeOK
  <2>2. /\ FindDir(used', name', CreatedName(p)) \in Files
        /\ Matches(used', name', FindDir(used', name', CreatedName(p)), CreatedName(p))
    BY <2>1, FindDirFinds
  <2> QED BY <1>1, <2>2 DEF Matches
<1>8. /\ in_use' \in [Fds -> BOOLEAN]
      /\ node' \in [Fds -> {"NULL", "root", "file"}]
      /\ \A d \in Fds : in_use'[d] <=> node'[d] # "NULL"
      /\ offset' \in [Fds -> Nat]
      /\ \A d \in Fds : offset'[d] = 0 \/ offset'[d] = offset[d]
  BY <1>1, <1>3, AttachKeeps
<1>9. TypeOK'
  <2>1. name' \in [Files -> [slashes : Nat, name : Names]]
    BY <1>2, <1>3, <1>4 DEF TypeOK
  <2>2. /\ size' \in [Files -> Nat] /\ inode_counter' \in Nat
        /\ memfs_file_count' \in Nat /\ found' \in Nat
    BY <1>2, <1>3, <1>6, <1>7 DEF TypeOK
  <2> QED BY <1>1, <1>3, <1>6, <1>8, <2>1, <2>2 DEF TypeOK
<1>10. StoredWithin'
  <2>1. \A d \in Fds : offset'[d] =< MaxFileSize
    BY <1>8, VfsAssumption DEF IInv, StoredWithin
  <2>2. \A j \in Files : size'[j] =< MaxFileSize
    BY <1>2, <1>3, VfsAssumption DEF IInv, TypeOK, StoredWithin
  <2> QED BY <2>1, <2>2 DEF StoredWithin
<1>11. InodesApart'
  <2>1. \A j \in Files : used[j] => inode[j] # inode_counter
    BY <1>3 DEF IInv, InodesGiven, TypeOK
  <2>2. \A j, k \in Files : used'[j] /\ used'[k] /\ inode'[j] = inode'[k] => j = k
    BY <1>5, <1>6, <2>1 DEF IInv, InodesApart
  <2> QED BY <1>7, <2>2 DEF InodesApart
<1>12. InodesGiven'
  BY <1>2, <1>3, <1>5, <1>6 DEF IInv, InodesGiven, TypeOK
<1>13. CountsUsed'
  <2>1. Used' = Used \cup {i} /\ i \notin Used
    BY <1>2, <1>5 DEF Used
  <2>2. Cardinality(Used') = Cardinality(Used) + 1
    BY <2>1, FilesFinite, FS_AddElement DEF Used
  <2> QED BY <1>2, <2>2 DEF IInv, CountsUsed
<1>14. OverrunsWrap'
  BY <1>1 DEF IInv, OverrunsWrap
<1> QED BY <1>9, <1>10, <1>11, <1>12, <1>13, <1>14 DEF IInv

LEMMA InitIInv == Init => IInv
<1> SUFFICES ASSUME Init PROVE IInv
  OBVIOUS
<1>1. TypeOK
  <2>1. /\ Readme \in Names /\ Empty \in Names /\ ReadmeSize \in Nat
    BY VfsAssumption
  <2>2. name \in [Files -> [slashes : Nat, name : Names]]
    BY <2>1 DEF Init
  <2> QED BY <2>1, <2>2, VfsSets DEF Init, TypeOK
<1>2. StoredWithin
  BY VfsAssumption, VfsSets DEF Init, StoredWithin
<1>3. InodesApart /\ InodesGiven
  <2>1. \A i \in Files : used[i] <=> i = 0
    BY DEF Init
  <2>2. inode[0] = 1 /\ inode_counter = 2 /\ \A d \in Fds : node[d] = "NULL"
    BY VfsSets DEF Init
  <2> QED BY <2>1, <2>2 DEF InodesApart, InodesGiven
<1>4. CountsUsed
  <2>1. Used = {0}
    BY VfsSets DEF Init, Used
  <2> QED BY <2>1, FS_Singleton DEF Init, CountsUsed
<1>5. OverrunsWrap
  BY DEF Init, OverrunsWrap
<1> QED BY <1>1, <1>2, <1>3, <1>4, <1>5 DEF IInv

------------------------------------------------------------------------------
\* Every way sys_open can end keeps the invariant.
LEMMA OpenStep ==
  ASSUME IInv, NEW p \in Paths, NEW f \in FlagSets, SysOpen(p, f)
  PROVE  IInv'
<1>1. CASE OpenRoot(p)
  <2>1. Attach("root") /\ UNCHANGED <<memfs, found, overrun>>
    BY <1>1 DEF OpenRoot
  <2> QED BY <2>1, AttachedStep
<1>2. CASE OpenFound(p)
  <2>1. /\ found' = inode[Resolve(p)] /\ Attach("file") /\ UNCHANGED <<memfs, overrun>>
        /\ Resolve(p) \in Files /\ used[Resolve(p)]
    BY <1>2, ResolveFinds DEF OpenFound
  <2>2. found' \in Nat /\ \E i \in Files : used[i] /\ inode[i] = found'
    BY <2>1 DEF IInv, TypeOK
  <2> QED BY <2>1, <2>2, AttachedStep
<1>3. CASE OpenCreates(p, f)
  BY <1>3, CreateStep
<1>4. CASE OpenFails(p, f)
  BY <1>4, IdleStep DEF OpenFails
<1> QED BY <1>1, <1>2, <1>3, <1>4 DEF SysOpen

\* A read moves an offset towards the end of a file and not past it.
LEMMA ReadStep ==
  ASSUME IInv, NEW d \in Fds, NEW n \in Lengths, SysRead(d, n) PROVE IInv'
<1>1. PICK i \in Files : offset' = [offset EXCEPT ![d] = @ + BytesRead(i, offset[d], n)]
  BY DEF SysRead
<1>2. /\ UNCHANGED <<used, name, inode, size, inode_counter, memfs_file_count>>
      /\ UNCHANGED <<found, in_use, node, overrun>>
      /\ TypeOK /\ n \in Nat
  BY LengthNat DEF SysRead, memfs, IInv
<1>3. /\ offset[d] \in Nat /\ size[i] \in Nat
      /\ offset[d] =< MaxFileSize /\ size[i] =< MaxFileSize /\ MaxFileSize \in Nat
  BY <1>2, VfsAssumption DEF IInv, TypeOK, StoredWithin
<1>4. /\ BytesRead(i, offset[d], n) \in Nat
      /\ offset[d] + BytesRead(i, offset[d], n) =< MaxFileSize
  BY <1>2, <1>3 DEF BytesRead, Least
<1>5. /\ offset' \in [Fds -> Nat]
      /\ \A e \in Fds : offset'[e] =< MaxFileSize
  BY <1>1, <1>2, <1>3, <1>4 DEF IInv, TypeOK, StoredWithin
<1>6. TypeOK' /\ StoredWithin'
  BY <1>2, <1>5 DEF IInv, TypeOK, StoredWithin
<1>7. InodesApart' /\ InodesGiven' /\ CountsUsed' /\ OverrunsWrap'
  BY <1>2 DEF IInv, InodesApart, InodesGiven, CountsUsed, Used, OverrunsWrap
<1> QED BY <1>6, <1>7 DEF IInv

\* How many bytes memfs_write copies from offset off on, and where it leaves the
\* offset: past the storage only for a size that wraps.
LEMMA WriteFits ==
  ASSUME NEW off \in Nat, off =< MaxFileSize, NEW n \in Lengths
  PROVE  /\ BytesWritten(off, n) \in Nat
         /\ Plus(off, BytesWritten(off, n)) \in Nat
         /\ Plus(off, BytesWritten(off, n)) =< MaxFileSize
         /\ off + BytesWritten(off, n) > MaxFileSize => n + MaxFileSize >= Word
<1>1. n \in Nat /\ n < Word /\ Word \in Nat /\ MaxFileSize \in Nat /\ MaxFileSize < Word
  BY LengthNat, VfsAssumption
<1>2. CASE off + n < Word
  <2>1. CASE off + n > MaxFileSize
    <3>1. BytesWritten(off, n) = MaxFileSize - off
      BY <1>2, <2>1 DEF BytesWritten, Plus
    <3> QED BY <1>1, <3>1 DEF Plus
  <2>2. CASE ~(off + n > MaxFileSize)
    <3>1. BytesWritten(off, n) = n
      BY <1>2, <2>2 DEF BytesWritten, Plus
    <3> QED BY <1>1, <1>2, <2>2, <3>1 DEF Plus
  <2> QED BY <2>1, <2>2
<1>3. CASE ~(off + n < Word)
  <2>1. off + n - Word \in Nat /\ off + n - Word < off
    BY <1>1, <1>3
  <2>2. ~(off + n - Word > MaxFileSize)
    BY <1>1, <2>1
  <2>3. BytesWritten(off, n) = n
    BY <1>3, <2>2 DEF BytesWritten, Plus
  <2> QED BY <1>1, <1>3, <2>1, <2>2, <2>3 DEF Plus
<1> QED BY <1>2, <1>3

\* A write moves an offset, and the end of the file with it, by what fits: the
\* subtraction in memfs_write is of an offset within the file's storage.
LEMMA WriteStep ==
  ASSUME IInv, NEW d \in Fds, NEW n \in Lengths, SysWrite(d, n)
  PROVE  IInv' /\ \A j \in Files : size'[j] >= size[j]
<1> DEFINE count == BytesWritten(offset[d], n)
           end   == Plus(offset[d], count)
<1>1. PICK i \in Files : /\ size' = [size EXCEPT ![i] = SizeAfter(i, end)]
                         /\ offset' = [offset EXCEPT ![d] = end]
                         /\ overrun' = IF offset[d] + count > MaxFileSize
                                       THEN {n} ELSE {}
  BY DEF SysWrite
<1>2. /\ UNCHANGED <<used, name, inode, inode_counter, memfs_file_count>>
      /\ UNCHANGED <<found, in_use, node>>
      /\ TypeOK /\ n \in Nat
  BY LengthNat DEF SysWrite, IInv
<1>3. /\ offset[d] \in Nat /\ size[i] \in Nat
      /\ offset[d] =< MaxFileSize /\ size[i] =< MaxFileSize /\ MaxFileSize \in Nat
  BY <1>2, VfsAssumption DEF IInv, TypeOK, StoredWithin
<1>4. /\ end \in Nat /\ end =< MaxFileSize
      /\ offset[d] + count > MaxFileSize => n + MaxFileSize >= Word
  BY <1>3, WriteFits
<1> HIDE DEF count, end
<1>5. /\ SizeAfter(i, end) \in Nat
      /\ SizeAfter(i, end) >= size[i]
      /\ SizeAfter(i, end) =< MaxFileSize
  BY <1>3, <1>4 DEF SizeAfter
<1>6. /\ offset' \in [Fds -> Nat]
      /\ \A e \in Fds : offset'[e] =< MaxFileSize
  BY <1>1, <1>2, <1>3, <1>4 DEF IInv, TypeOK, StoredWithin
<1>7. /\ size' \in [Files -> Nat]
      /\ \A j \in Files : size'[j] =< MaxFileSize /\ size'[j] >= size[j]
  BY <1>1, <1>2, <1>3, <1>5 DEF IInv, TypeOK, StoredWithin
<1>8. overrun' \subseteq Lengths /\ OverrunsWrap'
  BY <1>1, <1>4 DEF OverrunsWrap
<1>9. TypeOK' /\ StoredWithin'
  BY <1>2, <1>6, <1>7, <1>8 DEF TypeOK, StoredWithin
<1>10. InodesApart' /\ InodesGiven' /\ CountsUsed'
  BY <1>2 DEF IInv, InodesApart, InodesGiven, CountsUsed, Used
<1> QED BY <1>7, <1>8, <1>9, <1>10 DEF IInv

LEMMA CloseStep == ASSUME IInv, NEW d \in Fds, SysClose(d) PROVE IInv'
<1>1. /\ UNCHANGED <<used, name, inode, size, inode_counter, memfs_file_count, found>>
      /\ in_use' = [in_use EXCEPT ![d] = FALSE]
      /\ node' = [node EXCEPT ![d] = "NULL"]
      /\ offset' = [offset EXCEPT ![d] = 0]
      /\ UNCHANGED overrun /\ TypeOK
  BY DEF SysClose, memfs, IInv
<1>2. TypeOK'
  BY <1>1 DEF TypeOK
<1>3. StoredWithin'
  BY <1>1, VfsAssumption DEF IInv, TypeOK, StoredWithin
<1>4. InodesApart'
  <2>1. \A e \in Fds : node'[e] = "file" => node[e] = "file"
    BY <1>1 DEF TypeOK
  <2> QED BY <1>1, <2>1 DEF IInv, InodesApart
<1>5. InodesGiven' /\ CountsUsed' /\ OverrunsWrap'
  BY <1>1 DEF IInv, InodesGiven, CountsUsed, Used, OverrunsWrap
<1> QED BY <1>2, <1>3, <1>4, <1>5 DEF IInv

LEMMA LoadStep == ASSUME IInv, NEW p \in Paths, LoadElf(p) PROVE IInv'
<1>1. /\ UNCHANGED <<used, name, inode, size, inode_counter, memfs_file_count>>
      /\ UNCHANGED <<in_use, node, offset, overrun>>
      /\ found' = inode[Resolve(p)]
      /\ Resolve(p) \in Files /\ used[Resolve(p)]
      /\ TypeOK
  BY ResolveFinds DEF LoadElf, memfs, fds, IInv
<1>2. /\ TypeOK' /\ StoredWithin' /\ InodesGiven' /\ CountsUsed'
      /\ OverrunsWrap'
  BY <1>1 DEF IInv, TypeOK, StoredWithin, InodesGiven, CountsUsed, Used, OverrunsWrap
<1>3. InodesApart'
  BY <1>1 DEF IInv, InodesApart
<1> QED BY <1>2, <1>3 DEF IInv

LEMMA NextIInv == ASSUME IInv, [Next]_vars PROVE IInv'
<1>1. ASSUME NEW p \in Paths, NEW f \in FlagSets, SysOpen(p, f) PROVE IInv'
  BY <1>1, OpenStep
<1>2. ASSUME NEW d \in Fds, NEW n \in Lengths, SysRead(d, n) PROVE IInv'
  BY <1>2, ReadStep
<1>3. ASSUME NEW d \in Fds, NEW n \in Lengths, SysWrite(d, n) PROVE IInv'
  BY <1>3, WriteStep
<1>4. ASSUME NEW d \in Fds, SysClose(d) PROVE IInv'
  BY <1>4, CloseStep
<1>5. ASSUME NEW p \in Paths, LoadElf(p) PROVE IInv'
  BY <1>5, LoadStep
<1>6. CASE UNCHANGED vars
  BY <1>6, IdleStep
<1> QED BY <1>1, <1>2, <1>3, <1>4, <1>5, <1>6 DEF Next, SystemCall

------------------------------------------------------------------------------
\* The inductive invariant holds in every state of the file system.
THEOREM VfsInvariant == Spec => []IInv
<1>1. Init => IInv
  BY InitIInv
<1>2. IInv /\ [Next]_vars => IInv'
  BY NextIInv
<1> QED BY <1>1, <1>2, PTL DEF Spec

\* The tables of memfs and of the descriptors keep their types, and a
\* descriptor in use has a node for vfs_read and vfs_write to follow.
THEOREM VfsTypeCorrect == Spec => []TypeOK
BY VfsInvariant, PTL DEF IInv

\* However reads, writes and opens follow each other, no offset and no size
\* passes the data array of a file, and no copy does unless the size asked for
\* is within MEMFS_MAX_FILESIZE of 2^32.
THEOREM VfsDescriptorsWithinFile == Spec => []DescriptorsWithinFile
<1>1. IInv => DescriptorsWithinFile
  BY DEF IInv, StoredWithin, OverrunsWrap, DescriptorsWithinFile
<1> QED BY <1>1, VfsInvariant, PTL

\* Inodes tell files apart, and the node all descriptors share is one's.
THEOREM VfsInodesUnique == Spec => []InodesUnique
<1>1. IInv => InodesUnique
  BY DEF IInv, InodesApart, InodesUnique
<1> QED BY <1>1, VfsInvariant, PTL

\* What no step does to a file: remove it, give it another inode, shorten it.
LEMMA FileKept ==
  ASSUME IInv, [Next]_vars, NEW i \in Files, used[i]
  PROVE  used'[i] /\ inode'[i] = inode[i] /\ size'[i] >= size[i]
<1>1. TypeOK /\ size[i] \in Nat
  BY DEF IInv, TypeOK
<1>2. CASE UNCHANGED memfs
  BY <1>1, <1>2 DEF memfs
<1>3. ASSUME NEW p \in Paths, NEW f \in FlagSets, SysOpen(p, f), ~UNCHANGED memfs
      PROVE  used'[i] /\ inode'[i] = inode[i] /\ size'[i] >= size[i]
  <2>1. OpenCreates(p, f)
    BY <1>3 DEF SysOpen, OpenRoot, OpenFound, OpenFails, vars, memfs
  <2>2. PICK k \in Files : FreeFile(k) /\ Created(k, p)
    BY <2>1 DEF OpenCreates
  <2>3. k # i
    BY <2>2 DEF FreeFile
  <2> QED BY <1>1, <2>2, <2>3 DEF Created, TypeOK
<1>4. ASSUME NEW d \in Fds, NEW n \in Lengths, SysWrite(d, n)
      PROVE  used'[i] /\ inode'[i] = inode[i] /\ size'[i] >= size[i]
  BY <1>4, WriteStep DEF SysWrite
<1> QED
  BY <1>2, <1>3, <1>4 DEF Next, SystemCall, SysRead, SysClose, LoadElf, vars

\* A file stays the file it is and keeps its bytes, whatever is written.
THEOREM VfsNoWriteShrinks == Spec => NoWriteShrinks
<1>1. IInv /\ [Next]_vars => FilesKept
  BY FileKept DEF FilesKept
<1> QED BY <1>1, VfsInvariant, PTL DEF Spec, NoWriteShrinks

------------------------------------------------------------------------------
(* How many files lie before slot i: the index memfs_readdir finds it under.*)
Before(i) == {j \in Files : j < i /\ used[j]}
Rank(i)   == Cardinality(Before(i))

LEMMA RankType ==
  \A i \in Files : Rank(i) \in Nat /\ Rank(i) =< i /\ Rank(i) \in Files
<1> SUFFICES ASSUME NEW i \in Files
             PROVE  Rank(i) \in Nat /\ Rank(i) =< i /\ Rank(i) \in Files
  OBVIOUS
<1>1. i \in Nat /\ i < MaxFiles /\ MaxFiles \in Nat
  BY VfsSets, VfsAssumption
<1>2. Before(i) \subseteq 0 .. i - 1
  <2> SUFFICES ASSUME NEW j \in Before(i) PROVE j \in 0 .. i - 1
    OBVIOUS
  <2>1. j \in Nat /\ j < i
    BY VfsSets DEF Before
  <2> QED BY <1>1, <2>1
<1>3. IsFiniteSet(0 .. i - 1) /\ Cardinality(0 .. i - 1) = i
  BY <1>1, FS_Interval
<1>4. IsFiniteSet(Before(i)) /\ Cardinality(Before(i)) =< i
  BY <1>2, <1>3, FS_Subset
<1>5. Rank(i) \in Nat
  BY <1>4, FS_CardinalityType DEF Rank
<1> QED BY <1>1, <1>4, <1>5 DEF Rank, Files

\* A later file has a higher index.
LEMMA RankGrows ==
  ASSUME NEW i \in Used, NEW j \in Files, i < j
  PROVE  Rank(i) < Rank(j)
<1>1. i \in Nat /\ j \in Nat
  BY VfsSets DEF Used
<1>2. Before(i) \cup {i} \subseteq Before(j) /\ i \notin Before(i)
  <2>1. ~(i < i) /\ i \in Files /\ used[i]
    BY <1>1 DEF Used
  <2>2. \A k \in Before(i) : k < j
    <3> SUFFICES ASSUME NEW k \in Before(i) PROVE k < j
      OBVIOUS
    <3>1. k \in Nat /\ k < i
      BY VfsSets DEF Before
    <3> QED BY <1>1, <3>1
  <2> QED BY <2>1, <2>2 DEF Before
<1>3. IsFiniteSet(Before(i)) /\ IsFiniteSet(Before(j))
  BY FilesFinite DEF Before
<1>4. Cardinality(Before(i) \cup {i}) = Cardinality(Before(i)) + 1
  BY <1>2, <1>3, FS_AddElement
<1>5. Cardinality(Before(i) \cup {i}) =< Cardinality(Before(j))
  BY <1>2, <1>3, FS_Subset
<1> QED BY <1>3, <1>4, <1>5, FS_CardinalityType DEF Rank

LEMMA RankUnique ==
  ASSUME NEW i \in Used, NEW j \in Used, Rank(i) = Rank(j) PROVE i = j
<1>1. i \in Nat /\ j \in Nat /\ i \in Files /\ j \in Files
  BY VfsSets DEF Used
<1>2. Rank(i) \in Nat /\ Rank(j) \in Nat
  BY <1>1, RankType
<1>3. ~(i < j) /\ ~(j < i)
  BY <1>1, <1>2, RankGrows
<1> QED BY <1>1, <1>3

\* The indices below that of a file are all taken: those of the files up to it
\* differ, and there are as many of them as there are indices.
LEMMA RanksBelow ==
  ASSUME NEW i \in Used, NEW l \in 0 .. Rank(i)
  PROVE  \E j \in Used : Rank(j) = l
<1> DEFINE D == Before(i) \cup {i}
           f == [j \in D |-> Rank(j)]
<1>1. i \in Files /\ i \in Nat /\ Rank(i) \in Nat
  BY RankType, VfsSets DEF Used
<1>2. D \subseteq Used /\ i \notin Before(i) /\ IsFiniteSet(Before(i)) /\ IsFiniteSet(D)
  BY <1>1, FilesFinite DEF Before, Used
<1>3. Cardinality(D) = Rank(i) + 1
  BY <1>2, FS_AddElement DEF Rank
<1>4. IsFiniteSet(0 .. Rank(i)) /\ Cardinality(0 .. Rank(i)) = Rank(i) + 1
  BY <1>1, FS_Interval
<1>5. \A j \in D : Rank(j) \in 0 .. Rank(i)
  <2> SUFFICES ASSUME NEW j \in Before(i) PROVE Rank(j) \in 0 .. Rank(i)
    BY <1>1
  <2>1. j \in Used /\ j \in Files /\ j < i
    BY DEF Before, Used
  <2>2. Rank(j) < Rank(i) /\ Rank(j) \in Nat
    BY <1>1, <2>1, RankGrows, RankType
  <2> QED BY <1>1, <2>2
<1>6. f \in Injection(D, 0 .. Rank(i))
  <2>1. f \in [D -> 0 .. Rank(i)]
    BY <1>5
  <2>2. \A a, b \in D : f[a] = f[b] => a = b
    BY <1>2, RankUnique
  <2> HIDE DEF D, f
  <2> QED BY <2>1, <2>2 DEF Injection, IsInjective
<1>7. f \in Surjection(D, 0 .. Rank(i))
  <2> HIDE DEF D, f
  <2> QED BY <1>3, <1>4, <1>6, FS_Injection
<1>8. \E j \in D : f[j] = l
  <2> HIDE DEF D, f
  <2> QED BY <1>7 DEF Surjection
<1> QED BY <1>2, <1>8

\* What memfs_readdir returns for an index: the file of that rank.
LEMMA ReadDirOfRank ==
  ASSUME NEW i \in Used PROVE ReadDir(Rank(i)) = i
<1>1. i \in Files /\ used[i]
  BY DEF Used
<1>2. \A j \in Files : used[j] /\ Cardinality({k \in Files : k < j /\ used[k]}) = Rank(i) => j = i
  BY RankUnique DEF Rank, Before, Used
<1>3. Cardinality({k \in Files : k < i /\ used[k]}) = Rank(i)
  BY DEF Rank, Before
<1> QED BY <1>1, <1>2, <1>3 DEF ReadDir

LEMMA ReadDirFinds ==
  ASSUME NEW k, ReadDir(k) # None
  PROVE  ReadDir(k) \in Used /\ Rank(ReadDir(k)) = k
<1> DEFINE At(i) == used[i] /\ Cardinality({j \in Files : j < i /\ used[j]}) = k
<1>1. \E i \in Files : At(i)
  BY DEF ReadDir
<1>2. ReadDir(k) = CHOOSE i \in Files : At(i)
  BY <1>1 DEF ReadDir
<1>3. ReadDir(k) \in Files /\ At(ReadDir(k))
  <2> HIDE DEF At
  <2> QED BY <1>1, <1>2
<1> QED BY <1>3 DEF Used, Rank, Before

\* Listed holds the indices of the files, each once.
LEMMA ListedRanks ==
  /\ Listed = {Rank(i) : i \in Used}
  /\ {ReadDir(k) : k \in Listed} = Used
  /\ IsFiniteSet(Listed) /\ Cardinality(Listed) = Cardinality(Used)
<1>0. Used \subseteq Files /\ None \notin Used
  BY VfsSets DEF Used
<1>1. ASSUME NEW k \in Listed PROVE ReadDir(k) \in Used /\ Rank(ReadDir(k)) = k
  <2>1. k \in Nat
    BY VfsSets DEF Listed
  <2>2. k \in 0 .. k
    BY <2>1
  <2> QED BY <2>2, ReadDirFinds DEF Listed
<1>2. ASSUME NEW i \in Used PROVE Rank(i) \in Listed
  <2>1. Rank(i) \in Files
    BY <1>0, RankType
  <2>2. ASSUME NEW l \in 0 .. Rank(i) PROVE ReadDir(l) # None
    <3>1. PICK j \in Used : Rank(j) = l
      BY RanksBelow
    <3> QED BY <1>0, <3>1, ReadDirOfRank
  <2> QED BY <2>1, <2>2 DEF Listed
<1>3. Listed = {Rank(i) : i \in Used}
  BY <1>1, <1>2
<1>4. {ReadDir(k) : k \in Listed} = Used
  BY <1>1, <1>2, ReadDirOfRank
<1>5. [i \in Used |-> Rank(i)] \in Bijection(Used, Listed)
  <2> DEFINE f == [i \in Used |-> Rank(i)]
  <2>1. f \in [Used -> Listed]
    BY <1>2
  <2>2. \A a, b \in Used : f[a] = f[b] => a = b
    BY RankUnique
  <2>3. \A k \in Listed : \E i \in Used : f[i] = k
    BY <1>1
  <2> HIDE DEF f
  <2>4. f \in Injection(Used, Listed) /\ f \in Surjection(Used, Listed)
    BY <2>1, <2>2, <2>3 DEF Injection, IsInjective, Surjection
  <2> QED BY <2>4 DEF Bijection, f
<1>6. IsFiniteSet(Used)
  BY <1>0, FilesFinite
<1> QED BY <1>3, <1>4, <1>5, <1>6, FS_Bijection DEF ExistsBijection

\* The directory vfs_list prints is the directory: the files in order, each
\* beside its own size, and as many as vfs_open has counted.
LEMMA ListingFollows == IInv => ListingComplete
<1> SUFFICES ASSUME IInv PROVE ListingComplete
  OBVIOUS
<1>1. {ReadDir(k) : k \in Listed} = {i \in Files : used[i]}
  BY ListedRanks DEF Used
<1>2. ASSUME NEW k \in Listed PROVE SizeListed(k) = size[ReadDir(k)]
  <2> DEFINE r == ReadDir(k)
             Has(i) == used[i] /\ inode[i] = inode[r]
  <2>1. r \in Files /\ used[r]
    BY <1>1
  <2>2. \A i \in Files : Has(i) <=> i = r
    BY <2>1 DEF IInv, InodesApart
  <2>3. (CHOOSE i \in Files : Has(i) /\ \A j \in Files : j < i => ~Has(j)) = r
    <3>1. ~(r < r)
      <4>1. r \in Nat
        BY <2>1, VfsSets
      <4> QED BY <4>1
    <3> HIDE DEF r, Has
    <3> QED BY <2>1, <2>2, <3>1
  <2> QED BY <2>3 DEF SizeListed
<1>3. memfs_file_count = Cardinality(Listed)
  BY ListedRanks DEF IInv, CountsUsed
<1> QED BY <1>1, <1>2, <1>3 DEF ListingComplete

\* The listing reaches every file by its index and counts them right, whatever was
\* created before (vfs_readdir and vfs_get_file_count).
THEOREM VfsListingComplete == Spec => []ListingComplete
BY VfsInvariant, ListingFollows, PTL
==============================================================================
