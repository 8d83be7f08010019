-------------------------------- MODULE MCVfsHistory --------------------------------
(* Instances of VfsHistory for TLC.                                                  *)
EXTENDS VfsHistory

\* Three names, one the tail of another, and the empty one.
MCNames == {"readme", "ab", "b", ""}
MCRest  == [n \in MCNames |-> IF n = "ab" THEN "b" ELSE ""]

Path(s, n) == [slashes |-> s, name |-> n]

\* A file that is there, a new one, the same with a slash too many, a path
\* whose tail is the name of the new one, and the root.
MCPaths == {Path(1, "readme"), Path(1, "b"), Path(2, "b"), Path(0, "ab"), Path(1, "")}

MCFlagSets == {{}, {"CREATE"}}

MCLengths == {2, 3}
==============================================================================
