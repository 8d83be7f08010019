------------------------------ MODULE MCConsole ------------------------------
(* Instances of Shell, and of Console under it, for TLC.                      *)
EXTENDS Shell

MCChars == {"a", "/", Blank} \cup Controls

\* One letter with its shift, the keys of the line editor, and a key without a
\* character.
MCKeys == {"a", "space", "enter", "back", "tab", "f1"}

MCPlain ==
  [k \in MCKeys |-> CASE k = "a" -> "a" [] k = "space" -> Blank [] k = "enter" -> "newline"
                      [] k = "back" -> "backspace" [] k = "tab" -> "tab" [] OTHER -> "none"]
MCShifted == [MCPlain EXCEPT !["a"] = "/"]

MCOutputs == {"/"} \cup Controls
==============================================================================
