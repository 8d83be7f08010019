--------------------------------- MODULE Shell ---------------------------------
(****************************************************************************)
(* shell_execute of core/shell/shell.c, up to the handler it calls, on the  *)
(* line kb_readline returns.  parse_args cuts the line in place: argv are   *)
(* positions in the buffer, and an argument goes from its position to the   *)
(* next NUL.  What the handlers print is Prints of Console; the program     *)
(* that run starts is in Exec.                                              *)
(****************************************************************************)
EXTENDS Console, SequencesExt

CONSTANTS MaxArgs,   \* SHELL_MAX_ARGS, 16 in the code
          Slash,
          Nul        \* no character that is typed

ASSUME ShellAssumption == MaxArgs \in Nat /\ Nul \notin Chars

(* The first place from p on of a character in stops, or the end.           *)
Upto(buf, p, stops) ==
  LET found == {q \in p .. Len(buf) : buf[q] \in stops}
  IN  IF found = {} THEN Len(buf) + 1 ELSE Min(found)

SkipSpaces(buf, p) == Upto(buf, p, (Chars \cup {Nul}) \ {Blank})

(* Where the word at p ends: at a space, a NUL or the end.                  *)
WordEnd(buf, p) == Upto(buf, p, {Blank, Nul})

\* Mutant: the word is not ended in the buffer.
Cut_Not(buf, p) == buf

Cut(buf, p) == IF p > Len(buf) THEN buf ELSE [buf EXCEPT ![p] = Nul]

(* One round of the loop of parse_args.                                     *)
NextArg(s) ==
  LET from == SkipSpaces(s.buf, s.p)
      to   == WordEnd(s.buf, from)
  IN  IF from > Len(s.buf) THEN [s EXCEPT !.p = from]
      ELSE [buf |-> Cut(s.buf, to), p |-> Min({to, Len(s.buf)}) + 1,
            argv |-> Append(s.argv, from)]

(* parse_args from place p, for max_args rounds at most.                    *)
ParseArgs(l, p, max_args) ==
  LET after[n \in 0 .. max_args] ==
        IF n = 0 THEN [buf |-> l, p |-> p, argv |-> <<>>] ELSE NextArg(after[n - 1])
  IN  after[max_args]

(* What the handlers find at argv[k]: the string up to the next NUL.        *)
Arg(s, k) == SubSeq(s.buf, s.argv[k], Upto(s.buf, s.argv[k], {Nul}) - 1)

(* shell_execute: spaces at the head are skipped first.                     *)
ShellArgs(l, max_args) ==
  LET s == ParseArgs(l, SkipSpaces(l, 1), max_args) IN [k \in 1 .. Len(s.argv) |-> Arg(s, k)]

(* The path cmd_run gives to exec_program.                                  *)
RunPath(arg) == IF Head(arg) = Slash THEN arg ELSE <<Slash>> \o arg

------------------------------------------------------------------------------
(* The words of a line, by its spaces alone.                                *)
WordStarts(l) == {i \in 1 .. Len(l) : l[i] # Blank /\ (i = 1 \/ l[i - 1] = Blank)}

(* The characters from i to j are a word.                                   *)
IsWord(l, i, j) ==
  /\ i \in WordStarts(l) /\ j \in i .. Len(l)
  /\ \A q \in i .. j : l[q] # Blank
  /\ j = Len(l) \/ l[j + 1] = Blank

(* An argument is the word with so many before it.                          *)
IsWordAfter(l, n, arg) ==
  \E i, j \in 1 .. Len(l) :
    /\ IsWord(l, i, j)
    /\ Cardinality({h \in WordStarts(l) : h < i}) = n
    /\ arg = SubSeq(l, i, j)

\* ArgsAreWords: whatever is typed and erased, a handler gets the words of the line
\* in order, each whole and none longer, as many as there are or argv has room
\* for, although parse_args writes into the line it is reading.
ArgsAreWords ==
  \A m \in 1 .. MaxArgs :
    LET args == ShellArgs(line, m)
    IN  /\ Len(args) = Min({m, Cardinality(WordStarts(line))})
        /\ \A k \in DOMAIN args : IsWordAfter(line, k - 1, args[k])
        /\ \A k \in DOMAIN args : RunPath(args[k])[1] = Slash
==============================================================================
