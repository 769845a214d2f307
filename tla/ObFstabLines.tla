----------------------------- MODULE ObFstabLines -----------------------------
(***************************************************************************)
(* How the fstab is rewritten line by line (lib/src/ObFstab.c): a column   *)
(* is looked for in the memory that getline() has filled, and the line of  *)
(* the root file system is replaced by the entry of the mtab.              *)
(*                                                                         *)
(* A line is a sequence of characters; what follows its terminating NUL in *)
(* the memory is what the lines before it have left there.                 *)
(***************************************************************************)
EXTENDS Integers, Sequences, SequencesExt, FiniteSetsExt

\* A character is a string, and the NUL one of its own.
Char    == STRING
NUL     == "NUL"
Space   == " "
Newline == "\n"
Slash   == "/"
\* The byte 255, which is EOF where char is signed, is in no text.
IsWhiteChar(c) == c \in {Space, "\t", Newline}

\* The character at an offset, and where the white characters from there on, or
\* the others, end.
At0(memory, pos) == memory[pos + 1]
SkipWhite(memory, pos) ==
  Min({p \in pos..(Len(memory) - 1) : ~IsWhiteChar(At0(memory, p))})
SkipWord(memory, pos) ==
  Min({p \in pos..(Len(memory) - 1) : IsWhiteChar(At0(memory, p))})

\* One round of the loop: a step that finds no white characters is at the start
\* of a word that was counted in the round before.
Round(memory, at) ==
  LET start == SkipWhite(memory, at.pos)
  IN  IF at.initPos = start
        THEN LET end == SkipWord(memory, start) IN [at EXCEPT !.pos = end, !.initPos = end]
        ELSE [pos |-> start, initPos |-> start, column |-> at.column + 1]

\* Mutant of FindColumn: the end of the line is not looked at.
MutFindColumn(memory, size, n) ==
  LET find[i \in 0..(2 * Len(memory))] ==
        IF i = 0 THEN [pos |-> 0, initPos |-> -1, column |-> -1]
        ELSE IF find[i - 1].column < n THEN Round(memory, find[i - 1]) ELSE find[i - 1]
  IN  find[2 * n + 1].pos

\* The loop over `size' characters.
FindColumn(memory, size, n) ==
  LET find[i \in 0..(2 * Len(memory))] ==
        IF i = 0 THEN [pos |-> 0, initPos |-> -1, column |-> -1]
        ELSE IF find[i - 1].pos < size /\ find[i - 1].column < n
               THEN Round(memory, find[i - 1]) ELSE find[i - 1]
  IN  find[2 * n + 2].pos

\* The string that is found at an offset: it ends at the first NUL.
StringAt(memory, pos) ==
  LET copied == SubSeq(memory, pos + 1, SkipWord(memory, pos))
  IN  SubSeq(copied, 1, Min({i \in 0..Len(copied) : i = Len(copied) \/ copied[i + 1] = NUL}))

GetNthColumn(memory, size, n) ==
  LET pos == FindColumn(memory, size, n)
  IN  [pos |-> pos, column |-> StringAt(memory, pos)]

\* Mutant of RootEntry: what is skipped is the slash that was written.
MutRootEntry(entry, read) ==
  LET found == GetNthColumn(entry, read, 1)
  IN  SubSeq(entry, 1, found.pos) \o <<Slash>> \o SubSeq(entry, found.pos + 2, Len(entry) - 1)

\* The mtab entry with the mount point replaced.  It is searched with the
\* length of the line of the fstab.
RootEntry(entry, read) ==
  LET found == GetNthColumn(entry, read, 1)
  IN  SubSeq(entry, 1, found.pos) \o <<Slash>>
      \o SubSeq(entry, found.pos + Len(found.column) + 1, Len(entry) - 1)

\* One line of rewriteFstab; what was in the memory behind it is `stale'.
RewriteLine(line, stale, entry) ==
  LET memory == Append(line, NUL) \o stale
  IN  IF GetNthColumn(memory, Len(line), 1).column = <<Slash>>
        THEN RootEntry(Append(entry, NUL), Len(line)) ELSE line

------------------------------------------------------------------------------
\* The columns of a line as fstab(5) has them are the words between white space;
\* here, where they start, and where those behind the first start.
WordStarts(line) ==
  {i \in DOMAIN line : ~IsWhiteChar(line[i]) /\ (i = 1 \/ IsWhiteChar(line[i - 1]))}
LaterStarts(line) == {i \in WordStarts(line) : \E j \in WordStarts(line) : j < i}
WordAt(line, i) ==
  SubSeq(line, i, Min({j \in i..Len(line) : j = Len(line) \/ IsWhiteChar(line[j + 1])}))
SecondColumn(line) ==
  IF LaterStarts(line) = {} THEN <<>> ELSE WordAt(line, Min(LaterStarts(line)))

\* Lines of an fstab, and what earlier lines may have left in the memory behind
\* them; the entries of the mtab that an overlay has, by what stands before the
\* mount point, the mount point, and what stands behind it.
CONSTANTS Lines, Leftovers, MtabEntries

IsText(s)   == s \in Seq(Char) /\ \A i \in DOMAIN s : s[i] # NUL
HasWhite(s) == \E i \in DOMAIN s : IsWhiteChar(s[i])
IsWord(s)   == IsText(s) /\ s # <<>> /\ ~HasWhite(s)

\* The source of an overlay is the word "overlay" (ObMount.c:247).
OverlayLength == 7

\* A string ends at its NUL; the memory has white space behind it, where every
\* search ends; an entry of the mtab has words with a blank between them.
ASSUME LinesAssumption ==
  /\ \A line \in Lines : IsText(line)
  /\ \A stale \in Leftovers : stale \in Seq(Char) /\ HasWhite(stale)
  /\ \A e \in MtabEntries : /\ IsWord(e.source) /\ IsWord(e.mountPoint) /\ IsText(e.rest)
                            /\ Len(e.source) <= OverlayLength
  /\ {Space, Slash, Newline, NUL} \subseteq Char

EntryOn(e, mountPoint) ==
  Append(Append(e.source, Space) \o mountPoint, Space) \o e.rest

\* A line has the four columns that fstab(5) demands, and its end.
IsComplete(line) ==
  /\ \E a, b, c, d \in WordStarts(line) : a < b /\ b < c /\ c < d
  /\ line[Len(line)] = Newline

\* The search finds the second column of every line, and nothing in a line that
\* has none.
FindsColumns ==
  \A line \in Lines, stale \in Leftovers :
    GetNthColumn(Append(line, NUL) \o stale, Len(line), 1).column = SecondColumn(line)

\* The line of the root becomes the entry on the root; the others stay.
RewritesRoot ==
  \A line \in Lines, stale \in Leftovers, e \in MtabEntries :
    LET written == RewriteLine(line, stale, EntryOn(e, e.mountPoint))
    IN  IF SecondColumn(line) # <<Slash>> THEN written = line
        ELSE IsComplete(line) => written = EntryOn(e, <<Slash>>)
==============================================================================
