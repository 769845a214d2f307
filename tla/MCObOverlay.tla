----------------------------- MODULE MCObOverlay -----------------------------
(***************************************************************************)
(* A small instance of ObOverlay: two layers, which may stand on each      *)
(* other in every way, a number of layers that wraps at three, and three   *)
(* configurations; and the lines of an fstab that ColumnsFound and         *)
(* RootEntryRewritten are checked on.                                      *)
(***************************************************************************)
EXTENDS ObOverlay

MCLayer == {"a", "b"}
MCText == {"original", "mine"}

\* A persistent upper layer; a tmpfs with the persistent upper layer below it; an
\* upper layer that is cleared, on the root file system alone.
MCConfig ==
  {[head |-> "a", useTmpfs |-> FALSE, upperAsLower |-> FALSE, clearUpper |-> FALSE],
   [head |-> "a", useTmpfs |-> TRUE, upperAsLower |-> TRUE, clearUpper |-> FALSE],
   [head |-> "root", useTmpfs |-> FALSE, upperAsLower |-> FALSE, clearUpper |-> TRUE]}

------------------------------------------------------------------------------
\* Lines of up to five characters, with and without a newline, and lines of four
\* words; and what earlier lines may have left in the memory behind them.
LongerLines(lines) == lines \cup {Append(l, c) : l \in lines, c \in {"x", "/", " "}}
ShortLines == LongerLines(LongerLines(LongerLines(LongerLines(LongerLines({<<>>})))))
Words == {<<"x">>, <<"x", "x">>, <<"/", "x">>}
LineOf(device, mountPoint, options) ==
  device \o <<" ">> \o mountPoint \o <<" ", "t", " ">> \o Append(options, "\n")
MCLines ==
  ShortLines \cup {Append(l, "\n") : l \in ShortLines}
    \cup {LineOf(d, m, o) : d, o \in Words, m \in Words \cup {<<"/">>}}
MCLeftovers == {l \o <<NUL, " ">> : l \in {<<" ">>, <<"x", "\n">>, <<"x", " ", "/", "\n">>,
                                           <<" ", "/", " ", "x", "\n">>}}
MCMtabEntries ==
  {[source |-> <<"o", "v", "e", "r", "l", "a", "y">>, mountPoint |-> m,
    rest |-> <<"o", " ", "r", "w", " ", "0", " ", "0", "\n">>] : m \in {<<"/", "x">>, <<"x">>}}
==============================================================================
