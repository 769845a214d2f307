-------------------------------- MODULE ObYaml --------------------------------
(***************************************************************************)
(* The switch of obParseYamlFile (lib/src/ObYamlParser.c).  It does not    *)
(* use the parser of libyaml but its scanner: it keeps the path of the     *)
(* keys that lead to the current token and pops one of them at each value  *)
(* and at each end of a block.                                             *)
(*                                                                         *)
(* The path is a string in the code, in which every key has a dot before   *)
(* it and is popped up to the last dot; for keys without dots it is the    *)
(* sequence of the keys.                                                   *)
(***************************************************************************)
EXTENDS Integers, Sequences, SequencesExt

Token(type) == [type |-> type]
ScalarToken(v) == [type |-> "SCALAR", value |-> v]

\* What the callbacks are called with.
ValueCall(path, v) == [call |-> "value", path |-> path, value |-> v]
EntryCall(path) == [call |-> "entry", path |-> path]

PushKey(path, key) == Append(path, key)

PopKey(path) == IF path = <<>> THEN path ELSE Front(path)

NewParser(calls) == [path |-> <<>>, isKey |-> FALSE, calls |-> calls]

\* Mutant of Step: the end of a block pops nothing.
MutStep(m, token) ==
  CASE token.type = "KEY" -> [m EXCEPT !.isKey = TRUE]
    [] token.type = "VALUE" -> [m EXCEPT !.isKey = FALSE]
    [] token.type = "BLOCK_ENTRY" ->
         [m EXCEPT !.calls = Append(@, EntryCall(m.path)), !.path = PushKey(@, "")]
    [] token.type = "SCALAR" /\ m.isKey ->
         [m EXCEPT !.path = PushKey(@, token.value), !.isKey = FALSE]
    [] token.type = "SCALAR" /\ ~m.isKey ->
         [m EXCEPT !.calls = Append(@, ValueCall(m.path, token.value)), !.path = PopKey(@)]
    [] OTHER -> m

\* The switch in the scanner loop.
Step(m, token) ==
  CASE token.type = "KEY" -> [m EXCEPT !.isKey = TRUE]
    [] token.type = "VALUE" -> [m EXCEPT !.isKey = FALSE]
    [] token.type = "BLOCK_ENTRY" ->
         [m EXCEPT !.calls = Append(@, EntryCall(m.path)), !.path = PushKey(@, "")]
    [] token.type = "BLOCK_END" -> [m EXCEPT !.path = PopKey(@)]
    [] token.type = "SCALAR" /\ m.isKey ->
         [m EXCEPT !.path = PushKey(@, token.value), !.isKey = FALSE]
    [] token.type = "SCALAR" /\ ~m.isKey ->
         [m EXCEPT !.calls = Append(@, ValueCall(m.path, token.value)), !.path = PopKey(@)]
    [] OTHER -> m
==============================================================================
