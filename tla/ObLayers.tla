------------------------------- MODULE ObLayers -------------------------------
(***************************************************************************)
(* The layers of a repository and obCollectLayers                          *)
(* (lib/src/ObLayerCollector.c, lib/src/ObYamlLayerReader.c), which goes   *)
(* from the head down to the root file system, or to a layer that stands   *)
(* on nothing, and obMountOverlay (lib/src/ObMount.c), which gets the      *)
(* layers in an array.                                                     *)
(*                                                                         *)
(* The collector is a recursion.  One action is one of its calls; `cursor' *)
(* is the layer the next call is made for.  The repository may hold any    *)
(* graph of layers: the documentation tells the user to delete and to copy *)
(* layers by hand.                                                         *)
(***************************************************************************)
EXTENDS Integers, Sequences, FiniteSets

CONSTANTS
  Layer,       \* names of layers, in the file system without .obld
  CountMod,    \* what the uint8_t that counts the layers wraps at: 256
  StackDepth,  \* how many calls of obCollectLayers the stack has room for
  Faults       \* what may go wrong: see the uses of Fault

Root == "root"       \* OB_UNDERLAYER_ROOT
NoName == ""         \* no name at all, which stands for the root, too
End  == "none"       \* OB_UNDERLAYER_NONE
Absent == "absent"   \* there is no directory of the name
Bare == "bare"       \* there is no layer.yaml in the directory
Upper == "upper"     \* the directory of the persistent upper layer
Ram == "ram"         \* the upper layer on the tmpfs
Done == "done"       \* the recursion has come to its end

ASSUME LayersAssumption ==
  /\ Layer \cap {Root, NoName, End, Absent, Bare, Upper, Ram, Done} = {}
  /\ CountMod \in Nat \ {0, 1}
  /\ StackDepth \in Nat

VARIABLES
  layer,    \* the underlayer of each layer, or Absent or Bare
  pc,       \* where obinit is: see module ObOverlay
  cfg,      \* the configuration that was loaded
  cursor,   \* the layer that is collected next
  chain,    \* the list of layers, the head first
  lower,    \* what is mounted below the upper layer, the topmost first
  error     \* obErrorOccurred()

Name == Layer \cup {Root, End}

Fault(kind) == kind \in Faults

\* obLoadLayerInfo: the directory and the layer.yaml in it are there.
HasInfo(n) == n \in Layer /\ layer[n] \notin {Absent, Bare}

Collecting == pc = "collect"
CollectFrame == UNCHANGED <<layer, pc, cfg, lower>>

CollectRoot ==
  /\ Collecting
  /\ cursor \in {Root, NoName}
  /\ chain' = Append(chain, Root)
  /\ cursor' = Done
  /\ CollectFrame /\ UNCHANGED error

CollectEnd ==
  /\ Collecting
  /\ cursor = End
  /\ cursor' = Done
  /\ CollectFrame /\ UNCHANGED <<chain, error>>

\* Mutant of CollectMissing: the layer that is not found is not an error.
MutCollectMissing ==
  /\ Collecting
  /\ cursor \in Layer /\ ~HasInfo(cursor)
  /\ cursor' = Done
  /\ CollectFrame /\ UNCHANGED <<chain, error>>

\* The chain ends here, with an error in the log and nothing else to show it.
CollectMissing ==
  /\ Collecting
  /\ cursor \in Layer /\ ~HasInfo(cursor)
  /\ cursor' = Done
  /\ error' = TRUE
  /\ CollectFrame /\ UNCHANGED chain

CollectLayer ==
  /\ Collecting
  /\ HasInfo(cursor)
  /\ Len(chain) < StackDepth
  /\ chain' = Append(chain, cursor)
  /\ cursor' = layer[cursor]
  /\ CollectFrame /\ UNCHANGED error

\* A layer.yaml that cannot be opened is reported, and then taken for an empty
\* one: what obParseYamlFile returns is not looked at.
CollectUnreadable ==
  /\ Collecting
  /\ HasInfo(cursor)
  /\ Len(chain) < StackDepth
  /\ Fault("load")
  /\ chain' = Append(chain, cursor)
  /\ cursor' = NoName
  /\ error' = TRUE
  /\ CollectFrame

\* Mutant of CollectOverflow: one frame too early.
MutCollectOverflow ==
  /\ Collecting
  /\ HasInfo(cursor)
  /\ Len(chain) + 1 >= Cardinality(Layer)
  /\ pc' = "crashed"
  /\ UNCHANGED <<layer, cfg, cursor, chain, lower, error>>

\* The stack is used up and the process killed.
CollectOverflow ==
  /\ Collecting
  /\ HasInfo(cursor)
  /\ Len(chain) = StackDepth
  /\ pc' = "crashed"
  /\ UNCHANGED <<layer, cfg, cursor, chain, lower, error>>

Collect ==
  \/ CollectRoot \/ CollectEnd \/ CollectMissing
  \/ CollectLayer \/ CollectUnreadable \/ CollectOverflow

------------------------------------------------------------------------------
\* The number of layers as the caller has it, and the list it goes on with: one
\* of no layers, which only a wrapped number says, is replaced.
Collected == Len(chain) % CountMod
Items == IF Collected = 0 THEN <<Root>> ELSE chain
ItemCount == IF Collected = 0 THEN 1 ELSE Collected

\* The same with the persistent upper layer on top.
Lowers(include) == IF include THEN <<Upper>> \o Items ELSE Items
LowerCount(include) == IF include THEN (ItemCount + 1) % CountMod ELSE ItemCount

\* The list is longer than the array it is written to.
Overrun(include) == LowerCount(include) < Len(Lowers(include))

\* A layer that names no underlayer stands on the root.
StandsOn(n, under) == layer[n] = under \/ (layer[n] = NoName /\ under = Root)

\* A list of layers that goes from the head down, each on its underlayer, to
\* the end.
IsChain(list, head) ==
  /\ list # <<>>
  /\ list[1] = head
  /\ \A i \in 1..Len(list) :
       \/ i < Len(list) /\ list[i] \in Layer /\ StandsOn(list[i], list[i + 1])
       \/ i = Len(list) /\ (list[i] = Root \/ (list[i] \in Layer /\ layer[list[i]] = End))
==============================================================================
