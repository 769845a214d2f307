--------------------------- MODULE ObDurablesProofs ---------------------------
(***************************************************************************)
(* What holds of the durables, whatever the paths, the originals and the   *)
(* lists of durables are.                                                  *)
(*                                                                         *)
(* The inductive invariant adds to the properties of ObDurables what the   *)
(* trees look like (TreesOK), which durables are bound when (BootOK), what *)
(* is left of what the user did (UserOK), and what each step of the        *)
(* preparation relies on (StepOK).                                         *)
(***************************************************************************)
EXTENDS ObDurables, SequenceTheorems, TLAPS

Listed(p) == \E i \in DOMAIN durables : durables[i].path = p

\* Files are files and directories are directories, and what is there is in a
\* directory that is there.
KindOK(p, node) == IF p \in File THEN node # "dir" ELSE ~IsFile(node)

WellFormed(tree) ==
  /\ \A p \in Path : KindOK(p, tree[p])
  /\ \A p \in Path : tree[p] # "absent" => \A q \in Above[p] : tree[q] = "dir"

TreesOK ==
  /\ WellFormed(repo) /\ WellFormed(upper)
  /\ \A d \in bound : repo[d] # "absent"

BootOK ==
  /\ pc = "off" => bound = {} /\ next = 1 /\ ~composed /\ ~error
  /\ pc = "os" /\ ~composed => bound = {}
  /\ composed => pc = "os"
  /\ composed => \A i \in DOMAIN durables : durables[i].path \in bound
  /\ pc = "durables" => \A i \in 1..next - 1 : durables[i].path \in bound
  /\ pc # "durables" => step # "copy"
  /\ pc = "durables" /\ next > Len(durables) => step = "look"
  /\ pc = "off" => step = "look"

UserOK ==
  /\ \A p \in Path : user[p] # "none" =>
       p \in File /\ \A q \in Above[p] : repo[q] = "dir"
  /\ \A p \in Path : user[p] = "wrote" => repo[p] # "absent"
  /\ \A p \in Path : user[p] = "removed" => ~Listed(p)

\* What is to be made blank has been empty or missing before.
BlankOK ==
  At("blank") /\ durable.path \in File /\ Original[durable.path] # "absent"
    => repo[durable.path] \in {"absent", "blank"}

\* What is to be copied is there, and nobody has written to its copy.
CopyOK ==
  At("copy") =>
    /\ todo \subseteq Below(durable.path)
    /\ \A q \in todo : user[q] = "none" /\ Seen(q) # "absent"
    /\ ~Covered(durable.path) /\ Seen(durable.path) # "absent"
    /\ durable.path \in todo \/ repo[durable.path] # "absent"

\* Without an error there is something to bind and to bind it to.
BindOK ==
  /\ pc = "durables" /\ step # "look" /\ ~error => Seen(durable.path) # "absent"
  /\ At("bind") /\ ~error => repo[durable.path] # "absent"

StepOK == BlankOK /\ CopyOK /\ BindOK

IInv ==
  /\ TypeOK /\ TreesOK /\ BootOK /\ UserOK /\ StepOK
  /\ UserIsObeyed /\ NoCopyOntoItself

BooleansOK == tmpfs \in BOOLEAN /\ error \in BOOLEAN /\ composed \in BOOLEAN

------------------------------------------------------------------------------

\* What Put does to a tree.
LEMMA PutShape ==
  ASSUME NEW tree \in [Path -> Node], NEW p \in Path, NEW node \in Node
  PROVE  /\ Put(tree, p, node) \in [Path -> Node]
         /\ Put(tree, p, node)[p] = node
         /\ \A q \in Path : q # p /\ tree[q] # "absent" =>
              Put(tree, p, node)[q] = tree[q]
         /\ \A q \in Path : q # p /\ q \notin Above[p] =>
              Put(tree, p, node)[q] = tree[q]
  BY DurablesAssumption DEF Put, Node

\* It takes nothing away.
LEMMA PutGrows ==
  ASSUME NEW tree \in [Path -> Node], NEW p \in Path, NEW node \in Node,
         node # "absent"
  PROVE  \A q \in Path :
           /\ tree[q] # "absent" => Put(tree, p, node)[q] # "absent"
           /\ tree[q] = "dir" /\ (q = p => node = "dir") =>
                Put(tree, p, node)[q] = "dir"
  BY DEF Put

\* A well-formed tree with a node of the right kind added is well-formed.
LEMMA PutWellFormed ==
  ASSUME NEW tree \in [Path -> Node], NEW p \in Path, NEW node \in Node,
         WellFormed(tree), KindOK(p, node), node # "absent"
  PROVE  WellFormed(Put(tree, p, node))
<1> DEFINE new == Put(tree, p, node)
<1>1. \A q \in Path :
        new[q] = IF q = p THEN node ELSE
                 IF q \in Above[p] /\ tree[q] = "absent" THEN "dir" ELSE tree[q]
  BY DEF Put
<1>2. \A q \in Above[p] : q \in Path /\ q \notin File /\ q # p
  BY DurablesAssumption
<1>3. \A q \in Above[p] : new[q] = "dir"
  BY <1>1, <1>2 DEF WellFormed, KindOK, IsFile, Node
<1>4. \A q \in Path : KindOK(q, new[q])
  BY <1>1, <1>2 DEF WellFormed, KindOK, IsFile
<1>5. ASSUME NEW q \in Path, new[q] # "absent", NEW r \in Above[q]
      PROVE  new[r] = "dir"
  <2>1. r \in Path /\ r \notin File
    BY DurablesAssumption
  <2>2. CASE r \in Above[p]
    BY <2>2, <1>3
  <2>3. CASE r = p
    BY <2>3, <2>1, <1>4, <1>1 DEF KindOK, IsFile, Node
  <2>4. CASE r # p /\ r \notin Above[p]
    <3>1. q # p /\ q \notin Above[p]
      BY <2>4, DurablesAssumption
    <3>2. new[q] = tree[q] /\ new[r] = tree[r]
      BY <3>1, <2>4, <2>1, <1>1
    <3> QED BY <3>2, <1>5 DEF WellFormed
  <2> QED BY <2>2, <2>3, <2>4
<1> HIDE DEF new
<1> QED BY <1>4, <1>5 DEF WellFormed, new

\* While the repository only grows, what the user did stays.
LEMMA UserStays ==
  ASSUME UserOK, user' = user, durables' = durables,
         \A q \in Path : repo[q] # "absent" => repo'[q] # "absent",
         \A q \in Path : repo[q] = "dir" => repo'[q] = "dir"
  PROVE  UserOK'
<1>1. \A p \in Path : \A q \in Above[p] : q \in Path
  BY DurablesAssumption
<1> QED BY <1>1 DEF UserOK, Listed

\* The durable that is prepared.
LEMMA DurableShape ==
  ASSUME TypeOK, next <= Len(durables)
  PROVE  durable.path \in Path /\ durable.copyOrigin \in BOOLEAN
<1>1. durables \in Seq([path: Path, copyOrigin: BOOLEAN])
  BY DurablesAssumption DEF TypeOK
<1>2. next \in 1..Len(durables)
  BY <1>1 DEF TypeOK
<1>3. durables[next] \in [path: Path, copyOrigin: BOOLEAN]
  BY <1>1, <1>2, ElementOfSeq
<1> QED BY <1>3 DEF durable

\* Durables that are bound are paths.
LEMMA BoundShape ==
  ASSUME TypeOK PROVE bound \subseteq Path
<1>1. durables \in Seq([path: Path, copyOrigin: BOOLEAN])
  BY DurablesAssumption DEF TypeOK
<1>2. ASSUME NEW i \in 1..Len(durables) PROVE durables[i].path \in Path
  <2>1. durables[i] \in [path: Path, copyOrigin: BOOLEAN]
    BY <1>1, ElementOfSeq
  <2> QED BY <2>1
<1>3. next - 1 <= Len(durables)
  BY <1>1 DEF TypeOK
<1>4. next \in Nat /\ Len(durables) \in Nat
  BY <1>1 DEF TypeOK
<1> QED BY <1>2, <1>3, <1>4 DEF TypeOK

\* Paths with which the user has no quarrel.
Untouched(p) == user[p] = "none" \/ OnlyInRepository(p)

\* What is put at such a path disturbs the user nowhere.
LEMMA ObeyedByPut ==
  ASSUME IInv, user' = user, durables' = durables,
         NEW p \in Path, NEW node \in {"blank", "dir", "part"},
         repo' = repo \/ (repo' = Put(repo, p, node) /\ Untouched(p))
  PROVE  UserIsObeyed'
<1>1. CASE repo' = repo
  BY <1>1 DEF IInv, UserIsObeyed, OnlyInRepository
<1>2. CASE repo' = Put(repo, p, node) /\ Untouched(p)
  <2> SUFFICES ASSUME NEW q \in Path, ~OnlyInRepository(q), user[q] # "none"
               PROVE  repo'[q] = repo[q]
    BY DEF IInv, UserIsObeyed, OnlyInRepository
  <2>1. q # p
    BY <1>2 DEF Untouched
  <2>2. q \in File /\ q \notin Above[p]
    BY DurablesAssumption DEF IInv, UserOK
  <2>3. node \in Node /\ repo \in [Path -> Node]
    BY DEF Node, IInv, TypeOK
  <2> QED BY <1>2, <2>1, <2>2, <2>3, PutShape
<1> QED BY <1>1, <1>2

\* What is seen is a node.
LEMMA SeenShape ==
  ASSUME TypeOK, NEW p \in Path PROVE Seen(p) \in Node
  BY DurablesAssumption DEF TypeOK, Seen, Node

\* What MakeSeen leads to.
LEMMA MadeShape ==
  ASSUME TypeOK, NEW p \in Path, MakeSeen(p)
  PROVE  /\ repo' \in [Path -> Node]
         /\ upper' \in [Path -> {"absent", "dir", "blank"}]
  BY PutShape, DurablesAssumption, SMT DEF TypeOK, MakeSeen, Put, Blank, Node

\* The initial state satisfies the invariant.
LEMMA InitInv == Init => IInv
<1> SUFFICES ASSUME Init PROVE IInv
  OBVIOUS
<1> USE DEF Init
<1>1. BooleansOK
  BY Zenon DEF BooleansOK
<1>2. Len(durables) \in Nat
  BY DurablesAssumption
<1>3. TypeOK
  BY <1>1, <1>2, DurablesAssumption, SMT DEF TypeOK, BooleansOK, Nothing, Node
<1>4. TreesOK
  BY DurablesAssumption, SMT DEF TreesOK, WellFormed, KindOK, Nothing, IsFile
<1>5. BootOK /\ UserOK /\ StepOK
  BY <1>1, <1>2, SMT DEF BootOK, UserOK, StepOK, BlankOK, CopyOK, BindOK, At,
      BooleansOK
<1>6. UserIsObeyed /\ NoCopyOntoItself
  BY SMT DEF UserIsObeyed, NoCopyOntoItself
<1> QED BY <1>3, <1>4, <1>5, <1>6 DEF IInv

\* Every step leaves a Boolean in the Boolean variables.
LEMMA BooleansPreserved == IInv /\ [Next]_vars => BooleansOK'
<1> SUFFICES ASSUME IInv, [Next]_vars PROVE BooleansOK'
  OBVIOUS
<1> USE DEF IInv, TypeOK, BooleansOK
<1> USE DEF At, Frame, LogError, MayLogError, Copied, CutOff, RollBack,
    diskVars, historyVars, vars
<1>1. CASE PowerOn
  BY <1>1, Zenon DEF PowerOn
<1>2. CASE CreateMissing
  BY <1>2, Zenon DEF CreateMissing
<1>3. CASE CreatePersistent
  BY <1>3, Zenon DEF CreatePersistent
<1>4. CASE KeepPersistent
  BY <1>4, Zenon DEF KeepPersistent
<1>5. CASE StartCopy
  BY <1>5, Zenon DEF StartCopy
<1>6. CASE CopyDirectory
  BY <1>6, Zenon DEF CopyDirectory
<1>7. CASE OpenCopy
  BY <1>7, Zenon DEF OpenCopy
<1>8. CASE FillCopy
  BY <1>8, Zenon DEF FillCopy
<1>18. CASE FillCopyShort
  BY <1>18, Zenon DEF FillCopyShort
<1>9. CASE CopyFails
  BY <1>9, Zenon DEF CopyFails
<1>10. CASE Bind
  BY <1>10, Zenon DEF Bind
<1>11. CASE BindFails
  BY <1>11, Zenon DEF BindFails
<1>12. CASE Finish
  BY <1>12, Zenon DEF Finish
<1>13. CASE FinishFails
  BY <1>13, Zenon DEF FinishFails
<1>14. CASE UserWrites
  BY <1>14, Zenon DEF UserWrites
<1>15. CASE UserRemoves
  BY <1>15, Zenon DEF UserRemoves
<1>16. CASE PowerOff
  BY <1>16, Zenon DEF PowerOff
<1>17. CASE UNCHANGED vars
  BY <1>17, Zenon
<1> QED BY <1>1, <1>2, <1>3, <1>4, <1>5, <1>6, <1>7, <1>8, <1>9, <1>10, <1>11,
    <1>12, <1>13, <1>14, <1>15, <1>16, <1>17, <1>18 DEF Next

\* The types are preserved.
LEMMA TypePreserved == IInv /\ [Next]_vars => TypeOK'
<1> SUFFICES ASSUME IInv, [Next]_vars PROVE TypeOK'
  OBVIOUS
<1> USE DEF IInv, TypeOK, BootOK
<1> USE DEF At, Frame, LogError, MayLogError, Copied, CutOff, RollBack,
    diskVars, historyVars, vars
<1>1. CASE PowerOn
  <2>1. durables' \in Lists /\ Len(durables') \in Nat
    BY <1>1, DurablesAssumption DEF PowerOn, Nothing
  <2>2. /\ repo' \in [Path -> Node]
        /\ upper' \in [Path -> {"absent", "dir", "blank"}]
    BY <1>1,  DurablesAssumption, DurableShape, SeenShape, SMT DEF PowerOn,
        Nothing, Put, Node
  <2>3. /\ pc' \in {"off", "durables", "os"} /\ next' \in 1..Len(durables') + 1
        /\ bound' \subseteq {durables'[i].path : i \in 1..next' - 1}
    BY <1>1, <2>1, SMT DEF PowerOn, Nothing, durable
  <2>4. /\ step' \in {"look", "blank", "copy", "bind"}
        /\ todo' \subseteq Path
        /\ todo' # {} <=> step' = "copy"
    BY <1>1, DurableShape, SMT DEF PowerOn, Nothing
  <2>5. /\ user' \in [Path -> {"none", "wrote", "removed"}]
        /\ cut' \subseteq Path
    BY <1>1, DurableShape, DurablesAssumption, SMT DEF PowerOn, Nothing
  <2> QED BY BooleansPreserved, <2>1, <2>2, <2>3, <2>4, <2>5 DEF BooleansOK
<1>2. CASE CreateMissing
  <2>1. durables' \in Lists /\ Len(durables') \in Nat
    BY <1>2, DurablesAssumption DEF CreateMissing
  <2>2. /\ repo' \in [Path -> Node]
        /\ upper' \in [Path -> {"absent", "dir", "blank"}]
    BY <1>2, MadeShape, DurablesAssumption, DurableShape, SeenShape, SMT DEF
        CreateMissing, Put, Node
  <2>3. /\ pc' \in {"off", "durables", "os"} /\ next' \in 1..Len(durables') + 1
        /\ bound' \subseteq {durables'[i].path : i \in 1..next' - 1}
    BY <1>2, <2>1, SMT DEF CreateMissing, durable
  <2>4. /\ step' \in {"look", "blank", "copy", "bind"}
        /\ todo' \subseteq Path
        /\ todo' # {} <=> step' = "copy"
    BY <1>2, DurableShape, SMT DEF CreateMissing
  <2>5. /\ user' \in [Path -> {"none", "wrote", "removed"}]
        /\ cut' \subseteq Path
    BY <1>2, DurableShape, DurablesAssumption, SMT DEF CreateMissing
  <2> QED BY BooleansPreserved, <2>1, <2>2, <2>3, <2>4, <2>5 DEF BooleansOK
<1>3. CASE CreatePersistent
  <2>1. durables' \in Lists /\ Len(durables') \in Nat
    BY <1>3, DurablesAssumption DEF CreatePersistent, Blank
  <2>2. /\ repo' \in [Path -> Node]
        /\ upper' \in [Path -> {"absent", "dir", "blank"}]
    BY <1>3,  DurablesAssumption, DurableShape, SeenShape, SMT DEF
        CreatePersistent, Blank, Put, Node
  <2>3. /\ pc' \in {"off", "durables", "os"} /\ next' \in 1..Len(durables') + 1
        /\ bound' \subseteq {durables'[i].path : i \in 1..next' - 1}
    BY <1>3, <2>1, SMT DEF CreatePersistent, Blank, durable
  <2>4. /\ step' \in {"look", "blank", "copy", "bind"}
        /\ todo' \subseteq Path
        /\ todo' # {} <=> step' = "copy"
    BY <1>3, DurableShape, SMT DEF CreatePersistent, Blank
  <2>5. /\ user' \in [Path -> {"none", "wrote", "removed"}]
        /\ cut' \subseteq Path
    BY <1>3, DurableShape, DurablesAssumption, SMT DEF CreatePersistent, Blank
  <2> QED BY BooleansPreserved, <2>1, <2>2, <2>3, <2>4, <2>5 DEF BooleansOK
<1>4. CASE KeepPersistent
  BY <1>4, BooleansPreserved, DurablesAssumption, DurableShape, SMT DEF
      KeepPersistent, BooleansOK
<1>5. CASE StartCopy
  <2>1. durables' \in Lists /\ Len(durables') \in Nat
    BY <1>5, DurablesAssumption DEF StartCopy, Below
  <2>2. /\ repo' \in [Path -> Node]
        /\ upper' \in [Path -> {"absent", "dir", "blank"}]
    BY <1>5,  DurablesAssumption, DurableShape, SeenShape, SMT DEF StartCopy,
        Below, Put, Node
  <2>3. /\ pc' \in {"off", "durables", "os"} /\ next' \in 1..Len(durables') + 1
        /\ bound' \subseteq {durables'[i].path : i \in 1..next' - 1}
    BY <1>5, <2>1, SMT DEF StartCopy, Below, durable
  <2>4. /\ step' \in {"look", "blank", "copy", "bind"}
        /\ todo' \subseteq Path
        /\ todo' # {} <=> step' = "copy"
    BY <1>5, DurableShape, SMT DEF StartCopy, Below
  <2>5. /\ user' \in [Path -> {"none", "wrote", "removed"}]
        /\ cut' \subseteq Path
    BY <1>5, DurableShape, DurablesAssumption, SMT DEF StartCopy, Below
  <2> QED BY BooleansPreserved, <2>1, <2>2, <2>3, <2>4, <2>5 DEF BooleansOK
<1>6. CASE CopyDirectory
  <2>1. durables' \in Lists /\ Len(durables') \in Nat
    BY <1>6, DurablesAssumption DEF CopyDirectory
  <2>2. /\ repo' \in [Path -> Node]
        /\ upper' \in [Path -> {"absent", "dir", "blank"}]
    BY <1>6,  DurablesAssumption, DurableShape, SeenShape, SMT DEF
        CopyDirectory, Put, Node
  <2>3. /\ pc' \in {"off", "durables", "os"} /\ next' \in 1..Len(durables') + 1
        /\ bound' \subseteq {durables'[i].path : i \in 1..next' - 1}
    BY <1>6, <2>1, SMT DEF CopyDirectory, durable
  <2>4. /\ step' \in {"look", "blank", "copy", "bind"}
        /\ todo' \subseteq Path
        /\ todo' # {} <=> step' = "copy"
    BY <1>6, DurableShape, SMT DEF CopyDirectory
  <2>5. /\ user' \in [Path -> {"none", "wrote", "removed"}]
        /\ cut' \subseteq Path
    BY <1>6, DurableShape, DurablesAssumption, SMT DEF CopyDirectory
  <2> QED BY BooleansPreserved, <2>1, <2>2, <2>3, <2>4, <2>5 DEF BooleansOK
<1>7. CASE OpenCopy
  <2>1. durables' \in Lists /\ Len(durables') \in Nat
    BY <1>7, DurablesAssumption DEF OpenCopy
  <2>2. /\ repo' \in [Path -> Node]
        /\ upper' \in [Path -> {"absent", "dir", "blank"}]
    BY <1>7,  DurablesAssumption, DurableShape, SeenShape, SMT DEF OpenCopy,
        Put, Node
  <2>3. /\ pc' \in {"off", "durables", "os"} /\ next' \in 1..Len(durables') + 1
        /\ bound' \subseteq {durables'[i].path : i \in 1..next' - 1}
    BY <1>7, <2>1, SMT DEF OpenCopy, durable
  <2>4. /\ step' \in {"look", "blank", "copy", "bind"}
        /\ todo' \subseteq Path
        /\ todo' # {} <=> step' = "copy"
    BY <1>7, DurableShape, SMT DEF OpenCopy
  <2>5. /\ user' \in [Path -> {"none", "wrote", "removed"}]
        /\ cut' \subseteq Path
    BY <1>7, DurableShape, DurablesAssumption, SMT DEF OpenCopy
  <2> QED BY BooleansPreserved, <2>1, <2>2, <2>3, <2>4, <2>5 DEF BooleansOK
<1>8. CASE FillCopy
  <2>1. durables' \in Lists /\ Len(durables') \in Nat
    BY <1>8, DurablesAssumption DEF FillCopy
  <2>2. /\ repo' \in [Path -> Node]
        /\ upper' \in [Path -> {"absent", "dir", "blank"}]
    BY <1>8,  DurablesAssumption, DurableShape, SeenShape, SMT DEF FillCopy,
        Put, Node
  <2>3. /\ pc' \in {"off", "durables", "os"} /\ next' \in 1..Len(durables') + 1
        /\ bound' \subseteq {durables'[i].path : i \in 1..next' - 1}
    BY <1>8, <2>1, SMT DEF FillCopy, durable
  <2>4. /\ step' \in {"look", "blank", "copy", "bind"}
        /\ todo' \subseteq Path
        /\ todo' # {} <=> step' = "copy"
    BY <1>8, DurableShape, SMT DEF FillCopy
  <2>5. /\ user' \in [Path -> {"none", "wrote", "removed"}]
        /\ cut' \subseteq Path
    BY <1>8, DurableShape, DurablesAssumption, SMT DEF FillCopy
  <2> QED BY BooleansPreserved, <2>1, <2>2, <2>3, <2>4, <2>5 DEF BooleansOK
<1>18. CASE FillCopyShort
  <2>1. durables' \in Lists /\ Len(durables') \in Nat
    BY <1>18, DurablesAssumption DEF FillCopyShort
  <2>2. /\ repo' \in [Path -> Node]
        /\ upper' \in [Path -> {"absent", "dir", "blank"}]
    BY <1>18,  DurablesAssumption, DurableShape, SeenShape, SMT DEF FillCopyShort,
        Put, Node
  <2>3. /\ pc' \in {"off", "durables", "os"} /\ next' \in 1..Len(durables') + 1
        /\ bound' \subseteq {durables'[i].path : i \in 1..next' - 1}
    BY <1>18, <2>1, SMT DEF FillCopyShort, durable
  <2>4. /\ step' \in {"look", "blank", "copy", "bind"}
        /\ todo' \subseteq Path
        /\ todo' # {} <=> step' = "copy"
    BY <1>18, DurableShape, SMT DEF FillCopyShort
  <2>5. /\ user' \in [Path -> {"none", "wrote", "removed"}]
        /\ cut' \subseteq Path
    BY <1>18, DurableShape, DurablesAssumption, SMT DEF FillCopyShort
  <2> QED BY BooleansPreserved, <2>1, <2>2, <2>3, <2>4, <2>5 DEF BooleansOK
<1>9. CASE CopyFails
  BY <1>9, BooleansPreserved, DurablesAssumption, DurableShape, SMT DEF
      CopyFails, BooleansOK
<1>10. CASE Bind
  <2>1. durables' \in Lists /\ Len(durables') \in Nat
    BY <1>10, DurablesAssumption DEF Bind
  <2>2. /\ repo' \in [Path -> Node]
        /\ upper' \in [Path -> {"absent", "dir", "blank"}]
    BY <1>10,  DurablesAssumption, DurableShape, SeenShape, SMT DEF Bind, Put,
        Node
  <2>3. /\ pc' \in {"off", "durables", "os"} /\ next' \in 1..Len(durables') + 1
        /\ bound' \subseteq {durables'[i].path : i \in 1..next' - 1}
    BY <1>10, <2>1, SMT DEF Bind, durable
  <2>4. /\ step' \in {"look", "blank", "copy", "bind"}
        /\ todo' \subseteq Path
        /\ todo' # {} <=> step' = "copy"
    BY <1>10, DurableShape, SMT DEF Bind
  <2>5. /\ user' \in [Path -> {"none", "wrote", "removed"}]
        /\ cut' \subseteq Path
    BY <1>10, DurableShape, DurablesAssumption, SMT DEF Bind
  <2> QED BY BooleansPreserved, <2>1, <2>2, <2>3, <2>4, <2>5 DEF BooleansOK
<1>11. CASE BindFails
  BY <1>11, BooleansPreserved, DurablesAssumption, DurableShape, SMT DEF
      BindFails, BooleansOK
<1>12. CASE Finish
  BY <1>12, BooleansPreserved, DurablesAssumption, DurableShape, SMT DEF Finish,
      BooleansOK
<1>13. CASE FinishFails
  BY <1>13, BooleansPreserved, DurablesAssumption, DurableShape, SMT DEF
      FinishFails, BooleansOK
<1>14. CASE UserWrites
  <2>1. durables' \in Lists /\ Len(durables') \in Nat
    BY <1>14, DurablesAssumption DEF UserWrites
  <2>2. /\ repo' \in [Path -> Node]
        /\ upper' \in [Path -> {"absent", "dir", "blank"}]
    BY <1>14,  DurablesAssumption, DurableShape, SeenShape, SMT DEF UserWrites,
        Put, Node
  <2>3. /\ pc' \in {"off", "durables", "os"} /\ next' \in 1..Len(durables') + 1
        /\ bound' \subseteq {durables'[i].path : i \in 1..next' - 1}
    BY <1>14, <2>1, SMT DEF UserWrites, durable
  <2>4. /\ step' \in {"look", "blank", "copy", "bind"}
        /\ todo' \subseteq Path
        /\ todo' # {} <=> step' = "copy"
    BY <1>14, DurableShape, SMT DEF UserWrites
  <2>5. /\ user' \in [Path -> {"none", "wrote", "removed"}]
        /\ cut' \subseteq Path
    BY <1>14, DurableShape, DurablesAssumption, SMT DEF UserWrites
  <2> QED BY BooleansPreserved, <2>1, <2>2, <2>3, <2>4, <2>5 DEF BooleansOK
<1>15. CASE UserRemoves
  <2>1. durables' \in Lists /\ Len(durables') \in Nat
    BY <1>15, DurablesAssumption DEF UserRemoves
  <2>2. /\ repo' \in [Path -> Node]
        /\ upper' \in [Path -> {"absent", "dir", "blank"}]
    BY <1>15,  DurablesAssumption, DurableShape, SeenShape, SMT DEF UserRemoves,
        Put, Node
  <2>3. /\ pc' \in {"off", "durables", "os"} /\ next' \in 1..Len(durables') + 1
        /\ bound' \subseteq {durables'[i].path : i \in 1..next' - 1}
    BY <1>15, <2>1, SMT DEF UserRemoves, durable
  <2>4. /\ step' \in {"look", "blank", "copy", "bind"}
        /\ todo' \subseteq Path
        /\ todo' # {} <=> step' = "copy"
    BY <1>15, DurableShape, SMT DEF UserRemoves
  <2>5. /\ user' \in [Path -> {"none", "wrote", "removed"}]
        /\ cut' \subseteq Path
    BY <1>15, DurableShape, DurablesAssumption, SMT DEF UserRemoves
  <2> QED BY BooleansPreserved, <2>1, <2>2, <2>3, <2>4, <2>5 DEF BooleansOK
<1>16. CASE PowerOff
  BY <1>16, BooleansPreserved, DurablesAssumption, DurableShape, SMT DEF
      PowerOff, BooleansOK
<1>17. CASE UNCHANGED vars
  BY <1>17, SMT
<1> QED BY <1>1, <1>2, <1>3, <1>4, <1>5, <1>6, <1>7, <1>8, <1>9, <1>10, <1>11,
    <1>12, <1>13, <1>14, <1>15, <1>16, <1>17, <1>18 DEF Next

\* The trees keep their shape.
LEMMA TreesPreserved == IInv /\ [Next]_vars => TreesOK'
<1> SUFFICES ASSUME IInv, [Next]_vars PROVE TreesOK'
  OBVIOUS
<1> USE DEF IInv, TypeOK, TreesOK, BootOK
<1> USE DEF At, Frame, LogError, MayLogError, Copied, CutOff, RollBack,
    diskVars, historyVars, vars
<1>1. CASE PowerOn
  BY <1>1, DurablesAssumption, SMT DEF PowerOn, IsFile, Nothing, WellFormed,
      KindOK
<1>2. CASE CreateMissing
  <2>1. WellFormed(repo')
    BY <1>2, DurableShape, PutWellFormed, DurablesAssumption, SMT DEF
        CreateMissing, MakeSeen, Blank, KindOK, IsFile, Node
  <2>2. WellFormed(upper')
    BY <1>2, DurableShape, PutWellFormed, DurablesAssumption, SMT DEF
        CreateMissing, MakeSeen, Blank, KindOK, IsFile, Node
  <2>3. \A d \in bound' : repo'[d] # "absent"
    BY <1>2, DurableShape, BoundShape, PutGrows, SMT DEF CreateMissing,
        MakeSeen, Blank, Node
  <2> QED BY <2>1, <2>2, <2>3
<1>3. CASE CreatePersistent
  <2>1. WellFormed(repo')
    BY <1>3, DurableShape, PutWellFormed, DurablesAssumption, SMT DEF
        CreatePersistent, Blank, KindOK, IsFile, Node
  <2>2. WellFormed(upper')
    BY <1>3, DurableShape, PutWellFormed, DurablesAssumption, SMT DEF
        CreatePersistent, Blank, KindOK, IsFile, Node
  <2>3. \A d \in bound' : repo'[d] # "absent"
    BY <1>3, DurableShape, BoundShape, PutGrows, SMT DEF CreatePersistent,
        Blank, Node
  <2> QED BY <2>1, <2>2, <2>3
<1>4. CASE KeepPersistent
  BY <1>4, DurablesAssumption, SMT DEF KeepPersistent
<1>5. CASE StartCopy
  BY <1>5, DurablesAssumption, SMT DEF StartCopy
<1>6. CASE CopyDirectory
  <2>1. WellFormed(repo')
    BY <1>6, DurableShape, PutWellFormed, DurablesAssumption, SMT DEF
        CopyDirectory, KindOK, IsFile, Node
  <2>2. WellFormed(upper')
    BY <1>6, DurableShape, PutWellFormed, DurablesAssumption, SMT DEF
        CopyDirectory, KindOK, IsFile, Node
  <2>3. \A d \in bound' : repo'[d] # "absent"
    BY <1>6, DurableShape, BoundShape, PutGrows, SMT DEF CopyDirectory, Node
  <2> QED BY <2>1, <2>2, <2>3
<1>7. CASE OpenCopy
  <2>1. WellFormed(repo')
    BY <1>7, DurableShape, PutWellFormed, DurablesAssumption, SMT DEF OpenCopy,
        Visits, KindOK, IsFile, Node
  <2>2. WellFormed(upper')
    BY <1>7, DurableShape, PutWellFormed, DurablesAssumption, SMT DEF OpenCopy,
        Visits, KindOK, IsFile, Node
  <2>3. \A d \in bound' : repo'[d] # "absent"
    BY <1>7, DurableShape, BoundShape, PutGrows, SMT DEF OpenCopy, Visits, Node
  <2> QED BY <2>1, <2>2, <2>3
<1>8. CASE FillCopy
  <2>1. WellFormed(repo')
    BY <1>8, DurableShape, SeenShape, DurablesAssumption, SMT DEF FillCopy,
        Seen, Covered, Below, KindOK, IsFile, Node, WellFormed
  <2>2. WellFormed(upper')
    BY <1>8, DurableShape, SeenShape, DurablesAssumption, SMT DEF FillCopy,
        Seen, Covered, Below, KindOK, IsFile, Node, WellFormed
  <2>3. \A d \in bound' : repo'[d] # "absent"
    BY <1>8, DurableShape, BoundShape, PutGrows, SMT DEF FillCopy, Seen,
        Covered, Below, Node
  <2> QED BY <2>1, <2>2, <2>3
<1>18. CASE FillCopyShort
  BY <1>18, DurablesAssumption, SMT DEF FillCopyShort
<1>9. CASE CopyFails
  BY <1>9, DurablesAssumption, SMT DEF CopyFails
<1>10. CASE Bind
  <2>1. KindOK(durable.path, "dir") \/ Seen(durable.path) # "absent"
    BY <1>10, DurableShape, SMT DEF Bind, CanBind, KindOK, IsFile, WellFormed,
        Node
  <2>2. WellFormed(upper')
    BY <1>10, <2>1, DurableShape, PutWellFormed, SMT DEF Bind, Node
  <2>3. \A d \in bound' : repo'[d] # "absent"
    BY <1>10, SMT DEF Bind, CanBind
  <2> QED BY <1>10, <2>2, <2>3 DEF Bind
<1>11. CASE BindFails
  BY <1>11, DurablesAssumption, SMT DEF BindFails
<1>12. CASE Finish
  BY <1>12, DurablesAssumption, SMT DEF Finish
<1>13. CASE FinishFails
  BY <1>13, DurablesAssumption, SMT DEF FinishFails
<1>14. CASE UserWrites
  <2>1. PICK p \in File :
           /\ Covered(p) /\ \A q \in Above[p] : Seen(q) = "dir"
           /\ repo' = [repo EXCEPT ![p] = "user"]
    BY <1>14 DEF UserWrites
  <2>2. PICK d \in bound : p \in Below(d)
    BY <2>1 DEF Covered
  <2>3. \A q \in Above[p] : repo[q] = "dir"
    <3> SUFFICES ASSUME NEW q \in Above[p] PROVE repo[q] = "dir"
      OBVIOUS
    <3>1. p \in Path /\ q \in Path /\ d \in Path
      BY BoundShape, DurablesAssumption
    <3>2. q \in Above[d] \/ q \in Below(d)
      BY <3>1, <2>2, DurablesAssumption DEF Below
    <3>3. CASE q \in Above[d]
      BY <3>1, <3>3 DEF WellFormed
    <3>4. CASE q \in Below(d)
      BY <3>4, <2>1 DEF Seen, Covered
    <3> QED BY <3>2, <3>3, <3>4
  <2>4. WellFormed(repo')
    <3>1. \A q \in Path : repo'[q] = IF q = p THEN "user" ELSE repo[q]
      BY <2>1
    <3>2. \A q \in Path : KindOK(q, repo'[q])
      BY <3>1 DEF WellFormed, KindOK, IsFile
    <3>3. \A q \in Path : \A r \in Above[q] : r \in Path /\ r # p
      BY DurablesAssumption
    <3> QED BY <2>3, <3>1, <3>2, <3>3 DEF WellFormed
  <2>5. WellFormed(upper') /\ bound' = bound
    BY <1>14 DEF UserWrites
  <2> QED BY <2>1, <2>4, <2>5, BoundShape
<1>15. CASE UserRemoves
  <2>1. WellFormed(repo')
    BY <1>15, DurableShape, SeenShape, DurablesAssumption, SMT DEF UserRemoves,
        KindOK, IsFile, Node, WellFormed
  <2>2. WellFormed(upper')
    BY <1>15, DurableShape, SeenShape, DurablesAssumption, SMT DEF UserRemoves,
        KindOK, IsFile, Node, WellFormed
  <2>3. \A d \in bound' : repo'[d] # "absent"
    BY <1>15, DurableShape, BoundShape, PutGrows, SMT DEF UserRemoves, Node
  <2> QED BY <2>1, <2>2, <2>3
<1>16. CASE PowerOff
  BY <1>16, DurablesAssumption, SMT DEF PowerOff
<1>17. CASE UNCHANGED vars
  BY <1>17, SMT
<1> QED BY <1>1, <1>2, <1>3, <1>4, <1>5, <1>6, <1>7, <1>8, <1>9, <1>10, <1>11,
    <1>12, <1>13, <1>14, <1>15, <1>16, <1>17, <1>18 DEF Next

\* What is bound when.
LEMMA BootPreserved == IInv /\ [Next]_vars => BootOK'
<1> SUFFICES ASSUME IInv, [Next]_vars PROVE BootOK'
  OBVIOUS
<1> USE DEF IInv, TypeOK, BootOK
<1> USE DEF At, Frame, LogError, MayLogError, Copied, CutOff, RollBack,
    diskVars, historyVars, vars
<1>1. CASE PowerOn
  BY <1>1, DurablesAssumption, DurableShape, SMT DEF PowerOn, durable
<1>2. CASE CreateMissing
  BY <1>2, DurablesAssumption, DurableShape, SMT DEF CreateMissing, durable
<1>3. CASE CreatePersistent
  BY <1>3, DurablesAssumption, DurableShape, SMT DEF CreatePersistent, durable
<1>4. CASE KeepPersistent
  BY <1>4, DurablesAssumption, DurableShape, SMT DEF KeepPersistent, durable
<1>5. CASE StartCopy
  BY <1>5, DurablesAssumption, DurableShape, SMT DEF StartCopy, durable
<1>6. CASE CopyDirectory
  BY <1>6, DurablesAssumption, DurableShape, SMT DEF CopyDirectory, durable
<1>7. CASE OpenCopy
  BY <1>7, DurablesAssumption, DurableShape, SMT DEF OpenCopy, durable
<1>8. CASE FillCopy
  BY <1>8, DurablesAssumption, DurableShape, SMT DEF FillCopy, durable
<1>18. CASE FillCopyShort
  BY <1>18, DurablesAssumption, DurableShape, SMT DEF FillCopyShort, durable
<1>9. CASE CopyFails
  BY <1>9, DurablesAssumption, DurableShape, SMT DEF CopyFails, durable
<1>10. CASE Bind
  BY <1>10, DurablesAssumption, DurableShape, SMT DEF Bind, durable
<1>11. CASE BindFails
  BY <1>11, DurablesAssumption, DurableShape, SMT DEF BindFails, durable
<1>12. CASE Finish
  BY <1>12, DurablesAssumption, DurableShape, SMT DEF Finish, durable
<1>13. CASE FinishFails
  BY <1>13, DurablesAssumption, DurableShape, SMT DEF FinishFails, durable
<1>14. CASE UserWrites
  BY <1>14, DurablesAssumption, DurableShape, SMT DEF UserWrites, durable
<1>15. CASE UserRemoves
  BY <1>15, DurablesAssumption, DurableShape, SMT DEF UserRemoves, durable
<1>16. CASE PowerOff
  BY <1>16, DurablesAssumption, DurableShape, SMT DEF PowerOff, durable
<1>17. CASE UNCHANGED vars
  BY <1>17, SMT
<1> QED BY <1>1, <1>2, <1>3, <1>4, <1>5, <1>6, <1>7, <1>8, <1>9, <1>10, <1>11,
    <1>12, <1>13, <1>14, <1>15, <1>16, <1>17, <1>18 DEF Next

\* What is left of what the user did.
LEMMA UserPreserved == IInv /\ [Next]_vars => UserOK'
<1> SUFFICES ASSUME IInv, [Next]_vars PROVE UserOK'
  OBVIOUS
<1> USE DEF IInv, TypeOK
<1> USE DEF At, Frame, LogError, MayLogError, Copied, CutOff, RollBack,
    diskVars, historyVars, vars
<1>1. CASE PowerOn
  BY <1>1, UserStays, SMT DEF PowerOn
<1>2. CASE CreateMissing
  <2>1. \A q \in Path : repo[q] # "absent" => repo'[q] # "absent"
    BY <1>2, DurableShape, PutGrows, DurablesAssumption, SMT DEF CreateMissing,
        MakeSeen, Blank, TreesOK, WellFormed, KindOK, IsFile, Node
  <2>2. \A q \in Path : repo[q] = "dir" => repo'[q] = "dir"
    BY <1>2, DurableShape, PutGrows, DurablesAssumption, SMT DEF CreateMissing,
        MakeSeen, Blank, TreesOK, WellFormed, KindOK, IsFile, Node
  <2>3. UserOK /\ user' = user /\ durables' = durables
    BY <1>2, SMT DEF CreateMissing
  <2> QED BY <2>1, <2>2, <2>3, UserStays
<1>3. CASE CreatePersistent
  <2>1. \A q \in Path : repo[q] # "absent" => repo'[q] # "absent"
    BY <1>3, DurableShape, PutGrows, DurablesAssumption, SMT DEF
        CreatePersistent, Blank, TreesOK, WellFormed, KindOK, IsFile, Node
  <2>2. \A q \in Path : repo[q] = "dir" => repo'[q] = "dir"
    BY <1>3, DurableShape, PutGrows, DurablesAssumption, SMT DEF
        CreatePersistent, Blank, TreesOK, WellFormed, KindOK, IsFile, Node
  <2>3. UserOK /\ user' = user /\ durables' = durables
    BY <1>3, SMT DEF CreatePersistent
  <2> QED BY <2>1, <2>2, <2>3, UserStays
<1>4. CASE KeepPersistent
  BY <1>4, UserStays, SMT DEF KeepPersistent
<1>5. CASE StartCopy
  BY <1>5, UserStays, SMT DEF StartCopy
<1>6. CASE CopyDirectory
  <2>1. \A q \in Path : repo[q] # "absent" => repo'[q] # "absent"
    BY <1>6, DurableShape, PutGrows, DurablesAssumption, SMT DEF CopyDirectory,
        TreesOK, WellFormed, KindOK, IsFile, Node
  <2>2. \A q \in Path : repo[q] = "dir" => repo'[q] = "dir"
    BY <1>6, DurableShape, PutGrows, DurablesAssumption, SMT DEF CopyDirectory,
        TreesOK, WellFormed, KindOK, IsFile, Node
  <2>3. UserOK /\ user' = user /\ durables' = durables
    BY <1>6, SMT DEF CopyDirectory
  <2> QED BY <2>1, <2>2, <2>3, UserStays
<1>7. CASE OpenCopy
  <2>1. \A q \in Path : repo[q] # "absent" => repo'[q] # "absent"
    BY <1>7, DurableShape, PutGrows, DurablesAssumption, SMT DEF OpenCopy,
        Visits, TreesOK, WellFormed, KindOK, IsFile, Node
  <2>2. \A q \in Path : repo[q] = "dir" => repo'[q] = "dir"
    BY <1>7, DurableShape, PutGrows, DurablesAssumption, SMT DEF OpenCopy,
        Visits, TreesOK, WellFormed, KindOK, IsFile, Node
  <2>3. UserOK /\ user' = user /\ durables' = durables
    BY <1>7, SMT DEF OpenCopy
  <2> QED BY <2>1, <2>2, <2>3, UserStays
<1>8. CASE FillCopy
  <2>1. \A q \in Path : repo[q] # "absent" => repo'[q] # "absent"
    BY <1>8, DurableShape, SeenShape, DurablesAssumption, SMT DEF FillCopy,
        StepOK, CopyOK, TreesOK, WellFormed, KindOK, IsFile, Node
  <2>2. \A q \in Path : repo[q] = "dir" => repo'[q] = "dir"
    BY <1>8, DurableShape, SeenShape, DurablesAssumption, SMT DEF FillCopy,
        StepOK, CopyOK, TreesOK, WellFormed, KindOK, IsFile, Node
  <2>3. UserOK /\ user' = user /\ durables' = durables
    BY <1>8, SMT DEF FillCopy
  <2> QED BY <2>1, <2>2, <2>3, UserStays
<1>18. CASE FillCopyShort
  BY <1>18, UserStays, SMT DEF FillCopyShort
<1>9. CASE CopyFails
  BY <1>9, UserStays, SMT DEF CopyFails
<1>10. CASE Bind
  BY <1>10, UserStays, SMT DEF Bind
<1>11. CASE BindFails
  BY <1>11, UserStays, SMT DEF BindFails
<1>12. CASE Finish
  BY <1>12, UserStays, SMT DEF Finish
<1>13. CASE FinishFails
  BY <1>13, UserStays, SMT DEF FinishFails
<1>14. CASE UserWrites
  <2>1. PICK p \in File :
           /\ Covered(p) /\ \A q \in Above[p] : Seen(q) = "dir"
           /\ repo' = [repo EXCEPT ![p] = "user"]
           /\ user' = [user EXCEPT ![p] = "wrote"]
    BY <1>14 DEF UserWrites
  <2>2. p \in Path /\ p \notin UNION {Above[q] : q \in Path}
    BY DurablesAssumption
  <2>3. repo'[p] = "user" /\ \A q \in Path : q # p => repo'[q] = repo[q]
    BY <2>1, <2>2 DEF TypeOK
  <2>4. user'[p] = "wrote" /\ \A q \in Path : q # p => user'[q] = user[q]
    BY <2>1, <2>2 DEF TypeOK
  <2>5. WellFormed(repo')
    BY TreesPreserved, <2>1 DEF IInv, TreesOK
  <2>6. durables' = durables
    BY <1>14 DEF UserWrites
  <2>7. \A q \in Path : \A r \in Above[q] : r \in Path /\ r # p
    BY <2>2, DurablesAssumption
  <2> QED BY <2>2, <2>3, <2>4, <2>5, <2>6, <2>7 DEF UserOK, Listed, WellFormed
<1>15. CASE UserRemoves
  <2>1. PICK p \in File \ bound :
           /\ IsFile(repo[p])
           /\ repo' = [repo EXCEPT ![p] = "absent"]
           /\ user' = [user EXCEPT ![p] = "removed"]
    BY <1>15 DEF UserRemoves
  <2>2. p \in Path /\ \A q \in Path : \A r \in Above[q] : r \in Path /\ r # p
    BY DurablesAssumption
  <2>3. repo'[p] = "absent" /\ \A q \in Path : q # p => repo'[q] = repo[q]
    BY <2>1, <2>2 DEF TypeOK
  <2>4. user'[p] = "removed" /\ \A q \in Path : q # p => user'[q] = user[q]
    BY <2>1, <2>2 DEF TypeOK
  <2>5. \A q \in Above[p] : repo[q] = "dir"
    BY <2>1, <2>2 DEF TreesOK, WellFormed, IsFile
  <2>6. durables' = durables /\ ~Listed(p)
    BY <1>15, <2>1 DEF UserRemoves, BootOK, Listed
  <2> QED BY <2>1, <2>2, <2>3, <2>4, <2>5, <2>6 DEF UserOK, Listed
<1>16. CASE PowerOff
  BY <1>16, UserStays, SMT DEF PowerOff
<1>17. CASE UNCHANGED vars
  BY <1>17, UserStays, SMT
<1> QED BY <1>1, <1>2, <1>3, <1>4, <1>5, <1>6, <1>7, <1>8, <1>9, <1>10, <1>11,
    <1>12, <1>13, <1>14, <1>15, <1>16, <1>17, <1>18 DEF Next

\* What is to be made blank.
LEMMA BlankPreserved == IInv /\ [Next]_vars => BlankOK'
<1> SUFFICES ASSUME IInv, [Next]_vars PROVE BlankOK'
  OBVIOUS
<1> USE DEF IInv, TypeOK, BootOK, TreesOK, StepOK, BlankOK
<1> USE DEF At, Frame, LogError, MayLogError, Copied, CutOff, RollBack,
    diskVars, historyVars, vars
<1>1. CASE PowerOn
  BY <1>1, DurablesAssumption, DurableShape, SMT DEF PowerOn, durable, NeedsCopy
<1>2. CASE CreateMissing
  <2> SUFFICES ASSUME durable.path \in File, Original[durable.path] # "absent"
               PROVE  repo'[durable.path] \in {"absent", "blank"}
    BY <1>2 DEF CreateMissing, durable
  <2>1. durable.path \in Path /\ Seen(durable.path) = "absent"
    BY <1>2, DurableShape DEF CreateMissing
  <2>2. Covered(durable.path) /\ repo[durable.path] = "absent"
    BY <2>1 DEF Seen
  <2>3. CASE repo' = repo
    BY <2>2, <2>3
  <2>4. CASE repo' = Put(repo, durable.path, "blank")
    BY <2>1, <2>4, PutShape DEF Node
  <2> QED BY <1>2, <2>2, <2>3, <2>4 DEF CreateMissing, MakeSeen, Blank
<1>3. CASE CreatePersistent
  BY <1>3, DurablesAssumption, DurableShape, SMT DEF CreatePersistent, durable,
      NeedsCopy
<1>4. CASE KeepPersistent
  BY <1>4, DurablesAssumption, DurableShape, SMT DEF KeepPersistent, durable,
      NeedsCopy
<1>5. CASE StartCopy
  BY <1>5, DurablesAssumption, DurableShape, SMT DEF StartCopy, durable,
      NeedsCopy
<1>6. CASE CopyDirectory
  BY <1>6, DurablesAssumption, DurableShape, SMT DEF CopyDirectory, durable,
      NeedsCopy
<1>7. CASE OpenCopy
  BY <1>7, DurablesAssumption, DurableShape, SMT DEF OpenCopy, durable,
      NeedsCopy
<1>8. CASE FillCopy
  BY <1>8, DurablesAssumption, DurableShape, SMT DEF FillCopy, durable,
      NeedsCopy
<1>18. CASE FillCopyShort
  BY <1>18, DurablesAssumption, DurableShape, SMT DEF FillCopyShort, durable,
      NeedsCopy
<1>9. CASE CopyFails
  BY <1>9, DurablesAssumption, DurableShape, SMT DEF CopyFails, durable,
      NeedsCopy
<1>10. CASE Bind
  BY <1>10, DurablesAssumption, DurableShape, SMT DEF Bind, durable, NeedsCopy
<1>11. CASE BindFails
  BY <1>11, DurablesAssumption, DurableShape, SMT DEF BindFails, durable,
      NeedsCopy
<1>12. CASE Finish
  BY <1>12, DurablesAssumption, DurableShape, SMT DEF Finish, durable, NeedsCopy
<1>13. CASE FinishFails
  BY <1>13, DurablesAssumption, DurableShape, SMT DEF FinishFails, durable,
      NeedsCopy
<1>14. CASE UserWrites
  BY <1>14, DurablesAssumption, DurableShape, SMT DEF UserWrites, durable,
      NeedsCopy
<1>15. CASE UserRemoves
  BY <1>15, DurablesAssumption, DurableShape, SMT DEF UserRemoves, durable,
      NeedsCopy
<1>16. CASE PowerOff
  BY <1>16, DurablesAssumption, DurableShape, SMT DEF PowerOff, durable,
      NeedsCopy
<1>17. CASE UNCHANGED vars
  BY <1>17, SMT DEF durable
<1> QED BY <1>1, <1>2, <1>3, <1>4, <1>5, <1>6, <1>7, <1>8, <1>9, <1>10, <1>11,
    <1>12, <1>13, <1>14, <1>15, <1>16, <1>17, <1>18 DEF Next

\* What is to be copied.
LEMMA CopyPreserved == IInv /\ [Next]_vars => CopyOK'
<1> SUFFICES ASSUME IInv, [Next]_vars PROVE CopyOK'
  OBVIOUS
<1> USE DEF IInv, TypeOK, BootOK, TreesOK, StepOK, CopyOK, UserOK,
    NoCopyOntoItself
<1> USE DEF At, Frame, LogError, MayLogError, Copied, CutOff, RollBack,
    diskVars, historyVars, vars
<1>1. CASE PowerOn
  BY <1>1, DurablesAssumption, DurableShape, SMT DEF PowerOn, durable, Below,
      Seen, Covered, Put, Node
<1>2. CASE CreateMissing
  BY <1>2, DurablesAssumption, DurableShape, SMT DEF CreateMissing, durable,
      Below, Seen, Covered, Put, Node
<1>3. CASE CreatePersistent
  BY <1>3, DurablesAssumption, DurableShape, SMT DEF CreatePersistent, durable,
      Below, Seen, Covered, Put, Node
<1>4. CASE KeepPersistent
  BY <1>4, DurablesAssumption, DurableShape, SMT DEF KeepPersistent, durable,
      Below, Seen, Covered, Put, Node
<1>5. CASE StartCopy
  <2> SUFFICES ASSUME step' = "copy" PROVE CopyOK'
    BY DEF CopyOK
  <2>1. /\ next <= Len(durables) /\ Seen(durable.path) # "absent"
        /\ repo[durable.path] = "absent"
        /\ todo' = {q \in Below(durable.path) : Seen(q) # "absent"}
    BY <1>5 DEF StartCopy, NeedsCopy
  <2>2. durable.path \in Path /\ Listed(durable.path)
    BY <2>1, DurableShape DEF durable, Listed
  <2>3. ~Covered(durable.path)
    BY <2>1 DEF Seen
  <2>4. \A q \in Below(durable.path) : user[q] = "none"
    BY <2>1, <2>2 DEF Below, UserOK
  <2>5. durable.path \in todo'
    BY <2>1, <2>2 DEF Below
  <2>6. UNCHANGED <<durables, next, bound, repo, upper, user>>
    BY <1>5 DEF StartCopy
  <2> QED
    BY <2>1, <2>3, <2>4, <2>5, <2>6 DEF CopyOK, Below, Seen, Covered, durable
<1>6. CASE CopyDirectory
  BY <1>6, DurablesAssumption, DurableShape, SMT DEF CopyDirectory, durable,
      Below, Seen, Covered, Put, Node
<1>7. CASE OpenCopy
  BY <1>7, DurablesAssumption, DurableShape, SMT DEF OpenCopy, durable, Below,
      Seen, Covered, Put, Node
<1>8. CASE FillCopy
  BY <1>8, DurablesAssumption, DurableShape, SMT DEF FillCopy, durable, Below,
      Seen, Covered, Put, Node
<1>18. CASE FillCopyShort
  BY <1>18, DurablesAssumption, DurableShape, SMT DEF FillCopyShort, durable, Below,
      Seen, Covered, Put, Node
<1>9. CASE CopyFails
  BY <1>9, DurablesAssumption, DurableShape, SMT DEF CopyFails, durable, Below,
      Seen, Covered, Put, Node
<1>10. CASE Bind
  BY <1>10, DurablesAssumption, DurableShape, SMT DEF Bind, durable, Below,
      Seen, Covered, Put, Node
<1>11. CASE BindFails
  BY <1>11, DurablesAssumption, DurableShape, SMT DEF BindFails, durable, Below,
      Seen, Covered, Put, Node
<1>12. CASE Finish
  BY <1>12, DurablesAssumption, DurableShape, SMT DEF Finish, durable, Below,
      Seen, Covered, Put, Node
<1>13. CASE FinishFails
  BY <1>13, DurablesAssumption, DurableShape, SMT DEF FinishFails, durable,
      Below, Seen, Covered, Put, Node
<1>14. CASE UserWrites
  BY <1>14, DurablesAssumption, DurableShape, SMT DEF UserWrites, durable,
      Below, Seen, Covered, Put, Node
<1>15. CASE UserRemoves
  BY <1>15, DurablesAssumption, DurableShape, SMT DEF UserRemoves, durable,
      Below, Seen, Covered, Put, Node
<1>16. CASE PowerOff
  BY <1>16, DurablesAssumption, DurableShape, SMT DEF PowerOff, durable, Below,
      Seen, Covered, Put, Node
<1>17. CASE UNCHANGED vars
  BY <1>17, SMT DEF durable, Below, Seen, Covered
<1> QED BY <1>1, <1>2, <1>3, <1>4, <1>5, <1>6, <1>7, <1>8, <1>9, <1>10, <1>11,
    <1>12, <1>13, <1>14, <1>15, <1>16, <1>17, <1>18 DEF Next

\* What is to be bound.
LEMMA BindPreserved == IInv /\ [Next]_vars => BindOK'
<1> SUFFICES ASSUME IInv, [Next]_vars PROVE BindOK'
  OBVIOUS
<1> USE DEF IInv, TypeOK, BootOK, TreesOK, StepOK, CopyOK, BindOK
<1> USE DEF At, Frame, LogError, MayLogError, Copied, CutOff, RollBack,
    diskVars, historyVars, vars
<1>1. CASE PowerOn
  BY <1>1, DurablesAssumption, DurableShape, SMT DEF PowerOn, durable, Below,
      Seen, Covered, Put, Node
<1>2. CASE CreateMissing
  <2>1. durable.path \in Path /\ Blank(durable.path) \in {"blank", "dir"}
    BY <1>2, DurableShape DEF CreateMissing, Blank
  <2>2. ~error' => MakeSeen(durable.path)
    BY <1>2, SMT DEF CreateMissing
  <2>3. step' = "blank" /\ durable' = durable /\ bound' = bound
    BY <1>2 DEF CreateMissing, durable
  <2>4. ASSUME MakeSeen(durable.path) PROVE Seen(durable.path)' # "absent"
    <3>1. CASE Covered(durable.path)
      <4>1. repo'[durable.path] # "absent"
        BY <2>1, <2>4, <3>1, PutShape DEF MakeSeen, Node
      <4> QED BY <2>3, <3>1, <4>1 DEF Seen, Covered
    <3>2. CASE ~Covered(durable.path)
      <4>1. upper'[durable.path] # "absent"
        BY <2>1, <2>4, <3>2, PutShape DEF MakeSeen, Node
      <4> QED BY <2>3, <3>2, <4>1 DEF Seen, Covered
    <3> QED BY <3>1, <3>2
  <2> QED BY <2>2, <2>3, <2>4
<1>3. CASE CreatePersistent
  <2>1. durable.path \in Path /\ Blank(durable.path) \in {"blank", "dir"}
    BY <1>3, DurableShape DEF CreatePersistent, Blank
  <2> SUFFICES ASSUME ~error'
               PROVE  repo'[durable.path] # "absent" /\ Seen(durable.path)' #
                   "absent"
    BY <1>3 DEF CreatePersistent, durable, Seen, Covered
  <2>2. repo'[durable.path] # "absent"
    BY <1>3, <2>1, PutShape, SMT DEF CreatePersistent, Node
  <2>3. Seen(durable.path) # "absent"
    BY <1>3, SMT DEF CreatePersistent
  <2> QED
    BY <1>3, <2>2, <2>3 DEF CreatePersistent, Seen, Covered, durable
<1>4. CASE KeepPersistent
  BY <1>4, DurablesAssumption, DurableShape, SMT DEF KeepPersistent, durable,
      Seen, Covered, NeedsCopy
<1>5. CASE StartCopy
  BY <1>5, DurablesAssumption, DurableShape, SMT DEF StartCopy, durable, Below,
      Seen, Covered, Put, Node
<1>6. CASE CopyDirectory
  BY <1>6, DurablesAssumption, DurableShape, SMT DEF CopyDirectory, durable,
      Below, Seen, Covered, Put, Node
<1>7. CASE OpenCopy
  BY <1>7, DurablesAssumption, DurableShape, SMT DEF OpenCopy, durable, Below,
      Seen, Covered, Put, Node
<1>8. CASE FillCopy
  BY <1>8, DurablesAssumption, DurableShape, SMT DEF FillCopy, durable, Below,
      Seen, Covered, Put, Node
<1>18. CASE FillCopyShort
  BY <1>18, DurablesAssumption, DurableShape, SMT DEF FillCopyShort, durable, Below,
      Seen, Covered, Put, Node
<1>9. CASE CopyFails
  BY <1>9, DurablesAssumption, DurableShape, SMT DEF CopyFails, durable, Below,
      Seen, Covered, Put, Node
<1>10. CASE Bind
  BY <1>10, DurablesAssumption, DurableShape, SMT DEF Bind, durable, Below,
      Seen, Covered, Put, Node
<1>11. CASE BindFails
  BY <1>11, DurablesAssumption, DurableShape, SMT DEF BindFails, durable, Below,
      Seen, Covered, Put, Node
<1>12. CASE Finish
  BY <1>12, DurablesAssumption, DurableShape, SMT DEF Finish, durable, Below,
      Seen, Covered, Put, Node
<1>13. CASE FinishFails
  BY <1>13, DurablesAssumption, DurableShape, SMT DEF FinishFails, durable,
      Below, Seen, Covered, Put, Node
<1>14. CASE UserWrites
  BY <1>14, DurablesAssumption, DurableShape, SMT DEF UserWrites, durable,
      Below, Seen, Covered, Put, Node
<1>15. CASE UserRemoves
  BY <1>15, DurablesAssumption, DurableShape, SMT DEF UserRemoves, durable,
      Below, Seen, Covered, Put, Node
<1>16. CASE PowerOff
  BY <1>16, DurablesAssumption, DurableShape, SMT DEF PowerOff, durable, Below,
      Seen, Covered, Put, Node
<1>17. CASE UNCHANGED vars
  BY <1>17, SMT DEF durable, Seen, Covered
<1> QED BY <1>1, <1>2, <1>3, <1>4, <1>5, <1>6, <1>7, <1>8, <1>9, <1>10, <1>11,
    <1>12, <1>13, <1>14, <1>15, <1>16, <1>17, <1>18 DEF Next

\* Nothing is copied onto itself.
LEMMA CopyOntoItselfNever == IInv /\ [Next]_vars => NoCopyOntoItself'
<1> SUFFICES ASSUME IInv, [Next]_vars PROVE NoCopyOntoItself'
  OBVIOUS
<1> USE DEF IInv, TypeOK, BootOK, TreesOK, StepOK, CopyOK, NoCopyOntoItself
<1> USE DEF At, Frame, LogError, MayLogError, Copied, CutOff, RollBack,
    diskVars, historyVars, vars
<1>1. CASE PowerOn
  BY <1>1, DurablesAssumption, DurableShape, SMT DEF PowerOn, Covered
<1>2. CASE CreateMissing
  BY <1>2, DurablesAssumption, DurableShape, SMT DEF CreateMissing, Covered
<1>3. CASE CreatePersistent
  BY <1>3, DurablesAssumption, DurableShape, SMT DEF CreatePersistent, Covered
<1>4. CASE KeepPersistent
  BY <1>4, DurablesAssumption, DurableShape, SMT DEF KeepPersistent, Covered
<1>5. CASE StartCopy
  <2> SUFFICES ASSUME step' = "copy", NEW q \in todo', NEW d \in bound,
                      q \in Below(d)
               PROVE  FALSE
    BY <1>5 DEF StartCopy, Covered
  <2>1. /\ next <= Len(durables) /\ Seen(durable.path) # "absent"
        /\ repo[durable.path] = "absent" /\ q \in Below(durable.path)
    BY <1>5 DEF StartCopy, NeedsCopy
  <2>2. durable.path \in Path /\ d \in Path /\ q \in Path
    BY <2>1, DurableShape, BoundShape DEF Below
  <2>3. durable.path \in Below(d) \/ d \in Below(durable.path)
    BY <2>1, <2>2, DurablesAssumption DEF Below
  <2>4. CASE durable.path \in Below(d)
    BY <2>1, <2>4 DEF Seen, Covered
  <2>5. CASE d \in Below(durable.path)
    BY <2>1, <2>2, <2>5 DEF Below, TreesOK, WellFormed
  <2> QED BY <2>3, <2>4, <2>5
<1>6. CASE CopyDirectory
  BY <1>6, DurablesAssumption, DurableShape, SMT DEF CopyDirectory, Covered
<1>7. CASE OpenCopy
  BY <1>7, DurablesAssumption, DurableShape, SMT DEF OpenCopy, Covered
<1>8. CASE FillCopy
  BY <1>8, DurablesAssumption, DurableShape, SMT DEF FillCopy, Covered
<1>18. CASE FillCopyShort
  BY <1>18, DurablesAssumption, DurableShape, SMT DEF FillCopyShort, Covered
<1>9. CASE CopyFails
  BY <1>9, DurablesAssumption, DurableShape, SMT DEF CopyFails, Covered
<1>10. CASE Bind
  BY <1>10, DurablesAssumption, DurableShape, SMT DEF Bind, Covered
<1>11. CASE BindFails
  BY <1>11, DurablesAssumption, DurableShape, SMT DEF BindFails, Covered
<1>12. CASE Finish
  BY <1>12, DurablesAssumption, DurableShape, SMT DEF Finish, Covered
<1>13. CASE FinishFails
  BY <1>13, DurablesAssumption, DurableShape, SMT DEF FinishFails, Covered
<1>14. CASE UserWrites
  BY <1>14, DurablesAssumption, DurableShape, SMT DEF UserWrites, Covered
<1>15. CASE UserRemoves
  BY <1>15, DurablesAssumption, DurableShape, SMT DEF UserRemoves, Covered
<1>16. CASE PowerOff
  BY <1>16, DurablesAssumption, DurableShape, SMT DEF PowerOff, Covered
<1>17. CASE UNCHANGED vars
  BY <1>17, SMT DEF Covered
<1> QED BY <1>1, <1>2, <1>3, <1>4, <1>5, <1>6, <1>7, <1>8, <1>9, <1>10, <1>11,
    <1>12, <1>13, <1>14, <1>15, <1>16, <1>17, <1>18 DEF Next

\* What the user did is left alone.
LEMMA ObediencePreserved == IInv /\ [Next]_vars => UserIsObeyed'
<1> SUFFICES ASSUME IInv, [Next]_vars PROVE UserIsObeyed'
  OBVIOUS
<1> USE DEF IInv, TypeOK, BootOK, TreesOK, StepOK, BlankOK, CopyOK, UserOK,
    UserIsObeyed
<1> USE DEF At, Frame, LogError, MayLogError, Copied, CutOff, RollBack,
    diskVars, historyVars, vars
<1>1. CASE PowerOn
  BY <1>1, DurablesAssumption, DurableShape, SMT DEF PowerOn, OnlyInRepository,
      Listed
<1>2. CASE CreateMissing
  <2>1. PICK p \in Path, node \in {"blank", "dir", "part"} :
          repo' = repo \/ (repo' = Put(repo, p, node) /\ Untouched(p))
    <3>1. durable.path \in Path /\ Listed(durable.path)
      BY <1>2, DurableShape DEF CreateMissing, Listed, durable
    <3>2. \/ repo' = repo
          \/ /\ Covered(durable.path)
             /\ repo' = Put(repo, durable.path, Blank(durable.path))
      BY <1>2, SMT DEF CreateMissing, MakeSeen
    <3>3. Covered(durable.path) => repo[durable.path] = "absent"
      BY <1>2 DEF CreateMissing, Seen
    <3>4. repo[durable.path] = "absent" => Untouched(durable.path)
      BY <3>1 DEF Untouched, UserOK, TypeOK
    <3>5. Blank(durable.path) \in {"blank", "dir", "part"}
      BY DEF Blank
    <3>6. CASE repo' = repo
      BY <3>1, <3>6
    <3>7. CASE repo' = Put(repo, durable.path, Blank(durable.path))
      BY <3>1, <3>2, <3>3, <3>4, <3>5, <3>6, <3>7
    <3> QED BY <3>2, <3>6, <3>7
  <2>2. user' = user /\ durables' = durables
    BY <1>2, SMT DEF CreateMissing
  <2> HIDE DEF IInv, UserIsObeyed
  <2> QED BY <2>1, <2>2, ObeyedByPut
<1>3. CASE CreatePersistent
  <2>1. PICK p \in Path, node \in {"blank", "dir", "part"} :
          repo' = repo \/ (repo' = Put(repo, p, node) /\ Untouched(p))
    <3>1. durable.path \in Path /\ Listed(durable.path)
      BY <1>3, DurableShape DEF CreatePersistent, Listed, durable
    <3>2. \/ repo' = repo
          \/ /\ durable.path \in File \/ repo[durable.path] = "absent"
             /\ repo' = Put(repo, durable.path, Blank(durable.path))
      BY <1>3, SMT DEF CreatePersistent
    <3>3. durable.path \in File /\ Original[durable.path] # "absent"
            => repo[durable.path] \in {"absent", "blank"}
      BY <1>3 DEF CreatePersistent, StepOK, BlankOK
    <3>4. durable.path \in File /\ Original[durable.path] = "absent"
            => OnlyInRepository(durable.path)
      BY <3>1 DEF Listed, OnlyInRepository
    <3>5. durable.path \in File \/ repo[durable.path] = "absent"
            => Untouched(durable.path)
      BY <3>1, <3>3, <3>4, SMT DEF Untouched, UserOK, UserIsObeyed, TypeOK
    <3>6. Blank(durable.path) \in {"blank", "dir", "part"}
      BY DEF Blank
    <3>7. CASE repo' = repo
      BY <3>1, <3>7
    <3>8. CASE repo' = Put(repo, durable.path, Blank(durable.path))
      BY <3>1, <3>2, <3>5, <3>6, <3>7, <3>8
    <3> QED BY <3>2, <3>7, <3>8
  <2>2. user' = user /\ durables' = durables
    BY <1>3, SMT DEF CreatePersistent
  <2> HIDE DEF IInv, UserIsObeyed
  <2> QED BY <2>1, <2>2, ObeyedByPut
<1>4. CASE KeepPersistent
  BY <1>4, DurablesAssumption, DurableShape, SMT DEF KeepPersistent,
      OnlyInRepository, Listed
<1>5. CASE StartCopy
  BY <1>5, DurablesAssumption, DurableShape, SMT DEF StartCopy,
      OnlyInRepository, Listed
<1>6. CASE CopyDirectory
  <2>1. PICK p \in Path, node \in {"blank", "dir", "part"} :
          repo' = repo \/ (repo' = Put(repo, p, node) /\ Untouched(p))
    <3>1. PICK q \in todo : repo' = repo \/ repo' = Put(repo, q, "dir")
      BY <1>6 DEF CopyDirectory
    <3>2. q \in Path /\ user[q] = "none"
      BY <1>6 DEF CopyDirectory, StepOK, CopyOK, TypeOK
    <3> QED BY <3>1, <3>2 DEF Untouched
  <2>2. user' = user /\ durables' = durables
    BY <1>6, SMT DEF CopyDirectory
  <2> HIDE DEF IInv, UserIsObeyed
  <2> QED BY <2>1, <2>2, ObeyedByPut
<1>7. CASE OpenCopy
  <2>1. PICK p \in Path, node \in {"blank", "dir", "part"} :
          repo' = repo \/ (repo' = Put(repo, p, node) /\ Untouched(p))
    <3>1. PICK q \in todo : repo' = repo \/ repo' = Put(repo, q, "part")
      BY <1>7 DEF OpenCopy
    <3>2. q \in Path /\ user[q] = "none"
      BY <1>7 DEF OpenCopy, StepOK, CopyOK, TypeOK
    <3> QED BY <3>1, <3>2 DEF Untouched
  <2>2. user' = user /\ durables' = durables
    BY <1>7, SMT DEF OpenCopy
  <2> HIDE DEF IInv, UserIsObeyed
  <2> QED BY <2>1, <2>2, ObeyedByPut
<1>8. CASE FillCopy
  BY <1>8, DurablesAssumption, DurableShape, SMT DEF FillCopy, OnlyInRepository,
      Listed
<1>18. CASE FillCopyShort
  BY <1>18, DurablesAssumption, DurableShape, SMT DEF FillCopyShort, OnlyInRepository,
      Listed
<1>9. CASE CopyFails
  BY <1>9, DurablesAssumption, DurableShape, SMT DEF CopyFails,
      OnlyInRepository, Listed
<1>10. CASE Bind
  BY <1>10, DurablesAssumption, DurableShape, SMT DEF Bind, OnlyInRepository,
      Listed
<1>11. CASE BindFails
  BY <1>11, DurablesAssumption, DurableShape, SMT DEF BindFails,
      OnlyInRepository, Listed
<1>12. CASE Finish
  BY <1>12, DurablesAssumption, DurableShape, SMT DEF Finish, OnlyInRepository,
      Listed
<1>13. CASE FinishFails
  BY <1>13, DurablesAssumption, DurableShape, SMT DEF FinishFails,
      OnlyInRepository, Listed
<1>14. CASE UserWrites
  BY <1>14, DurablesAssumption, DurableShape, SMT DEF UserWrites,
      OnlyInRepository, Listed
<1>15. CASE UserRemoves
  BY <1>15, DurablesAssumption, DurableShape, SMT DEF UserRemoves,
      OnlyInRepository, Listed
<1>16. CASE PowerOff
  BY <1>16, DurablesAssumption, DurableShape, SMT DEF PowerOff,
      OnlyInRepository, Listed
<1>17. CASE UNCHANGED vars
  BY <1>17, SMT DEF OnlyInRepository
<1> QED BY <1>1, <1>2, <1>3, <1>4, <1>5, <1>6, <1>7, <1>8, <1>9, <1>10, <1>11,
    <1>12, <1>13, <1>14, <1>15, <1>16, <1>17, <1>18 DEF Next

------------------------------------------------------------------------------

\* Every reachable state satisfies the invariant.
THEOREM Invariance == Spec => []IInv
<1>1. IInv /\ [Next]_vars => IInv'
  BY TypePreserved, TreesPreserved, BootPreserved, UserPreserved,
     BlankPreserved, CopyPreserved, BindPreserved, ObediencePreserved,
     CopyOntoItselfNever DEF IInv, StepOK
<1> QED
  BY InitInv, <1>1, PTL DEF Spec

\* Type correctness.
THEOREM TypeCorrect == Spec => []TypeOK
<1>1. IInv => TypeOK
  BY DEF IInv
<1> QED BY Invariance, <1>1, PTL

\* The next boots find what the user wrote through a durable, and nothing that
\* the user removed.
THEOREM Obedience == Spec => []UserIsObeyed
<1>1. IInv => UserIsObeyed
  BY DEF IInv
<1> QED BY Invariance, <1>1, PTL

\* No file is copied onto itself.
THEOREM CopiesAreApart == Spec => []NoCopyOntoItself
<1>1. IInv => NoCopyOntoItself
  BY DEF IInv
<1> QED BY Invariance, <1>1, PTL

\* Without an error of its own a boot can bind every durable, whatever earlier
\* boots have left behind.
THEOREM Bindability == Spec => []AlwaysBindable
<1>1. IInv => AlwaysBindable
  <2> SUFFICES ASSUME IInv, At("bind"), ~error
               PROVE  CanBind(durable.path)
    BY DEF AlwaysBindable
  <2> DEFINE p == durable.path
  <2>1. p \in Path
    BY DurableShape DEF IInv, At
  <2>2. repo[p] # "absent" /\ Seen(p) # "absent"
    BY DEF IInv, StepOK, BindOK, At
  <2>3. \A node \in Node \ {"absent"} :
          KindOK(p, node) => (IsFile(node) <=> p \in File)
    BY DEF KindOK, IsFile, Node
  <2>4. repo[p] \in Node /\ Seen(p) \in Node
    BY <2>1, SeenShape DEF IInv, TypeOK
  <2>5. KindOK(p, repo[p]) /\ KindOK(p, upper[p]) /\ KindOK(p, Original[p])
    BY <2>1, DurablesAssumption DEF IInv, TreesOK, WellFormed, KindOK, IsFile
  <2>6. KindOK(p, Seen(p))
    BY <2>5 DEF Seen
  <2> HIDE DEF p
  <2>7. CanBind(p)
    BY <2>2, <2>3, <2>4, <2>5, <2>6 DEF CanBind
  <2> QED BY <2>7 DEF p
<1> QED BY Invariance, <1>1, PTL

------------------------------------------------------------------------------
(***************************************************************************)
(* What is copied of the original of a durable (obInitDurables, obSync).   *)
(*                                                                         *)
(* A copy that is there is whole but for what is still to be copied        *)
(* (WholeOK).  That needs to know that the upper layer hides no original   *)
(* (UpperOK), that a durable which is made blank has none (EmptyOK), and   *)
(* that a copy begins with all that there is (TodoOK).                     *)
(***************************************************************************)

\* The durables that are prepared before those that they are nested with.
First(i) == \A j \in 1..i - 1 : ~Nested(durables[i].path, durables[j].path)

\* What obinit makes in the upper layer hides no file of the layers below it.
UpperOK == \A p \in Path : Original[p] = "original" => upper[p] = "absent"

\* The copy of an original is not made blank.
EmptyOK ==
  At("blank") /\ durable.copyOrigin /\ First(next)
    => Original[durable.path] = "absent"

\* As long as the copy does not exist, all of the original is to be copied.
TodoOK ==
  At("copy") /\ repo[durable.path] = "absent"
    => \A p \in Below(durable.path) : Original[p] # "absent" => p \in todo

\* The copy of a durable holds what is not to be copied any more.
Whole(i) ==
  (/\ durables[i].copyOrigin /\ durables[i].path \notin cut
   /\ First(i) /\ repo[durables[i].path] # "absent")
    => \A p \in Below(durables[i].path) :
         (/\ Original[p] # "absent" /\ user[p] = "none"
          /\ ~(i = next /\ p \in todo))
           => repo[p] = Original[p]

WholeOK == \A i \in DOMAIN durables : Whole(i)

CInv == UpperOK /\ EmptyOK /\ TodoOK /\ WholeOK

------------------------------------------------------------------------------

\* The places of the list hold durables.
LEMMA ListShape ==
  ASSUME TypeOK
  PROVE  /\ Len(durables) \in Nat /\ DOMAIN durables = 1..Len(durables)
         /\ next \in Nat /\ next >= 1
         /\ \A i \in DOMAIN durables :
              durables[i].path \in Path /\ durables[i].copyOrigin \in BOOLEAN
<1>1. durables \in Seq([path: Path, copyOrigin: BOOLEAN])
  BY DurablesAssumption DEF TypeOK
<1>2. \A i \in 1..Len(durables) : durables[i] \in [path: Path, copyOrigin: BOOLEAN]
  BY <1>1, ElementOfSeq
<1>3. Len(durables) \in Nat /\ DOMAIN durables = 1..Len(durables)
  BY <1>1
<1> QED BY <1>2, <1>3 DEF TypeOK

\* Two paths above or at the same path are nested.
LEMMA Comparable ==
  ASSUME NEW p \in Path, NEW q \in Path, NEW x \in Below(p), x \in Below(q)
  PROVE  Nested(p, q)
  BY DurablesAssumption DEF Below, Nested

\* What is below of what is below a path.
LEMMA BelowBelow ==
  ASSUME NEW p \in Path, NEW q \in Below(p), NEW x \in Path, q \in Above[x]
  PROVE  x \in Below(p)
  BY DurablesAssumption DEF Below

\* A durable that is prepared before those it is nested with is not covered.
LEMMA FirstUncovered ==
  ASSUME IInv, next <= Len(durables), First(next)
  PROVE  ~Covered(durable.path)
<1> SUFFICES ASSUME NEW d \in bound, durable.path \in Below(d) PROVE FALSE
  BY DEF Covered
<1>1. PICK j \in 1..next - 1 : d = durables[j].path
  BY DEF IInv, TypeOK
<1> QED BY <1>1 DEF First, Nested, durable

\* A path of the durable that is prepared is in no other durable that counts,
\* unless that one is bound.
LEMMA OtherIsBound ==
  ASSUME IInv, pc = "durables", next <= Len(durables),
         NEW x \in Below(durable.path),
         NEW i \in DOMAIN durables, First(i), i # next,
         x \in Below(durables[i].path)
  PROVE  Covered(x) /\ repo[durables[i].path] # "absent"
<1>1. /\ next \in Nat /\ next >= 1 /\ i \in Nat /\ i >= 1
      /\ durables[i].path \in Path /\ durable.path \in Path
  BY ListShape, DurableShape DEF IInv
<1>2. CASE i < next
  BY <1>1, <1>2 DEF IInv, BootOK, TreesOK, Covered
<1>3. CASE i > next
  <2>1. Nested(durables[i].path, durable.path)
    BY <1>1, Comparable
  <2>2. next \in 1..i - 1
    BY <1>1, <1>3
  <2> QED BY <2>1, <2>2 DEF First, durable
<1> QED BY <1>1, <1>2, <1>3

\* What is put at a path of the durable that is prepared leaves the others
\* whole.
LEMMA OthersStayWhole ==
  ASSUME IInv, WholeOK, pc = "durables", next <= Len(durables),
         NEW x \in Below(durable.path), NEW node \in Node, node # "absent",
         repo' = Put(repo, x, node),
         durables' = durables, user' = user, cut' = cut, next' = next,
         NEW i \in DOMAIN durables, i # next,
         \/ ~Covered(x)
         \/ Original[x] # "absent" => repo[x] # Original[x]
  PROVE  Whole(i)'
<1> DEFINE d == durables[i].path
<1> SUFFICES ASSUME durables[i].copyOrigin, d \notin cut, First(i),
                    repo'[d] # "absent",
                    NEW p \in Below(d), Original[p] # "absent",
                    user[p] = "none"
             PROVE  repo'[p] = Original[p]
  BY DEF Whole, First, Below
<1>1. d \in Path /\ x \in Path /\ p \in Path /\ repo \in [Path -> Node]
  BY ListShape DEF IInv, TypeOK, Below
<1>2. x \in Below(d) => Covered(x) /\ repo[d] # "absent"
  BY OtherIsBound
<1>6. /\ \A q \in Path : q # x /\ repo[q] # "absent" => repo'[q] = repo[q]
      /\ \A q \in Path : q # x /\ q \notin Above[x] => repo'[q] = repo[q]
  BY <1>1 DEF Put
<1>3. repo[d] # "absent"
  <2> SUFFICES ASSUME repo[d] = "absent" PROVE FALSE
    OBVIOUS
  <2>1. d = x \/ d \in Above[x]
    BY <1>1, <1>6
  <2> QED BY <1>1, <1>2, <2>1 DEF Below
<1>4. repo[p] = Original[p]
  BY <1>3 DEF WholeOK, Whole
<1>5. p # x
  BY <1>2, <1>4
<1> QED BY <1>1, <1>4, <1>5, <1>6

\* Where the repository is left alone, no copy is hurt.
LEMMA WholeByFrame ==
  ASSUME IInv, WholeOK, repo' = repo, durables' = durables, user' = user,
         cut \subseteq cut', todo = {}
  PROVE  WholeOK'
  BY DEF WholeOK, Whole, First, Below

------------------------------------------------------------------------------

\* The initial state satisfies the invariant.
LEMMA InitCopy == Init => CInv
<1> SUFFICES ASSUME Init PROVE CInv
  OBVIOUS
<1>1. UpperOK /\ EmptyOK /\ TodoOK
  BY DEF Init, UpperOK, EmptyOK, TodoOK, At, Nothing
<1>2. ASSUME NEW i \in DOMAIN durables PROVE Whole(i)
  <2>1. durables[i].path \in Path
    BY InitInv, ListShape DEF IInv
  <2> QED BY <2>1 DEF Init, Whole, Nothing
<1> QED BY <1>1, <1>2 DEF CInv, WholeOK

\* No step hides an original.
LEMMA UpperPreserved == IInv /\ UpperOK /\ [Next]_vars => UpperOK'
<1> SUFFICES ASSUME IInv, UpperOK, [Next]_vars PROVE UpperOK'
  OBVIOUS
<1>0. upper \in [Path -> Node]
  BY DEF IInv, TypeOK, Node
<1>1. ASSUME NEW x \in Path, NEW node \in Node, ~Covered(x),
             Seen(x) = "absent", upper' = Put(upper, x, node)
      PROVE  UpperOK'
  <2> SUFFICES ASSUME NEW p \in Path, Original[p] = "original"
               PROVE  upper'[p] = "absent"
    BY DEF UpperOK
  <2>1. p # x
    BY <1>1 DEF Seen
  <2>2. p \notin Above[x]
    BY DurablesAssumption
  <2> QED BY <1>0, <1>1, <2>1, <2>2, PutShape DEF UpperOK
<1>2. CASE PowerOn
  BY <1>2 DEF PowerOn, UpperOK, Nothing
<1>3. CASE CreateMissing
  <2>1. /\ durable.path \in Path /\ Blank(durable.path) \in Node
        /\ Seen(durable.path) = "absent"
    BY <1>3, DurableShape DEF CreateMissing, At, IInv, Blank, Node
  <2>2. CASE upper' = upper
    BY <2>2 DEF UpperOK
  <2>3. CASE MakeSeen(durable.path)
    BY <2>1, <2>2, <2>3, <1>1 DEF MakeSeen
  <2> QED BY <1>3, <2>2, <2>3 DEF CreateMissing, diskVars
<1>4. CASE Bind
  <2>1. /\ durable.path \in Path /\ "dir" \in Node
        /\ repo[durable.path] # "absent"
    BY <1>4, DurableShape DEF Bind, At, IInv, Node, CanBind
  <2>2. CASE Seen(durable.path) = "absent"
    <3>1. upper' = Put(upper, durable.path, "dir")
      BY <1>4, <2>2 DEF Bind
    <3>2. ~Covered(durable.path)
      BY <2>1, <2>2 DEF Seen
    <3> QED BY <2>1, <2>2, <3>1, <3>2, <1>1
  <2>3. CASE Seen(durable.path) # "absent"
    BY <1>4, <2>3 DEF Bind, UpperOK
  <2> QED BY <2>2, <2>3
<1>5. CASE ~PowerOn /\ ~CreateMissing /\ ~Bind
  BY <1>5, SMT DEF UpperOK, Next, vars, CreatePersistent, KeepPersistent, StartCopy,
     CopyDirectory, OpenCopy, FillCopy, FillCopyShort, CopyFails, BindFails,
     RollBack, Finish, FinishFails, UserWrites, UserRemoves, PowerOff
<1> QED BY <1>2, <1>3, <1>4, <1>5

\* A step makes blank only what has no original, or is not to have a copy.
LEMMA EmptyPreserved == IInv /\ EmptyOK /\ [Next]_vars => EmptyOK'
<1> SUFFICES ASSUME IInv, EmptyOK, [Next]_vars, At("blank")',
                    durable.copyOrigin', First(next)'
             PROVE  (Original[durable.path] = "absent")'
  BY DEF EmptyOK
<1>1. CASE CreateMissing
  <2>1. /\ next <= Len(durables) /\ Seen(durable.path) = "absent"
        /\ durables' = durables /\ next' = next
    BY <1>1 DEF CreateMissing, At, Frame
  <2>2. First(next)
    BY <2>1 DEF First, Nested, Below
  <2>3. ~Covered(durable.path)
    BY <2>1, <2>2, FirstUncovered
  <2> QED BY <2>1, <2>3 DEF Seen, durable
<1>2. CASE StartCopy
  BY <1>2, SMT DEF StartCopy, At, Frame, durable
<1>3. CASE UNCHANGED vars
  BY <1>3, SMT DEF vars, EmptyOK, At, durable, First, Nested, Below
<1>4. CASE Next /\ ~CreateMissing /\ ~StartCopy
  BY <1>4, SMT DEF Next, At, Frame, PowerOn, CreatePersistent, KeepPersistent,
     CopyDirectory, OpenCopy, FillCopy, FillCopyShort, Copied, CopyFails, Bind, BindFails,
     RollBack, Finish, FinishFails, UserWrites, UserRemoves, PowerOff
<1> QED BY <1>1, <1>2, <1>3, <1>4

\* A copy begins with the whole original.
LEMMA TodoPreserved == IInv /\ TodoOK /\ [Next]_vars => TodoOK'
<1> SUFFICES ASSUME IInv, TodoOK, [Next]_vars, At("copy")',
                    (repo[durable.path] = "absent")',
                    NEW p \in Below(durable.path'), Original[p] # "absent"
             PROVE  p \in todo'
  BY DEF TodoOK, Below
<1>1. CASE StartCopy
  <2>1. /\ next <= Len(durables) /\ Seen(durable.path) # "absent"
        /\ repo[durable.path] = "absent" /\ durable' = durable
        /\ todo' = {q \in Below(durable.path) : Seen(q) # "absent"}
    BY <1>1, SMT DEF StartCopy, At, Frame, NeedsCopy, durable
  <2>2. durable.path \in Path
    BY <2>1, DurableShape DEF IInv
  <2>3. ASSUME NEW d \in bound, p \in Below(d) PROVE FALSE
    <3>1. d \in Path
      BY BoundShape DEF IInv
    <3>2. d \in Below(durable.path) \/ durable.path \in Below(d)
      BY <2>1, <2>2, <2>3, <3>1, Comparable DEF Nested
    <3>3. CASE durable.path \in Below(d)
      BY <2>1, <3>3 DEF Seen, Covered
    <3>4. CASE d \in Below(durable.path)
      BY <2>1, <2>2, <3>1, <3>4 DEF Below, IInv, TreesOK, WellFormed
    <3> QED BY <3>2, <3>3, <3>4
  <2>4. Seen(p) # "absent"
    BY <2>3 DEF Seen, Covered
  <2> QED BY <2>1, <2>4
<1>2. CASE CopyDirectory \/ OpenCopy \/ FillCopy \/ FillCopyShort
  <2>1. /\ At("copy") /\ durable' = durable
    BY <1>2, SMT DEF CopyDirectory, OpenCopy, FillCopy, FillCopyShort, Frame,
       durable
  <2>2. durable.path \in Path /\ repo \in [Path -> Node]
    BY <2>1, DurableShape DEF IInv, TypeOK, At
  <2>3. \A r \in todo : r \in Path /\ Seen(r) # "absent"
    BY <2>1 DEF IInv, TypeOK, StepOK, CopyOK
  <2>8. PICK q \in todo :
          \/ \E node \in {"dir", "part"} : repo' = Put(repo, q, node)
          \/ repo[q] # "absent" /\ repo' = [repo EXCEPT ![q] = Seen(q)]
          \/ repo[q] # "absent" /\ repo' = repo
    BY <1>2, SMT DEF CopyDirectory, OpenCopy, FillCopy, FillCopyShort
  <2>4. q \in Path /\ (q = durable.path \/ durable.path \in Above[q])
    BY <2>1 DEF IInv, StepOK, CopyOK, Below
  <2>5. "dir" \in Node /\ "part" \in Node
    BY DEF Node
  <2>6. CASE \E node \in {"dir", "part"} : repo' = Put(repo, q, node)
    <3>1. PICK node \in {"dir", "part"} : repo' = Put(repo, q, node)
      BY <2>6
    <3>2. repo'[durable.path] # "absent"
      BY <2>2, <2>4, <3>1 DEF Put
    <3> QED BY <2>1, <3>2
  <2>7. CASE /\ repo[q] # "absent"
             /\ repo' = repo \/ repo' = [repo EXCEPT ![q] = Seen(q)]
    <3>1. repo[durable.path] # "absent"
      BY <2>2, <2>4, <2>7 DEF IInv, TreesOK, WellFormed
    <3>2. repo'[durable.path] # "absent"
      BY <2>2, <2>3, <2>7, <3>1
    <3> QED BY <2>1, <3>2
  <2> QED BY <2>8, <2>6, <2>7
<1>3. CASE UNCHANGED vars
  BY <1>3, SMT DEF vars, TodoOK, At, durable, Below
<1>4. CASE Next /\ ~StartCopy /\ ~CopyDirectory /\ ~OpenCopy /\ ~FillCopy
            /\ ~FillCopyShort
  BY <1>4, SMT DEF Next, At, Frame, PowerOn, CreateMissing, CreatePersistent,
     KeepPersistent, CopyFails, Bind, BindFails, RollBack, Finish, FinishFails,
     UserWrites, UserRemoves, PowerOff
<1> QED BY <1>1, <1>2, <1>3, <1>4

\* A copy stays whole.
LEMMA WholePreserved == IInv /\ CInv /\ [Next]_vars => WholeOK'
<1> SUFFICES ASSUME IInv, CInv, [Next]_vars PROVE WholeOK'
  OBVIOUS
<1> USE DEF CInv
<1>0. step # "copy" => todo = {}
  BY DEF IInv, TypeOK
<1>1. ASSUME step # "copy", repo' = repo, durables' = durables, user' = user,
             cut' = cut
      PROVE  WholeOK'
  BY <1>0, <1>1, WholeByFrame
<1>2. CASE CreateMissing
  <2>1. /\ At("look") /\ Seen(durable.path) = "absent"
        /\ durables' = durables /\ user' = user /\ cut' = cut /\ next' = next
    BY <1>2 DEF CreateMissing, Frame
  <2>2. CASE repo' = repo
    BY <2>1, <2>2, <1>1 DEF At
  <2>3. CASE repo' # repo
    <3>1. /\ Covered(durable.path) /\ repo[durable.path] = "absent"
          /\ repo' = Put(repo, durable.path, Blank(durable.path))
      BY <1>2, <2>1, <2>3 DEF CreateMissing, MakeSeen, diskVars, Seen
    <3>2. /\ durable.path \in Below(durable.path)
          /\ Blank(durable.path) \in Node /\ Blank(durable.path) # "absent"
      BY <2>1, DurableShape DEF At, IInv, Below, Blank, Node
    <3>3. ASSUME NEW i \in DOMAIN durables, i # next PROVE Whole(i)'
      BY <2>1, <3>1, <3>2, <3>3, OthersStayWhole DEF At
    <3>4. Whole(next)'
      BY <2>1, <3>1, FirstUncovered DEF At, Whole, First
    <3> QED BY <2>1, <3>3, <3>4 DEF WholeOK
  <2> QED BY <2>2, <2>3
<1>3. CASE CreatePersistent
  <2>1. /\ At("blank")
        /\ durables' = durables /\ user' = user /\ cut' = cut /\ next' = next
    BY <1>3 DEF CreatePersistent, Frame
  <2>2. CASE repo' = repo
    BY <2>1, <2>2, <1>1 DEF At
  <2>3. CASE repo' # repo
    <3>1. /\ durable.path \in File \/ repo[durable.path] = "absent"
          /\ repo' = Put(repo, durable.path, Blank(durable.path))
      BY <1>3, <2>3 DEF CreatePersistent
    <3>2. /\ durable.path \in Below(durable.path) /\ durable.path \in Path
          /\ Blank(durable.path) \in Node /\ Blank(durable.path) # "absent"
      BY <2>1, DurableShape DEF At, IInv, Below, Blank, Node
    <3>3. Original[durable.path] # "absent"
            => repo[durable.path] # Original[durable.path]
      BY <2>1, <3>1, <3>2, DurablesAssumption DEF IInv, StepOK, BlankOK
    <3>4. ASSUME NEW i \in DOMAIN durables, i # next PROVE Whole(i)'
      BY <2>1, <3>1, <3>2, <3>3, <3>4, OthersStayWhole DEF At
    <3>5. Whole(next)'
      <4> SUFFICES ASSUME durable.copyOrigin, First(next),
                          NEW p \in Below(durable.path),
                          Original[p] # "absent"
                   PROVE  FALSE
        BY <2>1 DEF Whole, First, durable, Below
      <4>1. Original[durable.path] = "absent"
        BY <2>1 DEF EmptyOK
      <4> QED BY <3>2, <4>1, DurablesAssumption DEF Below
    <3> QED BY <2>1, <3>4, <3>5 DEF WholeOK
  <2> QED BY <2>2, <2>3
<1>4. CASE CopyDirectory
  <2>1. /\ At("copy")
        /\ durables' = durables /\ user' = user /\ cut' = cut /\ next' = next
    BY <1>4 DEF CopyDirectory, Frame
  <2>2. PICK q \in todo :
          /\ Visits(q) /\ q \notin File /\ todo' = todo \ {q}
          /\ repo' = IF repo[q] = "absent" THEN Put(repo, q, "dir") ELSE repo
    BY <1>4 DEF CopyDirectory, Copied
  <2>3. /\ q \in Below(durable.path) /\ q \in Path /\ durable.path \in Path
        /\ ~Covered(q) /\ repo \in [Path -> Node] /\ "dir" \in Node
    BY <2>1, DurableShape
       DEF IInv, TypeOK, At, StepOK, CopyOK, NoCopyOntoItself, Node
  <2>4. ASSUME NEW i \in DOMAIN durables, i # next PROVE Whole(i)'
    <3>1. CASE repo' = repo
      BY <2>1, <2>4, <3>1 DEF WholeOK, Whole, First, Below
    <3>2. CASE repo' = Put(repo, q, "dir")
      BY <2>1, <2>3, <2>4, <3>2, OthersStayWhole DEF At
    <3> QED BY <2>2, <3>1, <3>2
  <2>5. Whole(next)'
    <3> SUFFICES ASSUME durable.copyOrigin, durable.path \notin cut,
                        First(next), NEW p \in Below(durable.path),
                        Original[p] # "absent", user[p] = "none",
                        p \notin todo \ {q}
                 PROVE  repo'[p] = Original[p]
      BY <2>1, <2>2 DEF Whole, First, durable, Below
    <3>1. CASE p = q
      <4>1. Original[q] = "dir"
        BY <2>2, <2>3, <3>1, DurablesAssumption
      <4>2. repo'[q] = "dir"
        BY <2>2, <2>3 DEF Put, IInv, TreesOK, WellFormed, KindOK, IsFile, Node
      <4> QED BY <3>1, <4>1, <4>2
    <3>2. CASE p # q
      <4>1. p \notin todo /\ p \in Path
        BY <3>2 DEF Below
      <4>2. repo[durable.path] # "absent"
        BY <2>1, <4>1 DEF TodoOK
      <4>3. repo[p] = Original[p]
        BY <2>1, <4>1, <4>2, ListShape
           DEF WholeOK, Whole, durable, At, IInv
      <4> QED BY <2>2, <2>3, <3>2, <4>1, <4>3 DEF Put
    <3> QED BY <3>1, <3>2
  <2> QED BY <2>1, <2>4, <2>5 DEF WholeOK
<1>5. CASE OpenCopy
  <2>1. /\ At("copy") /\ todo' = todo
        /\ durables' = durables /\ user' = user /\ cut' = cut /\ next' = next
    BY <1>5 DEF OpenCopy, Frame
  <2>2. PICK q \in todo : repo' = Put(repo, q, "part")
    BY <1>5 DEF OpenCopy
  <2>3. /\ q \in Below(durable.path) /\ q \in Path /\ durable.path \in Path
        /\ ~Covered(q) /\ repo \in [Path -> Node] /\ "part" \in Node
    BY <2>1, DurableShape
       DEF IInv, TypeOK, At, StepOK, CopyOK, NoCopyOntoItself, Node
  <2>4. ASSUME NEW i \in DOMAIN durables, i # next PROVE Whole(i)'
    BY <2>1, <2>2, <2>3, <2>4, OthersStayWhole DEF At
  <2>5. Whole(next)'
    <3> SUFFICES ASSUME durable.copyOrigin, durable.path \notin cut,
                        First(next), NEW p \in Below(durable.path),
                        Original[p] # "absent", user[p] = "none",
                        p \notin todo
                 PROVE  repo'[p] = Original[p]
      BY <2>1, <2>2 DEF Whole, First, durable, Below
    <3>1. repo[durable.path] # "absent"
      BY <2>1 DEF TodoOK
    <3>2. repo[p] = Original[p]
      BY <2>1, <3>1, ListShape DEF WholeOK, Whole, durable, At, IInv
    <3> QED BY <2>2, <2>3, <3>2 DEF Put, Below
  <2> QED BY <2>1, <2>4, <2>5 DEF WholeOK
<1>6. CASE FillCopy
  <2>1. /\ At("copy")
        /\ durables' = durables /\ user' = user /\ cut' = cut /\ next' = next
    BY <1>6 DEF FillCopy, Frame
  <2>2. PICK q \in todo :
          /\ q \in File /\ repo[q] = "part" /\ todo' = todo \ {q}
          /\ repo' = [repo EXCEPT ![q] = Seen(q)]
    BY <1>6 DEF FillCopy, Copied
  <2>3. /\ q \in Below(durable.path) /\ q \in Path /\ durable.path \in Path
        /\ ~Covered(q) /\ repo \in [Path -> Node]
    BY <2>1, DurableShape
       DEF IInv, TypeOK, At, StepOK, CopyOK, NoCopyOntoItself
  <2> SUFFICES ASSUME NEW i \in DOMAIN durables, durables[i].copyOrigin,
                      durables[i].path \notin cut, First(i),
                      repo'[durables[i].path] # "absent",
                      NEW p \in Below(durables[i].path),
                      Original[p] # "absent", user[p] = "none",
                      ~(i = next /\ p \in todo \ {q})
               PROVE  repo'[p] = Original[p]
    BY <2>1, <2>2 DEF WholeOK, Whole, First, Below
  <2>4. p \in Path /\ durables[i].path \in Path
    BY ListShape DEF IInv, Below
  <2>5. repo[durables[i].path] # "absent"
    BY <2>2, <2>3, <2>4
  <2>6. CASE i = next /\ p = q
    <3>1. Original[p] = "original"
      BY <2>2, <2>4, <2>6, DurablesAssumption
    <3>2. Seen(p) = Original[p]
      BY <2>3, <2>4, <2>6, <3>1 DEF Seen, UpperOK
    <3> QED BY <2>2, <2>3, <2>6, <3>2
  <2>7. CASE ~(i = next /\ p = q)
    <3>1. repo[p] = Original[p]
      BY <2>5, <2>7 DEF WholeOK, Whole
    <3>2. p # q
      BY <2>1, <2>3, <2>7, OtherIsBound DEF At
    <3> QED BY <2>2, <2>3, <2>4, <3>1, <3>2
  <2> QED BY <2>6, <2>7
<1>13. CASE FillCopyShort
  <2>1. /\ At("copy") /\ durables' = durables /\ user' = user /\ next' = next
        /\ repo' = repo /\ cut' = cut \cup {durable.path}
    BY <1>13 DEF FillCopyShort, Frame
  <2> SUFFICES ASSUME NEW i \in DOMAIN durables', durables'[i].path \notin cut'
               PROVE  Whole(i)'
    BY DEF WholeOK, Whole
  <2>2. i # next
    BY <2>1 DEF durable
  <2> QED BY <2>1, <2>2 DEF WholeOK, Whole, First, Below
<1>7. CASE CopyFails
  <2> SUFFICES ASSUME NEW i \in DOMAIN durables', durables'[i].path \notin cut',
                      repo'[durables'[i].path] # "absent"
               PROVE  Whole(i)'
    BY DEF WholeOK, Whole
  <2>1. /\ repo' = repo /\ durables' = durables /\ user' = user
        /\ next' = next /\ cut \subseteq cut' /\ next <= Len(durables)
        /\ repo[durable.path] # "absent" => durable.path \in cut'
    BY <1>7 DEF CopyFails, CutOff, Frame, At
  <2>2. i # next
    BY <2>1 DEF durable
  <2> QED BY <2>1, <2>2 DEF WholeOK, Whole, First, Below
<1>8. CASE UserWrites \/ UserRemoves
  <2>1. /\ pc = "os" /\ durables' = durables /\ cut' = cut
    BY <1>8 DEF UserWrites, UserRemoves
  <2>2. todo = {}
    BY <1>0, <2>1 DEF IInv, BootOK
  <2>3. PICK x \in File, node \in Node, deed \in {"wrote", "removed"} :
          /\ repo' = [repo EXCEPT ![x] = node]
          /\ user' = [user EXCEPT ![x] = deed]
    BY <1>8 DEF UserWrites, UserRemoves, Node
  <2> SUFFICES ASSUME NEW i \in DOMAIN durables, durables[i].copyOrigin,
                      durables[i].path \notin cut, First(i),
                      repo'[durables[i].path] # "absent",
                      NEW p \in Below(durables[i].path),
                      Original[p] # "absent", user'[p] = "none"
               PROVE  repo'[p] = Original[p]
    BY <2>1 DEF WholeOK, Whole, First, Below
  <2>4. p \in Path /\ durables[i].path \in Path /\ x \in Path
    BY ListShape, DurablesAssumption DEF IInv, Below
  <2>5. p # x
    BY <2>3, <2>4 DEF IInv, TypeOK
  <2>6. durables[i].path # x
    BY <2>4, <2>5, DurablesAssumption DEF Below
  <2>7. /\ repo'[p] = repo[p] /\ user'[p] = user[p]
        /\ repo'[durables[i].path] = repo[durables[i].path]
    BY <2>3, <2>4, <2>5, <2>6 DEF IInv, TypeOK
  <2> QED BY <2>2, <2>7 DEF WholeOK, Whole
<1>9. CASE PowerOff
  <2>1. CASE At("copy")
    <3> SUFFICES ASSUME NEW i \in DOMAIN durables',
                        durables'[i].path \notin cut',
                        repo'[durables'[i].path] # "absent"
                 PROVE  Whole(i)'
      BY DEF WholeOK, Whole
    <3>1. /\ repo' = repo /\ durables' = durables /\ user' = user
          /\ cut \subseteq cut' /\ next <= Len(durables)
          /\ repo[durable.path] # "absent" => durable.path \in cut'
      BY <1>9, <2>1 DEF PowerOff, CutOff, At
    <3>2. i # next
      BY <3>1 DEF durable
    <3> QED BY <3>1, <3>2 DEF WholeOK, Whole, First, Below
  <2>2. CASE ~At("copy")
    <3>1. step # "copy"
      BY <2>2, ListShape DEF IInv, BootOK, At
    <3>2. /\ repo' = repo /\ durables' = durables /\ user' = user /\ cut' = cut
      BY <1>9, <2>2 DEF PowerOff
    <3> QED BY <3>1, <3>2, <1>1
  <2> QED BY <2>1, <2>2
<1>10. CASE KeepPersistent \/ StartCopy \/ Bind
  BY <1>10, <1>1 DEF KeepPersistent, StartCopy, Bind, At, Frame
<1>11. CASE PowerOn \/ BindFails \/ Finish \/ FinishFails
  <2>1. step # "copy"
    BY <1>11, ListShape
       DEF PowerOn, BindFails, Finish, FinishFails, At, IInv, BootOK
  <2> QED BY <1>11, <2>1, <1>1
             DEF PowerOn, BindFails, RollBack, Finish, FinishFails, historyVars
<1>12. CASE UNCHANGED vars
  BY <1>12, SMT DEF vars, WholeOK, Whole, First, Below, Nested
<1> QED BY <1>2, <1>3, <1>4, <1>5, <1>6, <1>7, <1>8, <1>9, <1>10, <1>11, <1>12, <1>13
           DEF Next

------------------------------------------------------------------------------

\* Every reachable state satisfies both invariants.
THEOREM CopyInvariance == Spec => [](IInv /\ CInv)
<1>1. IInv /\ CInv /\ [Next]_vars /\ IInv' => CInv'
  BY UpperPreserved, EmptyPreserved, TodoPreserved, WholePreserved DEF CInv
<1> QED
  BY Invariance, InitCopy, <1>1, PTL DEF Spec

\* In a composed system the copy of an original that was not cut off is whole,
\* but for what the user has changed.
THEOREM CopyIsWhole == Spec => []CopiedWhole
<1>1. IInv /\ CInv => CopiedWhole
  <2> SUFFICES ASSUME IInv, CInv, composed, NEW i \in DOMAIN durables,
                      durables[i].copyOrigin, durables[i].path \notin cut,
                      First(i), NEW p \in Below(durables[i].path),
                      Original[p] # "absent", user[p] = "none"
               PROVE  repo[p] = Original[p]
    BY DEF CopiedWhole, First
  <2>1. todo = {}
    BY DEF IInv, BootOK, TypeOK
  <2>2. repo[durables[i].path] # "absent"
    BY DEF IInv, BootOK, TreesOK
  <2> QED BY <2>1, <2>2 DEF CInv, WholeOK, Whole
<1> QED BY CopyInvariance, <1>1, PTL
==============================================================================
