------------------------------ MODULE ObDurables ------------------------------
(***************************************************************************)
(* The durables over boots: paths of the composed system that are bound to *)
(* persistent copies in the repository.  obInitDurables (lib/src/ObInit.c) *)
(* makes the copy of a durable that has none, from the path itself if      *)
(* there is something to copy, and binds it.                               *)
(*                                                                         *)
(* A tree maps each path to what is there.  A copy takes several steps:    *)
(* the power may fail between any two of them, and a call that fails is    *)
(* only logged, so that what it has made so far is found by later boots.   *)
(* The mounts as such are in ObMounts; here a bound durable shows the      *)
(* persistent tree at its path and below it.                               *)
(***************************************************************************)
EXTENDS Integers, Sequences

CONSTANTS
  Path,      \* paths that durables are about
  Above,     \* the directories above each path, those in Path
  File,      \* the paths of files; the others are those of directories
  Original,  \* the tree of the root file system and the layers
  Lists      \* lists of durables, in the order of config->durable, which is
             \* opposite to that of the configuration file (obAddDurable)

Node == {"absent", "dir", "blank", "original", "part", "user"}
IsFile(node) == node \in {"blank", "original", "part", "user"}

\* default_type says what a path is that does not exist: it is assumed to be
\* right.
ASSUME DurablesAssumption ==
  /\ File \subseteq Path
  /\ Above \in [Path -> SUBSET (Path \ File)]
  /\ \A p \in Path : p \notin Above[p]
  /\ \A p \in Path : \A q \in Above[p] :
       /\ Above[q] \subseteq Above[p]
       /\ \A r \in Above[p] : q = r \/ q \in Above[r] \/ r \in Above[q]
  /\ Original \in [Path -> {"absent", "dir", "original"}]
  /\ \A p \in Path : Original[p] = "original" => p \in File
  /\ \A p \in Path : Original[p] = "dir" => p \notin File
  /\ \A p \in Path : Original[p] # "absent" =>
       \A q \in Above[p] : Original[q] = "dir"
  /\ Lists \subseteq Seq([path: Path, copyOrigin: BOOLEAN])

VARIABLES
  durables,  \* config->durable
  tmpfs,     \* whether the upper layer is of type tmpfs
  repo,      \* the persistent copies, <repository>/durables
  upper,     \* the upper layer, above Original
  pc,        \* "off", "durables", or "os" after the boot
  next,      \* the place of the durable that is prepared
  step,      \* what is done with it
  todo,      \* what obSync or obCopyFile still have to copy
  bound,     \* the durables that are bound
  error,     \* obErrorOccurred()
  composed,  \* whether the system runs on the overlay
  \* history
  user,      \* what the user last did to a path through a durable
  cut        \* durables whose copy failed, was interrupted, or is short
             \* without anybody having noticed

diskVars == <<repo, upper>>
historyVars == <<user, cut>>
vars == <<durables, tmpfs, repo, upper, pc, next, step, todo, bound, error,
          composed, user, cut>>

Nothing == [p \in Path |-> "absent"]

------------------------------------------------------------------------------
\* What is seen of the trees.

Below(p) == {q \in Path : q = p \/ p \in Above[q]}

\* Durables show the persistent tree; elsewhere the upper layer is on top.
Covered(p) == \E d \in bound : p \in Below(d)

Seen(p) ==
  IF Covered(p) THEN repo[p] ELSE
  IF upper[p] # "absent" THEN upper[p] ELSE Original[p]

\* A tree with a node added, and the directories above it.
Put(tree, p, node) ==
  [q \in Path |-> IF q = p THEN node ELSE
                  IF q \in Above[p] /\ tree[q] = "absent"
                    THEN "dir" ELSE tree[q]]

Blank(p) == IF p \in File THEN "blank" ELSE "dir"

\* Making a path in the composed system.
MakeSeen(p) ==
  IF Covered(p)
    THEN repo' = Put(repo, p, Blank(p)) /\ UNCHANGED upper
    ELSE upper' = Put(upper, p, Blank(p)) /\ UNCHANGED repo

------------------------------------------------------------------------------
\* The preparation of one durable.

durable == durables[next]

At(place) ==
  /\ pc = "durables" /\ next <= Len(durables) /\ step = place

Frame == UNCHANGED <<durables, tmpfs, pc, bound, composed, user>>

LogError == error' = TRUE

\* Nothing is there: an empty file or directory is made, which may fail.
CreateMissing ==
  /\ At("look") /\ Seen(durable.path) = "absent"
  /\ \/ MakeSeen(durable.path) /\ UNCHANGED error
     \/ UNCHANGED diskVars /\ LogError
  /\ step' = "blank"
  /\ UNCHANGED <<next, todo, cut>> /\ Frame

\* A mutant: a directory is made whatever the type is.
MutCreatePersistent ==
  /\ At("blank")
  /\ repo' = IF repo[durable.path] = "absent"
               THEN Put(repo, durable.path, "dir") ELSE repo
  /\ step' = "bind"
  /\ UNCHANGED <<upper, next, todo, error, cut>> /\ Frame

\* And in the repository.  obCreateBlankFile truncates a file that is there;
\* obMkpath leaves a directory alone.
CreatePersistent ==
  /\ At("blank")
  /\ \/ /\ repo' = IF durable.path \in File \/ repo[durable.path] = "absent"
                     THEN Put(repo, durable.path, Blank(durable.path))
                     ELSE repo
        /\ UNCHANGED error
     \/ UNCHANGED repo /\ LogError
  /\ step' = "bind"
  /\ UNCHANGED <<upper, next, todo, cut>> /\ Frame

\* A mutant: the origin is copied at every boot.
MutNeedsCopy(p) == TRUE

\* The persistent copy of an earlier boot, complete or not, is taken as it is.
NeedsCopy(p) == repo[p] = "absent"

KeepPersistent ==
  /\ At("look") /\ Seen(durable.path) # "absent" /\ ~NeedsCopy(durable.path)
  /\ step' = "bind"
  /\ UNCHANGED <<repo, upper, next, todo, error, cut>> /\ Frame

\* A mutant: what is in the subdirectories is not copied.
MutStartCopy ==
  /\ At("look") /\ Seen(durable.path) # "absent" /\ NeedsCopy(durable.path)
  /\ IF durable.copyOrigin THEN todo' = {durable.path} /\ step' = "copy"
                           ELSE step' = "blank" /\ UNCHANGED todo
  /\ UNCHANGED <<repo, upper, next, error, cut>> /\ Frame

\* copy_origin asks for what is seen there; without it the copy is empty.
StartCopy ==
  /\ At("look") /\ Seen(durable.path) # "absent" /\ NeedsCopy(durable.path)
  /\ IF durable.copyOrigin
       THEN /\ todo' = {q \in Below(durable.path) : Seen(q) # "absent"}
            /\ step' = "copy"
       ELSE step' = "blank" /\ UNCHANGED todo
  /\ UNCHANGED <<repo, upper, next, error, cut>> /\ Frame

\* nftw visits a directory before what is in it, and one file at a time.
Visits(q) ==
  /\ q \in todo /\ Above[q] \cap todo = {}
  /\ \A r \in todo : repo[r] # "part"

\* An entry that is neither a file nor a directory, or an attribute that cannot
\* be copied, is logged and the copy goes on.
MayLogError == error' \in {error, TRUE}

\* A mutant: the walk does not end with its last entry.
MutCopied(q) == todo' = todo \ {q} /\ UNCHANGED step

Copied(q) ==
  /\ todo' = todo \ {q}
  /\ step' = IF todo' = {} THEN "bind" ELSE "copy"

CopyDirectory ==
  /\ At("copy")
  /\ \E q \in todo :
       /\ Visits(q) /\ q \notin File
       /\ repo' = IF repo[q] = "absent" THEN Put(repo, q, "dir") ELSE repo
       /\ Copied(q)
  /\ MayLogError
  /\ UNCHANGED <<upper, next, cut>> /\ Frame

\* obCopyFile opens the target, which truncates it, and then fills it.  A file
\* that cannot be read to its end keeps it there until the power goes off.
OpenCopy ==
  /\ At("copy")
  /\ \E q \in todo :
       /\ Visits(q) /\ q \in File /\ repo[q] # "part"
       /\ repo' = Put(repo, q, "part")
  /\ UNCHANGED <<upper, next, step, todo, error, cut>> /\ Frame

FillCopy ==
  /\ At("copy")
  /\ \E q \in todo :
       /\ q \in File /\ repo[q] = "part"
       /\ repo' = [repo EXCEPT ![q] = Seen(q)]
       /\ Copied(q)
  /\ MayLogError
  /\ UNCHANGED <<upper, next, cut>> /\ Frame

\* A small file is really written when it is closed, and what fclose returns is
\* ignored: the copy is as short as one that failed, and the walk goes on.
FillCopyShort ==
  /\ At("copy")
  /\ \E q \in todo :
       /\ q \in File /\ repo[q] = "part"
       /\ Copied(q)
  /\ cut' = cut \cup {durable.path}
  /\ MayLogError
  /\ UNCHANGED <<repo, upper, next>> /\ Frame

\* What a copy that ends early leaves behind is found by the next boots.
CutOff(p) == cut' = IF repo[p] = "absent" THEN cut ELSE cut \cup {p}

\* The copy of a file or a directory ends with the first call that fails.  What
\* obSync returns is ignored, and nftw itself, which starts when the directory
\* is there, logs nothing.
CopyFails ==
  /\ At("copy")
  /\ \/ LogError
     \/ /\ durable.path \notin File /\ repo[durable.path] # "absent"
        /\ UNCHANGED error
  /\ CutOff(durable.path)
  /\ todo' = {} /\ step' = "bind"
  /\ UNCHANGED <<repo, upper, next>> /\ Frame

\* A directory is bound to a directory and a file to a file.
CanBind(p) ==
  /\ repo[p] # "absent"
  /\ IsFile(repo[p]) <=> IsFile(Seen(p))

\* obRbind makes a mount point that is missing as a directory.  It is not below
\* a durable, for then the persistent copy would be missing too.
Bind ==
  /\ At("bind") /\ CanBind(durable.path)
  /\ bound' = bound \cup {durable.path}
  /\ upper' = IF Seen(durable.path) = "absent"
                THEN Put(upper, durable.path, "dir") ELSE upper
  /\ next' = next + 1 /\ step' = "look"
  /\ UNCHANGED <<durables, tmpfs, repo, pc, todo, error, composed, user, cut>>

------------------------------------------------------------------------------
\* Boots.

\* The upper layer is a new tmpfs, or the persistent one, which is cleared when
\* the configuration or a job says so.
PowerOn ==
  /\ pc = "off"
  /\ pc' = "durables" /\ next' = 1 /\ step' = "look"
  /\ upper' \in {Nothing} \cup (IF tmpfs THEN {} ELSE {upper})
  /\ UNCHANGED <<durables, tmpfs, repo, todo, bound, error, composed>>
  /\ UNCHANGED historyVars

\* The boot fails: what has been bound is unbound and the system runs on the
\* root file system.
RollBack ==
  /\ pc' = "os" /\ bound' = {} /\ error' = TRUE /\ composed' = FALSE
  /\ UNCHANGED <<durables, tmpfs, repo, upper, next, step, todo, user, cut>>

\* obRbind fails, on its own account or because there is nothing to bind.
BindFails ==
  /\ At("bind")
  /\ RollBack

\* All durables are bound: the system is composed if nothing has been logged.
Finish ==
  /\ pc = "durables" /\ next > Len(durables)
  /\ ~error
  /\ pc' = "os" /\ composed' = TRUE
  /\ UNCHANGED <<durables, tmpfs, repo, upper, next, step, todo, bound, error,
                 user, cut>>

\* It is rolled back if something has, or if a task behind this one fails.
FinishFails ==
  /\ pc = "durables" /\ next > Len(durables)
  /\ RollBack

\* The user writes and removes files through durables.
UserWrites ==
  /\ pc = "os" /\ composed
  /\ \E p \in File :
       /\ Covered(p) /\ \A q \in Above[p] : Seen(q) = "dir"
       /\ repo' = [repo EXCEPT ![p] = "user"]
       /\ user' = [user EXCEPT ![p] = "wrote"]
  /\ UNCHANGED <<durables, tmpfs, upper, pc, next, step, todo, bound, error,
                 composed, cut>>

\* A mount point cannot be removed.
UserRemoves ==
  /\ pc = "os" /\ composed
  /\ \E p \in File \ bound :
       /\ Covered(p) /\ IsFile(repo[p])
       /\ repo' = [repo EXCEPT ![p] = "absent"]
       /\ user' = [user EXCEPT ![p] = "removed"]
  /\ UNCHANGED <<durables, tmpfs, upper, pc, next, step, todo, bound, error,
                 composed, cut>>

\* The system is shut down, or the power fails at any moment.
PowerOff ==
  /\ pc # "off"
  /\ IF At("copy") THEN CutOff(durable.path) ELSE UNCHANGED cut
  /\ pc' = "off" /\ next' = 1 /\ step' = "look" /\ todo' = {} /\ bound' = {}
  /\ error' = FALSE /\ composed' = FALSE
  /\ UNCHANGED <<durables, tmpfs, repo, upper, user>>

Init ==
  /\ durables \in Lists /\ tmpfs \in BOOLEAN
  /\ repo = Nothing /\ upper = Nothing
  /\ pc = "off" /\ next = 1 /\ step = "look" /\ todo = {} /\ bound = {}
  /\ error = FALSE /\ composed = FALSE
  /\ user = [p \in Path |-> "none"] /\ cut = {}

Next ==
  \/ PowerOn
  \/ CreateMissing \/ CreatePersistent \/ KeepPersistent
  \/ StartCopy \/ CopyDirectory \/ OpenCopy \/ FillCopy \/ FillCopyShort
  \/ CopyFails
  \/ Bind \/ BindFails
  \/ Finish \/ FinishFails
  \/ UserWrites \/ UserRemoves
  \/ PowerOff

Spec == Init /\ [][Next]_vars

------------------------------------------------------------------------------
\* Type correctness.
TypeOK ==
  /\ durables \in Lists /\ tmpfs \in BOOLEAN
  /\ repo \in [Path -> Node] /\ upper \in [Path -> {"absent", "dir", "blank"}]
  /\ pc \in {"off", "durables", "os"}
  /\ next \in 1..Len(durables) + 1
  /\ step \in {"look", "blank", "copy", "bind"}
  /\ todo \subseteq Path
  /\ todo # {} <=> step = "copy"
  /\ bound \subseteq {durables[i].path : i \in 1..next - 1}
  /\ error \in BOOLEAN /\ composed \in BOOLEAN
  /\ user \in [Path -> {"none", "wrote", "removed"}] /\ cut \subseteq Path

\* A file durable that exists nowhere but in the repository.
OnlyInRepository(p) ==
  /\ p \in File /\ Original[p] = "absent"
  /\ \E i \in DOMAIN durables : durables[i].path = p

\* What the user did to a file through a durable is what the next boots find,
\* whatever is copied, cut off or rolled back in between; the files of which
\* DurablesPersist speaks are excepted.  About ObInit.c:362-393.
UserIsObeyed ==
  \A p \in Path : ~OnlyInRepository(p) =>
    /\ user[p] = "wrote" => repo[p] = "user"
    /\ user[p] = "removed" => repo[p] = "absent"

\* Nothing is copied onto itself: what is still to be copied is never seen
\* through a durable that is bound already, for obCopyFile would truncate its
\* own source.  About ObInit.c:375 and :386, with obSync and obCopyFile.
NoCopyOntoItself == \A q \in todo : ~Covered(q)

\* Whatever an earlier boot has left in the repository, a boot in which nothing
\* fails finds something to bind that is of the kind of its mount point: no
\* failure makes a durable unusable for good.  About ObInit.c:362-399.
AlwaysBindable == At("bind") /\ ~error => CanBind(durable.path)

\* Durables of which one lies inside of the other.
Nested(p, q) == p \in Below(q) \/ q \in Below(p)

\* In a composed system a durable with copy_origin holds all that the original
\* holds and that the user has not changed, unless its copy was cut off, by a
\* failure, by the power, or unnoticed when a file was closed (ObOsUtils.c:292),
\* or it is nested with a durable that is prepared first: an inner one makes its
\* directory, and an outer one hides its original.  About ObInit.c:375-390.
CopiedWhole ==
  composed => \A i \in DOMAIN durables :
    LET d == durables[i]
    IN  d.copyOrigin /\ d.path \notin cut
          /\ (\A j \in 1..i - 1 : ~Nested(d.path, durables[j].path))
        => \A p \in Below(d.path) :
             Original[p] # "absent" /\ user[p] = "none" => repo[p] = Original[p]

\* The contents of a durable persist between reboots and regardless of the type
\* of the upper layer (README.md:198).
DurablesPersist == \A p \in Path : user[p] = "wrote" => repo[p] = "user"

==============================================================================
