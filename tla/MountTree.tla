------------------------------- MODULE MountTree -------------------------------
(***************************************************************************)
(* The mount tree of the kernel, as far as mount(2) and umount2(2) with    *)
(* the flags that lib/src/ObMount.c passes change it.                      *)
(*                                                                         *)
(* A mount shows the directory `dir' of a file system `fs', and covers the *)
(* directory `at' of its parent mount.  Mounts are private: one does not   *)
(* propagate to the copies of its parent.  The mount 0 is the RAM disk on  *)
(* which obinit runs; nothing is known of it but that it is there.  A path *)
(* is the sequence of its names.                                           *)
(***************************************************************************)
EXTENDS Integers, Sequences, FiniteSets, SequencesExt, FiniteSetsExt

RamDisk == 0

\* The mounts of file systems of a set.
MountRecords(FileSystems) ==
  [id: Nat \ {RamDisk}, fs: FileSystems, dir: Seq(STRING),
   parent: Nat, at: Seq(STRING)]

\* Mounts have an identity of their own, and parents that are there.
Ids(ms) == {x.id : x \in ms}
WellFormed(ms, FileSystems) ==
  /\ IsFiniteSet(ms)
  /\ ms \subseteq MountRecords(FileSystems)
  /\ \A x, y \in ms : x.id = y.id => x = y
  /\ \A x \in ms : x.parent \in Ids(ms) \cup {RamDisk}

Position(m, p) == [mount |-> m, path |-> p]

\* What covers a position, and the root of a mount that does.
Covering(ms, pos) == {x \in ms : x.parent = pos.mount /\ x.at = pos.path}
Above(ms, pos) ==
  IF Covering(ms, pos) = {} THEN pos
  ELSE Position((CHOOSE x \in Covering(ms, pos) : TRUE).id, <<>>)

\* The root of the topmost of the mounts that are stacked on a position.
Uppermost(ms, pos) ==
  LET climb[n \in 0..Cardinality(ms)] ==
        IF n = 0 THEN pos ELSE Above(ms, climb[n - 1])
  IN  climb[Cardinality(ms)]

\* Where a path leads, name by name.
Lookup(ms, path) ==
  LET walk[n \in 0..Len(path)] ==
        IF n = 0 THEN Uppermost(ms, Position(RamDisk, <<>>))
        ELSE Uppermost(ms, Position(walk[n - 1].mount, Append(walk[n - 1].path, path[n])))
  IN  walk[Len(path)]

\* The file system and the directory of it that are seen at a path.
Seen(ms, path) ==
  LET pos == Lookup(ms, path)
      m   == CHOOSE x \in ms : x.id = pos.mount
  IN  IF pos.mount = RamDisk THEN [fs |-> "ram", dir |-> path]
      ELSE [fs |-> m.fs, dir |-> m.dir \o pos.path]

IsMountPoint(ms, path) ==
  LET pos == Lookup(ms, path) IN pos.mount # RamDisk /\ pos.path = <<>>

\* Mounts and everything mounted below them.
Below(ms, some) == {x \in ms : \E y \in some : x.parent = y.id}
Subtree(ms, ids) ==
  LET reach[n \in 0..Cardinality(ms)] ==
        IF n = 0 THEN {x \in ms : x.id \in ids}
        ELSE reach[n - 1] \cup Below(ms, reach[n - 1])
  IN  {x.id : x \in reach[Cardinality(ms)]}

FreshId(ms) == Max({x.id : x \in ms} \cup {RamDisk}) + 1

\* mount(2) of a file system.
Mount(ms, fs, path) ==
  LET pos == Lookup(ms, path)
  IN  ms \cup {[id |-> FreshId(ms), fs |-> fs, dir |-> <<>>,
                parent |-> pos.mount, at |-> pos.path]}

\* mount(2) with MS_BIND | MS_REC: the directory src, with all that is mounted
\* below it, is shown at dst as well.
Bind(ms, src, dst) ==
  LET from  == Lookup(ms, src)
      to    == Lookup(ms, dst)
      seen  == Seen(ms, src)
      base  == FreshId(ms)
      kids  == {x \in ms : x.parent = from.mount /\ IsPrefix(from.path, x.at)}
      below == {x \in ms : x.id \in Subtree(ms, {k.id : k \in kids})}
      Copy(x) ==
        IF x \in kids
          THEN [x EXCEPT !.id = @ + base, !.parent = base,
                         !.at = SubSeq(@, Len(from.path) + 1, Len(@))]
          ELSE [x EXCEPT !.id = @ + base, !.parent = @ + base]
  IN  ms \cup {[id |-> base, fs |-> seen.fs, dir |-> seen.dir,
                parent |-> to.mount, at |-> to.path]}
         \cup {Copy(x) : x \in below}

\* mount(2) with MS_MOVE.
Move(ms, src, dst) ==
  LET from == Lookup(ms, src)
      to   == Lookup(ms, dst)
  IN  {IF x.id = from.mount THEN [x EXCEPT !.parent = to.mount, !.at = to.path]
       ELSE x : x \in ms}

\* umount2(2) with MNT_DETACH: the mount goes with everything below it, at
\* once.  It is an error, and changes nothing, if there is no mount.
Unmount(ms, path) ==
  IF IsMountPoint(ms, path)
    THEN LET gone == Subtree(ms, {Lookup(ms, path).mount})
         IN  {x \in ms : x.id \notin gone}
    ELSE ms
==============================================================================
