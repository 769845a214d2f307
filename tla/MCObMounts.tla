------------------------------ MODULE MCObMounts ------------------------------
(***************************************************************************)
(* Small instances of ObMounts: a root file system with /usr on a disk of  *)
(* its own below it, and durables that lie inside of each other or on what *)
(* obinit has mounted itself.                                              *)
(***************************************************************************)
EXTENDS ObMounts

MCInitialMounts ==
  { [id |-> 1, fs |-> "disk", dir |-> <<>>, parent |-> RamDisk, at |-> Root],
    [id |-> 2, fs |-> "usr",  dir |-> <<>>, parent |-> 1, at |-> <<"usr">>] }

MCPaths == {<<>>, <<"usr">>, <<"usr", "lib">>, <<"home">>, <<"obdev">>}

home == <<"home">>
user == <<"home", "user">>

\* Durables that cover what obinit has put on the overlay.
over == <<"overboot">>
dev  == <<"obdev">>

MCContexts ==
  [type: {"BLK", "IMG", "DIR"}, useTmpfs: BOOLEAN, bindLayers: BOOLEAN,
   durables: {<<>>, <<home>>, <<home, user>>, <<user, home>>, <<dev, over>>}]
==============================================================================
