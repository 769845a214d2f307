----------------------------- MODULE MCObDurables -----------------------------
(***************************************************************************)
(* A small instance of ObDurables: the directory /var with /var/log and    *)
(* its file, a database, and a file that is in no layer.                   *)
(***************************************************************************)
EXTENDS ObDurables

MCPath == {"/var", "/var/log", "/var/log/syslog", "/var/db", "/var/new"}
MCFile == {"/var/log/syslog", "/var/db", "/var/new"}

MCAbove ==
  [p \in MCPath |->
     IF p = "/var" THEN {} ELSE
     IF p = "/var/log/syslog" THEN {"/var", "/var/log"} ELSE {"/var"}]

MCOriginal ==
  [p \in MCPath |->
     IF p = "/var/new" THEN "absent" ELSE
     IF p \in MCFile THEN "original" ELSE "dir"]

Durable == [path: {"/var", "/var/log", "/var/db"}, copyOrigin: BOOLEAN]
             \cup [path: {"/var/new"}, copyOrigin: {FALSE}]

\* Every list of at most three durables, in every order.
MCLists ==
  {l \in UNION {[1..n -> Durable] : n \in 0..3} :
     \A i, j \in DOMAIN l : l[i].path = l[j].path => i = j}

\* A single file that is in no layer.
NewFile == {<<[path |-> "/var/new", copyOrigin |-> FALSE]>>}
==============================================================================
