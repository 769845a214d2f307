---------------------------- MODULE ObTransaction ----------------------------
(***************************************************************************)
(* What a task list promises its caller, with no list in it.  A            *)
(* transaction is a numbered series of steps, each of which may have a     *)
(* compensation.  The steps run in order.  Either all of them run and no   *)
(* error is ever reported, and the transaction commits; or it is abandoned *)
(* and the compensations of the steps that were started run in the         *)
(* opposite order, each exactly once, before the transaction reports       *)
(* failure.                                                                *)
(***************************************************************************)
EXTENDS Integers

CONSTANT MaxTasks      \* the longest series of steps

VARIABLES
  status,        \* "open", "running", "compensating", "committed", "aborted"
  size,          \* how many steps the transaction has
  compensable,   \* the steps that have a compensation
  started,       \* the steps that were started
  compensated    \* the steps whose compensation has run

vars == <<status, size, compensable, started, compensated>>

\* The compensations an abandoned transaction still owes.
Owed == (started \cap compensable) \ compensated

\* Step i is the next one in order.
IsNext(i) == i \in 1..size /\ \A j \in 1..size : j < i <=> j \in started

AllStarted == started = 1..size

Init ==
  /\ status = "open"
  /\ size = 0
  /\ compensable = {}
  /\ started = {}
  /\ compensated = {}

\* A step is added, with a compensation or without one.
Add ==
  /\ status = "open"
  /\ size < MaxTasks
  /\ size' = size + 1
  /\ \/ compensable' = compensable \cup {size'}
     \/ UNCHANGED compensable
  /\ UNCHANGED <<status, started, compensated>>

Begin ==
  /\ status = "open"
  /\ status' = "running"
  /\ UNCHANGED <<size, compensable, started, compensated>>

\* The next step runs and succeeds.
Advance ==
  /\ status = "running"
  /\ \E i \in 1..size : IsNext(i) /\ started' = started \cup {i}
  /\ UNCHANGED <<status, size, compensable, compensated>>

\* The next step is started and fails: its own compensation is owed as well.
FailStep ==
  /\ status = "running"
  /\ \E i \in 1..size : IsNext(i) /\ started' = started \cup {i}
  /\ status' = "compensating"
  /\ UNCHANGED <<size, compensable, compensated>>

\* Every step ran, but an error was reported on the way.
Abandon ==
  /\ status = "running"
  /\ AllStarted
  /\ status' = "compensating"
  /\ UNCHANGED <<size, compensable, started, compensated>>

\* The latest step whose compensation is owed is compensated.
Compensate ==
  /\ status = "compensating"
  /\ \E i \in Owed :
       /\ \A j \in Owed : j <= i
       /\ compensated' = compensated \cup {i}
  /\ UNCHANGED <<status, size, compensable, started>>

Commit ==
  /\ status = "running"
  /\ AllStarted
  /\ status' = "committed"
  /\ UNCHANGED <<size, compensable, started, compensated>>

Abort ==
  /\ status = "compensating"
  /\ Owed = {}
  /\ status' = "aborted"
  /\ UNCHANGED <<size, compensable, started, compensated>>

Next ==
  \/ Add \/ Begin \/ Advance \/ FailStep \/ Abandon
  \/ Compensate \/ Commit \/ Abort

Spec == Init /\ [][Next]_vars
==============================================================================
