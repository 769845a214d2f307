------------------------------- MODULE ObSystem -------------------------------
(***************************************************************************)
(* What Overboot promises whoever uses the machine, with no tasks, locks   *)
(* or passes in it.                                                        *)
(*                                                                         *)
(* A boot composes the system, finds that it is switched off, or fails.    *)
(* It composes only what the configuration file says as it is, with every  *)
(* job done and no error on the way.  It changes that file only for an     *)
(* update job, and forgets the job only when the file has its content, has *)
(* been cut off, or the boot is bound to fail.  A boot that fails may      *)
(* close the system: then boots change nothing, and compose nothing, until *)
(* somebody changes the configuration file.  A boot that cannot read the   *)
(* configuration may end as if it was switched off.  The power may fail at *)
(* any time.                                                               *)
(***************************************************************************)
CONSTANTS
  Enabled,     \* contents of the configuration file that switch Overboot on
  SafeMode,    \* contents that allow a failed boot to close the system
  Short,       \* contents of a file that was cut off
  None         \* no job

VARIABLES
  system,      \* "off", "booting", "failing", which is booting with an error,
               \* "unread", which is booting without the configuration, or how
               \* the boot has ended: "composed", "disabled", "failed"
  file,        \* the configuration file
  update,      \* the pending update job: a content, or None
  others,      \* whether other jobs are pending
  repository,  \* layers, the upper layer and all else that a boot may change
  closed       \* the system is closed

disks == <<file, update, others, repository>>
vars == <<system, disks, closed>>

Booting == system \in {"booting", "failing"}
Up == system \in {"composed", "disabled", "failed"}

Init ==
  /\ system = "off"
  /\ update = None
  /\ ~others
  /\ ~closed

Start ==
  /\ system = "off"
  /\ system' = "booting"
  /\ UNCHANGED <<disks, closed>>

\* An error is reported; the boot will not compose the system any more.
Stumble ==
  /\ system = "booting"
  /\ system' = "failing"
  /\ UNCHANGED <<disks, closed>>

\* A part of the jobs, or of the preparation of the repository, is done, in a
\* boot that is not closed.  Jobs do not appear during a boot.
Work ==
  /\ Booting
  /\ ~closed
  /\ system' \in {system, "failing"}
  /\ file' # file => update # None
  /\ \/ update' = update
     \/ /\ update' = None /\ file' = file
        /\ file = update \/ file \in Short \/ system = "failing"
  /\ others' => others
  /\ UNCHANGED closed

Compose ==
  /\ system = "booting"
  /\ ~closed
  /\ file \in Enabled
  /\ update = None /\ ~others
  /\ system' = "composed"
  /\ UNCHANGED <<disks, closed>>

\* The configuration, or a part of it, cannot be read, and nothing that was
\* read switches Overboot on.
Miss ==
  /\ system = "booting"
  /\ system' = "unread"
  /\ UNCHANGED <<disks, closed>>

Disable ==
  /\ \/ system = "booting" /\ file \notin Enabled
     \/ system = "unread"
  /\ system' = "disabled"
  /\ UNCHANGED <<disks, closed>>

Fail ==
  /\ Booting
  /\ system' = "failed"
  /\ UNCHANGED <<disks, closed>>

\* Jobs are left and files are written to the upper layer.
Use ==
  /\ system = "composed"
  /\ UNCHANGED <<system, file, closed>>

\* The configuration file is edited in place; changing it opens the system.
Edit ==
  /\ system \in {"disabled", "failed"}
  /\ closed' = (closed /\ file' = file)
  /\ UNCHANGED <<system, update, others, repository>>

\* Only a boot that was not successful closes the system.  A closed one stays
\* closed.
Closes ==
  /\ closed => closed'
  /\ closed' /\ ~closed =>
       /\ system \in {"booting", "failing", "failed"}
       /\ file' = file /\ file \in Enabled \cap SafeMode

Shutdown ==
  /\ Up
  /\ system' = "off"
  /\ Closes
  /\ UNCHANGED disks

\* What a boot or a user was just doing may be half done.
PowerLoss ==
  /\ system # "off"
  /\ system' = "off"
  /\ Closes
  /\ closed => UNCHANGED disks
  /\ file' # file => Booting /\ update # None
  /\ others' # others => system = "composed"
  /\ UNCHANGED update

Next ==
  \/ Start \/ Stumble \/ Work
  \/ Compose \/ Miss \/ Disable \/ Fail
  \/ Use \/ Edit \/ Shutdown \/ PowerLoss

Spec == Init /\ [][Next]_vars
==============================================================================
