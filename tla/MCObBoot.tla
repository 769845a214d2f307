------------------------------- MODULE MCObBoot -------------------------------
(***************************************************************************)
(* Small instances of ObBoot: which contents of the configuration file     *)
(* there are.  What each of them says, and what may go wrong, is up to the *)
(* configurations of TLC.                                                  *)
(***************************************************************************)
EXTENDS ObBoot

CONSTANTS
  safeA, safeB,   \* enabled, with the safe mode
  plain,          \* enabled, without the safe mode
  clear,          \* enabled, the persistent upper layer is cleared
  off,            \* not enabled
  torn,           \* what a file cut off in the middle looks like
  base            \* the name of a layer
==============================================================================
