--------------------------- MODULE UpdateDownload ---------------------------
(***************************************************************************)
(* What the wallet's update download promises, with threads, callbacks,    *)
(* the .tmp file and the GUI left out: at most one download runs at a      *)
(* time; the release file at the final path is removed or installed only   *)
(* by a running download, and is installed only complete; the "Open" link  *)
(* opens only an installed release.  AutoUpdateModel is shown to implement *)
(* it.                                                                     *)
(***************************************************************************)
EXTENDS Naturals

VARIABLES
    running,    \* downloads in progress
    release,    \* the release file at the final path: "absent" or "complete"
    opened      \* the file the Open link handed to the system ("none" before)

vars == <<running, release, opened>>

Init == running = 0 /\ release = "absent" /\ opened = "none"

\* A download starts only when none runs.
Start ==
    /\ running = 0 /\ running' = 1
    /\ UNCHANGED <<release, opened>>

\* A running download removes the previous release before fetching.
Clear ==
    /\ running = 1 /\ release' = "absent"
    /\ UNCHANGED <<running, opened>>

\* A running download installs the complete release.
Install ==
    /\ running = 1 /\ release' = "complete"
    /\ UNCHANGED <<running, opened>>

\* The download ends, installed or not.
Finish ==
    /\ running = 1 /\ running' = 0
    /\ UNCHANGED <<release, opened>>

\* The user opens the installed release.
Open ==
    /\ release = "complete" /\ opened' = release
    /\ UNCHANGED <<running, release>>

Next == Start \/ Clear \/ Install \/ Finish \/ Open

Spec == Init /\ [][Next]_vars

=============================================================================
