----------------------------- MODULE ImageSlot -----------------------------
(***************************************************************************)
(* What an update promises, seen from outside: the device has room for one *)
(* image.  It holds a whole binary or none, an application runs only out   *)
(* of a whole one and is not touched while it runs, one binary takes the   *)
(* place of another only after the slot has been empty, and the binary a   *)
(* flash job has reported installed is the one in the slot and stays there *)
(* until another job begins.  Nothing is said of pages, frames or links.   *)
(***************************************************************************)
CONSTANT Codes   \* the binaries

VARIABLES
    image,    \* the binaries the boot gate accepts: none or one
    running,  \* the application runs
    reported  \* what the last job, if it flashed, has said it installed

slot == <<image, running, reported>>

Empty == {}
Images == {Empty} \cup {{c} : c \in Codes}

Init ==
    /\ image \in Images
    /\ running = FALSE
    /\ reported = Empty

(* An erase, finished or cut short.                                        *)
Lose ==
    /\ ~running /\ reported = Empty
    /\ image' = Empty
    /\ UNCHANGED <<running, reported>>

(* The last cell of a binary that the gate looks at is in place.           *)
Gain ==
    /\ image = Empty /\ ~running /\ reported = Empty
    /\ image' \in Images
    /\ UNCHANGED <<running, reported>>

(* A flash job returns Ok.                                                 *)
Report ==
    /\ image # Empty
    /\ reported' = image
    /\ UNCHANGED <<image, running>>

NewJob ==
    /\ reported' = Empty
    /\ UNCHANGED <<image, running>>

Run ==
    /\ image # Empty
    /\ running' = TRUE
    /\ UNCHANGED <<image, reported>>

Reset ==
    /\ running' = FALSE
    /\ UNCHANGED <<image, reported>>

Next == Lose \/ Gain \/ Report \/ NewJob \/ Run \/ Reset

Spec == Init /\ [][Next]_slot
=============================================================================
