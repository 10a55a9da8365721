----------------------------- MODULE PagedFlash -----------------------------
(***************************************************************************)
(* What device/include/updater/port.h promises the core of a flash driver: *)
(* a region that is erased as a whole and then written page by page, each  *)
(* write taking effect when the call returns, each read returning what has *)
(* been written.  While an erase is under way nothing is promised; when    *)
(* power fails, one unit of two pages may lose or mix its contents.        *)
(***************************************************************************)
EXTENDS Flash

VARIABLES
    image,   \* the region as the core may think of it
    status,  \* "cold" until an erase has completed, "erasing", "ready"
    seen     \* the region as last read

pagedVars == <<image, status, seen>>

Region == [Pages -> Page]

Init == image \in Region /\ status = "cold" /\ seen = image

EraseStarts ==
    /\ status # "erasing"
    /\ status' = "erasing"
    /\ UNCHANGED <<image, seen>>

Erasing ==
    /\ status = "erasing"
    /\ image' \in Region
    /\ UNCHANGED <<status, seen>>

EraseEnds ==
    /\ status = "erasing"
    /\ image' = BlankFlash
    /\ status' = "ready"
    /\ UNCHANGED seen

Write(p, data) ==
    /\ status = "ready"
    /\ image' = [image EXCEPT ![p] = Programmed(@, data)]
    /\ UNCHANGED <<status, seen>>

Read ==
    /\ status # "erasing"
    /\ seen' = image
    /\ UNCHANGED <<image, status>>

PowerFails ==
    /\ image' \in Region
    /\ status = "erasing"
         \/ \E u \in Pages : /\ u % 2 = 0
                             /\ \A p \in Pages \ {u, u + 1} : image'[p] = image[p]
    /\ status' = "cold"
    /\ UNCHANGED seen

Next ==
    \/ EraseStarts \/ Erasing \/ EraseEnds
    \/ \E p \in Pages, data \in Page : Write(p, data)
    \/ Read
    \/ PowerFails

Spec == Init /\ [][Next]_pagedVars
=============================================================================
