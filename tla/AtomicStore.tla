----------------------------- MODULE AtomicStore -----------------------------
(* What a KVStore promises.  The application sees one dict; a start finds   *)
(* the dict of the last save that was confirmed, or of one that was begun   *)
(* since and did not come to its end.  Nothing but a save changes what a    *)
(* start may find.  Only a medium that is written in place may lose it all, *)
(* and only when the power fails during a save.                             *)
CONSTANTS Contents, Empty, Off

VARIABLES
  now,     \* the dict the application sees, or Off
  known,   \* what it knows to be saved: loaded, or confirmed since
  may,     \* the dicts the next start may find
  saving,  \* a save is under way
  lossy    \* the medium is written in place

view == <<now, known, may, saving, lossy>>

Init == now = Off /\ known = Empty /\ may = {Empty} /\ saving = FALSE /\ lossy \in BOOLEAN

(* A start that cannot read the medium shows an empty dict.                 *)
Start ==
  /\ now = Off /\ now' \in may \cup {Empty} /\ known' = now'
  /\ UNCHANGED <<may, saving, lossy>>

Change ==
  now # Off /\ ~saving /\ now' \in Contents /\ UNCHANGED <<known, may, saving, lossy>>

Reload ==
  /\ now # Off /\ ~saving /\ now' \in may /\ known' = now'
  /\ UNCHANGED <<may, saving, lossy>>

Begin ==
  /\ now # Off /\ ~saving /\ saving' = TRUE
  /\ may' = may \cup {now} \cup (IF lossy THEN {Empty} ELSE {})
  /\ UNCHANGED <<now, known, lossy>>

Confirm ==
  saving /\ saving' = FALSE /\ may' = {now} /\ known' = now /\ UNCHANGED <<now, lossy>>

(* The save goes on, or fails; either may rule some outcomes out.           *)
Continue ==
  /\ saving /\ saving' \in BOOLEAN /\ may' \in (SUBSET may) \ {{}}
  /\ UNCHANGED <<now, known, lossy>>

PowerFails ==
  /\ now # Off /\ now' = Off /\ known' = Empty /\ saving' = FALSE
  /\ \E found \in may : may' = {found}
  /\ UNCHANGED lossy

Next == Start \/ Change \/ Reload \/ Begin \/ Confirm \/ Continue \/ PowerFails

Spec == Init /\ [][Next]_view
=============================================================================
