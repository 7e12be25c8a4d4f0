------------------------------ MODULE Generics ------------------------------
(***************************************************************************)
(* What the containers of the program share.  Every container of the       *)
(* repository holds void pointers: an element is only ever compared with   *)
(* NULL, copied, or handed to a function of the caller.                    *)
(***************************************************************************)
CONSTANTS
  Data,      \* the pointers a caller stores
  NULL,      \* the null pointer
  Modifier   \* a caller's mapping of stored pointers (ArrayListModifierFn)

Element == Data \cup {NULL}

ASSUME GenericsAssumption ==
  /\ NULL \notin Data
  /\ Modifier \in [Element -> Element]
=============================================================================
