--------------------------- MODULE HandleLifecycle ---------------------------
(***************************************************************************)
(* What AsyncHandle promises about each libuv handle, without the closing  *)
(* list, the callbacks and the wrappers' own fields: the handle is opened, *)
(* closed, its close completes, and only then is its memory given back; it *)
(* has one owner, which may hand it on, and an open handle is never        *)
(* without one.                                                            *)
(***************************************************************************)
CONSTANTS Wrappers, Handles, NULL

VARIABLES life,   \* "free", "open", "closing" or "closed"
          owner   \* the wrapper that owns the handle, or NULL

vars == <<life, owner>>

OneOwner == \A g, h \in Handles : owner[g] = owner[h] /\ owner[g] # NULL => g = h

Init == /\ life = [h \in Handles |-> "free"]
        /\ owner = [h \in Handles |-> NULL]

\* A new handle has an owner from the start.
Opens(h) == life[h] = "free" /\ life'[h] = "open" /\ owner'[h] # NULL

\* The owner keeps the handle, hands it to another, or, if it is not open, lets
\* go of it.  A handle without an owner never gets one again.
Keeps(h) ==
  /\ life'[h] = life[h]
  /\ owner[h] = NULL => owner'[h] = NULL
  /\ owner'[h] = NULL => owner[h] = NULL \/ life[h] # "open"

\* Closing starts; the owner may let go of the handle in the same step.
StartsClosing(h) == life[h] = "open" /\ life'[h] = "closing"

\* Closing completes: the owner is told, or without one the memory is freed.
Completes(h) ==
  /\ life[h] = "closing"
  /\ life'[h] = (IF owner[h] = NULL THEN "free" ELSE "closed")
  /\ owner'[h] = owner[h]

\* The owner of a closed handle frees its memory.
Frees(h) == life[h] = "closed" /\ life'[h] = "free" /\ owner[h] # NULL /\ owner'[h] = NULL

\* One call may act on several handles, each of which takes one of its steps.
Next ==
  /\ life' \in [Handles -> {"free", "open", "closing", "closed"}]
  /\ owner' \in [Handles -> Wrappers \cup {NULL}]
  /\ \A h \in Handles : \/ Opens(h) \/ Keeps(h) \/ StartsClosing(h)
                        \/ Completes(h) \/ Frees(h)
  /\ OneOwner'

Spec == Init /\ [][Next]_vars
=============================================================================
