------------------------------ MODULE SendQueue ------------------------------
(***************************************************************************)
(* What a socket promises about the writes and sends it has accepted: each *)
(* is answered exactly once, in the order of the calls, and none is        *)
(* accepted once the socket is closing.                                    *)
(***************************************************************************)
EXTENDS Sequences

CONSTANTS Handles, Requests

VARIABLES open,     \* the handles that are open
          pending   \* the requests of a handle that are not answered yet

vars == <<open, pending>>

Init == open = {} /\ pending = [h \in Handles |-> <<>>]

Accepts(h) ==
  /\ h \in open
  /\ \E r \in Requests :
       /\ \A g \in Handles : \A i \in DOMAIN pending[g] : pending[g][i] # r
       /\ pending' = [pending EXCEPT ![h] = Append(@, r)]
  /\ UNCHANGED open

Answers(h) ==
  /\ pending[h] # <<>>
  /\ pending' = [pending EXCEPT ![h] = Tail(@)]
  /\ UNCHANGED open

\* Handles are opened with nothing to answer, and closed at any time.
OpensOrCloses ==
  /\ open' \subseteq Handles
  /\ \A h \in open' \ open : pending[h] = <<>>
  /\ UNCHANGED pending

Next == OpensOrCloses \/ \E h \in Handles : Accepts(h) \/ Answers(h)

Spec == Init /\ [][Next]_vars
=============================================================================
