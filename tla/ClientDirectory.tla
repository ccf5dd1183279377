--------------------------- MODULE ClientDirectory ---------------------------
(***************************************************************************)
(* What the NetworkManager promises about client ids: it keeps a directory *)
(* of endpoints under ids.  An id is issued once and keeps its endpoint    *)
(* until it is withdrawn, and a Unique endpoint has at most one id at a    *)
(* time.                                                                   *)
(***************************************************************************)
EXTENDS StdMap

CONSTANTS Endpoints,
          Unique     \* the endpoints that are looked for before one is issued
VARIABLES directory, \* id -> endpoint, for the ids in use
          issued     \* every id ever given out

Init == directory = EmptyMap /\ issued = {}

\* An endpoint gets an id that was never given out, a Unique one only if it has
\* none.
Issue(id, e) ==
  /\ id \notin issued
  /\ e \in Unique => \A i \in DOMAIN directory : directory[i] # e
  /\ directory' = Assign(directory, id, e)
  /\ issued' = issued \cup {id}

\* The id is withdrawn; it stays issued.
Withdraw(id) ==
  /\ directory' = Erase(directory, id)
  /\ UNCHANGED issued

Next ==
  \/ \E id \in DOMAIN directory', e \in Endpoints : Issue(id, e)
  \/ \E id \in DOMAIN directory : Withdraw(id)

Spec == Init /\ [][Next]_<<directory, issued>>
=============================================================================
