----------------------------- MODULE BusAbstract -----------------------------
(***************************************************************************)
(* What the bus promises a requester, without daemons, queues or routes:   *)
(* a request it accepts is eventually resolved, i.e. received by the       *)
(* actor it addresses or answered back to its sender, unless the daemon    *)
(* it addresses discards it on arrival by design (spec.md 4.D: a body      *)
(* other than ping or management sent to the daemon itself).  A request    *)
(* once resolved stays resolved, and only accepted requests are resolved.  *)
(* The bus may lose an accepted, unresolved request (a connection closes    *)
(* with it queued, an answer to it cannot be sent); a lost request carries *)
(* no obligation, though a copy of it may still be resolved.               *)
(***************************************************************************)
CONSTANT Request    \* the request ids requesters may use

VARIABLES
    issued,     \* the requests the bus has accepted
    resolved,   \* the accepted requests that are delivered or answered
    lost        \* the accepted, unresolved requests the bus lost

vars == <<issued, resolved, lost>>

TypeOK == issued \subseteq Request /\ resolved \subseteq issued /\ lost \subseteq issued \ resolved

Init == issued = {} /\ resolved = {} /\ lost = {}

\* A requester hands the bus a request.
Issue(r) ==
    /\ r \in Request \ issued
    /\ issued' = issued \cup {r}
    /\ UNCHANGED <<resolved, lost>>

\* A request that the bus will never deliver nor answer, by design.
Discard(r) ==
    /\ r \in Request \ issued
    /\ issued' = issued \cup {r}
    /\ resolved' = resolved \cup {r}
    /\ UNCHANGED lost

\* The bus delivers or answers an accepted request.
Resolve(r) ==
    /\ r \in issued \ resolved
    /\ resolved' = resolved \cup {r}
    /\ lost' = lost \ {r}
    /\ UNCHANGED issued

\* The bus loses some requests it has not resolved, possibly as it accepts
\* them.
Lose(S) ==
    /\ S # {} /\ S \subseteq Request \ (resolved \cup lost)
    /\ issued' = issued \cup S
    /\ lost' = lost \cup S
    /\ UNCHANGED resolved

Next == (\E r \in Request : Issue(r) \/ Discard(r) \/ Resolve(r)) \/ (\E S \in SUBSET Request : Lose(S))

\* Only requests the bus has not lost must be resolved.
Spec == Init /\ [][Next]_vars /\ \A r \in Request : WF_vars(r \notin lost /\ Resolve(r))
=============================================================================
