------------------------------ MODULE Replica ------------------------------
(***************************************************************************)
(* What importing promises a member cluster: of each global service it has *)
(* a genuine version of the host's, it never goes back to a version it had *)
(* before, and it loses the service only after the host has deleted it.    *)
(* If loose, only that each version is genuine.                            *)
(***************************************************************************)
EXTENDS Naturals, Sequences

CONSTANTS Keys,   \* namespace/name of global services
          Specs,  \* contents of global services
          Absent  \* no such global service

VARIABLES published, \* per key, the versions of the host so far, deletions included
          history,   \* per key, the copies of the member so far, deletions included
          loose      \* configuration: versions may be taken in any order

rvars == <<published, history, loose>>

Gone == [origin |-> 0, spec |-> Absent]

Copy(k) == history[k][Len(history[k])]

Init ==
  /\ published = [k \in Keys |-> <<Absent>>]
  /\ history = [k \in Keys |-> <<Gone>>]
  /\ loose \in BOOLEAN

Publish(k) ==
  /\ \E s \in Specs \union {Absent} : published' = [published EXCEPT ![k] = Append(@, s)]
  /\ UNCHANGED <<history, loose>>

\* The member takes over a version that is newer than all it had.
Adopt(k) ==
  /\ \E v \in DOMAIN published[k] :
       /\ published[k][v] # Absent
       /\ loose \/ \A i \in DOMAIN history[k] : history[k][i].origin < v
       /\ history' = [history EXCEPT ![k] =
                        Append(@, [origin |-> v, spec |-> published[k][v]])]
  /\ UNCHANGED <<published, loose>>

\* The member drops its copy of a service that the host has deleted since.
Drop(k) ==
  /\ loose \/ \E v \in DOMAIN published[k] : v > Copy(k).origin /\ published[k][v] = Absent
  /\ history' = [history EXCEPT ![k] = Append(@, Gone)]
  /\ UNCHANGED <<published, loose>>

Next == \E k \in Keys : Publish(k) \/ Adopt(k) \/ Drop(k)

Spec == Init /\ [][Next]_rvars

=============================================================================
