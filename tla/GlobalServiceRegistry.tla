----------------------- MODULE GlobalServiceRegistry -----------------------
(***************************************************************************)
(* What the GlobalServiceManager interface promises its callers            *)
(* (src/pkg/service-hub/types/global_service_manager.go, lines 16-25), as  *)
(* an atomic object.  A global service is a definition (type and ports)    *)
(* and the set of endpoints the clusters have contributed.  A call is      *)
(* pending from its invocation to its return; in between it takes effect   *)
(* once, in one step, and reports "ok", or it reports "error" having       *)
(* either taken effect or not (the reply of the API server may be lost).   *)
(*                                                                         *)
(* There is no lock, no cache and no resource version here: those are how  *)
(* GlobalServiceManager keeps the promise.                                 *)
(***************************************************************************)
EXTENDS GlobalService

CONSTANTS Procs,    \* goroutines that call the manager
          None      \* no call, no reply

VARIABLES services, \* the global services
          phase,    \* where each goroutine is in its call
          pending,  \* the call it makes
          answer    \* what the call returned

rvars == <<services, phase, pending, answer>>

Init ==
  /\ services = [k \in Keys |-> Absent]
  /\ phase = [p \in Procs |-> "idle"]
  /\ pending = [p \in Procs |-> None]
  /\ answer = [p \in Procs |-> None]

Invoke(p, c) ==
  /\ phase[p] = "idle"
  /\ phase' = [phase EXCEPT ![p] = "called"]
  /\ pending' = [pending EXCEPT ![p] = c]
  /\ UNCHANGED <<services, answer>>

Finish(p, a) ==
  /\ phase[p] = "called"
  /\ phase' = [phase EXCEPT ![p] = "returned"]
  /\ answer' = [answer EXCEPT ![p] = a]
  /\ UNCHANGED pending

TakeEffect(p) ==
  LET c == pending[p]
  IN  services' = [services EXCEPT ![c.key] = Applied(services[c.key], c)]

\* The call takes effect; its caller may or may not learn that it did.
Effect(p) ==
  /\ \E a \in {"ok", "error"} : Finish(p, a)
  /\ TakeEffect(p)

\* The call is refused or fails without any effect.
Refuse(p) ==
  /\ Finish(p, "error")
  /\ UNCHANGED services

Return(p) ==
  /\ phase[p] = "returned"
  /\ phase' = [phase EXCEPT ![p] = "idle"]
  /\ pending' = [pending EXCEPT ![p] = None]
  /\ answer' = [answer EXCEPT ![p] = None]
  /\ UNCHANGED services

\* The process restarts: calls under way are forgotten, services are not.
Restart ==
  /\ phase' = [p \in Procs |-> "idle"]
  /\ pending' = [p \in Procs |-> None]
  /\ answer' = [p \in Procs |-> None]
  /\ UNCHANGED services

Next ==
  \/ \E p \in Procs :
       \/ \E c \in Calls : Invoke(p, c)
       \/ Effect(p)
       \/ Refuse(p)
       \/ Return(p)
  \/ Restart

Spec == Init /\ [][Next]_rvars

=============================================================================
