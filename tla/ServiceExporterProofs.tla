----------------------- MODULE ServiceExporterProofs -----------------------
(***************************************************************************)
(* Proofs about ServiceExporter, for any services, any number of keys,     *)
(* faults and restarts, in both modes.                                     *)
(***************************************************************************)
EXTENDS ServiceExporter, TLAPS

\* A request is one of the set of requests, never the absence of one.
LEMMA RequestTypes ==
  /\ \A k \in Keys : Revoke(k) \in Requests
  /\ ExporterTypeOK => \A k \in Keys : svc[k] # None => Export(k) \in Requests
BY ExporterAssumption DEF Revoke, Export, Requests, ExporterTypeOK, ServiceType

\* Request(k) is a request about k or none.
LEMMA RequestTyped ==
  ASSUME ExporterTypeOK, NEW k \in Keys
  PROVE  Request(k) \in Requests \union {None}
BY RequestTypes DEF Request, Skipped

\* What the host stores and the exporter remembers stays typed.
LEMMA HandleTyped ==
  ASSUME ExporterTypeOK, NEW r \in Requests, Handle(r)
  PROVE  hub' \in [Keys -> SUBSET Endpoints]
<1>1. r.key \in Keys /\ (r.op = "export" => r.eps \in SUBSET Endpoints)
  BY DEF Requests
<1> QED
  BY <1>1 DEF Handle, ExporterTypeOK

\* The state of the exporter, the revoker and the client stays well typed.
LEMMA ExporterTypeStep == ExporterTypeOK /\ [Next]_vars => ExporterTypeOK'
<1> SUFFICES ASSUME ExporterTypeOK, [Next]_vars PROVE ExporterTypeOK'
  OBVIOUS
<1> USE ExporterAssumption DEF ExporterTypeOK, rest, counters, Fault
<1>1. ASSUME NEW k \in Keys, NEW s \in Services \union {None}, Change(k, s)
      PROVE  ExporterTypeOK'
  BY <1>1 DEF Change
<1>2. ASSUME NEW k \in Keys, LeaseLost(k) PROVE ExporterTypeOK'
  BY <1>2 DEF LeaseLost
<1>3. ASSUME NEW k \in Keys, Import(k) PROVE ExporterTypeOK'
  BY <1>3 DEF Import
<1>4. ASSUME NEW k \in Keys, Reconcile(k) PROVE ExporterTypeOK'
  BY <1>4, RequestTyped DEF Reconcile
<1>5. ASSUME NEW k \in Keys, ReconcileLost(k) PROVE ExporterTypeOK'
  BY <1>5 DEF ReconcileLost, Expired, NoWork
<1>6. ASSUME NEW r \in late, ArriveLate(r) PROVE ExporterTypeOK'
  <2>1. hub' \in [Keys -> SUBSET Endpoints]
    BY <1>6, HandleTyped DEF ArriveLate
  <2> QED
    BY <1>6, <2>1 DEF ArriveLate
<1>7. CASE ExporterSucceeds
  <2>1. exporter \in Requests /\ exporter.key \in Keys
    BY <1>7 DEF ExporterSucceeds, Requests
  <2>2. hub' \in [Keys -> SUBSET Endpoints]
    BY <1>7, <2>1, HandleTyped DEF ExporterSucceeds
  <2> QED
    BY <1>7, <2>1, <2>2 DEF ExporterSucceeds, Remember
<1>8. CASE ExporterRefused
  <2>1. exporter.key \in Keys
    BY <1>8 DEF ExporterRefused, Requests
  <2> QED
    BY <1>8, <2>1 DEF ExporterRefused, Retry
<1>9. CASE ExporterFails
  <2>1. exporter \in Requests /\ exporter.key \in Keys
    BY <1>9 DEF ExporterFails, Requests
  <2>2. hub' \in [Keys -> SUBSET Endpoints] /\ late' \subseteq Requests
    BY <1>9, <2>1, HandleTyped DEF ExporterFails
  <2> QED
    BY <1>9, <2>1, <2>2 DEF ExporterFails, Retry
<1>10. ASSUME revoker # NoWork, NextEndpoint
       PROVE  revoker' \in [key : Keys, todo : SUBSET Endpoints] \union {NoWork}
  BY <1>10 DEF NextEndpoint
<1>11. CASE RevokerSucceeds
  <2>1. Revoke(revoker.key) \in Requests
    BY <1>11, RequestTypes DEF RevokerSucceeds
  <2>2. hub' \in [Keys -> SUBSET Endpoints]
    BY <1>11, <2>1, HandleTyped DEF RevokerSucceeds
  <2> QED
    BY <1>10, <1>11, <2>2 DEF RevokerSucceeds
<1>12. CASE RevokerFails
  <2>1. Revoke(revoker.key) \in Requests
    BY <1>12, RequestTypes DEF RevokerFails
  <2>2. hub' \in [Keys -> SUBSET Endpoints] /\ late' \subseteq Requests
    BY <1>12, <2>1 DEF RevokerFails
  <2> QED
    BY <1>10, <1>12, <2>2 DEF RevokerFails
<1>13. CASE Resync
  BY <1>13 DEF Resync, Existing, Known
<1>14. CASE Restart
  <2>1. InFlight \subseteq Requests
    BY RequestTypes DEF InFlight, NoWork
  <2> QED
    BY <1>14, <2>1 DEF Restart, Existing, Known
<1>15. CASE UNCHANGED vars
  BY <1>15 DEF vars
<1> QED
  BY <1>1, <1>2, <1>3, <1>4, <1>5, <1>6, <1>7, <1>8, <1>9, <1>11, <1>12, <1>13, <1>14, <1>15
     DEF Next, ExporterStep

\* The state of the exporter, the revoker and the client stays well typed.
THEOREM ExporterTypeCorrect == Spec => []ExporterTypeOK
<1>1. Init => ExporterTypeOK
  BY ExporterAssumption DEF Init, ExporterTypeOK
<1> QED
  BY <1>1, ExporterTypeStep, PTL DEF Spec

----------------------------------------------------------------------------
\* A worker that is busy with a key acts on what the service is, unless the key
\* is in the queue again.
WorkCurrent ==
  exporter # None =>
    /\ exporter.op = "revoke" => exporter.key \in serviceKeySet
    /\ exporter.key \notin queue => (exporter.op = "export" <=> ~Skipped(exporter.key))

SettledInv == ExporterTypeOK /\ WorkCurrent /\ KeySetSettled

\* The steps that leave the exporter alone keep the invariant.
LEMMA OthersKeepSettled ==
  ASSUME SettledInv, UNCHANGED <<svc, serviceKeySet, exporter>>, queue \subseteq queue'
  PROVE  WorkCurrent' /\ KeySetSettled'
<1>1. \A k \in Keys : Skipped(k)' = Skipped(k)
  BY DEF Skipped
<1>2. exporter # None => exporter.key \in Keys
  BY DEF SettledInv, ExporterTypeOK, Requests
<1>3. WorkCurrent'
  BY <1>1, <1>2 DEF SettledInv, WorkCurrent, Skipped
<1>4. KeySetSettled'
  BY <1>1 DEF SettledInv, KeySetSettled, Settled
<1> QED
  BY <1>3, <1>4

\* No step breaks the agreement between the set, the queue and the worker.
LEMMA SettledStep == SettledInv /\ [Next]_vars => SettledInv'
<1> SUFFICES ASSUME SettledInv, [Next]_vars PROVE SettledInv'
  OBVIOUS
<1>0. ExporterTypeOK'
  BY ExporterTypeStep DEF SettledInv
<1> SUFFICES WorkCurrent' /\ KeySetSettled'
  BY <1>0 DEF SettledInv
<1>a. exporter # None => exporter \in Requests /\ exporter.key \in Keys
  BY DEF SettledInv, ExporterTypeOK, Requests
<1>1. ASSUME NEW k \in Keys, NEW s \in Services \union {None}, Change(k, s)
      PROVE  WorkCurrent' /\ KeySetSettled'
  <2>1. \A j \in Keys : j # k => Skipped(j)' = Skipped(j)
    BY <1>1 DEF Change, Skipped, SettledInv, ExporterTypeOK
  <2>2. k \in queue' /\ queue \subseteq queue' /\ UNCHANGED <<exporter, serviceKeySet>>
    BY <1>1 DEF Change
  <2>3. WorkCurrent'
    BY <1>a, <2>1, <2>2 DEF SettledInv, WorkCurrent
  <2>4. KeySetSettled'
    BY <2>1, <2>2 DEF SettledInv, KeySetSettled, Settled
  <2> QED
    BY <2>3, <2>4
<1>2. ASSUME NEW k \in Keys, LeaseLost(k) \/ Import(k) \/ ReconcileLost(k)
      PROVE  WorkCurrent' /\ KeySetSettled'
  BY <1>2, OthersKeepSettled DEF LeaseLost, Import, ReconcileLost
<1>3. CASE \/ \E r \in late : ArriveLate(r)
           \/ RevokerSucceeds \/ RevokerFails \/ Resync
  BY <1>3, OthersKeepSettled DEF ArriveLate, RevokerSucceeds, RevokerFails, Resync
<1>4. ASSUME NEW k \in Keys, Reconcile(k) PROVE WorkCurrent' /\ KeySetSettled'
  <2>1. \A j \in Keys : Skipped(j)' = Skipped(j)
    BY <1>4 DEF Reconcile, Skipped
  <2>2. /\ exporter = None /\ exporter' = Request(k)
        /\ queue' = queue \ {k} /\ serviceKeySet' = serviceKeySet
    BY <1>4 DEF Reconcile
  <2>3. /\ None \notin Requests
        /\ Revoke(k) # None /\ (~Skipped(k) => Export(k) # None)
    BY RequestTypes, ExporterAssumption DEF Requests, SettledInv, Skipped, Revoke, Export
  <2>4. CASE Skipped(k) /\ k \in serviceKeySet
    BY <2>1, <2>2, <2>3, <2>4
       DEF Request, Revoke, SettledInv, WorkCurrent, KeySetSettled, Settled
  <2>5. CASE Skipped(k) /\ k \notin serviceKeySet
    BY <2>1, <2>2, <2>5 DEF Request, SettledInv, WorkCurrent, KeySetSettled, Settled
  <2>6. CASE ~Skipped(k)
    BY <2>1, <2>2, <2>3, <2>6
       DEF Request, Export, SettledInv, WorkCurrent, KeySetSettled, Settled
  <2> QED
    BY <2>4, <2>5, <2>6
<1>5. CASE ExporterSucceeds
  <2>1. \A j \in Keys : Skipped(j)' = Skipped(j)
    BY <1>5 DEF ExporterSucceeds, Skipped
  <2>2. exporter # None /\ exporter' = None /\ queue' = queue /\ Remember(exporter)
    BY <1>5 DEF ExporterSucceeds
  <2>3. exporter.op \in {"export", "revoke"}
    BY <1>a, <2>2 DEF Requests
  <2>4. WorkCurrent'
    BY <2>2 DEF WorkCurrent
  <2>5. KeySetSettled'
    BY <1>a, <2>1, <2>2, <2>3 DEF Remember, SettledInv, WorkCurrent, KeySetSettled, Settled
  <2> QED
    BY <2>4, <2>5
<1>6. CASE ExporterRefused \/ ExporterFails
  <2>1. \A j \in Keys : Skipped(j)' = Skipped(j)
    BY <1>6 DEF ExporterRefused, ExporterFails, Skipped
  <2>2. /\ exporter # None /\ exporter' = None
        /\ queue' = queue \union {exporter.key} /\ serviceKeySet' = serviceKeySet
    BY <1>6 DEF ExporterRefused, ExporterFails, Retry
  <2> QED
    BY <1>a, <2>1, <2>2 DEF SettledInv, WorkCurrent, KeySetSettled, Settled
<1>7. CASE Restart
  <2>1. exporter' = None /\ serviceKeySet' = {} /\ queue' = Existing /\ svc' = svc
    BY <1>7 DEF Restart
  <2> QED
    BY <2>1 DEF WorkCurrent, KeySetSettled, Settled, Existing, Skipped
<1>8. CASE UNCHANGED vars
  BY <1>8, OthersKeepSettled DEF vars
<1> QED
  BY <1>1, <1>2, <1>3, <1>4, <1>5, <1>6, <1>7, <1>8 DEF Next, ExporterStep

\* Whenever the exporter has nothing to do for a key, it remembers the key
\* exactly if the service is one to be exported.
THEOREM KeySetAlwaysSettled == Spec => []KeySetSettled
<1>1. Init => SettledInv
  BY ExporterAssumption
     DEF Init, SettledInv, ExporterTypeOK, WorkCurrent, KeySetSettled, Settled, Skipped
<1>2. SettledInv => KeySetSettled
  BY DEF SettledInv
<1> QED
  BY <1>1, <1>2, SettledStep, PTL DEF Spec

=============================================================================
