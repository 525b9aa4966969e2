--------------------- MODULE GlobalServiceManagerProofs ---------------------
(***************************************************************************)
(* Proofs about GlobalServiceManager, for any processes, clusters, keys,   *)
(* exports and bounds, and for both kinds of client.                       *)
(***************************************************************************)
EXTENDS GlobalServiceManager, TLAPS

\* Merging and revoking turn a global service, or its absence, into one.
LEMMA AppliedType ==
  ASSUME NEW s \in MaybeSpec, NEW c \in Calls
  PROVE  Applied(s, c) \in MaybeSpec
<1>1. removeEndpoints(EndpointsOf(s), c.cluster) \in SUBSET Endpoints
  BY DEF MaybeSpec, Specs, removeEndpoints, EndpointsOf
<1>2. CASE c \in MergeCalls
  <2>1. OwnEndpoints(c.cluster, c.export.addrs) \in SUBSET Endpoints
    BY <1>2, GlobalServiceAssumption DEF OwnEndpoints, Endpoints, MergeCalls
  <2>2. c.op = "merge" /\ c.export.def \in Defs
    BY <1>2, GlobalServiceAssumption DEF MergeCalls
  <2> QED
    BY <1>1, <2>1, <2>2 DEF Applied, MergedSpec, MaybeSpec, Specs
<1>3. CASE c \in RevokeCalls
  <2>1. c.op # "merge"
    BY <1>3 DEF RevokeCalls
  <2>2. RevokedSpec(s, c.cluster) \in MaybeSpec
    BY <1>1 DEF RevokedSpec, MaybeSpec, Specs, EndpointsOf, removeEndpoints
  <2> QED
    BY <2>1, <2>2 DEF Applied
<1> QED
  BY <1>2, <1>3 DEF Calls

\* What a call writes is a version again, not older than the stored one, and
\* a new one unless nothing changes.
LEMMA WrittenVersion ==
  ASSUME TypeOK, NEW p \in Procs, pc[p] # "idle"
  PROVE  /\ call[p] \in Calls /\ call[p].key \in Keys
         /\ Wanted(p) \in MaybeSpec
         /\ Written(p) \in Versions
         /\ \/ Written(p) = live[call[p].key]
            \/ Written(p).rv = live[call[p].key].rv + 1
<1>1. call[p] \in Calls
  BY DEF TypeOK
<1>2. call[p].key \in Keys
  BY <1>1 DEF Calls, MergeCalls, RevokeCalls
<1>3. Wanted(p) \in MaybeSpec
  BY <1>1, AppliedType DEF Wanted, TypeOK, Versions
<1>4. live[call[p].key] \in Versions
  BY <1>2 DEF TypeOK
<1> QED
  BY <1>1, <1>2, <1>3, <1>4 DEF Written, Versions

----------------------------------------------------------------------------
(* Type correctness. *)

\* The part of TypeOK that the end of a call touches.
CallTypeOK ==
  /\ lock \in Procs \union {None}
  /\ pc \in [Procs -> {"idle", "waiting", "holding", "returned"}]
  /\ call \in [Procs -> Calls \union {None}]
  /\ snap \in [Procs -> Versions]
  /\ reply \in [Procs -> {"ok", "error", None}]
  /\ \A p \in Procs : pc[p] # "idle" => call[p] \in Calls

\* The part of TypeOK that a write touches.
StoreTypeOK ==
  /\ live \in [Keys -> Versions]
  /\ cache \in [Keys -> Versions]
  /\ backlog \in [Keys -> Seq(Versions)]
  /\ namespaces \subseteq Namespaces

CountTypeOK ==
  /\ nmerges \in 0 .. MaxMerges
  /\ nfaults \in 0 .. MaxFaults
  /\ nrestarts \in 0 .. MaxRestarts

\* The three parts make up TypeOK, before and after a step.
LEMMA TypeParts ==
  /\ TypeOK <=> (CallTypeOK /\ StoreTypeOK /\ CountTypeOK)
  /\ TypeOK' <=> (CallTypeOK' /\ StoreTypeOK' /\ CountTypeOK')
BY DEF TypeOK, CallTypeOK, StoreTypeOK, CountTypeOK

\* The initial version of every object is a version.
LEMMA MissingType == Missing \in Versions
BY DEF Missing, Versions, MaybeSpec

\* The end of a call, whatever it returns, leaves the goroutines well typed.
LEMMA FinishType ==
  ASSUME TypeOK, NEW p \in Procs, NEW r \in {"ok", "error"}, pc[p] # "idle", Finish(p, r)
  PROVE  CallTypeOK'
BY MissingType DEF TypeOK, CallTypeOK, Finish, Unlock

\* A write leaves the API server and the cache well typed.
LEMMA StoreType ==
  ASSUME TypeOK, NEW k \in Keys, NEW v \in Versions, Store(k, v)
  PROVE  StoreTypeOK'
BY DEF TypeOK, StoreTypeOK, Store

\* The namespace of a key is a namespace.
LEMMA EnsureType ==
  ASSUME TypeOK, NEW p \in Procs, pc[p] # "idle"
  PROVE  EnsuredNamespaces(p) \subseteq Namespaces
BY WrittenVersion, ManagerAssumption DEF TypeOK, EnsuredNamespaces

\* Every step keeps the types.
LEMMA TypeStep == TypeOK /\ [Next]_managerVars => TypeOK'
<1> SUFFICES ASSUME TypeOK, [Next]_managerVars PROVE TypeOK'
  OBVIOUS
<1> USE ManagerAssumption
<1>1. ASSUME NEW p \in Procs, NEW c \in Calls, Invoke(p, c) PROVE TypeOK'
  BY <1>1 DEF TypeOK, Invoke, apiVars, cacheVars
<1>2. ASSUME NEW p \in Procs, LockAndRead(p) PROVE TypeOK'
  <2>1. pc[p] # "idle" BY <1>2 DEF LockAndRead
  <2>2. Read(call[p].key) \in Versions
    BY <2>1, WrittenVersion DEF Read, TypeOK
  <2>3. CallTypeOK'
    BY <1>2, <2>1, <2>2 DEF TypeOK, CallTypeOK, LockAndRead, Lock
  <2>4. StoreTypeOK'
    BY <1>2, <2>1, EnsureType DEF TypeOK, StoreTypeOK, LockAndRead, cacheVars
  <2> QED
    BY <1>2, <2>3, <2>4, TypeParts DEF CountTypeOK, LockAndRead, countVars
<1>3. ASSUME NEW p \in Procs, ReadFails(p) PROVE TypeOK'
  <2>1. pc[p] # "idle" BY <1>3 DEF ReadFails
  <2>2. CallTypeOK' BY <1>3, <2>1, FinishType DEF ReadFails
  <2>3. StoreTypeOK'
    BY <1>3, <2>1, EnsureType DEF TypeOK, StoreTypeOK, ReadFails, cacheVars
  <2> QED
    BY <1>3, <2>2, <2>3, TypeParts DEF CountTypeOK, ReadFails, Fault, Finish
<1>4. ASSUME NEW p \in Procs, Skip(p) \/ Reject(p) PROVE TypeOK'
  <2>1. pc[p] # "idle" BY <1>4 DEF Skip, Reject
  <2>2. CallTypeOK' BY <1>4, <2>1, FinishType DEF Skip, Reject
  <2> QED
    BY <1>4, <2>2, TypeParts DEF StoreTypeOK, CountTypeOK, Skip, Reject, apiVars, cacheVars, Finish
<1>5. ASSUME NEW p \in Procs, LoseRequest(p) PROVE TypeOK'
  <2>1. pc[p] # "idle" BY <1>5 DEF LoseRequest
  <2>2. CallTypeOK' BY <1>5, <2>1, FinishType DEF LoseRequest
  <2> QED
    BY <1>5, <2>2, TypeParts DEF StoreTypeOK, CountTypeOK, LoseRequest, apiVars, cacheVars,
       Fault, Finish
<1>6. ASSUME NEW p \in Procs, Commit(p) \/ LoseReply(p) PROVE TypeOK'
  <2>1. pc[p] # "idle" BY <1>6 DEF Commit, LoseReply
  <2>2. CallTypeOK' BY <1>6, <2>1, FinishType DEF Commit, LoseReply
  <2>3. StoreTypeOK' BY <1>6, <2>1, StoreType, WrittenVersion DEF Commit, LoseReply
  <2> QED
    BY <1>6, <2>2, <2>3, TypeParts DEF CountTypeOK, Commit, LoseReply, Fault, Finish
<1>7. ASSUME NEW p \in Procs, Return(p) PROVE TypeOK'
  BY <1>7 DEF TypeOK, Return, apiVars, cacheVars, countVars
<1>8. ASSUME NEW k \in Keys, Deliver(k) PROVE TypeOK'
  BY <1>8 DEF TypeOK, Deliver, apiVars, countVars
<1>9. ASSUME Restart PROVE TypeOK'
  BY <1>9, MissingType DEF TypeOK, Restart, apiVars
<1>10. CASE UNCHANGED managerVars
  BY <1>10 DEF TypeOK, managerVars
<1> QED
  BY <1>1, <1>2, <1>3, <1>4, <1>5, <1>6, <1>7, <1>8, <1>9, <1>10 DEF Next, Step

\* The state of the manager, the cache and the API server keeps its shape: no
\* call, failure or restart leaves a goroutine without its call or an object
\* that is neither absent nor a global service.
THEOREM TypeCorrect == Spec => []TypeOK
<1>1. Init => TypeOK
  BY MissingType, ManagerAssumption DEF Init, TypeOK
<1> QED
  BY <1>1, TypeStep, PTL DEF Spec

----------------------------------------------------------------------------
(***************************************************************************)
(* The inductive invariant.  VersionsAgree is what makes the version check *)
(* of an Update sound; it needs LockHeld to say which calls hold a         *)
(* snapshot.  LockKeepsFresh adds that without a cache nobody writes       *)
(* between the read and the write of a call.                               *)
(***************************************************************************)
\* A call holds the lock from its read to its write.
LockHeld == \A p \in Procs : pc[p] = "holding" <=> lock = p

Agrees(v, k) == v.rv <= live[k].rv /\ (v.rv = live[k].rv => v = live[k])

\* A resource version names one state of an object: whatever the cache shows,
\* the watch has under way or a call has read is either older than the stored
\* object or equal to it.
VersionsAgree ==
  /\ \A k \in Keys : Agrees(cache[k], k)
  /\ \A k \in Keys : \A i \in 1 .. Len(backlog[k]) : Agrees(backlog[k][i], k)
  /\ \A p \in Procs : pc[p] = "holding" => Agrees(snap[p], call[p].key)

IInv == TypeOK /\ LockHeld /\ VersionsAgree /\ LockKeepsFresh

\* An object only moves on to a higher resource version.
Advances == \A k \in Keys : live'[k] = live[k] \/ live'[k].rv = live[k].rv + 1

\* A version that agreed with the stored object still does after a write.
LEMMA AgreesStable ==
  ASSUME TypeOK, Advances, NEW k \in Keys, NEW v \in Versions, Agrees(v, k)
  PROVE  v.rv <= live'[k].rv /\ (v.rv = live'[k].rv => v = live'[k])
<1>1. live[k].rv \in Nat /\ v.rv \in Nat
  BY DEF TypeOK, Versions
<1>2. live'[k] = live[k] \/ live'[k].rv = live[k].rv + 1
  BY DEF Advances
<1> QED
  BY <1>1, <1>2 DEF Agrees

\* A write advances the object, or leaves it as it is.
LEMMA StoreAdvances ==
  ASSUME TypeOK, NEW p \in Procs, pc[p] # "idle", Store(call[p].key, Written(p))
  PROVE  Advances
BY WrittenVersion DEF TypeOK, Advances, Store

\* The holder of the lock is the only call between its read and its write.
LEMMA LockStep == IInv /\ [Next]_managerVars => LockHeld'
<1> SUFFICES ASSUME IInv, [Next]_managerVars PROVE LockHeld'
  OBVIOUS
<1> USE ManagerAssumption DEF IInv, TypeOK, LockHeld
<1>1. ASSUME NEW p \in Procs, NEW c \in Calls, Invoke(p, c) PROVE LockHeld'
  BY <1>1 DEF Invoke
<1>2. ASSUME NEW p \in Procs, LockAndRead(p) PROVE LockHeld'
  BY <1>2 DEF LockAndRead, Lock
<1>3. ASSUME NEW p \in Procs, NEW r \in {"ok", "error"}, Finish(p, r),
             pc[p] = "holding" \/ (pc[p] = "waiting" /\ lock = None)
      PROVE  LockHeld'
  BY <1>3 DEF Finish, Unlock
<1>4. ASSUME NEW p \in Procs, Step(p) PROVE LockHeld'
  BY <1>2, <1>3, <1>4
     DEF Step, ReadFails, Skip, Commit, Reject, LoseRequest, LoseReply
<1>5. ASSUME NEW p \in Procs, Return(p) PROVE LockHeld'
  BY <1>5 DEF Return
<1>6. ASSUME NEW k \in Keys, Deliver(k) PROVE LockHeld'
  BY <1>6 DEF Deliver
<1>7. ASSUME Restart PROVE LockHeld'
  BY <1>7 DEF Restart
<1>8. CASE UNCHANGED managerVars
  BY <1>8 DEF managerVars
<1> QED
  BY <1>1, <1>4, <1>5, <1>6, <1>7, <1>8 DEF Next

\* A step that leaves the objects, the cache and the watch alone, and lets no
\* call have a new snapshot, keeps VersionsAgree.
LEMMA VersionsUntouched ==
  ASSUME VersionsAgree, UNCHANGED <<live, cache, backlog>>,
         \A p \in Procs : pc'[p] = "holding" =>
            pc[p] = "holding" /\ snap'[p] = snap[p] /\ call'[p] = call[p]
  PROVE  VersionsAgree'
BY DEF VersionsAgree, Agrees

\* A write and the announcement of it keep VersionsAgree.
LEMMA VersionsStore ==
  ASSUME IInv, NEW p \in Procs, pc[p] = "holding", NEW r \in {"ok", "error"},
         Store(call[p].key, Written(p)), Finish(p, r)
  PROVE  VersionsAgree'
<1> DEFINE key == call[p].key
<1>1. Advances
  BY StoreAdvances DEF IInv
<1>2. key \in Keys /\ Written(p) \in Versions
  BY WrittenVersion DEF IInv
<1>3. ASSUME NEW k \in Keys PROVE Agrees(cache[k], k)'
  <2>1. cache[k] \in Versions /\ Agrees(cache[k], k) /\ cache' = cache
    BY DEF IInv, TypeOK, VersionsAgree, Store
  <2> QED
    BY <1>1, <2>1, AgreesStable DEF IInv, Agrees
<1>4. ASSUME NEW k \in Keys, NEW i \in 1 .. Len(backlog'[k]) PROVE Agrees(backlog[k][i], k)'
  <2>1. backlog[k] \in Seq(Versions) /\ live \in [Keys -> Versions] /\ backlog \in [Keys -> Seq(Versions)]
    BY DEF IInv, TypeOK
  <2>2. live' = [live EXCEPT ![key] = Written(p)]
    BY DEF Store
  <2>3. CASE i \in 1 .. Len(backlog[k]) /\ backlog'[k][i] = backlog[k][i]
    <3>1. backlog[k][i] \in Versions /\ Agrees(backlog[k][i], k)
      BY <2>1, <2>3 DEF IInv, VersionsAgree
    <3> QED
      BY <1>1, <2>3, <3>1, AgreesStable DEF IInv, Agrees
  <2>4. CASE k = key /\ backlog'[k] = Append(backlog[k], Written(p)) /\ i = Len(backlog[k]) + 1
    <3>1. backlog'[k][i] = Written(p) /\ live'[k] = Written(p)
      BY <1>2, <2>1, <2>2, <2>4
    <3> QED
      BY <1>2, <3>1 DEF Agrees, Versions
  <2>5. backlog'[k] = backlog[k] \/ (k = key /\ backlog'[k] = Append(backlog[k], Written(p)))
    BY <2>1 DEF Store
  <2> QED
    BY <1>2, <2>1, <2>3, <2>4, <2>5
<1>5. ASSUME NEW q \in Procs, pc'[q] = "holding" PROVE Agrees(snap[q], call[q].key)'
  <2>1. pc[q] = "holding" /\ snap'[q] = snap[q] /\ call'[q] = call[q]
    BY <1>5 DEF Finish, IInv, TypeOK
  <2>2. snap[q] \in Versions /\ call[q].key \in Keys /\ Agrees(snap[q], call[q].key)
    BY <2>1, WrittenVersion DEF IInv, TypeOK, VersionsAgree
  <2> QED
    BY <1>1, <2>1, <2>2, AgreesStable DEF IInv, Agrees
<1> QED
  BY <1>3, <1>4, <1>5 DEF VersionsAgree

\* Every step keeps VersionsAgree.
LEMMA VersionsStep == IInv /\ [Next]_managerVars => VersionsAgree'
<1> SUFFICES ASSUME IInv, [Next]_managerVars PROVE VersionsAgree'
  OBVIOUS
<1>0. TypeOK /\ VersionsAgree
  BY DEF IInv
<1>1. ASSUME NEW p \in Procs, NEW c \in Calls, Invoke(p, c) PROVE VersionsAgree'
  BY <1>0, <1>1, VersionsUntouched DEF Invoke, TypeOK, apiVars, cacheVars
<1>2. ASSUME NEW p \in Procs, LockAndRead(p) PROVE VersionsAgree'
  <2>1. call[p].key \in Keys
    BY <1>0, <1>2, WrittenVersion DEF LockAndRead
  <2>2. Agrees(Read(call[p].key), call[p].key)
    <3>1. live[call[p].key].rv \in Nat
      BY <1>0, <2>1 DEF TypeOK, Versions
    <3> QED
      BY <1>0, <2>1, <3>1 DEF VersionsAgree, Agrees, Read
  <2> QED
    BY <1>0, <1>2, <2>2 DEF VersionsAgree, Agrees, LockAndRead, TypeOK, cacheVars
<1>3. ASSUME NEW p \in Procs, NEW r \in {"ok", "error"}, Finish(p, r),
             UNCHANGED <<live, cache, backlog>>
      PROVE  VersionsAgree'
  BY <1>0, <1>3, VersionsUntouched DEF Finish, TypeOK
<1>4. ASSUME NEW p \in Procs, Step(p) PROVE VersionsAgree'
  <2>1. CASE Commit(p) \/ LoseReply(p)
    BY <2>1, VersionsStore DEF Commit, LoseReply
  <2> QED
    BY <1>2, <1>3, <1>4, <2>1
       DEF Step, ReadFails, Skip, Reject, LoseRequest, apiVars, cacheVars
<1>5. ASSUME NEW p \in Procs, Return(p) PROVE VersionsAgree'
  BY <1>0, <1>5, VersionsUntouched DEF Return, TypeOK, apiVars, cacheVars
<1>6. ASSUME NEW k \in Keys, Deliver(k) PROVE VersionsAgree'
  <2>1. backlog[k] \in Seq(Versions) /\ backlog[k] # <<>>
    BY <1>0, <1>6 DEF TypeOK, Deliver
  <2>2. ASSUME NEW j \in Keys PROVE Agrees(cache[j], j)'
    <3>1. cache'[j] = IF j = k THEN backlog[k][1] ELSE cache[j]
      BY <1>0, <1>6, <2>1 DEF Deliver, TypeOK
    <3> QED
      BY <1>0, <1>6, <2>1, <3>1 DEF VersionsAgree, Agrees, Deliver, apiVars
  <2>3. ASSUME NEW j \in Keys, NEW i \in 1 .. Len(backlog'[j]) PROVE Agrees(backlog[j][i], j)'
    <3>1. CASE j = k
      <4>1. backlog'[j] = Tail(backlog[k])
        BY <1>0, <1>6, <3>1 DEF Deliver, TypeOK
      <4>2. i + 1 \in 1 .. Len(backlog[k]) /\ backlog'[j][i] = backlog[k][i + 1]
        BY <2>1, <2>3, <4>1
      <4> QED
        BY <1>0, <1>6, <3>1, <4>2 DEF VersionsAgree, Agrees, Deliver, apiVars
    <3>2. CASE j # k
      BY <1>0, <1>6, <2>3, <3>2 DEF VersionsAgree, Agrees, Deliver, apiVars, TypeOK
    <3> QED
      BY <3>1, <3>2
  <2> QED
    BY <1>0, <1>6, <2>2, <2>3 DEF VersionsAgree, Agrees, Deliver, apiVars
<1>7. ASSUME Restart PROVE VersionsAgree'
  <2>1. \A k \in Keys : live[k].rv \in Nat
    BY <1>0 DEF TypeOK, Versions
  <2> QED
    BY <1>7, <2>1 DEF VersionsAgree, Agrees, Restart, apiVars
<1>8. CASE UNCHANGED managerVars
  BY <1>0, <1>8, VersionsUntouched DEF managerVars
<1> QED
  BY <1>1, <1>4, <1>5, <1>6, <1>7, <1>8 DEF Next

\* Every step keeps LockKeepsFresh: nobody else holds the lock when a call
\* reads, and whoever writes returns.
LEMMA FreshStep == IInv /\ [Next]_managerVars => LockKeepsFresh'
<1> SUFFICES ASSUME IInv, [Next]_managerVars, ~CachedReads,
                    NEW q \in Procs, pc'[q] = "holding"
             PROVE  snap'[q] = live'[call'[q].key]
  BY DEF LockKeepsFresh
<1> USE ManagerAssumption
<1>0. TypeOK /\ LockHeld /\ LockKeepsFresh
  BY DEF IInv
<1>1. ASSUME NEW p \in Procs, NEW c \in Calls, Invoke(p, c)
      PROVE  snap'[q] = live'[call'[q].key]
  BY <1>0, <1>1 DEF Invoke, TypeOK, LockKeepsFresh, apiVars
<1>2. ASSUME NEW p \in Procs, LockAndRead(p) PROVE snap'[q] = live'[call'[q].key]
  <2>1. q = p
    BY <1>0, <1>2 DEF LockAndRead, Lock, LockHeld, TypeOK
  <2> QED
    BY <1>0, <1>2, <2>1 DEF LockAndRead, Read, TypeOK
<1>3. ASSUME NEW p \in Procs, NEW r \in {"ok", "error"}, Finish(p, r),
             lock = p \/ UNCHANGED live
      PROVE  snap'[q] = live'[call'[q].key]
  BY <1>0, <1>3 DEF Finish, TypeOK, LockHeld, LockKeepsFresh
<1>4. ASSUME NEW p \in Procs, Step(p) PROVE snap'[q] = live'[call'[q].key]
  BY <1>0, <1>2, <1>3, <1>4
     DEF Step, ReadFails, Skip, Commit, Reject, LoseRequest, LoseReply, LockHeld, apiVars
<1>5. ASSUME NEW p \in Procs, Return(p) PROVE snap'[q] = live'[call'[q].key]
  BY <1>0, <1>5 DEF Return, TypeOK, LockKeepsFresh, apiVars
<1>6. ASSUME NEW k \in Keys, Deliver(k) PROVE snap'[q] = live'[call'[q].key]
  BY <1>0, <1>6 DEF Deliver, LockKeepsFresh, apiVars
<1>7. ASSUME Restart PROVE snap'[q] = live'[call'[q].key]
  BY <1>7 DEF Restart
<1>8. CASE UNCHANGED managerVars
  BY <1>0, <1>8 DEF managerVars, LockKeepsFresh
<1> QED
  BY <1>1, <1>4, <1>5, <1>6, <1>7, <1>8 DEF Next

\* The inductive invariant holds initially.
LEMMA InvInit == Init => IInv
<1> SUFFICES ASSUME Init PROVE IInv
  OBVIOUS
<1>1. TypeOK
  BY MissingType, ManagerAssumption DEF Init, TypeOK
<1>2. LockHeld /\ LockKeepsFresh
  BY ManagerAssumption DEF Init, LockHeld, LockKeepsFresh
<1>3. VersionsAgree
  BY DEF Init, VersionsAgree, Agrees, Missing
<1> QED
  BY <1>1, <1>2, <1>3 DEF IInv

\* The invariant that carries the others, for every instance of the manager.
LEMMA Invariant == Spec => []IInv
<1>1. IInv /\ [Next]_managerVars => IInv'
  BY TypeStep, LockStep, VersionsStep, FreshStep DEF IInv
<1> QED
  BY InvInit, <1>1, PTL DEF Spec

\* With an uncached client, the lock makes the read-modify-write of every call
\* atomic: what it read is stored until it writes.
THEOREM LockAlwaysKeepsFresh == Spec => []LockKeepsFresh
BY Invariant, PTL DEF IInv

----------------------------------------------------------------------------
(* What a write does to the endpoints of other clusters. *)

\* Merging or revoking for one cluster leaves the others' endpoints alone.
LEMMA AppliedIsolation ==
  ASSUME NEW s \in Specs, NEW c \in Calls, Applied(s, c) # Absent
  PROVE  removeEndpoints(Applied(s, c).eps, c.cluster) = removeEndpoints(s.eps, c.cluster)
<1>1. s # Absent /\ EndpointsOf(s) = s.eps
  BY GlobalServiceAssumption DEF Specs, Endpoints, EndpointsOf
<1>2. CASE c.op = "merge"
  <2>1. Applied(s, c).eps = removeEndpoints(s.eps, c.cluster)
                              \union OwnEndpoints(c.cluster, c.export.addrs)
    BY <1>1, <1>2 DEF Applied, MergedSpec
  <2>2. \A e \in OwnEndpoints(c.cluster, c.export.addrs) : e.cluster = c.cluster
    BY DEF OwnEndpoints
  <2> QED
    BY <2>1, <2>2 DEF removeEndpoints
<1>3. CASE c.op # "merge"
  <2>1. Applied(s, c) = [s EXCEPT !.eps = removeEndpoints(s.eps, c.cluster)]
    BY <1>1, <1>3 DEF Applied, RevokedSpec
  <2>2. Applied(s, c).eps = removeEndpoints(s.eps, c.cluster)
    BY <2>1 DEF Specs
  <2> QED
    BY <2>2 DEF removeEndpoints
<1> QED
  BY <1>2, <1>3

\* A write that finds a global service and leaves one started from the stored
\* object, whatever the cache showed.
LEMMA UpdateStartsFromStored ==
  ASSUME IInv, NEW p \in Procs, pc[p] = "holding",
         NEW r \in Requests(p) \ {"none"}, Accepts(p, r),
         live[call[p].key].spec # Absent, Wanted(p) # Absent
  PROVE  snap[p] = live[call[p].key]
<1>1. r = "update"
  BY DEF Requests, Accepts
<1>2. snap[p].rv = live[call[p].key].rv
  BY <1>1 DEF Accepts
<1> QED
  BY <1>2 DEF IInv, VersionsAgree, Agrees

\* No write that keeps a global service in being adds, changes or removes an
\* endpoint of another cluster than the caller's, with a stale cache as well
\* as without one.
THEOREM MergesAreIsolated == Spec => MergeIsolation
<1> DEFINE Isolated ==
      \A k \in Keys :
        (live'[k] # live[k] /\ live[k].spec # Absent /\ live'[k].spec # Absent) =>
          \E p \in Procs :
            /\ pc[p] = "holding"
            /\ call[p].key = k
            /\ removeEndpoints(live'[k].spec.eps, call[p].cluster)
                 = removeEndpoints(live[k].spec.eps, call[p].cluster)
<1>1. IInv /\ [Next]_managerVars => Isolated
  <2> SUFFICES ASSUME IInv, [Next]_managerVars,
                      NEW k \in Keys, live'[k] # live[k], live[k].spec # Absent,
                      live'[k].spec # Absent
               PROVE  \E p \in Procs :
                        /\ pc[p] = "holding"
                        /\ call[p].key = k
                        /\ removeEndpoints(live'[k].spec.eps, call[p].cluster)
                             = removeEndpoints(live[k].spec.eps, call[p].cluster)
    OBVIOUS
  <2>1. PICK p \in Procs : Commit(p) \/ LoseReply(p)
    BY DEF Next, Step, Invoke, LockAndRead, ReadFails, Skip, Reject, LoseRequest, Return,
           Deliver, Restart, managerVars, apiVars
  <2>2. pc[p] = "holding" /\ Store(call[p].key, Written(p))
    BY <2>1 DEF Commit, LoseReply
  <2>3. PICK r \in Requests(p) \ {"none"} : Accepts(p, r)
    BY <2>1 DEF Commit, LoseReply
  <2>4. call[p] \in Calls /\ call[p].key = k /\ live'[k] = Written(p)
    BY <2>2, WrittenVersion DEF IInv, TypeOK, Store
  <2>5. live'[k].spec = Wanted(p)
    BY <2>4 DEF Written
  <2>6. snap[p] = live[k]
    BY <2>2, <2>3, <2>4, <2>5, UpdateStartsFromStored
  <2>7. live[k].spec \in Specs
    BY DEF IInv, TypeOK, Versions, MaybeSpec
  <2> QED
    BY <2>2, <2>4, <2>5, <2>6, <2>7, AppliedIsolation DEF Wanted
<1> QED
  BY <1>1, Invariant, PTL DEF Spec, MergeIsolation

\* Without a cache a global service is deleted only by the revocation of the
\* last cluster that contributes to it.  The cached client of production breaks
\* this: there the read may miss an endpoint that is stored.
THEOREM DirectDeletesLoseNobody == ASSUME ~CachedReads PROVE Spec => DeleteLosesNobody
<1> DEFINE LosesNobody ==
      \A k \in Keys :
        (live[k].spec # Absent /\ live'[k].spec = Absent) =>
          \E p \in Procs :
            /\ pc[p] = "holding"
            /\ call[p].key = k
            /\ removeEndpoints(live[k].spec.eps, call[p].cluster) = {}
<1>1. IInv /\ [Next]_managerVars => LosesNobody
  <2> SUFFICES ASSUME IInv, [Next]_managerVars,
                      NEW k \in Keys, live[k].spec # Absent, live'[k].spec = Absent
               PROVE  \E p \in Procs :
                        /\ pc[p] = "holding"
                        /\ call[p].key = k
                        /\ removeEndpoints(live[k].spec.eps, call[p].cluster) = {}
    OBVIOUS
  <2>1. PICK p \in Procs : Commit(p) \/ LoseReply(p)
    BY DEF Next, Step, Invoke, LockAndRead, ReadFails, Skip, Reject, LoseRequest, Return,
           Deliver, Restart, managerVars, apiVars
  <2>2. pc[p] = "holding" /\ Store(call[p].key, Written(p))
    BY <2>1 DEF Commit, LoseReply
  <2>3. call[p] \in Calls /\ call[p].key = k /\ live'[k] = Written(p)
    BY <2>2, WrittenVersion DEF IInv, TypeOK, Store
  <2>4. snap[p] = live[k] /\ live[k].spec \in Specs
    BY <2>2, <2>3 DEF IInv, LockKeepsFresh, TypeOK, Versions, MaybeSpec
  <2>5. Applied(live[k].spec, call[p]) = Absent
    BY <2>3, <2>4 DEF Written, Wanted
  <2>6. EndpointsOf(live[k].spec) = live[k].spec.eps
    BY DEF EndpointsOf
  <2>7. call[p].op # "merge"
    <3> SUFFICES ASSUME call[p].op = "merge" PROVE FALSE
      OBVIOUS
    <3>1. Applied(live[k].spec, call[p]) \in Specs
      <4>1. call[p] \in MergeCalls
        BY <2>3 DEF Calls, RevokeCalls
      <4>2. /\ OwnEndpoints(call[p].cluster, call[p].export.addrs) \in SUBSET Endpoints
            /\ call[p].export.def \in Defs
        BY <4>1, GlobalServiceAssumption DEF OwnEndpoints, Endpoints, MergeCalls
      <4>3. removeEndpoints(EndpointsOf(live[k].spec), call[p].cluster) \in SUBSET Endpoints
        BY <2>4, <2>6 DEF Specs, removeEndpoints
      <4> QED
        BY <4>2, <4>3 DEF Applied, MergedSpec, Specs
    <3> QED
      BY <2>5, <3>1, GlobalServiceAssumption DEF Specs, Endpoints
  <2>8. removeEndpoints(live[k].spec.eps, call[p].cluster) = {}
    <3>1. RevokedSpec(live[k].spec, call[p].cluster) = Absent
      BY <2>5, <2>7 DEF Applied
    <3>2. ASSUME removeEndpoints(live[k].spec.eps, call[p].cluster) # {} PROVE FALSE
      <4>1. RevokedSpec(live[k].spec, call[p].cluster) \in Specs
        BY <2>4, <2>6, <3>2 DEF RevokedSpec, Specs, removeEndpoints
      <4> QED
        BY <3>1, <4>1, GlobalServiceAssumption DEF Specs, Endpoints
    <3> QED
      BY <3>2
  <2> QED
    BY <2>2, <2>3, <2>8
<1> QED
  BY <1>1, Invariant, PTL DEF Spec, DeleteLosesNobody

=============================================================================
