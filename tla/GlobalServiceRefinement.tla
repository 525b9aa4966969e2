---------------------- MODULE GlobalServiceRefinement -----------------------
(***************************************************************************)
(* With an uncached client the manager implements GlobalServiceRegistry:   *)
(* proof of ImplementsRegistry for every instance.  The step that matters  *)
(* is that a call writes what it computed from the stored object, which    *)
(* the invariant LockKeepsFresh provides.                                  *)
(***************************************************************************)
EXTENDS GlobalServiceManagerProofs

AbsServices == [k \in Keys |-> live[k].spec]

\* A call that ends without an effect is a refused call of the registry.
LEMMA RefusedStep ==
  ASSUME TypeOK, NEW p \in Procs, pc[p] \in {"waiting", "holding"},
         UNCHANGED live, Finish(p, "error")
  PROVE  Registry!Refuse(p)
<1>1. AbsPhase[p] = "called"
  BY DEF AbsPhase
<1>2. AbsPhase' = [AbsPhase EXCEPT ![p] = "returned"]
  BY DEF AbsPhase, Finish, TypeOK
<1> QED
  BY <1>1, <1>2 DEF Registry!Refuse, Registry!Finish, Finish

\* A call that leaves the stored object as Applied says has taken effect.
LEMMA EffectStep ==
  ASSUME TypeOK, NEW p \in Procs, pc[p] = "holding", NEW r \in {"ok", "error"}, Finish(p, r),
         AbsServices' = [AbsServices EXCEPT ![call[p].key] =
                           Applied(AbsServices[call[p].key], call[p])]
  PROVE  Registry!Effect(p)
<1>1. AbsPhase[p] = "called"
  BY DEF AbsPhase
<1>2. AbsPhase' = [AbsPhase EXCEPT ![p] = "returned"]
  BY DEF AbsPhase, Finish, TypeOK
<1>3. Registry!Finish(p, r)
  BY <1>1, <1>2 DEF Registry!Finish, Finish
<1>4. Registry!TakeEffect(p)
  BY DEF Registry!TakeEffect, AbsServices, Registry!Applied, Registry!MergedSpec,
         Registry!RevokedSpec, Registry!removeEndpoints, Registry!EndpointsOf,
         Registry!OwnEndpoints, Applied, MergedSpec, RevokedSpec, removeEndpoints,
         EndpointsOf, OwnEndpoints
<1> QED
  BY <1>3, <1>4 DEF Registry!Effect

\* What an accepted write of a call with a fresh snapshot does.
LEMMA CommitEffect ==
  ASSUME IInv, ~CachedReads, NEW p \in Procs, pc[p] = "holding",
         Store(call[p].key, Written(p))
  PROVE  AbsServices' = [AbsServices EXCEPT ![call[p].key] =
                           Applied(AbsServices[call[p].key], call[p])]
<1>1. call[p].key \in Keys
  BY WrittenVersion DEF IInv
<1>2. snap[p] = live[call[p].key]
  BY DEF IInv, LockKeepsFresh
<1>3. live' = [live EXCEPT ![call[p].key] = Written(p)]
  BY DEF Store
<1>4. Written(p).spec = Applied(live[call[p].key].spec, call[p])
  BY <1>2 DEF Written, Wanted
<1> QED
  BY <1>1, <1>3, <1>4 DEF AbsServices, IInv, TypeOK

\* A call of a fresh snapshot that has nothing to write has nothing to do.
LEMMA SkipEffect ==
  ASSUME IInv, ~CachedReads, NEW p \in Procs, Skip(p)
  PROVE  AbsServices' = [AbsServices EXCEPT ![call[p].key] =
                           Applied(AbsServices[call[p].key], call[p])]
<1>1. call[p].key \in Keys /\ call[p] \in Calls
  BY WrittenVersion DEF IInv, Skip
<1>2. snap[p] = live[call[p].key]
  BY DEF IInv, LockKeepsFresh, Skip
<1>3. Applied(live[call[p].key].spec, call[p]) = live[call[p].key].spec
  <2>1. CASE Wanted(p) = snap[p].spec
    BY <1>2, <2>1 DEF Wanted
  <2>2. CASE Wanted(p) # snap[p].spec
    <3>1. call[p].op # "merge" /\ snap[p].spec = Absent
      BY <2>2 DEF Skip, Requests
    <3> QED
      BY <1>2, <3>1 DEF Applied, RevokedSpec, EndpointsOf, removeEndpoints
  <2> QED
    BY <2>1, <2>2
<1> QED
  BY <1>1, <1>3 DEF AbsServices, Skip, apiVars

\* Every step of the manager is a step of the registry or leaves it unchanged.
LEMMA StepRefines ==
  ASSUME ~CachedReads, IInv, [Next]_managerVars
  PROVE  [Registry!Next]_(Registry!rvars)
<1>0. TypeOK
  BY DEF IInv
<1>1. ASSUME NEW p \in Procs, NEW c \in Calls, Invoke(p, c) PROVE Registry!Invoke(p, c)
  <2>1. AbsPhase[p] = "idle" /\ AbsPhase' = [AbsPhase EXCEPT ![p] = "called"]
    BY <1>0, <1>1 DEF Invoke, AbsPhase, TypeOK
  <2> QED
    BY <1>1, <2>1 DEF Registry!Invoke, Invoke, apiVars
<1>2. ASSUME NEW p \in Procs, LockAndRead(p) PROVE UNCHANGED Registry!rvars
  <2>1. AbsPhase' = AbsPhase
    BY <1>0, <1>2 DEF LockAndRead, AbsPhase, TypeOK
  <2> QED
    BY <1>2, <2>1 DEF Registry!rvars, LockAndRead
<1>3. ASSUME NEW p \in Procs, ReadFails(p) \/ Reject(p) \/ LoseRequest(p)
      PROVE  Registry!Refuse(p)
  BY <1>0, <1>3, RefusedStep DEF ReadFails, Reject, LoseRequest, apiVars
<1>4. ASSUME NEW p \in Procs, Skip(p) PROVE Registry!Effect(p)
  BY <1>0, <1>4, SkipEffect, EffectStep DEF Skip
<1>5. ASSUME NEW p \in Procs, Commit(p) \/ LoseReply(p) PROVE Registry!Effect(p)
  BY <1>0, <1>5, CommitEffect, EffectStep DEF Commit, LoseReply
<1>6. ASSUME NEW p \in Procs, Return(p) PROVE Registry!Return(p)
  <2>1. AbsPhase[p] = "returned" /\ AbsPhase' = [AbsPhase EXCEPT ![p] = "idle"]
    BY <1>0, <1>6 DEF Return, AbsPhase, TypeOK
  <2> QED
    BY <1>6, <2>1 DEF Registry!Return, Return, apiVars
<1>7. ASSUME NEW k \in Keys, Deliver(k) PROVE UNCHANGED Registry!rvars
  BY <1>7 DEF Deliver, Registry!rvars, AbsPhase, apiVars
<1>8. ASSUME Restart PROVE Registry!Restart
  <2>1. AbsPhase' = [p \in Procs |-> "idle"]
    BY <1>8 DEF Restart, AbsPhase
  <2> QED
    BY <1>8, <2>1 DEF Restart, Registry!Restart, apiVars
<1>9. CASE UNCHANGED managerVars
  BY <1>9 DEF managerVars, Registry!rvars, AbsPhase
<1>10. \A c \in Calls : c \in Registry!Calls
  BY DEF Calls, MergeCalls, RevokeCalls, Registry!Calls, Registry!MergeCalls,
         Registry!RevokeCalls
<1> QED
  BY <1>1, <1>2, <1>3, <1>4, <1>5, <1>6, <1>7, <1>8, <1>9, <1>10
     DEF Next, Step, Registry!Next

\* With an uncached client, for any number of goroutines, clusters and keys,
\* with failing requests and restarts, every call takes effect in one step or
\* not at all, and a call that returned nil has taken effect.
THEOREM DirectImplementsRegistry ==
  ASSUME ~CachedReads
  PROVE  Spec => ImplementsRegistry
<1>1. Init => Registry!Init
  BY DEF Init, Registry!Init, AbsPhase, Missing
<1>2. IInv /\ [Next]_managerVars => [Registry!Next]_(Registry!rvars)
  BY StepRefines
<1> QED
  BY <1>1, <1>2, Invariant, PTL DEF Spec, ImplementsRegistry, Registry!Spec

=============================================================================
