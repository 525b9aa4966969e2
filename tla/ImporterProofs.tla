--------------------------- MODULE ImporterProofs ---------------------------
(***************************************************************************)
(* Proofs about Importer, for any number of keys, versions, goroutines,    *)
(* faults and restarts: it implements Replica.                             *)
(***************************************************************************)
EXTENDS Importer, TLAPS

\* Every copy the member ever had of k is of a version before v.
Below(k, v) == \A i \in DOMAIN stored[k] : stored[k][i].origin < v

\* A goroutine carries a version the host has served.
JobsGenuine ==
  \A k \in Keys, s \in Slots :
    job[k][s] # None =>
      /\ job[k][s].rv \in 1 .. served[k]
      /\ job[k][s].at \in 0 .. Len(stored[k])
      /\ job[k][s].spec = published[k][job[k][s].rv]
      /\ job[k][s].op = "delete" <=> job[k][s].spec = Absent

\* So does the list of a round.
RoundGenuine ==
  round.pc = "listing" => \A k \in Keys : round.listed[k] \in 1 .. served[k]

\* So does every copy.
CopiesGenuine ==
  \A k \in Keys : \A i \in DOMAIN stored[k] :
    LET o == stored[k][i]
    IN  IF o.spec = Absent THEN o = Gone
        ELSE o.origin \in 1 .. served[k] /\ published[k][o.origin] = o.spec

\* A key has one goroutine at a time, and while the round is listing only one
\* that saves what the list has.
OneJob ==
  \A k \in Keys, s \in Slots :
    job[k][s] # None =>
      /\ \A t \in Slots : job[k][t] # None => t = s
      /\ round.pc = "listing" => job[k][s].op = "save" /\ Imported(k)

\* What a goroutine, or the round, is about to delete is older than the list.
JobsAhead ==
  \A k \in Keys :
    /\ (round.pc = "listing" /\ ~Imported(k)) => Below(k, round.listed[k])
    /\ \A s \in Slots :
         /\ IsDelete(k, s) => Below(k, job[k][s].rv)
         /\ IsSave(k, s) =>
              /\ \A i \in DOMAIN stored[k] : stored[k][i].origin <= job[k][s].rv
              /\ Last(stored[k]).spec = Absent => Below(k, job[k][s].rv)

\* The last copy is the newest; after a deletion all copies are older than a
\* deletion of the host.
CopiesOrdered ==
  \A k \in Keys :
    IF Last(stored[k]).spec = Absent
    THEN \E v \in 1 .. served[k] : published[k][v] = Absent /\ Below(k, v)
    ELSE \A i \in DOMAIN stored[k] : stored[k][i].origin <= Last(stored[k]).origin

\* The last three hold if goroutines end with their round.
IInv ==
  /\ ImporterTypeOK
  /\ JobsGenuine /\ RoundGenuine /\ CopiesGenuine
  /\ ~slow => OneJob /\ JobsAhead /\ CopiesOrdered

----------------------------------------------------------------------------
(* Types. *)

\* What Append does, as the steps below use it.
LEMMA AppendFacts ==
  ASSUME NEW S, NEW q \in Seq(S), NEW e \in S
  PROVE  /\ Append(q, e) \in Seq(S)
         /\ Len(Append(q, e)) = Len(q) + 1
         /\ DOMAIN Append(q, e) = 1 .. Len(q) + 1
         /\ \A i \in 1 .. Len(q) : Append(q, e)[i] = q[i]
         /\ Last(Append(q, e)) = e
         /\ Len(q) \in Nat /\ DOMAIN q = 1 .. Len(q)
BY DEF Last

\* Starting goroutines keeps the type of job: one more in each of the keys,
\* and none changed.
LEMMA StartFacts ==
  ASSUME ImporterTypeOK, NEW keys \in SUBSET Keys, NEW new \in [Keys -> JobType],
         Start(keys, new)
  PROVE  /\ job' \in [Keys -> [Slots -> JobType \union {None}]]
         /\ \A k \in Keys \ keys : job'[k] = job[k]
         /\ \A k \in keys : \E f \in FreeSlots(k) :
              /\ job'[k][f] = new[k]
              /\ \A s \in Slots \ {f} : job'[k][s] = job[k][s]
<1>1. \A k \in keys : (CHOOSE s \in FreeSlots(k) : TRUE) \in FreeSlots(k)
  BY DEF Start
<1>2. \A k \in Keys : FreeSlots(k) \subseteq Slots
  BY DEF FreeSlots
<1> QED
  BY <1>1, <1>2 DEF Start, ImporterTypeOK

\* The goroutines that Download starts.
NewSave == [k \in Keys |-> [op |-> "save", rv |-> served[k],
                            spec |-> published[k][served[k]], at |-> 0]]

\* The goroutines that ListLocal starts.
NewDelete == [k \in Keys |-> [op |-> "delete", rv |-> round.listed[k],
                              spec |-> Absent, at |-> 0]]

\* Both are typed.
LEMMA NewTypes ==
  ImporterTypeOK => NewSave \in [Keys -> JobType] /\ NewDelete \in [Keys -> JobType]
BY DEF ImporterTypeOK, NewSave, NewDelete, JobType, MaybeSpec

\* Storing an object adds it at the end of the key's log.
LEMMA StoreFacts ==
  ASSUME ImporterTypeOK, NEW k \in Keys, NEW obj \in Objects, Store(k, obj)
  PROVE  /\ stored' \in [Keys -> Seq(Objects)]
         /\ UNCHANGED <<seen, namespaces>>
         /\ \A j \in Keys \ {k} : stored'[j] = stored[j]
         /\ Len(stored'[k]) = Len(stored[k]) + 1
         /\ DOMAIN stored'[k] = 1 .. Len(stored[k]) + 1
         /\ DOMAIN stored[k] = 1 .. Len(stored[k])
         /\ \A i \in 1 .. Len(stored[k]) : stored'[k][i] = stored[k][i]
         /\ Last(stored'[k]) = obj /\ stored'[k][Len(stored[k]) + 1] = obj
         /\ \A j \in Keys : seen'[j] \in 1 .. Len(stored'[j])
<1>1. stored[k] \in Seq(Objects) /\ stored' = [stored EXCEPT ![k] = Append(@, obj)]
  BY DEF ImporterTypeOK, Store
<1>2. /\ Append(stored[k], obj) \in Seq(Objects)
      /\ Len(Append(stored[k], obj)) = Len(stored[k]) + 1
      /\ DOMAIN Append(stored[k], obj) = 1 .. Len(stored[k]) + 1
      /\ \A i \in 1 .. Len(stored[k]) : Append(stored[k], obj)[i] = stored[k][i]
      /\ Last(Append(stored[k], obj)) = obj
      /\ Len(stored[k]) \in Nat /\ DOMAIN stored[k] = 1 .. Len(stored[k])
  BY <1>1, AppendFacts
<1>3. stored'[k] = Append(stored[k], obj) /\ \A j \in Keys \ {k} : stored'[j] = stored[j]
  BY <1>1 DEF ImporterTypeOK
<1>4. Append(stored[k], obj)[Len(stored[k]) + 1] = obj
  BY <1>2 DEF Last
<1>5. stored' \in [Keys -> Seq(Objects)]
  BY <1>1, <1>2 DEF ImporterTypeOK
<1>6. UNCHANGED <<seen, namespaces>>
  BY DEF Store
<1>7. \A j \in Keys : seen'[j] \in 1 .. Len(stored'[j])
  <2>1. \A j \in Keys : seen[j] \in 1 .. Len(stored[j])
    BY DEF ImporterTypeOK
  <2> QED
    BY <1>2, <1>3, <1>6, <2>1
<1> QED
  BY <1>2, <1>3, <1>4, <1>5, <1>6, <1>7

\* What a goroutine writes is an object.
LEMMA SavedTyped ==
  ASSUME ImporterTypeOK, NEW k \in Keys, NEW s \in Slots, IsSave(k, s)
  PROVE  Saved(k, s) \in Objects
BY DEF ImporterTypeOK, IsSave, Saved, JobType, Objects

\* Every step keeps the types.
LEMMA ImporterTypeStep == ImporterTypeOK /\ [Next]_vars => ImporterTypeOK'
<1> SUFFICES ASSUME ImporterTypeOK, [Next]_vars PROVE ImporterTypeOK'
  OBVIOUS
<1> USE ImporterAssumption
<1>1. CASE Download
  <2>1. PICK keys \in SUBSET Keys : Start(keys, NewSave)
    BY <1>1 DEF Download, NewSave
  <2>2. job' \in [Keys -> [Slots -> JobType \union {None}]]
    BY <2>1, StartFacts, NewTypes
  <2> QED
    BY <1>1, <2>2 DEF Download, ImporterTypeOK, hostVars, memberVars
<1>2. CASE DownloadFails
  BY <1>2 DEF DownloadFails, ImporterTypeOK, hostVars, memberVars, Fault
<1>3. CASE ListLocal
  <2>1. PICK keys \in SUBSET Keys : Start(keys, NewDelete)
    BY <1>3 DEF ListLocal, NewDelete
  <2>2. job' \in [Keys -> [Slots -> JobType \union {None}]]
    BY <2>1, StartFacts, NewTypes
  <2> QED
    BY <1>3, <2>2 DEF ListLocal, ImporterTypeOK, hostVars, memberVars, Idle
<1>4. CASE ListFails
  BY <1>4 DEF ListFails, ImporterTypeOK, hostVars, memberVars, Fault, Idle
<1>5. ASSUME NEW k \in Keys, NEW x \in MaybeSpec, Publish(k, x) PROVE ImporterTypeOK'
  <2>1. published[k] \in Seq(MaybeSpec)
    BY DEF ImporterTypeOK
  <2>2. /\ Append(published[k], x) \in Seq(MaybeSpec)
        /\ Len(Append(published[k], x)) = Len(published[k]) + 1
        /\ Len(published[k]) \in Nat
    BY <2>1, AppendFacts
  <2> QED
    BY <1>5, <2>2 DEF Publish, ImporterTypeOK, memberVars
<1>6. ASSUME NEW k \in Keys, Serve(k) PROVE ImporterTypeOK'
  <2>1. Len(published[k]) \in Nat
    BY DEF ImporterTypeOK
  <2> QED
    BY <1>6, <2>1 DEF Serve, ImporterTypeOK, memberVars
<1>7. ASSUME NEW k \in Keys, Deliver(k) PROVE ImporterTypeOK'
  <2>1. Len(stored[k]) \in Nat
    BY DEF ImporterTypeOK
  <2> QED
    BY <1>7, <2>1 DEF Deliver, ImporterTypeOK, hostVars
<1>8. ASSUME NEW k \in Keys, NEW s \in Slots, ReadLocal(k, s) PROVE ImporterTypeOK'
  <2>1. job[k][s] \in JobType /\ seen[k] \in Nat
    BY <1>8 DEF ReadLocal, IsSave, ImporterTypeOK
  <2>2. [job[k][s] EXCEPT !.at = seen[k]] \in JobType
    BY <2>1 DEF JobType
  <2> QED
    BY <1>8, <2>2 DEF ReadLocal, ImporterTypeOK, hostVars
<1>9. ASSUME NEW k \in Keys, NEW s \in Slots, End(k, s)
      PROVE  job' \in [Keys -> [Slots -> JobType \union {None}]]
  BY <1>9 DEF End, ImporterTypeOK
<1>10. ASSUME NEW k \in Keys, NEW s \in Slots, SaveSkips(k, s) \/ SaveRejected(k, s)
       PROVE  ImporterTypeOK'
  BY <1>9, <1>10 DEF SaveSkips, SaveRejected, ImporterTypeOK, hostVars, memberVars
<1>11. ASSUME NEW k \in Keys, NEW s \in Slots, SaveWrites(k, s) PROVE ImporterTypeOK'
  <2>1. Saved(k, s) \in Objects /\ Store(k, Saved(k, s)) /\ End(k, s)
    BY <1>11, SavedTyped DEF SaveWrites
  <2>2. /\ stored' \in [Keys -> Seq(Objects)] /\ UNCHANGED <<seen, namespaces>>
        /\ \A j \in Keys : seen'[j] \in 1 .. Len(stored'[j])
    BY <2>1, StoreFacts
  <2> QED
    BY <1>9, <1>11, <2>1, <2>2 DEF SaveWrites, ImporterTypeOK, hostVars
<1>12. ASSUME NEW k \in Keys, NEW s \in Slots, Delete(k, s) PROVE ImporterTypeOK'
  <2>1. Gone \in Objects
    BY DEF Gone, Objects, MaybeSpec
  <2>2. CASE Store(k, Gone)
    <3>1. /\ stored' \in [Keys -> Seq(Objects)] /\ UNCHANGED <<seen, namespaces>>
          /\ \A j \in Keys : seen'[j] \in 1 .. Len(stored'[j])
      BY <2>1, <2>2, StoreFacts
    <3> QED
      BY <1>9, <1>12, <3>1 DEF Delete, ImporterTypeOK, hostVars
  <2>3. CASE UNCHANGED memberVars
    BY <1>9, <1>12, <2>3 DEF Delete, ImporterTypeOK, hostVars, memberVars
  <2> QED
    BY <1>12, <2>2, <2>3 DEF Delete
<1>13. ASSUME NEW k \in Keys, NEW s \in Slots, RequestLost(k, s) PROVE ImporterTypeOK'
  BY <1>9, <1>13 DEF RequestLost, ImporterTypeOK, hostVars, memberVars, Fault
<1>14. CASE Restart
  <2>1. \A k \in Keys : Len(stored[k]) \in Nat /\ Len(stored[k]) >= 1
    BY DEF ImporterTypeOK
  <2> QED
    BY <1>14, <2>1 DEF Restart, ImporterTypeOK, hostVars, Idle
<1>15. CASE UNCHANGED vars
  BY <1>15 DEF vars, ImporterTypeOK
<1> QED
  BY <1>1, <1>2, <1>3, <1>4, <1>5, <1>6, <1>7, <1>8, <1>10, <1>11, <1>12, <1>13, <1>14, <1>15
     DEF Next, JobStep, SaveStep

\* The importer's state stays well typed.
THEOREM ImporterTypeCorrect == Spec => []ImporterTypeOK
<1>1. Init => ImporterTypeOK
  <2> SUFFICES ASSUME Init PROVE ImporterTypeOK
    OBVIOUS
  <2>1. Gone \in Objects
    BY DEF Gone, Objects, MaybeSpec
  <2>2. /\ <<Absent>> \in Seq(MaybeSpec) /\ Len(<<Absent>>) = 1
        /\ <<Gone>> \in Seq(Objects) /\ Len(<<Gone>>) = 1
    BY <2>1 DEF MaybeSpec
  <2> QED
    BY <2>2, ImporterAssumption DEF Init, ImporterTypeOK, Idle
<1> QED
  BY <1>1, ImporterTypeStep, PTL DEF Spec

----------------------------------------------------------------------------
(* The invariant. *)

\* The host's logs only grow.
Grows ==
  \A k \in Keys :
    /\ served[k] <= served'[k]
    /\ \A v \in 1 .. served[k] : published'[k][v] = published[k][v]

\* The parts of the invariant that are not about types.
Parts ==
  /\ JobsGenuine /\ RoundGenuine /\ CopiesGenuine
  /\ ~slow => OneJob /\ JobsAhead /\ CopiesOrdered

\* Elementary facts about the positions in use.
LEMMA Positions ==
  ImporterTypeOK => \A k \in Keys : /\ served[k] \in Nat /\ served[k] >= 1
                                   /\ Len(stored[k]) \in Nat /\ Len(stored[k]) >= 1
                                   /\ DOMAIN stored[k] = 1 .. Len(stored[k])
                                   /\ \A i \in DOMAIN stored[k] : stored[k][i].origin \in Nat
<1> SUFFICES ASSUME ImporterTypeOK, NEW k \in Keys
             PROVE  /\ served[k] \in Nat /\ served[k] >= 1
                    /\ Len(stored[k]) \in Nat /\ Len(stored[k]) >= 1
                    /\ DOMAIN stored[k] = 1 .. Len(stored[k])
                    /\ \A i \in DOMAIN stored[k] : stored[k][i].origin \in Nat
  OBVIOUS
<1>1. stored[k] \in Seq(Objects) /\ seen[k] \in 1 .. Len(stored[k])
  BY DEF ImporterTypeOK
<1>2. served[k] \in Nat /\ served[k] \in 1 .. Len(published[k])
  BY DEF ImporterTypeOK
<1>3. \A i \in DOMAIN stored[k] : stored[k][i] \in Objects
  BY <1>1
<1> QED
  BY <1>1, <1>2, <1>3 DEF Objects

\* The fields of the goroutines that are started.
LEMMA NewFields ==
  \A k \in Keys :
    /\ NewSave[k].op = "save" /\ NewSave[k].rv = served[k] /\ NewSave[k].at = 0
    /\ NewSave[k].spec = published[k][served[k]]
    /\ NewDelete[k].op = "delete" /\ NewDelete[k].rv = round.listed[k]
    /\ NewDelete[k].at = 0 /\ NewDelete[k].spec = Absent
BY DEF NewSave, NewDelete

\* A step that stores nothing, and starts no goroutine, keeps the invariant.
LEMMA CalmStep ==
  ASSUME IInv, ImporterTypeOK', Grows, UNCHANGED <<stored, slow>>,
         round' = round \/ round'.pc = "idle",
         \A k \in Keys, s \in Slots :
           job'[k][s] # None =>
             /\ job[k][s] # None
             /\ job'[k][s].rv = job[k][s].rv /\ job'[k][s].op = job[k][s].op
             /\ job'[k][s].spec = job[k][s].spec
             /\ job'[k][s].at \in 0 .. Len(stored[k])
  PROVE  Parts'
<1>0. \A k \in Keys : served[k] \in Nat /\ served'[k] \in Nat
  BY DEF IInv, ImporterTypeOK
<1>1. JobsGenuine'
  BY <1>0 DEF IInv, JobsGenuine, Grows
<1>2. RoundGenuine'
  BY <1>0 DEF IInv, RoundGenuine, Grows
<1>3. CopiesGenuine'
  BY <1>0 DEF IInv, CopiesGenuine, Grows
<1>4. ASSUME round.pc = "listing" PROVE \A k \in Keys : published'[k][round.listed[k]] = published[k][round.listed[k]]
  BY <1>4, <1>0 DEF IInv, RoundGenuine, Grows
<1>5. ASSUME ~slow PROVE OneJob'
  BY <1>4, <1>5 DEF IInv, OneJob, Imported
<1>6. ASSUME ~slow PROVE JobsAhead'
  BY <1>4, <1>6 DEF IInv, JobsAhead, Imported, IsDelete, IsSave, Below
<1>7. ASSUME ~slow PROVE CopiesOrdered'
  BY <1>0, <1>7 DEF IInv, CopiesOrdered, Grows, Below
<1> QED
  BY <1>1, <1>2, <1>3, <1>5, <1>6, <1>7 DEF Parts

\* Copies of a version that the host served are at most of the newest it has.
LEMMA CopiesServed ==
  ASSUME IInv, NEW k \in Keys
  PROVE  /\ \A i \in DOMAIN stored[k] : stored[k][i].origin <= served[k]
         /\ published[k][served[k]] = Absent => Below(k, served[k])
<1>1. served[k] \in Nat /\ served[k] >= 1
  BY Positions DEF IInv
<1>2. ASSUME NEW i \in DOMAIN stored[k]
      PROVE  /\ stored[k][i].origin <= served[k]
             /\ published[k][served[k]] = Absent => stored[k][i].origin < served[k]
  <2>1. CASE stored[k][i].spec = Absent
    BY <1>1, <2>1 DEF IInv, CopiesGenuine, Gone
  <2>2. CASE stored[k][i].spec # Absent
    BY <1>1, <2>2 DEF IInv, CopiesGenuine
  <2> QED
    BY <2>1, <2>2
<1> QED
  BY <1>2 DEF Below

\* A round begins.
LEMMA DownloadStep ==
  ASSUME IInv, ImporterTypeOK', Download
  PROVE  Parts'
<1> DEFINE keys == {k \in Keys : published[k][served[k]] # Absent}
<1>1. /\ Start(keys, NewSave) /\ round' = [pc |-> "listing", listed |-> served]
      /\ UNCHANGED <<published, served, stored, slow>> /\ MayTick
  BY DEF Download, NewSave, hostVars, memberVars
<1>2. /\ \A k \in Keys \ keys : job'[k] = job[k]
      /\ \A k \in keys : \E f \in FreeSlots(k) :
            /\ job'[k][f] = NewSave[k]
            /\ \A s \in Slots \ {f} : job'[k][s] = job[k][s]
  BY <1>1, NewTypes, StartFacts DEF IInv
<1>3. \A k \in Keys : /\ served[k] \in Nat /\ served[k] >= 1
                       /\ Len(stored[k]) \in Nat
  BY Positions DEF IInv
<1>4. ASSUME NEW k \in Keys, NEW s \in Slots, job'[k][s] # None
      PROVE  \/ job'[k][s] = job[k][s]
             \/ k \in keys /\ job'[k][s] = NewSave[k]
  BY <1>2, <1>4
<1>5. JobsGenuine'
  BY <1>1, <1>3, <1>4 DEF IInv, JobsGenuine, NewSave
<1>6. RoundGenuine' /\ CopiesGenuine'
  BY <1>1, <1>3 DEF IInv, RoundGenuine, CopiesGenuine
<1>7. ASSUME ~slow PROVE OneJob' /\ JobsAhead' /\ CopiesOrdered'
  <2>1. \A k \in Keys, s \in Slots : job[k][s] = None
    BY <1>1, <1>7 DEF MayTick
  <2>2. \A k \in Keys, s \in Slots :
          job'[k][s] # None => k \in keys /\ job'[k][s] = NewSave[k]
    BY <1>4, <2>1
  <2>3. \A k \in keys, s, t \in Slots : (job'[k][s] # None /\ job'[k][t] # None) => s = t
    BY <1>2, <2>1
  <2>4. \A k \in Keys : Imported(k)' <=> k \in keys
    BY <1>1 DEF Imported
  <2>5. OneJob'
    BY <2>2, <2>3, <2>4, NewFields DEF OneJob
  <2>6. ASSUME NEW k \in Keys PROVE ~Imported(k)' => Below(k, round.listed[k])'
    BY <1>1, <2>4, CopiesServed DEF Below
  <2>7. ASSUME NEW k \in keys, Last(stored[k]).spec = Absent PROVE Below(k, served[k])
    <3>1. PICK v \in 1 .. served[k] : published[k][v] = Absent /\ Below(k, v)
      BY <1>7, <2>7 DEF IInv, CopiesOrdered
    <3>2. v < served[k]
      BY <1>3, <3>1
    <3>3. \A i \in DOMAIN stored[k] : stored[k][i].origin \in Nat
      BY Positions DEF IInv
    <3> QED
      BY <1>3, <3>1, <3>2, <3>3 DEF Below
  <2>8. JobsAhead'
    <3> SUFFICES ASSUME NEW k \in Keys, NEW s \in Slots, job'[k][s] # None
                 PROVE  /\ IsDelete(k, s)' => Below(k, job[k][s].rv)'
                        /\ IsSave(k, s)' =>
                             /\ \A i \in DOMAIN stored'[k] : stored'[k][i].origin <= job'[k][s].rv
                             /\ Last(stored'[k]).spec = Absent => Below(k, job[k][s].rv)'
      BY <2>6 DEF JobsAhead, IsDelete, IsSave
    <3>1. k \in keys /\ job'[k][s].op = "save" /\ job'[k][s].rv = served[k]
      BY <2>2, NewFields
    <3> QED
      BY <1>1, <2>7, <3>1, CopiesServed DEF IsDelete, IsSave, Below
  <2>9. CopiesOrdered'
    BY <1>1, <1>7 DEF IInv, CopiesOrdered, Below
  <2> QED
    BY <2>5, <2>8, <2>9
<1> QED
  BY <1>1, <1>5, <1>6, <1>7 DEF Parts

\* The round lists what is to be deleted.
LEMMA ListLocalStep ==
  ASSUME IInv, ImporterTypeOK', ListLocal
  PROVE  Parts'
<1> DEFINE keys == {k \in Keys : stored[k][seen[k]].spec # Absent /\ ~Imported(k)}
<1>1. /\ Start(keys, NewDelete) /\ round.pc = "listing" /\ round'.pc = "idle"
      /\ UNCHANGED <<published, served, stored, slow>>
  BY DEF ListLocal, NewDelete, hostVars, memberVars, Idle
<1>2. /\ \A k \in Keys \ keys : job'[k] = job[k]
      /\ \A k \in keys : \E f \in FreeSlots(k) :
            /\ job'[k][f] = NewDelete[k]
            /\ \A s \in Slots \ {f} : job'[k][s] = job[k][s]
  BY <1>1, NewTypes, StartFacts DEF IInv
<1>3. \A k \in Keys : /\ round.listed[k] \in 1 .. served[k]
                       /\ Len(stored[k]) \in Nat
  BY <1>1, Positions DEF IInv, RoundGenuine
<1>4. ASSUME NEW k \in Keys, NEW s \in Slots, job'[k][s] # None
      PROVE  \/ job'[k][s] = job[k][s]
             \/ k \in keys /\ job'[k][s] = NewDelete[k]
  BY <1>2, <1>4
<1>5. \A k \in keys : published[k][round.listed[k]] = Absent
  BY DEF Imported
<1>6. JobsGenuine'
  <2> SUFFICES ASSUME NEW k \in Keys, NEW s \in Slots, job'[k][s] # None
               PROVE  /\ job'[k][s].rv \in 1 .. served'[k]
                      /\ job'[k][s].at \in 0 .. Len(stored'[k])
                      /\ job'[k][s].spec = published'[k][job'[k][s].rv]
                      /\ job'[k][s].op = "delete" <=> job'[k][s].spec = Absent
    BY DEF JobsGenuine
  <2>1. CASE job'[k][s] = job[k][s]
    BY <1>1, <2>1 DEF IInv, JobsGenuine
  <2>2. CASE k \in keys /\ job'[k][s] = NewDelete[k]
    BY <1>1, <1>3, <1>5, <2>2, NewFields
  <2> QED
    BY <1>4, <2>1, <2>2
<1>7. RoundGenuine' /\ CopiesGenuine'
  BY <1>1 DEF IInv, RoundGenuine, CopiesGenuine
<1>8. ASSUME ~slow PROVE OneJob' /\ JobsAhead' /\ CopiesOrdered'
  <2>1. \A k \in keys, s \in Slots : job[k][s] = None
    BY <1>1, <1>8 DEF IInv, OneJob
  <2>2. \A k \in keys, s, t \in Slots : (job'[k][s] # None /\ job'[k][t] # None) => s = t
    BY <1>2, <2>1
  <2>3. OneJob'
    BY <1>1, <1>2, <1>8, <2>2 DEF IInv, OneJob
  <2>4. \A k \in keys : Below(k, round.listed[k])
    BY <1>1, <1>8 DEF IInv, JobsAhead
  <2>5. JobsAhead'
    <3> SUFFICES ASSUME NEW k \in Keys, NEW s \in Slots, job'[k][s] # None
                 PROVE  /\ IsDelete(k, s)' => Below(k, job[k][s].rv)'
                        /\ IsSave(k, s)' =>
                             /\ \A i \in DOMAIN stored'[k] : stored'[k][i].origin <= job'[k][s].rv
                             /\ Last(stored'[k]).spec = Absent => Below(k, job[k][s].rv)'
      BY <1>1 DEF JobsAhead, IsDelete, IsSave
    <3>1. CASE job'[k][s] = job[k][s]
      BY <1>1, <1>8, <3>1 DEF IInv, JobsAhead, IsDelete, IsSave, Below
    <3>2. CASE k \in keys /\ job'[k][s] = NewDelete[k]
      BY <1>1, <2>4, <3>2 DEF IsDelete, IsSave, Below, NewDelete
    <3> QED
      BY <1>4, <3>1, <3>2
  <2>6. CopiesOrdered'
    BY <1>1, <1>8 DEF IInv, CopiesOrdered, Below
  <2> QED
    BY <2>3, <2>5, <2>6
<1> QED
  BY <1>1, <1>6, <1>7, <1>8 DEF Parts

\* A goroutine that ends leaves the others alone.
LEMMA EndFacts ==
  ASSUME ImporterTypeOK, NEW k \in Keys, NEW s \in Slots, End(k, s)
  PROVE  /\ job'[k][s] = None
         /\ \A j \in Keys, t \in Slots : (j # k \/ t # s) => job'[j][t] = job[j][t]
BY DEF ImporterTypeOK, End

\* A copy that is written is a version of the host's, and newer than all before
\* it if goroutines end with their round.
LEMMA SaveWritesNewer ==
  ASSUME IInv, NEW k \in Keys, NEW s \in Slots, SaveWrites(k, s)
  PROVE  /\ job[k][s].rv \in 1 .. served[k]
         /\ Saved(k, s) = [origin |-> job[k][s].rv, spec |-> published[k][job[k][s].rv]]
         /\ published[k][job[k][s].rv] # Absent
         /\ ~slow => Below(k, job[k][s].rv)
<1>1. IsSave(k, s) /\ job[k][s].at # 0 /\ ~UpToDate(k, s) /\ Accepts(k, s)
  BY DEF SaveWrites
<1>2. /\ job[k][s].rv \in 1 .. served[k] /\ job[k][s].at \in 0 .. Len(stored[k])
      /\ job[k][s].spec = published[k][job[k][s].rv] /\ job[k][s].spec # Absent
  BY <1>1 DEF IInv, JobsGenuine, IsSave
<1>3. ASSUME ~slow PROVE Below(k, job[k][s].rv)
  <2>1. /\ \A i \in DOMAIN stored[k] : stored[k][i].origin <= job[k][s].rv
        /\ Last(stored[k]).spec = Absent => Below(k, job[k][s].rv)
    BY <1>1, <1>3 DEF IInv, JobsAhead
  <2>2. CASE Last(stored[k]).spec # Absent
    <3>1. job[k][s].at = Len(stored[k]) /\ Last(stored[k]).origin # job[k][s].rv
      BY <1>1, <2>2 DEF Accepts, UpToDate, Read, Last
    <3>2. \A i \in DOMAIN stored[k] : stored[k][i].origin <= Last(stored[k]).origin
      BY <1>3, <2>2 DEF IInv, CopiesOrdered
    <3>3. /\ Len(stored[k]) \in DOMAIN stored[k]
          /\ \A i \in DOMAIN stored[k] : stored[k][i].origin \in Nat
      BY Positions DEF IInv
    <3>4. Last(stored[k]).origin \in Nat /\ Last(stored[k]).origin <= job[k][s].rv
      BY <2>1, <3>3 DEF Last
    <3>5. served[k] \in Nat
      BY Positions DEF IInv
    <3> QED
      BY <1>2, <3>1, <3>2, <3>3, <3>4, <3>5 DEF Below
  <2> QED
    BY <2>1, <2>2
<1> QED
  BY <1>2, <1>3 DEF Saved

\* Saving a copy keeps the invariant.
LEMMA SaveWritesStep ==
  ASSUME IInv, ImporterTypeOK', NEW k \in Keys, NEW s \in Slots, SaveWrites(k, s)
  PROVE  Parts'
<1> DEFINE rv == job[k][s].rv
<1> DEFINE n == Len(stored[k])
<1>1. /\ Store(k, Saved(k, s)) /\ End(k, s) /\ IsSave(k, s)
      /\ UNCHANGED <<published, served, slow, round>>
  BY DEF SaveWrites, hostVars
<1>2. /\ rv \in 1 .. served[k] /\ published[k][rv] # Absent
      /\ Saved(k, s).origin = rv /\ Saved(k, s).spec = published[k][rv]
      /\ ~slow => Below(k, rv)
  BY SaveWritesNewer
<1>3. /\ \A j \in Keys \ {k} : stored'[j] = stored[j]
      /\ Len(stored'[k]) = n + 1 /\ DOMAIN stored'[k] = 1 .. n + 1
      /\ DOMAIN stored[k] = 1 .. n
      /\ \A i \in 1 .. n : stored'[k][i] = stored[k][i]
      /\ Last(stored'[k]) = Saved(k, s) /\ stored'[k][n + 1] = Saved(k, s)
  BY <1>1, SavedTyped, StoreFacts DEF IInv
<1>4. /\ job'[k][s] = None
      /\ \A j \in Keys, t \in Slots : (j # k \/ t # s) => job'[j][t] = job[j][t]
  BY <1>1, EndFacts DEF IInv
<1>5. n \in Nat /\ served[k] \in Nat /\ \A i \in 1 .. n : stored[k][i].origin \in Nat
  BY <1>3, Positions DEF IInv
<1>6. JobsGenuine'
  BY <1>1, <1>3, <1>4, <1>5 DEF IInv, JobsGenuine
<1>7. RoundGenuine'
  BY <1>1 DEF IInv, RoundGenuine
<1>8. CopiesGenuine'
  <2> SUFFICES ASSUME NEW j \in Keys, NEW i \in DOMAIN stored'[j]
               PROVE  LET o == stored'[j][i]
                      IN  IF o.spec = Absent THEN o = Gone
                          ELSE o.origin \in 1 .. served[j] /\ published[j][o.origin] = o.spec
    BY <1>1 DEF CopiesGenuine, Gone
  <2>1. CASE j # k
    BY <1>3, <2>1 DEF IInv, CopiesGenuine
  <2>2. CASE j = k /\ i \in 1 .. n
    BY <1>3, <2>2 DEF IInv, CopiesGenuine
  <2>3. CASE j = k /\ i = n + 1
    BY <1>2, <1>3, <2>3
  <2> QED
    BY <1>3, <1>5, <2>1, <2>2, <2>3
<1>9. ASSUME ~slow PROVE OneJob' /\ JobsAhead' /\ CopiesOrdered'
  <2>1. \A t \in Slots : job'[k][t] = None
    BY <1>1, <1>4, <1>9 DEF IInv, OneJob, IsSave
  <2>2. round.pc = "listing" => Imported(k)
    BY <1>1, <1>9 DEF IInv, OneJob, IsSave
  <2>3. \A j \in Keys : Imported(j)' = Imported(j)
    BY <1>1 DEF Imported
  <2>4. OneJob'
    BY <1>1, <1>4, <1>9, <2>3 DEF IInv, OneJob
  <2>5. ASSUME NEW j \in Keys \ {k} PROVE \A v : Below(j, v)' <=> Below(j, v)
    BY <1>3 DEF Below
  <2>6. JobsAhead'
    BY <1>1, <1>3, <1>4, <1>9, <2>1, <2>2, <2>3
       DEF IInv, JobsAhead, IsSave, IsDelete, Below
  <2>7. Last(stored'[k]).spec # Absent
    BY <1>2, <1>3
  <2>8. \A i \in DOMAIN stored'[k] : stored'[k][i].origin <= Last(stored'[k]).origin
    <3>1. \A i \in 1 .. n : stored'[k][i].origin < rv
      BY <1>2, <1>3, <1>9 DEF Below
    <3>2. \A i \in DOMAIN stored'[k] : i \in 1 .. n \/ i = n + 1
      BY <1>3, <1>5
    <3>3. rv \in Nat /\ \A i \in 1 .. n : stored'[k][i].origin \in Nat
      BY <1>2, <1>3, <1>5
    <3> QED
      BY <1>2, <1>3, <3>1, <3>2, <3>3
  <2>9. CopiesOrdered'
    BY <1>1, <1>3, <1>9, <2>7, <2>8 DEF IInv, CopiesOrdered, Below
  <2> QED
    BY <2>4, <2>6, <2>9
<1> QED
  BY <1>1, <1>6, <1>7, <1>8, <1>9 DEF Parts

\* Deleting the copy keeps the invariant.
LEMMA DeleteStep ==
  ASSUME IInv, ImporterTypeOK', NEW k \in Keys, NEW s \in Slots, Delete(k, s),
         Last(stored[k]).spec # Absent
  PROVE  Parts'
<1> DEFINE rv == job[k][s].rv
<1> DEFINE n == Len(stored[k])
<1>1. /\ Store(k, Gone) /\ End(k, s) /\ IsDelete(k, s)
      /\ UNCHANGED <<published, served, slow, round>>
  BY DEF Delete, hostVars
<1>2. rv \in 1 .. served[k] /\ published[k][rv] = Absent
  BY <1>1 DEF IInv, JobsGenuine, IsDelete
<1>3. Gone \in Objects /\ Gone.origin = 0 /\ Gone.spec = Absent
  BY DEF Gone, Objects, MaybeSpec
<1>4. /\ \A j \in Keys \ {k} : stored'[j] = stored[j]
      /\ Len(stored'[k]) = n + 1 /\ DOMAIN stored'[k] = 1 .. n + 1
      /\ DOMAIN stored[k] = 1 .. n
      /\ \A i \in 1 .. n : stored'[k][i] = stored[k][i]
      /\ Last(stored'[k]) = Gone /\ stored'[k][n + 1] = Gone
  BY <1>1, <1>3, StoreFacts DEF IInv
<1>5. /\ job'[k][s] = None
      /\ \A j \in Keys, t \in Slots : (j # k \/ t # s) => job'[j][t] = job[j][t]
  BY <1>1, EndFacts DEF IInv
<1>6. n \in Nat /\ served[k] \in Nat /\ \A i \in 1 .. n : stored[k][i].origin \in Nat
  BY <1>4, Positions DEF IInv
<1>7. JobsGenuine'
  BY <1>1, <1>4, <1>5, <1>6 DEF IInv, JobsGenuine
<1>8. RoundGenuine'
  BY <1>1 DEF IInv, RoundGenuine
<1>9. CopiesGenuine'
  <2> SUFFICES ASSUME NEW j \in Keys, NEW i \in DOMAIN stored'[j]
               PROVE  LET o == stored'[j][i]
                      IN  IF o.spec = Absent THEN o = Gone
                          ELSE o.origin \in 1 .. served[j] /\ published[j][o.origin] = o.spec
    BY <1>1 DEF CopiesGenuine, Gone
  <2>1. CASE j # k
    BY <1>4, <2>1 DEF IInv, CopiesGenuine
  <2>2. CASE j = k /\ i \in 1 .. n
    BY <1>4, <2>2 DEF IInv, CopiesGenuine
  <2>3. CASE j = k /\ i = n + 1
    BY <1>3, <1>4, <2>3
  <2> QED
    BY <1>4, <1>6, <2>1, <2>2, <2>3
<1>10. ASSUME ~slow PROVE OneJob' /\ JobsAhead' /\ CopiesOrdered'
  <2>1. \A t \in Slots : job'[k][t] = None
    BY <1>1, <1>5, <1>10 DEF IInv, OneJob, IsDelete
  <2>2. round.pc # "listing"
    BY <1>1, <1>10 DEF IInv, OneJob, IsDelete
  <2>3. OneJob'
    BY <1>1, <1>5, <1>10, <2>2 DEF IInv, OneJob
  <2>4. JobsAhead'
    BY <1>1, <1>4, <1>5, <1>10, <2>1, <2>2 DEF IInv, JobsAhead, IsSave, IsDelete, Below
  <2>5. Below(k, rv)
    BY <1>1, <1>10 DEF IInv, JobsAhead
  <2>6. \A j \in Keys \ {k} : \A v : Below(j, v)' <=> Below(j, v)
    BY <1>4 DEF Below
  <2>7. \E v \in 1 .. served'[k] : published'[k][v] = Absent /\ Below(k, v)'
    <3>1. \A i \in DOMAIN stored'[k] : stored'[k][i].origin < rv
      BY <1>2, <1>3, <1>4, <1>6, <2>5 DEF Below
    <3> QED
      BY <1>1, <1>2, <3>1 DEF Below
  <2>8. CopiesOrdered'
    <3> SUFFICES ASSUME NEW j \in Keys, j # k
                 PROVE  IF Last(stored'[j]).spec = Absent
                        THEN \E v \in 1 .. served'[j] : published'[j][v] = Absent /\ Below(j, v)'
                        ELSE \A i \in DOMAIN stored'[j] :
                               stored'[j][i].origin <= Last(stored'[j]).origin
      BY <1>3, <1>4, <2>7 DEF CopiesOrdered
    <3> QED
      BY <1>1, <1>4, <1>10, <2>6 DEF IInv, CopiesOrdered
  <2> QED
    BY <2>3, <2>4, <2>8
<1> QED
  BY <1>1, <1>7, <1>8, <1>9, <1>10 DEF Parts

\* The invariant is inductive.
LEMMA IInvStep == IInv /\ [Next]_vars => IInv'
<1> SUFFICES ASSUME IInv, [Next]_vars PROVE IInv'
  OBVIOUS
<1>0. ImporterTypeOK'
  BY ImporterTypeStep DEF IInv
<1> SUFFICES Parts'
  BY <1>0 DEF IInv, Parts
<1>a. \A k \in Keys : /\ served[k] \in Nat /\ seen[k] \in 1 .. Len(stored[k])
                       /\ Len(stored[k]) \in Nat
  BY Positions DEF IInv, ImporterTypeOK
<1>b. \A k \in Keys, s \in Slots : job[k][s] # None => job[k][s].at \in 0 .. Len(stored[k])
  BY DEF IInv, JobsGenuine
<1>1. CASE Download
  BY <1>0, <1>1, DownloadStep
<1>2. CASE ListLocal
  BY <1>0, <1>2, ListLocalStep
<1>3. CASE DownloadFails \/ ListFails \/ UNCHANGED vars
  <2>1. /\ UNCHANGED <<published, served, stored, slow, job>>
        /\ round' = round \/ round'.pc = "idle"
    BY <1>3 DEF DownloadFails, ListFails, vars, hostVars, memberVars, Idle
  <2>2. Grows
    BY <1>a, <2>1 DEF Grows
  <2> QED
    BY <1>0, <1>b, <2>1, <2>2, CalmStep
<1>4. ASSUME NEW k \in Keys, NEW x \in MaybeSpec, Publish(k, x) PROVE Parts'
  <2>1. UNCHANGED <<served, stored, slow, job, round>>
    BY <1>4 DEF Publish, memberVars
  <2>2. published[k] \in Seq(MaybeSpec) /\ served[k] \in 1 .. Len(published[k])
    BY DEF IInv, ImporterTypeOK
  <2>3. \A v \in 1 .. Len(published[k]) : Append(published[k], x)[v] = published[k][v]
    BY <2>2, AppendFacts
  <2>4. Grows
    BY <1>4, <1>a, <2>1, <2>2, <2>3 DEF Publish, Grows, IInv, ImporterTypeOK
  <2> QED
    BY <1>0, <1>b, <2>1, <2>4, CalmStep
<1>5. ASSUME NEW k \in Keys, Serve(k) PROVE Parts'
  <2>1. UNCHANGED <<published, stored, slow, job, round>>
    BY <1>5 DEF Serve, memberVars
  <2>2. Grows
    BY <1>5, <1>a, <2>1 DEF Serve, Grows, IInv, ImporterTypeOK
  <2> QED
    BY <1>0, <1>b, <2>1, <2>2, CalmStep
<1>6. ASSUME NEW k \in Keys, Deliver(k) PROVE Parts'
  <2>1. UNCHANGED <<published, served, stored, slow, job, round>>
    BY <1>6 DEF Deliver, hostVars
  <2>2. Grows
    BY <1>a, <2>1 DEF Grows
  <2> QED
    BY <1>0, <1>b, <2>1, <2>2, CalmStep
<1>7. ASSUME NEW k \in Keys, NEW s \in Slots, ReadLocal(k, s) PROVE Parts'
  <2>1. /\ UNCHANGED <<published, served, stored, slow, round>>
        /\ job' = [job EXCEPT ![k][s].at = seen[k]] /\ job[k][s] # None
    BY <1>7 DEF ReadLocal, hostVars, IsSave
  <2>2. job[k][s] \in JobType /\ job \in [Keys -> [Slots -> JobType \union {None}]]
    BY <2>1 DEF IInv, ImporterTypeOK
  <2>3. /\ job'[k][s].rv = job[k][s].rv /\ job'[k][s].op = job[k][s].op
        /\ job'[k][s].spec = job[k][s].spec /\ job'[k][s].at = seen[k]
        /\ \A j \in Keys, t \in Slots : (j # k \/ t # s) => job'[j][t] = job[j][t]
    BY <2>1, <2>2 DEF JobType
  <2>4. Grows
    BY <1>a, <2>1 DEF Grows
  <2> QED
    BY <1>0, <1>a, <1>b, <2>1, <2>3, <2>4, CalmStep
<1>8. ASSUME NEW k \in Keys, NEW s \in Slots,
             \/ SaveSkips(k, s) \/ SaveRejected(k, s) \/ RequestLost(k, s)
             \/ Delete(k, s) /\ Last(stored[k]).spec = Absent
      PROVE  Parts'
  <2>1. UNCHANGED <<published, served, stored, slow, round>> /\ End(k, s)
    BY <1>8 DEF SaveSkips, SaveRejected, RequestLost, Delete, hostVars, memberVars
  <2>2. /\ job'[k][s] = None
        /\ \A j \in Keys, t \in Slots : (j # k \/ t # s) => job'[j][t] = job[j][t]
    BY <2>1, EndFacts DEF IInv
  <2>3. Grows
    BY <1>a, <2>1 DEF Grows
  <2> QED
    BY <1>0, <1>b, <2>1, <2>2, <2>3, CalmStep
<1>9. ASSUME NEW k \in Keys, NEW s \in Slots, SaveWrites(k, s) PROVE Parts'
  BY <1>0, <1>9, SaveWritesStep
<1>10. ASSUME NEW k \in Keys, NEW s \in Slots, Delete(k, s), Last(stored[k]).spec # Absent
       PROVE  Parts'
  BY <1>0, <1>10, DeleteStep
<1>11. CASE Restart
  <2>1. /\ UNCHANGED <<published, served, stored, slow>> /\ round'.pc = "idle"
        /\ \A k \in Keys, s \in Slots : job'[k][s] = None
    BY <1>11 DEF Restart, hostVars, Idle
  <2>2. Grows
    BY <1>a, <2>1 DEF Grows
  <2> QED
    BY <1>0, <2>1, <2>2, CalmStep
<1> QED
  BY <1>1, <1>2, <1>3, <1>4, <1>5, <1>6, <1>7, <1>8, <1>9, <1>10, <1>11
     DEF Next, JobStep, SaveStep

\* It holds initially.
LEMMA IInvInit == Init => IInv
<1> SUFFICES ASSUME Init PROVE IInv
  OBVIOUS
<1>1. Gone \in Objects /\ Gone.origin = 0 /\ Gone.spec = Absent
  BY DEF Gone, Objects, MaybeSpec
<1>2. /\ <<Absent>> \in Seq(MaybeSpec) /\ Len(<<Absent>>) = 1 /\ <<Absent>>[1] = Absent
      /\ <<Gone>> \in Seq(Objects) /\ Len(<<Gone>>) = 1 /\ <<Gone>>[1] = Gone
      /\ DOMAIN <<Gone>> = {1}
  BY <1>1 DEF MaybeSpec
<1>3. ImporterTypeOK
  BY <1>2, ImporterAssumption DEF Init, ImporterTypeOK, Idle
<1>4. /\ \A k \in Keys, s \in Slots : job[k][s] = None
      /\ round.pc = "idle"
      /\ \A k \in Keys : /\ stored[k] = <<Gone>> /\ published[k] = <<Absent>>
                          /\ served[k] = 1
  BY DEF Init, Idle
<1>5. JobsGenuine /\ RoundGenuine /\ OneJob /\ JobsAhead
  BY <1>4 DEF JobsGenuine, RoundGenuine, OneJob, JobsAhead, IsSave, IsDelete
<1>6. CopiesGenuine
  BY <1>1, <1>2, <1>4 DEF CopiesGenuine
<1>7. CopiesOrdered
  <2> SUFFICES ASSUME NEW k \in Keys
               PROVE  /\ Last(stored[k]).spec = Absent
                      /\ published[k][1] = Absent /\ Below(k, 1) /\ 1 \in 1 .. served[k]
    BY DEF CopiesOrdered
  <2> QED
    BY <1>1, <1>2, <1>4 DEF Last, Below
<1> QED
  BY <1>3, <1>5, <1>6, <1>7 DEF IInv

----------------------------------------------------------------------------
(* The refinement. *)

\* A step of the importer is a step of Replica, or changes nothing there.
LEMMA StepRefines ==
  IInv /\ [Next]_vars => [AbstractReplica!Next]_(AbstractReplica!rvars)
<1> SUFFICES ASSUME IInv, [Next]_vars
             PROVE  AbstractReplica!Next \/ UNCHANGED <<published, stored, slow>>
  BY DEF AbstractReplica!rvars
<1>1. ASSUME NEW k \in Keys, NEW x \in MaybeSpec, Publish(k, x) PROVE AbstractReplica!Next
  <2>1. AbstractReplica!Publish(k)
    BY <1>1 DEF Publish, AbstractReplica!Publish, memberVars, MaybeSpec
  <2> QED
    BY <2>1 DEF AbstractReplica!Next
<1>2. ASSUME NEW k \in Keys, NEW s \in Slots, SaveWrites(k, s) PROVE AbstractReplica!Next
  <2>1. /\ job[k][s].rv \in 1 .. served[k]
        /\ Saved(k, s) = [origin |-> job[k][s].rv, spec |-> published[k][job[k][s].rv]]
        /\ published[k][job[k][s].rv] # Absent
        /\ ~slow => Below(k, job[k][s].rv)
    BY <1>2, SaveWritesNewer
  <2>2. /\ stored' = [stored EXCEPT ![k] = Append(@, Saved(k, s))]
        /\ UNCHANGED <<published, slow>>
    BY <1>2 DEF SaveWrites, Store, hostVars
  <2>3. job[k][s].rv \in DOMAIN published[k]
    <3>1. published[k] \in Seq(MaybeSpec) /\ served[k] \in 1 .. Len(published[k])
      BY DEF IInv, ImporterTypeOK
    <3> QED
      BY <2>1, <3>1
  <2>4. AbstractReplica!Adopt(k)
    BY <2>1, <2>2, <2>3 DEF AbstractReplica!Adopt, Below
  <2> QED
    BY <2>4 DEF AbstractReplica!Next
<1>3. ASSUME NEW k \in Keys, NEW s \in Slots, Delete(k, s)
      PROVE  AbstractReplica!Next \/ UNCHANGED <<published, stored, slow>>
  <2>1. CASE Last(stored[k]).spec = Absent
    BY <1>3, <2>1 DEF Delete, hostVars, memberVars
  <2>2. CASE Last(stored[k]).spec # Absent
    <3>1. /\ stored' = [stored EXCEPT ![k] = Append(@, Gone)]
          /\ UNCHANGED <<published, slow>> /\ IsDelete(k, s)
      BY <1>3, <2>2 DEF Delete, Store, hostVars
    <3>2. job[k][s].rv \in 1 .. served[k] /\ published[k][job[k][s].rv] = Absent
      BY <3>1 DEF IInv, JobsGenuine, IsDelete
    <3>3. job[k][s].rv \in DOMAIN published[k]
      <4>1. published[k] \in Seq(MaybeSpec) /\ served[k] \in 1 .. Len(published[k])
        BY DEF IInv, ImporterTypeOK
      <4> QED
        BY <3>2, <4>1
    <3>4. ~slow => job[k][s].rv > stored[k][Len(stored[k])].origin
      <4>1. /\ Len(stored[k]) \in DOMAIN stored[k] /\ served[k] \in Nat
            /\ \A i \in DOMAIN stored[k] : stored[k][i].origin \in Nat
        BY Positions DEF IInv
      <4>2. ~slow => Below(k, job[k][s].rv)
        BY <3>1 DEF IInv, JobsAhead
      <4> QED
        BY <3>2, <4>1, <4>2 DEF Below
    <3>5. AbstractReplica!Gone = Gone
      BY DEF AbstractReplica!Gone, Gone
    <3>6. AbstractReplica!Drop(k)
      BY <3>1, <3>2, <3>3, <3>4, <3>5 DEF AbstractReplica!Drop, AbstractReplica!Copy
    <3> QED
      BY <3>6 DEF AbstractReplica!Next
  <2> QED
    BY <2>1, <2>2
<1>4. CASE Download \/ DownloadFails \/ ListLocal \/ ListFails \/ Restart \/ UNCHANGED vars
  BY <1>4 DEF Download, DownloadFails, ListLocal, ListFails, Restart, vars, hostVars, memberVars
<1>5. ASSUME NEW k \in Keys, Serve(k) \/ Deliver(k) PROVE UNCHANGED <<published, stored, slow>>
  BY <1>5 DEF Serve, Deliver, hostVars, memberVars
<1>6. ASSUME NEW k \in Keys, NEW s \in Slots,
             ReadLocal(k, s) \/ SaveSkips(k, s) \/ SaveRejected(k, s) \/ RequestLost(k, s)
      PROVE  UNCHANGED <<published, stored, slow>>
  BY <1>6 DEF ReadLocal, SaveSkips, SaveRejected, RequestLost, hostVars, memberVars
<1> QED
  BY <1>1, <1>2, <1>3, <1>4, <1>5, <1>6 DEF Next, JobStep, SaveStep

\* The importer implements Replica: whatever its goroutines do, the copies of
\* the member are versions of the host's, and if goroutines end with their
\* round none is older than one before and none is lost that the host has.
THEOREM ImporterImplementsReplica == Spec => ImplementsReplica
<1>1. Init => AbstractReplica!Init
  BY DEF Init, AbstractReplica!Init, Gone, AbstractReplica!Gone
<1> QED
  BY <1>1, IInvInit, IInvStep, StepRefines, PTL
     DEF Spec, ImplementsReplica, AbstractReplica!Spec

=============================================================================
