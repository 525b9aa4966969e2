----------------------- MODULE HeadlessServiceProofs -----------------------
(***************************************************************************)
(* Proofs about HeadlessEndpoints and HeadlessService, for every number of *)
(* clusters, slices, endpoints and addresses.                              *)
(***************************************************************************)
EXTENDS HeadlessService, FiniteSetTheorems, SequenceTheorems, WellFoundedInduction, TLAPS

(* Induction over the natural numbers, for sets. *)

\* A set of numbers has a least one, unless it is empty.
LEMMA LeastNumber ==
  ASSUME NEW S \in SUBSET Nat, S # {}
  PROVE  \E x \in S : \A y \in S : x <= y
<1>1. PICK x \in S : \A y \in S : ~(<<y, x>> \in OpToRel(<, Nat))
  BY NatLessThanWellFounded, WFMin
<1>2. \A y \in S : ~(y < x)
  BY <1>1 DEF OpToRel
<1> QED
  BY <1>2

\* A set of numbers with 0 and every successor has all numbers.
LEMMA SetInduction ==
  ASSUME NEW S, 0 \in S, \A n \in Nat : n \in S => n + 1 \in S
  PROVE  \A n \in Nat : n \in S
<1> SUFFICES ASSUME Nat \ S # {} PROVE FALSE
  OBVIOUS
<1>1. PICK x \in Nat \ S : \A y \in Nat \ S : x <= y
  BY LeastNumber
<1>2. x # 0 /\ x - 1 \in Nat /\ x - 1 \in S
  BY <1>1
<1> QED
  BY <1>1, <1>2

----------------------------------------------------------------------------
(* The loops are defined: there is a function that is computed as they are. *)

\* What the inner loop computes, endpoint by endpoint.
LEMMA InnerLoop ==
  ASSUME NEW b, NEW eps, Len(eps) \in Nat
  PROVE  \E f : /\ f = [n \in 0 .. Len(eps) |-> IF n = 0 THEN b ELSE Added(f[n - 1], eps[n])]
                /\ AddedEndpoints(b, eps) = f[Len(eps)]
<1> DEFINE Is(f, m) == f = [n \in 0 .. m |-> IF n = 0 THEN b ELSE Added(f[n - 1], eps[n])]
<1> DEFINE S == {m \in Nat : \E f : Is(f, m)}
<1>1. 0 \in S
  <2> DEFINE f == [n \in 0 .. 0 |-> b]
  <2>1. Is(f, 0)
    OBVIOUS
  <2> QED
    BY <2>1
<1>2. ASSUME NEW m \in Nat, m \in S PROVE m + 1 \in S
  <2>1. PICK f : Is(f, m)
    BY <1>2
  <2> DEFINE g == [n \in 0 .. m + 1 |-> IF n <= m THEN f[n] ELSE Added(f[m], eps[m + 1])]
  <2>2. ASSUME NEW n \in 0 .. m + 1
        PROVE  g[n] = IF n = 0 THEN b ELSE Added(g[n - 1], eps[n])
    <3>1. CASE n = m + 1
      BY <3>1
    <3>2. CASE n # m + 1
      <4>1. n \in 0 .. m /\ g[n] = f[n]
        BY <3>2
      <4>2. f[n] = IF n = 0 THEN b ELSE Added(f[n - 1], eps[n])
        BY <2>1, <4>1
      <4>3. n # 0 => n - 1 \in 0 .. m + 1 /\ g[n - 1] = f[n - 1]
        BY <4>1
      <4> QED
        BY <4>1, <4>2, <4>3
    <3> QED
      BY <3>1, <3>2
  <2>3. Is(g, m + 1)
    BY <2>2
  <2>4. \E h : Is(h, m + 1)
    <3> HIDE DEF g, Is
    <3> QED
      BY <2>3
  <2> QED
    BY <2>4
<1>3. Len(eps) \in S
  <2> HIDE DEF S
  <2> QED
    BY <1>1, <1>2, SetInduction
<1> DEFINE loop == CHOOSE f : Is(f, Len(eps))
<1>4. Is(loop, Len(eps))
  BY <1>3
<1>5. AddedEndpoints(b, eps) = loop[Len(eps)]
  BY DEF AddedEndpoints
<1> QED
  BY <1>4, <1>5

\* What the outer loop computes, slice by slice.
LEMMA OuterLoop ==
  ASSUME NEW slices, Len(slices) \in Nat
  PROVE  \E f : /\ f = [n \in 0 .. Len(slices) |-> IF n = 0 THEN <<>> ELSE AddedSlice(f[n - 1], slices[n])]
                /\ endpointByName(slices) = f[Len(slices)]
<1> DEFINE Is(f, m) == f = [n \in 0 .. m |-> IF n = 0 THEN <<>> ELSE AddedSlice(f[n - 1], slices[n])]
<1> DEFINE S == {m \in Nat : \E f : Is(f, m)}
<1>1. 0 \in S
  <2> DEFINE f == [n \in 0 .. 0 |-> <<>>]
  <2>1. Is(f, 0)
    OBVIOUS
  <2> QED
    BY <2>1
<1>2. ASSUME NEW m \in Nat, m \in S PROVE m + 1 \in S
  <2>1. PICK f : Is(f, m)
    BY <1>2
  <2> DEFINE g == [n \in 0 .. m + 1 |-> IF n <= m THEN f[n] ELSE AddedSlice(f[m], slices[m + 1])]
  <2>2. ASSUME NEW n \in 0 .. m + 1
        PROVE  g[n] = IF n = 0 THEN <<>> ELSE AddedSlice(g[n - 1], slices[n])
    <3>1. CASE n = m + 1
      BY <3>1
    <3>2. CASE n # m + 1
      <4>1. n \in 0 .. m /\ g[n] = f[n]
        BY <3>2
      <4>2. f[n] = IF n = 0 THEN <<>> ELSE AddedSlice(f[n - 1], slices[n])
        BY <2>1, <4>1
      <4>3. n # 0 => n - 1 \in 0 .. m + 1 /\ g[n - 1] = f[n - 1]
        BY <4>1
      <4> QED
        BY <4>1, <4>2, <4>3
    <3> QED
      BY <3>1, <3>2
  <2>3. Is(g, m + 1)
    BY <2>2
  <2>4. \E h : Is(h, m + 1)
    <3> HIDE DEF g, Is
    <3> QED
      BY <2>3
  <2> QED
    BY <2>4
<1>3. Len(slices) \in S
  <2> HIDE DEF S
  <2> QED
    BY <1>1, <1>2, SetInduction
<1> DEFINE loop == CHOOSE f : Is(f, Len(slices))
<1>4. Is(loop, Len(slices))
  BY <1>3
<1>5. endpointByName(slices) = loop[Len(slices)]
  BY DEF endpointByName
<1> QED
  BY <1>4, <1>5

----------------------------------------------------------------------------
(* Sequences of addresses. *)

\* IPv4 before IPv6.
FamiliesInOrder(addrs) ==
  \A m, n \in DOMAIN addrs : (m < n /\ FamilyOf[addrs[m]] = "AAAA") => FamilyOf[addrs[n]] = "AAAA"

\* Appending addresses keeps them apart and in order where each part is.
LEMMA Appended ==
  ASSUME NEW S, NEW s \in Seq(S), NEW t \in Seq(S)
  PROVE  /\ s \o t \in Seq(S)
         /\ Range(s \o t) = Range(s) \union Range(t)
         /\ (IsInjective(s) /\ IsInjective(t) /\ Range(s) \intersect Range(t) = {})
              => IsInjective(s \o t)
         /\ (\A a \in Range(t) : FamilyOf[a] = "AAAA") /\ FamiliesInOrder(s)
              => FamiliesInOrder(s \o t)
         /\ (\A a \in Range(s) \union Range(t) : FamilyOf[a] # "AAAA") => FamiliesInOrder(s \o t)
<1> DEFINE st == s \o t
<1>1. /\ st \in Seq(S) /\ Len(s) \in Nat /\ Len(t) \in Nat
      /\ DOMAIN s = 1 .. Len(s) /\ DOMAIN t = 1 .. Len(t)
      /\ DOMAIN st = 1 .. Len(s) + Len(t)
  OBVIOUS
<1>2. /\ \A i \in DOMAIN s : i \in DOMAIN st /\ st[i] = s[i]
      /\ \A i \in DOMAIN t : Len(s) + i \in DOMAIN st /\ st[Len(s) + i] = t[i]
  BY <1>1
<1>3. \A i \in DOMAIN st : \/ i \in DOMAIN s /\ st[i] = s[i]
                           \/ i - Len(s) \in DOMAIN t /\ st[i] = t[i - Len(s)] /\ i > Len(s)
  BY <1>1
<1> HIDE DEF st
<1>4. Range(st) = Range(s) \union Range(t)
  BY <1>2, <1>3 DEF Range
<1>5. ASSUME IsInjective(s), IsInjective(t), Range(s) \intersect Range(t) = {}
      PROVE  IsInjective(st)
  <2> SUFFICES ASSUME NEW i \in DOMAIN st, NEW j \in DOMAIN st, st[i] = st[j] PROVE i = j
    BY DEF IsInjective
  <2>1. CASE i \in DOMAIN s /\ st[i] = s[i] /\ j \in DOMAIN s /\ st[j] = s[j]
    BY <1>5, <2>1 DEF IsInjective
  <2>2. CASE /\ i - Len(s) \in DOMAIN t /\ st[i] = t[i - Len(s)]
             /\ j - Len(s) \in DOMAIN t /\ st[j] = t[j - Len(s)]
    <3>1. i - Len(s) = j - Len(s)
      BY <1>5, <2>2 DEF IsInjective
    <3> QED
      BY <1>1, <3>1
  <2>3. CASE /\ i \in DOMAIN s /\ st[i] = s[i]
             /\ j - Len(s) \in DOMAIN t /\ st[j] = t[j - Len(s)]
    BY <1>5, <2>3 DEF Range
  <2>4. CASE /\ j \in DOMAIN s /\ st[j] = s[j]
             /\ i - Len(s) \in DOMAIN t /\ st[i] = t[i - Len(s)]
    BY <1>5, <2>4 DEF Range
  <2> QED
    BY <1>3, <2>1, <2>2, <2>3, <2>4
<1>6. ASSUME \A a \in Range(t) : FamilyOf[a] = "AAAA", FamiliesInOrder(s)
      PROVE  FamiliesInOrder(st)
  <2> SUFFICES ASSUME NEW m \in DOMAIN st, NEW n \in DOMAIN st,
                      m < n, FamilyOf[st[m]] = "AAAA"
               PROVE  FamilyOf[st[n]] = "AAAA"
    BY DEF FamiliesInOrder
  <2>1. CASE n \in DOMAIN s /\ st[n] = s[n]
    <3>1. m \in DOMAIN s /\ st[m] = s[m]
      BY <1>1, <1>2, <2>1
    <3> QED
      BY <1>6, <2>1, <3>1 DEF FamiliesInOrder
  <2>2. CASE n - Len(s) \in DOMAIN t /\ st[n] = t[n - Len(s)]
    BY <1>6, <2>2 DEF Range
  <2> QED
    BY <1>3, <2>1, <2>2
<1>7. ASSUME \A a \in Range(s) \union Range(t) : FamilyOf[a] # "AAAA"
      PROVE  FamiliesInOrder(st)
  BY <1>4, <1>7 DEF FamiliesInOrder, Range
<1> QED
  BY <1>1, <1>4, <1>5, <1>6, <1>7 DEF st

----------------------------------------------------------------------------
(* What the loops keep: the map is made of the endpoints visited so far.   *)

\* An endpoint of a list of slices is found by a pair of positions.
Ep(s, q) == s[q[1]].eps[q[2]]

Positions(s) ==
  {q \in (DOMAIN s) \X Nat : s[q[1]].type # "FQDN" /\ q[2] \in DOMAIN s[q[1]].eps}

PodEntry == [hostname : Hostnames \union {None}, addrs : Seq(Addresses)]

\* No pod occurs twice in slices of one family.
OncePerFamily(s) ==
  \A q, r \in Positions(s) :
    (Ep(s, q).pod = Ep(s, r).pod /\ s[q[1]].type = s[r[1]].type) => q = r

\* x are the addresses of a pod in the slices of one type, if it occurs in one.
PartOf(s, P, p, type, x) ==
  \/ x = <<>> /\ \A q \in P : ~(Ep(s, q).pod = p /\ s[q[1]].type = type)
  \/ \E q \in P : Ep(s, q).pod = p /\ s[q[1]].type = type /\ x = Ep(s, q).addrs

\* The addresses of a pod are those of its IPv4 slice, then of its IPv6 slice.
Spelled(s, P, p, addrs) ==
  \E x, y \in Seq(Addresses) :
    addrs = x \o y /\ PartOf(s, P, p, "IPv4", x) /\ PartOf(s, P, p, "IPv6", y)

\* b is what the endpoints at P make.
Joined(s, P, b) ==
  /\ IsFiniteSet(DOMAIN b)
  /\ DOMAIN b = {Ep(s, q).pod : q \in P}
  /\ b \in [DOMAIN b -> PodEntry]
  /\ \A p \in DOMAIN b : \E q \in P : Ep(s, q).pod = p /\ Ep(s, q).hostname = b[p].hostname
  /\ \A p \in DOMAIN b :
       \A a : a \in Range(b[p].addrs) <=> \E q \in P : Ep(s, q).pod = p /\ a \in Range(Ep(s, q).addrs)
  /\ \A p \in DOMAIN b : FamiliesInOrder(b[p].addrs)
  /\ NoDuplicates(s) => \A p \in DOMAIN b : IsInjective(b[p].addrs)
  /\ OncePerFamily(s) => \A p \in DOMAIN b : Spelled(s, P, p, b[p].addrs)

\* A position leads to an endpoint in a slice that is not of domain names.
LEMMA PositionType ==
  ASSUME NEW s \in Seq(EndpointSlice), NEW q \in Positions(s)
  PROVE  /\ q[1] \in DOMAIN s /\ q[2] \in DOMAIN s[q[1]].eps
         /\ s[q[1]] \in EndpointSlice
         /\ s[q[1]].type \in {"IPv4", "IPv6"}
         /\ Ep(s, q) \in SliceEndpoint
         /\ Ep(s, q) \in Range(s[q[1]].eps)
         /\ q = <<q[1], q[2]>>
<1>1. q \in (DOMAIN s) \X Nat /\ s[q[1]].type # "FQDN" /\ q[2] \in DOMAIN s[q[1]].eps
  BY DEF Positions
<1>2. s[q[1]] \in EndpointSlice
  BY <1>1
<1>3. s[q[1]].eps \in Seq(SliceEndpoint) /\ s[q[1]].type \in {"FQDN", "IPv4", "IPv6"}
  BY <1>2 DEF EndpointSlice
<1>4. Ep(s, q) \in SliceEndpoint
  BY <1>1, <1>3 DEF Ep
<1> QED
  BY <1>1, <1>2, <1>3, <1>4 DEF Ep, Range

\* The addresses of a slice are of its family.
LEMMA PositionFamily ==
  ASSUME NEW s \in Seq(EndpointSlice), Consistent(s), NEW q \in Positions(s)
  PROVE  \A a \in Range(Ep(s, q).addrs) :
           /\ s[q[1]].type = "IPv4" => FamilyOf[a] = "A"
           /\ s[q[1]].type = "IPv6" => FamilyOf[a] = "AAAA"
BY PositionType DEF Consistent

\* The body of the inner loop joins one more endpoint, if the slices before it
\* come before it in the order of types.
LEMMA JoinOne ==
  ASSUME NEW s \in Seq(EndpointSlice), Consistent(s), NEW P \in SUBSET Positions(s),
         NEW q \in Positions(s), q \notin P,
         \A r \in P : TypeRank(s[r[1]].type) <= TypeRank(s[q[1]].type),
         NEW b, Joined(s, P, b)
  PROVE  Joined(s, P \union {q}, Added(b, Ep(s, q)))
<1> DEFINE e == Ep(s, q)
<1> DEFINE c == Added(b, e)
<1>1. /\ e \in SliceEndpoint /\ e.pod \in Nat
      /\ e.hostname \in Hostnames \union {None} /\ e.addrs \in Seq(Addresses)
  BY PositionType DEF SliceEndpoint
<1>2. /\ DOMAIN c = DOMAIN b \union {e.pod}
      /\ c = [p \in DOMAIN c |-> c[p]]
      /\ \A p \in DOMAIN b : p # e.pod => c[p] = b[p]
  BY DEF Added
<1>3. /\ IsFiniteSet(DOMAIN b)
      /\ DOMAIN b = {Ep(s, r).pod : r \in P}
      /\ \A p \in DOMAIN b : b[p] \in PodEntry /\ b[p].addrs \in Seq(Addresses)
  BY DEF Joined, PodEntry
<1>4. ASSUME e.pod \in DOMAIN b
      PROVE  /\ c[e.pod] \in PodEntry
             /\ c[e.pod].hostname = b[e.pod].hostname
             /\ c[e.pod].addrs = b[e.pod].addrs \o e.addrs
  <2>1. c[e.pod] = [b[e.pod] EXCEPT !.addrs = b[e.pod].addrs \o e.addrs]
    BY <1>4 DEF Added
  <2>2. b[e.pod].addrs \o e.addrs \in Seq(Addresses)
    BY <1>1, <1>3, <1>4
  <2>3. b[e.pod] \in PodEntry
    BY <1>3, <1>4
  <2> HIDE DEF c, e
  <2> QED
    BY <2>1, <2>2, <2>3 DEF PodEntry
<1>5. ASSUME e.pod \notin DOMAIN b
      PROVE  /\ c[e.pod] \in PodEntry
             /\ c[e.pod].hostname = e.hostname /\ c[e.pod].addrs = e.addrs
  <2>1. c[e.pod] = [hostname |-> e.hostname, addrs |-> e.addrs]
    BY <1>5 DEF Added
  <2> QED
    BY <1>1, <2>1 DEF PodEntry
<1>6. e = Ep(s, q)
  OBVIOUS
<1> HIDE DEF c, e
<1>7. IsFiniteSet(DOMAIN c)
  BY <1>2, <1>3, FS_AddElement
<1>8. DOMAIN c = {Ep(s, r).pod : r \in P \union {q}}
  BY <1>2, <1>3, <1>6
<1>9. c \in [DOMAIN c -> PodEntry]
  BY <1>2, <1>3, <1>4, <1>5
<1>10. ASSUME NEW p \in DOMAIN c
       PROVE  \E r \in P \union {q} : Ep(s, r).pod = p /\ Ep(s, r).hostname = c[p].hostname
  <2>1. CASE p \in DOMAIN b
    <3>1. PICK r \in P : Ep(s, r).pod = p /\ Ep(s, r).hostname = b[p].hostname
      BY <2>1 DEF Joined
    <3>2. c[p].hostname = b[p].hostname
      BY <1>2, <1>4, <2>1
    <3> QED
      BY <3>1, <3>2
  <2>2. CASE p \notin DOMAIN b
    BY <1>2, <1>5, <1>6, <2>2
  <2> QED
    BY <2>1, <2>2
<1>11. \A p \in DOMAIN b : \A a : a \in Range(b[p].addrs) <=>
         \E r \in P : Ep(s, r).pod = p /\ a \in Range(Ep(s, r).addrs)
  BY DEF Joined
<1>12. ASSUME NEW p \in DOMAIN c
       PROVE  \A a : a \in Range(c[p].addrs) <=>
                \E r \in P \union {q} : Ep(s, r).pod = p /\ a \in Range(Ep(s, r).addrs)
  <2>1. CASE p # e.pod
    BY <1>2, <1>6, <1>11, <2>1
  <2>2. CASE p = e.pod /\ p \in DOMAIN b
    <3>1. b[p].addrs \in Seq(Addresses) /\ c[p].addrs = b[p].addrs \o e.addrs
      BY <1>3, <1>4, <2>2
    <3>2. Range(c[p].addrs) = Range(b[p].addrs) \union Range(e.addrs)
      BY <1>1, <3>1, Appended
    <3> QED
      BY <1>6, <1>11, <2>2, <3>2
  <2>3. CASE p = e.pod /\ p \notin DOMAIN b
    <3>1. \A r \in P : Ep(s, r).pod # p
      BY <1>3, <2>3
    <3>2. Range(c[p].addrs) = Range(e.addrs)
      BY <1>5, <2>3
    <3> QED
      BY <1>6, <2>3, <3>1, <3>2
  <2> QED
    BY <1>2, <2>1, <2>2, <2>3
<1>13. ASSUME NEW p \in DOMAIN c PROVE FamiliesInOrder(c[p].addrs)
  <2>1. CASE p # e.pod
    BY <1>2, <2>1 DEF Joined
  <2>2. CASE p = e.pod /\ p \in DOMAIN b
    <3>1. b[p].addrs \in Seq(Addresses) /\ c[p].addrs = b[p].addrs \o e.addrs
      BY <1>3, <1>4, <2>2
    <3>2. CASE s[q[1]].type = "IPv6"
      <4>1. \A a \in Range(e.addrs) : FamilyOf[a] = "AAAA"
        BY <1>6, <3>2, PositionFamily
      <4>2. FamiliesInOrder(b[p].addrs)
        BY <2>2 DEF Joined
      <4> QED
        BY <1>1, <3>1, <4>1, <4>2, Appended
    <3>3. CASE s[q[1]].type = "IPv4"
      <4>1. \A r \in P : s[r[1]].type = "IPv4"
        BY <3>3, PositionType DEF TypeRank
      <4>2. \A r \in P : \A a \in Range(Ep(s, r).addrs) : FamilyOf[a] = "A"
        BY <4>1, PositionFamily
      <4>3. \A a \in Range(b[p].addrs) : FamilyOf[a] = "A"
        BY <1>11, <2>2, <4>2
      <4>4. \A a \in Range(e.addrs) : FamilyOf[a] = "A"
        BY <1>6, <3>3, PositionFamily
      <4> QED
        BY <1>1, <3>1, <4>3, <4>4, Appended
    <3> QED
      BY <3>2, <3>3, PositionType
  <2>3. CASE p = e.pod /\ p \notin DOMAIN b
    <3>1. c[p].addrs = e.addrs
      BY <1>5, <2>3
    <3>2. \/ \A a \in Range(e.addrs) : FamilyOf[a] = "A"
          \/ \A a \in Range(e.addrs) : FamilyOf[a] = "AAAA"
      BY <1>6, PositionFamily, PositionType
    <3> QED
      BY <3>1, <3>2 DEF FamiliesInOrder, Range
  <2> QED
    BY <1>2, <2>1, <2>2, <2>3
<1>14. ASSUME NoDuplicates(s), NEW p \in DOMAIN c PROVE IsInjective(c[p].addrs)
  <2>1. IsInjective(e.addrs)
    BY <1>6, <1>14, PositionType DEF NoDuplicates, Ep, Positions
  <2>2. \A x \in DOMAIN b : IsInjective(b[x].addrs)
    BY <1>14 DEF Joined
  <2>3. CASE p # e.pod
    BY <1>2, <2>2, <2>3
  <2>4. CASE p = e.pod /\ p \in DOMAIN b
    <3>1. ASSUME NEW r \in P, Ep(s, r).pod = p
          PROVE  Range(Ep(s, r).addrs) \intersect Range(e.addrs) = {}
      <4>1. r \in Positions(s) /\ <<r[1], r[2]>> # <<q[1], q[2]>>
        BY PositionType
      <4> QED
        BY <1>6, <1>14, <2>4, <3>1, <4>1, PositionType DEF NoDuplicates, Ep, Positions
    <3>2. Range(b[p].addrs) \intersect Range(e.addrs) = {}
      BY <1>11, <2>4, <3>1
    <3>3. b[p].addrs \in Seq(Addresses) /\ c[p].addrs = b[p].addrs \o e.addrs
      BY <1>3, <1>4, <2>4
    <3> QED
      BY <1>1, <2>1, <2>2, <2>4, <3>2, <3>3, Appended
  <2>5. CASE p = e.pod /\ p \notin DOMAIN b
    BY <1>5, <2>1, <2>5
  <2> QED
    BY <1>2, <2>3, <2>4, <2>5
<1>15. ASSUME OncePerFamily(s), NEW p \in DOMAIN c PROVE Spelled(s, P \union {q}, p, c[p].addrs)
  <2>1. ASSUME p \in DOMAIN b
        PROVE  \E x, y \in Seq(Addresses) :
                 b[p].addrs = x \o y /\ PartOf(s, P, p, "IPv4", x) /\ PartOf(s, P, p, "IPv6", y)
    BY <1>15, <2>1 DEF Joined, Spelled
  <2>2. CASE p # e.pod
    <3>1. PICK x \in Seq(Addresses) : \E y \in Seq(Addresses) :
             b[p].addrs = x \o y /\ PartOf(s, P, p, "IPv4", x) /\ PartOf(s, P, p, "IPv6", y)
      BY <1>2, <2>1, <2>2
    <3>2. PICK y \in Seq(Addresses) :
             b[p].addrs = x \o y /\ PartOf(s, P, p, "IPv4", x) /\ PartOf(s, P, p, "IPv6", y)
      BY <3>1
    <3>3. /\ PartOf(s, P \union {q}, p, "IPv4", x) /\ PartOf(s, P \union {q}, p, "IPv6", y)
      BY <1>6, <2>2, <3>2 DEF PartOf
    <3> QED
      BY <1>2, <2>2, <3>2, <3>3 DEF Spelled
  <2>3. ASSUME NEW r \in P, Ep(s, r).pod = e.pod PROVE s[r[1]].type # s[q[1]].type
    BY <1>6, <1>15, <2>3 DEF OncePerFamily
  <2>4. <<>> \in Seq(Addresses) /\ e.addrs \o <<>> = e.addrs /\ <<>> \o e.addrs = e.addrs
    BY <1>1
  <2>5. CASE p = e.pod /\ s[q[1]].type = "IPv4"
    <3>1. \A r \in P : s[r[1]].type = "IPv4"
      BY <2>5, PositionType DEF TypeRank
    <3>2. \A r \in P : Ep(s, r).pod # p
      BY <2>3, <2>5, <3>1
    <3>3. p \notin DOMAIN b
      BY <1>3, <3>2
    <3>4. c[p].addrs = e.addrs \o <<>>
      BY <1>5, <2>4, <2>5, <3>3
    <3>5. /\ PartOf(s, P \union {q}, p, "IPv4", e.addrs)
          /\ PartOf(s, P \union {q}, p, "IPv6", <<>>)
      BY <1>6, <2>5, <3>2 DEF PartOf
    <3> QED
      BY <1>1, <2>4, <3>4, <3>5 DEF Spelled
  <2>6. CASE p = e.pod /\ s[q[1]].type = "IPv6" /\ p \notin DOMAIN b
    <3>1. \A r \in P : Ep(s, r).pod # p
      BY <1>3, <2>6
    <3>2. c[p].addrs = <<>> \o e.addrs
      BY <1>5, <2>4, <2>6
    <3>3. /\ PartOf(s, P \union {q}, p, "IPv4", <<>>)
          /\ PartOf(s, P \union {q}, p, "IPv6", e.addrs)
      BY <1>6, <2>6, <3>1 DEF PartOf
    <3> QED
      BY <1>1, <2>4, <3>2, <3>3 DEF Spelled
  <2>7. CASE p = e.pod /\ s[q[1]].type = "IPv6" /\ p \in DOMAIN b
    <3>1. PICK x \in Seq(Addresses) : \E y \in Seq(Addresses) :
             b[p].addrs = x \o y /\ PartOf(s, P, p, "IPv4", x) /\ PartOf(s, P, p, "IPv6", y)
      BY <2>1, <2>7
    <3>2. PICK y \in Seq(Addresses) :
             b[p].addrs = x \o y /\ PartOf(s, P, p, "IPv4", x) /\ PartOf(s, P, p, "IPv6", y)
      BY <3>1
    <3>3. y = <<>>
      BY <2>3, <2>7, <3>2 DEF PartOf
    <3>4. x \o y = x
      BY <3>3
    <3>5. c[p].addrs = x \o e.addrs
      BY <1>4, <2>7, <3>2, <3>4
    <3>6. PartOf(s, P \union {q}, p, "IPv4", x)
      BY <2>7, <3>2 DEF PartOf
    <3>7. PartOf(s, P \union {q}, p, "IPv6", e.addrs)
      BY <1>6, <2>7 DEF PartOf
    <3> QED
      BY <1>1, <3>5, <3>6, <3>7 DEF Spelled
  <2> QED
    BY <2>2, <2>5, <2>6, <2>7, PositionType
<1>16. Joined(s, P \union {q}, c)
  BY <1>7, <1>8, <1>9, <1>10, <1>12, <1>13, <1>14, <1>15 DEF Joined
<1> QED
  BY <1>16 DEF c, e

TypesInOrder(s) ==
  \A i, j \in DOMAIN s : i < j => TypeRank(s[i].type) <= TypeRank(s[j].type)

\* The positions in the first m slices, and up to endpoint n of the next.
UpTo(s, m) == {q \in Positions(s) : q[1] <= m}

UpToEndpoint(s, m, n) == {q \in Positions(s) : q[1] < m \/ (q[1] = m /\ q[2] <= n)}

\* The body of the outer loop joins the endpoints of one more slice.
LEMMA JoinSlice ==
  ASSUME NEW s \in Seq(EndpointSlice), Consistent(s), TypesInOrder(s), NEW m \in DOMAIN s,
         NEW b, Joined(s, UpTo(s, m - 1), b)
  PROVE  Joined(s, UpTo(s, m), AddedSlice(b, s[m]))
<1> DEFINE eps == s[m].eps
<1>1. m \in Nat /\ s[m] \in EndpointSlice
  OBVIOUS
<1>2. eps \in Seq(SliceEndpoint) /\ s[m].type \in {"FQDN", "IPv4", "IPv6"}
  BY <1>1 DEF EndpointSlice
<1>3. Len(eps) \in Nat /\ DOMAIN eps = 1 .. Len(eps)
  BY <1>2
<1>4. \A q \in Positions(s) : q[1] \in Nat /\ q[2] \in Nat /\ q[1] \in DOMAIN s /\ q[2] \in DOMAIN s[q[1]].eps
  BY DEF Positions
<1>5. CASE s[m].type = "FQDN"
  <2>1. \A q \in Positions(s) : q[1] # m
    BY <1>5 DEF Positions
  <2>2. UpTo(s, m) = UpTo(s, m - 1)
    BY <1>1, <1>4, <2>1 DEF UpTo
  <2> QED
    BY <1>5, <2>2 DEF AddedSlice
<1>6. CASE s[m].type # "FQDN"
  <2>1. PICK f : /\ f = [n \in 0 .. Len(eps) |-> IF n = 0 THEN b ELSE Added(f[n - 1], eps[n])]
                 /\ AddedEndpoints(b, eps) = f[Len(eps)]
    BY <1>3, InnerLoop
  <2> DEFINE S == {n \in Nat : n <= Len(eps) => Joined(s, UpToEndpoint(s, m, n), f[n])}
  <2>2. 0 \in S
    <3>1. UpToEndpoint(s, m, 0) = UpTo(s, m - 1)
      <4>1. \A q \in Positions(s) : q[1] = m => q[2] >= 1
        BY <1>3, <1>4
      <4> QED
        BY <1>1, <1>4, <4>1 DEF UpTo, UpToEndpoint
    <3>2. f[0] = b
      BY <1>3, <2>1
    <3> QED
      BY <3>1, <3>2
  <2>3. ASSUME NEW n \in Nat, n \in S PROVE n + 1 \in S
    <3> SUFFICES ASSUME n + 1 <= Len(eps)
                 PROVE  Joined(s, UpToEndpoint(s, m, n + 1), f[n + 1])
      OBVIOUS
    <3> DEFINE q == <<m, n + 1>>
    <3> DEFINE P == UpToEndpoint(s, m, n)
    <3>1. Joined(s, P, f[n])
      BY <1>3, <2>3
    <3>2. n + 1 \in DOMAIN eps
      BY <1>3
    <3>3. q \in Positions(s) /\ q[1] = m /\ q[2] = n + 1 /\ Ep(s, q) = eps[n + 1]
      BY <1>6, <3>2 DEF Positions, Ep
    <3>4. f[n + 1] = Added(f[n], eps[n + 1])
      BY <1>3, <2>1
    <3>5. q \notin P /\ P \in SUBSET Positions(s)
      BY <1>1 DEF UpToEndpoint
    <3>6. \A r \in P : TypeRank(s[r[1]].type) <= TypeRank(s[q[1]].type)
      <4> SUFFICES ASSUME NEW r \in P PROVE TypeRank(s[r[1]].type) <= TypeRank(s[m].type)
        OBVIOUS
      <4>1. r[1] \in DOMAIN s /\ (r[1] < m \/ r[1] = m)
        BY <1>4 DEF UpToEndpoint
      <4>2. CASE r[1] < m
        BY <4>1, <4>2 DEF TypesInOrder
      <4>3. CASE r[1] = m
        BY <1>2, <4>3 DEF TypeRank
      <4> QED
        BY <4>1, <4>2, <4>3
    <3>7. UpToEndpoint(s, m, n + 1) = P \union {q}
      <4>1. \A r \in Positions(s) : r = <<r[1], r[2]>>
        BY PositionType
      <4>2. \A r \in Positions(s) : (r[1] = m /\ r[2] = n + 1) => r = q
        BY <4>1
      <4>3. \A r \in Positions(s) : r[2] <= n + 1 <=> (r[2] <= n \/ r[2] = n + 1)
        BY <1>4
      <4> QED
        BY <1>1, <3>3, <4>2, <4>3 DEF UpToEndpoint
    <3> HIDE DEF q, P
    <3>8. Joined(s, P \union {q}, Added(f[n], Ep(s, q)))
      BY <3>1, <3>3, <3>5, <3>6, JoinOne
    <3> QED
      BY <3>3, <3>4, <3>7, <3>8
  <2>4. Len(eps) \in S
    <3> HIDE DEF S
    <3> QED
      BY <1>3, <2>2, <2>3, SetInduction
  <2>5. UpToEndpoint(s, m, Len(eps)) = UpTo(s, m)
    <3>1. \A q \in Positions(s) : q[1] = m => q[2] <= Len(eps)
      BY <1>3, <1>4
    <3> QED
      BY <1>1, <1>4, <3>1 DEF UpTo, UpToEndpoint
  <2>6. AddedSlice(b, s[m]) = f[Len(eps)]
    BY <1>6, <2>1 DEF AddedSlice
  <2> QED
    BY <1>3, <2>4, <2>5, <2>6
<1> QED
  BY <1>5, <1>6

\* The loops join the endpoints of all slices.
LEMMA JoinAll ==
  ASSUME NEW s \in Seq(EndpointSlice), Consistent(s), TypesInOrder(s)
  PROVE  Joined(s, Positions(s), endpointByName(s))
<1>1. Len(s) \in Nat /\ DOMAIN s = 1 .. Len(s)
  OBVIOUS
<1>2. PICK f : /\ f = [n \in 0 .. Len(s) |-> IF n = 0 THEN <<>> ELSE AddedSlice(f[n - 1], s[n])]
               /\ endpointByName(s) = f[Len(s)]
  BY <1>1, OuterLoop
<1> DEFINE S == {n \in Nat : n <= Len(s) => Joined(s, UpTo(s, n), f[n])}
<1>3. 0 \in S
  <2>1. UpTo(s, 0) = {}
    BY <1>1 DEF UpTo, Positions
  <2>2. f[0] = <<>> /\ DOMAIN f[0] = {}
    BY <1>1, <1>2
  <2>3. IsFiniteSet({}) /\ {Ep(s, q).pod : q \in {}} = {} /\ <<>> \in [{} -> PodEntry]
    BY FS_EmptySet
  <2> QED
    BY <2>1, <2>2, <2>3 DEF Joined
<1>4. ASSUME NEW n \in Nat, n \in S PROVE n + 1 \in S
  <2> SUFFICES ASSUME n + 1 <= Len(s) PROVE Joined(s, UpTo(s, n + 1), f[n + 1])
    OBVIOUS
  <2>1. n + 1 \in DOMAIN s /\ (n + 1) - 1 = n
    BY <1>1
  <2>2. Joined(s, UpTo(s, n), f[n])
    BY <1>1, <1>4
  <2>3. f[n + 1] = AddedSlice(f[n], s[n + 1])
    BY <1>1, <1>2
  <2> QED
    BY <2>1, <2>2, <2>3, JoinSlice
<1>5. Len(s) \in S
  <2> HIDE DEF S
  <2> QED
    BY <1>1, <1>3, <1>4, SetInduction
<1>6. UpTo(s, Len(s)) = Positions(s)
  BY <1>1 DEF UpTo, Positions
<1> QED
  BY <1>1, <1>2, <1>5, <1>6

----------------------------------------------------------------------------
(* GetEndpointsOfHeadlessService *)

\* The same slices in another order.
Reordered(slices, p) == [i \in DOMAIN slices |-> slices[p[i]]]

\* Slices in another order have the same endpoints, in slices of the same types.
LEMMA Reordering ==
  ASSUME NEW slices \in Seq(EndpointSlice),
         NEW p \in Bijection(DOMAIN slices, DOMAIN slices), NEW s, s = Reordered(slices, p)
  PROVE  /\ s \in Seq(EndpointSlice)
         /\ Consistent(slices) => Consistent(s)
         /\ \A q \in Positions(s) : \E r \in Positions(slices) :
              Ep(s, q) = Ep(slices, r) /\ s[q[1]].type = slices[r[1]].type
         /\ \A r \in Positions(slices) : \E q \in Positions(s) :
              Ep(s, q) = Ep(slices, r) /\ s[q[1]].type = slices[r[1]].type
         /\ OncePerFamily(slices) => OncePerFamily(s)
<1> DEFINE D == DOMAIN slices
<1>1. /\ p \in [D -> D]
      /\ \A i, j \in D : p[i] = p[j] => i = j
      /\ \A k \in D : \E i \in D : p[i] = k
  BY DEF Bijection, Injection, Surjection, IsInjective
<1>2. D = 1 .. Len(slices) /\ Len(slices) \in Nat /\ \A i \in D : slices[i] \in EndpointSlice
  OBVIOUS
<1>3. DOMAIN s = D /\ \A i \in D : p[i] \in D /\ s[i] = slices[p[i]]
  BY <1>1 DEF Reordered
<1>4. s \in Seq(EndpointSlice)
  BY <1>1, <1>2 DEF Reordered
<1>5. ASSUME Consistent(slices) PROVE Consistent(s)
  <2>1. ASSUME NEW i \in D, NEW e \in Range(s[i].eps), NEW a \in Range(e.addrs)
        PROVE  /\ s[i].type = "IPv4" => FamilyOf[a] = "A"
               /\ s[i].type = "IPv6" => FamilyOf[a] = "AAAA"
    BY <1>3, <1>5, <2>1 DEF Consistent
  <2>2. ASSUME NEW i \in D, NEW j \in D, NEW d \in Range(s[i].eps), NEW e \in Range(s[j].eps),
               d.pod = e.pod
        PROVE  d.hostname = e.hostname
    <3>1. /\ p[i] \in D /\ d \in Range(slices[p[i]].eps)
          /\ p[j] \in D /\ e \in Range(slices[p[j]].eps)
      BY <1>3
    <3> QED
      BY <1>5, <2>2, <3>1 DEF Consistent
  <2> QED
    BY <1>3, <2>1, <2>2 DEF Consistent
<1>6. ASSUME NEW q \in Positions(s)
      PROVE  /\ <<p[q[1]], q[2]>> \in Positions(slices)
             /\ Ep(s, q) = Ep(slices, <<p[q[1]], q[2]>>)
             /\ s[q[1]].type = slices[p[q[1]]].type
  BY <1>3 DEF Positions, Ep
<1>7. ASSUME NEW x \in Positions(slices)
      PROVE  \E q \in Positions(s) : Ep(s, q) = Ep(slices, x) /\ s[q[1]].type = slices[x[1]].type
  <2>1. x[1] \in D /\ x[2] \in Nat /\ slices[x[1]].type # "FQDN" /\ x[2] \in DOMAIN slices[x[1]].eps
    BY DEF Positions
  <2>2. PICK i \in D : p[i] = x[1]
    BY <1>1, <2>1
  <2>3. <<i, x[2]>> \in Positions(s)
    BY <1>3, <2>1, <2>2 DEF Positions
  <2>4. Ep(s, <<i, x[2]>>) = Ep(slices, x) /\ s[i].type = slices[x[1]].type
    BY <1>3, <2>2 DEF Ep
  <2> QED
    BY <2>3, <2>4
<1>8. ASSUME OncePerFamily(slices) PROVE OncePerFamily(s)
  <2> SUFFICES ASSUME NEW q \in Positions(s), NEW r \in Positions(s),
                      Ep(s, q).pod = Ep(s, r).pod, s[q[1]].type = s[r[1]].type
               PROVE  q = r
    BY DEF OncePerFamily
  <2>1. <<p[q[1]], q[2]>> = <<p[r[1]], r[2]>>
    BY <1>6, <1>8 DEF OncePerFamily
  <2>2. q[1] = r[1] /\ q[2] = r[2]
    BY <1>1, <1>3, <2>1 DEF Positions
  <2>3. q = <<q[1], q[2]>> /\ r = <<r[1], r[2]>>
    BY DEF Positions
  <2> QED
    BY <2>2, <2>3
<1>9. \A q \in Positions(s) : \E r \in Positions(slices) :
         Ep(s, q) = Ep(slices, r) /\ s[q[1]].type = slices[r[1]].type
  <2> SUFFICES ASSUME NEW q \in Positions(s)
               PROVE  \E r \in Positions(slices) :
                        Ep(s, q) = Ep(slices, r) /\ s[q[1]].type = slices[r[1]].type
    OBVIOUS
  <2> DEFINE r == <<p[q[1]], q[2]>>
  <2>1. r \in Positions(slices) /\ Ep(s, q) = Ep(slices, r) /\ r[1] = p[q[1]]
    BY <1>6
  <2> QED
    BY <1>6, <2>1
<1> QED
  BY <1>4, <1>5, <1>7, <1>8, <1>9

\* What a pod's addresses are does not depend on the order of the slices.
LEMMA SpelledReordered ==
  ASSUME NEW slices \in Seq(EndpointSlice),
         NEW p \in Bijection(DOMAIN slices, DOMAIN slices), NEW s, s = Reordered(slices, p),
         NEW pod, NEW addrs
  PROVE  Spelled(s, Positions(s), pod, addrs) <=> Spelled(slices, Positions(slices), pod, addrs)
<1>1. ASSUME NEW type, NEW x
      PROVE  PartOf(s, Positions(s), pod, type, x) <=> PartOf(slices, Positions(slices), pod, type, x)
  <2>1. \A q \in Positions(s) : \E r \in Positions(slices) :
          Ep(s, q) = Ep(slices, r) /\ s[q[1]].type = slices[r[1]].type
    BY Reordering
  <2>2. \A r \in Positions(slices) : \E q \in Positions(s) :
          Ep(s, q) = Ep(slices, r) /\ s[q[1]].type = slices[r[1]].type
    BY Reordering
  <2>3. (\E q \in Positions(s) : Ep(s, q).pod = pod /\ s[q[1]].type = type)
          <=> (\E r \in Positions(slices) : Ep(slices, r).pod = pod /\ slices[r[1]].type = type)
    BY <2>1, <2>2
  <2>4. (\E q \in Positions(s) : Ep(s, q).pod = pod /\ s[q[1]].type = type /\ x = Ep(s, q).addrs)
          <=> (\E r \in Positions(slices) : /\ Ep(slices, r).pod = pod
                                            /\ slices[r[1]].type = type
                                            /\ x = Ep(slices, r).addrs)
    BY <2>1, <2>2
  <2> QED
    BY <2>3, <2>4 DEF PartOf
<1> QED
  BY <1>1 DEF Spelled

\* The order the slices are listed in does not matter.
LEMMA SortedSlices ==
  ASSUME NEW slices \in Seq(EndpointSlice), Consistent(slices),
         NEW s \in SortedByAddressType(slices)
  PROVE  /\ s \in Seq(EndpointSlice) /\ Consistent(s) /\ TypesInOrder(s)
         /\ NoDuplicates(slices) => NoDuplicates(s)
         /\ {Ep(s, q) : q \in Positions(s)} = EntriesOf(slices)
<1> DEFINE D == DOMAIN slices
<1>1. /\ TypesInOrder(s)
      /\ \E p \in Bijection(D, D) : s = [i \in D |-> slices[p[i]]]
  BY DEF SortedByAddressType, TypesInOrder
<1>2. PICK p \in Bijection(D, D) : s = [i \in D |-> slices[p[i]]]
  BY <1>1
<1>3. /\ p \in [D -> D]
      /\ \A i, j \in D : p[i] = p[j] => i = j
      /\ \A k \in D : \E i \in D : p[i] = k
  BY DEF Bijection, Injection, Surjection, IsInjective
<1>4. D = 1 .. Len(slices) /\ Len(slices) \in Nat /\ \A i \in D : slices[i] \in EndpointSlice
  OBVIOUS
<1>5. DOMAIN s = D /\ \A i \in D : p[i] \in D /\ s[i] = slices[p[i]]
  BY <1>2, <1>3
<1>6. s \in Seq(EndpointSlice)
  BY <1>2, <1>3, <1>4
<1>7. Consistent(s)
  BY <1>2, Reordering DEF Reordered
<1>8. ASSUME NoDuplicates(slices) PROVE NoDuplicates(s)
  <2> SUFFICES ASSUME NEW i \in D, NEW j \in D, s[i].type # "FQDN", s[j].type # "FQDN",
                      NEW a \in DOMAIN s[i].eps, NEW c \in DOMAIN s[j].eps
               PROVE  /\ IsInjective(s[i].eps[a].addrs)
                      /\ (<<i, a>> # <<j, c>> /\ s[i].eps[a].pod = s[j].eps[c].pod) =>
                           Range(s[i].eps[a].addrs) \intersect Range(s[j].eps[c].addrs) = {}
    <3> HIDE DEF D
    <3> QED
      BY <1>5 DEF NoDuplicates
  <2>1. <<i, a>> # <<j, c>> => <<p[i], a>> # <<p[j], c>>
    BY <1>3
  <2>2. /\ p[i] \in D /\ s[i] = slices[p[i]] /\ slices[p[i]].type # "FQDN"
        /\ p[j] \in D /\ s[j] = slices[p[j]] /\ slices[p[j]].type # "FQDN"
        /\ a \in DOMAIN slices[p[i]].eps /\ c \in DOMAIN slices[p[j]].eps
    BY <1>5
  <2>3. LET d == slices[p[i]].eps[a]
            e == slices[p[j]].eps[c]
        IN  /\ IsInjective(d.addrs)
            /\ (<<p[i], a>> # <<p[j], c>> /\ d.pod = e.pod)
                 => Range(d.addrs) \intersect Range(e.addrs) = {}
    <3> HIDE DEF D
    <3> QED
      BY <1>8, <2>2 DEF NoDuplicates, D
  <2> QED
    BY <2>1, <2>2, <2>3
<1>9. {Ep(s, q) : q \in Positions(s)} = EntriesOf(slices)
  <2>1. ASSUME NEW q \in Positions(s) PROVE Ep(s, q) \in EntriesOf(slices)
    <3>1. q[1] \in D /\ s[q[1]].type # "FQDN" /\ Ep(s, q) \in Range(s[q[1]].eps)
      BY <1>5, <1>6, PositionType DEF Positions
    <3>2. s[q[1]] \in Range(slices)
      BY <1>5, <3>1 DEF Range
    <3> QED
      BY <3>1, <3>2 DEF EntriesOf
  <2>2. ASSUME NEW e \in EntriesOf(slices) PROVE \E q \in Positions(s) : e = Ep(s, q)
    <3>1. PICK x \in Range(slices) : x.type # "FQDN" /\ e \in Range(x.eps)
      BY DEF EntriesOf
    <3>2. PICK k \in D : x = slices[k]
      BY DEF Range
    <3>3. PICK i \in D : p[i] = k
      BY <1>3
    <3>4. PICK a \in DOMAIN x.eps : e = x.eps[a]
      BY <3>1 DEF Range
    <3>5. x.eps \in Seq(SliceEndpoint)
      BY <1>4, <3>2 DEF EndpointSlice
    <3>6. a \in Nat
      BY <3>5
    <3>7. s[i] = x
      BY <1>5, <3>2, <3>3
    <3>8. <<i, a>> \in Positions(s) /\ e = Ep(s, <<i, a>>)
      BY <1>5, <3>1, <3>4, <3>6, <3>7 DEF Positions, Ep
    <3> QED
      BY <3>8
  <2> QED
    BY <2>1, <2>2
<1> QED
  BY <1>1, <1>6, <1>7, <1>8, <1>9

\* eps has one endpoint for each pod of the entries E, in the order of names,
\* with all addresses of the pod, IPv4 first, and with the pod's hostname.
PerPod(E, eps) ==
  /\ {eps[i].pod : i \in DOMAIN eps} = {e.pod : e \in E}
  /\ \A i, j \in DOMAIN eps : i < j => eps[i].pod < eps[j].pod
  /\ \A i \in DOMAIN eps :
       /\ \A a : a \in Range(eps[i].addrs) <=> \E e \in E : e.pod = eps[i].pod /\ a \in Range(e.addrs)
       /\ FamiliesInOrder(eps[i].addrs)
       /\ \A e \in E : e.pod = eps[i].pod => e.hostname = eps[i].hostname

\* However the slices are split and listed, there is one endpoint for each pod,
\* and no address twice unless the slices have it twice.
LEMMA OneEndpointPerPod ==
  ASSUME NEW slices \in Seq(EndpointSlice), Consistent(slices),
         NEW eps \in GetEndpointsOfHeadlessService(slices)
  PROVE  /\ eps \in Seq(SliceEndpoint)
         /\ PerPod(EntriesOf(slices), eps)
         /\ NoDuplicates(slices) => \A i \in DOMAIN eps : IsInjective(eps[i].addrs)
         /\ OncePerFamily(slices) =>
              \A i \in DOMAIN eps : Spelled(slices, Positions(slices), eps[i].pod, eps[i].addrs)
<1>1. PICK s \in SortedByAddressType(slices) : eps \in ByName(endpointByName(s))
  BY DEF GetEndpointsOfHeadlessService
<1> DEFINE b == endpointByName(s)
<1> DEFINE P == Positions(s)
<1> DEFINE E == EntriesOf(slices)
<1>2. /\ s \in Seq(EndpointSlice) /\ Consistent(s) /\ TypesInOrder(s)
      /\ NoDuplicates(slices) => NoDuplicates(s)
      /\ {Ep(s, q) : q \in P} = E
  BY SortedSlices
<1>3. Joined(s, P, b)
  BY <1>2, JoinAll
<1> HIDE DEF b, P, E
<1>4. /\ IsFiniteSet(DOMAIN b)
      /\ DOMAIN b = {e.pod : e \in E}
      /\ DOMAIN b \subseteq Nat
      /\ \A p \in DOMAIN b : b[p] \in PodEntry
  <2>1. {Ep(s, q).pod : q \in P} = {e.pod : e \in E}
    BY <1>2
  <2>2. \A e \in E : e.pod \in Nat
    BY <1>2, PositionType DEF P, SliceEndpoint
  <2> QED
    BY <1>3, <2>1, <2>2 DEF Joined
<1>5. PICK names \in Bijection(1 .. Cardinality(DOMAIN b), DOMAIN b) :
        /\ \A i, j \in DOMAIN names : i < j => names[i] < names[j]
        /\ eps = [i \in DOMAIN names |-> [pod      |-> names[i],
                                          hostname |-> b[names[i]].hostname,
                                          addrs    |-> b[names[i]].addrs]]
  BY <1>1 DEF ByName, b
<1> DEFINE D == 1 .. Cardinality(DOMAIN b)
<1>6. Cardinality(DOMAIN b) \in Nat
  BY <1>4, FS_CardinalityType
<1>7. names \in [D -> DOMAIN b] /\ \A p \in DOMAIN b : \E i \in D : names[i] = p
  BY DEF Bijection, Injection, Surjection
<1>8. /\ DOMAIN eps = D /\ DOMAIN names = D
      /\ \A i \in D : /\ names[i] \in DOMAIN b
                      /\ eps[i].pod = names[i]
                      /\ eps[i].hostname = b[names[i]].hostname
                      /\ eps[i].addrs = b[names[i]].addrs
  BY <1>5, <1>7
<1>9. eps \in Seq(SliceEndpoint)
  <2>1. \A i \in D : eps[i] \in SliceEndpoint
    BY <1>4, <1>5, <1>7, <1>8 DEF PodEntry, SliceEndpoint
  <2>2. eps = [i \in D |-> eps[i]]
    BY <1>5, <1>7
  <2> QED
    BY <1>6, <2>1, <2>2
<1>10. {eps[i].pod : i \in DOMAIN eps} = {e.pod : e \in E}
  <2>1. \A i \in D : eps[i].pod \in DOMAIN b
    BY <1>8
  <2>2. \A p \in DOMAIN b : \E i \in D : eps[i].pod = p
    BY <1>7, <1>8
  <2>3. {eps[i].pod : i \in D} = DOMAIN b
    <3> HIDE DEF D
    <3> QED
      BY <2>1, <2>2
  <2> QED
    BY <1>4, <1>8, <2>3
<1>11. \A i, j \in DOMAIN eps : i < j => eps[i].pod < eps[j].pod
  BY <1>5, <1>8
<1>12. ASSUME NEW i \in DOMAIN eps
       PROVE  \A a : a \in Range(eps[i].addrs) <=>
                \E e \in E : e.pod = eps[i].pod /\ a \in Range(e.addrs)
  <2>1. \A a : a \in Range(b[names[i]].addrs) <=>
          \E q \in P : Ep(s, q).pod = names[i] /\ a \in Range(Ep(s, q).addrs)
    BY <1>3, <1>8 DEF Joined
  <2> QED
    BY <1>2, <1>8, <2>1
<1>13. ASSUME NEW i \in DOMAIN eps
       PROVE  /\ FamiliesInOrder(eps[i].addrs)
              /\ NoDuplicates(slices) => IsInjective(eps[i].addrs)
  BY <1>2, <1>3, <1>8 DEF Joined
<1>14. ASSUME NEW i \in DOMAIN eps, NEW e \in E, e.pod = eps[i].pod
       PROVE  e.hostname = eps[i].hostname
  <2>1. PICK q \in P : Ep(s, q).pod = names[i] /\ Ep(s, q).hostname = eps[i].hostname
    BY <1>3, <1>8 DEF Joined
  <2>2. PICK r \in P : e = Ep(s, r)
    BY <1>2
  <2>3. /\ q[1] \in DOMAIN s /\ Ep(s, q) \in Range(s[q[1]].eps)
        /\ r[1] \in DOMAIN s /\ Ep(s, r) \in Range(s[r[1]].eps)
    BY <1>2, PositionType DEF P
  <2>4. Ep(s, r).pod = Ep(s, q).pod
    BY <1>8, <1>14, <2>1, <2>2
  <2>5. Ep(s, r).hostname = Ep(s, q).hostname
    BY <1>2, <2>3, <2>4 DEF Consistent
  <2> QED
    BY <2>1, <2>2, <2>5
<1>15. ASSUME OncePerFamily(slices), NEW i \in DOMAIN eps
       PROVE  Spelled(slices, Positions(slices), eps[i].pod, eps[i].addrs)
  <2>1. PICK p \in Bijection(DOMAIN slices, DOMAIN slices) : s = Reordered(slices, p)
    BY DEF SortedByAddressType, Reordered
  <2>2. OncePerFamily(s)
    BY <1>15, <2>1, Reordering
  <2>3. Spelled(s, P, eps[i].pod, eps[i].addrs)
    BY <1>3, <1>8, <2>2 DEF Joined
  <2> QED
    BY <2>1, <2>3, SpelledReordered DEF P
<1> QED
  BY <1>9, <1>10, <1>11, <1>12, <1>13, <1>14, <1>15 DEF E, PerPod

----------------------------------------------------------------------------
(* What is exported is a function of the slices. *)

\* x is an increasing sequence of m numbers, each of which is one of y's n.
Increasing(m, x) == x \in [1 .. m -> Nat] /\ \A i, j \in 1 .. m : i < j => x[i] < x[j]

Within(m, x, n, y) == \A i \in 1 .. m : \E j \in 1 .. n : x[i] = y[j]

\* Two increasing sequences of the same numbers are equal up to the end of the
\* first.
LEMMA IncreasingPrefix ==
  ASSUME NEW m \in Nat, NEW n \in Nat, NEW x, NEW y, Increasing(m, x), Increasing(n, y),
         Within(m, x, n, y), Within(n, y, m, x)
  PROVE  \A i \in 1 .. m : i <= n /\ x[i] = y[i]
<1> DEFINE S == {i \in 1 .. m : ~(i <= n /\ x[i] = y[i])}
<1> SUFFICES ASSUME S # {} PROVE FALSE
  OBVIOUS
<1>0. S \in SUBSET Nat
  OBVIOUS
<1>1. PICK i \in S : \A k \in S : i <= k
  <2> HIDE DEF S
  <2> QED
    BY <1>0, LeastNumber
<1>2. i \in 1 .. m /\ ~(i <= n /\ x[i] = y[i])
  OBVIOUS
<1>3. ASSUME NEW k \in 1 .. m, k < i PROVE k <= n /\ x[k] = y[k]
  <2>1. k \notin S
    <3> HIDE DEF S
    <3> QED
      BY <1>1, <1>2, <1>3
  <2> QED
    BY <2>1
<1> HIDE DEF S
<1>4. PICK j \in 1 .. n : x[i] = y[j]
  BY <1>2 DEF Within
<1>5. ~(j < i)
  <2> SUFFICES ASSUME j < i PROVE FALSE
    OBVIOUS
  <2>1. j \in 1 .. m /\ x[j] = y[j]
    BY <1>2, <1>3
  <2>2. x[j] < x[i] /\ x[j] \in Nat
    BY <1>2, <2>1 DEF Increasing
  <2> QED
    BY <1>4, <2>1, <2>2
<1>6. j > i /\ i \in 1 .. n
  BY <1>2, <1>4, <1>5
<1>7. y[i] < y[j] /\ y[i] \in Nat /\ y[j] \in Nat
  BY <1>6 DEF Increasing
<1>8. PICK k \in 1 .. m : x[k] = y[i]
  BY <1>6 DEF Within
<1>9. ~(k < i)
  <2> SUFFICES ASSUME k < i PROVE FALSE
    OBVIOUS
  <2>1. y[k] = y[i] /\ k \in 1 .. n
    BY <1>3, <1>8
  <2>2. y[k] < y[i]
    BY <1>6, <2>1 DEF Increasing
  <2> QED
    BY <1>7, <2>1, <2>2
<1>10. k = i \/ x[i] < x[k]
  BY <1>2, <1>9 DEF Increasing
<1> QED
  BY <1>4, <1>7, <1>8, <1>10

\* A pod that occurs once in each family has its addresses in one way only.
LEMMA SpelledOnce ==
  ASSUME NEW s, OncePerFamily(s), NEW pod, NEW a, NEW b,
         Spelled(s, Positions(s), pod, a), Spelled(s, Positions(s), pod, b)
  PROVE  a = b
<1>1. ASSUME NEW type, NEW x, NEW y, PartOf(s, Positions(s), pod, type, x),
             PartOf(s, Positions(s), pod, type, y)
      PROVE  x = y
  BY <1>1 DEF PartOf, OncePerFamily
<1> QED
  BY <1>1 DEF Spelled

\* The order in which slices are listed, the sort that is not stable and the
\* order in which the map is gone through leave no trace in the result.
LEMMA ExportUnique ==
  ASSUME NEW slices \in Seq(EndpointSlice), Consistent(slices), OncePerFamily(slices),
         NEW p \in Bijection(DOMAIN slices, DOMAIN slices), NEW t, t = Reordered(slices, p),
         NEW x \in GetEndpointsOfHeadlessService(slices),
         NEW y \in GetEndpointsOfHeadlessService(t)
  PROVE  x = y
<1>1. t \in Seq(EndpointSlice) /\ Consistent(t) /\ OncePerFamily(t)
  BY Reordering
<1>2. EntriesOf(t) = EntriesOf(slices)
  <2>1. /\ p \in [DOMAIN slices -> DOMAIN slices]
        /\ \A k \in DOMAIN slices : \E i \in DOMAIN slices : p[i] = k
    BY DEF Bijection, Injection, Surjection
  <2>2. Range(t) = Range(slices)
    BY <2>1 DEF Reordered, Range
  <2> QED
    BY <2>2 DEF EntriesOf
<1> DEFINE E == EntriesOf(slices)
<1>3. /\ x \in Seq(SliceEndpoint) /\ PerPod(E, x)
      /\ \A i \in DOMAIN x : Spelled(slices, Positions(slices), x[i].pod, x[i].addrs)
  BY OneEndpointPerPod
<1>4. /\ y \in Seq(SliceEndpoint) /\ PerPod(E, y)
      /\ \A i \in DOMAIN y : Spelled(t, Positions(t), y[i].pod, y[i].addrs)
  BY <1>1, <1>2, OneEndpointPerPod
<1>5. \A i \in DOMAIN y : Spelled(slices, Positions(slices), y[i].pod, y[i].addrs)
  BY <1>4, SpelledReordered
<1> HIDE DEF E
<1> DEFINE m == Len(x)
<1> DEFINE n == Len(y)
<1> DEFINE xs == [i \in 1 .. m |-> x[i].pod]
<1> DEFINE ys == [i \in 1 .. n |-> y[i].pod]
<1>6. /\ m \in Nat /\ n \in Nat /\ DOMAIN x = 1 .. m /\ DOMAIN y = 1 .. n
      /\ \A i \in 1 .. m : x[i] \in SliceEndpoint
      /\ \A i \in 1 .. n : y[i] \in SliceEndpoint
  BY <1>3, <1>4
<1>7. xs \in [1 .. m -> Nat] /\ ys \in [1 .. n -> Nat]
  BY <1>6 DEF SliceEndpoint
<1>8. /\ \A i, j \in 1 .. m : i < j => x[i].pod < x[j].pod
      /\ \A i, j \in 1 .. n : i < j => y[i].pod < y[j].pod
  BY <1>3, <1>4, <1>6 DEF PerPod
<1>9. /\ \A i, j \in 1 .. m : i < j => xs[i] < xs[j]
      /\ \A i, j \in 1 .. n : i < j => ys[i] < ys[j]
  BY <1>8
<1>10. {x[i].pod : i \in 1 .. m} = {y[i].pod : i \in 1 .. n}
  BY <1>3, <1>4, <1>6 DEF PerPod
<1>11. /\ \A i \in 1 .. m : \E j \in 1 .. n : xs[i] = ys[j]
       /\ \A j \in 1 .. n : \E i \in 1 .. m : xs[i] = ys[j]
  <2>1. \A i \in 1 .. m : x[i].pod \in {y[j].pod : j \in 1 .. n}
    BY <1>10
  <2>2. \A j \in 1 .. n : y[j].pod \in {x[i].pod : i \in 1 .. m}
    BY <1>10
  <2> QED
    BY <2>1, <2>2
<1>12. m \in Nat /\ n \in Nat
  BY <1>6
<1>13. /\ \A i \in 1 .. m : i <= n /\ xs[i] = ys[i]
       /\ \A i \in 1 .. n : i <= m
  <2>1. Increasing(m, xs) /\ Increasing(n, ys)
    BY <1>7, <1>9 DEF Increasing
  <2>2. Within(m, xs, n, ys) /\ Within(n, ys, m, xs)
    BY <1>11 DEF Within
  <2> HIDE DEF xs, ys, m, n
  <2> QED
    BY <1>12, <2>1, <2>2, IncreasingPrefix
<1>14. m = n
  <2> HIDE DEF m, n
  <2>1. m # 0 => m \in 1 .. m
    BY <1>12
  <2>2. n # 0 => n \in 1 .. n
    BY <1>12
  <2>3. (m # 0 => m <= n) /\ (n # 0 => n <= m)
    BY <1>13, <2>1, <2>2
  <2> QED
    BY <1>12, <2>3
<1>15. ASSUME NEW i \in 1 .. m PROVE x[i] = y[i]
  <2>1. x[i].pod = y[i].pod
    BY <1>13, <1>14
  <2>2. x[i].addrs = y[i].addrs
    BY <1>3, <1>5, <1>6, <1>14, <2>1, SpelledOnce
  <2>3. PICK e \in E : e.pod = x[i].pod
    <3>1. x[i].pod \in {e.pod : e \in E}
      BY <1>3, <1>6 DEF PerPod
    <3> QED
      BY <3>1
  <2>4. x[i].hostname = y[i].hostname
    BY <1>3, <1>4, <1>6, <1>14, <2>1, <2>3 DEF PerPod
  <2>5. x[i] \in SliceEndpoint /\ y[i] \in SliceEndpoint
    BY <1>6, <1>14
  <2> QED
    BY <2>1, <2>2, <2>4, <2>5 DEF SliceEndpoint
<1> QED
  BY <1>3, <1>4, <1>6, <1>14, <1>15, SeqEqual

\* A finite set can be gone through in the order of any rank.
LEMMA SortExists ==
  ASSUME NEW D, NEW rank \in [D -> Nat], NEW T \in SUBSET D, IsFiniteSet(T)
  PROVE  \E q \in Bijection(1 .. Cardinality(T), T) :
           \A i, j \in 1 .. Cardinality(T) : i < j => rank[q[i]] <= rank[q[j]]
<1> DEFINE Sorted(n, U) ==
      \E q \in Bijection(1 .. n, U) : \A i, j \in 1 .. n : i < j => rank[q[i]] <= rank[q[j]]
<1> DEFINE S == {n \in Nat : \A U \in SUBSET D :
                               (IsFiniteSet(U) /\ Cardinality(U) = n) => Sorted(n, U)}
<1>1. 0 \in S
  <2> SUFFICES ASSUME NEW U \in SUBSET D, IsFiniteSet(U), Cardinality(U) = 0 PROVE Sorted(0, U)
    OBVIOUS
  <2>1. U = {} /\ 1 .. 0 = {}
    BY FS_EmptySet
  <2>2. <<>> \in Bijection(1 .. 0, U)
    BY <2>1 DEF Bijection, Injection, Surjection, IsInjective
  <2> QED
    BY <2>1, <2>2
<1>2. ASSUME NEW n \in Nat, n \in S PROVE n + 1 \in S
  <2> SUFFICES ASSUME NEW U \in SUBSET D, IsFiniteSet(U), Cardinality(U) = n + 1
               PROVE  Sorted(n + 1, U)
    OBVIOUS
  <2>1. U # {}
    BY FS_EmptySet
  <2>2. PICK u \in U : \A v \in U : rank[u] <= rank[v]
    <3> DEFINE R == {rank[v] : v \in U}
    <3>1. R \in SUBSET Nat /\ R # {}
      BY <2>1
    <3>2. PICK k \in R : \A l \in R : k <= l
      <4> HIDE DEF R
      <4> QED
        BY <3>1, LeastNumber
    <3> QED
      BY <3>2
  <2> DEFINE V == U \ {u}
  <2>3. IsFiniteSet(V) /\ Cardinality(V) = n /\ V \in SUBSET D
    <3>1. IsFiniteSet(V) /\ Cardinality(V) = Cardinality(U) - 1
      BY FS_RemoveElement
    <3> QED
      BY <3>1
  <2>4. Sorted(n, V)
    <3> HIDE DEF V, Sorted
    <3> QED
      BY <1>2, <2>3
  <2>5. PICK q \in Bijection(1 .. n, V) : \A i, j \in 1 .. n : i < j => rank[q[i]] <= rank[q[j]]
    BY <2>4
  <2>6. /\ q \in [1 .. n -> V]
        /\ \A i, j \in 1 .. n : q[i] = q[j] => i = j
        /\ \A v \in V : \E i \in 1 .. n : q[i] = v
    BY DEF Bijection, Injection, Surjection, IsInjective
  <2> DEFINE g == [i \in 1 .. n + 1 |-> IF i = 1 THEN u ELSE q[i - 1]]
  <2>7. ASSUME NEW i \in 1 .. n + 1
        PROVE  \/ i = 1 /\ g[i] = u
               \/ i - 1 \in 1 .. n /\ g[i] = q[i - 1] /\ q[i - 1] \in U /\ q[i - 1] # u
    BY <2>6
  <2>8. \A i \in 1 .. n : i + 1 \in 1 .. n + 1 /\ g[i + 1] = q[i]
    OBVIOUS
  <2>9. 1 \in 1 .. n + 1 /\ g[1] = u
    OBVIOUS
  <2>10. g \in [1 .. n + 1 -> U]
    BY <2>6
  <2> HIDE DEF g
  <2>11. \A i, j \in 1 .. n + 1 : g[i] = g[j] => i = j
    BY <2>6, <2>7
  <2>12. \A v \in U : \E i \in 1 .. n + 1 : g[i] = v
    BY <2>6, <2>8, <2>9
  <2>13. g \in Bijection(1 .. n + 1, U)
    BY <2>10, <2>11, <2>12 DEF Bijection, Injection, Surjection, IsInjective
  <2>14. ASSUME NEW i \in 1 .. n + 1, NEW j \in 1 .. n + 1, i < j
         PROVE  rank[g[i]] <= rank[g[j]]
    <3>1. g[j] \in U
      BY <2>10
    <3>2. CASE i = 1
      BY <2>2, <2>9, <3>1, <3>2
    <3>3. CASE i # 1
      <4>1. i - 1 \in 1 .. n /\ j - 1 \in 1 .. n /\ i - 1 < j - 1
        BY <2>14, <3>3
      <4>2. g[i] = q[i - 1] /\ g[j] = q[j - 1]
        BY <2>7, <3>3, <4>1
      <4>3. rank[q[i - 1]] <= rank[q[j - 1]]
        BY <2>5, <4>1
      <4> QED
        BY <4>2, <4>3
    <3> QED
      BY <3>2, <3>3
  <2> QED
    BY <2>13, <2>14
<1>3. Cardinality(T) \in S
  <2> HIDE DEF S
  <2> QED
    BY <1>1, <1>2, SetInduction, FS_CardinalityType
<1> QED
  BY <1>3

\* There is a result for every list of slices.
LEMMA ExportExists ==
  ASSUME NEW slices \in Seq(EndpointSlice), Consistent(slices)
  PROVE  GetEndpointsOfHeadlessService(slices) # {}
<1> DEFINE D == DOMAIN slices
<1>1. /\ D = 1 .. Len(slices) /\ Len(slices) \in Nat
      /\ IsFiniteSet(D) /\ Cardinality(D) = Len(slices)
  <2>1. D = 1 .. Len(slices) /\ Len(slices) \in Nat
    OBVIOUS
  <2>2. IsFiniteSet(1 .. Len(slices)) /\ Cardinality(1 .. Len(slices)) = Len(slices)
    BY <2>1, FS_Interval
  <2> QED
    BY <2>1, <2>2
<1>2. SortedByAddressType(slices) # {}
  <2> DEFINE rank == [i \in D |-> TypeRank(slices[i].type)]
  <2>1. rank \in [D -> Nat]
    <3>1. \A i \in D : slices[i] \in EndpointSlice
      OBVIOUS
    <3>2. \A i \in D : slices[i].type \in {"FQDN", "IPv4", "IPv6"}
      BY <3>1 DEF EndpointSlice
    <3>3. \A i \in D : TypeRank(slices[i].type) \in Nat
      BY <3>2 DEF TypeRank
    <3> QED
      BY <3>3
  <2>2. PICK p \in Bijection(D, D) : \A i, j \in D : i < j => rank[p[i]] <= rank[p[j]]
    <3> HIDE DEF rank
    <3> QED
      BY <1>1, <2>1, SortExists
  <2>3. p \in [D -> D]
    BY DEF Bijection, Injection
  <2> DEFINE s == [i \in D |-> slices[p[i]]]
  <2>4. \A i, j \in DOMAIN s : i < j => TypeRank(s[i].type) <= TypeRank(s[j].type)
    BY <2>2, <2>3
  <2>5. s \in SortedByAddressType(slices)
    BY <2>4 DEF SortedByAddressType
  <2> QED
    BY <2>5
<1>3. PICK s \in SortedByAddressType(slices) : TRUE
  BY <1>2
<1> DEFINE b == endpointByName(s)
<1> DEFINE T == DOMAIN b
<1>4. Joined(s, Positions(s), b)
  BY SortedSlices, JoinAll
<1>5. IsFiniteSet(T) /\ T \in SUBSET Nat
  <2>1. \A q \in Positions(s) : Ep(s, q).pod \in Nat
    BY SortedSlices, PositionType DEF SliceEndpoint
  <2> QED
    BY <1>4, <2>1 DEF Joined
<1> DEFINE id == [n \in Nat |-> n]
<1>6. PICK q \in Bijection(1 .. Cardinality(T), T) :
        \A i, j \in 1 .. Cardinality(T) : i < j => id[q[i]] <= id[q[j]]
  <2>1. id \in [Nat -> Nat]
    OBVIOUS
  <2> HIDE DEF id, T
  <2> QED
    BY <1>5, <2>1, SortExists
<1>7. /\ q \in [1 .. Cardinality(T) -> T]
      /\ \A i, j \in 1 .. Cardinality(T) : q[i] = q[j] => i = j
  BY DEF Bijection, Injection, IsInjective
<1>8. ASSUME NEW i \in 1 .. Cardinality(T), NEW j \in 1 .. Cardinality(T), i < j
      PROVE  q[i] < q[j]
  <2>1. q[i] \in Nat /\ q[j] \in Nat
    BY <1>5, <1>7
  <2>2. id[q[i]] <= id[q[j]]
    BY <1>6, <1>8
  <2>3. Cardinality(T) \in Nat
    BY <1>5, FS_CardinalityType
  <2>4. q[i] # q[j]
    BY <1>7, <1>8, <2>3
  <2> QED
    BY <2>1, <2>2, <2>4
<1>9. \A i, j \in DOMAIN q : i < j => q[i] < q[j]
  BY <1>7, <1>8
<1> DEFINE eps == [i \in DOMAIN q |-> [pod |-> q[i], hostname |-> b[q[i]].hostname,
                                       addrs |-> b[q[i]].addrs]]
<1>10. eps \in ByName(b)
  BY <1>9 DEF ByName
<1> QED
  BY <1>10 DEF GetEndpointsOfHeadlessService

\* As long as no pod occurs twice in the slices of one family, there is exactly
\* one list of endpoints that GetEndpointsOfHeadlessService can return, and it is
\* the same in whatever order the cache lists the slices: neither the sort, which
\* is not stable, nor the iteration over the map shows, so that exporting again
\* what has not changed writes what is there.
THEOREM ExportIsDetermined ==
  ASSUME NEW slices \in Seq(EndpointSlice), Consistent(slices), OncePerFamily(slices),
         NEW p \in Bijection(DOMAIN slices, DOMAIN slices)
  PROVE  \E eps : /\ GetEndpointsOfHeadlessService(slices) = {eps}
                  /\ GetEndpointsOfHeadlessService([i \in DOMAIN slices |-> slices[p[i]]]) = {eps}
<1> DEFINE t == Reordered(slices, p)
<1>1. t \in Seq(EndpointSlice) /\ Consistent(t)
  BY Reordering
<1>2. PICK x \in GetEndpointsOfHeadlessService(slices) : TRUE
  BY ExportExists
<1>3. PICK y \in GetEndpointsOfHeadlessService(t) : TRUE
  <2> HIDE DEF t
  <2> QED
    BY <1>1, ExportExists
<1>4. \A a \in GetEndpointsOfHeadlessService(slices), b \in GetEndpointsOfHeadlessService(t) : a = b
  BY ExportUnique
<1>5. GetEndpointsOfHeadlessService(slices) = {x} /\ GetEndpointsOfHeadlessService(t) = {x}
  <2> HIDE DEF t
  <2> QED
    BY <1>2, <1>3, <1>4
<1> QED
  BY <1>5 DEF Reordered

----------------------------------------------------------------------------
(* The specification. *)

\* What has been exported last is made of the slices it was made of.
Made ==
  IF listed = None THEN exported = <<>>
  ELSE exported \in GetEndpointsOfHeadlessService(listed)

\* A cluster's endpoints in a global service.
EndpointsIn(g, c) == {e \in EndpointsOf(g) : e.cluster = c}

\* A cluster's endpoints are made of its slices, none if it has none.
MadeOf(g, slices, c) ==
  IF slices = None THEN EndpointsIn(g, c) = {}
  ELSE \E eps \in GetEndpointsOfHeadlessService(slices) : EndpointsIn(g, c) = OwnEndpoints(c, eps)

\* A version has the endpoints of each cluster's slices, no others.
GoodVersion(v) ==
  /\ v.service \in GlobalServices \union {None}
  /\ v.slices \in [Clusters -> SliceLists \union {None}]
  /\ \A c \in Clusters : MadeOf(v.service, v.slices[c], c)

Version == [service : GlobalServices \union {None}, slices : [Clusters -> SliceLists \union {None}]]

HeadlessInv ==
  /\ listed \in SliceLists \union {None}
  /\ exported \in Seq(SliceEndpoint)
  /\ versions \in Seq(Version)
  /\ shown \in 1 .. Len(versions)
  /\ Made
  /\ \A i \in 1 .. Len(versions) : GoodVersion(versions[i])

\* An exported endpoint is an endpoint for the plugin, and names its cluster.
LEMMA ExportedType ==
  ASSUME NEW c \in Clusters, NEW e \in SliceEndpoint
  PROVE  /\ Exported(c, e) \in DNSEndpoints
         /\ Exported(c, e).cluster = c /\ Exported(c, e).hostname = e.hostname
         /\ Exported(c, e).addrs = Range(e.addrs)
<1>1. /\ e.hostname \in Hostnames \union {None} /\ e.addrs \in Seq(Addresses)
      /\ Topology[c].zone \in Labels /\ Topology[c].region \in Labels
  BY HeadlessAssumption DEF SliceEndpoint
<1>2. Range(e.addrs) \in SUBSET Addresses
  BY <1>1 DEF Range
<1> QED
  BY <1>1, <1>2 DEF Exported, DNSEndpoints

\* A cluster's own endpoints.
LEMMA OwnType ==
  ASSUME NEW c \in Clusters, NEW eps \in Seq(SliceEndpoint)
  PROVE  /\ OwnEndpoints(c, eps) \in SUBSET DNSEndpoints
         /\ \A e \in OwnEndpoints(c, eps) : e.cluster = c
<1>1. \A i \in DOMAIN eps : eps[i] \in SliceEndpoint
  OBVIOUS
<1> QED
  BY <1>1, ExportedType DEF OwnEndpoints

\* The endpoints of a service are typed.
LEMMA EndpointsType ==
  ASSUME NEW g \in GlobalServices \union {None}
  PROVE  EndpointsOf(g) \in SUBSET DNSEndpoints
BY DEF EndpointsOf, GlobalServices

\* What a global service with certain endpoints is.
LEMMA ServiceOf ==
  ASSUME NEW E \in SUBSET DNSEndpoints
  PROVE  /\ [type |-> "Headless", eps |-> E] \in GlobalServices
         /\ EndpointsOf([type |-> "Headless", eps |-> E]) = E
<1>1. [type |-> "Headless", eps |-> E] \in GlobalServices
  BY DEF GlobalServices
<1>2. [type |-> "Headless", eps |-> E] # None
  BY <1>1, HeadlessAssumption DEF GlobalServices
<1> QED
  BY <1>1, <1>2 DEF EndpointsOf

\* A version is appended.
LEMMA WriteStep ==
  ASSUME HeadlessInv, NEW g, NEW slices, Write(g, slices),
         GoodVersion([service |-> g, slices |-> slices])
  PROVE  /\ versions' \in Seq(Version)
         /\ shown' \in 1 .. Len(versions')
         /\ \A i \in 1 .. Len(versions') : GoodVersion(versions'[i])
<1> DEFINE v == [service |-> g, slices |-> slices]
<1>1. v \in Version
  BY DEF GoodVersion, Version
<1>2. versions' = Append(versions, v) /\ shown' = shown
  BY DEF Write
<1>3. versions \in Seq(Version) /\ shown \in 1 .. Len(versions) /\ GoodVersion(v)
      /\ \A i \in 1 .. Len(versions) : GoodVersion(versions[i])
  BY DEF HeadlessInv
<1> HIDE DEF v
<1>4. /\ versions' \in Seq(Version) /\ Len(versions') = Len(versions) + 1
      /\ \A i \in 1 .. Len(versions) : versions'[i] = versions[i]
      /\ versions'[Len(versions) + 1] = v
  BY <1>1, <1>2, <1>3
<1>5. ASSUME NEW i \in 1 .. Len(versions') PROVE GoodVersion(versions'[i])
  <2>1. CASE i = Len(versions) + 1
    BY <1>3, <1>4, <2>1
  <2>2. CASE i # Len(versions) + 1
    <3>1. i \in 1 .. Len(versions)
      BY <1>3, <1>4, <2>2
    <3> QED
      BY <1>3, <1>4, <3>1
  <2> QED
    BY <2>1, <2>2
<1>6. shown' \in 1 .. Len(versions')
  BY <1>2, <1>3, <1>4
<1> QED
  BY <1>4, <1>5, <1>6

\* What has been read and what is newest are versions; where the API server
\* takes a write, they have the same endpoints.
LEMMA ReadAndNewest ==
  ASSUME HeadlessInv
  PROVE  /\ Read \in GlobalServices \union {None}
         /\ Newest.service \in GlobalServices \union {None}
         /\ Newest.slices \in [Clusters -> SliceLists \union {None}]
         /\ GoodVersion(Newest)
         /\ MayWrite => Read = Newest.service
<1>1. Len(versions) \in 1 .. Len(versions) /\ shown \in 1 .. Len(versions)
  BY DEF HeadlessInv
<1>2. GoodVersion(Newest) /\ GoodVersion(versions[shown])
  BY <1>1 DEF HeadlessInv, Newest
<1> QED
  BY <1>2 DEF GoodVersion, Read, Newest, MayWrite

\* Where one cluster's endpoints are replaced in a good version, by those of its
\* slices, the result is a good version.
LEMMA Replaced ==
  ASSUME HeadlessInv, MayWrite, NEW c \in Clusters, NEW E, NEW slices \in SliceLists \union {None},
         E \in SUBSET DNSEndpoints, \A e \in E : e.cluster = c,
         IF slices = None THEN E = {}
         ELSE \E eps \in GetEndpointsOfHeadlessService(slices) : E = OwnEndpoints(c, eps)
  PROVE  GoodVersion([service |-> [type |-> "Headless", eps |-> Others(Read, c) \union E],
                      slices |-> [Newest.slices EXCEPT ![c] = slices]])
<1> DEFINE F == Others(Read, c) \union E
<1> DEFINE g == [type |-> "Headless", eps |-> F]
<1> DEFINE s == [Newest.slices EXCEPT ![c] = slices]
<1>1. /\ EndpointsOf(Read) \in SUBSET DNSEndpoints /\ Read = Newest.service
      /\ Newest.slices \in [Clusters -> SliceLists \union {None}]
      /\ \A d \in Clusters : MadeOf(Read, Newest.slices[d], d)
  BY ReadAndNewest, EndpointsType DEF GoodVersion
<1>2. F \in SUBSET DNSEndpoints
  BY <1>1 DEF Others
<1>3. g \in GlobalServices /\ EndpointsOf(g) = F
  <2> HIDE DEF F
  <2> QED
    BY <1>2, ServiceOf
<1>4. s \in [Clusters -> SliceLists \union {None}] /\ s[c] = slices
      /\ \A d \in Clusters : d # c => s[d] = Newest.slices[d]
  BY <1>1
<1>5. ASSUME NEW d \in Clusters PROVE MadeOf(g, s[d], d)
  <2>1. EndpointsIn(g, d) = {e \in F : e.cluster = d}
    BY <1>3 DEF EndpointsIn
  <2>2. CASE d = c
    <3>1. EndpointsIn(g, d) = E
      BY <2>1, <2>2 DEF Others
    <3> HIDE DEF g, s
    <3> QED
      BY <1>4, <2>2, <3>1 DEF MadeOf
  <2>3. CASE d # c
    <3>1. EndpointsIn(g, d) = EndpointsIn(Read, d)
      BY <2>1, <2>3 DEF Others, EndpointsIn
    <3> HIDE DEF g, s
    <3> QED
      BY <1>1, <1>4, <2>3, <3>1 DEF MadeOf
  <2> QED
    BY <2>2, <2>3
<1> HIDE DEF g, s
<1>6. GoodVersion([service |-> g, slices |-> s])
  BY <1>3, <1>4, <1>5 DEF GoodVersion
<1> QED
  BY <1>6 DEF g, s

\* The invariant of the theorems below.
LEMMA HeadlessInvariant == Spec => []HeadlessInv
<1>1. Init => HeadlessInv
  <2> SUFFICES ASSUME Init PROVE HeadlessInv
    OBVIOUS
  <2> DEFINE v == [service |-> None, slices |-> [c \in Clusters |-> None]]
  <2>1. versions = <<v>> /\ shown = 1 /\ listed = None /\ exported = <<>>
    BY DEF Init
  <2>2. EndpointsOf(None) = {}
    BY DEF EndpointsOf
  <2>3. \A c \in Clusters : MadeOf(None, None, c)
    BY <2>2 DEF MadeOf, EndpointsIn
  <2>4. GoodVersion(v)
    BY <2>3 DEF GoodVersion
  <2>5. v \in Version
    BY DEF Version
  <2> HIDE DEF v
  <2>6. /\ versions \in Seq(Version) /\ shown \in 1 .. Len(versions)
        /\ \A i \in 1 .. Len(versions) : versions[i] = v
    BY <2>1, <2>5
  <2> QED
    BY <2>1, <2>4, <2>6 DEF HeadlessInv, Made
<1>2. HeadlessInv /\ [Next]_hvars => HeadlessInv'
  <2> SUFFICES ASSUME HeadlessInv, [Next]_hvars PROVE HeadlessInv'
    OBVIOUS
  <2>1. ASSUME NEW c \in Clusters, NEW slices \in SliceLists, Export(c, slices)
        PROVE  HeadlessInv'
    <3>1. PICK eps \in GetEndpointsOfHeadlessService(slices) :
            /\ IF Merged(c, eps) = Read
               THEN UNCHANGED <<versions, shown>>
               ELSE MayWrite /\ Write(Merged(c, eps), [Newest.slices EXCEPT ![c] = slices])
            /\ listed' = slices
            /\ exported' = eps
      BY <2>1 DEF Export
    <3>2. slices \in Seq(EndpointSlice) /\ Consistent(slices) /\ slices # None
      BY HeadlessAssumption
    <3>3. eps \in Seq(SliceEndpoint)
      BY <3>2, OneEndpointPerPod
    <3>4. /\ versions' \in Seq(Version) /\ shown' \in 1 .. Len(versions')
          /\ \A i \in 1 .. Len(versions') : GoodVersion(versions'[i])
      <4>1. CASE Merged(c, eps) = Read
        BY <3>1, <4>1 DEF HeadlessInv
      <4>2. CASE Merged(c, eps) # Read
        <5>1. MayWrite /\ Write(Merged(c, eps), [Newest.slices EXCEPT ![c] = slices])
          BY <3>1, <4>2
        <5>2. GoodVersion([service |-> Merged(c, eps), slices |-> [Newest.slices EXCEPT ![c] = slices]])
          <6>1. /\ OwnEndpoints(c, eps) \in SUBSET DNSEndpoints
                /\ \A e \in OwnEndpoints(c, eps) : e.cluster = c
            BY <3>3, OwnType
          <6> DEFINE E == OwnEndpoints(c, eps)
          <6>2. \E x \in GetEndpointsOfHeadlessService(slices) : E = OwnEndpoints(c, x)
            OBVIOUS
          <6>3. E \in SUBSET DNSEndpoints /\ \A e \in E : e.cluster = c
            BY <6>1
          <6> HIDE DEF E
          <6>4. GoodVersion([service |-> [type |-> "Headless", eps |-> Others(Read, c) \union E],
                             slices  |-> [Newest.slices EXCEPT ![c] = slices]])
            BY <3>2, <5>1, <6>2, <6>3, Replaced
          <6> QED
            BY <6>4 DEF Merged, E
        <5> QED
          BY <5>1, <5>2, WriteStep
      <4> QED
        BY <4>1, <4>2
    <3>5. Made'
      BY <3>1, <3>2 DEF Made
    <3> QED
      BY <3>1, <3>3, <3>4, <3>5 DEF HeadlessInv
  <2>2. ASSUME NEW c \in Clusters, Revoke(c) PROVE HeadlessInv'
    <3>1. /\ versions' \in Seq(Version) /\ shown' \in 1 .. Len(versions')
          /\ \A i \in 1 .. Len(versions') : GoodVersion(versions'[i])
      <4>1. CASE Others(Read, c) = {}
        <5>1. Write(None, [d \in Clusters |-> None])
          BY <2>2, <4>1 DEF Revoke
        <5>2. EndpointsOf(None) = {}
          BY DEF EndpointsOf
        <5>3. \A d \in Clusters : MadeOf(None, None, d)
          BY <5>2 DEF MadeOf, EndpointsIn
        <5>4. GoodVersion([service |-> None, slices |-> [d \in Clusters |-> None]])
          BY <5>3 DEF GoodVersion
        <5> QED
          BY <5>1, <5>4, WriteStep
      <4>2. CASE Others(Read, c) # {}
        <5>1. /\ Read # None /\ MayWrite
              /\ Write([Read EXCEPT !.eps = Others(Read, c)], [Newest.slices EXCEPT ![c] = None])
          BY <2>2, <4>2 DEF Revoke
        <5>2. Read \in GlobalServices
          BY <5>1, ReadAndNewest
        <5>3. [Read EXCEPT !.eps = Others(Read, c)]
                = [type |-> "Headless", eps |-> Others(Read, c) \union {}]
          BY <5>2 DEF GlobalServices
        <5>4. GoodVersion([service |-> [type |-> "Headless", eps |-> Others(Read, c) \union {}],
                           slices  |-> [Newest.slices EXCEPT ![c] = None]])
          BY <5>1, Replaced
        <5> QED
          BY <5>1, <5>3, <5>4, WriteStep
      <4> QED
        BY <4>1, <4>2
    <3>2. UNCHANGED <<listed, exported>>
      BY <2>2 DEF Revoke
    <3> QED
      BY <3>1, <3>2 DEF HeadlessInv, Made
  <2>3. CASE Deliver
    <3>1. /\ shown' = shown + 1 /\ shown < Len(versions)
          /\ UNCHANGED <<listed, exported, versions>>
      BY <2>3 DEF Deliver
    <3> QED
      BY <3>1 DEF HeadlessInv, Made
  <2>4. CASE NoEffect \/ UNCHANGED hvars
    BY <2>4 DEF NoEffect, hvars, HeadlessInv, Made
  <2> QED
    BY <2>1, <2>2, <2>3, <2>4 DEF Next
<1> QED
  BY <1>1, <1>2, PTL DEF Spec

\* What is made of slices has one endpoint for each of their pods.
LEMMA ExportedPerPod ==
  ASSUME NEW slices \in SliceLists, NEW eps \in GetEndpointsOfHeadlessService(slices)
  PROVE  /\ eps \in Seq(SliceEndpoint)
         /\ PerPod(Entries(slices), eps)
         /\ NoDuplicates(slices) => \A i \in DOMAIN eps : IsInjective(eps[i].addrs)
<1>1. slices \in Seq(EndpointSlice) /\ Consistent(slices) /\ Entries(slices) = EntriesOf(slices)
  BY HeadlessAssumption DEF Entries
<1> QED
  BY <1>1, OneEndpointPerPod

\* The export made last.
LEMMA LastExport ==
  ASSUME HeadlessInv
  PROVE  /\ PerPod(Entries(listed), exported)
         /\ (listed # None /\ NoDuplicates(listed)) => \A i \in DOMAIN exported : IsInjective(exported[i].addrs)
<1>1. CASE listed = None
  <2>1. exported = <<>> /\ DOMAIN exported = {} /\ Entries(listed) = {}
    BY <1>1 DEF HeadlessInv, Made, Entries
  <2> QED
    BY <1>1, <2>1 DEF PerPod, HeadlessInv
<1>2. CASE listed # None
  <2>1. listed \in SliceLists /\ exported \in GetEndpointsOfHeadlessService(listed)
    BY <1>2 DEF HeadlessInv, Made
  <2> QED
    BY <2>1, ExportedPerPod
<1> QED
  BY <1>1, <1>2

\* Exports are endpoints of pods with valid addresses only, and the versions of
\* the global service are typed.
THEOREM HeadlessTypeCorrect == Spec => []HeadlessTypeOK
<1>1. HeadlessInv => HeadlessTypeOK
  <2> SUFFICES ASSUME HeadlessInv, NEW i \in DOMAIN exported, NEW a \in Range(exported[i].addrs)
               PROVE  FamilyOf[a] # "invalid"
    BY DEF HeadlessInv, HeadlessTypeOK, Version
  <2>1. listed # None
    BY DEF HeadlessInv, Made
  <2>2. listed \in Seq(EndpointSlice) /\ Consistent(listed)
    BY <2>1, HeadlessAssumption DEF HeadlessInv
  <2>3. PICK e \in EntriesOf(listed) : a \in Range(e.addrs)
    BY <2>1, LastExport DEF PerPod, Entries
  <2>4. PICK k \in DOMAIN listed : listed[k].type # "FQDN" /\ e \in Range(listed[k].eps)
    BY DEF EntriesOf, Range
  <2>5. listed[k] \in EndpointSlice
    BY <2>2
  <2>6. listed[k].type \in {"FQDN", "IPv4", "IPv6"}
    BY <2>5 DEF EndpointSlice
  <2> QED
    BY <2>2, <2>3, <2>4, <2>6 DEF Consistent
<1> QED
  BY <1>1, HeadlessInvariant, PTL

\* However its slices are split and listed, a cluster exports one endpoint for
\* each pod, in order, with all addresses.
THEOREM PodsAlwaysExportedOnce == Spec => []PodsExportedOnce
<1>1. HeadlessInv => PodsExportedOnce
  <2> SUFFICES ASSUME HeadlessInv
               PROVE  /\ {exported[i].pod : i \in DOMAIN exported} = {e.pod : e \in Entries(listed)}
                      /\ \A i, j \in DOMAIN exported : i < j => exported[i].pod < exported[j].pod
                      /\ \A i \in DOMAIN exported :
                           /\ Range(exported[i].addrs) =
                                UNION {Range(e.addrs) : e \in {x \in Entries(listed) : x.pod = exported[i].pod}}
                           /\ FamiliesInOrder(exported[i].addrs)
                           /\ (listed # None /\ NoDuplicates(listed)) => IsInjective(exported[i].addrs)
    BY DEF PodsExportedOnce, FamiliesInOrder
  <2>1. ASSUME NEW i \in DOMAIN exported
        PROVE  Range(exported[i].addrs) =
                 UNION {Range(e.addrs) : e \in {x \in Entries(listed) : x.pod = exported[i].pod}}
    <3>1. \A a : a \in Range(exported[i].addrs) <=>
            \E e \in Entries(listed) : e.pod = exported[i].pod /\ a \in Range(e.addrs)
      BY LastExport DEF PerPod
    <3> QED
      BY <3>1
  <2>2. ASSUME NEW i \in DOMAIN exported
        PROVE  /\ FamiliesInOrder(exported[i].addrs)
               /\ (listed # None /\ NoDuplicates(listed)) => IsInjective(exported[i].addrs)
    BY LastExport DEF PerPod
  <2>3. /\ {exported[i].pod : i \in DOMAIN exported} = {e.pod : e \in Entries(listed)}
        /\ \A i, j \in DOMAIN exported : i < j => exported[i].pod < exported[j].pod
    BY LastExport DEF PerPod
  <2> QED
    BY <2>1, <2>2, <2>3
<1> QED
  BY <1>1, HeadlessInvariant, PTL

\* How the plugin answers the name of a pod.
LEMMA PodNameServed ==
  ASSUME NEW from \in Clusters, NEW c \in Clusters, NEW h \in Hostnames, NEW z \in Zones,
         NEW qtype \in {"A", "AAAA"}, NEW g \in GlobalServices \union {None}
  PROVE  LET own   == {e \in EndpointsOf(g) : e.cluster = c /\ e.hostname = h}
             reply == DNS(from, g)!Serve(<<h, c, Key[1], Key[2], SVC, z>>, qtype)
         IN  /\ reply.rcode = IF own = {} THEN "NXDOMAIN" ELSE "NOERROR"
             /\ reply.records = {a \in UNION {e.addrs : e \in own} : FamilyOf[a] = qtype}
<1> DEFINE l == <<h, c, Key[1], Key[2], SVC, z>>
<1> DEFINE own == {e \in EndpointsOf(g) : e.cluster = c /\ e.hostname = h}
<1> DEFINE req == [hostname |-> h, cluster |-> c, key |-> Key, isAdHoc |-> FALSE]
<1>1. /\ Len(l) = 6 /\ l[1] = h /\ l[2] = c /\ l[3] = Key[1] /\ l[4] = Key[2] /\ l[6] = z
      /\ Key = <<Key[1], Key[2]>>
  BY HeadlessAssumption
<1> HIDE DEF l
<1>2. DNS(from, g)!parseRequest(l) = req
  <2>1. DNS(from, g)!parseRequest(l) = DNS(from, g)!Parsed(l[1], l[2], l[3], l[4], FALSE)
    BY <1>1 DEF DNS!parseRequest
  <2>2. DNS(from, g)!Parsed(h, c, Key[1], Key[2], FALSE) = req
    BY <1>1 DEF DNS!Parsed
  <2> QED
    BY <1>1, <2>1, <2>2
<1>3. DNS(from, g)!Zone(l) = z
  BY <1>1 DEF DNS!Zone
<1>4. /\ req # None /\ req.cluster # None /\ req.cluster = c /\ req.hostname = h
      /\ req.key = Key /\ req.isAdHoc = FALSE
  <2>1. req \in [hostname : Labels, cluster : Labels, key : {Key}, isAdHoc : {FALSE}]
    BY HeadlessAssumption
  <2>2. c \in Labels
    BY HeadlessAssumption
  <2> QED
    BY <2>1, <2>2, HeadlessAssumption
<1> HIDE DEF req
<1>5. DNS(from, g)!Serve(l, qtype) =
        IF DNS(from, g)!Lookup(qtype, req).rcode = "NOERROR"
        THEN DNS(from, g)!Written(DNS(from, g)!Lookup(qtype, req))
        ELSE DNS(from, g)!nextOrFailure(l, DNS(from, g)!Lookup(qtype, req).rcode)
  BY <1>2, <1>3, <1>4 DEF DNS!Serve
<1>6. DNS(from, g)!PodEndpoints(g.eps, req) = {e \in g.eps : e.cluster = c /\ e.hostname = h}
  BY <1>4 DEF DNS!PodEndpoints, DNS!InCluster
<1>7. DNS(from, g)!Lookup(qtype, req) =
        IF own = {} THEN [rcode |-> "NXDOMAIN", records |-> {}]
        ELSE [rcode |-> "NOERROR", records |-> DNS(from, g)!Records(qtype, own)]
  <2>1. CASE g = None
    <3>1. own = {}
      BY <2>1 DEF EndpointsOf
    <3> QED
      BY <1>4, <2>1, <3>1 DEF DNS!Lookup, DNS!NoItems
  <2>2. CASE g # None
    <3>1. g.type = "Headless" /\ EndpointsOf(g) = g.eps
      BY <2>2 DEF GlobalServices, EndpointsOf
    <3>2. DNS(from, g)!Lookup(qtype, req) = DNS(from, g)!getGlobalRecords(qtype, req, g)
      BY <1>4, <2>2 DEF DNS!Lookup
    <3>3. DNS(from, g)!PodEndpoints(g.eps, req) = own
      BY <1>6, <3>1
    <3> HIDE DEF own
    <3> QED
      BY <1>4, <3>1, <3>2, <3>3 DEF DNS!getGlobalRecords, DNS!NoItems, DNS!Found
  <2> QED
    BY <2>1, <2>2
<1>8. DNS(from, g)!Records(qtype, own) = {a \in UNION {e.addrs : e \in own} : FamilyOf[a] = qtype}
  BY DEF DNS!Records, DNS!generateRecords
<1> HIDE DEF own
<1>9. CASE own = {}
  <2>1. DNS(from, g)!Serve(l, qtype) = [rcode |-> "NXDOMAIN", records |-> {}, by |-> "fabdns"]
    BY <1>5, <1>7, <1>9 DEF DNS!nextOrFailure, DNS!Written
  <2> QED
    BY <1>9, <2>1 DEF l, own
<1>10. CASE own # {}
  <2>1. DNS(from, g)!Serve(l, qtype) =
          [rcode |-> "NOERROR", records |-> DNS(from, g)!Records(qtype, own), by |-> "fabdns"]
    BY <1>5, <1>7, <1>10 DEF DNS!Written
  <2>2. /\ DNS(from, g)!Serve(l, qtype).rcode = "NOERROR"
        /\ DNS(from, g)!Serve(l, qtype).records = DNS(from, g)!Records(qtype, own)
    BY <2>1
  <2> QED
    BY <1>8, <1>10, <2>2 DEF l, own
<1> QED
  BY <1>9, <1>10

\* How the endpoints of a good version stand for pods.
LEMMA VersionPerPod ==
  ASSUME NEW v, GoodVersion(v), NEW c \in Clusters
  PROVE  \E eps \in Seq(SliceEndpoint) :
           /\ PerPod(Entries(v.slices[c]), eps)
           /\ EndpointsIn(v.service, c) = OwnEndpoints(c, eps)
<1>1. v.slices[c] \in SliceLists \union {None} /\ MadeOf(v.service, v.slices[c], c)
  BY DEF GoodVersion
<1>2. CASE v.slices[c] = None
  <2> DEFINE eps == <<>>
  <2>1. eps \in Seq(SliceEndpoint) /\ DOMAIN eps = {}
    OBVIOUS
  <2>2. Entries(v.slices[c]) = {} /\ EndpointsIn(v.service, c) = {}
    BY <1>1, <1>2 DEF Entries, MadeOf
  <2> HIDE DEF eps
  <2>3. OwnEndpoints(c, eps) = {}
    BY <2>1 DEF OwnEndpoints
  <2>4. PerPod({}, eps)
    BY <2>1 DEF PerPod
  <2> QED
    BY <2>1, <2>2, <2>3, <2>4
<1>3. CASE v.slices[c] # None
  <2>1. PICK eps \in GetEndpointsOfHeadlessService(v.slices[c]) :
          EndpointsIn(v.service, c) = OwnEndpoints(c, eps)
    BY <1>1, <1>3 DEF MadeOf
  <2>2. eps \in Seq(SliceEndpoint) /\ PerPod(Entries(v.slices[c]), eps)
    BY <1>1, <1>3, <2>1, ExportedPerPod
  <2> QED
    BY <2>1, <2>2
<1> QED
  BY <1>2, <1>3

\* In every version of the global service, and so from every copy of one, the
\* name of a pod resolves to exactly the addresses of the last export of its
\* cluster that got into the service and was not removed, and to nothing if there
\* is no such pod, though the manager reads from an old cache, and may delete
\* what another cluster has exported since.
THEOREM PodNamesAlwaysResolve == Spec => []PodNamesResolve
<1>1. HeadlessInv => PodNamesResolve
  <2> SUFFICES ASSUME HeadlessInv, NEW n \in DOMAIN versions, NEW from \in Clusters,
                      NEW c \in Clusters, NEW h \in Hostnames, NEW z \in Zones,
                      NEW qtype \in {"A", "AAAA"}
               PROVE  LET pods  == {e \in Entries(versions[n].slices[c]) : e.hostname = h}
                          reply == DNS(from, versions[n].service)!Serve(<<h, c, Key[1], Key[2], SVC, z>>, qtype)
                      IN  /\ reply.rcode = IF pods = {} THEN "NXDOMAIN" ELSE "NOERROR"
                          /\ reply.records = {a \in UNION {Range(e.addrs) : e \in pods} : FamilyOf[a] = qtype}
    BY DEF PodNamesResolve
  <2> DEFINE v == versions[n]
  <2> DEFINE all == Entries(v.slices[c])
  <2> DEFINE pods == {e \in all : e.hostname = h}
  <2> DEFINE own == {e \in EndpointsOf(v.service) : e.cluster = c /\ e.hostname = h}
  <2>v. GoodVersion(v) /\ v.service \in GlobalServices \union {None}
    BY DEF HeadlessInv, GoodVersion
  <2>e. PICK eps \in Seq(SliceEndpoint) :
          PerPod(all, eps) /\ EndpointsIn(v.service, c) = OwnEndpoints(c, eps)
    <3> HIDE DEF v
    <3> QED
      BY <2>v, VersionPerPod
  <2>o. own = {e \in OwnEndpoints(c, eps) : e.hostname = h}
    BY <2>e DEF EndpointsIn
  <2> HIDE DEF v, all, own
  <2>1. /\ \A e \in all : \E i \in DOMAIN eps : eps[i].pod = e.pod
        /\ \A i \in DOMAIN eps :
             /\ \E e \in all : e.pod = eps[i].pod
             /\ \A a : a \in Range(eps[i].addrs) <=> \E e \in all : e.pod = eps[i].pod /\ a \in Range(e.addrs)
             /\ \A e \in all : e.pod = eps[i].pod => e.hostname = eps[i].hostname
    <3>2. /\ \A e \in all : e.pod \in {eps[i].pod : i \in DOMAIN eps}
          /\ \A i \in DOMAIN eps : eps[i].pod \in {e.pod : e \in all}
      BY <2>e DEF PerPod
    <3>3. /\ \A e \in all : \E i \in DOMAIN eps : eps[i].pod = e.pod
          /\ \A i \in DOMAIN eps : \E e \in all : e.pod = eps[i].pod
      BY <3>2
    <3>4. ASSUME NEW i \in DOMAIN eps
          PROVE  /\ \A a : a \in Range(eps[i].addrs) <=> \E e \in all : e.pod = eps[i].pod /\ a \in Range(e.addrs)
                 /\ \A e \in all : e.pod = eps[i].pod => e.hostname = eps[i].hostname
      BY <2>e DEF PerPod
    <3> QED
      BY <3>3, <3>4
  <2>2. \A i \in DOMAIN eps : eps[i] \in SliceEndpoint
    OBVIOUS
  <2>3. ASSUME NEW e \in own
        PROVE  \E i \in DOMAIN eps : eps[i].hostname = h /\ e.addrs = Range(eps[i].addrs)
    <3>1. PICK i \in DOMAIN eps : e = Exported(c, eps[i])
      BY <2>o DEF OwnEndpoints
    <3>2. e.hostname = eps[i].hostname /\ e.addrs = Range(eps[i].addrs)
      BY <2>2, <3>1, ExportedType
    <3> QED
      BY <2>o, <3>2
  <2>4. ASSUME NEW i \in DOMAIN eps, eps[i].hostname = h
        PROVE  \E e \in own : e.addrs = Range(eps[i].addrs)
    <3>1. Exported(c, eps[i]) \in OwnEndpoints(c, eps)
      BY DEF OwnEndpoints
    <3> QED
      BY <2>2, <2>4, <2>o, <3>1, ExportedType
  <2>5. ASSUME NEW e \in pods PROVE \E i \in DOMAIN eps : eps[i].pod = e.pod /\ eps[i].hostname = h
    BY <2>1
  <2>6. ASSUME NEW i \in DOMAIN eps, eps[i].hostname = h, NEW a
        PROVE  a \in Range(eps[i].addrs) <=> \E e \in pods : e.pod = eps[i].pod /\ a \in Range(e.addrs)
    BY <2>1, <2>6
  <2>7. own = {} <=> pods = {}
    <3>1. ASSUME NEW i \in DOMAIN eps, eps[i].hostname = h PROVE pods # {}
      BY <2>1, <3>1
    <3> HIDE DEF own, pods
    <3> QED
      BY <2>3, <2>4, <2>5, <3>1
  <2>8. UNION {e.addrs : e \in own} = UNION {Range(e.addrs) : e \in pods}
    <3> HIDE DEF own, pods
    <3>1. ASSUME NEW e \in own, NEW a \in e.addrs PROVE \E f \in pods : a \in Range(f.addrs)
      BY <2>3, <2>6
    <3>2. ASSUME NEW f \in pods, NEW a \in Range(f.addrs) PROVE \E e \in own : a \in e.addrs
      <4>1. PICK i \in DOMAIN eps : eps[i].pod = f.pod /\ eps[i].hostname = h
        BY <2>5
      <4>2. a \in Range(eps[i].addrs)
        BY <2>6, <4>1
      <4> QED
        BY <2>4, <4>1, <4>2
    <3>3. \A a : (\E e \in own : a \in e.addrs) <=> (\E f \in pods : a \in Range(f.addrs))
      BY <3>1, <3>2
    <3> QED
      BY <3>3, Zenon
  <2>9. LET reply == DNS(from, v.service)!Serve(<<h, c, Key[1], Key[2], SVC, z>>, qtype)
        IN  /\ reply.rcode = IF own = {} THEN "NXDOMAIN" ELSE "NOERROR"
            /\ reply.records = {a \in UNION {e.addrs : e \in own} : FamilyOf[a] = qtype}
    BY <2>v, PodNameServed DEF own
  <2> QED
    BY <2>7, <2>8, <2>9 DEF v, all
<1> QED
  BY <1>1, HeadlessInvariant, PTL

=============================================================================
