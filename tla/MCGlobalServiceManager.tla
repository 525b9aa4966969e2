----------------------- MODULE MCGlobalServiceManager -----------------------
(***************************************************************************)
(* Instances of GlobalServiceManager for TLC.                              *)
(***************************************************************************)
EXTENDS GlobalServiceManager

CONSTANTS c1, c2, k1, k2, a1, a2, d1, d2, ns1, ns2, p1, p2

\* Differently defined services of one name, one without any endpoint.
MCExports == {[def |-> d1, addrs |-> {a1}], [def |-> d2, addrs |-> {}]}

\* The same definition everywhere.
MCSameDef == {[def |-> d1, addrs |-> {a1}], [def |-> d1, addrs |-> {a2}],
              [def |-> d1, addrs |-> {a1, a2}]}

MCNamespaceOf == [k \in Keys |-> IF k = k1 THEN ns1 ELSE ns2]
=============================================================================
