------------------------------ MODULE MCConnMgr ------------------------------
(***************************************************************************)
(* Instances of ConnMgr: three nodes.  n1 connects to n2 and to n3, and n2 *)
(* connects to n3, so that n1 has two active endpoints, n3 two passive     *)
(* ones, and n2 one of each.                                               *)
(***************************************************************************)
EXTENDS ConnMgr

CONSTANTS n1, n2, n3, a12, a13, a23, p2, p3, q3

MCHome ==
  [e \in Endpoints |-> CASE e \in {a12, a13} -> n1
                         [] e \in {a23, p2} -> n2
                         [] e \in {p3, q3} -> n3]
MCTarget == [e \in Actives |-> IF e = a12 THEN n2 ELSE n3]

=============================================================================
