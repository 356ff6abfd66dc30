------------------------------ MODULE MCSession ------------------------------
(* Instances of Session for TLC. *)
EXTENDS Session, TLC

CONSTANTS x1, x2, c1, c2, f1, s1, s2, s3, s4

(* Session ids, connections and subscriber objects are interchangeable. *)
Symm == Permutations(Subs) \cup Permutations(Conns) \cup Permutations(Sids)
==============================================================================
