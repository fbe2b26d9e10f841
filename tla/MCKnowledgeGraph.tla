--------------------------- MODULE MCKnowledgeGraph ---------------------------
(***************************************************************************)
(* Instances of KnowledgeGraph for TLC.  "b" and "B" are two spellings of  *)
(* one name, which the extraction of one file takes for one entity and the *)
(* lookup by name does not.                                                *)
(***************************************************************************)
EXTENDS KnowledgeGraph, TLC

MCNames == {"a", "b", "B"}
MCNorm == [n \in MCNames |-> IF n = "B" THEN "b" ELSE n]

Ent(n, d) == [name |-> n, desc |-> d]
Answer(es, rs, cs) == [ents |-> es, rels |-> rs, claims |-> cs]

(* A short and a longer account of the same entities, a relationship to a   *)
(* name that is not among the entities, a claim about nobody, and the answer *)
(* that is left when every batch failed.                                     *)
MCAnswers ==
    {Answer(<<Ent("a", 1), Ent("b", 0)>>, {<<"a", "B">>}, {"a"}),
     Answer(<<Ent("a", 2), Ent("B", 0), Ent("b", 1)>>, {<<"b", "a">>}, {}),
     Answer(<<Ent("b", 0)>>, {<<"a", "b">>}, {"B"}),
     Answer(<<>>, {}, {})}

Symmetry == Permutations(Files)
=============================================================================
