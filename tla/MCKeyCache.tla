----------------------------- MODULE MCKeyCache -----------------------------
(* The first admin's key and one more, which may be created with tidy rules  *)
(* or with untidy ones, renamed and deleted; three requests at a time.       *)
EXTENDS KeyCache, TLC

CONSTANTS t1, t2, t3, admin, client, n1, n2, llama

Rule(model, padded) == [model |-> model, padded |-> padded]
MCRuleLists == {{Rule(llama, FALSE)}, {Rule(llama, TRUE), Rule(None, FALSE)}}

Symmetry == Permutations(Threads) \cup Permutations(Names)
=============================================================================
