------------------------------ MODULE MCICache -------------------------------
(* A small cluster cache.  Every line of memory holds other words, so that *)
(* a stale tag, a stale word and an answer to the wrong core are visible.  *)
EXTENDS ICache

MCWords == LineAddr \X Instrs
MCMem == [x \in LineAddr |-> [i \in Instrs |-> <<x, i>>]]
==============================================================================
