----------------------------- MODULE MCTaskPool -----------------------------
(* A pool of two with room for two more, and four jobs: enough to queue      *)
(* more jobs than there are workers, to grow, and to shrink below the core.  *)
EXTENDS TaskPool

CONSTANTS j1, j2, j3, j4, a, b, c, d
=============================================================================
