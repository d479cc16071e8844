------------------------ MODULE MC_OutboxDispatcher ------------------------
(* Model-checking instance of OutboxDispatcher: the constants the .cfg    *)
(* files bind, given as definitions.                                      *)
EXTENDS OutboxDispatcher

CONSTANTS r1, r2, r3, w1, w2

MCRows == {r1, r2, r3}
MCOneWorker == {w1}
=============================================================================
