--------------------------- MODULE MCAsyncInjection ----------------------------
(* Values of the constants for the model checker. *)
EXTENDS AsyncInjection

CONSTANTS i1, t1

MCInjections == {i1}
MCPlainTasks == {t1}
MCTasks == MCPlainTasks \cup (MCInjections \X (1..3))
===============================================================================
