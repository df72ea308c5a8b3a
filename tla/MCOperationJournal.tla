------------------------- MODULE MCOperationJournal -------------------------
EXTENDS OperationJournal, TLC

CONSTANTS h1, h2, h3, w1

(* Every handler runs under one configured worker ID: only the generation   *)
(* tells a superseded owner from its successor.                             *)
MCHandlers == {h1, h2, h3}
MCWorkers  == {w1}
MCWorkerOf == [h \in MCHandlers |-> w1]
=============================================================================
