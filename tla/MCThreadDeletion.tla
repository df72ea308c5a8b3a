--------------------------- MODULE MCThreadDeletion ---------------------------
(* Instances of ThreadDeletion: a hosted root and its hosted child.         *)
EXTENDS ThreadDeletion

MCParent == <<0, 1>>
===============================================================================
