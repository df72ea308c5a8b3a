--------------------------- MODULE MCObjectLifecycle ---------------------------
(* Two snapshots of an unchanged workspace, whose archives are byte for byte *)
(* the uploaded source archive, so that three objects share a location; the  *)
(* first one's manifest has a location of its own.                           *)
EXTENDS ObjectLifecycle

MCObjectsOf == [p |-> {"archive_p", "manifest_p"}, q |-> {"archive_q"}]
MCLocation == [archive_p |-> "shared", archive_q |-> "shared",
               source |-> "shared", manifest_p |-> "own"]
================================================================================
