--------------------------- MODULE MCNasSession ---------------------------
(* One NFSv3 and one NFSv4 client, of which the first one is expected. *)
EXTENDS NasSession

CONSTANTS pve, box
=============================================================================
