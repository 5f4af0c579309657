----------------------------- MODULE MCConnection -----------------------------
(* Connection with one own and one foreign object.  A subscription asks for  *)
(* the foreign object's changes or for everything about the own object.      *)
EXTENDS Connection

CONSTANTS mine, other

MCRequests == {{Changed(other)}, {Made(mine), Changed(mine), Gone(mine)}}
=============================================================================
