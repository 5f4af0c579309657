--------------------------- MODULE MCCompositorClient ---------------------------
(* CompositorClient on a folder and the folder in it.                        *)
EXTENDS CompositorClient, TLC

CONSTANTS folder, inner

MCTypeOf   == (folder :> "Folder") @@ (inner :> "Folder")
MCParentOf == (folder :> Null) @@ (inner :> folder)
=============================================================================
