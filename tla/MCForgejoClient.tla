--------------------------- MODULE MCForgejoClient ---------------------------
(* ForgejoClient with the fifty tools of this program. *)
EXTENDS ForgejoClient, ToolCatalogue

\* MAX_VERSION_RESPONSE_BYTES < MAX_USER_ < MAX_JSON_ < MAX_FORGEJO_RESPONSE_BYTES
Bounds4 == [version |-> 0, user |-> 1, json |-> 2, response |-> 3]
==============================================================================
