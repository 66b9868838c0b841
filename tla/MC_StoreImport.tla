--------------------------- MODULE MC_StoreImport ---------------------------
(* A shop of three products and a page of two: a full page and a short one *)
(* at first, two full pages once a product is added.                       *)
EXTENDS StoreImport

CONSTANTS c1, sa, sb, sc, none

MC_Nids == 1..4
MC_SkuOf == <<sa, sb, none, sc>>
MC_Listed == <<1, 2, 3>>

Opt(limit, offset, update, dry) ==
  [limit |-> limit, offset |-> offset, update |-> update, dry |-> dry]

MC_Options == {Opt(0, 0, TRUE, FALSE), Opt(2, 1, TRUE, FALSE), Opt(1, 0, FALSE, FALSE)}

\* The picture of 2 comes with the remote site's ids.
MC_Payload == <<"absent", "remote", "absent", "none">>

MC_Formats == {{"nids"}, {"total"}, {"has_next", "next_offset"}}
=============================================================================
