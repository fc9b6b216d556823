----------------------------- MODULE MCCatalog ------------------------------
(* One lot of one product, a seller and an administrator, two workers that    *)
(* may publish the lot at once, and three auction ids: one run that stops     *)
(* and one overlapping publication may each leave an auction behind.          *)
EXTENDS Catalog
=============================================================================
