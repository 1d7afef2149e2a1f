----------------------------- MODULE MCCatalog -----------------------------
(* Instances of Catalog for TLC. *)
EXTENDS Catalog, TLC

CONSTANTS u1, u2, s1, s2

TwoUsers == {u1, u2}
TwoSlots == {s1, s2}
\* No test of the catalog reads a product's status.
OneStatus == {"available"}

\* Two rows of the taxonomy, with the subcategory they share.
TwoCategories ==
  [electronics |-> {"all", "cameras", "other"}, services |-> {"all", "homeServices", "other"}]

Body(c, sub, has, imgs) == [category |-> c, sub |-> sub, hasImages |-> has, images |-> imgs]

MCCreateDtos ==
  {Body("electronics", Keep, FALSE, <<>>), Body("services", "cameras", FALSE, <<>>),
   Body("services", Keep, TRUE, <<1>>)}

\* Half pairs, the one with images, the other without.
MCUpdateDtos ==
  {Body("services", Keep, TRUE, <<1>>), Body(Keep, "cameras", TRUE, <<>>)}

Symmetry == Permutations(TwoUsers) \cup Permutations(TwoSlots)
=============================================================================
