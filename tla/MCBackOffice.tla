---------------------------- MODULE MCBackOffice ----------------------------
(***************************************************************************)
(* One administrator and two other accounts, the second of which owns the  *)
(* only product; a taxonomy in which one name stands under two parents.    *)
(***************************************************************************)
EXTENDS BackOffice, TLC

MCAdmins == {1}
MCOwner == <<2>>
MCNames == {"Cars", "Other"}
MCTaxonomy == <<[name |-> "Cars", parent |-> NoName], [name |-> "Other", parent |-> "Cars"],
                [name |-> "Other", parent |-> NoName]>>
\* What may interfere with what: people against each other, the log of
\* every admin change, and categories with the seeder.
MCMixes == {
  [requests |-> 3, ops |-> {"createReport", "listReports", "deleteUser"}],
  [requests |-> 3, ops |-> {"createReport", "updateReportStatus", "getMyReports", "deleteUser"}],
  [requests |-> 2, ops |-> {"deleteUser", "listConversations", "getFile"}],
  [requests |-> 3, ops |-> {"rateUser", "getUserRatingSummary"}],
  [requests |-> 3, ops |-> {"addFavorite", "removeFavorite", "listFavorites", "blockUser", "unblockUser"}],
  [requests |-> 2, ops |-> {"createReport", "createWarning", "rateUser", "updateReportStatus", "promoteAdmin",
                            "demoteAdmin", "updateUserStatus", "deleteUser"}],
  [requests |-> 2, ops |-> {"createCategory", "deleteCategory", "seed-prod"}]}
MCSymmetry == Permutations(Slots)
=============================================================================
