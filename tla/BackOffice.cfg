SPECIFICATION Spec
CHECK_DEADLOCK FALSE
SYMMETRY MCSymmetry
CONSTANTS
  NumUsers = 3
  Admins <- MCAdmins
  NumProducts = 1
  ProductOwner <- MCOwner
  Names <- MCNames
  Taxonomy <- MCTaxonomy
  MaxCategories = 4
  MaxReports = 1
  RatingsPage = 2
  Slots = {s1, s2}
  Mixes <- MCMixes
  Faults = TRUE
INVARIANTS TypeOK AuditTrail CategoryTree ResponsesHide ExpansionExact SummaryNotAhead
PROPERTIES SeedCompletes NoLateTargets
