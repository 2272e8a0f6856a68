\* Two folders with one of two rules each; two packs that overlap a third release.
SPECIFICATION Spec
CONSTANTS
  Folder = {1, 2}
  Rule = {u, v}
  NoRule = NoRule
  Absent = Absent
  Invalid = Invalid
  MaxEdits = 3
  Offer = {1, 2, 3}
  Holding <- Packs
  Episodes = {1, 2, 3}
  Confident <- Trusts
  MaxEvents = 2
PROPERTIES
  RulesKept
  RulesSettle
  ReviewsKept
CHECK_DEADLOCK FALSE
