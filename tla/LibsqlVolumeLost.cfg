SPECIFICATION Spec
CONSTANTS
  Threshold = 3
  Desired = 2
  MaxWrites = 1
  Budget = 3
  Events = {"kill"}
PROPERTIES
  PromotionKeepsData
