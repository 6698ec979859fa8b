SPECIFICATION Spec
CONSTANTS
  Orders <- MCOrders
  Reports <- MCReports
  Stamps <- MCStamps
  Counts <- MCCounts
  Bursts <- MCBursts
INVARIANTS TcIsUnderstood OnlyOrdersAreTaken DamageIsSeen TmIsUnderstood AnswerNamesItsRequest
