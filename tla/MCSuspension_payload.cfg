\* As MCSuspension_safety, for one property.
CONSTANTS
  Names = {"paid", "shipped"}
  MaxAttempts = 2
  ClaimLimit = 3
  MaxDeliveries = 2
  MaxWaits = 2
SPECIFICATION Spec
INVARIANT DeliveredPayloadIsReturned
CHECK_DEADLOCK FALSE
