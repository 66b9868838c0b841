SPECIFICATION Spec
CONSTANTS
  a = a
  d = d
  l1 = l1
  Details = {a}
  Deliveries = {d}
  Admins = {a}
  Editors = {d}
  Lines = {l1}
  InitialStatus = "en_livraison"
  InitialQuantity <- MC_Quantity
  Slots = 2
  MaxCalls = 3
INVARIANTS ReadsOwnWrites AsksNoMoreThanShown FlagsHeld
PROPERTIES WorkflowFollowed CancelledStaysHere
CHECK_DEADLOCK FALSE
