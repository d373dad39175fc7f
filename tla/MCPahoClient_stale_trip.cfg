SPECIFICATION Spec
CONSTANTS
  p1 = p1
  p2 = p2
  p3 = p3
  Publishers = {p1, p2, p3}
  MaxFailures = 3
  MaxAttempts = 2
PROPERTY
  HealthyNotTripped
SYMMETRY PublisherSymmetry
CHECK_DEADLOCK FALSE
