SPECIFICATION Spec
CONSTANTS
  Requests = {q1, q2}
  Deliveries <- MCDeliveries
  Sites <- MCSites
  RandomIds = {"x1"}
  Words = {"w1", "w2"}
  Blank = ""
  MaxPoints = 2
  MaxEdits = 2
INVARIANTS
  ReleasesHold
  NothingHalf
  RerunsAccepted
SYMMETRY MCSymmetry
