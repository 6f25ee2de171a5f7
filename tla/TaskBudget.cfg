CONSTANTS
  Resources <- MCResources
  Limit <- MCLimit
  Charges <- MCCharges
  Threads = {t1, t2}
  Rows = {w1, w2, w3}
SYMMETRY ThreadSymmetry
SPECIFICATION Spec
INVARIANTS TypeOK SpendingIsBounded SpendingIsRecorded
PROPERTIES DenialIsFinal
CHECK_DEADLOCK FALSE
