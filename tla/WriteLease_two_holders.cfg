SPECIFICATION LeaseSpec
CONSTANTS
  p1 = p1  p2 = p2  p3 = p3
  a1 = a1  a2 = a2  b1 = b1  c1 = c1
  NoLease = NoLease
  Proc   <- MCProc
  Lease  <- MCLease
  ProcOf <- MCProcOf
  Overlap = TRUE
INVARIANTS
  MutualExclusion
CHECK_DEADLOCK FALSE
