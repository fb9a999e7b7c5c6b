\* Six engines: batched prefill, reservation with groups and drafts, the
\* prefix cache, and preemption without and with groups.
SPECIFICATION Spec
CONSTANTS
  r1 = r1
  r2 = r2
  r3 = r3
  Requests = {r1, r2, r3}
  Engines <- Small
  SamePrompts = TRUE
INVARIANTS NeverDies TablesExact WaitingHoldNothing DecodeAtOwnPosition
PROPERTIES Completion
CHECK_DEADLOCK FALSE
