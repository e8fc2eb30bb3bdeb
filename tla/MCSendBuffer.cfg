CONSTANTS
  t1 = t1
  t2 = t2
  k1 = k1
  k2 = k2
  k3 = k3
  s1 = s1
  s2 = s2
  s3 = s3
  Threads = {t1, t2}
  Chunks = {k1, k2, k3}
  Slots = {s1, s2, s3}
  Capacity = 2
  Threshold = 2
  MaxSize = 3
  Limits = {0, 1}
SPECIFICATION Spec
SYMMETRY Symmetry
INVARIANT TypeOK
INVARIANT ReservationsDisjoint
INVARIANT WithinOffset
INVARIANT OneOwner
INVARIANT OffsetIsOwned
INVARIANT ChunksAccountedFor
INVARIANT IdleOvershootBounded
CHECK_DEADLOCK FALSE
