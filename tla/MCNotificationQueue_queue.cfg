SPECIFICATION Spec
CONSTANTS
  r1 = r1
  r2 = r2
  k1 = k1
  Producers <- Readers
  Keys = {k1}
  Capacity = 2
  Classes = {"must", "coalesce", "drop"}
  MaxItems = 4
CHECK_DEADLOCK FALSE
INVARIANTS MustDeliverKept CoalescedOnce NoLostSignal
PROPERTIES Drains
