\* One id over two gateway lifetimes and two handoffs at a time.
SPECIFICATION FairSpec
CONSTANTS
  a = a
  exec = exec
  Id = {a}
  Kind = {exec}
  MaxEpoch = 2
  MaxRetain = 2
INVARIANTS TypeOK WaitersGuarded AllowSound
PROPERTIES HandoffKeepsBinding ImplementsContract WaitersReleased
