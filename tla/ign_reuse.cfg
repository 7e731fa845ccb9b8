\* A thread that holds the ignore device open twice: closing the first
\* file frees the object of the second, which the slab hands to another
\* thread; closing the second reads and removes by that object.
CONSTANTS
  t1 = t1  t2 = t2  t3 = t3  f1 = f1  f2 = f2  f3 = f3  o1 = o1  o2 = o2
  None = None
  Threads <- MC_Threads2
  Files <- MC_Files
  FileOwner <- MC_OwnerTwice
  Objs <- MC_Objs
SPECIFICATION Spec
INVARIANTS
  PrecheckExact
