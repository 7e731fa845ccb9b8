\* Three threads, each opening the ignore device once, from a cache of two
\* objects (the third open fails with -ENOMEM), while open_file masks and
\* unmasks and groups come and go.
CONSTANTS
  t1 = t1  t2 = t2  t3 = t3  f1 = f1  f2 = f2  f3 = f3  o1 = o1  o2 = o2
  None = None
  Threads <- MC_Threads3
  Files <- MC_Files
  FileOwner <- MC_OwnerOnce
  Objs <- MC_Objs
SPECIFICATION Spec
INVARIANTS
  TypeOK
  MaskScoped
  NoRecursiveEvent
  PrecheckExact
