\* Four harts on one lock word: one can hold it while the others are at
\* different points of spinlock_lock or outside.
CONSTANT Proc = {h1, h2, h3, h4}
SPECIFICATION Spec
INVARIANTS
  TypeOK
  MutualExclusion
  WordIsExact
PROPERTY ImplementsMutex
