CONSTANTS
  Main = Main
  NULL = NULL
  Threads = {t1, t2}
  Objects = {o1, o2}
  Args = {a1, a2}
  Values = {v1}
SPECIFICATION Spec
SYMMETRY Symmetry
CHECK_DEADLOCK FALSE
INVARIANTS IInv RunsAsCreated NothingKept
PROPERTY AnswersTrue
