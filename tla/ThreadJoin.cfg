CONSTANTS
  Main = Main
  NULL = NULL
  Threads = {t1, t2}
  Objects = {o1, o2}
  Args = {a1}
  Values = {v1}
SPECIFICATION Spec
CHECK_DEADLOCK FALSE
PROPERTY JoinGivesResult
