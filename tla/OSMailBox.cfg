\* Three threads, each of which sends and receives.
CONSTANTS
  Mails = {m1, m2}
  NoMail = NoMail
  Threads = {t1, t2, t3}
  Semaphores = {"BoxFree", "BoxDataValid"}
SPECIFICATION Spec
INVARIANTS OneUser
PROPERTIES ImplementsBox
\* Every thread may be waiting for a box that the others do not fill.
CHECK_DEADLOCK FALSE
