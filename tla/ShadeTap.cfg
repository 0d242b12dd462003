CONSTANTS
  NTaps = 2
  Pages = {p1, p2}
  MaxOpen = 1
  MaxTasks = 2
SYMMETRY Symmetry
CONSTRAINT FewTasks
SPECIFICATION Spec
INVARIANTS TypeOK Conservation OncePerPage AckedNotWritten
PROPERTY ImplementsCourier
CHECK_DEADLOCK FALSE
