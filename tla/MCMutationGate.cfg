SPECIFICATION Spec
CONSTANTS
  Tasks = {t1, t2, t3}
  MaxPermits = 2
  Closer = closer
INVARIANT
  TypeOK
  DrainedIsSettled
PROPERTY
  NoAdmissionWhileClosed
  CloseCompletes
  WaiterIsServed
  ImplementsContract
