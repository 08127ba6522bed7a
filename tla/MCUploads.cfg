SPECIFICATION Spec
CONSTANTS
  Session = {u1, u2}
  Request = {r1, r2}
  Length = 2
  Original = Original
  Edited = Edited
  Nobody = Nobody
  NoSession = NoSession
SYMMETRY Interchangeable
INVARIANTS TypeOK PublishedIsWhole AcknowledgedIsDurable CompletedIsRegistered
PROPERTIES OverwrittenIsKept
