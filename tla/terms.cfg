SPECIFICATION Spec
CONSTANTS
  Users = {u1}
  Anonymous = Anonymous
  Threads = {t1, t2}
  NoRow = NoRow
  NoRequest = NoRequest
  NoThread = NoThread
  Duration = 1
  Margin = 1
  MaxTime = 2
SYMMETRY Sym
INVARIANTS TermsTypeOK StoredAccessAgrees
PROPERTY ImplementsRegister
