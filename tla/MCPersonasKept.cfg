SPECIFICATION Spec
CONSTANTS
  shared = shared
  own = own
  u1 = u1
  l1 = l1
  l2 = l2
  everybody = everybody
  Personas = {shared, own}
  Owner <- MCOwner
  Users = {u1}
  Everybody = everybody
  guest = guest
  klat = klat
  Accounts = {u1, guest, klat}
  Guests = {guest}
  Admins = {klat}
  Observer = klat
  Llms = {l1, l2}
  MaxEdits = 3
  MaxAsks = 2
  MaxFailures = 1
SYMMETRY MCSymmetry
INVARIANT AnswerComplete
CHECK_DEADLOCK FALSE
