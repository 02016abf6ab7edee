SPECIFICATION LayoutSpec
CONSTANTS
  h1 = h1
  h2 = h2
  h3 = h3
  k1 = k1
  n1 = n1
  Handlers = {h1, h2, h3}
  Chats = {k1, n1}
  NewChats = {n1}
  PageLimit = 1
SYMMETRY MCSymmetry
INVARIANT LayoutTypeOK
INVARIANT LayoutAgrees
