SPECIFICATION Spec
CONSTANTS
  text = text
  recording = recording
  a = a
  b = b
  u1 = u1
  p1 = p1
  p2 = p2
  Messages = {text, recording}
  Recordings = {recording}
  Spoken <- MCSpoken
  Langs = {"en", "uk"}
  Sessions = {a, b}
  Users = {u1}
  Uploads = {p1, p2}
  NoUpload = NoUpload
  MaxRequests = 2
  MaxFailures = 1
SYMMETRY MCSymmetry
INVARIANT HeardAsAsked
CHECK_DEADLOCK FALSE
INVARIANT FilesAccountedFor
