SPECIFICATION Spec
SYMMETRY ClientSymmetry
CONSTANTS
  Client = {c1, c2}
  Event <- Words
  Duration = {5}
  SEND = 1
  MaxLate = 1
  Key = {"ctrl", "d", "a"}
  Reach = 1
  Backend = "auto"
  Selected = {}
  Number = {0, 1}
  Control = {6, 15, 21}
  Firm = {4, 5, 12}
  Byte = {a, b}
  Bad = x
  Newline = n
  MaxChunk = 3
  MaxSent = 5
  Message = {m1, m2, m3}
  User = {u1, u2}
  Word = {"screenshot", "a", "jump"}
  allowed_user_ids = {}
  privileged_user_ids = {u1}
  privileged_commands = {"home", "capture"}
  Cooldown = 2
  SendMax = 1
  MaxTime = 3
INVARIANTS
  InputsAreReleased
  
  LinesAreKept
  RelaysAreDue
  
PROPERTIES
  
  PadIsTrue
