SPECIFICATION Spec
CONSTANTS
  c1 = c1
  Uploads = {u1, u2, u3}
  Contents = {c1}
  Content <- OneContent
  PageSize = 1
SYMMETRY Symmetry
INVARIANTS
  TypeOK
  AnswerIsWhole
  WalkSeesAll
CHECK_DEADLOCK FALSE
