\* Replies of up to three items through a buffer they may not fit in.
CONSTANTS
  Tags = {1, 3, 4, 5}
  Source = 9
  Strings <- SomeStrings
  Numbers = {0, 2}
  LenMod = 4
  MaxItems = 3
  BufSize = 11
SPECIFICATION Spec
INVARIANTS ParsedIsSent AnswerIsSent
