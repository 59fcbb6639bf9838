CONSTANTS
  la = la
  lb = lb
  b0 = b0
  b1 = b1
  na = na
  BANK = {b0, b1}
  LINE = {la, lb}
  WO = {na}
  CORE = {c0}
  NONE = NONE
  HOME <- Home
  INDEX <- Index
  CAWT = 2
  NCWT = 1
  WOQ_DEPTH = 2
  NCQ_DEPTH = 1
  SO_MAX = 2
  MAX_SO = 2
SPECIFICATION Spec
INVARIANTS ReadsFollowWrites WritesKeepOrder DataMeetsAddress VbDataComes IdIsOwn
  BfifoRoom SoAnswersInOrder NeverStuck
