\* Every sequence of operations on two containers of each type.
SPECIFICATION OptionalSpec
CONSTANTS
  s1 = s1
  s2 = s2
  w1 = w1
  w2 = w2
  v1 = v1
  v2 = v2
  Strong <- MCStrong
  Weak <- MCWeak
  Value <- MCValue
  Junk = Junk
  Nobody = Nobody
INVARIANTS
  ReadsWhatWasStored
PROPERTIES
  WriteOnce
