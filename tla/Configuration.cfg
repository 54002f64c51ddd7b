SPECIFICATION ConfigSpec
CONSTANTS
  Bounded <- SomeBounded
  Floor <- SomeFloor
  Default <- SomeDefault
  Numbers <- SomeNumbers
  Capped <- SomeCapped
  Rule <- SomeRule
  One = 2
  Half = 1
  Values <- SomeValues
  MaxOptions = 3
INVARIANTS
  BuiltIsSound
  LastRequestHonoured
PROPERTIES
  ComponentsAgree
