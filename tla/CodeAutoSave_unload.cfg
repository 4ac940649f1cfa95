SPECIFICATION Spec
CONSTANTS
  s1 = s1
  s2 = s2
  a = a
  Saves <- TwoSaves
  Written <- OneText
  Starter = Starter
  Blank = Blank
  Foreign = Foreign
  None = None
  MaxRetries = 2
PROPERTIES NeverBlanked
