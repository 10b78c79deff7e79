SPECIFICATION SpecAccounts
CONSTANTS
  w1 = w1
  w2 = w2
  Workers <- TwoWorkers
  Faulty <- TwoWorkers
  Spellings <- Addresses
  Norm <- Lower
  Valid = {"ann", "Ann", "bob"}
  Passwords = {"p8", "p72", "p73"}
  Length <- Edges
  First72 <- Prefixes
  BootEmail = "Ann"
  BootPassword = "p72"
  MaxUsers = 3
SYMMETRY Symmetric
INVARIANTS
  TokensAreBacked
  AccountAnswersHold
PROPERTY OnlyAdminsPromote
