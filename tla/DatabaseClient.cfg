SPECIFICATION DbSpec
CONSTANTS
  MaxStatements = 3
  Statements <- Catalogue
INVARIANTS
  PrimaryErrorKept
  StoredAsTold
  
