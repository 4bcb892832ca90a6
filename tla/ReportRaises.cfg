SPECIFICATION Spec
CONSTANTS
  r1 = r1
  r2 = r2
  r3 = r3
  b1 = b1
  Listings = {r1, r2, r3, b1}
  Cards = {{}, {r3}}
  NoFigure = {r2}
  Sites <- MCSites
  Maps <- MCMaps
  Answers <- MCAnswers
  Budgets <- MCBudgets
  MaxClauses = 2
  MaxSearches = 2
INVARIANT SiteNeverRaises
