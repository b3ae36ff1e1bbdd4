SPECIFICATION Spec
CONSTANTS
  w1 = w1
  w2 = w2
  a = a
  b = b
  text = text
  image = image
  day = day
  month = month
  siteDay = siteDay
  Workers = {w1, w2}
  Sites = {a, b}
  Kinds = {text}
  CostOf <- Costs
  BudgetIds = {day, month, siteDay}
  FirstBudgets <- ThreeBudgets
  Offers <- Raised
  MaxSpent = 3
  MaxDays = 1
  MaxEdits = 1
  None = None
SYMMETRY Symmetry
INVARIANTS OvershootBounded RefusalAnnounced
