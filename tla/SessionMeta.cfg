SPECIFICATION Spec
CONSTANTS
  s1 = s1  t1 = t1  t2 = t2  r1 = r1
  m1 = m1  m2 = m2  d1 = d1
  Sessions = {s1}
  Turns = {t1, t2}
  Restores = {r1}
  Dirs = {d1}
  Prompt <- MCPrompt
  Offers <- MCOffers
  DefaultModel = m1
  Price <- MCPrice
  Caps = {0, 1}
  Uncapped = 0
  NoTitle = NoTitle  NewTitle = NewTitle  NoTime = NoTime
  NoMeta = NoMeta  Torn = Torn  NoOne = NoOne
  MaxReplies <- MCReplies
  MaxChanges = 1
  MaxCrashes = 1
CHECK_DEADLOCK FALSE
INVARIANTS SavedStaysListed TitleKept SavedRepliesPaid
PROPERTY MetaIsRecord
