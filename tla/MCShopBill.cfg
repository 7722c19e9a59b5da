SPECIFICATION ShopFairSpec
CONSTANTS
  water = water
  juice = juice
  Types = {water, juice}
  Water = water
  Ids = {1, 2, 3}
  BILLSZ = 2
  MaxQuan = 2
  Purse = 2
  Shelf = {1}
  Pack = {2}
INVARIANTS BillMatches BillIsWhatIsOwed
PROPERTIES PaidIsKept PaymentEnds
CHECK_DEADLOCK FALSE
