\* Every stock of up to 80 units, 60 sold in the week and 8 days of lead time.
CONSTANTS
    NoCover = NoCover
    MaxOnHand = 80
    MaxSold = 60
    MaxLead = 8
SPECIFICATION Spec
CHECK_DEADLOCK FALSE
INVARIANTS
    NullMeansNoSales
    RiskIsClose
