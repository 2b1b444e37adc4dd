CONSTANTS
    Modulus = 1024
    Tick = 10
    MinPrice = 10
    StartPrice = 150
    MaxOffset = 30
    WidePrices <- WideModel
    Lots = {1, 2}
    Fractions = {1, 2, 3}
    MaxId = 2
    MaxLast = 300
SPECIFICATION GenSpec
INVARIANTS
    GenTypeOK
PROPERTY StaysClose
