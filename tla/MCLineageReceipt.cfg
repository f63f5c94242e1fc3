SPECIFICATION Spec
CONSTANTS
    MaxForeign = 0
    MaxOwn = 1
    MaxTries = 2
PROPERTY ReceiptHonoured
