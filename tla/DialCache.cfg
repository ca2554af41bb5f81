CONSTANTS
    Exchanges = {e1, e2, e3}
    MaxPool = 2
SPECIFICATION DialFairSpec
PROPERTY StaleAddressesGo
