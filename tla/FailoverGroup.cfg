SPECIFICATION FailoverSpec
CONSTANTS
    n1 = n1
    n2 = n2
    Nodes = {n1, n2}
    d1 = d1
    Domains = {d1}
    None = None
    Orders <- TwoOrders
    Debounce = 2
    MaxChanges = 3
PROPERTIES
    Debounced
    Settles
    RecordsFollow
