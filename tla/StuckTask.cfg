\* two scanners, the last unit of each line
SPECIFICATION ScanSpec
CONSTANTS
    l1 = l1
    l2 = l2
    bread = bread
    milk = milk
    s1 = s1
    s2 = s2
    Lines = {l1, l2}
    Skus = {bread, milk}
    Sku <- TwoSkus
    Required <- OneEach
    Scans = {s1, s2}
    Scanned <- OneOfEach
    Scanners = 2
    NotSet = NotSet
CHECK_DEADLOCK FALSE
INVARIANTS
    AutoCompletes
