\* One resource and a channel of one event, so that two changes in a row fill it; a list
\* and a page of its own for the resource.  Without a resource everything may stop.
SPECIFICATION FairSpec
CONSTANTS
    a = a
    list = list
    item = item
    Objects = {a}
    Lists = {list}
    Items = {item}
    ItemOf = a
    Buffer = 1
    MaxChanges = 3
    MaxFaults = 1
INVARIANTS
    TypeOK
    

    
CHECK_DEADLOCK FALSE
