SPECIFICATION Spec

CONSTANTS
    e1 = e1
    e2 = e2
    e3 = e3
    e4 = e4
    e5 = e5
    list1 = list1
    list2 = list2
    Elem <- ThreeElems
    Lists <- TwoLists
    key <- Keys3
    NULL = NULL

INVARIANTS
    DirectionsAgree

PROPERTIES
    ImplementsListSeq
