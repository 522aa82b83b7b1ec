CONSTANT MaxData = 5
SPECIFICATION Spec
INVARIANTS TypeOK ChildrenAgree SearchFindsInserted TreeBlamesLowestFault
PROPERTY WalksDown
CHECK_DEADLOCK FALSE
