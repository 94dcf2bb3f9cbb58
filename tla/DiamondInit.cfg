CONSTANTS
    MaxLen = 5
    Characters = {"Diamond", "-", ".", "1", "2"}
    Digits = {"0", "1", "2", "3", "9"}
    Products = {0, 1, 2}
    Bytes = {0, 4, 16, 17}
    LongSize = 512
    Identifiers <- MCIdentifiers
    SystemRevs <- MCSystemRevs
SPECIFICATION BoardSpec
INVARIANTS ParseAgrees ChosenAsPromised BackplateAgrees
CHECK_DEADLOCK FALSE
