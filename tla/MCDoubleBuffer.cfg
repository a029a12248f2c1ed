SPECIFICATION BufferSpec
CONSTANTS
    NumFields = 3
    Values = {0, 1}
    Zero = 0
INVARIANTS BufferTypeOK NoTornRead
PROPERTY CellSpec
