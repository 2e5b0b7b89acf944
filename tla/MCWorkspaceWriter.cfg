SPECIFICATION Spec
CONSTANTS
    w1 = w1
    w2 = w2
    w3 = w3
    Window <- MCWindow
    WriterKey = WriterKey
    Nobody = Nobody
SYMMETRY Symmetry
INVARIANTS
    TypeOK
    ValidWriterHoldsFence
PROPERTIES
    ImplementsStateWriter
    CatalogWritesInOrder
CHECK_DEADLOCK FALSE
