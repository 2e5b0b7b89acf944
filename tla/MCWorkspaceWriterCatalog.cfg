SPECIFICATION Spec
CONSTANTS
    w1 = w1
    w2 = w2
    w3 = w3
    Window <- MCWindow
    WriterKey = WriterKey
    Nobody = Nobody
SYMMETRY Symmetry
CHECK_DEADLOCK FALSE
PROPERTY CatalogFenceAdvances
