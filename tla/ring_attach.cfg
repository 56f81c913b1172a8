CONSTANTS
    DataSize = 20
    HeaderSize = 4
    Alignment = 2
    WordSize = 64
    Ids = {1, 2}
    Sizes = {0, 1, 3, 6, 17}
    Builds = {TRUE}
    Orderly = FALSE
SPECIFICATION Spec
PROPERTIES
    PacketsOutliveAttach
