SPECIFICATION MapsSpec
CONSTANTS
    s1 = s1
    s2 = s2
    Ints = {0, 1, 2, 3}
    Symbols = {s1, s2}
    hash <- Colliding
    Values = {v1}
    NHash = 2
    Free = free
    Dead = dead
    Names = {"m", "n"}
    Things <- MCThings
    Bindings <- MCBindings
    Exports <- MCExports
    Imports <- MCImports
    Scenes <- MCScenes
INVARIANTS BrentInvariant LibrariesAsReported
PROPERTIES Implements
