SPECIFICATION FairMapsSpec
CONSTANTS
    s1 = s1
    s2 = s2
    Ints = {1, 2}
    Symbols = {s1, s2}
    hash <- Colliding
    Values = {v1}
    NHash = 1
    Free = free
    Dead = dead
    Names = {"m", "n"}
    Things <- MCThings
    Bindings <- MCBindings
    Exports <- MCExports
    Imports <- MCImports
    Scenes <- TableScene
PROPERTIES Returns
