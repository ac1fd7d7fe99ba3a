\* A recovery under another name by NDMP3
SPECIFICATION Spec
CONSTANTS
    Versions = {3}
INVARIANTS
    NamesArrive
