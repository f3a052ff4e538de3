CONSTANTS
    WordMod = 1024
    SizeMod = 65536
    Lengths = {0, 3, 6}
    Mallocs = {8, 16}
    Before = {0, 40}
SPECIFICATION Spec
INVARIANTS FoundWhereWritten IntegersAligned FieldsApart
