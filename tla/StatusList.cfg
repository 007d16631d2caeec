CONSTANTS
    Name = {r1, r2, r3}
    Phase = {"Created", "Updated"}
SPECIFICATION Spec
INVARIANTS NoTwice
PROPERTIES OthersKept NamesImplemented
