SPECIFICATION Spec
CONSTANTS
    yahoo = yahoo
    Key = {k1}
    Provider = {yahoo}
    SourceOf <- MCSourceOf
    Keep = 1
    KeepCatalogs = 2
    MaxRows = 3
    MaxManifest = 2
INVARIANTS TypeOK EvidenceIsWhole
PROPERTIES PruneIsInvisible CooldownSurvivesPurge
