SPECIFICATION CatalogSpec
CONSTANTS
    Writers = {w1, w2}
    Seeded = seeded
    IdempotencyKeys = {k1, k2}
    SeededKey = k1
    Edits = {{"name"}, {"price"}}
    IndexRelays = {r1}
    IndexBatch = 2
    IndexRetries = 2
    MaxCatalogFaults = 0
PROPERTY OnlySentFieldsChange
CHECK_DEADLOCK FALSE
