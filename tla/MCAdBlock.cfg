CONSTANTS
    com = com
    ads = ads
    sub = sub
    site = site
    Domains = {com, ads, sub, site}
    Suffixes <- MCSuffixes
    SingleLabel = {com}
    CoreRules = {ads}
    CoreExempt = {site}
    Bits = {1, 2, 3}
    BitsOf <- MCBitsOf
    Capacity = 2
SPECIFICATION Spec
INVARIANTS
    TypeOK
    CacheIsCurrent
    BloomCoversRules
PROPERTY PolicyImplemented
