SPECIFICATION Spec
CONSTANTS
    c0 = c0 c1 = c1 c2 = c2 s = s p = p q = q r = r u = u v = v x = x
    Tx <- MCTx
    Inputs <- MCInputs
    Outputs <- MCOutputs
    Generated = {c0,c1,c2,s}
    NonStandard = {r}
    Invalid = {v}
    Peer = {n1,n2}
    Large = {x}
    MaxOrphanTx = 2
    Cheap = {p}
    Block <- MCBlock
    Maturity = 2
    MaxHeight = 4
INVARIANTS OrphanIndexIsExact InputsMature InputsAvailable
PROPERTIES RemovalIsNeeded OrphansAreTried
