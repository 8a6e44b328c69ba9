SPECIFICATION Spec
CONSTANTS
 core = core
 vendor = vendor
 m1 = m1
 m2 = m2
 short = short
 long = long
 Threads = {t1, t2}
 Chains <- MCChains
 Instances = {i1}
 Null = Null
 Names <- MCNames
 MetaExtensions <- MCMeta
 Offered <- MCOffered
 GlobalOnly = TRUE
 Capacities = {0, 3, 5}
 FirstHandle = 1
 MaxHandles = 2
SYMMETRY MCSymmetry
INVARIANT NoCallThroughNull
