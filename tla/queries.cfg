SPECIFICATION Spec
CONSTANTS
    rescore = rescore
    mutation = mutation
    None = None
    r1 = r1
    r2 = r2
    Writers = {rescore, mutation}
    Rescores = {rescore}
    Readers = {r1, r2}
    MaxFaults = 0
SYMMETRY ReaderSymmetry
INVARIANT OwnChangesShown
INVARIANT NoLostInvalidation
INVARIANT FragmentStaleOnlyByLateStore
CHECK_DEADLOCK FALSE
