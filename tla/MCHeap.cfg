SPECIFICATION Spec
CONSTANTS
    Requests = {1, 3, 5, 10}
    MEM_ALIGNMENT = 2
    SIZEOF_STRUCT_MEM = 2
    MIN_SIZE_ALIGNED = 2
    MEM_SIZE_ALIGNED = 28
    SizeWrap = 64
INVARIANTS TypeOK Consistent LiveFits NothingOverlooked
PROPERTIES AllocatorSpec
