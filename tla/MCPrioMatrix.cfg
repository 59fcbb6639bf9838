CONSTANT NUM = 4
SPECIFICATION Spec
INVARIANT OneHot
PROPERTY NoDoubleBypass
PROPERTY EventuallySelected
CHECK_DEADLOCK TRUE
