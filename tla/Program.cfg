CONSTANTS
    r1 = r1
    r2 = r2
    Regs = {r1, r2}
    Runes = {97, 233}
    Local = 4
    MaxLen = 3
    MaxLiteral = 1
    v1 = v1
    t1 = t1
    t2 = t2
    Vms = {v1}
    Threads = {t1, t2}
    VmOf <- MCVmOf
    Paths = {"a.dis", "b.dis"}
    Builtin = "$Sys"
    MaxModules = 4
    m1 = m1
    m2 = m2
    e1 = e1
    e2 = e2
    PageSize = 7
    Header = 1
    Sizes = {2, 7, 8}
    ModuleRefs = {m1, m2}
    BuiltinRef = BuiltinRef
    Entry = m1
    PCs = {1, 2}
    Handlers <- MCHandlers
    Names = {e1, e2}
    AnyName = AnyName
    EmptyName = EmptyName
    NoPc = 0
    MaxDepth = 4
    None = None
SYMMETRY RegSymmetry
SPECIFICATION ProgramSpec
INVARIANTS FramesSound StringsSound Utf8Exact ArithmeticExact
PROPERTIES LoaderSound ValueSemantics TokensExact
CHECK_DEADLOCK FALSE
