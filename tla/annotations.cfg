CONSTANTS
    service = service
    common = common
    types = types
    annotationsProto = annotationsProto
    nowhere = nowhere
    Files <- MCFiles
    ServiceFile = service
    Nowhere = nowhere
    Extensions <- MCExtensions
    Attributes <- MCAttributes
    ImportGraphs <- MCImportGraphs
    Declarations <- MCDeclarations
    Options <- MCOptions
\* a lookup returns
CHECK_DEADLOCK FALSE
SPECIFICATION Spec
INVARIANTS
    FindsWhatIsImported
    OptionsDecide
    AnnotatedIsExplicit
