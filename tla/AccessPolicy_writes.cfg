CONSTANTS
    Handlers = {h1, h2}
    AttributeIds = {1, 2, 3, 4}
    TemplateIds = {1, 2}
    PolicyIds = {1, 2}
    AttributeInputs <- SomeInputs
    DocumentInputs <- SomeDocuments
    Nodes <- SomeNodes
    TenantAttributes <- Tenant
    TenantValues <- TenantPairs
    DemoAttributes <- Demo
    DemoInput <- DemoTemplate
    NumericValues = {"3"}
    AttributeCodes <- Codes
    Text <- SomeTexts
    MaxChanges = 4
SPECIFICATION PolicySpec
INVARIANTS
    PolicyTypeOK
    PlainExpressionsTell
PROPERTIES
    DeletedReturnsOnlyByOverlap
    WrittenTreesAreOpen
CHECK_DEADLOCK FALSE
