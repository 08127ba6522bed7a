SPECIFICATION Spec
CONSTANTS
    pages = pages
    ocr = ocr
    page = page
    text = text
    pdf = pdf
    hash = hash
    Extractor = {pages, ocr}
    Kind = {page, text}
    FileVersion = {v1, v2}
    Media = {pdf}
    Variant = {nth}
    Request = {q1, q2}
    Declarable <- MCDeclarable
    Envelope <- MCEnvelope
    MediaType <- MCMediaType
    Content <- MCContent
    MaxRuns = 4
    MaxChanges = 2
    None = None
INVARIANTS
    TypeOK
    NothingIsForgotten
    OneProducer
SYMMETRY MCSymmetry
CHECK_DEADLOCK FALSE
