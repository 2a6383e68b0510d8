SPECIFICATION FairSpec
CONSTANTS
    manual = manual  faq = faq  other = other  blank = blank
    d1 = d1  d2 = d2  staff = staff  clerk = clerk  customer = customer
    acme = acme  zeta = zeta  slug = slug  slug2 = slug2
    Uploads = {manual, faq}
    Deletes = {d1, d2}
    Reads = {staff}
    CompanyOf <- MCCompanyOf
    SlugOf <- MCSlugOf
    TitleOf <- MCTitleOf
    Pieces <- MCPieces
    Faq = {faq}
    Customers = {customer}
    Miss = Miss
    NoDocument = NoDocument
INVARIANTS
    FreshReadsForget
    AnsweredUploadIsWhole
    OrphansOnlyFromRace
PROPERTIES
    DeletedIsForgotten
CHECK_DEADLOCK FALSE
