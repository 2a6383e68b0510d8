SPECIFICATION Spec
CONSTANTS
    manual = manual  faq = faq  other = other  blank = blank
    d1 = d1  d2 = d2  staff = staff  clerk = clerk  customer = customer
    acme = acme  zeta = zeta  slug = slug  slug2 = slug2
    Uploads = {manual, faq, other, blank}
    Deletes = {}
    Reads = {staff, clerk, customer}
    CompanyOf <- MCCompanyOf
    SlugOf <- TwoSlugs
    TitleOf <- MCTitleOf
    Pieces <- OnePiece
    Faq = {faq, other}
    Customers = {customer}
    Miss = Miss
    NoDocument = NoDocument
INVARIANTS
    ReadsStayInside
CHECK_DEADLOCK FALSE
