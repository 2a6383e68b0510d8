---------------------------- MODULE MCRagKnowledge ----------------------------
\* One slug of one company: an internal document of two chunks and an FAQ that
\* takes the slug again, two deletes, reads of two employees and of a customer.
\* Another company has an FAQ of the same slug; one more upload has no text.
EXTENDS RagKnowledge, TLC

CONSTANTS manual, faq, other, blank, d1, d2, staff, clerk, customer,
          acme, zeta, slug, slug2

MCCompanyOf == [a \in Actors |-> IF a = other THEN zeta ELSE acme]

MCSlugOf == [a \in Uploads \cup Deletes |-> slug]

MCTitleOf == [u \in Uploads |-> u]

MCPieces == [u \in Uploads |-> IF u = manual THEN 2 ELSE 1]

\* For the audiences: two slugs.
TwoSlugs == [a \in Uploads \cup Deletes |-> IF a = faq THEN slug2 ELSE slug]

\* Documents of one chunk and one upload without text.
OnePiece == [u \in Uploads |-> IF u = blank THEN 0 ELSE 1]
=============================================================================
