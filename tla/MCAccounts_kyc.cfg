SPECIFICATION AccountsSpec
CONSTANTS
    Submissions = {s1, s2, s3}
    Posts = {r1, r2, r3}
    Admins = {a1, a2}
    NoSubmission = NoSubmission
    Names = {n1, n2}
    Edits = {e1, e2}
    Sends = {p1}
    NoName = NoName
SYMMETRY Symmetry
INVARIANTS
    AccountsTypeOK
    PendingIsReviewable
    BackedByASubmission
    VerifiedSender
    NameFixed
PROPERTIES
    OnlyAReviewDecides
