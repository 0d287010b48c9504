\* Two requests of any kind on one ticket or project, one failure at any
\* point, the ticket deleted at any point, one change made by others.
CONSTANTS
    r1 = r1
    r2 = r2
    ann = ann
    al1 = al1
    al2 = al2
    plain = plain
    toAnn = toAnn
    toAls = toAls
    oldComment = oldComment
    oldFile = oldFile
    Request = {r1, r2}
    Call <- Calls
    MaxFailures = 1
    User = {ann, al1, al2}
    Content = {plain, toAnn, toAls}
    Names <- NamesIn
    Matches <- Matching
    Known <- Knowing
    OldComment = oldComment
    OldContent = toAnn
    OldFile = oldFile
    Developer = {1, 2}
    MaxChanges = 1
SPECIFICATION FairSpec
CHECK_DEADLOCK FALSE
INVARIANTS
    TicketApiTypeOK
    MentionsMatchContent
    EditsHoldTheirComment
    DiskMatchesTable
    ImportReportExact
PROPERTIES
    AssignedWithinDrift
    EveryRequestAnswered
