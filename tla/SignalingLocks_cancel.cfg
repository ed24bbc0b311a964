SPECIFICATION FairSpec
CONSTANT Threads = {p1, p2}
PROPERTY CommentDialogCancels
CHECK_DEADLOCK FALSE
