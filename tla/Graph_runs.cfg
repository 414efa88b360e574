CONSTANTS
    TaskIds = {t1, t2}
    MaxTasks = 2
    LlmBackends = {"ollama", "echo"}
    McpModes = {TRUE, FALSE}
    FinalVerification = TRUE
    MaxModelCalls = 9
    MaxToolCalls = 1
    MaxVerifierRounds = 2
    MaxResearchRounds = 1
    MaxReplans = 1
    MaxFinalRevisions = 1
    MaxResumes = 1
SPECIFICATION GraphSpec
SYMMETRY Symmetry
CHECK_DEADLOCK FALSE
INVARIANT ResultsFollowPlan
INVARIANT OnlyVerifiedWorkCounts
INVARIANT StoppingIsFinal
INVARIANT AnswerIsVerified
INVARIANT EvidenceFirst
INVARIANT WorkIsBounded
PROPERTY GraphEnds
