\* Two releases, two revisions apart, two processes, two ingestions at a time, one question at a time.
SPECIFICATION Spec
CONSTANTS
    None = None
    Releases = {1, 3}
    Deaths = {1, 4, 20}
    Contents = {d1, d2}
    Models = {m1, m2}
    Sessions = {s1, s2}
    Questions <- AskedQuestions
    MaxToolSteps = 4
SYMMETRY Symmetry
INVARIANTS ServedSchemaIsWhole AnswersAreEvidence
PROPERTIES FirstEmbeddingStays
CHECK_DEADLOCK FALSE
