\* All texts of up to seven characters, all markdown of up to five tokens.
SPECIFICATION Spec
CONSTANTS
    None = None
    Nothing = Nothing
    MaxText = 7
    MaxTokens = 5
    ChunkJobs <- MCChunkJobs
    MarkdownJobs <- MCMarkdownJobs
    EnvelopeJobs <- MCEnvelopeJobs
    AudioJobs <- MCAudioJobs
    VoiceJobs <- MCVoiceJobs
INVARIANTS
    ChunksFit
    LettersKept
    WholeWords
    StylesCoverContent
    CodeStaysLiteral
    MentionsRendered
    MentionHeard
    AudioWithinCap
    FileIsWhole
\* A result is the end of a behaviour.
CHECK_DEADLOCK FALSE
