SPECIFICATION Spec
CONSTANTS
  MAX_LINE_LENGTH = 8
  MAX_WORD_LENGTH = 1
INVARIANT AcceptedIsGrammatical
INVARIANT UsualLineAccepted
INVARIANT FaithfulPipeline
INVARIANT FreeReleasesAll
INVARIANT ArgsStayInside
