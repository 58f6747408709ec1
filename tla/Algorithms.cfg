SPECIFICATION Spec
CONSTANT None = None
INVARIANTS PatchLeavesWhatItMeans TerminalShowsThePrompt  HunksLandWhereTheyBelong OutputIsReadExactly 
CHECK_DEADLOCK FALSE
