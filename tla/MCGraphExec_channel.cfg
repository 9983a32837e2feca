\* What docs/E2E_DEMO.md says of the channel node, in the pipeline it describes.
SPECIFICATION Spec
CONSTANTS
    Graphs <- Seeded
    Limit = 100
CHECK_DEADLOCK FALSE
INVARIANT ChannelSendsLastOutput
