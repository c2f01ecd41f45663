SPECIFICATION Spec
CONSTANTS
  FrameShape <- MCFrameShape
  MaxFrames = 3
  MaxPayload = 2
  HeadLen = 2
INVARIANTS TypeOK CutsDoNotMatter OnlyIllegalThrows NothingHeldBack
