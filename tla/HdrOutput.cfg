CONSTANT Sizes = {1, 2}
SPECIFICATION Spec
INVARIANTS
  FrameMatchesScanout
  PqOnlyInHdrFrames
  GuiIsOneRendering
