SPECIFICATION SoundSpec
CONSTANTS
  mic = mic
  wake = wake
  None = None
  Consumers = {mic, wake}
  HandleOf <- DualHandles
  StreamRates = {16000, 22050}
  Native = 16000
  MaxGainCalls = 1
  Upsets = {"failed", "late", "rude", "gain"}
  MaxKinds = 1
  Depth = 4
  MaxClips = 6
INVARIANTS MicComesBack Inv ClipInv
PROPERTIES NoCloseUnderRead CodecChangesHands 
