SPECIFICATION SoundSpec
CONSTANTS
  mic = mic
  wake = wake
  None = None
  Consumers = {mic, wake}
  HandleOf <- DualHandles
  StreamRates = {16000, 22050}
  Native = 16000
  MaxGainCalls = 0
  Upsets = {}
  MaxKinds = 0
  Depth = 4
  MaxClips = 1
INVARIANTS MutedIsQuiet
