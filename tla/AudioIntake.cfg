\* One session with room for two frames, the shipped limits.
SPECIFICATION Spec
CONSTANTS
  SessionIds = {s1}
  MinSampleRate = 8000
  MaxSampleRate = 192000
  MaxChannels = 2
  MaxDuration = 1000
  MaxDepthMs = 500
  MaxFrames = 2
  Window = 2
  NoSequence = NoSequence
  Rates = {8000, 11025, 192000}
  ChannelCounts = {1, 2}
  Durations = {1, 480, 1000}
  Messages <- MCMessages
INVARIANTS SoundExactly NoEscape BytesFollowDepth
