SPECIFICATION Spec
CONSTANTS
  Parts = {"fanout", "superframes", "wires", "codes"}
  None = None
  A = A
  B = B
  c1 = c1
  Watched = {"dextra", "dplus", "dcs", "mmdvm", "ysf", "m17", "p25", "nxdn", "urf"}
  Clients = {c1}
  Modules = {A, B}
  Transcoded = {B}
  Prompt = {B}
  Period = 3
  MaxTalks = 2
  MaxFrames = 2
  MaxQueue = 1
  Sources = {"dstar", "dmr", "ysf", "nxdn", "p25", "m17"}
  Frames = 9
  Talks = 2
  MaxLost = 2
  Links = {"dextra", "dplus", "dcs", "mmdvm", "ysf", "m17", "p25", "nxdn", "urf"}
  Kinds = {"golay23", "golay24", "golay20", "qr16", "hamming15113_1", "hamming15113_2",
    "hamming1393", "hamming1063", "hamming16114", "hamming17123", "product", "convolution",
    "fich", "ccitt162", "ccitt161", "crc8", "five", "sum",
    "rs129", "sacch", "nxdn", "ysf_voice", "ysf_header1", "ysf_header2",
    "dmr_sync", "dmr_emb", "dmr_header", "dmr_last"}
  Samples <- MCSamples
CHECK_DEADLOCK FALSE
INVARIANTS
  WholeGroups
  NoEcho
  EndsHeard
  HeardInAllModes
  DatagramsUnderstood
  ErrorsRepaired
PROPERTIES
  HeardInOrder
