CONSTANTS
  Names = {"a", " a", "b"}
  Canonical <- MCCanonical
  Raw <- MCRaw
  RawKinds = {"lidar", "radar"}
  Absent = Absent
  IntMin <- MCIntMin
  IntMax = 2
  Sizes = {1, 2}
  Base = "strong"
  Senders = {s1, s2}
  PubTopics = {t1, t2}
  Types = {y1, y2}
  MaxTopics = 1
  Untyped = Untyped
  NoLimit = NoLimit
  Width <- MCWidth
  Trim <- MCTrim
  NoOption = NoOption
  Blank = Blank
  Segments = {"a", "b"}
  Codecs = {"x", "y"}
  Ids = {"front", "rear", "cam", " cam", "dog", " "}
SPECIFICATION Spec
INVARIANTS Coalesced AnsweredInOrder QosResolved PublisherCache ListExact MediaConfigured
CHECK_DEADLOCK FALSE
