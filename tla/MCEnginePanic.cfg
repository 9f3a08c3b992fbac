SPECIFICATION EngineSpec
CONSTANTS
  Vendor = {"Zoom", "zoom"}
  Key <- MCKey
  Method = {"TXT", "MX"}
  Fact = {"token", "mail"}
  Category = {"Meetings"}
  NoCategory = "none"
  Label = {"txt-zoom", "mx-zoom"}
  Reports <- MCReports
  Detector = {"dns", "spf"}
  Worker = {w1, w2}
  Owner <- MCOwner
  Complaint = {"dns failed", "dns: internal error", "spf failed"}
  ErrorOf <- MCErrorOf
  PanicOf <- MCPanicOf
  Capacity = 1
  MaxSends = 1
  NoComplaint = NoComplaint
  NoResult = NoResult
CHECK_DEADLOCK FALSE
INVARIANT PanicContained
