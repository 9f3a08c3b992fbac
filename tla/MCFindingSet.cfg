SPECIFICATION Spec
CONSTANTS
  Vendor <- MCVendor
  Key <- MCKey
  Method <- MCMethod
  Fact <- MCFact
  Category = {"Meetings", "Video", "Identity", "Work"}
  NoCategory = "none"
  Label <- MCLabel
  Reports <- MCReports
INVARIANTS
  TypeOK
  OrderIndependent
  ContestedNeverHigh
  ReportOrderDetermined
PROPERTIES
  NeverWeakened
