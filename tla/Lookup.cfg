CONSTANTS
  Raw <- Everything
  Dot = ""
  Private <- Lan
  Country <- Countries
  Category <- Categories
  Registries <- Ignored
  Alphabet <- Sorting
  Size <- Lengths
  MaxHosts = 3
  Address <- Looked
  Addresses <- Public
  Tracked <- Records
  Programs <- Names
  Ids = {1, 2}
  Amounts = {0, 1, 2}
  Polls = {1, 2}
  Limit = 1
SPECIFICATION SummarySpec
INVARIANTS WhoisOrderFree NameUsable BusiestListed
PROPERTY MostSpecific
