\* A compiler that reads arguments from the first to the last.
CONSTANTS
  Formats = {"EMP", "MIN", "SHAPE"}
  ArgumentOrders = {"first to last"}
  FirstPayload = 60
  MaxRecords = 2
  Coefficients = {30}
  ExportPlaces = {"beside", "over"}
SPECIFICATION FilesSpec
INVARIANTS
  LoadedIsWritten
  CutFileIsRefused
  OwnWholeFileLoads
  LoadedIsExported
  CutMaterialIsRefused
  RefusedForAReason
  AuditedDisclosesNothing
CHECK_DEADLOCK FALSE
