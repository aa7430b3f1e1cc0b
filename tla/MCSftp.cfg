SPECIFICATION SftpSpec
CONSTANTS
  t1 = t1  t2 = t2  a = a  b = b  e1 = e1  e2 = e2  None = None
  Transfer = {t1, t2}
  Kind <- UploadAndDownload
  Session = {a, b}
  SessionOf <- OfTwoWindows
  MaxActive = 1
  Chunks = 2
  MaxRetries = 1
  RetryEarly = FALSE
  Sess = {a, b}
  Edit = {e1, e2}
  MaxSaves = 2
  Overlap = FALSE
INVARIANTS SftpTypeOK QueueSlotsAccounted FilesAreWhole  
PROPERTIES FilesReplacedWhole EarlyQueueDrains
CHECK_DEADLOCK FALSE
