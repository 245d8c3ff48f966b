SPECIFICATION JournalSpec
CONSTANTS
  Size = 4
  MsgMax = 91
  EventMax = 73
  Reported = {"error"}
  Masks <- LedMasks
  MaxEvents = 5
  MaxFaults = 1
  D = {"D1", "D4"}
  DIA_LED = "D4"
  NotAPin = "D9"
  LOG_PAGE_SIZE = 4
  FLASH_SECT_SIZE = 8
  FS_ALIGN_BYTES = 2
  FS_START = 8
  FS_END = 24
  FlashTop = 40
  Images <- SmallImages
  Sources <- SmallSources
  Lengths = {0, 1, 2, 3, 6, 9}
INVARIANTS
  LedShows
  AnswerSound
  FlashExact
PROPERTIES
  LogKept
  PinsApart
CHECK_DEADLOCK FALSE
