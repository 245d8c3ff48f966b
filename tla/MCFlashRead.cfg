SPECIFICATION FlashSpec
CONSTANTS
  LOG_PAGE_SIZE = 4
  FLASH_SECT_SIZE = 8
  FS_ALIGN_BYTES = 2
  FS_START = 8
  FS_END = 24
  FlashTop = 40
  Images <- SmallImages
  Sources <- SmallSources
  Lengths = {0, 1, 2, 3, 6, 9}
INVARIANT
  ReadExact
CHECK_DEADLOCK FALSE
