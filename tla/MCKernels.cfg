CONSTANTS
  BlockSide = 2
  DctInputs <- MCDctInputs
  Levels = {0, 1, 90, 200, 255}
  Pictures <- MCPictures
  CropSpecs <- MCCropSpecs
  Drops <- MCDrops
  ExifBlocks <- MCExifBlocks
  Rows <- MCRows
  OnePassMaps <- MCOnePassMaps
  ColorMaps <- MCColorMaps
  MaxRows = 4
SPECIFICATION Spec
INVARIANTS FdctAccurate ColourKept PictureMoved FileConsistent ColoursNearest CacheIsNearest
CHECK_DEADLOCK FALSE
