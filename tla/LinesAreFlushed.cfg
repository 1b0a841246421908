SPECIFICATION MCSpec
CONSTANTS
  LineLen = 9
  MaxArgs = 4
  Names = {"a", "b"}
  Dirs <- MCDirs
  Paths <- MCPaths
  Letters = {"a"}
  MaxPath = 5
  MaxArg = 3
  FileByte <- MCFileByte
  Files <- MCFiles
  Blobs <- MCBlobs
  BufSize = 2
  I64Size = 3
  Capacity = 3
  Byte <- MCByte
  Datas <- MCDatas
  MaxSunk = 6
INVARIANT LinesAreFlushed
