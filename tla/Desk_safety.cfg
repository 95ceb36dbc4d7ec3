SPECIFICATION Spec
INVARIANT TypeOK
INVARIANT WindowsStand
INVARIANT SessionsTrue
INVARIANT TypedIsMeant
PROPERTY GesturesObeyed
PROPERTY FilesSafe
CHECK_DEADLOCK FALSE
CONSTANTS
  Parts = {"frame", "scrollbar", "desk", "shell", "documents", "hangul", "typing", "tree", "files"}
  ScreenW = 18
  ScreenH = 12
  TaskbarH = 2
  TitleH = 3
  BtnW = 2
  Gap = 1
  Inset = 1
  Margin = 1
  MinW = 12
  MinH = 5
  Sliver = 6
  MouseX = {0, 1, 3, 6, 9, 15}
  MouseY = {0, 1, 3, 7, 11}
  Starts <- OneSize
  Gestures = 2
  Arrow = 3
  MinThumb = 3
  WheelLines = 3
  Bars = {8, 13, 18}
  Totals = {2, 7, 25}
  Pages = {3, 9}
  Lines = {1, 4}
  Notes = {note}
  Plain = {shell}
  Explorer = {explorer}
  Prog = {prog}
  NoWin = NoWin
  Pw = {secret, other}
  Disk = {target}
  RowCount = 4
  Jobs = 2
  NoTask = NoTask
  Patient = TRUE
  Name = {"DOC.TXT", "DOC1.TXT"}
  NoName = NoName
  Default <- Names
  Slots = 2
  Wins = 2
  Inodes = 3
  Text = {0, 1}
  EmptyText = 0
  Gone = Gone
  Careful = TRUE
  Fails = {"put"}
  Consonants = {0, 4, 5, 9}
  Vowels = {0, 8}
  Length = 6
  Pads = {left, right}
  Size = 7
  ClipMax = 5
  Stamp = 1
  Edits = 5
  Settles = TRUE
  FolderNames = {1, 2}
  Deep = 2
  TreeMax = 5
  SavedMax = 3
  Docs = docs
  Others = {other}
  FileNames = {1, 2}
  NewNames = {2}
  Keys = {"name", "size"}
  Sizes = {1, 2}
  Changes = 1
