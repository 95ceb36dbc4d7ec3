SPECIFICATION Spec
INVARIANT AtaSaysSo
CONSTANTS
  Parts = {"disk"}
  None = None
  Drivers = {"ata"}
  Late = {"ata"}
  DiskBlocks = {0, 1}
  Ring = 2
  Media = {"fd", "cd"}
  Spt = 2
  Heads = 1
  Cyls = 2
  Positions = 2
  SataPorts = 2
  Targets = 1
  Controllers = 1
  MaxSata = 1
  MaxScsi = 1
  MaxNvme = 1
  Cards = {"e1000", "rtl8139"}
  Desc = 3
  SendSlots = 2
  Words = 7
  Kind = {"echo", "tcp"}
  Sizes = {3}
  Frames = 4
  Sends = 4
  Hosts = {"xhci", "ehci", "ohci"}
  UsbPorts = 2
  MaxDevs = 2
  MaxInt = 2
  Speeds = {"high", "full"}
  UsbPlugs = 3
  Sticks = {"xhci"}
  Flaky = FALSE
  Racing = FALSE
  Size = 5
  EventPlaces = 3
  Requests = {1, 2, 3}
  Patient = TRUE
  Plugs = {{"kbd", "aux"}, {"umouse", "aux"}, {"ukbd", "kbd"}}
  Queue = 2
  Fits = 2
  Far = 2
