SPECIFICATION Spec
CONSTANTS
  Words = {"ctrl", "control", "shift", "alt", "option", "super", "cmd", "foo"}
  Names = {"enter", "return", "escape", "esc", "tab", "backspace", "space", "up", "down", "left", "right", "home", "end", "pageup", "pgup", "pagedown", "pgdn", "insert", "delete", "del", "f1", "f2", "f3", "f4", "f5", "f6", "f7", "f8", "f9", "f10", "f11", "f12", "bogus"}
  Chars <- Latin
  MaxMods = 2
INVARIANT SameEvent
CHECK_DEADLOCK FALSE
