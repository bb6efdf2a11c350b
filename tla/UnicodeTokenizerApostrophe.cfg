CONSTANTS
  a = a
  b = b
  han = han
  modifier = modifier
  quote = quote
  tick = tick
  dash = dash
  underscore = underscore
  mark = mark
  space = space
  Letters = {a, b}
  Ideographs = {han}
  Modifiers = {modifier}
  Quotes = {quote}
  Ticks = {tick}
  Dashes = {dash}
  Joiners = {underscore}
  Marks = {mark}
  Others = {space}
  Texts <- MCTexts
  Reused <- MCReused
  MaxStreams = 2
  PositionMod = 256
SPECIFICATION Spec
CHECK_DEADLOCK FALSE
INVARIANT ApostrophesDropped
