SPECIFICATION Spec
CONSTANTS
  us = us
  gb = gb
  de = de
  Days <- DaysOffered
  LastDay = 4
  Locales = {us, gb, de}
  Reads <- ReadsPattern
INVARIANTS
  TypeOK
  FullIsExpired
PROPERTIES
  BarGrows
