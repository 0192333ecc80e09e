\* Saving, refusals, crashes and restarts, while the list of modes changes.
SPECIFICATION SettingsSpec
CONSTANTS
  Urls = {u1}
  Tokens = {t1, t2}
  Options = {o1}
  Standard = {}
  Dynamic = {d1}
  Combos = {k1}
  Fetchers = {w1}
  DefaultUrl = u1
  DefaultOption = o1
  Defaults <- MCDefaults
  Unset = Unset
  BadUrls = {badUrl}
  BadKeys = {prompt}
  Torn = Torn
SYMMETRY MCSymmetry
INVARIANTS LastSaveIsInForce
PROPERTIES HotkeysChangeByTyping
