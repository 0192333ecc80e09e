------------------------- MODULE MCAndroidDictation -------------------------
(* Two recordings at most at a time: one that an activity that is gone is  *)
(* still sending, and one of the activity that came after it.              *)
EXTENDS AndroidDictation
==============================================================================
