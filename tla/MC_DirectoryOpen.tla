--------------------------- MODULE MC_DirectoryOpen ---------------------------
(***************************************************************************)
(* Three files whose sizes may exceed both budgets, and three attempts: an *)
(* attempt after a failed one, and one after a close.  The total budget is *)
(* less than two full files, and 8 is the first power of two above both.   *)
(***************************************************************************)
EXTENDS DirectoryOpen
=============================================================================
