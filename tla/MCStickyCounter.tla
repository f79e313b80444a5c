--------------------------- MODULE MCStickyCounter ---------------------------
(* StickyCounter on a 5-bit word: zero_flag = 16, zero_pending_flag = 8.     *)
EXTENDS StickyCounter

=============================================================================
