------------------------------- MODULE Atomic -------------------------------
(***************************************************************************)
(* atomic.h: the one atomic instruction the locks of MyLock are built on.  *)
(***************************************************************************)
EXTENDS Naturals

\* What *value holds after compare_and_swap(value, old, new).  The call
\* returns the value before it, so a caller sees success as "value was old".
compare_and_swap(value, old, new) == IF value = old THEN new ELSE value

=============================================================================
