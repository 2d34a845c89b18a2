------------------------------ MODULE Callers ------------------------------
(* The threads of the program that call into the library.                  *)
CONSTANTS
  Threads,
  Null       \* no thread, area, ring or pattern
=============================================================================
