-------------------------- MODULE MCCalendarRecovery --------------------------
(* A small instance of CalendarRecovery for TLC: two symbols that share a  *)
(* deadline and budgets too small for all their sessions.                  *)
EXTENDS CalendarRecovery

=============================================================================
