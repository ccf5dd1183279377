------------------------ MODULE MCNotificationSystem ------------------------
(***************************************************************************)
(* The instance of NotificationSystem for TLC.                             *)
(***************************************************************************)
EXTENDS NotificationSystem, TLC

\* A proper alert, which is also RECEIVED in the eyes of notify; an alert
\* that is none; a notification that nobody gets by default, which is also what
\* the dispatcher does not know; and one message for each of its other handlers.
MCHeaders ==
  {<<"ALERT", 1>>, <<"ALERT", 3>>, <<"NOTIFICATION", 3>>, <<"INVENTORY", 0>>,
   <<"CREDENTIALS", 0>>, <<"CREDENTIALS", 1>>, <<"CREDENTIALS", 2>>}

\* The properties about the last call are about steps.
View == <<ownership, handed, subscriptions, active>>

\* Where objects and messages are makes no difference.
Symmetry == Permutations(Contents) \cup Permutations(Places)
=============================================================================
