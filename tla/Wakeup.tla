------------------------------- MODULE Wakeup -------------------------------
(***************************************************************************)
(* tokio::sync::Notify as the daemon uses it: one Notify is shared by the  *)
(* scheduler, which waits on it, and by every task that changes the        *)
(* schedule.  notify_one() stores at most one permit; notified() consumes  *)
(* it.  A Notified future that was woken and then dropped by select! hands *)
(* its permit back, so a permit is never lost by the select itself.        *)
(***************************************************************************)
VARIABLE permit

WakeupInit == permit = FALSE

NotifyOne == permit' = TRUE

Notified == permit /\ permit' = FALSE

=============================================================================
