---------------------------- MODULE MCStoreLock ----------------------------
(* TimedLock on two dashboard threads, a gateway thread and the CLI. *)
EXTENDS TimedLock

CONSTANTS dashboard, gateway, cli, d1, d2, g1, c1

MCProcess == {dashboard, gateway, cli}
MCThread == {d1, d2, g1, c1}
MCProcessOf ==
    [t \in MCThread |-> CASE t \in {d1, d2} -> dashboard
                          [] t = g1 -> gateway
                          [] t = c1 -> cli]
MCUnlockable == {cli}

=============================================================================
