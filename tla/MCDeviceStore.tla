--------------------------- MODULE MCDeviceStore ---------------------------
(* Two dashboard threads and the CLI on one store, every lock working. *)
EXTENDS DeviceStore, TLC

CONSTANTS dashboard, cli, d1, d2, c1

MCProcess == {dashboard, cli}
MCThread == {d1, d2, c1}
MCProcessOf == [t \in MCThread |-> IF t = c1 THEN cli ELSE dashboard]
MCServes == [p \in MCProcess |->
    IF p = cli THEN {"create", "revoke"} ELSE {"rotate", "logout", "push"}]
MCUnlockable == {}

\* The threads of the dashboard are alike.
ThreadSymmetry == Permutations({d1, d2})

=============================================================================
