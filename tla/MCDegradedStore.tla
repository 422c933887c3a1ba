-------------------------- MODULE MCDegradedStore --------------------------
(* A dashboard thread and a CLI that may fail to open or lock the lock file. *)
EXTENDS DeviceStore

CONSTANTS dashboard, cli, d1, c1

MCProcess == {dashboard, cli}
MCThread == {d1, c1}
MCProcessOf == [t \in MCThread |-> IF t = c1 THEN cli ELSE dashboard]
MCServes == [p \in MCProcess |->
    IF p = cli THEN {"create", "revoke"} ELSE {"rotate", "logout"}]
MCUnlockable == {cli}

=============================================================================
