------------------------ MODULE MCNotificationService ------------------------
(* Instances of NotificationService for TLC. *)
EXTENDS NotificationService, TLC

CONSTANTS n1, n2, push, mail, fax

Known == {push, mail}
One   == {n1}
Two   == {n1, n2}

TwoChannels == (n1 :> <<push, fax, mail>>)
Mixed       == (n1 :> <<push, fax, mail>>) @@ (n2 :> <<mail>>)
=============================================================================
