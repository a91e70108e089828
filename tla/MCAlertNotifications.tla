------------------------ MODULE MCAlertNotifications ------------------------
(* The instance TLC checks: one finding, which two rules send to a webhook, *)
(* or one of them once the other is disabled.                               *)
EXTENDS AlertNotifications

CONSTANTS disk, rule1, rule2

MCFindings == {disk}
MCAlerting ==
  {<<[key |-> rule1, matches |-> {disk}],
     [key |-> rule2, matches |-> {disk}]>>,
   <<[key |-> rule2, matches |-> {disk}]>>}
=============================================================================
