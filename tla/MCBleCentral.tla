--------------------------- MODULE MCBleCentral ---------------------------
(* Small instances of BleCentral. *)
EXTENDS BleCentral

CONSTANTS a, b, c1, c2, la, lb

OneDevice == {a}
TwoDevices == {a, b}
\* Devices of one product generation share their attribute layout.
SameLayout == [d \in Devices |-> la]
OtherLayout == [d \in Devices |-> IF d = a THEN la ELSE lb]
AllOffered == [d \in Devices |-> {"svc", "command", "status", "identity"}]
\* b lacks the status characteristic.
NoStatus == [AllOffered EXCEPT ![b] = @ \ {"status"}]
===========================================================================
