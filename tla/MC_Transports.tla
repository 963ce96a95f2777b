--------------------------- MODULE MC_Transports ---------------------------
(* What is below fido_tx and fido_rx in a device object: the APDUs of NfcApdu or *)
(* the reports of HidReports, whichever the path that was opened asks for; and   *)
(* the opening of an NFC path, NfcTarget.                                        *)
EXTENDS NfcApdu, NfcTarget, HidReports

VARIABLE transport   \* "nfc", "hid" or "target"

MCWaits == {-1, 0, 100}

\* The sides that are not used keep one initial state.
MCInit ==
  /\ Init /\ HidInit /\ TargetInit
  /\ \/ transport = "nfc" /\ sys = (CHOOSE s \in Systems : TRUE) /\ same
     \/ transport = "hid" /\ reader = (CHOOSE r \in Readers : TRUE)
     \/ /\ transport = "target" /\ reader = (CHOOSE r \in Readers : TRUE)
        /\ sys = (CHOOSE s \in Systems : TRUE) /\ same

MCNext ==
  /\ \/ transport = "nfc" /\ Next /\ UNCHANGED <<hidVars, targetVars>>
     \/ transport = "hid" /\ HidNext /\ UNCHANGED <<vars, targetVars>>
     \/ transport = "target" /\ TargetNext /\ UNCHANGED <<vars, hidVars>>
  /\ UNCHANGED transport

MCSpec ==
  /\ MCInit /\ [][MCNext]_<<transport, vars, hidVars, targetVars>>
  /\ Fairness /\ ReadFairness

\* A command over a card reader returns although the card never answers its last
\* APDU, and a read of a report, with a timeout, although the token sends none.
TransportReturns == CommandReturns /\ ReadReturns
=============================================================================
