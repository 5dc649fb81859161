--------------------------- MODULE CommandLedger ---------------------------
(***************************************************************************)
(* What the gateway owes the cloud for every command: each time it is      *)
(* handed out it is written to the device or given up at most once, and    *)
(* each write or giving-up is reported at most once and as what it was.    *)
(* Nothing is owed in the other direction: a handout may come to nothing,  *)
(* a report may never arrive.                                              *)
(***************************************************************************)
EXTENDS Naturals

CONSTANT Commands

VARIABLES
  handed,    \* how often the cloud handed the command out
  written,   \* how often a BLE write of it was accepted
  givenup,   \* how often it was not written: unsupported, or refused
  ok,        \* how often "success" arrived at the cloud
  failed     \* how often "failed" did

ledger == <<handed, written, givenup, ok, failed>>

Count == [Commands -> Nat]
More(f, c) == [f EXCEPT ![c] = @ + 1]

LedgerInit ==
  /\ handed = [c \in Commands |-> 0]
  /\ written = handed /\ givenup = handed
  /\ ok = handed /\ failed = handed

Hand(c) ==
  /\ handed' = More(handed, c)
  /\ UNCHANGED <<written, givenup, ok, failed>>

Open(c) == written[c] + givenup[c] < handed[c]

WriteOut(c) ==
  /\ Open(c)
  /\ written' = More(written, c)
  /\ UNCHANGED <<handed, givenup, ok, failed>>

GiveUp(c) ==
  /\ Open(c)
  /\ givenup' = More(givenup, c)
  /\ UNCHANGED <<handed, written, ok, failed>>

ReportOk(c) ==
  /\ ok[c] < written[c]
  /\ ok' = More(ok, c)
  /\ UNCHANGED <<handed, written, givenup, failed>>

ReportFailed(c) ==
  /\ failed[c] < givenup[c]
  /\ failed' = More(failed, c)
  /\ UNCHANGED <<handed, written, givenup, ok>>

LedgerNext == \E c \in Commands :
  Hand(c) \/ WriteOut(c) \/ GiveUp(c) \/ ReportOk(c) \/ ReportFailed(c)

LedgerSpec == LedgerInit /\ [][LedgerNext]_ledger

\* No command is written or reported more often than it was handed out, and
\* no success is reported that no write stands behind.
Balanced ==
  \A c \in Commands :
    /\ written[c] + givenup[c] <= handed[c]
    /\ ok[c] <= written[c] /\ failed[c] <= givenup[c]
=============================================================================
