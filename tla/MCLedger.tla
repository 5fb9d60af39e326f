------------------------------ MODULE MCLedger ------------------------------
(***************************************************************************)
(* Small instances of Ledger.  p1 is the desktop engine, with two writer   *)
(* threads where an instance has three threads; p2 and p3 are invocations  *)
(* of the CLI.                                                             *)
(***************************************************************************)
EXTENDS Ledger, TLC

CONSTANTS p1, p2, p3, t1, t2, t3

TwoHosts   == t1 :> p1 @@ t2 :> p2
SharedHost == t1 :> p1 @@ t2 :> p1 @@ t3 :> p2
OwnHosts   == t1 :> p1 @@ t2 :> p2 @@ t3 :> p3

Ids3 == {t1, t2, t3} \X (0..MaxCalls)
Ids2 == {t1, t2} \X (0..MaxCalls)

RecordOp     == [name |-> "record", arg |-> 0]
ClearOp      == [name |-> "clear", arg |-> 0]
SwitchOff    == [name |-> "set_enabled", arg |-> 0]
SwitchOn     == [name |-> "set_enabled", arg |-> 1]
KeepOneDay   == [name |-> "set_retention_days", arg |-> 1]

JustRecord   == {RecordOp}
EveryOp      == {RecordOp, ClearOp, SwitchOff, SwitchOn, KeepOneDay}

\* a ledger with one record, made on day 0 by an earlier run of t1's program
Earlier      == [enabled |-> TRUE, days |-> 0,
                 records |-> <<[id |-> <<t1, 0>>, ts |-> 0]>>]
AnyFile      == {Missing, Garbage, Binary, Earlier}
GoodFile     == {Missing, Earlier}
TornOrGood   == {Garbage, Earlier}
NoFaults     == {}
AllFaults    == FileOps
=============================================================================
