----------------------------- MODULE LedgerData -----------------------------
(***************************************************************************)
(* The content of velox_ledger.json and what each ledger operation         *)
(* computes from the content it has loaded: velox-core/src/ledger.rs.      *)
(*                                                                         *)
(* A record keeps what the ledger's own logic looks at: its identity and   *)
(* the time it was made.  Times are in days, the unit of the retention     *)
(* setting.  A file that is not a ledger is one of three sentinels, which  *)
(* load_from and quarantine_corrupt_file treat differently.                *)
(***************************************************************************)
EXTENDS Selection

CONSTANTS
    RecordId,        \* identities of session records
    Ops,             \* the operations callers may ask for
    MaxRecords,      \* MAX_RECORDS (5000 in the code)
    DefaultDays,     \* retention_days of a default ledger (90 in the code)
    Missing,         \* no file
    Garbage,         \* text that does not parse as a ledger
    Binary           \* bytes that are not UTF-8: read_to_string itself fails

AllOps == [name: {"record", "clear", "set_enabled", "set_retention_days"}, arg: Nat]

ASSUME LedgerDataAssumption ==
    /\ MaxRecords \in Nat \ {0}
    /\ DefaultDays \in Nat
    /\ Ops \subseteq AllOps

SessionRecord == [id: RecordId, ts: Nat]
Ledgers       == [enabled: BOOLEAN, days: Nat, records: Seq(SessionRecord)]
NotALedger    == {Missing, Garbage, Binary}

DefaultLedger == [enabled |-> TRUE, days |-> DefaultDays, records |-> <<>>]

(* load_from: whatever cannot be read or parsed is the default ledger.     *)
Load(content) == IF content \in NotALedger THEN DefaultLedger ELSE content

Ids(content) == {Load(content).records[i].id : i \in DOMAIN Load(content).records}

(* Defect: the comparison with the cutoff is the wrong way round.          *)
OutsideRetention(ledger, now) ==
    IF ledger.days = 0 THEN ledger.records
    ELSE Select(ledger.records, {i \in DOMAIN ledger.records :
                                    ledger.records[i].ts <= now - ledger.days})

(* The retention half of prune: records made before the cutoff are dropped *)
(* (saturating_sub: a cutoff before the epoch drops nothing); 0 days keeps *)
(* every age.                                                              *)
WithinRetention(ledger, now) ==
    IF ledger.days = 0 THEN ledger.records
    ELSE Select(ledger.records, {i \in DOMAIN ledger.records :
                                    ledger.records[i].ts >= now - ledger.days})

(* The size half of prune: the oldest records beyond MaxRecords go.        *)
Newest(records) ==
    IF Len(records) <= MaxRecords THEN records
    ELSE SubSeq(records, Len(records) - MaxRecords + 1, Len(records))

Prune(ledger, now) ==
    [ledger EXCEPT !.records = Newest(WithinRetention(ledger, now))]

Push(ledger, id, now) ==
    [ledger EXCEPT !.records = Append(@, [id |-> id, ts |-> now])]

(* record_to leaves before it saves when recording is switched off; every  *)
(* other call saves what it computed.                                      *)
Saves(op, ledger) == op.name = "record" => ledger.enabled

(* What an operation writes back, given the ledger it loaded.              *)
Apply(op, ledger, id, now) ==
    CASE op.name = "record"             -> Prune(Push(ledger, id, now), now)
      [] op.name = "clear"              -> [ledger EXCEPT !.records = <<>>]
      [] op.name = "set_enabled"        -> [ledger EXCEPT !.enabled = op.arg = 1]
      [] op.name = "set_retention_days" -> Prune([ledger EXCEPT !.days = op.arg], now)
      [] OTHER                          -> ledger
=============================================================================
