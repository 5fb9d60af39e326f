----------------------------- MODULE LedgerBook -----------------------------
(***************************************************************************)
(* What the ledger promises its callers: one shared book that operations   *)
(* of any thread of any process change one whole operation at a time.  No  *)
(* locks, no temporary file, no lost update: every change of the file is   *)
(* one operation applied to the content that was there, or the removal of  *)
(* an unparsable file to quarantine.                                       *)
(***************************************************************************)
EXTENDS LedgerData

CONSTANTS InitialFiles,  \* what may be on disk when the programs start
          MaxDay         \* bound: days the model runs for

VARIABLES file,          \* content of velox_ledger.json
          quarantined,   \* contents moved to velox_ledger.json.corrupt-...
          day            \* the current date

bookVars == <<file, quarantined, day>>

Init ==
    /\ file \in InitialFiles
    /\ quarantined = {}
    /\ day = 0

(* A whole operation.  A record is stamped when it is pushed, so its stamp *)
(* may be older than the moment the new content appears.                   *)
Operate(op, id, now) ==
    /\ now <= day
    /\ file # Garbage
    /\ Saves(op, Load(file))
    /\ file' = Apply(op, Load(file), id, now)
    /\ UNCHANGED <<quarantined, day>>

Quarantine ==
    /\ file = Garbage
    /\ quarantined' = quarantined \cup {file}
    /\ file' = Missing
    /\ UNCHANGED day

NextDay ==
    /\ day < MaxDay
    /\ day' = day + 1
    /\ UNCHANGED <<file, quarantined>>

Next ==
    \/ \E op \in Ops, id \in RecordId, now \in 0..MaxDay : Operate(op, id, now)
    \/ Quarantine
    \/ NextDay

Spec == Init /\ [][Next]_bookVars
=============================================================================
