------------------------------ MODULE Diagnosis ------------------------------
(***************************************************************************)
(* The server's streamed diagnosis (diagnose_stream): the PC is measured,  *)
(* the evidence shown to the user, then one provider asked after another.  *)
(* The user may leave at any time; the handler learns of it only when it   *)
(* has something to push.                                                  *)
(***************************************************************************)
EXTENDS Snapshots

VARIABLES
    stream,        \* where the handler is, and what it holds
    client,        \* "here" or "gone"
    shown,         \* evidence the user has been shown
    sent           \* what was sent: a set of [to, evidence, late]

dvars == <<stream, client, shown, sent>>

Roles == <<"claude", "gpt">>
Quiet == [at |-> "idle", role |-> 0, scope |-> Minimal, evidence |-> {}]

DiagnosisInit == stream = Quiet /\ client = "here" /\ shown = {} /\ sent = {}

(* What the evidence is made of.                                           *)
Facts(p) == [temp |-> IF p.temp = Unmeasured THEN "unknown"
                      ELSE IF p.temp >= 85 THEN "high" ELSE "normal",
             gpus |-> p.gpus, drivers |-> Cardinality(Listed(p.drivers)), busy |-> p.busy]

(* The PC is read once; what is shown and sent is made of that reading.    *)
Open == \E scope \in Scopes, answered \in BOOLEAN :
    /\ stream = Quiet
    /\ LET bundle == Bundle(Within(OfHealth(Facts(Collected(pc, answered))), scope), scope)
       IN  stream' = [at |-> IF bundle = {} THEN "closed" ELSE "preview", role |-> 1,
                      scope |-> scope, evidence |-> bundle]
    /\ UNCHANGED <<client, shown, sent>>

(* Defect: what cannot be pushed is not noticed.                           *)
PushBlindly ==
    /\ stream.at \in {"preview", "push"}
    /\ stream' = IF stream.role > Len(Roles) THEN [stream EXCEPT !.at = "closed"]
                 ELSE [stream EXCEPT !.at = "ask"]
    /\ shown' = IF stream.at = "preview" THEN stream.evidence ELSE shown
    /\ UNCHANGED <<client, sent>>

(* push: a client that is gone ends the stream.                            *)
Push ==
    /\ stream.at \in {"preview", "push"}
    /\ stream' = IF client = "gone" \/ stream.role > Len(Roles)
                 THEN [stream EXCEPT !.at = "closed"]
                 ELSE [stream EXCEPT !.at = "ask"]
    /\ shown' = IF stream.at = "preview" /\ client = "here" THEN stream.evidence ELSE shown
    /\ UNCHANGED <<client, sent>>

(* gated: the request may be sent, denied, or come to nothing.             *)
AskRole ==
    /\ stream.at = "ask"
    /\ \/ /\ sent' = sent \cup {[to |-> Roles[stream.role], evidence |-> stream.evidence,
                                 late |-> client = "gone"]}
          /\ stream' \in {[stream EXCEPT !.at = "push", !.role = @ + 1],
                          [stream EXCEPT !.at = "closed"]}
       \/ sent' = sent /\ stream' = [stream EXCEPT !.at = "closed"]
    /\ UNCHANGED <<client, shown>>

LeaveStream == client' = "gone" /\ client = "here" /\ stream.at # "closed"
               /\ UNCHANGED <<stream, shown, sent>>

DiagnosisNext == /\ Open \/ Push \/ AskRole \/ LeaveStream
                 /\ UNCHANGED svars
(* The PC goes on changing meanwhile.                                      *)
PcMoves == /\ PcChanges /\ UNCHANGED dvars

DiagnosisTypeOK == client \in {"here", "gone"} /\ stream.scope \in Scopes /\ stream.role \in 0..3

(* Whatever was measured, the evidence for a scope is accepted; it tells   *)
(* what the other form of the same data (AiContext) tells in that scope,   *)
(* but for the kernel, and no more; a wider scope only adds to it.  The    *)
(* kernel is in SystemInfo, which AiContext takes whole, and not in what   *)
(* privacy.rs lists for the scope.  Of a benchmark the score is new.       *)
BundleStaysInScope ==
    \A answered \in BOOLEAN :
      LET facts == Facts(Collected(pc, answered))
          Of(scope) == Bundle(Within(OfHealth(facts), scope), scope)
      IN  \A scope \in Scopes :
            /\ Of(scope) # {} /\ Tells(Of(scope)) = ContextTells(facts, scope) \ {"kernel"}
            /\ Tells(Bundle(Within(OfBenchmark, scope), scope)) \ {"score"} \subseteq Tells(Of(scope))
            /\ \A wider \in Scopes : wider >= scope =>
                  Of(scope) = {item \in Of(wider) : item.sensitivity <= scope}

(* Nothing is sent that the user has not been shown, whole, as it was      *)
(* measured once and within the scope; and at most one provider is asked   *)
(* after the user has left.                                                *)
SentIsShown ==
    /\ \A s \in sent : /\ s.evidence = shown /\ shown # {}
                       /\ ~Exceeds(shown, stream.scope)
    /\ Cardinality({s \in sent : s.late}) <= 1
=============================================================================
