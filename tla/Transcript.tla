----------------------------- MODULE Transcript -----------------------------
(***************************************************************************)
(* What a stored conversation promises its reader: it begins once, a       *)
(* question is added whole, an answer stands right behind the question of  *)
(* its call, nothing but the oldest messages is dropped, and what was      *)
(* deleted stays deleted.  A file that cannot be read is left alone.       *)
(*                                                                         *)
(* The command line stores an answer also when it could not store the      *)
(* question: then no message of that call is there yet.                    *)
(***************************************************************************)
EXTENDS ChatData

CONSTANT Commands       \* the calls of the command line
VARIABLES transcript, deleted

Init ==
    /\ transcript \in [Convs -> Files]
    /\ deleted = {}

Readable(c) == transcript[c].is = "talk"
Said(c)     == transcript[c].messages
Put(c, m)   == transcript' = [transcript EXCEPT ![c] = Talk(Add(Said(c), m))]

Begin(c) ==
    /\ transcript[c] = Absent /\ c \notin deleted
    /\ transcript' = [transcript EXCEPT ![c] = Talk(<<>>)]
    /\ UNCHANGED deleted

Ask(c, m) ==
    /\ Readable(c) /\ IsQuestion(m)
    /\ \A i \in DOMAIN Said(c) : Said(c)[i].by # m.by
    /\ Put(c, m)
    /\ UNCHANGED deleted

Answer(c, m) ==
    /\ Readable(c) /\ ~IsQuestion(m)
    /\ \/ /\ Said(c) # <<>>
          /\ LET q == Said(c)[Len(Said(c))] IN q.by = m.by /\ IsQuestion(q)
       \/ /\ m.by \in Commands
          /\ \A i \in DOMAIN Said(c) : Said(c)[i].by # m.by
    /\ Put(c, m)
    /\ UNCHANGED deleted

Delete(c) ==
    /\ transcript[c] # Absent
    /\ transcript' = [transcript EXCEPT ![c] = Absent]
    /\ deleted' = deleted \cup {c}

Next == \E c \in Convs :
    \/ Begin(c)
    \/ /\ transcript'[c] # transcript[c]
       /\ \E m \in Messages : Ask(c, m) \/ Answer(c, m)
    \/ Delete(c)

Spec == Init /\ [][Next]_<<transcript, deleted>>
=============================================================================
