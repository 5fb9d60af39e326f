------------------------------ MODULE ChatData ------------------------------
(***************************************************************************)
(* What a conversation is: velox-core/src/conversation.rs.  A text is the  *)
(* number of its characters; a message knows the call that stored it (the  *)
(* code keeps the time) and, for an answer, the model that gave it.        *)
(***************************************************************************)
EXTENDS Naturals, Sequences, FiniteSetsExt

CONSTANTS
    Convs,            \* conversation ids that pass validate_id
    Calls,            \* calls of the server's handlers and of the command line
    Providers, Models,
    Custom,           \* the providers that are not built in
    Unnamed,          \* the empty name of a model
    User,             \* the author of a question
    MaxMessages,      \* MAX_MESSAGES (400 in the code)
    MaxChars,         \* MAX_TEXT_CHARS (20 000)
    ContextMessages,  \* 12: how many messages a provider is shown at most
    ContextChars,     \* 6000: and how long they may be together
    Label             \* 8: what the label of a message is counted as

ASSUME ChatDataAssumption ==
    /\ {MaxMessages, MaxChars, ContextMessages, ContextChars} \subseteq Nat \ {0}
    /\ Label \in Nat /\ {} \notin {Convs, Providers, Models}
    /\ Custom \subseteq Providers /\ Unnamed \notin Models
    /\ User \notin Providers \X (Models \cup {Unnamed})

Texts   == 0..(MaxChars + 1)                 \* blank, fitting, too long
Authors == (Providers \X (Models \cup {Unnamed})) \cup {User}

(* from is what the message says, by whom it really was: "really" is not in the code. *)
Messages == [by: Calls, chars: 1..MaxChars, truncated: BOOLEAN,
             from: Authors, really: Authors]

IsQuestion(m) == m.from = User

(* What model_name tells of the model that is asked: nothing if its        *)
(* provider is custom.                                                     *)
Named(author) == IF author # User /\ author[1] \in Custom
                 THEN <<author[1], Unnamed>> ELSE author

(* The outcomes of load.                                                   *)
Files  == [is: {"talk"}, messages: Seq(Messages)] \cup [is: {"absent", "corrupt"}]
Absent  == [is |-> "absent"]
Corrupt == [is |-> "corrupt"]
Talk(messages) == [is |-> "talk", messages |-> messages]

(* sanitize refuses blank text and cuts what is too long.                  *)
Storable(text) == text > 0
Message(call, text, from, really) ==
    [by |-> call, from |-> from, really |-> really,
     chars |-> IF text > MaxChars THEN MaxChars ELSE text, truncated |-> text > MaxChars]

Last(messages, n) ==
    IF n >= Len(messages) THEN messages
                          ELSE SubSeq(messages, Len(messages) - n + 1, Len(messages))

(* append: the oldest message goes when there are too many.                *)
Add(messages, m) == Last(Append(messages, m), MaxMessages)

(* context_text: from the end, as many as fit, but the last one always.    *)
Length(messages) == MapThenSumSet(LAMBDA i : messages[i].chars + Label, DOMAIN messages)
Context(messages) ==
    LET Fits(n) == n <= 1 \/ Length(Last(messages, n)) <= ContextChars
        most    == Min({ContextMessages, Len(messages)})
    IN  Last(messages, Max({n \in 0..most : Fits(n)}))
=============================================================================
