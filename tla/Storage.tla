------------------------------ MODULE Storage ------------------------------
(***************************************************************************)
(* Files sent to a folder, local or on another PC: velox-core/src/         *)
(* storage.rs.                                                             *)
(*                                                                         *)
(* Each call is a CLI process.  It loads the book (destination, transfers),*)
(* copies to a part file, compares, moves the part to its final name, and  *)
(* saves the book it loaded with the outcome.  Nothing is locked.  Sources *)
(* change, the folder comes and goes, others put files into it, processes  *)
(* are killed.  There is one destination, registered or not; refusals of   *)
(* names, paths and secret files end before anything is read.              *)
(***************************************************************************)
EXTENDS Selection, SequencesExt

CONSTANTS
    Cli,            \* processes that may run at the same time
    File,           \* files of the user
    Name, NameOf,   \* [File -> Name]: file names without their directory
    Content,        \* what a file can hold
    Nothing,        \* no file
    Torn,           \* part of a file
    MaxTransfers,   \* MAX_TRANSFERS (500 in the code)
    MaxCalls,       \* bound: commands
    MaxNow,         \* bound: seconds in which commands are given
    MaxKills,       \* bound: processes killed
    MaxOutages,     \* bound: times the folder goes out of reach
    MaxEdits        \* bound: changes of a source

Id       == (0..MaxNow) \X Nat                         \* second, number
Place    == Name \X (0..MaxNow) \X (0..MaxCalls)       \* name, stamp, number
States   == {"Pending", "Completed", "AlreadyThere", "Failed"}
Transfer == [id: Id, file: File, state: States,
             saved_as: Place \cup {Nothing},
             content: Content \cup {Nothing}]          \* what was compared (not in the code)
Books    == [registered: BOOLEAN, transfers: Seq(Transfer)]
EmptyBook == [registered |-> FALSE, transfers |-> <<>>]

ASSUME StorageAssumption ==
    /\ File # {} /\ NameOf \in [File -> Name]
    /\ Nothing \notin Content \cup Place /\ Torn \notin Content /\ Torn # Nothing
    /\ {Nothing, Torn} \cap Books = {}
    /\ {MaxTransfers, MaxCalls, MaxNow, MaxKills, MaxOutages, MaxEdits} \subseteq Nat

VARIABLES
    pc,         \* pc[c]: where process c is
    job,        \* job[c]: its command and locals
    now,        \* the clock, in seconds
    book,       \* velox_storage.json
    bookTmp,    \* velox_storage.json.tmp
    source,     \* source[f]: content of the user's file f
    folder,     \* folder[p]: what is in the destination folder at place p
    parts,      \* parts[i]: content of the file .apex-part-i, where there is one
    reachable,  \* can the folder be reached?
    past,       \* how many calls, kills, outages and edits there were
    late,       \* processes whose target appeared after their last look (not in the code)
    replaced    \* places that late processes renamed to (not in the code)

books == <<book, bookTmp>>
share == <<folder, parts>>
history == <<late, replaced>>
vars  == <<pc, job, now, books, source, share, reachable, past, history>>

Commands == {"send", "retry", "add", "remove"}
Copying  == {"attempt", "look", "copy", "verify", "place", "rename", "clean", "settle"}
Steps    == {"idle", "load"} \cup Copying \cup {"open_tmp", "write_tmp", "replace"}

Jobs == [command: Commands, file: File, now: 0..MaxNow,
         book: Books,                     \* its copy of the book
         k: Nat,                          \* the transfer it attempts
         to: Place \cup {Nothing},        \* its target
         checked: Content \cup {Nothing}] \* what the part was compared with

NoJob == [command |-> "retry", file |-> CHOOSE f \in File : TRUE, now |-> 0, book |-> EmptyBook,
          k |-> 0, to |-> Nothing, checked |-> Nothing]

At(c, s)    == pc[c] = s
Goto(c, s)  == pc' = [pc EXCEPT ![c] = s]
Set(c, j)   == job' = [job EXCEPT ![c] = j]
Current(c)  == job[c].book.transfers[job[c].k]
Part(c)     == Current(c).id
Return(c)   == Goto(c, "idle") /\ Set(c, NoJob)
Count(what, limit) == past[what] < limit /\ past' = [past EXCEPT ![what] = @ + 1]

Init ==
    /\ pc = [c \in Cli |-> "idle"]
    /\ job = [c \in Cli |-> NoJob]
    /\ now = 0
    /\ book = [EmptyBook EXCEPT !.registered = TRUE] /\ bookTmp = Nothing
    /\ source \in [File -> Content]
    /\ folder = [p \in Place |-> Nothing]
    /\ parts = <<>>
    /\ reachable = TRUE
    /\ past = [calls |-> 0, kills |-> 0, outages |-> 0, edits |-> 0]
    /\ late = {} /\ replaced = {}

-----------------------------------------------------------------------------
(* Names.                                                                  *)

(* new_transfer_id: the clock and the first number that the book lacks.    *)
FreeNumbers(b, t) == {n \in Len(b.transfers)..(2 * Len(b.transfers)) :
                         \A i \in DOMAIN b.transfers : b.transfers[i].id # <<t, n>>}

NewId(b, t) == <<t, Min(FreeNumbers(b, t))>>

Original(c) == <<NameOf[Current(c).file], 0, 0>>

(* exists() says no as well when the folder cannot be reached.             *)
Exists(p) == reachable /\ folder[p] # Nothing

(* conflict_name: the stamp and the first number that is free.             *)
ConflictName(c, p) ==
    \E n \in 1..MaxCalls :
      LET Candidate(m) == <<NameOf[Current(c).file], job[c].now, m>>
      IN p = Candidate(n) /\ ~Exists(p) /\ \A m \in 1..(n - 1) : Exists(Candidate(m))

-----------------------------------------------------------------------------
(* A command begins.                                                       *)

Call(c, command, f) ==
    /\ At(c, "idle")
    /\ Count("calls", MaxCalls)
    /\ now' \in {now, now + 1} /\ now' <= MaxNow
    /\ Set(c, [job[c] EXCEPT !.command = command, !.file = f, !.now = now'])
    /\ Goto(c, "load")
    /\ UNCHANGED <<books, source, share, reachable, history>>

Sent(c) == [id |-> NewId(book, job[c].now), file |-> job[c].file, state |-> "Pending",
            saved_as |-> Nothing, content |-> Nothing]

(* Begin with the transfer at place k of book b.                           *)
Begin(c, b, k) ==
    /\ Set(c, [job[c] EXCEPT !.book = b, !.k = k, !.to = Nothing, !.checked = Nothing])
    /\ Goto(c, "attempt")

Save(c, b) ==
    /\ Set(c, [job[c] EXCEPT !.book = b, !.k = 0, !.to = Nothing, !.checked = Nothing])
    /\ Goto(c, "open_tmp")

NextPending(b, k) == {i \in DOMAIN b.transfers : i > k /\ b.transfers[i].state = "Pending"}

(* A book that cannot be parsed, a destination or a file that is not there *)
(* and an empty queue end the command.                                     *)
LoadToSend(c) ==
    \/ /\ book # Torn /\ book.registered /\ source[job[c].file] # Nothing
       /\ Begin(c, [book EXCEPT !.transfers = Append(@, Sent(c))], Len(book.transfers) + 1)
    \/ /\ book = Torn \/ ~book.registered \/ source[job[c].file] = Nothing
       /\ Return(c)

LoadToRetry(c) ==
    IF book # Torn /\ NextPending(book, 0) # {}
    THEN Begin(c, book, Min(NextPending(book, 0))) ELSE Return(c)

LoadToAdd(c) ==
    IF reachable /\ book # Torn /\ ~book.registered
    THEN Save(c, [book EXCEPT !.registered = TRUE]) ELSE Return(c)

LoadToRemove(c) ==
    IF book # Torn /\ book.registered
    THEN Save(c, [book EXCEPT !.registered = FALSE]) ELSE Return(c)

Load(c) ==
    /\ At(c, "load")
    /\ \/ job[c].command = "send"   /\ LoadToSend(c)
       \/ job[c].command = "retry"  /\ LoadToRetry(c)
       \/ job[c].command = "add"    /\ LoadToAdd(c)
       \/ job[c].command = "remove" /\ LoadToRemove(c)
    /\ UNCHANGED <<now, books, source, share, reachable, past, history>>

-----------------------------------------------------------------------------
(* attempt and copy_verified.                                              *)

(* Defect: the log is trimmed from its beginning, whatever is there.       *)
TrimOldest(transfers) ==
    IF Len(transfers) <= MaxTransfers THEN transfers ELSE Tail(transfers)

(* trim_log: of those that do not wait the oldest go.                      *)
Kept(transfers) ==
    LET Waits(i) == transfers[i].state = "Pending"
    IN {i \in DOMAIN transfers :
          Waits(i) \/ Cardinality({j \in 1..i : ~Waits(j)}) > Len(transfers) - MaxTransfers}

Trim(transfers) == Select(transfers, Kept(transfers))

(* The next pending transfer of a retry, or else the book is saved.        *)
GoOn(c, b, k) ==
    IF job[c].command = "retry" /\ NextPending(b, k) # {}
    THEN Begin(c, b, Min(NextPending(b, k))) ELSE Save(c, b)

(* The attempt has ended in this state.                                    *)
WithOutcome(b, k, state, saved_as, content) ==
    [b EXCEPT !.transfers[k] =
        [@ EXCEPT !.state = state, !.saved_as = saved_as, !.content = content]]

Settled(c, state, saved_as, content) ==
    LET b == WithOutcome(job[c].book, job[c].k, state, saved_as, content)
    IN GoOn(c, IF job[c].command = "send" THEN [b EXCEPT !.transfers = Trim(@)] ELSE b, job[c].k)

Attempt(c) ==
    /\ At(c, "attempt")
    /\ IF ~job[c].book.registered \/ source[Current(c).file] = Nothing
       THEN Settled(c, "Failed", Nothing, Nothing)
       ELSE IF ~reachable THEN Settled(c, "Pending", Nothing, Nothing)
       ELSE Goto(c, "look") /\ UNCHANGED job
    /\ UNCHANGED <<now, books, source, share, reachable, past, history>>

(* An equal file that is there already is the end of it, another file      *)
(* there means another name; a comparison that fails has made no part.     *)
Look(c) ==
    /\ At(c, "look")
    /\ LET there == source[Current(c).file]
       IN \/ /\ ~Exists(Original(c))
             /\ Set(c, [job[c] EXCEPT !.to = Original(c)]) /\ Goto(c, "copy")
          \/ /\ Exists(Original(c)) /\ there = folder[Original(c)]
             /\ Settled(c, "AlreadyThere", Original(c), there)
          \/ /\ Exists(Original(c)) /\ there \notin {Nothing, folder[Original(c)]}
             /\ \E p \in Place : ConflictName(c, p) /\ Set(c, [job[c] EXCEPT !.to = p])
             /\ Goto(c, "copy")
          \/ /\ Exists(Original(c))
             /\ Goto(c, "settle") /\ UNCHANGED job
    /\ UNCHANGED <<now, books, source, share, reachable, past, history>>

WithPart(c, x) == [i \in DOMAIN parts \cup {Part(c)} |-> IF i = Part(c) THEN x ELSE parts[i]]
WithoutPart(c) == Restrict(parts, DOMAIN parts \ {Part(c)})

(* fs::copy may stop in the middle: the disk is full, the folder gone.     *)
Copy(c) ==
    /\ At(c, "copy")
    /\ \/ /\ reachable /\ source[Current(c).file] # Nothing
          /\ parts' = WithPart(c, source[Current(c).file])
          /\ Goto(c, "verify")
       \/ /\ reachable /\ source[Current(c).file] # Nothing
          /\ parts' = WithPart(c, Torn)
          /\ Goto(c, "clean")
       \/ /\ ~reachable \/ source[Current(c).file] = Nothing
          /\ UNCHANGED parts
          /\ Goto(c, "clean")
    /\ UNCHANGED <<job, now, books, source, folder, reachable, past, history>>

(* Defect: the part is not compared with the source.                       *)
VerifyNothing(c) ==
    /\ At(c, "verify")
    /\ Goto(c, "place")
    /\ Set(c, [job[c] EXCEPT !.checked = source[Current(c).file]])
    /\ UNCHANGED <<now, books, source, share, reachable, past, history>>

(* The part is compared with the source as it is by now.                   *)
Verify(c) ==
    /\ At(c, "verify")
    /\ IF reachable /\ Part(c) \in DOMAIN parts /\ parts[Part(c)] = source[Current(c).file]
       THEN Goto(c, "place") /\ Set(c, [job[c] EXCEPT !.checked = source[Current(c).file]])
       ELSE Goto(c, "clean") /\ UNCHANGED job
    /\ UNCHANGED <<now, books, source, share, reachable, past, history>>

(* Defect: nobody looks again whether the name has been taken meanwhile.   *)
PlaceBlindly(c) ==
    /\ At(c, "place")
    /\ Goto(c, "rename")
    /\ UNCHANGED <<job, now, books, source, share, reachable, past, history>>

PlacePart(c) ==
    /\ At(c, "place")
    /\ \/ ~Exists(job[c].to) /\ UNCHANGED job
       \/ Exists(job[c].to) /\ \E p \in Place : ConflictName(c, p) /\ Set(c, [job[c] EXCEPT !.to = p])
    /\ Goto(c, "rename")
    /\ UNCHANGED <<now, books, source, share, reachable, past, history>>

(* Those that are about to rename to one of these places.                  *)
AboutTo(places) == {d \in Cli : At(d, "rename") /\ job[d].to \in places}

(* rename replaces what is there, or fails.                                *)
Rename(c) ==
    /\ At(c, "rename")
    /\ \/ /\ reachable /\ Part(c) \in DOMAIN parts
          /\ folder' = [folder EXCEPT ![job[c].to] = parts[Part(c)]]
          /\ parts' = WithoutPart(c)
          /\ late' = (late \cup AboutTo({job[c].to})) \ {c}
          /\ replaced' = replaced \cup IF c \in late THEN {job[c].to} ELSE {}
          /\ Settled(c, "Completed", job[c].to, job[c].checked)
       \/ /\ Goto(c, "clean") /\ late' = late \ {c}
          /\ UNCHANGED <<job, share, replaced>>
    /\ UNCHANGED <<now, books, source, reachable, past>>

Clean(c) ==
    /\ At(c, "clean")
    /\ parts' = IF reachable THEN WithoutPart(c) ELSE parts
    /\ Goto(c, "settle")
    /\ UNCHANGED <<job, now, books, source, folder, reachable, past, history>>

(* A folder that is out of reach is not a failure.                         *)
SettleError(c) ==
    /\ At(c, "settle")
    /\ Settled(c, IF reachable THEN "Failed" ELSE "Pending", Nothing, Nothing)
    /\ UNCHANGED <<now, books, source, share, reachable, past, history>>

-----------------------------------------------------------------------------
(* save_to: all processes write the same temporary file.                   *)

OpenTmp(c) ==
    /\ At(c, "open_tmp")
    /\ bookTmp' = Torn
    /\ Goto(c, "write_tmp")
    /\ UNCHANGED <<job, now, book, source, share, reachable, past, history>>

WriteTmp(c) ==
    /\ At(c, "write_tmp")
    /\ IF bookTmp # Nothing THEN bookTmp' = job[c].book /\ UNCHANGED book
                            ELSE book' = job[c].book /\ UNCHANGED bookTmp
    /\ Goto(c, "replace")
    /\ UNCHANGED <<job, now, source, share, reachable, past, history>>

Replace(c) ==
    /\ At(c, "replace")
    /\ IF bookTmp # Nothing THEN book' = bookTmp /\ bookTmp' = Nothing
                            ELSE UNCHANGED books
    /\ Return(c)
    /\ UNCHANGED <<now, source, share, reachable, past, history>>

-----------------------------------------------------------------------------
(* Everybody else.                                                         *)

Kill(c) ==
    /\ pc[c] # "idle"
    /\ Count("kills", MaxKills)
    /\ parts' \in {parts} \cup (IF At(c, "copy") /\ reachable
                                THEN {WithPart(c, Torn)} ELSE {})
    /\ late' = late \ {c}
    /\ Return(c)
    /\ UNCHANGED <<now, books, source, folder, reachable, replaced>>

UserEdits(f) ==
    /\ Count("edits", MaxEdits)
    /\ source' \in {[source EXCEPT ![f] = x] : x \in Content \cup {Nothing}}
    /\ UNCHANGED <<pc, job, now, books, share, reachable, history>>

(* Another user of the folder puts a file of the same name there.          *)
OtherWrites(n, x) ==
    /\ folder[<<n, 0, 0>>] = Nothing
    /\ folder' = [folder EXCEPT ![<<n, 0, 0>>] = x]
    /\ late' = late \cup AboutTo({<<n, 0, 0>>})
    /\ UNCHANGED <<pc, job, now, books, source, parts, reachable, past, replaced>>

Disconnect ==
    /\ reachable
    /\ Count("outages", MaxOutages)
    /\ reachable' = FALSE
    /\ UNCHANGED <<pc, job, now, books, source, share, history>>

(* What is in the folder can be seen again.                                *)
Reconnect ==
    /\ ~reachable
    /\ reachable' = TRUE
    /\ late' = late \cup AboutTo({p \in Place : folder[p] # Nothing})
    /\ UNCHANGED <<pc, job, now, books, source, share, past, replaced>>

Progress(c) ==
    \/ Load(c) \/ Attempt(c)
    \/ Look(c) \/ Copy(c) \/ Verify(c) \/ PlacePart(c) \/ Rename(c) \/ Clean(c) \/ SettleError(c)
    \/ OpenTmp(c) \/ WriteTmp(c) \/ Replace(c)

Next ==
    \/ \E c \in Cli, command \in Commands, f \in File : Call(c, command, f)
    \/ \E c \in Cli : Progress(c) \/ Kill(c)
    \/ \E f \in File : UserEdits(f)
    \/ \E n \in Name, x \in Content : OtherWrites(n, x)
    \/ Disconnect \/ Reconnect

Spec == Init /\ [][Next]_vars

-----------------------------------------------------------------------------
(* Each variable keeps its type.                                           *)
TypeOK ==
    /\ pc \in [Cli -> Steps]
    /\ job \in [Cli -> Jobs]
    /\ \A c \in Cli : pc[c] \in Copying => job[c].k \in DOMAIN job[c].book.transfers
    /\ now \in 0..MaxNow
    /\ book \in Books \cup {Torn}
    /\ bookTmp \in Books \cup {Torn, Nothing}
    /\ source \in [File -> Content \cup {Nothing}]
    /\ folder \in [Place -> Content \cup {Nothing, Torn}]
    /\ \A i \in DOMAIN parts : i \in Id /\ parts[i] \in Content \cup {Torn}
    /\ reachable \in BOOLEAN
    /\ past \in [{"calls", "kills", "outages", "edits"} -> Nat]
    /\ late \subseteq Cli /\ replaced \subseteq Place \cup {Nothing}

(* "It does not overwrite": what is in the folder stays as it is, under    *)
(* the name it has, however many commands overlap - unless it appeared     *)
(* there, or the folder came back, after the last look of the command that *)
(* renames to it: between that look and the rename nothing protects it.    *)
NeverOverwrites ==
    [][ \A p \in Place :
          folder[p] # Nothing /\ folder'[p] # folder[p] =>
            \E c \in late : At(c, "rename") /\ job[c].to = p ]_vars

(* "Compared byte for byte": a transfer in the book that says a file is    *)
(* there names a place that holds what the source held when it was         *)
(* compared, unless a command that was late has replaced it.               *)
StoredAsCompared ==
    book # Torn =>
      \A i \in DOMAIN book.transfers :
        LET t == book.transfers[i]
        IN t.state \in {"Completed", "AlreadyThere"} =>
             t.content \in Content /\ (t.saved_as \notin replaced => folder[t.saved_as] = t.content)

(* "A transfer that waits is not dropped - that would be a job silently    *)
(* gone": it stays in the book, waiting or with its outcome.               *)
PendingNotLost ==
    [][ book # Torn /\ book' # Torn =>
          \A i \in DOMAIN book.transfers :
            book.transfers[i].state = "Pending" =>
              \E j \in DOMAIN book'.transfers : book'.transfers[j].id = book.transfers[i].id ]_vars

=============================================================================
