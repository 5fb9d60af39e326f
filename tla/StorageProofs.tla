---------------------------- MODULE StorageProofs ----------------------------
(***************************************************************************)
(* Theorems about files sent to a folder, for any files, names, contents,  *)
(* outages, kills and changes of the sources.  The types hold for any      *)
(* number of processes, and none of them replaces what it could have seen  *)
(* at its last look.  One process at a time has a book that names only     *)
(* what is there, as it was compared, and keeps every transfer that waits. *)
(***************************************************************************)
EXTENDS Storage, LibraryProofs, FiniteSetTheorems, TLAPS

USE StorageAssumption

-----------------------------------------------------------------------------
(* The book and its transfers.                                             *)

LEMMA MinIsLeast ==
  ASSUME NEW S \in SUBSET Nat, S # {}
  PROVE  Min(S) \in S /\ \A n \in S : Min(S) <= n
  BY LeastNatural DEF Min

(* A book has fewer transfers than the numbers that are tried.             *)
LEMMA NewIdType ==
  ASSUME NEW b \in Books, NEW t \in 0..MaxNow PROVE NewId(b, t) \in Id
<1> DEFINE L == Len(b.transfers)
           F == FreeNumbers(b, t)
<1>1. L \in Nat /\ DOMAIN b.transfers = 1..L
  BY DEF Books
<1>2. F # {}
  <2>1. SUFFICES ASSUME F = {} PROVE FALSE
    OBVIOUS
  <2> DEFINE f == [n \in L..(2 * L) |-> CHOOSE i \in 1..L : b.transfers[i].id = <<t, n>>]
  <2>2. \A n \in L..(2 * L) : \E i \in 1..L : b.transfers[i].id = <<t, n>>
    BY <1>1, <2>1 DEF FreeNumbers
  <2>3. \A n \in L..(2 * L) : f[n] \in 1..L /\ b.transfers[f[n]].id = <<t, n>>
    BY <2>2
  <2>4. f \in [L..(2 * L) -> 1..L]
    BY <2>3
  <2>5. /\ IsFiniteSet(L..(2 * L)) /\ Cardinality(L..(2 * L)) = L + 1
        /\ IsFiniteSet(1..L) /\ Cardinality(1..L) = L
    <3> HIDE DEF L, f
    <3>1. 1 \in Int /\ L \in Int /\ 2 * L \in Int /\ ~(1 > L /\ L > 0) /\ ~(L > 2 * L)
      BY <1>1
    <3>2. /\ IsFiniteSet(L..(2 * L))
          /\ Cardinality(L..(2 * L)) = IF L > 2 * L THEN 0 ELSE 2 * L - L + 1
      BY <3>1, FS_Interval
    <3>3. IsFiniteSet(1..L) /\ Cardinality(1..L) = IF 1 > L THEN 0 ELSE L - 1 + 1
      BY <3>1, FS_Interval
    <3>4. QED
      BY <1>1, <3>1, <3>2, <3>3
  <2> HIDE DEF f, L
  <2>6. Cardinality(1..L) < Cardinality(L..(2 * L))
    BY <1>1, <2>5
  <2>7. \E x, y \in L..(2 * L) : x # y /\ f[x] = f[y]
    <3> DEFINE S == L..(2 * L)
               T == 1..L
    <3>1. f \in [S -> T] /\ IsFiniteSet(S) /\ IsFiniteSet(T) /\ Cardinality(T) < Cardinality(S)
      BY <2>4, <2>5, <2>6
    <3> HIDE DEF S, T
    <3>2. \E x, y \in S : x # y /\ f[x] = f[y]
      BY <3>1, FS_PigeonHole
    <3>3. QED
      BY <3>2 DEF S
  <2>8. PICK x \in L..(2 * L), y \in L..(2 * L) : x # y /\ f[x] = f[y]
    BY <2>7
  <2>9. <<t, x>> = <<t, y>>
    BY <2>3, <2>8
  <2>10. QED
    BY <2>8, <2>9
<1>3. F \in SUBSET Nat
  BY <1>1 DEF FreeNumbers
<1>4. Min(F) \in Nat
  <2> HIDE DEF F
  <2>1. QED
    BY <1>2, <1>3, MinIsLeast
<1>5. QED
  BY <1>4 DEF NewId, Id

(* Trimming takes nothing but transfers away, and none that waits.         *)
LEMMA TrimKeeps ==
  ASSUME NEW ts \in Seq(Transfer)
  PROVE  /\ Trim(ts) \in Seq(Transfer)
         /\ \A n \in DOMAIN Trim(ts) : \E i \in DOMAIN ts : Trim(ts)[n] = ts[i]
         /\ \A i \in DOMAIN ts : ts[i].state = "Pending" =>
              \E n \in DOMAIN Trim(ts) : Trim(ts)[n] = ts[i]
<1>1. Kept(ts) \in SUBSET DOMAIN ts
  BY DEF Kept
<1>2. \A i \in DOMAIN ts : ts[i].state = "Pending" => i \in Kept(ts)
  BY DEF Kept
<1> HIDE DEF Kept
<1> DEFINE r == Select(ts, Kept(ts))
<1>3. /\ r \in Seq(Transfer)
      /\ \A n \in DOMAIN r : Nth(Kept(ts), n) \in Kept(ts) /\ r[n] = ts[Nth(Kept(ts), n)]
      /\ \A i \in Kept(ts) : \E n \in DOMAIN r : Nth(Kept(ts), n) = i
  BY <1>1, SelectKeeps
<1>4. Trim(ts) = r
  BY DEF Trim
<1> HIDE DEF r
<1>5. QED
  BY <1>1, <1>2, <1>3, <1>4

LEMMA OutcomeType ==
  ASSUME NEW b \in Books, NEW k \in DOMAIN b.transfers, NEW state \in States,
         NEW saved_as \in Place \cup {Nothing}, NEW content \in Content \cup {Nothing}
  PROVE  LET after == WithOutcome(b, k, state, saved_as, content)
         IN  /\ after \in Books
             /\ after.registered = b.registered
             /\ DOMAIN after.transfers = DOMAIN b.transfers
             /\ \A i \in DOMAIN b.transfers :
                  /\ after.transfers[i].id = b.transfers[i].id
                  /\ i # k => after.transfers[i] = b.transfers[i]
             /\ after.transfers[k].state = state
             /\ after.transfers[k].saved_as = saved_as
             /\ after.transfers[k].content = content
<1> DEFINE t == b.transfers[k]
           u == [t EXCEPT !.state = state, !.saved_as = saved_as, !.content = content]
           us == [b.transfers EXCEPT ![k] = u]
           after == WithOutcome(b, k, state, saved_as, content)
<1>1. b.transfers \in Seq(Transfer) /\ t \in Transfer /\ b.registered \in BOOLEAN
  BY DEF Books
<1>2. /\ u \in Transfer /\ u.id = t.id
      /\ u.state = state /\ u.saved_as = saved_as /\ u.content = content
  <2> HIDE DEF t
  <2>1. QED
    BY <1>1 DEF Transfer
<1>3. after = [b EXCEPT !.transfers = us]
  BY DEF WithOutcome
<1> HIDE DEF after, u
<1>4. us \in Seq(Transfer) /\ DOMAIN us = DOMAIN b.transfers
  BY <1>1, <1>2
<1>5. us[k] = u /\ \A i \in DOMAIN b.transfers : i # k => us[i] = b.transfers[i]
  BY <1>1
<1> HIDE DEF us
<1>6. after \in Books /\ after.registered = b.registered /\ after.transfers = us
  BY <1>3, <1>4 DEF Books
<1>7. QED
  BY <1>2, <1>4, <1>5, <1>6 DEF after

LEMMA TrimmedType ==
  ASSUME NEW b \in Books
  PROVE  LET after == [b EXCEPT !.transfers = Trim(@)]
         IN  /\ after \in Books
             /\ after.transfers = Trim(b.transfers)
             /\ after.registered = b.registered
<1>1. Trim(b.transfers) \in Seq(Transfer)
  BY TrimKeeps DEF Books
<1>2. QED
  BY <1>1 DEF Books

LEMMA NextPendingType ==
  ASSUME NEW b \in Books, NEW k, NextPending(b, k) # {}
  PROVE  /\ Min(NextPending(b, k)) \in DOMAIN b.transfers
         /\ b.transfers[Min(NextPending(b, k))].state = "Pending"
<1>1. NextPending(b, k) \in SUBSET Nat
  BY DEF NextPending, Books
<1>2. Min(NextPending(b, k)) \in NextPending(b, k)
  BY <1>1, MinIsLeast
<1>3. QED
  BY <1>2 DEF NextPending

-----------------------------------------------------------------------------
(* Types.                                                                  *)

ControlOK ==
    /\ pc \in [Cli -> Steps]
    /\ job \in [Cli -> Jobs]
    /\ \A c \in Cli : pc[c] \in Copying => job[c].k \in DOMAIN job[c].book.transfers

WorldOK ==
    /\ now \in 0..MaxNow
    /\ book \in Books \cup {Torn}
    /\ bookTmp \in Books \cup {Torn, Nothing}
    /\ source \in [File -> Content \cup {Nothing}]
    /\ folder \in [Place -> Content \cup {Nothing, Torn}]
    /\ \A i \in DOMAIN parts : i \in Id /\ parts[i] \in Content \cup {Torn}
    /\ reachable \in BOOLEAN
    /\ past \in [{"calls", "kills", "outages", "edits"} -> Nat]
    /\ late \subseteq Cli /\ replaced \subseteq Place \cup {Nothing}

LEMMA TypeParts == TypeOK <=> ControlOK /\ WorldOK
  BY DEF TypeOK, ControlOK, WorldOK

LEMMA TypePartsNext == ControlOK' /\ WorldOK' => TypeOK'
  BY DEF TypeOK, ControlOK, WorldOK

LEMMA NoJobType == NoJob \in Jobs /\ NoJob.book = EmptyBook
<1>1. EmptyBook \in Books
  BY DEF EmptyBook, Books
<1>2. 0 \in 0..MaxNow /\ (CHOOSE f \in File : TRUE) \in File
  OBVIOUS
<1>3. QED
  BY <1>1, <1>2 DEF NoJob, Jobs, Commands

LEMMA JobBegins ==
  ASSUME NEW j \in Jobs, NEW b \in Books, NEW k \in Nat
  PROVE  LET after == [j EXCEPT !.book = b, !.k = k, !.to = Nothing, !.checked = Nothing]
         IN  after \in Jobs /\ after.book = b /\ after.k = k /\ after.command = j.command
  BY DEF Jobs

LEMMA JobTargets ==
  ASSUME NEW j \in Jobs, NEW p \in Place
  PROVE  LET after == [j EXCEPT !.to = p]
         IN  /\ after \in Jobs /\ after.to = p /\ after.book = j.book /\ after.k = j.k
             /\ after.command = j.command /\ after.checked = j.checked
  BY DEF Jobs

LEMMA JobChecks ==
  ASSUME NEW j \in Jobs, NEW x \in Content \cup {Nothing}
  PROVE  LET after == [j EXCEPT !.checked = x]
         IN  /\ after \in Jobs /\ after.checked = x /\ after.book = j.book /\ after.k = j.k
             /\ after.command = j.command /\ after.to = j.to
  BY DEF Jobs

(* A step that gives process c a job and a place.                          *)
LEMMA ControlStep ==
  ASSUME ControlOK, NEW c \in Cli, NEW s \in Steps, NEW j \in Jobs,
         s \in Copying => j.k \in DOMAIN j.book.transfers,
         Goto(c, s), Set(c, j)
  PROVE  ControlOK'
<1>1. pc' = [pc EXCEPT ![c] = s] /\ job' = [job EXCEPT ![c] = j]
  BY DEF Goto, Set
<1>2. pc' \in [Cli -> Steps] /\ job' \in [Cli -> Jobs]
  BY <1>1 DEF ControlOK
<1>3. ASSUME NEW d \in Cli, pc'[d] \in Copying
      PROVE  job'[d].k \in DOMAIN job'[d].book.transfers
  <2>1. CASE d = c
    BY <1>1, <1>3, <2>1 DEF ControlOK
  <2>2. CASE d # c
    BY <1>1, <1>3, <2>2 DEF ControlOK
  <2>3. QED
    BY <2>1, <2>2
<1>4. QED
  BY <1>2, <1>3 DEF ControlOK

LEMMA ControlMoves ==
  ASSUME ControlOK, NEW c \in Cli, NEW s \in Steps, s \in Copying => pc[c] \in Copying,
         Goto(c, s), UNCHANGED job
  PROVE  ControlOK'
<1>1. job[c] \in Jobs
  BY DEF ControlOK
<1>2. Set(c, job[c])
  BY DEF Set, ControlOK
<1>3. QED
  BY <1>1, <1>2, ControlStep DEF ControlOK

LEMMA ReturnControl ==
  ASSUME ControlOK, NEW c \in Cli, Return(c) PROVE ControlOK'
  BY NoJobType, ControlStep DEF Return, Steps, Copying

LEMMA BeginControl ==
  ASSUME ControlOK, NEW c \in Cli, NEW b \in Books, NEW k \in DOMAIN b.transfers, Begin(c, b, k)
  PROVE  ControlOK'
<1> DEFINE before == job[c]
           j == [before EXCEPT !.book = b, !.k = k, !.to = Nothing, !.checked = Nothing]
<1>1. before \in Jobs /\ k \in Nat
  BY DEF ControlOK, Books
<1>2. j \in Jobs /\ j.book = b /\ j.k = k
  <2> HIDE DEF before
  <2>1. QED
    BY <1>1 DEF Jobs
<1>3. Goto(c, "attempt") /\ Set(c, j)
  BY DEF Begin
<1> HIDE DEF j
<1>4. QED
  BY <1>2, <1>3, ControlStep DEF Steps, Copying

LEMMA SaveControl ==
  ASSUME ControlOK, NEW c \in Cli, NEW b \in Books, Save(c, b)
  PROVE  ControlOK'
<1> DEFINE j == [job[c] EXCEPT !.book = b, !.k = 0, !.to = Nothing, !.checked = Nothing]
<1>1. job[c] \in Jobs
  BY DEF ControlOK
<1>2. j \in Jobs
  BY <1>1, JobBegins
<1>3. Goto(c, "open_tmp") /\ Set(c, j)
  BY DEF Save
<1> HIDE DEF j
<1>4. QED
  BY <1>2, <1>3, ControlStep DEF Steps, Copying

LEMMA GoOnControl ==
  ASSUME ControlOK, NEW c \in Cli, NEW b \in Books, NEW k, GoOn(c, b, k)
  PROVE  ControlOK'
<1>1. CASE Save(c, b)
  BY <1>1, SaveControl
<1>2. CASE NextPending(b, k) # {} /\ Begin(c, b, Min(NextPending(b, k)))
  BY <1>2, NextPendingType, BeginControl
<1>3. QED
  BY <1>1, <1>2 DEF GoOn

LEMMA SettledControl ==
  ASSUME ControlOK, NEW c \in Cli, pc[c] \in Copying, NEW state \in States,
         NEW saved_as \in Place \cup {Nothing}, NEW content \in Content \cup {Nothing},
         Settled(c, state, saved_as, content)
  PROVE  ControlOK'
<1> DEFINE b == WithOutcome(job[c].book, job[c].k, state, saved_as, content)
           trimmed == [b EXCEPT !.transfers = Trim(@)]
<1>1. job[c].book \in Books /\ job[c].k \in DOMAIN job[c].book.transfers
  BY DEF ControlOK, Jobs
<1>2. b \in Books
  BY <1>1, OutcomeType
<1>3. trimmed \in Books
  <2> HIDE DEF b
  <2>1. QED
    BY <1>2, TrimmedType
<1>4. GoOn(c, trimmed, job[c].k) \/ GoOn(c, b, job[c].k)
  BY DEF Settled
<1> HIDE DEF b, trimmed
<1>5. QED
  BY <1>2, <1>3, <1>4, GoOnControl

LEMMA InitType == Init => TypeOK
<1> SUFFICES ASSUME Init PROVE TypeOK
  OBVIOUS
<1>1. ControlOK
  BY NoJobType DEF Init, ControlOK, Steps, Copying
<1>2. WorldOK
  <2>1. book \in Books
    <3>1. book = [registered |-> TRUE, transfers |-> <<>>]
      BY DEF Init, EmptyBook
    <3>2. QED
      BY <3>1 DEF Books
  <2>2. now \in 0..MaxNow /\ bookTmp = Nothing /\ reachable \in BOOLEAN
    BY DEF Init
  <2>3. source \in [File -> Content \cup {Nothing}]
    BY DEF Init
  <2>4. folder \in [Place -> Content \cup {Nothing, Torn}]
    BY DEF Init
  <2>5. DOMAIN parts = {}
    BY DEF Init
  <2>6. past \in [{"calls", "kills", "outages", "edits"} -> Nat] /\ late = {} /\ replaced = {}
    BY DEF Init
  <2>7. QED
    BY <2>1, <2>2, <2>3, <2>4, <2>5, <2>6 DEF WorldOK
<1>3. QED
  BY <1>1, <1>2, TypeParts

(* What process c works on while it copies.                                *)
LEMMA CurrentType ==
  ASSUME TypeOK, NEW c \in Cli, pc[c] \in Copying
  PROVE  /\ job[c] \in Jobs /\ job[c].book \in Books
         /\ job[c].k \in DOMAIN job[c].book.transfers
         /\ Current(c) \in Transfer
         /\ Current(c).file \in File /\ Part(c) \in Id /\ Original(c) \in Place
         /\ source[Current(c).file] \in Content \cup {Nothing}
<1>1. job[c] \in Jobs /\ job[c].k \in DOMAIN job[c].book.transfers
  BY DEF TypeOK
<1>2. job[c].book \in Books
  BY <1>1 DEF Jobs
<1>3. Current(c) \in Transfer
  BY <1>1, <1>2 DEF Current, Books
<1>4. Current(c).file \in File /\ Part(c) \in Id
  BY <1>3 DEF Transfer, Part
<1>5. Original(c) \in Place
  <2>1. NameOf[Current(c).file] \in Name /\ 0 \in 0..MaxNow /\ 0 \in 0..MaxCalls
    BY <1>4
  <2>2. QED
    BY <2>1 DEF Original, Place
<1>6. source[Current(c).file] \in Content \cup {Nothing}
  BY <1>4 DEF TypeOK
<1>7. QED
  BY <1>1, <1>2, <1>3, <1>4, <1>5, <1>6

LEMMA CountType ==
  ASSUME WorldOK, NEW what \in {"calls", "kills", "outages", "edits"}, NEW limit, Count(what, limit)
  PROVE  past' \in [{"calls", "kills", "outages", "edits"} -> Nat]
<1>1. past[what] + 1 \in Nat
  BY DEF WorldOK
<1>2. QED
  BY <1>1 DEF WorldOK, Count

LEMMA SentType ==
  ASSUME TypeOK, NEW c \in Cli, book # Torn
  PROVE  LET after == [book EXCEPT !.transfers = Append(@, Sent(c))]
         IN  /\ after \in Books
             /\ after.registered = book.registered
             /\ after.transfers = Append(book.transfers, Sent(c))
             /\ Len(book.transfers) + 1 \in DOMAIN after.transfers
<1>1. book \in Books /\ job[c] \in Jobs
  BY DEF TypeOK
<1>2. job[c].now \in 0..MaxNow /\ job[c].file \in File
  BY <1>1 DEF Jobs
<1>3. NewId(book, job[c].now) \in Id
  BY <1>1, <1>2, NewIdType
<1>4. Sent(c) \in Transfer
  BY <1>2, <1>3 DEF Sent, Transfer, States
<1> HIDE DEF Sent
<1>5. /\ book.transfers \in Seq(Transfer)
      /\ Append(book.transfers, Sent(c)) \in Seq(Transfer)
      /\ Len(Append(book.transfers, Sent(c))) = Len(book.transfers) + 1
  BY <1>1, <1>4 DEF Books
<1> DEFINE more == Append(book.transfers, Sent(c))
<1>6. [book EXCEPT !.transfers = more] \in Books /\ [book EXCEPT !.transfers = more].transfers = more
      /\ [book EXCEPT !.transfers = more].registered = book.registered
  <2> HIDE DEF more
  <2>1. more \in Seq(Transfer)
    BY <1>5 DEF more
  <2>2. QED
    BY <1>1, <2>1 DEF Books
<1>7. Len(book.transfers) + 1 \in DOMAIN more
  BY <1>5
<1>8. QED
  BY <1>6, <1>7

(* Only the variables of the process and the book change.                  *)
LEMMA PartsStay ==
  ASSUME WorldOK, UNCHANGED <<now, books, source, share, reachable, past, history>> PROVE WorldOK'
  BY DEF WorldOK, books, share, history

LEMMA CallType ==
  ASSUME TypeOK, NEW c \in Cli, NEW command \in Commands, NEW f \in File, Call(c, command, f)
  PROVE  TypeOK'
<1>1. ControlOK /\ WorldOK
  BY TypeParts
<1>2. now' \in 0..MaxNow
  BY <1>1 DEF Call, WorldOK
<1> DEFINE before == job[c]
           j == [before EXCEPT !.command = command, !.file = f, !.now = now']
<1>3. j \in Jobs
  <2>1. before \in Jobs
    BY <1>1 DEF ControlOK
  <2> HIDE DEF before
  <2>2. QED
    BY <1>2, <2>1 DEF Jobs
<1>4. Goto(c, "load") /\ Set(c, j) /\ Count("calls", MaxCalls)
  BY DEF Call
<1>5. ControlOK'
  <2> HIDE DEF j
  <2>1. QED
    BY <1>1, <1>3, <1>4, ControlStep DEF Steps, Copying
<1>6. WorldOK'
  BY <1>1, <1>2, <1>4, CountType DEF Call, WorldOK, books, share, history
<1>7. QED
  BY <1>5, <1>6, TypePartsNext

LEMMA LoadType ==
  ASSUME TypeOK, NEW c \in Cli, Load(c) PROVE TypeOK'
<1>1. ControlOK /\ WorldOK
  BY TypeParts
<1>2. book # Torn => book \in Books
  BY <1>1 DEF WorldOK
<1>3. ControlOK'
  <2>1. CASE Return(c)
    BY <1>1, <2>1, ReturnControl
  <2>2. CASE LoadToSend(c)
    <3>1. CASE /\ book # Torn
               /\ Begin(c, [book EXCEPT !.transfers = Append(@, Sent(c))], Len(book.transfers) + 1)
      <4> DEFINE b == [book EXCEPT !.transfers = Append(@, Sent(c))]
                 k == Len(book.transfers) + 1
      <4>1. b \in Books /\ k \in DOMAIN b.transfers
        BY <3>1, SentType
      <4>2. Begin(c, b, k)
        BY <3>1
      <4> HIDE DEF b, k
      <4>3. QED
        BY <1>1, <4>1, <4>2, BeginControl
    <3>2. QED
      BY <2>1, <2>2, <3>1 DEF LoadToSend
  <2>3. CASE LoadToRetry(c)
    <3>1. CASE book # Torn /\ NextPending(book, 0) # {} /\ Begin(c, book, Min(NextPending(book, 0)))
      BY <1>1, <1>2, <3>1, NextPendingType, BeginControl
    <3>2. QED
      BY <2>1, <2>3, <3>1 DEF LoadToRetry
  <2>4. ASSUME NEW r \in BOOLEAN, book # Torn, Save(c, [book EXCEPT !.registered = r])
        PROVE  ControlOK'
    <3>1. [book EXCEPT !.registered = r] \in Books
      BY <1>2, <2>4 DEF Books
    <3>2. QED
      BY <1>1, <2>4, <3>1, SaveControl
  <2>5. CASE LoadToAdd(c)
    BY <2>1, <2>4, <2>5 DEF LoadToAdd
  <2>6. CASE LoadToRemove(c)
    BY <2>1, <2>4, <2>6 DEF LoadToRemove
  <2>7. QED
    BY <2>2, <2>3, <2>5, <2>6 DEF Load
<1>4. WorldOK'
  BY <1>1, PartsStay DEF Load
<1>5. QED
  BY <1>3, <1>4, TypePartsNext

LEMMA PartsType ==
  ASSUME WorldOK, NEW c \in Cli, Part(c) \in Id, NEW x \in Content \cup {Torn},
         parts' \in {parts, WithPart(c, x), WithoutPart(c)}
  PROVE  \A i \in DOMAIN parts' : i \in Id /\ parts'[i] \in Content \cup {Torn}
<1>1. CASE parts' = WithPart(c, x)
  BY <1>1 DEF WithPart, WorldOK
<1>2. CASE parts' = WithoutPart(c)
  BY <1>2 DEF WithoutPart, Restrict, WorldOK
<1>3. CASE parts' = parts
  BY <1>3 DEF WorldOK
<1>4. QED
  BY <1>1, <1>2, <1>3

LEMMA PartsChange ==
  ASSUME WorldOK, NEW c \in Cli, Part(c) \in Id, NEW x \in Content \cup {Torn},
         parts' \in {parts, WithPart(c, x), WithoutPart(c)},
         UNCHANGED <<now, books, source, folder, reachable, past, history>>
  PROVE  WorldOK'
  BY PartsType DEF WorldOK, books, history

LEMMA AttemptType ==
  ASSUME TypeOK, NEW c \in Cli, Attempt(c) PROVE TypeOK'
<1>1. ControlOK /\ WorldOK /\ pc[c] \in Copying
  BY TypeParts DEF Attempt, At, Copying
<1>2. ControlOK'
  BY <1>1, SettledControl, ControlMoves DEF Attempt, States, Steps, Copying
<1>3. WorldOK'
  BY <1>1, PartsStay DEF Attempt
<1>4. QED
  BY <1>2, <1>3, TypePartsNext

LEMMA TargetControl ==
  ASSUME ControlOK, NEW c \in Cli, NEW s \in Copying, pc[c] \in Copying,
         NEW p \in Place, Set(c, [job[c] EXCEPT !.to = p]), Goto(c, s)
  PROVE  ControlOK'
<1> DEFINE before == job[c]
           j == [before EXCEPT !.to = p]
<1>1. before \in Jobs /\ before.k \in DOMAIN before.book.transfers
  BY DEF ControlOK
<1>2. j \in Jobs /\ j.book = before.book /\ j.k = before.k
  <2> HIDE DEF before
  <2>1. QED
    BY <1>1 DEF Jobs
<1>3. Set(c, j) /\ s \in Steps
  BY DEF Steps
<1> HIDE DEF j
<1>4. QED
  BY <1>1, <1>2, <1>3, ControlStep

LEMMA LookType ==
  ASSUME TypeOK, NEW c \in Cli, Look(c) PROVE TypeOK'
<1>1. ControlOK /\ WorldOK /\ pc[c] \in Copying
  BY TypeParts DEF Look, At, Copying
<1>2. Original(c) \in Place /\ source[Current(c).file] \in Content \cup {Nothing}
  BY <1>1, CurrentType
<1>3. ControlOK'
  <2>1. CASE \E p \in Place : Set(c, [job[c] EXCEPT !.to = p]) /\ Goto(c, "copy")
    BY <1>1, <2>1, TargetControl DEF Copying
  <2>2. CASE Settled(c, "AlreadyThere", Original(c), source[Current(c).file])
    BY <1>1, <1>2, <2>2, SettledControl DEF States
  <2>3. CASE Goto(c, "settle") /\ UNCHANGED job
    BY <1>1, <2>3, ControlMoves DEF Steps, Copying
  <2>4. QED
    BY <1>2, <2>1, <2>2, <2>3, Look(c) DEF Look
<1>4. WorldOK'
  BY <1>1, PartsStay DEF Look
<1>5. QED
  BY <1>3, <1>4, TypePartsNext

LEMMA CopyType ==
  ASSUME TypeOK, NEW c \in Cli, Copy(c) PROVE TypeOK'
<1>1. ControlOK /\ WorldOK /\ pc[c] \in Copying
  BY TypeParts DEF Copy, At, Copying
<1>2. Part(c) \in Id /\ source[Current(c).file] \in Content \cup {Nothing}
  BY <1>1, CurrentType
<1>3. ControlOK'
  BY <1>1, ControlMoves DEF Copy, Steps, Copying
<1>4. WorldOK'
  <2>1. CASE /\ source[Current(c).file] # Nothing
             /\ parts' = WithPart(c, source[Current(c).file])
    BY <1>1, <1>2, <2>1, PartsChange DEF Copy
  <2>2. CASE parts' = WithPart(c, Torn)
    BY <1>1, <1>2, <2>2, PartsChange DEF Copy
  <2>3. CASE UNCHANGED parts
    BY <1>1, <1>2, <2>3, PartsChange DEF Copy
  <2>4. QED
    BY <2>1, <2>2, <2>3 DEF Copy
<1>5. QED
  BY <1>3, <1>4, TypePartsNext

LEMMA VerifyType ==
  ASSUME TypeOK, NEW c \in Cli, Verify(c) PROVE TypeOK'
<1>1. ControlOK /\ WorldOK /\ pc[c] \in Copying
  BY TypeParts DEF Verify, At, Copying
<1> DEFINE x == source[Current(c).file]
<1>2. x \in Content \cup {Nothing}
  BY <1>1, CurrentType
<1>3. ControlOK'
  <2>1. CASE Goto(c, "place") /\ Set(c, [job[c] EXCEPT !.checked = x])
    <3> HIDE DEF x
    <3> DEFINE before == job[c]
               j == [before EXCEPT !.checked = x]
    <3>1. before \in Jobs /\ before.k \in DOMAIN before.book.transfers
      BY <1>1 DEF ControlOK
    <3>2. j \in Jobs /\ j.book = before.book /\ j.k = before.k
      <4> HIDE DEF before
      <4>1. QED
        BY <1>2, <3>1 DEF Jobs
    <3>3. Goto(c, "place") /\ Set(c, j)
      BY <2>1
    <3> HIDE DEF j
    <3>4. QED
      BY <1>1, <3>1, <3>2, <3>3, ControlStep DEF Steps, Copying
  <2>2. CASE Goto(c, "clean") /\ UNCHANGED job
    BY <1>1, <2>2, ControlMoves DEF Steps, Copying
  <2>3. QED
    BY <2>1, <2>2 DEF Verify
<1>4. WorldOK'
  BY <1>1, PartsStay DEF Verify
<1>5. QED
  BY <1>3, <1>4, TypePartsNext

LEMMA PlaceType ==
  ASSUME TypeOK, NEW c \in Cli, PlacePart(c) PROVE TypeOK'
<1>1. ControlOK /\ WorldOK /\ pc[c] \in Copying
  BY TypeParts DEF PlacePart, At, Copying
<1>2. ControlOK'
  BY <1>1, ControlMoves, TargetControl DEF PlacePart, Steps, Copying
<1>3. WorldOK'
  BY <1>1, PartsStay DEF PlacePart
<1>4. QED
  BY <1>2, <1>3, TypePartsNext

LEMMA RenameType ==
  ASSUME TypeOK, NEW c \in Cli, Rename(c) PROVE TypeOK'
<1>1. ControlOK /\ WorldOK /\ pc[c] \in Copying
  BY TypeParts DEF Rename, At, Copying
<1>2. job[c].to \in Place \cup {Nothing} /\ job[c].checked \in Content \cup {Nothing}
  BY <1>1 DEF ControlOK, Jobs
<1>3. Part(c) \in Id
  BY <1>1, CurrentType
<1>4. ControlOK'
  BY <1>1, <1>2, SettledControl, ControlMoves DEF Rename, States, Steps, Copying
<1>5. WorldOK'
  <2>0. late' \subseteq Cli /\ replaced' \subseteq Place \cup {Nothing}
    <3>1. CASE /\ late' = (late \cup AboutTo({job[c].to})) \ {c}
               /\ replaced' = replaced \cup IF c \in late THEN {job[c].to} ELSE {}
      BY <1>1, <1>2, <3>1 DEF WorldOK, AboutTo
    <3>2. CASE late' = late \ {c} /\ UNCHANGED replaced
      BY <1>1, <3>2 DEF WorldOK
    <3>3. QED
      BY <3>1, <3>2 DEF Rename
  <2>1. CASE /\ Part(c) \in DOMAIN parts
             /\ folder' = [folder EXCEPT ![job[c].to] = parts[Part(c)]]
             /\ parts' = WithoutPart(c)
    <3>1. parts[Part(c)] \in Content \cup {Nothing, Torn}
      BY <1>1, <2>1 DEF WorldOK
    <3>2. folder' \in [Place -> Content \cup {Nothing, Torn}]
      BY <1>1, <2>1, <3>1 DEF WorldOK
    <3>3. \A i \in DOMAIN parts' : i \in Id /\ parts'[i] \in Content \cup {Torn}
      BY <1>1, <1>3, <2>1, PartsType
    <3>4. UNCHANGED <<now, books, source, reachable, past>>
      BY DEF Rename
    <3>5. QED
      BY <1>1, <2>0, <3>2, <3>3, <3>4 DEF WorldOK, books
  <2>2. CASE UNCHANGED share
    BY <1>1, <2>0, <2>2 DEF Rename, WorldOK, books, share
  <2>3. QED
    BY <2>1, <2>2 DEF Rename
<1>6. QED
  BY <1>4, <1>5, TypePartsNext

LEMMA CleanType ==
  ASSUME TypeOK, NEW c \in Cli, Clean(c) PROVE TypeOK'
<1>1. ControlOK /\ WorldOK /\ pc[c] \in Copying
  BY TypeParts DEF Clean, At, Copying
<1>2. Part(c) \in Id
  BY <1>1, CurrentType
<1>3. ControlOK'
  BY <1>1, ControlMoves DEF Clean, Steps, Copying
<1>4. WorldOK'
  BY <1>1, <1>2, PartsChange DEF Clean
<1>5. QED
  BY <1>3, <1>4, TypePartsNext

LEMMA SettleErrorType ==
  ASSUME TypeOK, NEW c \in Cli, SettleError(c) PROVE TypeOK'
<1>1. ControlOK /\ WorldOK /\ pc[c] \in Copying
  BY TypeParts DEF SettleError, At, Copying
<1>2. ControlOK'
  BY <1>1, SettledControl DEF SettleError, States
<1>3. WorldOK'
  BY <1>1, PartsStay DEF SettleError
<1>4. QED
  BY <1>2, <1>3, TypePartsNext

LEMMA SaveToType ==
  ASSUME TypeOK, NEW c \in Cli, OpenTmp(c) \/ WriteTmp(c) \/ Replace(c) PROVE TypeOK'
<1>1. ControlOK /\ WorldOK
  BY TypeParts
<1>2. job[c].book \in Books
  BY <1>1 DEF ControlOK, Jobs
<1>3. ControlOK'
  BY <1>1, ControlMoves, ReturnControl DEF OpenTmp, WriteTmp, Replace, Steps, Copying
<1>4. book' \in Books \cup {Torn} /\ bookTmp' \in Books \cup {Torn, Nothing}
  BY <1>1, <1>2 DEF OpenTmp, WriteTmp, Replace, WorldOK, books
<1>5. UNCHANGED <<now, source, share, reachable, past, history>>
  BY DEF OpenTmp, WriteTmp, Replace
<1>6. WorldOK'
  BY <1>1, <1>4, <1>5 DEF WorldOK, share, history
<1>7. QED
  BY <1>3, <1>6, TypePartsNext

LEMMA KillType ==
  ASSUME TypeOK, NEW c \in Cli, Kill(c) PROVE TypeOK'
<1>1. ControlOK /\ WorldOK
  BY TypeParts
<1>2. ControlOK'
  BY <1>1, ReturnControl DEF Kill
<1>3. past' \in [{"calls", "kills", "outages", "edits"} -> Nat]
  BY <1>1, CountType DEF Kill
<1>4. \A i \in DOMAIN parts' : i \in Id /\ parts'[i] \in Content \cup {Torn}
  <2>1. CASE UNCHANGED parts
    BY <1>1, <2>1 DEF WorldOK
  <2>2. CASE At(c, "copy") /\ parts' = WithPart(c, Torn)
    <3>1. Part(c) \in Id
      BY <2>2, CurrentType DEF At, Copying
    <3>2. QED
      BY <1>1, <2>2, <3>1, PartsType
  <2>3. QED
    BY <2>1, <2>2 DEF Kill
<1>5. UNCHANGED <<now, books, source, folder, reachable, replaced>> /\ late' = late \ {c}
  BY DEF Kill
<1>6. WorldOK'
  BY <1>1, <1>3, <1>4, <1>5 DEF WorldOK, books
<1>7. QED
  BY <1>2, <1>6, TypePartsNext

LEMMA OthersType ==
  ASSUME TypeOK,
         \/ \E f \in File : UserEdits(f)
         \/ \E n \in Name, x \in Content : OtherWrites(n, x)
         \/ Disconnect \/ Reconnect
  PROVE  TypeOK'
<1>1. ControlOK /\ WorldOK
  BY TypeParts
<1>2. UNCHANGED <<pc, job>>
  BY DEF UserEdits, OtherWrites, Disconnect, Reconnect
<1>3. ControlOK'
  BY <1>1, <1>2 DEF ControlOK
<1>4. past' \in [{"calls", "kills", "outages", "edits"} -> Nat]
  BY <1>1, CountType DEF UserEdits, OtherWrites, Disconnect, Reconnect, WorldOK
<1>5. UNCHANGED <<now, books, parts>>
  BY DEF UserEdits, OtherWrites, Disconnect, Reconnect, share
<1>6. source' \in [File -> Content \cup {Nothing}]
  <2>1. ASSUME NEW f \in File, UserEdits(f) PROVE source' \in [File -> Content \cup {Nothing}]
    BY <1>1, <2>1 DEF UserEdits, WorldOK
  <2>2. CASE UNCHANGED source
    BY <1>1, <2>2 DEF WorldOK
  <2>3. QED
    BY <2>1, <2>2 DEF OtherWrites, Disconnect, Reconnect
<1>7. folder' \in [Place -> Content \cup {Nothing, Torn}]
  BY <1>1 DEF UserEdits, OtherWrites, Disconnect, Reconnect, WorldOK, share
<1>8. reachable' \in BOOLEAN
  BY <1>1 DEF UserEdits, OtherWrites, Disconnect, Reconnect, WorldOK
<1>9. late' \subseteq Cli /\ replaced' \subseteq Place \cup {Nothing}
  BY <1>1 DEF UserEdits, OtherWrites, Disconnect, Reconnect, WorldOK, history, AboutTo
<1>10. WorldOK'
  BY <1>1, <1>4, <1>5, <1>6, <1>7, <1>8, <1>9 DEF WorldOK, books
<1>11. QED
  BY <1>3, <1>10, TypePartsNext

LEMMA NextType == TypeOK /\ [Next]_vars => TypeOK'
<1> SUFFICES ASSUME TypeOK, [Next]_vars PROVE TypeOK'
  OBVIOUS
<1>1. ASSUME NEW c \in Cli, Progress(c) PROVE TypeOK'
  BY <1>1, LoadType, AttemptType, LookType, CopyType, VerifyType, PlaceType, RenameType,
     CleanType, SettleErrorType, SaveToType DEF Progress
<1>2. CASE UNCHANGED vars
  BY <1>2 DEF TypeOK, vars, books, share, history
<1>3. QED
  BY <1>1, <1>2, CallType, KillType, OthersType DEF Next

(* The processes, the book and its temporary file, the folder and the part *)
(* files keep their types, however many commands overlap and whatever      *)
(* others do; in particular every new transfer finds a number of its own.  *)
THEOREM StorageTypeCorrect == Spec => []TypeOK
  BY InitType, NextType, PTL DEF Spec

-----------------------------------------------------------------------------
(* The folder.                                                             *)

(* What the rename is about to replace: nothing, as far as it can reach,   *)
(* unless it is late.                                                      *)
TargetIsFree ==
    /\ DOMAIN pc = Cli /\ DOMAIN job = Cli
    /\ \A c \in Cli : "to" \in DOMAIN job[c]
    /\ \A c \in Cli : At(c, "rename") /\ job[c].to \in Place => c \in late \/ ~Exists(job[c].to)

LEMMA InitTarget == Init => TargetIsFree
  BY DEF Init, TargetIsFree, At, NoJob

(* What a step of c must do to the others that are about to rename.        *)
OthersFree(c) ==
    \A d \in Cli \ {c} : At(d, "rename") /\ d \notin late' =>
        d \notin late /\ (~Exists(job[d].to) => ~(reachable' /\ folder'[job[d].to] # Nothing))

LEMMA OthersRest ==
  ASSUME NEW c \in Cli, UNCHANGED <<folder, reachable>>, late \ {c} \subseteq late'
  PROVE  OthersFree(c)
  BY DEF OthersFree, Exists

(* Steps that do not enter the rename.                                     *)
LEMMA QuietSteps ==
  ASSUME TargetIsFree, NEW c \in Cli, NEW s, s # "rename", NEW j, "to" \in DOMAIN j,
         Goto(c, s), Set(c, j), OthersFree(c)
  PROVE  TargetIsFree'
<1>1. pc' = [pc EXCEPT ![c] = s] /\ job' = [job EXCEPT ![c] = j]
  BY DEF Goto, Set
<1>2. /\ DOMAIN pc' = Cli /\ DOMAIN job' = Cli /\ pc'[c] = s /\ job'[c] = j
      /\ \A d \in Cli \ {c} : pc'[d] = pc[d] /\ job'[d] = job[d]
  BY <1>1 DEF TargetIsFree
<1>3. ASSUME NEW d \in Cli PROVE "to" \in DOMAIN job'[d]
  BY <1>2 DEF TargetIsFree
<1>4. ASSUME NEW d \in Cli, pc'[d] = "rename", d \notin late', job'[d].to \in Place
      PROVE  ~(reachable' /\ folder'[job'[d].to] # Nothing)
  BY <1>2, <1>4 DEF TargetIsFree, OthersFree, At
<1>5. QED
  BY <1>2, <1>3, <1>4 DEF TargetIsFree, At, Exists

(* The rename of c: who is about to rename to the same place is late.      *)
LEMMA OthersSee ==
  ASSUME NEW c \in Cli, Rename(c) PROVE OthersFree(c)
<1>1. CASE /\ folder' = [folder EXCEPT ![job[c].to] = parts[Part(c)]]
           /\ late' = (late \cup AboutTo({job[c].to})) \ {c}
  <2>1. ASSUME NEW d \in Cli \ {c}, At(d, "rename"), d \notin late'
        PROVE  /\ d \notin late
               /\ ~Exists(job[d].to) => ~(reachable' /\ folder'[job[d].to] # Nothing)
    <3>1. d \notin late /\ job[d].to # job[c].to
      BY <1>1, <2>1 DEF AboutTo
    <3>2. folder'[job[d].to] = folder[job[d].to] /\ reachable' = reachable
      BY <1>1, <3>1 DEF Rename
    <3>3. QED
      BY <3>1, <3>2 DEF Exists
  <2>2. QED
    BY <2>1 DEF OthersFree
<1>2. CASE late' = late \ {c} /\ UNCHANGED share
  BY <1>2, OthersRest DEF Rename, share
<1>3. QED
  BY <1>1, <1>2 DEF Rename

LEMMA NextTarget == TargetIsFree /\ [Next]_vars => TargetIsFree'
<1> SUFFICES ASSUME TargetIsFree, [Next]_vars PROVE TargetIsFree'
  OBVIOUS
<1>a. /\ DOMAIN pc = Cli /\ DOMAIN job = Cli
      /\ \A c \in Cli : "to" \in DOMAIN job[c]
  BY DEF TargetIsFree
<1>b. ASSUME NEW c \in Cli, Return(c), OthersFree(c) PROVE TargetIsFree'
  BY <1>b, QuietSteps DEF Return, NoJob
<1>c. ASSUME NEW c \in Cli, NEW b, NEW k, Begin(c, b, k), OthersFree(c) PROVE TargetIsFree'
  BY <1>a, <1>c, QuietSteps DEF Begin
<1>d. ASSUME NEW c \in Cli, NEW b, Save(c, b), OthersFree(c) PROVE TargetIsFree'
  BY <1>a, <1>d, QuietSteps DEF Save
<1>e. ASSUME NEW c \in Cli, NEW b, NEW k, GoOn(c, b, k), OthersFree(c) PROVE TargetIsFree'
  BY <1>c, <1>d, <1>e DEF GoOn
<1>f. ASSUME NEW c \in Cli, NEW s, NEW p, NEW x, Settled(c, s, p, x), OthersFree(c)
      PROVE  TargetIsFree'
  BY <1>e, <1>f DEF Settled
<1>g. ASSUME NEW c \in Cli, NEW s, s # "rename", Goto(c, s), UNCHANGED job, OthersFree(c)
      PROVE  TargetIsFree'
  <2>1. /\ DOMAIN pc' = Cli /\ pc'[c] = s /\ job' = job
        /\ \A d \in Cli \ {c} : pc'[d] = pc[d]
    BY <1>a, <1>g DEF Goto
  <2>2. ASSUME NEW d \in Cli, pc'[d] = "rename", d \notin late', job[d].to \in Place
        PROVE  ~(reachable' /\ folder'[job[d].to] # Nothing)
    BY <1>g, <2>1, <2>2 DEF TargetIsFree, OthersFree, At
  <2>3. QED
    BY <1>a, <2>1, <2>2 DEF TargetIsFree, At, Exists
<1>h. ASSUME NEW c \in Cli,
             \/ \E command \in Commands, f \in File : Call(c, command, f)
             \/ Load(c) \/ Attempt(c) \/ Look(c) \/ Copy(c) \/ Verify(c) \/ PlacePart(c)
             \/ Clean(c) \/ SettleError(c) \/ OpenTmp(c) \/ WriteTmp(c) \/ Replace(c) \/ Kill(c)
      PROVE  UNCHANGED <<folder, reachable>> /\ OthersFree(c)
  <2>1. UNCHANGED <<folder, reachable>> /\ late \ {c} \subseteq late'
    BY <1>h DEF Call, Load, Attempt, Look, Copy, Verify, PlacePart, Clean, SettleError, OpenTmp,
       WriteTmp, Replace, Kill, share, history
  <2>2. QED
    BY <2>1, OthersRest
<1>1. ASSUME NEW c \in Cli, NEW command \in Commands, NEW f \in File, Call(c, command, f)
      PROVE  TargetIsFree'
  BY <1>1, <1>a, <1>h, QuietSteps DEF Call
<1>2. ASSUME NEW c \in Cli, Load(c) PROVE TargetIsFree'
  BY <1>2, <1>b, <1>c, <1>d, <1>h DEF Load, LoadToSend, LoadToRetry, LoadToAdd, LoadToRemove
<1>3. ASSUME NEW c \in Cli, Attempt(c) PROVE TargetIsFree'
  BY <1>3, <1>f, <1>g, <1>h DEF Attempt
<1>4. ASSUME NEW c \in Cli, Look(c) PROVE TargetIsFree'
  <2>1. CASE \E p : Set(c, [job[c] EXCEPT !.to = p]) /\ Goto(c, "copy")
    BY <1>4, <1>a, <1>h, <2>1, QuietSteps
  <2>2. CASE Settled(c, "AlreadyThere", Original(c), source[Current(c).file])
    BY <1>4, <2>2, <1>f, <1>h
  <2>3. CASE Goto(c, "settle") /\ UNCHANGED job
    BY <1>4, <2>3, <1>g, <1>h
  <2>4. QED
    BY <1>4, <2>1, <2>2, <2>3 DEF Look
<1>5. ASSUME NEW c \in Cli, Copy(c) PROVE TargetIsFree'
  BY <1>5, <1>g, <1>h DEF Copy
<1>6. ASSUME NEW c \in Cli, Verify(c) PROVE TargetIsFree'
  <2>1. CASE Goto(c, "clean") /\ UNCHANGED job
    BY <1>6, <1>g, <1>h, <2>1
  <2>2. CASE Goto(c, "place") /\ Set(c, [job[c] EXCEPT !.checked = source[Current(c).file]])
    BY <1>6, <1>a, <1>h, <2>2, QuietSteps
  <2>3. QED
    BY <1>6, <2>1, <2>2 DEF Verify
<1>7. ASSUME NEW c \in Cli, PlacePart(c) PROVE TargetIsFree'
  <2>1. /\ pc' = [pc EXCEPT ![c] = "rename"] /\ UNCHANGED <<folder, reachable, late>>
    BY <1>7 DEF PlacePart, Goto, share, history
  <2>2. CASE ~Exists(job[c].to) /\ UNCHANGED job
    BY <1>a, <2>1, <2>2 DEF TargetIsFree, At, Exists
  <2>3. CASE \E p \in Place : ConflictName(c, p) /\ Set(c, [job[c] EXCEPT !.to = p])
    <3>1. PICK p \in Place : ~Exists(p) /\ job' = [job EXCEPT ![c] = [job[c] EXCEPT !.to = p]]
      BY <2>3 DEF ConflictName, Set
    <3>2. job'[c].to = p /\ DOMAIN job' = Cli /\ "to" \in DOMAIN job'[c]
      BY <1>a, <3>1
    <3>3. ~Exists(p)'
      BY <2>1, <3>1 DEF Exists
    <3>4. QED
      BY <1>a, <2>1, <3>1, <3>2, <3>3 DEF TargetIsFree, At, Exists
  <2>4. QED
    BY <1>7, <2>2, <2>3 DEF PlacePart
<1>8. ASSUME NEW c \in Cli, Rename(c) PROVE TargetIsFree'
  BY <1>8, <1>f, <1>g, OthersSee DEF Rename
<1>9. ASSUME NEW c \in Cli, Clean(c) PROVE TargetIsFree'
  BY <1>9, <1>g, <1>h DEF Clean
<1>10. ASSUME NEW c \in Cli, SettleError(c) PROVE TargetIsFree'
  BY <1>10, <1>f, <1>h DEF SettleError
<1>11. ASSUME NEW c \in Cli, OpenTmp(c) PROVE TargetIsFree'
  BY <1>11, <1>g, <1>h DEF OpenTmp
<1>12. ASSUME NEW c \in Cli, WriteTmp(c) PROVE TargetIsFree'
  BY <1>12, <1>g, <1>h DEF WriteTmp
<1>13. ASSUME NEW c \in Cli, Replace(c) PROVE TargetIsFree'
  BY <1>13, <1>b, <1>h DEF Replace
<1>14. ASSUME NEW c \in Cli, Kill(c) PROVE TargetIsFree'
  BY <1>14, <1>b, <1>h DEF Kill
<1>15. ASSUME NEW f \in File, UserEdits(f) PROVE TargetIsFree'
  BY <1>15 DEF UserEdits, share, history, TargetIsFree, At, Exists
<1>16. ASSUME NEW n \in Name, NEW x \in Content, OtherWrites(n, x) PROVE TargetIsFree'
  <2>1. /\ UNCHANGED <<pc, job, reachable>> /\ late' = late \cup AboutTo({<<n, 0, 0>>})
        /\ folder' = [folder EXCEPT ![<<n, 0, 0>>] = x]
    BY <1>16 DEF OtherWrites
  <2>2. ASSUME NEW d \in Cli, At(d, "rename"), d \notin late', job[d].to \in Place
        PROVE  ~Exists(job[d].to)'
    <3>1. d \notin late /\ job[d].to # <<n, 0, 0>>
      BY <2>1, <2>2 DEF AboutTo
    <3>2. folder'[job[d].to] = folder[job[d].to] /\ ~Exists(job[d].to)
      BY <2>1, <2>2, <3>1 DEF TargetIsFree
    <3>3. QED
      BY <2>1, <3>2 DEF Exists
  <2>3. QED
    BY <1>a, <2>1, <2>2 DEF TargetIsFree, At
<1>17. CASE Disconnect
  BY <1>17 DEF Disconnect, share, history, TargetIsFree, At, Exists
<1>18. CASE Reconnect
  <2>1. /\ UNCHANGED <<pc, job, folder>>
        /\ late' = late \cup AboutTo({p \in Place : folder[p] # Nothing})
    BY <1>18 DEF Reconnect, share
  <2>2. ASSUME NEW d \in Cli, At(d, "rename"), d \notin late', job[d].to \in Place
        PROVE  folder[job[d].to] = Nothing
    BY <2>1, <2>2 DEF AboutTo
  <2>3. QED
    BY <1>a, <2>1, <2>2 DEF TargetIsFree, At, Exists
<1>19. CASE UNCHANGED vars
  BY <1>19 DEF vars, share, history, TargetIsFree, At, Exists
<1>20. QED
  BY <1>1, <1>2, <1>3, <1>4, <1>5, <1>6, <1>7, <1>8, <1>9, <1>10, <1>11, <1>12, <1>13,
     <1>14, <1>15, <1>16, <1>17, <1>18, <1>19 DEF Next, Progress

(* Only a late rename replaces what is in the folder, and the history      *)
(* keeps it.                                                               *)
Remains ==
    /\ replaced \subseteq replaced'
    /\ \A p \in Place : folder[p] # Nothing /\ p \notin replaced' => folder'[p] = folder[p]
LateOnly ==
    \A p \in Place : folder[p] # Nothing /\ folder'[p] # folder[p] =>
        \E c \in late : At(c, "rename") /\ job[c].to = p

LEMMA FolderChanges ==
  ASSUME TargetIsFree, [Next]_vars
  PROVE  Remains /\ LateOnly
<1>1. ASSUME NEW c \in Cli, Rename(c) PROVE Remains /\ LateOnly
  <2>1. At(c, "rename") /\ (job[c].to \in Place => c \in late \/ ~Exists(job[c].to))
    BY <1>1 DEF Rename, TargetIsFree
  <2>2. CASE /\ reachable /\ folder' = [folder EXCEPT ![job[c].to] = parts[Part(c)]]
             /\ replaced' = replaced \cup IF c \in late THEN {job[c].to} ELSE {}
    <3>1. ASSUME NEW p \in Place, folder[p] # Nothing, folder'[p] # folder[p]
          PROVE  p = job[c].to /\ c \in late /\ p \in replaced'
      <4>1. p = job[c].to
        BY <2>2, <3>1
      <4>2. c \in late
        BY <2>1, <2>2, <3>1, <4>1 DEF Exists
      <4>3. QED
        BY <2>2, <4>1, <4>2
    <3>2. QED
      BY <2>1, <2>2, <3>1 DEF Remains, LateOnly
  <2>3. CASE UNCHANGED <<folder, replaced>>
    BY <2>3 DEF Remains, LateOnly
  <2>4. QED
    BY <1>1, <2>2, <2>3 DEF Rename, share
<1>2. ASSUME NEW n \in Name, NEW x \in Content, OtherWrites(n, x) PROVE Remains /\ LateOnly
  BY <1>2 DEF OtherWrites, Remains, LateOnly
<1>3. CASE UNCHANGED <<folder, replaced>>
  BY <1>3 DEF Remains, LateOnly
<1>4. QED
  BY <1>1, <1>2, <1>3 DEF Next, vars, share, history, Progress, Call, Load, Attempt, Look, Copy,
     Verify, PlacePart, Clean, SettleError, OpenTmp, WriteTmp, Replace, Kill, UserEdits, Disconnect,
     Reconnect

(* Rule 1 of storage.rs, "it does not overwrite", for any commands that    *)
(* overlap, with others at work in the folder, outages and kills: the look *)
(* right before the rename leaves no other way to replace a file than that *)
(* the file appears between the two.                                       *)
THEOREM OverwritesOnlyLate == Spec => NeverOverwrites
<1>1. TargetIsFree /\ [Next]_vars => [LateOnly]_vars
  BY FolderChanges
<1>2. Spec => [][LateOnly]_vars
  BY <1>1, InitTarget, NextTarget, PTL DEF Spec
<1>3. QED
  BY <1>2 DEF LateOnly, NeverOverwrites

-----------------------------------------------------------------------------
(* The book of the only process.                                           *)

(* One command at a time.                                                  *)
Alone == \A c, d \in Cli : c = d

(* A transfer that says a file is there: the file is, as it was compared,  *)
(* or has been replaced.                                                   *)
IsThere(t, there, gone) ==
    t.state \in {"Completed", "AlreadyThere"} =>
        /\ t.content \in Content /\ t.saved_as \in Place
        /\ t.saved_as \notin gone => there[t.saved_as] = t.content

Sound(b, there, gone) == \A i \in DOMAIN b.transfers : IsThere(b.transfers[i], there, gone)

(* What the process knows: between comparison and rename, the part is what *)
(* was compared.                                                           *)
Knows(c) ==
    /\ Sound(job[c].book, folder, replaced)
    /\ pc[c] \in {"copy", "verify", "place", "rename"} => job[c].to \in Place
    /\ pc[c] \in {"place", "rename"} /\ Part(c) \in DOMAIN parts =>
         job[c].checked \in Content /\ parts[Part(c)] = job[c].checked

SoundInv ==
    /\ book # Torn => Sound(book, folder, replaced)
    /\ bookTmp \notin {Torn, Nothing} => Sound(bookTmp, folder, replaced)
    /\ \A c \in Cli : Knows(c)

(* The transfers of the stored book are among those of the process: at the *)
(* same places while it copies - a send adds one behind them - and, if     *)
(* they wait, somewhere when it saves.                                     *)
Holds(c) ==
    \A i \in DOMAIN book.transfers :
      /\ i \in DOMAIN job[c].book.transfers
      /\ job[c].book.transfers[i].id = book.transfers[i].id
      /\ job[c].command = "send" =>
           i # job[c].k /\ job[c].book.transfers[i].state = book.transfers[i].state

Carries(c) ==
    \A i \in DOMAIN book.transfers : book.transfers[i].state = "Pending" =>
      \E j \in DOMAIN job[c].book.transfers :
        job[c].book.transfers[j].id = book.transfers[i].id

QueueInv ==
    \A c \in Cli :
      /\ pc[c] \in Copying /\ book # Torn => Holds(c)
      /\ pc[c] \in {"open_tmp", "write_tmp", "replace"} /\ book # Torn => Carries(c)
      /\ pc[c] = "write_tmp" => bookTmp = Torn
      /\ pc[c] = "replace" => bookTmp = job[c].book

(* Where the process is, and what it has, after each way a step ends.      *)
LEMMA Moved ==
  ASSUME TypeOK, NEW c \in Cli, NEW s, NEW j, Goto(c, s), Set(c, j)
  PROVE  pc'[c] = s /\ job'[c] = j
  BY DEF Goto, Set, TypeOK

LEMMA MovedOn ==
  ASSUME TypeOK, NEW c \in Cli, NEW s, Goto(c, s)
  PROVE  pc'[c] = s
  BY DEF Goto, TypeOK

LEMMA BeginsWith ==
  ASSUME TypeOK, NEW c \in Cli, NEW b \in Books, NEW k \in Nat, Begin(c, b, k)
  PROVE  /\ pc'[c] = "attempt" /\ job'[c].book = b /\ job'[c].k = k
         /\ job'[c].command = job[c].command
<1> DEFINE before == job[c]
           j == [before EXCEPT !.book = b, !.k = k, !.to = Nothing, !.checked = Nothing]
<1>1. before \in Jobs
  BY DEF TypeOK
<1>2. j.book = b /\ j.k = k /\ j.command = before.command
  <2> HIDE DEF before
  <2>1. QED
    BY <1>1 DEF Jobs
<1>3. Goto(c, "attempt") /\ Set(c, j)
  BY DEF Begin
<1> HIDE DEF j
<1>4. QED
  BY <1>2, <1>3, Moved

LEMMA SavesWith ==
  ASSUME TypeOK, NEW c \in Cli, NEW b \in Books, Save(c, b)
  PROVE  pc'[c] = "open_tmp" /\ job'[c].book = b
<1> DEFINE before == job[c]
           j == [before EXCEPT !.book = b, !.k = 0, !.to = Nothing, !.checked = Nothing]
<1>1. before \in Jobs
  BY DEF TypeOK
<1>2. j.book = b
  <2> HIDE DEF before
  <2>1. QED
    BY <1>1 DEF Jobs
<1>3. Goto(c, "open_tmp") /\ Set(c, j)
  BY DEF Save
<1> HIDE DEF j
<1>4. QED
  BY <1>2, <1>3, Moved

LEMMA GoesOnWith ==
  ASSUME TypeOK, NEW c \in Cli, NEW b \in Books, NEW k, GoOn(c, b, k)
  PROVE  /\ job'[c].book = b
         /\ \/ pc'[c] = "open_tmp"
            \/ pc'[c] = "attempt" /\ job'[c].command = "retry"
<1>1. CASE Save(c, b)
  BY <1>1, SavesWith
<1>2. CASE /\ job[c].command = "retry" /\ NextPending(b, k) # {}
           /\ Begin(c, b, Min(NextPending(b, k)))
  <2>1. Min(NextPending(b, k)) \in Nat
    BY <1>2, NextPendingType DEF Books
  <2>2. QED
    BY <1>2, <2>1, BeginsWith
<1>3. QED
  BY <1>1, <1>2 DEF GoOn

(* The outcome of an attempt: a retry goes on with it or saves it, a send  *)
(* trims it and saves it.                                                  *)
LEMMA SettlesWith ==
  ASSUME TypeOK, NEW c \in Cli, pc[c] \in Copying, NEW state \in States,
         NEW saved_as \in Place \cup {Nothing}, NEW content \in Content \cup {Nothing},
         Settled(c, state, saved_as, content)
  PROVE  LET b == WithOutcome(job[c].book, job[c].k, state, saved_as, content)
         IN  /\ b \in Books
             /\ \/ /\ job[c].command = "send" /\ pc'[c] = "open_tmp"
                   /\ job'[c].book \in Books /\ job'[c].book.transfers = Trim(b.transfers)
                \/ /\ job[c].command # "send" /\ job'[c].book = b
                   /\ \/ pc'[c] = "open_tmp"
                      \/ pc'[c] = "attempt" /\ job'[c].command = "retry"
<1> DEFINE b == WithOutcome(job[c].book, job[c].k, state, saved_as, content)
           trimmed == [b EXCEPT !.transfers = Trim(@)]
<1>1. b \in Books
  BY CurrentType, OutcomeType
<1>2. trimmed \in Books /\ trimmed.transfers = Trim(b.transfers)
  <2> HIDE DEF b
  <2>1. QED
    BY <1>1, TrimmedType
<1>3. CASE job[c].command = "send"
  <2>1. GoOn(c, trimmed, job[c].k)
    BY <1>3 DEF Settled
  <2>2. Save(c, trimmed)
    BY <1>3, <2>1 DEF GoOn
  <2> HIDE DEF b, trimmed
  <2>3. QED
    BY <1>1, <1>2, <1>3, <2>2, SavesWith DEF b
<1>4. CASE job[c].command # "send"
  <2>1. GoOn(c, b, job[c].k)
    BY <1>4 DEF Settled
  <2> HIDE DEF b
  <2>2. QED
    BY <1>1, <1>4, <2>1, GoesOnWith DEF b
<1>5. QED
  BY <1>3, <1>4

LEMMA RestRemains == UNCHANGED <<folder, replaced>> => Remains
  BY DEF Remains

LEMMA SoundStays ==
  ASSUME NEW b \in Books, Sound(b, folder, replaced),
         Remains
  PROVE  Sound(b, folder', replaced')
<1>1. \A t : IsThere(t, folder, replaced) => IsThere(t, folder', replaced')
  BY DEF IsThere, Remains
<1>2. QED
  BY <1>1 DEF Sound

LEMMA SoundTrim ==
  ASSUME NEW b \in Books, NEW there, NEW gone, Sound(b, there, gone), NEW after,
         after.transfers = Trim(b.transfers)
  PROVE  Sound(after, there, gone)
<1>1. \A n \in DOMAIN after.transfers : \E i \in DOMAIN b.transfers :
        after.transfers[n] = b.transfers[i]
  BY TrimKeeps DEF Books
<1>2. QED
  BY <1>1 DEF Sound

LEMMA SoundOutcome ==
  ASSUME NEW b \in Books, NEW k \in DOMAIN b.transfers, NEW there, NEW gone, Sound(b, there, gone),
         NEW state \in States,
         NEW saved_as \in Place \cup {Nothing}, NEW content \in Content \cup {Nothing},
         state \in {"Completed", "AlreadyThere"} =>
           content \in Content /\ saved_as \in Place /\ there[saved_as] = content
  PROVE  Sound(WithOutcome(b, k, state, saved_as, content), there, gone)
<1> DEFINE after == WithOutcome(b, k, state, saved_as, content)
<1>1. /\ DOMAIN after.transfers = DOMAIN b.transfers
      /\ \A i \in DOMAIN b.transfers : i # k => after.transfers[i] = b.transfers[i]
      /\ after.transfers[k].state = state
      /\ after.transfers[k].saved_as = saved_as
      /\ after.transfers[k].content = content
  BY OutcomeType
<1> HIDE DEF after
<1>2. Sound(after, there, gone)
  BY <1>1 DEF Sound, IsThere
<1>3. QED
  BY <1>2 DEF after

LEMMA SoundSettled ==
  ASSUME TypeOK, NEW c \in Cli, pc[c] \in Copying, Sound(job[c].book, folder, replaced),
         Remains,
         NEW state \in States,
         NEW saved_as \in Place \cup {Nothing}, NEW content \in Content \cup {Nothing},
         state \in {"Completed", "AlreadyThere"} =>
           content \in Content /\ saved_as \in Place /\ folder'[saved_as] = content,
         Settled(c, state, saved_as, content)
  PROVE  Sound(job'[c].book, folder', replaced') /\ pc'[c] \in {"open_tmp", "attempt"}
<1> DEFINE b == WithOutcome(job[c].book, job[c].k, state, saved_as, content)
<1>1. /\ b \in Books
      /\ \/ job'[c].book.transfers = Trim(b.transfers)
         \/ job'[c].book = b
      /\ pc'[c] \in {"open_tmp", "attempt"}
  BY SettlesWith
<1>2. Sound(b, folder', replaced')
  <2>1. job[c].book \in Books /\ job[c].k \in DOMAIN job[c].book.transfers
    BY CurrentType
  <2>2. Sound(job[c].book, folder', replaced')
    BY <2>1, SoundStays
  <2>3. QED
    BY <2>1, <2>2, SoundOutcome
<1> HIDE DEF b
<1>3. QED
  BY <1>1, <1>2, SoundTrim

LEMMA AppendEnds ==
  ASSUME NEW S, NEW s \in Seq(S), NEW e \in S, NEW i \in 1..(Len(s) + 1)
  PROVE  \/ Append(s, e)[i] = e
         \/ i \in 1..Len(s) /\ Append(s, e)[i] = s[i]
  OBVIOUS

LEMMA SoundEmpty == Sound(EmptyBook, folder, replaced) /\ Sound(EmptyBook, folder', replaced')
  BY DEF Sound, EmptyBook

LEMMA InitSound == Init => SoundInv
<1> SUFFICES ASSUME Init PROVE SoundInv
  OBVIOUS
<1>1. \A c \in Cli : pc[c] = "idle" /\ job[c] = NoJob
  BY DEF Init
<1>2. Sound(book, folder, replaced)
  BY DEF Init, EmptyBook, Sound
<1>3. \A c \in Cli : Knows(c)
  BY <1>1, SoundEmpty, NoJobType DEF Knows
<1>4. QED
  BY <1>2, <1>3 DEF SoundInv, Init

(* A step of the only process that leaves the books alone.                 *)
LEMMA SoundStep ==
  ASSUME TypeOK, SoundInv, NEW c \in Cli, \A d \in Cli : d = c, UNCHANGED books,
         Remains,
         Knows(c)'
  PROVE  SoundInv'
<1>1. book' # Torn => Sound(book', folder', replaced')
  BY SoundStays DEF books, TypeOK, SoundInv
<1>2. bookTmp' \notin {Torn, Nothing} => Sound(bookTmp', folder', replaced')
  BY SoundStays DEF books, TypeOK, SoundInv
<1>3. QED
  BY <1>1, <1>2 DEF SoundInv

(* It knows nothing yet, or nothing any more, of a part and a target.      *)
LEMMA KnowsLittle ==
  ASSUME NEW c \in Cli, Sound(job'[c].book, folder', replaced'),
         pc'[c] \notin {"copy", "verify", "place", "rename"}
  PROVE  Knows(c)'
  BY DEF Knows

LEMMA KnowsSame ==
  ASSUME TypeOK, SoundInv, NEW c \in Cli, NEW s, UNCHANGED <<job, folder, parts, replaced>>, Goto(c, s),
         s \in {"copy", "verify", "place", "rename"} =>
           pc[c] \in {"copy", "verify", "place", "rename"},
         s \in {"place", "rename"} => pc[c] \in {"place", "rename"}
  PROVE  Knows(c)'
<1>1. pc'[c] = s /\ Knows(c)
  BY MovedOn DEF SoundInv
<1>2. Part(c)' = Part(c)
  BY DEF Part, Current
<1>3. QED
  BY <1>1, <1>2 DEF Knows

LEMMA CallSound ==
  ASSUME TypeOK, SoundInv, NEW c \in Cli, \A d \in Cli : d = c,
         NEW command \in Commands, NEW f \in File, Call(c, command, f)
  PROVE  SoundInv'
<1> DEFINE before == job[c]
           j == [before EXCEPT !.command = command, !.file = f, !.now = now']
<1>1. before \in Jobs /\ Sound(before.book, folder, replaced)
  BY DEF TypeOK, SoundInv, Knows
<1>2. j.book = before.book
  <2> HIDE DEF before
  <2>1. QED
    BY <1>1 DEF Jobs
<1>3. Goto(c, "load") /\ Set(c, j) /\ UNCHANGED <<books, share, replaced>>
  BY DEF Call, history
<1> HIDE DEF j
<1>4. pc'[c] = "load" /\ job'[c].book = before.book
  BY <1>2, <1>3, Moved
<1>5. Knows(c)'
  BY <1>1, <1>3, <1>4, KnowsLittle DEF share
<1>6. QED
  BY <1>3, <1>5, SoundStep, RestRemains DEF share

LEMMA LoadSound ==
  ASSUME TypeOK, SoundInv, NEW c \in Cli, \A d \in Cli : d = c, Load(c)
  PROVE  SoundInv'
<1>1. UNCHANGED <<books, folder, replaced>>
  BY DEF Load, share, history
<1>2. book # Torn => book \in Books /\ Sound(book, folder, replaced)
  BY DEF TypeOK, SoundInv
<1>3. Sound(job'[c].book, folder, replaced) /\ pc'[c] \in {"idle", "attempt", "open_tmp"}
  <2>1. CASE Return(c)
    BY <2>1, Moved, SoundEmpty, NoJobType DEF Return
  <2>2. CASE LoadToSend(c)
    <3>1. CASE /\ book # Torn
               /\ Begin(c, [book EXCEPT !.transfers = Append(@, Sent(c))], Len(book.transfers) + 1)
      <4> DEFINE b == [book EXCEPT !.transfers = Append(@, Sent(c))]
                 k == Len(book.transfers) + 1
      <4>1. b \in Books /\ k \in DOMAIN b.transfers /\ b.transfers = Append(book.transfers, Sent(c))
        BY <3>1, SentType
      <4>2. Begin(c, b, k)
        BY <3>1
      <4>3. Sound(b, folder, replaced)
        <5>1. IsThere(Sent(c), folder, replaced)
          BY DEF IsThere, Sent
        <5> HIDE DEF Sent
        <5>2. book.transfers \in Seq(Transfer) /\ DOMAIN book.transfers = 1..Len(book.transfers)
          BY <1>2, <3>1 DEF Books
        <5>3. b.transfers \in Seq(Transfer) /\ DOMAIN b.transfers = 1..(Len(book.transfers) + 1)
          BY <4>1, <5>2 DEF Books
        <5>4. \A i \in DOMAIN b.transfers :
                \/ b.transfers[i] = Sent(c)
                \/ i \in DOMAIN book.transfers /\ b.transfers[i] = book.transfers[i]
          <6> HIDE DEF b
          <6>1. Sent(c) \in Transfer
            <7>1. b.transfers[Len(book.transfers) + 1] = Sent(c)
              BY <4>1, <5>2
            <7>2. Len(book.transfers) + 1 \in DOMAIN b.transfers
              BY <5>2, <5>3
            <7>3. QED
              BY <5>3, <7>1, <7>2
          <6>2. QED
            BY <4>1, <5>2, <5>3, <6>1, AppendEnds
        <5> HIDE DEF b
        <5>5. QED
          BY <1>2, <3>1, <5>1, <5>4 DEF Sound
      <4>4. k \in Nat
        BY <1>2, <3>1 DEF Books
      <4> HIDE DEF b, k
      <4>5. QED
        BY <4>1, <4>2, <4>3, <4>4, BeginsWith
    <3>2. QED
      BY <2>1, <2>2, <3>1 DEF LoadToSend
  <2>3. CASE LoadToRetry(c)
    <3>1. CASE book # Torn /\ NextPending(book, 0) # {} /\ Begin(c, book, Min(NextPending(book, 0)))
      <4>1. Min(NextPending(book, 0)) \in Nat
        BY <1>2, <3>1, NextPendingType DEF Books
      <4>2. QED
        BY <1>2, <3>1, <4>1, BeginsWith
    <3>2. QED
      BY <2>1, <2>3, <3>1 DEF LoadToRetry
  <2>4. ASSUME NEW r \in BOOLEAN, book # Torn, Save(c, [book EXCEPT !.registered = r])
        PROVE  Sound(job'[c].book, folder, replaced) /\ pc'[c] \in {"idle", "attempt", "open_tmp"}
    <3> DEFINE b == [book EXCEPT !.registered = r]
    <3>1. b \in Books /\ b.transfers = book.transfers
      BY <1>2, <2>4 DEF Books
    <3>2. Save(c, b)
      BY <2>4
    <3> HIDE DEF b
    <3>3. QED
      BY <1>2, <2>4, <3>1, <3>2, SavesWith DEF Sound
  <2>5. CASE LoadToAdd(c)
    BY <2>1, <2>4, <2>5 DEF LoadToAdd
  <2>6. CASE LoadToRemove(c)
    BY <2>1, <2>4, <2>6 DEF LoadToRemove
  <2>7. QED
    BY <2>2, <2>3, <2>5, <2>6 DEF Load
<1>4. Knows(c)'
  BY <1>1, <1>3, KnowsLittle
<1>5. QED
  BY <1>1, <1>4, SoundStep, RestRemains

LEMMA AttemptSound ==
  ASSUME TypeOK, SoundInv, NEW c \in Cli, \A d \in Cli : d = c, Attempt(c)
  PROVE  SoundInv'
<1>1. pc[c] \in Copying /\ Sound(job[c].book, folder, replaced) /\ UNCHANGED <<books, folder, parts, replaced>>
  BY DEF Attempt, At, Copying, SoundInv, Knows, share, history
<1>2. CASE \E state \in {"Failed", "Pending"} : Settled(c, state, Nothing, Nothing)
  BY <1>1, <1>2, SoundSettled, KnowsLittle, SoundStep, RestRemains DEF States
<1>3. CASE Goto(c, "look") /\ UNCHANGED job
  BY <1>1, <1>3, KnowsSame, SoundStep, RestRemains
<1>4. QED
  BY <1>2, <1>3 DEF Attempt

LEMMA TargetsAt ==
  ASSUME TypeOK, NEW c \in Cli, NEW s, NEW p \in Place,
         Set(c, [job[c] EXCEPT !.to = p]), Goto(c, s)
  PROVE  /\ pc'[c] = s /\ job'[c].to = p /\ job'[c].book = job[c].book /\ job'[c].k = job[c].k
         /\ job'[c].checked = job[c].checked /\ job'[c].command = job[c].command
<1> DEFINE before == job[c]
           j == [before EXCEPT !.to = p]
<1>1. before \in Jobs
  BY DEF TypeOK
<1>2. /\ j.to = p /\ j.book = before.book /\ j.k = before.k
      /\ j.checked = before.checked /\ j.command = before.command
  <2> HIDE DEF before
  <2>1. QED
    BY <1>1 DEF Jobs
<1>3. Set(c, j)
  OBVIOUS
<1> HIDE DEF j
<1>4. QED
  BY <1>2, <1>3, Moved

LEMMA LookSound ==
  ASSUME TypeOK, SoundInv, NEW c \in Cli, \A d \in Cli : d = c, Look(c)
  PROVE  SoundInv'
<1>1. pc[c] \in Copying /\ Sound(job[c].book, folder, replaced) /\ UNCHANGED <<books, folder, parts, replaced>>
  BY DEF Look, At, Copying, SoundInv, Knows, share, history
<1>2. Original(c) \in Place /\ source[Current(c).file] \in Content \cup {Nothing}
  BY <1>1, CurrentType
<1>3. CASE \E p \in Place : Set(c, [job[c] EXCEPT !.to = p]) /\ Goto(c, "copy")
  <2>1. PICK p \in Place : Set(c, [job[c] EXCEPT !.to = p]) /\ Goto(c, "copy")
    BY <1>3
  <2>2. pc'[c] = "copy" /\ job'[c].to = p /\ job'[c].book = job[c].book
    BY <2>1, TargetsAt
  <2>3. Knows(c)'
    BY <1>1, <2>2 DEF Knows
  <2>4. QED
    BY <1>1, <2>3, SoundStep, RestRemains
<1>4. CASE /\ Exists(Original(c)) /\ source[Current(c).file] = folder[Original(c)]
           /\ Settled(c, "AlreadyThere", Original(c), source[Current(c).file])
  <2>1. source[Current(c).file] \in Content /\ folder'[Original(c)] = source[Current(c).file]
    BY <1>1, <1>2, <1>4 DEF Exists
  <2>2. Sound(job'[c].book, folder', replaced') /\ pc'[c] \in {"open_tmp", "attempt"}
    BY <1>1, <1>2, <1>4, <2>1, SoundSettled, RestRemains DEF States
  <2>3. QED
    BY <1>1, <2>2, KnowsLittle, SoundStep, RestRemains
<1>5. CASE Goto(c, "settle") /\ UNCHANGED job
  BY <1>1, <1>5, KnowsSame, SoundStep, RestRemains
<1>6. QED
  BY <1>2, <1>3, <1>4, <1>5, Look(c) DEF Look

LEMMA CopySound ==
  ASSUME TypeOK, SoundInv, NEW c \in Cli, \A d \in Cli : d = c, Copy(c)
  PROVE  SoundInv'
<1>1. UNCHANGED <<job, books, folder, replaced>> /\ pc[c] = "copy" /\ Knows(c)
  BY DEF Copy, At, SoundInv, history
<1>2. pc'[c] \in {"verify", "clean"}
  BY MovedOn DEF Copy
<1>3. Knows(c)'
  BY <1>1, <1>2 DEF Knows
<1>4. QED
  BY <1>1, <1>3, SoundStep, RestRemains

LEMMA VerifySound ==
  ASSUME TypeOK, SoundInv, NEW c \in Cli, \A d \in Cli : d = c, Verify(c)
  PROVE  SoundInv'
<1>1. UNCHANGED <<books, folder, parts, replaced>> /\ pc[c] = "verify" /\ Knows(c)
  BY DEF Verify, At, SoundInv, share, history
<1> DEFINE x == source[Current(c).file]
<1>2. x \in Content \cup {Nothing}
  BY <1>1, CurrentType DEF Copying
<1>3. CASE /\ Part(c) \in DOMAIN parts /\ parts[Part(c)] = x
           /\ Goto(c, "place") /\ Set(c, [job[c] EXCEPT !.checked = x])
  <2>1. x \in Content
    BY <1>2, <1>3 DEF TypeOK
  <2> HIDE DEF x
  <2> DEFINE before == job[c]
             j == [before EXCEPT !.checked = x]
  <2>2. before \in Jobs
    BY DEF TypeOK
  <2>3. j.checked = x /\ j.to = before.to /\ j.book = before.book /\ j.k = before.k
    <3> HIDE DEF before
    <3>1. QED
      BY <2>2 DEF Jobs
  <2>4. Set(c, j)
    BY <1>3
  <2> HIDE DEF j
  <2>5. /\ pc'[c] = "place" /\ job'[c].checked = x /\ job'[c].to = job[c].to
        /\ job'[c].book = job[c].book /\ job'[c].k = job[c].k
    BY <1>3, <2>3, <2>4, Moved
  <2>6. Part(c)' = Part(c)
    BY <2>5 DEF Part, Current
  <2>7. Knows(c)'
    BY <1>1, <1>3, <2>1, <2>5, <2>6 DEF Knows
  <2>8. QED
    BY <1>1, <2>7, SoundStep, RestRemains
<1>4. CASE Goto(c, "clean") /\ UNCHANGED job
  BY <1>1, <1>4, KnowsSame, SoundStep, RestRemains
<1>5. QED
  BY <1>3, <1>4 DEF Verify

LEMMA PlaceSound ==
  ASSUME TypeOK, SoundInv, NEW c \in Cli, \A d \in Cli : d = c, PlacePart(c)
  PROVE  SoundInv'
<1>1. UNCHANGED <<books, folder, parts, replaced>> /\ pc[c] = "place" /\ Goto(c, "rename") /\ Knows(c)
  BY DEF PlacePart, At, SoundInv, share, history
<1>2. CASE UNCHANGED job
  BY <1>1, <1>2, KnowsSame, SoundStep, RestRemains
<1>3. CASE \E p \in Place : Set(c, [job[c] EXCEPT !.to = p])
  <2>1. PICK p \in Place : Set(c, [job[c] EXCEPT !.to = p])
    BY <1>3
  <2>2. /\ pc'[c] = "rename" /\ job'[c].to = p /\ job'[c].book = job[c].book
        /\ job'[c].k = job[c].k /\ job'[c].checked = job[c].checked
    BY <1>1, <2>1, TargetsAt
  <2>3. Part(c)' = Part(c)
    BY <2>2 DEF Part, Current
  <2>4. Knows(c)'
    BY <1>1, <2>2, <2>3 DEF Knows
  <2>5. QED
    BY <1>1, <2>4, SoundStep, RestRemains
<1>4. QED
  BY <1>2, <1>3 DEF PlacePart

LEMMA RenameSound ==
  ASSUME TypeOK, SoundInv, NEW c \in Cli, \A d \in Cli : d = c, Rename(c),
         Remains
  PROVE  SoundInv'
<1>1. UNCHANGED books /\ pc[c] = "rename" /\ Knows(c) /\ Sound(job[c].book, folder, replaced)
  BY DEF Rename, At, SoundInv, Knows
<1>2. CASE /\ Part(c) \in DOMAIN parts
           /\ folder' = [folder EXCEPT ![job[c].to] = parts[Part(c)]]
           /\ Settled(c, "Completed", job[c].to, job[c].checked)
  <2>1. job[c].to \in Place /\ job[c].checked \in Content /\ parts[Part(c)] = job[c].checked
    BY <1>1, <1>2 DEF Knows
  <2>2. folder'[job[c].to] = job[c].checked
    BY <1>2, <2>1 DEF TypeOK
  <2>3. Sound(job'[c].book, folder', replaced') /\ pc'[c] \in {"open_tmp", "attempt"}
    BY <1>1, <1>2, <2>1, <2>2, SoundSettled, RestRemains DEF States, Copying
  <2>4. QED
    BY <1>1, <2>3, KnowsLittle, SoundStep, RestRemains
<1>3. CASE Goto(c, "clean") /\ UNCHANGED <<job, share, replaced>>
  BY <1>1, <1>3, KnowsSame, SoundStep, RestRemains DEF share
<1>4. QED
  BY <1>2, <1>3 DEF Rename

LEMMA CleanSound ==
  ASSUME TypeOK, SoundInv, NEW c \in Cli, \A d \in Cli : d = c, Clean(c)
  PROVE  SoundInv'
<1>1. UNCHANGED <<job, books, folder, replaced>> /\ Sound(job[c].book, folder, replaced) /\ pc'[c] = "settle"
  BY MovedOn DEF Clean, SoundInv, Knows, history
<1>2. QED
  BY <1>1, KnowsLittle, SoundStep, RestRemains

LEMMA SettleErrorSound ==
  ASSUME TypeOK, SoundInv, NEW c \in Cli, \A d \in Cli : d = c, SettleError(c)
  PROVE  SoundInv'
<1>1. pc[c] \in Copying /\ Sound(job[c].book, folder, replaced) /\ UNCHANGED <<books, folder, replaced>>
  BY DEF SettleError, At, Copying, SoundInv, Knows, share, history
<1>2. \E state \in {"Failed", "Pending"} : Settled(c, state, Nothing, Nothing)
  BY DEF SettleError
<1>3. QED
  BY <1>1, <1>2, SoundSettled, KnowsLittle, SoundStep, RestRemains DEF States

LEMMA SaveToSound ==
  ASSUME TypeOK, SoundInv, NEW c \in Cli, \A d \in Cli : d = c,
         OpenTmp(c) \/ WriteTmp(c) \/ Replace(c)
  PROVE  SoundInv'
<1>1. Sound(job[c].book, folder, replaced) /\ UNCHANGED <<folder, replaced>>
  BY DEF OpenTmp, WriteTmp, Replace, SoundInv, Knows, share, history
<1>2. Sound(job'[c].book, folder, replaced) /\ pc'[c] \in {"write_tmp", "replace", "idle"}
  BY <1>1, Moved, MovedOn, SoundEmpty, NoJobType DEF OpenTmp, WriteTmp, Replace, Return
<1>3. Knows(c)'
  BY <1>1, <1>2, KnowsLittle
<1>4. /\ book' # Torn => Sound(book', folder, replaced)
      /\ bookTmp' \notin {Torn, Nothing} => Sound(bookTmp', folder, replaced)
  BY <1>1 DEF OpenTmp, WriteTmp, Replace, SoundInv, books
<1>5. QED
  BY <1>1, <1>3, <1>4 DEF SoundInv

LEMMA KillSound ==
  ASSUME TypeOK, SoundInv, NEW c \in Cli, \A d \in Cli : d = c, Kill(c)
  PROVE  SoundInv'
<1>1. UNCHANGED <<books, folder, replaced>> /\ pc'[c] = "idle" /\ job'[c] = NoJob
  BY Moved DEF Kill, Return
<1>2. QED
  BY <1>1, SoundEmpty, NoJobType, KnowsLittle, SoundStep, RestRemains

LEMMA OthersSound ==
  ASSUME TypeOK, SoundInv, UNCHANGED <<pc, job, books, parts>>,
         Remains
  PROVE  SoundInv'
<1>1. /\ book' # Torn => Sound(book', folder', replaced')
      /\ bookTmp' \notin {Torn, Nothing} => Sound(bookTmp', folder', replaced')
  BY SoundStays DEF books, TypeOK, SoundInv
<1>2. ASSUME NEW c \in Cli PROVE Knows(c)'
  <2>1. Knows(c) /\ job[c].book \in Books /\ Part(c)' = Part(c)
    BY DEF SoundInv, TypeOK, Jobs, Part, Current
  <2>2. Sound(job[c].book, folder', replaced')
    BY <2>1, SoundStays DEF Knows
  <2>3. QED
    BY <2>1, <2>2 DEF Knows
<1>3. QED
  BY <1>1, <1>2 DEF SoundInv

LEMMA NextSound ==
  ASSUME Alone PROVE TypeOK /\ TargetIsFree /\ SoundInv /\ [Next]_vars => SoundInv'
<1> SUFFICES ASSUME TypeOK, TargetIsFree, SoundInv, [Next]_vars PROVE SoundInv'
  OBVIOUS
<1>1. Remains
  BY FolderChanges
<1>2. \A c, d \in Cli : c = d
  BY DEF Alone
<1>3. ASSUME NEW c \in Cli, Progress(c) PROVE SoundInv'
  BY <1>1, <1>2, <1>3, LoadSound, AttemptSound, LookSound, CopySound, VerifySound, PlaceSound,
     RenameSound, CleanSound, SettleErrorSound, SaveToSound DEF Progress
<1>4. ASSUME NEW c \in Cli, Kill(c) PROVE SoundInv'
  BY <1>2, <1>4, KillSound
<1>5. ASSUME NEW c \in Cli, NEW command \in Commands, NEW f \in File, Call(c, command, f)
      PROVE  SoundInv'
  BY <1>2, <1>5, CallSound
<1>6. CASE \/ \E f \in File : UserEdits(f)
           \/ \E n \in Name, x \in Content : OtherWrites(n, x)
           \/ Disconnect \/ Reconnect \/ UNCHANGED vars
  <2>1. UNCHANGED <<pc, job, books, parts>>
    BY <1>6 DEF UserEdits, OtherWrites, Disconnect, Reconnect, vars, share
  <2>2. QED
    BY <1>1, <2>1, OthersSound
<1>7. QED
  BY <1>3, <1>4, <1>5, <1>6 DEF Next

(* "Compared byte for byte" (rule 2 of storage.rs): for one command at a   *)
(* time, a transfer that the book calls completed names a file that holds  *)
(* what was compared, through kills, outages and changes of the source,    *)
(* unless a rename that came too late has replaced it.                     *)
THEOREM CompletedIsThere ==
  ASSUME Alone PROVE Spec => []StoredAsCompared
<1>1. SoundInv => StoredAsCompared
  BY DEF SoundInv, Sound, IsThere, StoredAsCompared
<1>2. QED
  BY <1>1, InitType, NextType, InitTarget, NextTarget, InitSound, NextSound, PTL DEF Spec

-----------------------------------------------------------------------------
(* What waits.                                                             *)

LEMMA InitQueue == Init => QueueInv
  BY DEF Init, QueueInv, Copying

(* A step of the only process that does not write.                         *)
LEMMA QueueStep ==
  ASSUME NEW c \in Cli, \A d \in Cli : d = c, UNCHANGED books,
         pc'[c] \in Copying /\ book # Torn => Holds(c)',
         pc'[c] = "open_tmp" /\ book # Torn => Carries(c)',
         pc'[c] \notin {"write_tmp", "replace"}
  PROVE  QueueInv'
  BY DEF QueueInv, books

LEMMA HoldsSame ==
  ASSUME NEW c \in Cli, UNCHANGED books, Holds(c),
         job'[c].book = job[c].book, job'[c].k = job[c].k, job'[c].command = job[c].command
  PROVE  Holds(c)'
  BY DEF Holds, books

LEMMA QueueMoves ==
  ASSUME TypeOK, QueueInv, NEW c \in Cli, \A d \in Cli : d = c, NEW s \in Copying,
         pc[c] \in Copying, UNCHANGED <<books, job>>, Goto(c, s)
  PROVE  QueueInv'
<1>1. pc'[c] = s
  BY MovedOn
<1>2. book # Torn => Holds(c)'
  BY HoldsSame DEF QueueInv
<1>3. QED
  BY <1>1, <1>2, QueueStep DEF Copying

LEMMA QueueSettled ==
  ASSUME TypeOK, QueueInv, NEW c \in Cli, \A d \in Cli : d = c, pc[c] \in Copying, UNCHANGED books,
         NEW state \in States, NEW saved_as \in Place \cup {Nothing},
         NEW content \in Content \cup {Nothing}, Settled(c, state, saved_as, content)
  PROVE  QueueInv'
<1> DEFINE b == WithOutcome(job[c].book, job[c].k, state, saved_as, content)
<1>1. /\ b \in Books
      /\ \/ /\ job[c].command = "send" /\ pc'[c] = "open_tmp"
            /\ job'[c].book.transfers = Trim(b.transfers)
         \/ /\ job[c].command # "send" /\ job'[c].book = b
            /\ \/ pc'[c] = "open_tmp"
               \/ pc'[c] = "attempt" /\ job'[c].command = "retry"
  BY SettlesWith
<1>2. /\ DOMAIN b.transfers = DOMAIN job[c].book.transfers
      /\ \A i \in DOMAIN job[c].book.transfers :
           /\ b.transfers[i].id = job[c].book.transfers[i].id
           /\ i # job[c].k => b.transfers[i] = job[c].book.transfers[i]
  BY CurrentType, OutcomeType
<1> HIDE DEF b
<1>3. book # Torn => Holds(c)
  BY DEF QueueInv
<1>4. CASE /\ job[c].command = "send" /\ pc'[c] = "open_tmp"
           /\ job'[c].book.transfers = Trim(b.transfers)
  <2>1. ASSUME book # Torn, NEW i \in DOMAIN book.transfers, book.transfers[i].state = "Pending"
        PROVE  \E j \in DOMAIN job'[c].book.transfers :
                 job'[c].book.transfers[j].id = book.transfers[i].id
    <3>1. /\ i \in DOMAIN job[c].book.transfers /\ i # job[c].k
          /\ job[c].book.transfers[i].id = book.transfers[i].id
          /\ job[c].book.transfers[i].state = "Pending"
      BY <1>3, <1>4, <2>1 DEF Holds
    <3>2. /\ i \in DOMAIN b.transfers /\ b.transfers[i].state = "Pending"
          /\ b.transfers[i].id = book.transfers[i].id
      BY <1>2, <3>1
    <3>3. b.transfers \in Seq(Transfer)
      BY <1>1 DEF Books
    <3>4. PICK n \in DOMAIN Trim(b.transfers) : Trim(b.transfers)[n] = b.transfers[i]
      BY <3>2, <3>3, TrimKeeps
    <3>5. QED
      BY <1>4, <3>2, <3>4
  <2>2. book # Torn => Carries(c)'
    BY <2>1 DEF Carries, books
  <2>3. QED
    BY <1>4, <2>2, QueueStep DEF Copying
<1>5. CASE /\ job[c].command # "send" /\ job'[c].book = b
           /\ \/ pc'[c] = "open_tmp"
              \/ pc'[c] = "attempt" /\ job'[c].command = "retry"
  <2>1. ASSUME book # Torn, NEW i \in DOMAIN book.transfers
        PROVE  /\ i \in DOMAIN job'[c].book.transfers
               /\ job'[c].book.transfers[i].id = book.transfers[i].id
    BY <1>2, <1>3, <1>5, <2>1 DEF Holds
  <2>2. book # Torn => Carries(c)'
    BY <2>1 DEF Carries, books
  <2>3. job'[c].command = "retry" /\ book # Torn => Holds(c)'
    BY <2>1 DEF Holds, books
  <2>4. QED
    BY <1>5, <2>2, <2>3, QueueStep DEF Copying
<1>6. QED
  BY <1>1, <1>4, <1>5

LEMMA LoadQueue ==
  ASSUME TypeOK, NEW c \in Cli, \A d \in Cli : d = c, Load(c)
  PROVE  QueueInv'
<1>1. UNCHANGED books
  BY DEF Load
<1>2. book # Torn => book \in Books
  BY DEF TypeOK
<1>3. CASE Return(c)
  BY <1>1, <1>3, Moved, QueueStep DEF Return, Copying
<1>4. CASE job[c].command = "send" /\ LoadToSend(c)
  <2>1. CASE /\ book # Torn
             /\ Begin(c, [book EXCEPT !.transfers = Append(@, Sent(c))], Len(book.transfers) + 1)
    <3> DEFINE b == [book EXCEPT !.transfers = Append(@, Sent(c))]
               k == Len(book.transfers) + 1
    <3>1. b \in Books /\ k \in DOMAIN b.transfers /\ b.transfers = Append(book.transfers, Sent(c))
      BY <2>1, SentType
    <3>2. book.transfers \in Seq(Transfer) /\ DOMAIN book.transfers = 1..Len(book.transfers)
      BY <1>2, <2>1 DEF Books
    <3>3. k \in Nat
      BY <3>2
    <3>4. Begin(c, b, k)
      BY <2>1
    <3>5. \A i \in DOMAIN book.transfers :
            i # k /\ i \in DOMAIN b.transfers /\ b.transfers[i] = book.transfers[i]
      <4> HIDE DEF b, Sent
      <4>1. DOMAIN b.transfers = 1..k
        BY <3>1, <3>2
      <4>2. QED
        BY <3>1, <3>2, <4>1
    <3> HIDE DEF b, k
    <3>6. pc'[c] = "attempt" /\ job'[c].book = b /\ job'[c].k = k
      BY <3>1, <3>3, <3>4, BeginsWith
    <3>7. Holds(c)'
      BY <1>1, <3>5, <3>6 DEF Holds, books
    <3>8. QED
      BY <1>1, <3>6, <3>7, QueueStep DEF Copying
  <2>2. QED
    BY <1>3, <1>4, <2>1 DEF LoadToSend
<1>5. CASE job[c].command = "retry" /\ LoadToRetry(c)
  <2>1. CASE book # Torn /\ NextPending(book, 0) # {} /\ Begin(c, book, Min(NextPending(book, 0)))
    <3>1. Min(NextPending(book, 0)) \in Nat
      BY <1>2, <2>1, NextPendingType DEF Books
    <3>2. pc'[c] = "attempt" /\ job'[c].book = book /\ job'[c].command = "retry"
      BY <1>2, <1>5, <2>1, <3>1, BeginsWith
    <3>3. Holds(c)'
      BY <1>1, <3>2 DEF Holds, books
    <3>4. QED
      BY <1>1, <3>2, <3>3, QueueStep DEF Copying
  <2>2. QED
    BY <1>3, <1>5, <2>1 DEF LoadToRetry
<1>6. ASSUME NEW r \in BOOLEAN, book # Torn, Save(c, [book EXCEPT !.registered = r])
      PROVE  QueueInv'
  <2> DEFINE b == [book EXCEPT !.registered = r]
  <2>1. b \in Books /\ b.transfers = book.transfers
    BY <1>2, <1>6 DEF Books
  <2>2. Save(c, b)
    BY <1>6
  <2> HIDE DEF b
  <2>3. pc'[c] = "open_tmp" /\ job'[c].book = b
    BY <2>1, <2>2, SavesWith
  <2>4. Carries(c)'
    BY <1>1, <2>1, <2>3 DEF Carries, books
  <2>5. QED
    BY <1>1, <2>3, <2>4, QueueStep DEF Copying
<1>7. CASE LoadToAdd(c)
  BY <1>3, <1>6, <1>7 DEF LoadToAdd
<1>8. CASE LoadToRemove(c)
  BY <1>3, <1>6, <1>8 DEF LoadToRemove
<1>9. QED
  BY <1>4, <1>5, <1>7, <1>8 DEF Load

LEMMA CopyingQueue ==
  ASSUME TypeOK, QueueInv, NEW c \in Cli, \A d \in Cli : d = c,
         \/ Attempt(c) \/ Look(c) \/ Copy(c) \/ Verify(c) \/ PlacePart(c)
         \/ Rename(c) \/ Clean(c) \/ SettleError(c)
  PROVE  QueueInv'
<1>1. UNCHANGED books /\ pc[c] \in Copying
  BY DEF Attempt, Look, Copy, Verify, PlacePart, Rename, Clean, SettleError, At, Copying
<1>2. ASSUME NEW s \in Copying, Goto(c, s), UNCHANGED job PROVE QueueInv'
  BY <1>1, <1>2, QueueMoves
<1>3. ASSUME NEW s \in Copying, NEW p \in Place, Goto(c, s), Set(c, [job[c] EXCEPT !.to = p])
      PROVE  QueueInv'
  <2>1. pc'[c] = s /\ (book # Torn => Holds(c)')
    BY <1>1, <1>3, TargetsAt, HoldsSame DEF QueueInv
  <2>2. QED
    BY <1>1, <2>1, QueueStep DEF Copying
<1>4. CASE Attempt(c)
  BY <1>1, <1>2, <1>4, QueueSettled DEF Attempt, States, Copying
<1>5. CASE Look(c)
  <2>1. Original(c) \in Place /\ source[Current(c).file] \in Content \cup {Nothing}
    BY <1>1, CurrentType
  <2>2. CASE Settled(c, "AlreadyThere", Original(c), source[Current(c).file])
    BY <1>1, <2>1, <2>2, QueueSettled DEF States
  <2>3. "copy" \in Copying /\ "settle" \in Copying
    BY DEF Copying
  <2>4. QED
    BY <1>2, <1>3, <1>5, <2>1, <2>2, <2>3 DEF Look
<1>6. CASE Copy(c) \/ Clean(c)
  BY <1>2, <1>6 DEF Copy, Clean, Copying
<1>7. CASE Verify(c)
  <2>1. CASE Goto(c, "place") /\ Set(c, [job[c] EXCEPT !.checked = source[Current(c).file]])
    <3> DEFINE x == source[Current(c).file]
               before == job[c]
               j == [before EXCEPT !.checked = x]
    <3>1. before \in Jobs
      BY DEF TypeOK
    <3>2. j.book = before.book /\ j.k = before.k /\ j.command = before.command
      <4> HIDE DEF before, x
      <4>1. QED
        BY <3>1 DEF Jobs
    <3>3. Set(c, j)
      BY <2>1
    <3> HIDE DEF j
    <3>4. /\ pc'[c] = "place" /\ job'[c].book = job[c].book /\ job'[c].k = job[c].k
          /\ job'[c].command = job[c].command
      BY <2>1, <3>2, <3>3, Moved
    <3>5. book # Torn => Holds(c)'
      BY <1>1, <3>4, HoldsSame DEF QueueInv
    <3>6. QED
      BY <1>1, <3>4, <3>5, QueueStep DEF Copying
  <2>2. QED
    BY <1>2, <1>7, <2>1 DEF Verify, Copying
<1>8. CASE PlacePart(c)
  BY <1>2, <1>3, <1>8 DEF PlacePart, Copying
<1>9. CASE Rename(c)
  <2>1. job[c].to \in Place \cup {Nothing} /\ job[c].checked \in Content \cup {Nothing}
    BY DEF TypeOK, Jobs
  <2>2. CASE Settled(c, "Completed", job[c].to, job[c].checked)
    BY <1>1, <2>1, <2>2, QueueSettled DEF States
  <2>3. QED
    BY <1>2, <1>9, <2>2 DEF Rename, Copying
<1>10. CASE SettleError(c)
  BY <1>1, <1>10, QueueSettled DEF SettleError, States
<1>11. QED
  BY <1>4, <1>5, <1>6, <1>7, <1>8, <1>9, <1>10

(* The rename of the book puts what the process carries in its place.      *)
LEMMA SaveToQueue ==
  ASSUME TypeOK, QueueInv, NEW c \in Cli, \A d \in Cli : d = c,
         OpenTmp(c) \/ WriteTmp(c) \/ Replace(c)
  PROVE  /\ QueueInv'
         /\ (UNCHANGED book \/ (book' = job[c].book /\ (book # Torn => Carries(c))))
<1>1. CASE OpenTmp(c)
  <2>1. pc'[c] = "write_tmp" /\ bookTmp' = Torn /\ UNCHANGED <<book, job>> /\ pc[c] = "open_tmp"
    BY <1>1, MovedOn DEF OpenTmp, At
  <2>2. QED
    BY <2>1 DEF QueueInv, Carries, Copying
<1>2. CASE WriteTmp(c)
  <2>1. pc[c] = "write_tmp" /\ bookTmp = Torn
    BY <1>2 DEF WriteTmp, At, QueueInv
  <2>2. pc'[c] = "replace" /\ bookTmp' = job[c].book /\ UNCHANGED <<book, job>>
    BY <1>2, <2>1, MovedOn DEF WriteTmp
  <2>3. QED
    BY <2>1, <2>2 DEF QueueInv, Carries, Copying
<1>3. CASE Replace(c)
  <2>1. pc[c] = "replace" /\ bookTmp = job[c].book /\ (book # Torn => Carries(c))
    BY <1>3 DEF Replace, At, QueueInv
  <2>2. bookTmp # Nothing
    BY <2>1 DEF TypeOK, Jobs
  <2>3. pc'[c] = "idle" /\ book' = job[c].book
    BY <1>3, <2>1, <2>2, MovedOn DEF Replace, Return
  <2>4. QueueInv'
    BY <2>3 DEF QueueInv, Copying
  <2>5. QED
    BY <2>1, <2>3, <2>4
<1>4. QED
  BY <1>1, <1>2, <1>3

WaitingKept ==
    book # Torn /\ book' # Torn =>
      \A i \in DOMAIN book.transfers : book.transfers[i].state = "Pending" =>
        \E j \in DOMAIN book'.transfers : book'.transfers[j].id = book.transfers[i].id

LEMMA NextQueue ==
  ASSUME Alone PROVE TypeOK /\ QueueInv /\ [Next]_vars => QueueInv' /\ WaitingKept
<1> SUFFICES ASSUME TypeOK, QueueInv, [Next]_vars PROVE QueueInv' /\ WaitingKept
  OBVIOUS
<1>1. \A c, d \in Cli : c = d
  BY DEF Alone
<1>2. UNCHANGED book => WaitingKept
  BY DEF WaitingKept
<1>3. ASSUME NEW c \in Cli, OpenTmp(c) \/ WriteTmp(c) \/ Replace(c) PROVE QueueInv' /\ WaitingKept
  <2>1. /\ QueueInv'
        /\ (UNCHANGED book \/ (book' = job[c].book /\ (book # Torn => Carries(c))))
    BY <1>1, <1>3, SaveToQueue
  <2>2. QED
    BY <1>2, <2>1 DEF WaitingKept, Carries
<1>4. ASSUME NEW c \in Cli, Load(c) PROVE QueueInv' /\ WaitingKept
  BY <1>1, <1>2, <1>4, LoadQueue DEF Load, books
<1>5. ASSUME NEW c \in Cli,
             \/ Attempt(c) \/ Look(c) \/ Copy(c) \/ Verify(c) \/ PlacePart(c)
             \/ Rename(c) \/ Clean(c) \/ SettleError(c)
      PROVE  QueueInv' /\ WaitingKept
  <2>1. QueueInv'
    BY <1>1, <1>5, CopyingQueue
  <2>2. UNCHANGED book
    BY <1>5 DEF Attempt, Look, Copy, Verify, PlacePart, Rename, Clean, SettleError, books
  <2>3. QED
    BY <1>2, <2>1, <2>2
<1>6. ASSUME NEW c \in Cli, UNCHANGED books, pc'[c] \in {"idle", "load"} PROVE QueueInv' /\ WaitingKept
  BY <1>1, <1>2, <1>6, QueueStep DEF books, Copying
<1>7. ASSUME NEW c \in Cli, Kill(c) PROVE QueueInv' /\ WaitingKept
  BY <1>6, <1>7, MovedOn DEF Kill, Return
<1>8. ASSUME NEW c \in Cli, NEW command \in Commands, NEW f \in File, Call(c, command, f)
      PROVE  QueueInv' /\ WaitingKept
  BY <1>6, <1>8, MovedOn DEF Call
<1>9. CASE UNCHANGED <<pc, job, books>>
  BY <1>2, <1>9 DEF QueueInv, Holds, Carries, books
<1>10. QED
  BY <1>3, <1>4, <1>5, <1>7, <1>8, <1>9
  DEF Next, Progress, UserEdits, OtherWrites, Disconnect, Reconnect, vars

(* "A transfer that waits is not dropped": for one command at a time the   *)
(* rewrite of the whole book, trimmed or not, keeps each transfer that was *)
(* waiting, with or without an outcome.                                    *)
THEOREM WaitingIsKept ==
  ASSUME Alone PROVE Spec => PendingNotLost
<1>1. WaitingKept => [WaitingKept]_vars
  OBVIOUS
<1>2. TypeOK /\ QueueInv /\ [Next]_vars => [WaitingKept]_vars
  BY <1>1, NextQueue
<1>3. Spec => [][WaitingKept]_vars
  BY <1>2, InitType, NextType, InitQueue, NextQueue, PTL DEF Spec
<1>4. QED
  BY <1>3 DEF WaitingKept, PendingNotLost

=============================================================================
