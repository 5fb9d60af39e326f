------------------------------ MODULE ChatProofs ------------------------------
(***************************************************************************)
(* Theorems about conversations, for any handlers, commands, providers,    *)
(* models, limits, kills and failures.  A command that runs beside another *)
(* program is excluded (Overlap): it shares no lock with it.               *)
(***************************************************************************)
EXTENDS Chat, SequenceTheorems, WellFoundedInduction, TLAPS

USE ChatDataAssumption, ChatAssumption

-----------------------------------------------------------------------------
(* Lists of messages.                                                      *)

LEMMA LastOfList ==
  ASSUME NEW s \in Seq(Messages), NEW n \in Nat
  PROVE  /\ Last(s, n) \in Seq(Messages)
         /\ \A i \in DOMAIN Last(s, n) : \E k \in DOMAIN s : Last(s, n)[i] = s[k]
         /\ n > 0 /\ s # <<>> => /\ Last(s, n) # <<>>
                                 /\ Last(s, n)[Len(Last(s, n))] = s[Len(s)]
<1>1. CASE n >= Len(s)
  BY <1>1, LenProperties DEF Last
<1>2. CASE n < Len(s)
  <2> DEFINE m == Len(s) - n + 1
             L == SubSeq(s, m, Len(s))
  <2>1. Last(s, n) = L /\ m \in Int /\ Len(s) \in Nat /\ m >= 1 /\ DOMAIN s = 1..Len(s)
    BY <1>2, LenProperties DEF Last
  <2>2. \A i \in m..Len(s) : s[i] \in Messages
    BY <2>1, ElementOfSeq
  <2>3. /\ L \in Seq(Messages)
        /\ Len(L) = IF m <= Len(s) THEN Len(s) - m + 1 ELSE 0
        /\ \A i \in 1..Len(s) - m + 1 : L[i] = s[m + i - 1]
    <3> HIDE DEF m
    <3>1. QED
      BY <2>1, <2>2, SubSeqProperties
  <2>4. Len(L) = n /\ DOMAIN L = 1..n
    BY <2>1, <2>3, LenProperties
  <2> HIDE DEF L
  <2>5. \A i \in DOMAIN L : \E k \in DOMAIN s : L[i] = s[k]
    <3> SUFFICES ASSUME NEW i \in 1..n PROVE \E k \in DOMAIN s : L[i] = s[k]
      BY <2>4
    <3>1. n = Len(s) - m + 1
      BY <2>1
    <3>2. m + i - 1 \in DOMAIN s /\ i \in 1..Len(s) - m + 1
      <4> HIDE DEF m
      <4>1. QED
        BY <2>1, <3>1
    <3>3. L[i] = s[m + i - 1]
      BY <2>3, <3>2
    <3>4. QED
      BY <3>2, <3>3
  <2>6. n > 0 => L # <<>> /\ L[Len(L)] = s[Len(s)]
    <3>1. n = Len(s) - m + 1
      BY <2>1
    <3> SUFFICES ASSUME n > 0 PROVE L # <<>> /\ L[n] = s[Len(s)]
      BY <2>4
    <3>2. L[n] = s[m + n - 1]
      <4> HIDE DEF m
      <4>1. QED
        BY <2>1, <2>3, <3>1
    <3>3. m + n - 1 = Len(s)
      <4> HIDE DEF m
      <4>1. QED
        BY <2>1, <3>1
    <3>4. L # <<>>
      BY <2>4
    <3>5. QED
      BY <3>2, <3>3, <3>4
  <2>7. QED
    BY <2>1, <2>3, <2>5, <2>6
<1>3. QED
  BY <1>1, <1>2, LenProperties

(* A message that is added is the last, and the others were there before.  *)
LEMMA Added ==
  ASSUME NEW s \in Seq(Messages), NEW m \in Messages
  PROVE  /\ Add(s, m) \in Seq(Messages) /\ Add(s, m) # <<>>
         /\ Add(s, m)[Len(Add(s, m))] = m
         /\ \A i \in DOMAIN Add(s, m) :
               Add(s, m)[i] = m \/ \E k \in DOMAIN s : Add(s, m)[i] = s[k]
<1> DEFINE a == Append(s, m)
<1>1. /\ a \in Seq(Messages) /\ a # <<>> /\ Len(a) = Len(s) + 1
      /\ \A i \in 1..Len(s) : a[i] = s[i]
      /\ a[Len(s) + 1] = m /\ Len(s) \in Nat
  BY AppendProperties, LenProperties
<1> HIDE DEF a
<1>2. DOMAIN a = 1..Len(s) + 1 /\ DOMAIN s = 1..Len(s)
  BY <1>1, LenProperties
<1>3. \A k \in DOMAIN a : a[k] = m \/ \E l \in DOMAIN s : a[k] = s[l]
  BY <1>1, <1>2
<1>4. MaxMessages \in Nat /\ MaxMessages > 0 /\ Add(s, m) = Last(a, MaxMessages)
  BY DEF Add, a
<1>5. /\ Last(a, MaxMessages) \in Seq(Messages) /\ Last(a, MaxMessages) # <<>>
      /\ Last(a, MaxMessages)[Len(Last(a, MaxMessages))] = a[Len(a)]
      /\ \A i \in DOMAIN Last(a, MaxMessages) : \E k \in DOMAIN a : Last(a, MaxMessages)[i] = a[k]
  BY <1>1, <1>4, LastOfList
<1>6. QED
  BY <1>1, <1>3, <1>4, <1>5

LEMMA GreatestExists ==
  ASSUME NEW most \in Nat, NEW S \in SUBSET (0..most), S # {}
  PROVE  Max(S) \in S
<1> DEFINE T == {most - n : n \in S}
<1>0. \A n \in S : n \in Nat /\ most - n \in Nat
  OBVIOUS
<1>1. T \subseteq Nat /\ T # {}
  BY <1>0
<1>2. PICK x \in T : \A y \in T : ~(<<y, x>> \in OpToRel(<, Nat))
  BY <1>1, NatLessThanWellFounded, WFMin
<1>3. \A y \in T : y >= x
  <2> SUFFICES ASSUME NEW y \in T, ~(y >= x) PROVE FALSE
    OBVIOUS
  <2>1. x \in Nat /\ y \in Nat /\ y < x
    BY <1>1
  <2>2. <<y, x>> \in OpToRel(<, Nat)
    BY <2>1 DEF OpToRel
  <2>3. QED
    BY <1>2, <2>2
<1>4. PICK n \in S : x = most - n
  OBVIOUS
<1>5. \A k \in S : n >= k
  <2> SUFFICES ASSUME NEW k \in S PROVE n >= k
    OBVIOUS
  <2>1. most - k >= most - n
    BY <1>3, <1>4
  <2>2. QED
    BY <1>0, <2>1
<1>6. QED
  BY <1>4, <1>5 DEF Max

LEMMA ContextIsList ==
  ASSUME NEW s \in Seq(Messages) PROVE Context(s) \in Seq(Messages)
<1> DEFINE Fits(n) == n <= 1 \/ Length(Last(s, n)) <= ContextChars
           most    == Min({ContextMessages, Len(s)})
           S       == {n \in 0..most : Fits(n)}
<1>1. most \in Nat
  <2>1. Len(s) \in Nat /\ ContextMessages \in Nat
    BY LenProperties
  <2>2. \E x \in {ContextMessages, Len(s)} : \A y \in {ContextMessages, Len(s)} : x <= y
    BY <2>1
  <2>3. most \in {ContextMessages, Len(s)}
    BY <2>2 DEF Min
  <2>4. QED
    BY <2>1, <2>3
<1> HIDE DEF most
<1>2. 0 \in S
  BY <1>1
<1>3. Max(S) \in S
  BY <1>1, <1>2, GreatestExists
<1>4. Max(S) \in Nat
  BY <1>1, <1>3
<1>5. Context(s) = Last(s, Max(S))
  BY DEF Context, most
<1> HIDE DEF S
<1>6. QED
  BY <1>4, <1>5, LastOfList

-----------------------------------------------------------------------------
(* Types.                                                                  *)

LEMMA FileTypes ==
  /\ Absent \in Files /\ Corrupt \in Files
  /\ \A s \in Seq(Messages) : Talk(s) \in Files /\ Talk(s).is = "talk" /\ Talk(s).messages = s
  /\ Talk(<<>>) \in Files
  /\ \A f \in Files : f.is = "talk" => f.messages \in Seq(Messages) /\ f = Talk(f.messages)
<1>1. <<>> \in Seq(Messages)
  BY EmptySeq
<1>2. QED
  BY <1>1 DEF Files, Absent, Corrupt, Talk

LEMMA NoJobType == NoJob \in Jobs
<1>1. /\ (CHOOSE c \in Convs : TRUE) \in Convs
      /\ (CHOOSE p \in Providers : TRUE) \in Providers
      /\ (CHOOSE m \in Models : TRUE) \in Models
  OBVIOUS
<1>2. 0 \in Texts /\ User \in Authors
  BY DEF Texts, Authors
<1>3. QED
  BY <1>1, <1>2, FileTypes DEF NoJob, Jobs, Operations

LEMMA RequestTypes ==
  ASSUME NEW j \in Requests PROVE j \in Jobs /\ j.role = "question" /\ ~j.warned
<1>1. ASSUME NEW ops \in SUBSET Operations, NEW convs \in SUBSET Convs,
             NEW providers \in SUBSET Providers, NEW models \in SUBSET Models,
             NEW texts \in SUBSET Texts, j \in JobsFor(ops, convs, providers, models, texts)
      PROVE  j \in Jobs /\ j.role = "question" /\ ~j.warned
  <2>1. PICK op \in ops, c \in convs, p \in providers, m \in models, text \in texts :
          j = JobFor(op, c, p, m, text)
    BY <1>1 DEF JobsFor
  <2>2. NoJob.role = "question" /\ ~NoJob.warned
    BY DEF NoJob
  <2>3. QED
    BY <2>1, <2>2, NoJobType DEF Jobs, JobFor
<1>2. /\ {"send"} \subseteq Operations /\ {"create", "delete"} \subseteq Operations
      /\ {"model"} \subseteq Operations /\ {0} \subseteq Texts
      /\ {NoJob.conv} \subseteq Convs /\ {NoJob.provider} \subseteq Providers
      /\ {NoJob.model} \subseteq Models
  BY NoJobType DEF Operations, Texts, Jobs
<1>3. QED
  BY <1>1, <1>2 DEF Requests

(* The places and locals of the calls, and the lock.                       *)
CallTypes == /\ pc \in [Calls -> Steps] /\ job \in [Calls -> Jobs]
             /\ lock \in Tasks \cup {Free}

LEMMA LeaveTypes ==
  ASSUME CallTypes, NEW t \in Calls, Leave(t) PROVE CallTypes'
  BY NoJobType DEF CallTypes, Leave, Goto, Set, Steps

LEMMA SetTypes ==
  ASSUME CallTypes, NEW t \in Calls, NEW s \in Steps, NEW j \in Jobs, Goto(t, s), Set(t, j),
         lock' \in Tasks \cup {Free}
  PROVE  CallTypes'
  BY DEF CallTypes, Goto, Set

LEMMA FailTypes ==
  ASSUME CallTypes, NEW t \in Calls, AppendFails(t) PROVE CallTypes'
<1>1. [job[t] EXCEPT !.role = "answer", !.warned = TRUE] \in Jobs
  <2>1. job[t] \in Jobs
    BY DEF CallTypes
  <2>2. ASSUME NEW j \in Jobs PROVE [j EXCEPT !.role = "answer", !.warned = TRUE] \in Jobs
    BY DEF Jobs
  <2>3. QED
    BY <2>1, <2>2
<1>2. "load" \in Steps /\ lock \in Tasks \cup {Free}
  BY DEF Steps, CallTypes
<1>3. QED
  BY <1>1, <1>2, SetTypes, LeaveTypes DEF AppendFails

(* Whoever is asked is an author, and what model_name makes of it is one.  *)
LEMMA AskedTypes ==
  ASSUME model \in [Providers -> Models], NEW p \in Providers
  PROVE  /\ Asked(p) \subseteq Providers \X Models /\ <<p, model[p]>> \in Providers \X Models
         /\ \A who \in Providers \X Models :
               who # User /\ who \in Authors /\ Named(who) \in Authors /\ Named(who) # User
<1>1. Asked(p) \subseteq Providers \X Models /\ <<p, model[p]>> \in Providers \X Models
  BY DEF Asked
<1>2. ASSUME NEW who \in Providers \X Models
      PROVE  who # User /\ who \in Authors /\ Named(who) \in Authors /\ Named(who) # User
  BY <1>2 DEF Authors, Named
<1>3. QED
  BY <1>1, <1>2

(* A turn of a call is a message, once its text can be stored.             *)
LEMMA TurnType ==
  ASSUME CallTypes, model \in [Providers -> Models], NEW t \in Calls, Storable(Text(t))
  PROVE  Turn(t) \in Messages
<1>1. job[t] \in Jobs
  BY DEF CallTypes
<1>2. Text(t) \in Texts /\ Text(t) > 0
  BY <1>1 DEF Text, Jobs, Storable
<1>3. Author(t) \in Authors /\ User \in Authors
  <2>1. /\ job[t].provider \in Providers /\ job[t].model \in Models
        /\ job[t].really \in Authors /\ User \in Authors
    BY <1>1 DEF Jobs, Authors
  <2>2. <<job[t].provider, job[t].model>> \in Authors
    BY <2>1 DEF Authors
  <2>3. Named(<<job[t].provider, model[job[t].provider]>>) \in Authors
    BY <2>1, AskedTypes
  <2>4. QED
    BY <2>1, <2>2, <2>3 DEF Author
<1>4. (IF job[t].role = "question" THEN User ELSE job[t].really) \in Authors
  BY <1>1, <1>3 DEF Jobs
<1>5. (IF Text(t) > MaxChars THEN MaxChars ELSE Text(t)) \in 1..MaxChars
      /\ (Text(t) > MaxChars) \in BOOLEAN
  BY <1>2 DEF Texts
<1>6. QED
  BY <1>3, <1>4, <1>5 DEF Turn, Message, Messages

LEMMA InitTypes == Init => TypeOK
<1> SUFFICES ASSUME Init PROVE TypeOK
  OBVIOUS
<1>1. CallTypes
  BY NoJobType DEF Init, CallTypes, Steps
<1>2. NoJob.model \in Models
  BY NoJobType DEF Jobs
<1>3. file \in [Convs -> Files] /\ tmp \in [Convs -> Files]
  BY FileTypes DEF Init
<1>4. model \in [Providers -> Models] /\ past \in [kills: 0..MaxKills, changes: 0..MaxChanges]
  BY <1>2 DEF Init
<1>5. QED
  BY <1>1, <1>3, <1>4 DEF Init, TypeOK, CallTypes

LEMMA NextTypes == TypeOK /\ [Next]_vars => TypeOK'
<1> SUFFICES ASSUME TypeOK, [Next]_vars PROVE TypeOK'
  OBVIOUS
<1>0. CallTypes
  BY DEF TypeOK, CallTypes
<1> DEFINE Rest == <<disk, model, allowed, deleted, past>>
<1>a. ASSUME CallTypes', UNCHANGED Rest PROVE TypeOK'
  BY <1>a DEF TypeOK, CallTypes, disk
<1>b. ASSUME NEW t \in Calls, Leave(t) PROVE CallTypes'
  BY <1>0, <1>b, LeaveTypes
<1>c. {"query", "waiting", "load", "open_tmp", "write_tmp", "rename"} \subseteq Steps
  BY DEF Steps
<1>1. ASSUME NEW t \in Calls, NEW j \in Requests, Request(t, j) PROVE TypeOK'
  <2>1. j \in Jobs
    BY RequestTypes
  <2>2. [j EXCEPT !.buf = IF j.op = "create" THEN Talk(<<>>) ELSE Absent] \in Jobs
    BY <2>1, FileTypes DEF Jobs
  <2>3. First(j.op) \in Steps
    BY <2>1 DEF Jobs, Operations, First, Steps
  <2>4. lock' \in Tasks \cup {Free}
    BY <1>0, <1>1 DEF Request, CallTypes
  <2>5. QED
    BY <1>0, <1>1, <1>a, <2>2, <2>3, <2>4, SetTypes DEF Request
<1>2. ASSUME NEW t \in Calls, Busy(t) PROVE TypeOK'
  BY <1>2, <1>a, <1>b, <1>c DEF Busy
<1>3. ASSUME NEW t \in Calls, Check(t) PROVE TypeOK'
  <2>1. CASE Leave(t)
    BY <1>3, <1>a, <1>b, <1>c, <2>1 DEF Check
  <2>2. CASE /\ File(t).is = "talk" /\ Goto(t, "query") /\ UNCHANGED lock
             /\ Set(t, [job[t] EXCEPT !.seen = Talk(Context(File(t).messages))])
    <3>1. job[t] \in Jobs /\ File(t) \in Files
      BY DEF TypeOK, File, Jobs
    <3>2. Talk(Context(File(t).messages)) \in Files
      BY <2>2, <3>1, FileTypes, ContextIsList
    <3>3. [job[t] EXCEPT !.seen = Talk(Context(File(t).messages))] \in Jobs
      BY <3>1, <3>2 DEF Jobs
    <3>4. QED
      BY <1>0, <1>3, <1>a, <1>c, <2>2, <3>3, SetTypes DEF Check, CallTypes
  <2>3. QED
    BY <1>3, <2>1, <2>2 DEF Check
<1>4. ASSUME NEW t \in Calls, Query(t) PROVE TypeOK'
  <2>1. ASSUME NEW who \in Asked(job[t].provider)
        PROVE  [job[t] EXCEPT !.really = who] \in Jobs
    <3>1. job[t] \in Jobs /\ job[t].provider \in Providers
      BY DEF TypeOK, Jobs
    <3>2. who \in Authors
      BY <2>1, <3>1, AskedTypes DEF TypeOK
    <3>3. QED
      BY <3>1, <3>2 DEF Jobs
  <2>2. QED
    BY <1>0, <1>4, <1>a, <1>b, <1>c, <2>1, SetTypes DEF Query, CallTypes
<1>5. ASSUME NEW t \in Calls, NEW text \in Texts, Answered(t, text) PROVE TypeOK'
  <2>1. [job[t] EXCEPT !.answer = text] \in Jobs
    BY DEF TypeOK, Jobs
  <2>2. QED
    BY <1>0, <1>5, <1>a, <1>c, <2>1, SetTypes DEF Answered, CallTypes
<1>6. ASSUME NEW t \in Calls, GiveUp(t) PROVE TypeOK'
  BY <1>6, <1>a, <1>b, <1>c DEF GiveUp
<1>7. ASSUME NEW t \in Calls, Load(t) PROVE TypeOK'
  <2>1. CASE AppendFails(t)
    BY <1>0, <1>7, <1>a, <2>1, FailTypes DEF Load
  <2>2. CASE /\ Storable(Text(t)) /\ File(t).is = "talk" /\ Goto(t, "open_tmp") /\ UNCHANGED lock
             /\ Set(t, [job[t] EXCEPT !.buf = Talk(Add(File(t).messages, Turn(t)))])
    <3>1. job[t] \in Jobs /\ File(t) \in Files
      BY DEF TypeOK, File, Jobs
    <3>2. Add(File(t).messages, Turn(t)) \in Seq(Messages)
      BY <1>0, <2>2, <3>1, FileTypes, TurnType, Added DEF TypeOK
    <3>3. [job[t] EXCEPT !.buf = Talk(Add(File(t).messages, Turn(t)))] \in Jobs
      BY <3>1, <3>2, FileTypes DEF Jobs
    <3>4. QED
      BY <1>0, <1>7, <1>a, <1>c, <2>2, <3>3, SetTypes DEF Load, CallTypes
  <2>3. QED
    BY <1>7, <2>1, <2>2 DEF Load
<1>d. ASSUME NEW t \in Calls, NEW s \in Steps, Goto(t, s), UNCHANGED <<job, lock>> PROVE CallTypes'
  BY <1>0, <1>d DEF CallTypes, Goto
<1>8. ASSUME NEW t \in Calls, OpenTmp(t) PROVE TypeOK'
  <2>1. CallTypes'
    BY <1>0, <1>8, <1>c, <1>d, FailTypes DEF OpenTmp
  <2>2. tmp' \in [Convs -> Files]
    BY <1>8, FileTypes DEF OpenTmp, TypeOK
  <2>3. QED
    BY <1>8, <2>1, <2>2 DEF OpenTmp, TypeOK, CallTypes
<1>9. ASSUME NEW t \in Calls, WriteTmp(t) PROVE TypeOK'
  <2>1. CallTypes'
    BY <1>0, <1>9, <1>c, <1>d, FailTypes DEF WriteTmp
  <2>2. tmp' \in [Convs -> Files]
    BY <1>9 DEF WriteTmp, TypeOK, Jobs
  <2>3. QED
    BY <1>9, <2>1, <2>2 DEF WriteTmp, TypeOK, CallTypes
<1>10. ASSUME NEW t \in Calls, Rename(t) PROVE TypeOK'
  <2>1. CASE AppendFails(t) /\ UNCHANGED disk
    BY <1>0, <1>10, <1>a, <2>1, FailTypes DEF Rename
  <2>2. CASE Saved(t)
    <3>1. [job[t] EXCEPT !.role = "answer"] \in Jobs
      BY DEF TypeOK, Jobs
    <3>2. CallTypes'
      BY <1>0, <1>b, <1>c, <2>2, <3>1, SetTypes DEF Saved, CallTypes
    <3>3. /\ file' \in {file, [file EXCEPT ![job[t].conv] = tmp[job[t].conv]]}
          /\ tmp' \in {tmp, [tmp EXCEPT ![job[t].conv] = Absent]}
      BY <1>10 DEF Rename, disk
    <3>4. job[t].conv \in Convs
      BY DEF TypeOK, Jobs
    <3>5. file' \in [Convs -> Files] /\ tmp' \in [Convs -> Files]
      <4>1. file \in [Convs -> Files] /\ tmp \in [Convs -> Files]
        BY DEF TypeOK
      <4>2. tmp[job[t].conv] \in Files /\ Absent \in Files
        BY <3>4, <4>1, FileTypes
      <4>3. file' \in [Convs -> Files]
        BY <3>3, <4>1, <4>2
      <4>4. tmp' \in [Convs -> Files]
        BY <3>3, <4>1, <4>2
      <4>5. QED
        BY <4>3, <4>4
    <3>6. QED
      BY <1>10, <3>2, <3>5 DEF Rename, TypeOK, CallTypes
  <2>3. QED
    BY <1>10, <2>1, <2>2 DEF Rename
<1>11. ASSUME NEW t \in Calls, Remove(t) PROVE TypeOK'
  <2>1. CallTypes'
    BY <1>11, <1>b, <1>c DEF Remove
  <2>2. file' \in [Convs -> Files] /\ deleted' \subseteq Convs
    BY <1>11, FileTypes DEF Remove, TypeOK, Jobs
  <2>3. QED
    BY <1>11, <2>1, <2>2 DEF Remove, TypeOK, CallTypes
<1>12. ASSUME NEW t \in Calls, SetModel(t) PROVE TypeOK'
  <2>1. CallTypes'
    BY <1>12, <1>b, <1>c DEF SetModel
  <2>2. model' \in [Providers -> Models]
    BY <1>12 DEF SetModel, TypeOK, Jobs
  <2>3. QED
    BY <1>12, <2>1, <2>2 DEF SetModel, TypeOK, CallTypes, disk
<1>13. ASSUME NEW p \in Providers, ConsentChanges(p) PROVE TypeOK'
  BY <1>13 DEF ConsentChanges, TypeOK, disk
<1>14. ASSUME NEW dead, Kill(dead) PROVE TypeOK'
  BY <1>14, NoJobType DEF Kill, TypeOK, disk, Steps
<1>15. CASE UNCHANGED vars
  BY <1>15 DEF vars, disk, TypeOK
<1>16. QED
  BY <1>1, <1>2, <1>3, <1>4, <1>5, <1>6, <1>7, <1>8, <1>9, <1>10, <1>11, <1>12, <1>13, <1>14,
     <1>15 DEF Next, Step

(* Whatever runs together and whatever is killed or fails, the calls, the  *)
(* lock and the files have the types of the module.                        *)
THEOREM ChatTypeCorrect == Spec => []TypeOK
  BY InitTypes, NextTypes, PTL DEF Spec

-----------------------------------------------------------------------------
(* The lock, and what follows for commands that run alone.                 *)

(* A handler works exactly while it holds the chat lock.                   *)
HoldsLock == \A t \in Tasks : Running(t) <=> lock = t

(* Without overlap no two calls are under way.                             *)
Alone == \A t, u \in Calls : Running(t) /\ Running(u) => t = u

LEMMA LeaveLock ==
  ASSUME TypeOK, HoldsLock, NEW t \in Calls, Leave(t)
  PROVE  HoldsLock' /\ (Alone => Alone')
  BY DEF TypeOK, HoldsLock, Alone, Leave, Goto, Running

LEMMA GoOnLock ==
  ASSUME TypeOK, HoldsLock, NEW t \in Calls, Running(t),
         NEW s, s \notin {"idle", "done"}, Goto(t, s), UNCHANGED lock
  PROVE  HoldsLock' /\ (Alone => Alone')
  BY DEF TypeOK, HoldsLock, Alone, Goto, Running

LEMMA StepLock ==
  ASSUME TypeOK, HoldsLock, NEW t \in Calls, Step(t)
  PROVE  HoldsLock' /\ (Alone => Alone')
<1>1. Running(t)
  BY DEF Step, Check, Query, GiveUp, Answered, Load, OpenTmp, WriteTmp, Rename, Remove, SetModel,
     At, Running
<1>2. CASE Leave(t)
  BY <1>2, LeaveLock
<1>3. CASE \E s : s \notin {"idle", "done"} /\ Goto(t, s) /\ UNCHANGED lock
  BY <1>1, <1>3, GoOnLock
<1>4. QED
  BY <1>2, <1>3 DEF Step, Check, Query, GiveUp, Answered, Load, OpenTmp, WriteTmp, Rename, Remove,
     SetModel, AppendFails, Saved

LEMMA RequestLock ==
  ASSUME TypeOK, HoldsLock, NEW t \in Calls, NEW j \in Requests, Request(t, j)
  PROVE  HoldsLock' /\ (~Overlap /\ Alone => Alone')
<1>1. j.op \in Operations
  BY RequestTypes DEF Jobs
<1>2. First(j.op) \notin {"idle", "done"}
  BY <1>1 DEF First, Operations
<1>3. pc' = [pc EXCEPT ![t] = First(j.op)] /\ At(t, "idle") /\ MayBegin(t)
      /\ (t \in Tasks => lock = Free) /\ lock' = IF t \in Tasks THEN t ELSE lock
  BY DEF Request, Goto
<1>4. HoldsLock'
  BY <1>2, <1>3 DEF TypeOK, HoldsLock, Running, At
<1>5. ASSUME ~Overlap PROVE \A u \in Calls : ~Running(u)
  BY <1>3, <1>5 DEF MayBegin, HoldsLock, Running, At
<1>6. ASSUME ~Overlap PROVE Alone'
  BY <1>3, <1>5, <1>6 DEF TypeOK, Alone, Running
<1>7. QED
  BY <1>4, <1>6

LEMMA KillLock ==
  ASSUME TypeOK, HoldsLock, NEW dead \in {Tasks} \cup {{t} : t \in Commands}, Kill(dead)
  PROVE  HoldsLock' /\ (Alone => Alone')
  BY DEF TypeOK, HoldsLock, Alone, Kill, Running

LEMMA NextLock ==
  ASSUME TypeOK, HoldsLock, [Next]_vars
  PROVE  HoldsLock' /\ (~Overlap /\ Alone => Alone')
<1>1. ASSUME NEW t \in Calls, Busy(t) PROVE HoldsLock' /\ (Alone => Alone')
  BY <1>1, LeaveLock DEF Busy
<1>2. ASSUME NEW a, ConsentChanges(a) PROVE HoldsLock' /\ (Alone => Alone')
  BY <1>2 DEF ConsentChanges, HoldsLock, Alone, Running
<1>3. CASE UNCHANGED vars
  BY <1>3 DEF vars, HoldsLock, Alone, Running
<1>4. QED
  BY <1>1, <1>2, <1>3, StepLock, RequestLock, KillLock DEF Next

-----------------------------------------------------------------------------
(* What a call knows at each of its places.                                *)

Writing == {"open_tmp", "write_tmp", "rename"}

(* No file has a message of call t.                                        *)
Unheard(t) == \A c \in Convs : file[c].is = "talk" =>
                 \A i \in DOMAIN file[c].messages : file[c].messages[i].by # t

(* The conversation of call t ends with its question.                      *)
AskedLast(t) == /\ File(t).is = "talk" /\ File(t).messages # <<>>
                /\ LET q == File(t).messages[Len(File(t).messages)]
                   IN  q.by = t /\ IsQuestion(q)

(* The model a handler was asked for is the one configured.                *)
AskedByName(t) == /\ job[t].provider \notin Custom
                  /\ job[t].model = model[job[t].provider]

(* Nothing of the call is stored before its question is, or ever if that   *)
(* failed; the model asked is the one that is named; the conversation is   *)
(* still the one that was read; the buffer is that with one turn more.     *)
InPlace(t) ==
    /\ At(t, "check") \/ At(t, "query") \/ At(t, "waiting") =>
          job[t].op = "send" /\ job[t].role = "question"
    /\ At(t, "load") => job[t].op = "send"
    /\ pc[t] \in Writing => job[t].op \in {"send", "create"}
    /\ job[t].role = "question" => ~job[t].warned
    /\ job[t].warned => t \in Commands
    /\ job[t].role = "question" \/ job[t].warned => Unheard(t)
    /\ job[t].op = "send" /\ pc[t] # "check" =>
          /\ t \in Tasks => AskedByName(t)
          /\ pc[t] # "query" => job[t].really \in Asked(job[t].provider)
          /\ job[t].role = "question" =>
                File(t).is = "talk" /\ job[t].seen = Talk(Context(File(t).messages))
          /\ job[t].role = "answer" /\ ~job[t].warned => AskedLast(t)
    /\ pc[t] \in Writing /\ job[t].op = "create" =>
          /\ job[t].buf = Talk(<<>>)
          /\ File(t) = Absent /\ job[t].conv \notin deleted
    /\ pc[t] \in Writing /\ job[t].op = "send" =>
          /\ File(t).is = "talk" /\ Storable(Text(t))
          /\ job[t].buf = Talk(Add(File(t).messages, Turn(t)))
    /\ At(t, "rename") => tmp[job[t].conv] = job[t].buf

CallInv(t) == (At(t, "idle") => Unheard(t)) /\ (Running(t) => InPlace(t))

ChatInv == /\ TypeOK /\ HoldsLock /\ Alone
           /\ NamesTheModelThatAnswered
           /\ \A t \in Calls : CallInv(t)

LEMMA InitChat == Init => ChatInv
<1> SUFFICES ASSUME Init PROVE ChatInv
  OBVIOUS
<1>1. \A c \in Convs : file[c] \in {Absent, Corrupt, Talk(<<>>)}
  BY DEF Init
<1>2. \A c \in Convs : file[c].is = "talk" => file[c].messages = <<>>
  BY <1>1 DEF Absent, Corrupt, Talk
<1>3. \A c \in Convs : file[c].is = "talk" => DOMAIN file[c].messages = {}
  BY <1>2
<1>4. \A t \in Calls : ~Running(t) /\ Unheard(t)
  BY <1>3 DEF Init, Running, Unheard
<1>5. HoldsLock
  BY <1>4 DEF Init, HoldsLock
<1>6. QED
  BY <1>3, <1>4, <1>5, InitTypes DEF ChatInv, Alone, NamesTheModelThatAnswered, CallInv

(* A call that does nothing while files and models stay is where it was.   *)
LEMMA Untouched ==
  ASSUME NEW t \in Calls, CallInv(t), UNCHANGED <<file, tmp, model, deleted>>,
         pc'[t] = pc[t], job'[t] = job[t]
  PROVE  CallInv(t)'
  BY DEF CallInv, At, Running, InPlace, AskedByName, Asked, Unheard, AskedLast, File, Text,
     Turn, Author, Named

(* What a step of one call is to the others while they rest.               *)
LEMMA SameFiles ==
  ASSUME ChatInv, NEW t \in Calls, Running(t), UNCHANGED file, CallInv(t)',
         \A u \in Calls \ {t} : pc'[u] = pc[u]
  PROVE  NamesTheModelThatAnswered' /\ \A u \in Calls : CallInv(u)'
<1>1. NamesTheModelThatAnswered'
  BY DEF ChatInv, NamesTheModelThatAnswered
<1>2. ASSUME NEW u \in Calls, u # t PROVE CallInv(u)'
  BY <1>2 DEF ChatInv, Alone, CallInv, At, Running, Unheard
<1>3. QED
  BY <1>1, <1>2

LEMMA Left ==
  ASSUME TypeOK, NEW t \in Calls, Leave(t)
  PROVE  CallInv(t)' /\ \A u \in Calls \ {t} : pc'[u] = pc[u]
  BY DEF TypeOK, Leave, Goto, CallInv, At, Running

(* A failed append leaves the files alone; a command goes on, warned.      *)
LEMMA FailKeeps ==
  ASSUME ChatInv, NEW t \in Calls, Running(t), pc[t] \in Writing \cup {"load"},
         AppendFails(t), UNCHANGED <<disk, model, deleted>>
  PROVE  NamesTheModelThatAnswered' /\ \A u \in Calls : CallInv(u)'
<1>1. CASE Leave(t)
  BY <1>1, Left, SameFiles DEF ChatInv, disk
<1>2. CASE /\ t \in Commands /\ job[t].op = "send" /\ job[t].role = "question"
           /\ Goto(t, "load") /\ Set(t, [job[t] EXCEPT !.role = "answer", !.warned = TRUE])
  <2>1. /\ pc'[t] = "load" /\ job'[t] = [job[t] EXCEPT !.role = "answer", !.warned = TRUE]
        /\ \A u \in Calls \ {t} : pc'[u] = pc[u]
        /\ job[t] \in Jobs
    BY <1>2 DEF ChatInv, TypeOK, Goto, Set
  <2>2. /\ job'[t].op = "send" /\ job'[t].role = "answer" /\ job'[t].warned
        /\ job'[t].provider = job[t].provider /\ job'[t].really = job[t].really
    BY <1>2, <2>1 DEF Jobs
  <2>3. Unheard(t) /\ job[t].really \in Asked(job[t].provider)
    BY <1>2 DEF ChatInv, CallInv, InPlace, Writing
  <2>4. Unheard(t)'
    BY <2>3 DEF Unheard, disk
  <2>5. CallInv(t)'
    BY <1>2, <2>1, <2>2, <2>3, <2>4 DEF CallInv, InPlace, At, Running, Writing, Asked
  <2>6. QED
    BY <2>1, <2>5, SameFiles DEF disk
<1>3. QED
  BY <1>1, <1>2 DEF AppendFails

(* The steps before the file is replaced.                                  *)
LEMMA StepKeeps ==
  ASSUME ChatInv, NEW t \in Calls, Step(t), ~Rename(t), ~Remove(t)
  PROVE  NamesTheModelThatAnswered' /\ \A u \in Calls : CallInv(u)'
<1> DEFINE Goal == NamesTheModelThatAnswered' /\ \A u \in Calls : CallInv(u)'
<1>0. TypeOK /\ job[t] \in Jobs
  BY DEF ChatInv, TypeOK
<1>a. ASSUME Running(t), Leave(t), UNCHANGED file PROVE Goal
  BY <1>a, Left, SameFiles DEF ChatInv
<1>b. ASSUME Running(t), NEW s, Goto(t, s), UNCHANGED file, CallInv(t)' PROVE Goal
  BY <1>0, <1>b, SameFiles DEF Goto, TypeOK
<1>1. CASE Check(t)
  <2>1. CASE Leave(t)
    BY <1>1, <1>a, <2>1 DEF Check, At, Running, disk
  <2>2. CASE /\ (t \in Tasks => Acceptable(t)) /\ File(t).is = "talk" /\ Goto(t, "query")
             /\ Set(t, [job[t] EXCEPT !.seen = Talk(Context(File(t).messages))])
    <3>1. /\ pc'[t] = "query" /\ job'[t] = [job[t] EXCEPT !.seen = Talk(Context(File(t).messages))]
          /\ At(t, "check") /\ UNCHANGED <<disk, model, deleted>>
      BY <1>0, <1>1, <2>2 DEF Check, TypeOK, Goto, Set
    <3>2. /\ job'[t].op = job[t].op /\ job'[t].role = job[t].role /\ job'[t].warned = job[t].warned
          /\ job'[t].conv = job[t].conv /\ job'[t].model = job[t].model
          /\ job'[t].provider = job[t].provider
          /\ job'[t].seen = Talk(Context(File(t).messages))
      BY <1>0, <3>1 DEF Jobs
    <3>3. InPlace(t) /\ Running(t)
      BY <3>1 DEF ChatInv, CallInv, At, Running
    <3>4. CallInv(t)'
      BY <2>2, <3>1, <3>2, <3>3 DEF CallInv, InPlace, AskedByName, Asked, At, Running, Unheard,
         File, disk, Writing, Acceptable
    <3>5. QED
      BY <1>b, <2>2, <3>1, <3>3, <3>4 DEF disk
  <2>3. QED
    BY <1>1, <2>1, <2>2 DEF Check
<1>2. CASE Query(t)
  <2>1. CASE Leave(t)
    BY <1>2, <1>a, <2>1 DEF Query, At, Running, disk
  <2>2. CASE /\ Goto(t, "waiting")
             /\ \E who \in Asked(job[t].provider) : Set(t, [job[t] EXCEPT !.really = who])
    <3>0. PICK who \in Asked(job[t].provider) : Set(t, [job[t] EXCEPT !.really = who])
      BY <2>2
    <3>1. /\ pc'[t] = "waiting" /\ At(t, "query") /\ UNCHANGED <<disk, model, deleted>>
          /\ job'[t] = [job[t] EXCEPT !.really = who]
      BY <1>0, <1>2, <2>2, <3>0 DEF Query, TypeOK, Goto, Set
    <3>2. /\ job'[t].op = job[t].op /\ job'[t].role = job[t].role /\ job'[t].warned = job[t].warned
          /\ job'[t].conv = job[t].conv /\ job'[t].model = job[t].model
          /\ job'[t].provider = job[t].provider /\ job'[t].seen = job[t].seen
          /\ job'[t].really \in Asked(job[t].provider)
      BY <1>0, <3>1 DEF Jobs
    <3>3. InPlace(t) /\ Running(t)
      BY <3>1 DEF ChatInv, CallInv, At, Running
    <3>4. CallInv(t)'
      BY <3>1, <3>2, <3>3 DEF CallInv, InPlace, AskedByName, Asked, At, Running, Unheard, File,
         disk, Writing
    <3>5. QED
      BY <1>b, <2>2, <3>1, <3>3, <3>4 DEF disk
  <2>3. QED
    BY <1>2, <2>1, <2>2 DEF Query
<1>3. CASE GiveUp(t)
  BY <1>3, <1>a DEF GiveUp, At, Running, disk
<1>4. ASSUME NEW text \in Texts, Answered(t, text) PROVE Goal
  <2>1. /\ pc'[t] = "load" /\ At(t, "waiting") /\ UNCHANGED <<disk, model, deleted>>
        /\ job'[t] = [job[t] EXCEPT !.answer = text]
    BY <1>0, <1>4 DEF Answered, TypeOK, Goto, Set
  <2>2. /\ job'[t].op = job[t].op /\ job'[t].role = job[t].role /\ job'[t].warned = job[t].warned
        /\ job'[t].conv = job[t].conv /\ job'[t].model = job[t].model
        /\ job'[t].provider = job[t].provider /\ job'[t].seen = job[t].seen
        /\ job'[t].really = job[t].really
    BY <1>0, <2>1 DEF Jobs
  <2>3. InPlace(t) /\ Running(t)
    BY <2>1 DEF ChatInv, CallInv, At, Running
  <2>4. CallInv(t)'
    BY <2>1, <2>2, <2>3 DEF CallInv, InPlace, AskedByName, Asked, At, Running, Unheard, File,
       disk, Writing
  <2>5. QED
    BY <1>4, <1>b, <2>1, <2>3, <2>4 DEF disk, Answered
<1>5. CASE Load(t)
  <2>1. CASE AppendFails(t)
    BY <1>5, <2>1, FailKeeps DEF Load, At, Running
  <2>2. CASE /\ Storable(Text(t)) /\ File(t).is = "talk" /\ Goto(t, "open_tmp")
             /\ Set(t, [job[t] EXCEPT !.buf = Talk(Add(File(t).messages, Turn(t)))])
    <3>1. /\ pc'[t] = "open_tmp" /\ At(t, "load") /\ UNCHANGED <<disk, model, deleted>>
          /\ job'[t] = [job[t] EXCEPT !.buf = Talk(Add(File(t).messages, Turn(t)))]
      BY <1>0, <1>5, <2>2 DEF Load, TypeOK, Goto, Set
    <3>2. /\ job'[t].op = job[t].op /\ job'[t].role = job[t].role /\ job'[t].warned = job[t].warned
          /\ job'[t].conv = job[t].conv /\ job'[t].model = job[t].model
          /\ job'[t].provider = job[t].provider /\ job'[t].seen = job[t].seen
          /\ job'[t].really = job[t].really /\ job'[t].text = job[t].text
          /\ job'[t].answer = job[t].answer
          /\ job'[t].buf = Talk(Add(File(t).messages, Turn(t)))
      BY <1>0, <3>1 DEF Jobs
    <3>3. InPlace(t) /\ Running(t)
      BY <3>1 DEF ChatInv, CallInv, At, Running
    <3>4. Text(t)' = Text(t) /\ Turn(t)' = Turn(t) /\ File(t)' = File(t)
      BY <3>1, <3>2 DEF Text, Turn, Author, File, disk
    <3>5. CallInv(t)'
      BY <2>2, <3>1, <3>2, <3>3, <3>4 DEF CallInv, InPlace, AskedByName, Asked, At, Running,
         Unheard, AskedLast, disk, Writing
    <3>6. QED
      BY <1>b, <2>2, <3>1, <3>3, <3>5 DEF disk
  <2>3. QED
    BY <1>5, <2>1, <2>2 DEF Load
<1>6. CASE OpenTmp(t)
  <2>1. CASE AppendFails(t) /\ UNCHANGED tmp
    BY <1>6, <2>1, FailKeeps DEF OpenTmp, At, Running, disk, Writing
  <2>2. CASE Goto(t, "write_tmp") /\ UNCHANGED <<job, lock>>
    <3>1. pc'[t] = "write_tmp" /\ At(t, "open_tmp") /\ UNCHANGED <<job, file, model, deleted>>
      BY <1>0, <1>6, <2>2 DEF OpenTmp, TypeOK, Goto
    <3>2. InPlace(t) /\ Running(t)
      BY <3>1 DEF ChatInv, CallInv, At, Running
    <3>3. CallInv(t)'
      BY <3>1, <3>2 DEF CallInv, InPlace, AskedByName, Asked, At, Running, Unheard, AskedLast,
         File, Text, Turn, Author, Named, Writing
    <3>4. QED
      BY <1>b, <2>2, <3>1, <3>2, <3>3
  <2>3. QED
    BY <1>6, <2>1, <2>2 DEF OpenTmp
<1>7. CASE WriteTmp(t)
  <2>1. CASE AppendFails(t) /\ UNCHANGED tmp
    BY <1>7, <2>1, FailKeeps DEF WriteTmp, At, Running, disk, Writing
  <2>2. CASE /\ tmp' = [tmp EXCEPT ![job[t].conv] = job[t].buf]
             /\ Goto(t, "rename") /\ UNCHANGED <<job, lock>>
    <3>1. /\ pc'[t] = "rename" /\ At(t, "write_tmp") /\ UNCHANGED <<job, file, model, deleted>>
          /\ tmp'[job[t].conv] = job[t].buf
      BY <1>0, <1>7, <2>2 DEF WriteTmp, TypeOK, Goto, Jobs
    <3>2. InPlace(t) /\ Running(t)
      BY <3>1 DEF ChatInv, CallInv, At, Running
    <3>3. CallInv(t)'
      BY <3>1, <3>2 DEF CallInv, InPlace, AskedByName, Asked, At, Running, Unheard, AskedLast,
         File, Text, Turn, Author, Named, Writing
    <3>4. QED
      BY <1>b, <2>2, <3>1, <3>2, <3>3
  <2>3. QED
    BY <1>7, <2>1, <2>2 DEF WriteTmp
<1>8. CASE SetModel(t)
  BY <1>8, <1>a DEF SetModel, At, Running, disk
<1>9. QED
  BY <1>1, <1>2, <1>3, <1>4, <1>5, <1>6, <1>7, <1>8 DEF Step

(* A message says of its author what model_name tells.                     *)
Honest(m) == m.from = Named(m.really)

LEMMA TurnIsHonest ==
  ASSUME TypeOK, NEW t \in Calls, job[t].really \in Asked(job[t].provider),
         t \in Tasks => AskedByName(t)
  PROVE  Turn(t).by = t /\ Honest(Turn(t))
<1> DEFINE p == job[t].provider
<1>1. p \in Providers
  BY DEF TypeOK, Jobs
<1>2. /\ Turn(t).by = t /\ Turn(t).from = Author(t)
      /\ Turn(t).really = IF job[t].role = "question" THEN User ELSE job[t].really
  BY DEF Turn, Message
<1>3. CASE job[t].role = "question"
  BY <1>2, <1>3 DEF Author, Named, Honest
<1>4. CASE job[t].role # "question" /\ p \notin Custom
  <2>1. job[t].really = <<p, model[p]>>
    BY <1>4 DEF Asked
  <2>2. Author(t) = <<p, model[p]>>
    BY <1>4 DEF Author, AskedByName, Named
  <2>3. QED
    BY <1>2, <1>4, <2>1, <2>2 DEF Honest, Named
<1>5. CASE job[t].role # "question" /\ p \in Custom
  <2>1. t \notin Tasks
    BY <1>5 DEF AskedByName
  <2>2. PICK m \in Models : job[t].really = <<p, m>>
    BY <1>5 DEF Asked
  <2>3. <<p, m>> # User /\ <<p, model[p]>> # User
    BY <1>1 DEF TypeOK
  <2>4. Named(<<p, m>>) = <<p, Unnamed>> /\ Named(<<p, model[p]>>) = <<p, Unnamed>>
    BY <1>5, <2>3 DEF Named
  <2>5. QED
    BY <1>2, <1>5, <2>1, <2>2, <2>4 DEF Honest, Author
<1>6. QED
  BY <1>3, <1>4, <1>5

(* What a rename puts in the place of the file: an empty conversation that *)
(* is new, or the one that was read with one honest turn more.             *)
Begun(t) == /\ File(t) = Absent /\ job[t].conv \notin deleted
            /\ file' = [file EXCEPT ![job[t].conv] = Talk(<<>>)]
            /\ job[t].op = "create"
Told(t)  == /\ File(t).is = "talk" /\ File(t).messages \in Seq(Messages)
            /\ Turn(t) \in Messages /\ Turn(t).by = t /\ Honest(Turn(t))
            /\ file' = [file EXCEPT ![job[t].conv] = Talk(Add(File(t).messages, Turn(t)))]
            /\ job[t].op = "send"

LEMMA ToldAdds ==
  ASSUME NEW t \in Calls, Told(t)
  PROVE  LET new == Add(File(t).messages, Turn(t))
         IN  /\ new # <<>> /\ new[Len(new)] = Turn(t)
             /\ \A i \in DOMAIN new :
                   new[i] = Turn(t) \/ \E k \in DOMAIN File(t).messages : new[i] = File(t).messages[k]
<1> DEFINE s == File(t).messages
           m == Turn(t)
<1>1. s \in Seq(Messages) /\ m \in Messages
  BY DEF Told
<1> HIDE DEF s, m
<1>2. /\ Add(s, m) # <<>> /\ Add(s, m)[Len(Add(s, m))] = m
      /\ \A i \in DOMAIN Add(s, m) :
            Add(s, m)[i] = m \/ \E k \in DOMAIN s : Add(s, m)[i] = s[k]
  BY <1>1, Added
<1>3. QED
  BY <1>2 DEF s, m

LEMMA Renamed ==
  ASSUME ChatInv, NEW t \in Calls, Rename(t)
  PROVE  \/ AppendFails(t) /\ UNCHANGED disk
         \/ Saved(t) /\ (Begun(t) \/ Told(t)) /\ UNCHANGED deleted
<1> SUFFICES ASSUME file' = [file EXCEPT ![job[t].conv] = tmp[job[t].conv]], Saved(t)
    PROVE  Begun(t) \/ Told(t)
  BY DEF Rename
<1>1. /\ InPlace(t) /\ At(t, "rename") /\ TypeOK /\ job[t] \in Jobs
      /\ pc[t] \in Writing
  BY DEF ChatInv, CallInv, TypeOK, Rename, At, Running, Writing
<1>2. file' = [file EXCEPT ![job[t].conv] = job[t].buf]
  BY <1>1 DEF InPlace
<1>3. CASE job[t].op = "create"
  BY <1>1, <1>2, <1>3 DEF InPlace, Begun
<1>4. CASE job[t].op = "send"
  <2>1. /\ File(t).is = "talk" /\ Storable(Text(t))
        /\ job[t].buf = Talk(Add(File(t).messages, Turn(t)))
        /\ t \in Tasks => AskedByName(t)
        /\ job[t].really \in Asked(job[t].provider)
    BY <1>1, <1>4 DEF InPlace, Writing, At
  <2>2. File(t).messages \in Seq(Messages)
    BY <1>1, <2>1, FileTypes DEF TypeOK, File, Jobs
  <2>3. Turn(t) \in Messages
    BY <1>1, <2>1, TurnType DEF TypeOK, CallTypes
  <2>4. Turn(t).by = t /\ Honest(Turn(t))
    BY <1>1, <2>1, TurnIsHonest
  <2>5. QED
    BY <1>2, <1>4, <2>1, <2>2, <2>3, <2>4 DEF Told
<1>5. QED
  BY <1>1, <1>3, <1>4 DEF InPlace

LEMMA RenameKeeps ==
  ASSUME ChatInv, NEW t \in Calls, Rename(t)
  PROVE  NamesTheModelThatAnswered' /\ \A u \in Calls : CallInv(u)'
<1> DEFINE c == job[t].conv
<1>1. /\ InPlace(t) /\ Running(t) /\ At(t, "rename") /\ TypeOK /\ job[t] \in Jobs
      /\ UNCHANGED <<model, deleted>> /\ pc[t] \in Writing /\ c \in Convs
  BY DEF ChatInv, CallInv, TypeOK, Rename, At, Running, Writing, Jobs
<1>2. CASE AppendFails(t) /\ UNCHANGED disk
  BY <1>1, <1>2, FailKeeps
<1>3. CASE Saved(t) /\ (Begun(t) \/ Told(t))
  <2> DEFINE new == file'[c].messages
  <2>1. /\ \A d \in Convs \ {c} : file'[d] = file[d]
        /\ file'[c].is = "talk"
        /\ \/ new = <<>>
           \/ /\ Told(t) /\ new = Add(File(t).messages, Turn(t))
    <3>1. Begun(t) \/ Told(t) => file'[c] \in {Talk(<<>>), Talk(Add(File(t).messages, Turn(t)))}
                                /\ \A d \in Convs \ {c} : file'[d] = file[d]
      BY <1>1 DEF Begun, Told, TypeOK
    <3>2. Begun(t) => file'[c] = Talk(<<>>)
      BY <1>1 DEF Begun, TypeOK
    <3>3. Told(t) => file'[c] = Talk(Add(File(t).messages, Turn(t)))
      BY <1>1 DEF Told, TypeOK
    <3>4. QED
      BY <1>3, <3>1, <3>2, <3>3 DEF Talk
  <2>2. ASSUME NEW i \in DOMAIN new
        PROVE  \/ new[i] = Turn(t) /\ Turn(t).by = t /\ Honest(Turn(t))
               \/ /\ File(t).is = "talk"
                  /\ \E k \in DOMAIN File(t).messages : new[i] = File(t).messages[k]
    <3>1. CASE new = <<>>
      BY <3>1
    <3>2. CASE Told(t) /\ new = Add(File(t).messages, Turn(t))
      <4> DEFINE one == Add(File(t).messages, Turn(t))
      <4>0. \A j \in DOMAIN one :
               one[j] = Turn(t) \/ \E k \in DOMAIN File(t).messages : one[j] = File(t).messages[k]
        BY <3>2, ToldAdds
      <4>1. new[i] = Turn(t) \/ \E k \in DOMAIN File(t).messages : new[i] = File(t).messages[k]
        <5> HIDE DEF new, one
        <5>1. new = one /\ i \in DOMAIN new
          BY <3>2, <2>2 DEF one
        <5>2. QED
          BY <4>0, <5>1
      <4>2. QED
        BY <3>2, <4>1 DEF Told
    <3>3. QED
      BY <2>1, <3>1, <3>2
  <2> HIDE DEF c
  <2>3. NamesTheModelThatAnswered'
    <3>1. \A i \in DOMAIN new : Honest(new[i])
      BY <1>1, <2>2 DEF ChatInv, NamesTheModelThatAnswered, File, c, Honest
    <3>2. QED
      BY <2>1, <3>1 DEF Honest, ChatInv, NamesTheModelThatAnswered
  <2>4. ASSUME NEW u \in Calls, u # t, Unheard(u) PROVE Unheard(u)'
    <3>1. \A i \in DOMAIN new : new[i].by # u
      BY <1>1, <2>2, <2>4 DEF Unheard, File, c
    <3>2. QED
      BY <2>1, <2>4, <3>1 DEF Unheard
  <2>5. \A u \in Calls \ {t} : pc'[u] = pc[u]
    BY <1>1, <1>3 DEF Saved, Leave, Goto, TypeOK
  <2>6. ASSUME NEW u \in Calls, u # t PROVE CallInv(u)'
    BY <1>1, <2>4, <2>5, <2>6 DEF ChatInv, Alone, CallInv, At, Running
  <2>7. CallInv(t)'
    <3>1. CASE Leave(t)
      BY <1>1, <3>1, Left
    <3>2. CASE /\ job[t].op = "send" /\ job[t].role = "question"
               /\ Goto(t, "load") /\ Set(t, [job[t] EXCEPT !.role = "answer"])
      <4>1. /\ pc'[t] = "load" /\ job'[t] = [job[t] EXCEPT !.role = "answer"]
        BY <1>1, <3>2 DEF TypeOK, Goto, Set
      <4>2. /\ job'[t].op = "send" /\ job'[t].role = "answer" /\ ~job'[t].warned
            /\ job'[t].conv = c /\ job'[t].model = job[t].model
            /\ job'[t].provider = job[t].provider /\ job'[t].really = job[t].really
        BY <1>1, <3>2, <4>1 DEF Jobs, InPlace, c
      <4>3. Told(t) /\ new = Add(File(t).messages, Turn(t))
        <5>1. Told(t)
          BY <1>3, <3>2 DEF Begun
        <5>2. QED
          BY <1>1, <5>1 DEF Told, TypeOK, Talk, c
      <4>4. new # <<>> /\ new[Len(new)] = Turn(t)
        BY <4>3, ToldAdds
      <4>5. Turn(t).by = t /\ Turn(t).from = User
        BY <3>2 DEF Turn, Message, Author
      <4>6. AskedLast(t)'
        BY <2>1, <4>2, <4>4, <4>5 DEF AskedLast, File, IsQuestion
      <4>7. /\ t \in Tasks => AskedByName(t)'
            /\ (job[t].really \in Asked(job[t].provider))'
        BY <1>1, <3>2, <4>2 DEF InPlace, At, AskedByName, Asked
      <4>8. QED
        BY <4>1, <4>2, <4>6, <4>7 DEF CallInv, InPlace, AskedByName, Asked, At, Running, Writing
    <3>3. QED
      BY <1>3, <3>1, <3>2 DEF Saved
  <2>8. QED
    BY <2>3, <2>6, <2>7
<1>4. QED
  BY <1>2, <1>3, Renamed

LEMMA RemoveKeeps ==
  ASSUME ChatInv, NEW t \in Calls, Remove(t)
  PROVE  NamesTheModelThatAnswered' /\ \A u \in Calls : CallInv(u)'
<1>1. /\ Running(t) /\ TypeOK /\ Leave(t)
      /\ file' \in {file, [file EXCEPT ![job[t].conv] = Absent]}
  BY DEF ChatInv, Remove, At, Running
<1>2. \A c \in Convs : file'[c].is = "talk" => file'[c] = file[c]
  BY <1>1 DEF TypeOK, Absent
<1>3. NamesTheModelThatAnswered'
  BY <1>2 DEF ChatInv, NamesTheModelThatAnswered
<1>4. \A u \in Calls : Unheard(u) => Unheard(u)'
  BY <1>2 DEF Unheard
<1>5. CallInv(t)' /\ \A u \in Calls \ {t} : pc'[u] = pc[u]
  BY <1>1, Left
<1>6. ASSUME NEW u \in Calls, u # t PROVE CallInv(u)'
  BY <1>1, <1>4, <1>5, <1>6 DEF ChatInv, Alone, CallInv, At, Running
<1>7. QED
  BY <1>3, <1>5, <1>6

LEMMA RequestKeeps ==
  ASSUME ChatInv, NEW t \in Calls, NEW j \in Requests, Request(t, j)
  PROVE  NamesTheModelThatAnswered' /\ \A u \in Calls : CallInv(u)'
<1> DEFINE k == [j EXCEPT !.buf = IF j.op = "create" THEN Talk(<<>>) ELSE Absent]
<1>1. /\ At(t, "idle") /\ TypeOK /\ pc' = [pc EXCEPT ![t] = First(j.op)]
      /\ job' = [job EXCEPT ![t] = k]
      /\ UNCHANGED <<file, tmp, model, deleted>>
      /\ j.op = "create" => Fresh(j.conv)
  BY DEF ChatInv, Request, Goto, Set, disk
<1>2. j \in Jobs /\ j.role = "question" /\ ~j.warned
  BY RequestTypes
<1>3. /\ k.op = j.op /\ k.role = "question" /\ ~k.warned /\ k.conv = j.conv
      /\ j.op = "create" => k.buf = Talk(<<>>)
      /\ j.op \in Operations
  BY <1>2 DEF Jobs
<1> HIDE DEF k
<1>4. NamesTheModelThatAnswered'
  BY <1>1 DEF ChatInv, NamesTheModelThatAnswered
<1>5. ASSUME NEW u \in Calls, u # t PROVE CallInv(u)'
  BY <1>1, <1>5, Untouched DEF ChatInv, TypeOK
<1>6. CallInv(t)'
  <2>1. pc'[t] = First(j.op) /\ job'[t] = k
    BY <1>1 DEF TypeOK
  <2>2. Unheard(t)'
    BY <1>1 DEF ChatInv, CallInv, Unheard
  <2>3. j.op = "create" => File(t)' = Absent /\ j.conv \notin deleted
    BY <1>1, <1>3, <2>1 DEF Fresh, File
  <2>4. QED
    BY <1>1, <1>3, <2>1, <2>2, <2>3 DEF CallInv, InPlace, At, Running, Writing, First, Operations
<1>7. QED
  BY <1>4, <1>5, <1>6

(* The lock and one command at a time keep all of it.                      *)
LEMMA NextChat ==
  ASSUME ~Overlap PROVE ChatInv /\ [Next]_vars => ChatInv'
<1> SUFFICES ASSUME ChatInv, [Next]_vars PROVE ChatInv'
  OBVIOUS
<1> DEFINE Kept == NamesTheModelThatAnswered' /\ \A u \in Calls : CallInv(u)'
<1>1. TypeOK' /\ HoldsLock' /\ Alone'
  BY NextTypes, NextLock DEF ChatInv
<1>2. ASSUME NEW t \in Calls, Step(t) PROVE Kept
  BY <1>2, StepKeeps, RenameKeeps, RemoveKeeps
<1>3. ASSUME NEW t \in Calls, Busy(t) PROVE Kept
  <2>1. Leave(t) /\ UNCHANGED <<file, tmp, model, deleted>> /\ TypeOK
    BY <1>3 DEF Busy, disk, ChatInv
  <2>2. CallInv(t)' /\ \A u \in Calls \ {t} : pc'[u] = pc[u]
    BY <2>1, Left
  <2>3. ASSUME NEW u \in Calls, u # t PROVE CallInv(u)'
    BY <2>1, <2>2, <2>3, Untouched DEF ChatInv, Leave, Set, TypeOK
  <2>4. QED
    BY <2>1, <2>2, <2>3 DEF ChatInv, NamesTheModelThatAnswered
<1>4. ASSUME NEW dead, Kill(dead) PROVE Kept
  <2>1. /\ UNCHANGED <<file, tmp, model, deleted>>
        /\ \A u \in Calls : \/ pc'[u] = "done"
                            \/ pc'[u] = pc[u] /\ job'[u] = job[u]
    BY <1>4 DEF Kill, disk
  <2>2. ASSUME NEW u \in Calls PROVE CallInv(u)'
    <3>1. CASE pc'[u] = "done"
      BY <3>1 DEF CallInv, At, Running
    <3>2. CASE pc'[u] = pc[u] /\ job'[u] = job[u]
      BY <2>1, <3>2, Untouched DEF ChatInv
    <3>3. QED
      BY <2>1, <3>1, <3>2
  <2>3. QED
    BY <2>1, <2>2 DEF ChatInv, NamesTheModelThatAnswered
<1>5. ASSUME UNCHANGED <<pc, job, file, tmp, model, deleted>> PROVE Kept
  BY <1>5, Untouched DEF ChatInv, NamesTheModelThatAnswered
<1>6. Kept
  BY <1>2, <1>3, <1>4, <1>5, RequestKeeps DEF Next, vars, disk, ConsentChanges
<1>7. QED
  BY <1>1, <1>6 DEF ChatInv

(* For any number of handlers and commands that take turns: an answer is   *)
(* never stored under the name of a model that did not give it, and that of*)
(* a custom provider under none.                                           *)
THEOREM AnswersNameTheirModel ==
  ASSUME ~Overlap PROVE Spec => []NamesTheModelThatAnswered
<1>1. ChatInv => NamesTheModelThatAnswered
  BY DEF ChatInv
<1>2. QED
  BY InitChat, NextChat, <1>1, PTL DEF Spec

(* An answer goes to a conversation that ends as its provider was shown it:*)
(* nobody writes to it between the read before the call and the question.  *)
THEOREM AnswersToWhatWasShown ==
  ASSUME ~Overlap PROVE Spec => NoStaleContext
<1> DEFINE Shown == \A t \in Calls :
              At(t, "rename") /\ pc'[t] = "load" /\ job'[t].role = "answer" /\ ~job'[t].warned
              => /\ File(t).is = "talk"
                 /\ job[t].seen = Talk(Context(File(t).messages))
<1>1. ChatInv /\ [Next]_vars => [Shown]_vars
  <2> SUFFICES ASSUME ChatInv, Next, NEW t \in Calls,
                      At(t, "rename"), pc'[t] = "load",
                      job'[t].role = "answer", ~job'[t].warned
               PROVE  File(t).is = "talk" /\ job[t].seen = Talk(Context(File(t).messages))
    OBVIOUS
  <2>1. /\ TypeOK /\ InPlace(t) /\ pc[t] = "rename" /\ job[t] \in Jobs
    BY DEF ChatInv, TypeOK, CallInv, Running, At
  <2>2. Rename(t)
    <3>1. ASSUME NEW u \in Calls, u # t, Step(u) \/ Busy(u) \/ \E j \in Requests : Request(u, j)
          PROVE  pc'[t] = pc[t]
      BY <2>1, <3>1 DEF TypeOK, Step, Check, Query, GiveUp, Answered, Load, OpenTmp, WriteTmp,
         Rename, Remove, SetModel, AppendFails, Saved, Leave, Goto, Busy, Request
    <3>2. ASSUME Step(t) \/ Busy(t) \/ \E j \in Requests : Request(t, j) PROVE Rename(t)
      BY <2>1, <3>2 DEF Step, Check, Query, GiveUp, Answered, Load, OpenTmp, WriteTmp,
         Remove, SetModel, Busy, Request, At
    <3>3. ASSUME NEW dead, Kill(dead) PROVE pc'[t] # "load"
      BY <2>1, <3>3 DEF Kill
    <3>4. ASSUME NEW a, ConsentChanges(a) PROVE pc'[t] # "load"
      BY <2>1, <3>4 DEF ConsentChanges
    <3>5. QED
      BY <2>1, <3>1, <3>2, <3>3, <3>4 DEF Next
  <2>3. job[t].op = "send" /\ job[t].role = "question"
    <3>1. ~Leave(t)
      BY <2>1 DEF TypeOK, Leave, Goto
    <3>2. Saved(t) \/ AppendFails(t)
      BY <2>2 DEF Rename
    <3>3. ASSUME AppendFails(t) PROVE job'[t].warned
      <4>1. job' = [job EXCEPT ![t] = [job[t] EXCEPT !.role = "answer", !.warned = TRUE]]
        BY <3>1, <3>3 DEF AppendFails, Set
      <4>2. job'[t] = [job[t] EXCEPT !.role = "answer", !.warned = TRUE]
        BY <2>1, <4>1 DEF TypeOK
      <4>3. QED
        BY <2>1, <4>2 DEF Jobs
    <3>4. QED
      BY <3>1, <3>2, <3>3 DEF Saved
  <2>4. QED
    BY <2>1, <2>3 DEF InPlace
<1>2. QED
  BY InitChat, NextChat, <1>1, PTL DEF Spec, NoStaleContext

-----------------------------------------------------------------------------
(* The files are a transcript.                                             *)

LEMMA ToldIsStored ==
  ASSUME ChatInv, NEW t \in Calls, At(t, "rename"), Told(t), UNCHANGED deleted,
         file'[job[t].conv] # file[job[t].conv]
  PROVE  Stored!Next
<1> DEFINE c == job[t].conv
           m == Turn(t)
<1>1. /\ TypeOK /\ InPlace(t) /\ c \in Convs /\ job[t] \in Jobs
      /\ pc[t] = "rename" /\ job[t].op = "send"
  BY DEF ChatInv, TypeOK, CallInv, Running, At, Jobs, Told
<1>2. /\ Stored!Readable(c) /\ Stored!Said(c) = File(t).messages
      /\ m \in Messages /\ m.by = t /\ Stored!Put(c, m)
  <2>1. /\ Stored!Readable(c) /\ Stored!Said(c) = File(t).messages
        /\ m \in Messages /\ m.by = t
        /\ file' = [file EXCEPT ![c] = Talk(Add(Stored!Said(c), m))]
    BY DEF Told, Stored!Readable, Stored!Said, File
  <2>2. \A s : Stored!Talk(Stored!Add(s, m)) = Talk(Add(s, m))
    BY DEF Stored!Talk, Talk, Stored!Add, Add, Stored!Last, Last
  <2>3. QED
    BY <2>1, <2>2 DEF Stored!Put
<1>3. m.from = Author(t)
  BY DEF Turn, Message
<1>4. Unheard(t) => \A i \in DOMAIN Stored!Said(c) : Stored!Said(c)[i].by # m.by
  BY <1>1, <1>2 DEF Unheard, Told, File
<1>5. CASE job[t].role = "question"
  <2>1. IsQuestion(m) /\ Unheard(t)
    BY <1>1, <1>3, <1>5 DEF IsQuestion, Author, InPlace
  <2>2. Stored!Ask(c, m)
    BY <1>2, <1>4, <2>1 DEF Stored!Ask, Stored!IsQuestion, IsQuestion
  <2>3. QED
    BY <1>1, <1>2, <2>2 DEF Stored!Next, Stored!Messages, Messages, Stored!Authors, Authors
<1>6. CASE job[t].role # "question"
  <2>1. ~IsQuestion(m)
    <3>1. /\ <<job[t].provider, job[t].model>> \in Providers \X Models
          /\ job[t].provider \in Providers /\ model \in [Providers -> Models]
      BY <1>1 DEF TypeOK, Jobs
    <3>2. Author(t) # User
      BY <1>6, <3>1, AskedTypes DEF Author
    <3>3. QED
      BY <1>3, <3>2 DEF IsQuestion
  <2>2. \/ AskedLast(t)
        \/ t \in Commands /\ Unheard(t)
    BY <1>1, <1>6 DEF InPlace, Jobs
  <2>3. Stored!Answer(c, m)
    BY <1>2, <1>4, <2>1, <2>2 DEF Stored!Answer, Stored!IsQuestion, IsQuestion, AskedLast
  <2>4. QED
    BY <1>1, <1>2, <2>3 DEF Stored!Next, Stored!Messages, Messages, Stored!Authors, Authors
<1>7. QED
  BY <1>5, <1>6

(* Stored by read, write and rename, with failures and kills between them, *)
(* conversations do nothing that a transcript does not do.                 *)
THEOREM ChatImplementsTranscript ==
  ASSUME ~Overlap PROVE Spec => ImplementsTranscript
<1>1. Init => Stored!Init
  BY InitTypes DEF Init, TypeOK, Stored!Init, Stored!Files, Files, Stored!Messages, Messages,
     Stored!Authors, Authors
<1>2. ChatInv /\ [Next]_vars => [Stored!Next]_<<file, deleted>>
  <2> SUFFICES ASSUME ChatInv, [Next]_vars
               PROVE  Stored!Next \/ UNCHANGED <<file, deleted>>
    OBVIOUS
  <2>1. ASSUME NEW t \in Calls, Rename(t) PROVE Stored!Next \/ UNCHANGED <<file, deleted>>
    <3>1. At(t, "rename") /\ UNCHANGED deleted /\ job[t].conv \in Convs
      BY <2>1 DEF Rename, ChatInv, TypeOK, Jobs
    <3>2. ASSUME Begun(t) PROVE Stored!Begin(job[t].conv)
      BY <3>1, <3>2 DEF Begun, File, Stored!Begin, Stored!Absent, Absent, Stored!Talk, Talk
    <3>3. ASSUME Begun(t) PROVE Stored!Next
      BY <3>1, <3>2, <3>3 DEF Stored!Next
    <3>4. ASSUME Told(t), file'[job[t].conv] = file[job[t].conv] PROVE UNCHANGED file
      BY <3>1, <3>4 DEF Told, ChatInv, TypeOK
    <3>5. QED
      BY <2>1, <3>1, <3>3, <3>4, Renamed, ToldIsStored DEF disk
  <2>2. ASSUME NEW t \in Calls, Remove(t) PROVE Stored!Next \/ UNCHANGED <<file, deleted>>
    <3>1. job[t].conv \in Convs
      BY DEF ChatInv, TypeOK, Jobs
    <3>2. Stored!Delete(job[t].conv) \/ UNCHANGED <<file, deleted>>
      BY <2>2 DEF Remove, Stored!Delete, Stored!Absent, Absent
    <3>3. QED
      BY <3>1, <3>2 DEF Stored!Next
  <2>3. CASE UNCHANGED <<file, deleted>>
    BY <2>3
  <2>4. QED
    BY <2>1, <2>2, <2>3 DEF Next, Request, Busy, Step, Check, Query, GiveUp, Answered, Load,
       OpenTmp, WriteTmp, SetModel, ConsentChanges, Kill, vars, disk
<1>3. QED
  BY <1>1, <1>2, InitChat, NextChat, PTL DEF Spec, ImplementsTranscript, Stored!Spec
=============================================================================
