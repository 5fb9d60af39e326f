-------------------------------- MODULE Panel --------------------------------
(***************************************************************************)
(* The commands of `velox chorus` that ask several models: the benchmark   *)
(* in which models judge each other, and the consensus; and the server's   *)
(* streamed diagnosis, which asks two in turn.  Whether a request is       *)
(* allowed is the gateway's matter: here any request may come to nothing.  *)
(***************************************************************************)
EXTENDS Selection, SequencesExt

CONSTANTS
    Builtins,      \* the built-in models, a sequence beginning with claude
    Customs,       \* models the user added, a sequence
    Keys,          \* sets of built-ins that may have a key
    Prompts,       \* how many questions a benchmark asks
    Marks          \* numbers a judge may answer with

(* add_provider refuses the name of a built-in model and replaces the      *)
(* entry of the same name.                                                 *)
ASSUME PanelAssumption ==
    /\ Prompts \in Nat \ {0} /\ Marks \subseteq Nat
    /\ Builtins \in Seq(ToSet(Builtins)) \ {<<>>} /\ Customs \in Seq(ToSet(Customs))
    /\ IsInjective(Builtins \o Customs)
    /\ Keys # {} /\ \A keys \in Keys : keys \subseteq ToSet(Builtins)

VARIABLES
    keyed,         \* built-ins with a key
    job,           \* the command under way
    rows,          \* benchmark: model -> its scores so far
    board,         \* benchmark: the list that is shown at the end
    trace          \* history: what was asked of whom

avars == <<keyed, job, rows, board, trace>>

HasKey(m)  == m \in keyed
Jury       == Select(Builtins, {i \in DOMAIN Builtins : HasKey(Builtins[i])})
Contenders == Jury \o Customs
Claude     == Builtins[1]

(* A mean of at most three marks, in sixths so that it is a number.        *)
Sixth == 6
MaxMark == 1000
(* parse_score: no number is no mark, and no mark is above 1000.           *)
NoMark == -1
Clamped(n) == IF n > MaxMark THEN MaxMark ELSE n

Idle == [at |-> "idle", left |-> <<>>, prompt |-> 0, judges |-> <<>>, marks |-> <<>>, heard |-> <<>>]

PanelFrom(some) == keyed \in some /\ job = Idle /\ rows = <<>> /\ board = <<>> /\ trace = {}
PanelInit == PanelFrom(Keys)

-----------------------------------------------------------------------------
(* bench: every contender answers every prompt, and every other juror      *)
(* marks the answer.                                                       *)

Model == Head(job.left)

StartBench ==
    /\ job = Idle /\ board = <<>> /\ Jury # <<>>
    /\ job' = [Idle EXCEPT !.at = "answer", !.left = Contenders, !.prompt = 1]
    /\ rows' = [m \in ToSet(Contenders) |-> <<>>]
    /\ UNCHANGED <<keyed, board, trace>>

(* The next prompt, the next contender, or the list.                       *)
Scored(score) ==
    /\ rows' = [rows EXCEPT ![Model] = Append(@, score)]
    /\ job' = IF job.prompt < Prompts
              THEN [job EXCEPT !.at = "answer", !.prompt = @ + 1, !.marks = <<>>]
              ELSE [job EXCEPT !.at = IF Len(job.left) = 1 THEN "sort" ELSE "answer",
                               !.left = Tail(@), !.prompt = 1, !.marks = <<>>]
    /\ UNCHANGED <<keyed, board>>

(* Defect: a juror marks its own answer, too.                              *)
OthersAll(model) == Jury

Others(model) == Select(Jury, {i \in DOMAIN Jury : Jury[i] # model})

(* No answer is no points.                                                 *)
Answer ==
    /\ job.at = "answer"
    /\ \/ job' = [job EXCEPT !.at = "judge", !.judges = Others(Model)]
          /\ UNCHANGED <<keyed, rows, board>>
       \/ Scored(0)
    /\ UNCHANGED trace

Judge ==
    /\ job.at = "judge" /\ job.judges # <<>>
    /\ \E mark \in Marks \cup {NoMark} :
          job' = [job EXCEPT !.judges = Tail(@),
                             !.marks = IF mark = NoMark THEN @ ELSE Append(@, Clamped(mark))]
    /\ trace' = trace \cup {[by |-> Head(job.judges), of |-> Model]}
    /\ UNCHANGED <<keyed, rows, board>>

Mean(marks) == IF marks = <<>> THEN 0 ELSE (SumFunction(marks) * Sixth) \div Len(marks)

EndJudging == job.at = "judge" /\ job.judges = <<>> /\ Scored(Mean(job.marks)) /\ UNCHANGED trace

Total(model) == SumFunction(rows[model])

(* The best first, equals in the order they were asked.                    *)
Place(m) == CHOOSE i \in DOMAIN Contenders : Contenders[i] = m
Ahead(a, b) == Total(a) > Total(b) \/ (Total(a) = Total(b) /\ Place(a) < Place(b))
Rank(m) == Cardinality({x \in ToSet(Contenders) : Ahead(x, m)})

Sort == /\ job.at = "sort"
        /\ board' = [i \in DOMAIN Contenders |-> CHOOSE m \in ToSet(Contenders) : Rank(m) = i - 1]
        /\ job' = [Idle EXCEPT !.at = "over"]
        /\ UNCHANGED <<keyed, rows, trace>>

-----------------------------------------------------------------------------
(* consensus: at least two models are asked, at least two answers put      *)
(* together.                                                               *)

StartConsensus ==
    /\ job = Idle /\ Len(Contenders) >= 2
    /\ job' = [Idle EXCEPT !.at = "poll", !.left = Contenders]
    /\ UNCHANGED <<keyed, rows, board, trace>>

Poll ==
    /\ job.at = "poll" /\ job.left # <<>>
    /\ \E heard \in {job.heard, Append(job.heard, Model)} :
          job' = [job EXCEPT !.left = Tail(@), !.heard = heard]
    /\ UNCHANGED <<keyed, rows, board, trace>>

Polled ==
    /\ job.at = "poll" /\ job.left = <<>>
    /\ job' = [job EXCEPT !.at = IF Len(job.heard) >= 2 THEN "synthesis" ELSE "over"]
    /\ UNCHANGED <<keyed, rows, board, trace>>

(* claude puts the answers together if it has a key, even if it did not    *)
(* answer.                                                                 *)
Synthesizer == IF HasKey(Claude) THEN Claude ELSE Head(job.heard)
Synthesize ==
    /\ job.at = "synthesis"
    /\ \/ trace' = {[by |-> Synthesizer, of |-> job.heard]} \/ UNCHANGED trace
    /\ job' = [job EXCEPT !.at = "over"]
    /\ UNCHANGED <<keyed, rows, board>>

PanelNext == StartBench \/ Answer \/ Judge \/ EndJudging \/ Sort
             \/ StartConsensus \/ Poll \/ Polled \/ Synthesize

-----------------------------------------------------------------------------
(* Properties.                                                             *)

PanelTypeOK ==
    /\ keyed \subseteq ToSet(Builtins)
    /\ job.at \in {"idle", "answer", "judge", "sort", "poll", "synthesis", "over"}
    /\ DOMAIN rows \subseteq ToSet(Contenders)

(* No model judges itself, no cell of the list is beyond the scale or      *)
(* missing, whoever fails to answer; a better row is never below a worse   *)
(* one; and what is called a consensus puts together answers of at least   *)
(* two models.                                                             *)
PanelIsFair ==
    /\ job.heard = <<>> => \A t \in trace : t.by # t.of
    /\ board # <<>> =>
         /\ ToSet(board) = ToSet(Contenders) /\ IsInjective(board)
         /\ \A m \in ToSet(board) :
               Len(rows[m]) = Prompts /\ \A p \in 1..Prompts : rows[m][p] \in 0..MaxMark * Sixth
         /\ \A i \in 1..Len(board) - 1 : Total(board[i]) >= Total(board[i + 1])
    /\ job.heard # <<>> => \A t \in trace : Len(t.of) >= 2 /\ IsInjective(t.of)
=============================================================================
