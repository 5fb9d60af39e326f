------------------------------- MODULE Project -------------------------------
(***************************************************************************)
(* Reading a project the user chose, velox-core/src/project.rs: a scan     *)
(* that walks the folder with a stack and within limits, the ignore rules  *)
(* it obeys and the evidence made of what it found.  An entry is the       *)
(* sequence of its path's characters, "/" among them.  The folder does not *)
(* change during a scan.                                                   *)
(***************************************************************************)
EXTENDS Evidence, Selection, SequencesExt

CONSTANTS
    Tree,          \* what may be in the folder: path -> what is there
    Folders,       \* sets of paths that may be there together
    Rules,         \* .gitignore: a sequence of [pat, neg]
    Commands,      \* commands_for: manifest -> commands
    MaxFiles, MaxFileBytes, MaxTotalBytes, MaxTodos,   \* ProjectLimits
    Names, Patterns                                    \* for the rules alone

(* language_of and manifest_of.                                            *)
Languages == {"Rust", "C", "C++", "Python", "JavaScript", "TypeScript", "Go", "Java", "C#",
              "Config", "Docs"}
Contents  == [kind: {"file", "dir", "link", "locked"}, skip: BOOLEAN, secret: BOOLEAN,
              manifest: DOMAIN Commands \cup {"none"}, language: Languages \cup {"none"},
              bytes: Nat, todos: Nat]

(* Paths have a name behind every "/", and what precedes it is there, too. *)
ASSUME ProjectAssumption ==
    /\ {MaxFiles, MaxFileBytes, MaxTotalBytes, MaxTodos} \subseteq Nat
    /\ \A f \in DOMAIN Commands : IsFiniteSet(Commands[f])
    /\ \A p \in DOMAIN Tree : /\ Tree[p] \in Contents
                             /\ p \in Seq(ToSet(p)) \ {<<>>} /\ Last(p) # "/"
    /\ Folders # {}
    /\ \A F \in Folders : /\ F \subseteq DOMAIN Tree /\ IsFiniteSet(F)
                         /\ \A p \in F : \A i \in DOMAIN p :
                               p[i] = "/" => SubSeq(p, 1, i - 1) \in F
    /\ \A s \in Names \cup Patterns : s \in Seq(ToSet(s))

VARIABLES
    folder,        \* what is in the folder
    stack,         \* folders that are still to be read
    unread,        \* entries of the folder that is being read
    found,         \* ProjectScan
    at,            \* "scan", "done", or "rules" when only these are asked
    asked          \* a name and a pattern

jvars == <<folder, stack, unread, found, at, asked>>

-----------------------------------------------------------------------------
(* The ignore rules.                                                       *)

(* str::split: what is before, between and behind the places of c.         *)
PlacesOf(s, c) == {i \in DOMAIN s : s[i] = c}
Edge(s, c, n)  == IF n = 0 THEN 0
                  ELSE IF n > Cardinality(PlacesOf(s, c)) THEN Len(s) + 1 ELSE Nth(PlacesOf(s, c), n)
Split(s, c)    == [n \in 1..Cardinality(PlacesOf(s, c)) + 1 |->
                      SubSeq(s, Edge(s, c, n - 1) + 1, Edge(s, c, n) - 1)]

Occurs(piece, name, i) == SubSeq(name, i + 1, i + Len(piece)) = piece
Lost == -1

(* Defect: something may precede what precedes the first star.             *)
AnchoredNever(first, i) == TRUE

Anchored(first, i) == first => i = 0

(* One round of glob_matches: the next piece at its first place from pos.  *)
Take(name, pos, piece, first) ==
    LET places == {i \in pos..Len(name) - Len(piece) : Occurs(piece, name, i)}
        i      == CHOOSE x \in places : \A y \in places : x <= y
    IN  IF pos = Lost \/ piece = <<>> THEN pos
        ELSE IF places = {} \/ ~Anchored(first, i) THEN Lost ELSE i + Len(piece)

GlobMatches(name, pat) ==
    LET pieces == Split(pat, "*")
        Pos[i \in 0..Len(pieces)] == IF i = 0 THEN 0 ELSE Take(name, Pos[i - 1], pieces[i], i = 1)
    IN  IF Len(pieces) = 1 THEN name = pat
        ELSE Pos[Len(pieces)] # Lost /\ IsSuffix(Last(pieces), name)

(* The path or a segment of it matches; of the rules the last wins.        *)
PathMatches(path, pat) ==
    GlobMatches(path, pat) \/ \E s \in ToSet(Split(path, "/")) : GlobMatches(s, pat)
Ignored(path) ==
    LET matching == {i \in DOMAIN Rules : PathMatches(path, Rules[i].pat)}
    IN  matching # {} /\ ~Rules[CHOOSE i \in matching : \A j \in matching : j <= i].neg

-----------------------------------------------------------------------------
(* The scan.                                                               *)

Here(dir) == {p \in folder : /\ Len(p) > Len(dir) /\ SubSeq(p, 1, Len(dir)) = dir
                             /\ "/" \notin ToSet(SubSeq(p, Len(dir) + 1, Len(p)))}
Inside(dir) == IF dir = <<>> THEN Here(dir) ELSE Here(dir \o <<"/">>)
Root == <<>>

NoScan == [files |-> {}, total_bytes |-> 0, languages |-> <<>>, manifests |-> {}, commands |-> {},
           todos |-> 0, skipped |-> 0, truncated |-> FALSE]

NoRule == <<<<>>, <<>>>>
ProjectFrom(some, rules) ==
    /\ stack = <<Root>> /\ unread = {} /\ found = NoScan
    /\ \/ folder \in some /\ at = "scan" /\ asked = NoRule
       \/ folder = {} /\ at = "rules" /\ asked \in rules
ProjectInit == ProjectFrom(Folders, Names \X Patterns)

(* A folder that cannot be read is passed over.                            *)
Pop ==
    /\ at = "scan" /\ unread = {} /\ stack # <<>>
    /\ stack' = Front(stack)
    /\ unread' = IF Last(stack) # Root /\ Tree[Last(stack)].kind = "locked" THEN {}
                 ELSE Inside(Last(stack))
    /\ UNCHANGED <<folder, found, at, asked>>

Read(p) == at = "scan" /\ p \in unread /\ unread' = unread \ {p} /\ UNCHANGED <<folder, at, asked>>

(* Links are not followed, and ALWAYS_SKIP_DIRS and ignored folders not    *)
(* entered.                                                                *)
ReadLink(p) == Tree[p].kind = "link" /\ Read(p) /\ UNCHANGED <<stack, found>>
ReadDir(p) ==
    /\ Tree[p].kind \in {"dir", "locked"} /\ Read(p)
    /\ stack' = IF Tree[p].skip \/ Ignored(p) THEN stack ELSE Append(stack, p)
    /\ UNCHANGED found

AtLimit == Cardinality(found.files) >= MaxFiles \/ found.total_bytes >= MaxTotalBytes

Bump(counts, lang) ==
    [l \in DOMAIN counts \cup {lang} |->
        (IF l \in DOMAIN counts THEN counts[l] ELSE 0) + (IF l = lang THEN 1 ELSE 0)]

Smaller(a, b) == IF a < b THEN a ELSE b

(* collect_todos leaves when there are enough.                             *)
Todos(s, f) == IF f.bytes <= MaxFileBytes /\ s.todos < MaxTodos
               THEN Smaller(s.todos + f.todos, MaxTodos) ELSE s.todos

WithManifest(s, f) ==
    IF f.manifest = "none" THEN s
    ELSE [s EXCEPT !.manifests = @ \cup {f.manifest}, !.commands = @ \cup Commands[f.manifest]]

WithFile(s, p, f) ==
    IF f.language = "none" THEN s
    ELSE [s EXCEPT !.files = @ \cup {p}, !.total_bytes = @ + f.bytes,
                   !.languages = Bump(@, f.language), !.todos = Todos(s, f)]

(* Defect: what is beyond a limit is left out silently.                    *)
CutSilently(s) == s

Cut(s) == [s EXCEPT !.truncated = TRUE]

(* Secret files are counted before the rules are asked; then the limits;   *)
(* a manifest need not be in a language.                                   *)
ReadFile(p) ==
    /\ Tree[p].kind = "file" /\ Read(p)
    /\ found' = IF Tree[p].secret THEN [found EXCEPT !.skipped = @ + 1]
                ELSE IF Ignored(p) THEN found
                ELSE IF AtLimit THEN Cut(found)
                ELSE WithFile(WithManifest(found, Tree[p]), p, Tree[p])
    /\ UNCHANGED stack

ScanEnds == /\ at = "scan" /\ unread = {} /\ stack = <<>> /\ at' = "done"
            /\ UNCHANGED <<folder, stack, unread, found, asked>>

ProjectNext == Pop \/ ScanEnds \/ \E p \in unread : ReadLink(p) \/ ReadDir(p) \/ ReadFile(p)

-----------------------------------------------------------------------------
(* Properties.                                                             *)

ProjectTypeOK ==
    /\ folder \in Folders \cup {{}} /\ at \in {"scan", "done", "rules"}
    /\ found.files \subseteq DOMAIN Tree /\ found.todos \in 0..MaxTodos
    /\ unread \subseteq folder /\ ToSet(stack) \subseteq folder \cup {Root}

(* What a pattern means when its stars stand for runs of these letters: of *)
(* every part of the pattern, where in the name it may end.                *)
Covers(name, k, i, letters) == k <= i /\ \A x \in k + 1..i : name[x] \in letters
Means(name, pat, letters) ==
    LET Ends[j \in 0..Len(pat)] ==
          IF j = 0 THEN {0}
          ELSE IF pat[j] = "*"
               THEN {i \in 0..Len(name) : \E k \in Ends[j - 1] : Covers(name, k, i, letters)}
          ELSE {i \in 1..Len(name) : name[i] = pat[j] /\ i - 1 \in Ends[j - 1]}
    IN  Len(name) \in Ends[Len(pat)]

(* The rules decide as glob_matches says of them, "a star is any string    *)
(* without the path separator": the greedy search for the pieces between   *)
(* the stars, which never takes a place back, misses no name that means,   *)
(* and of a segment finds no other.  Of a path the code finds more than it *)
(* says, and what it finds is still the pattern, its stars running across  *)
(* separators.                                                             *)
RulesMeanWhatTheySay ==
    at = "rules" =>
      LET name  == asked[1]
          pat   == asked[2]
          said  == Means(name, pat, ToSet(name) \ {"/"})
          finds == GlobMatches(name, pat)
      IN  /\ said => finds
          /\ "/" \notin ToSet(name) => (finds <=> said)
          /\ finds <=> Means(name, pat, ToSet(name))

(* The files a scan is about: in folders that are entered, not links, not  *)
(* secret, not ignored, in a language.                                     *)
Above(p) == {q \in folder : Len(q) < Len(p) /\ IsPrefix(q \o <<"/">>, p)}
Reached == {p \in folder : \A q \in Above(p) : Tree[q].kind = "dir" /\ ~Tree[q].skip /\ ~Ignored(q)}
Files   == {p \in Reached : Tree[p].kind = "file"}
Wanted  == {p \in Files : ~Tree[p].secret /\ ~Ignored(p)}
Code    == {p \in Wanted : Tree[p].language # "none"}
Bytes(F) == SumFunction([p \in F |-> Tree[p].bytes])

(* A scan accounts for every file, in whatever order the file system lists *)
(* them: what is not found was cut, and then it says so; secret files are  *)
(* counted and never found; the limits are overrun by one file at most.    *)
(* Its evidence is never refused, and all of it is Minimal.                *)
ScanAccountsForFiles ==
    at = "done" =>
      /\ found.files \subseteq Code
      /\ ~found.truncated => /\ found.files = Code
                             /\ found.manifests = {Tree[p].manifest : p \in Wanted} \ {"none"}
      /\ found.skipped = Cardinality({p \in Files : Tree[p].secret})
      /\ Cardinality(found.files) <= MaxFiles /\ found.total_bytes = Bytes(found.files)
      /\ found.files = {} \/ \E p \in found.files : Bytes(found.files \ {p}) < MaxTotalBytes
      /\ Cardinality(found.files) = SumFunction(found.languages)
      /\ Bundle(OfProject(found), Minimal) # {}
=============================================================================
