---------------------------- MODULE FitProfile ----------------------------
(***************************************************************************)
(* The fit profile of one user: question sets that are asked for, answers  *)
(* that are submitted to them, the vector and its version, the history of  *)
(* vectors, and the erasure.  Nothing spans two of the writes: a           *)
(* submission stores the answers, the vector, the snapshot and the end of  *)
(* its set one after the other, and each call runs beside the others.      *)
(*                                                                         *)
(* A submission stands for its 25 answers and for the vector they give. A  *)
(* set is known by its place in `sets', which is in the order of creation. *)
(* An erasure takes the answers and the vector; the history of vectors, in *)
(* `snapshots', is the user's too and stays.                               *)
(***************************************************************************)
EXTENDS Naturals, Sequences, FiniteSets

CONSTANTS
  Looks,    \* requests for a question set
  Submits,  \* submissions
  Erasures, \* requests to erase the profile
  Pools,    \* the active questions, in the order in which the database lists them
  NoPool,   \* there is no active question
  NoRow,     \* no row, no vector, or nothing shown
  FitFaults \* what may go wrong

\* A row of UserFitProfile, and what a look shows: a set, and its questions.
Rows == [vector : Submits \cup {NoRow}, version : Nat]
Shown == [set : Nat, pool : Pools]

ASSUME FitAssumption ==
  /\ NoPool \in Pools
  /\ NoRow \notin Submits \cup Rows \cup Shown
  /\ FitFaults \subseteq {"db", "crash"}

VARIABLES
  pool,      \* the active questions
  sets,      \* the question sets: the generation in the seed, and completed or not
  answers,   \* the submissions whose answers are stored
  profile,   \* the user's row: whose vector, and its version
  snapshots, \* the submissions that the history has
  lpc,       \* where each look is
  lpool,     \* the questions it read
  lgen,      \* the generation it counted
  shown,     \* the set it showed, and the questions that were listed
  spc,       \* where each submission is
  form,      \* what it answers: something that was shown
  version,   \* the version it was given, 0 before
  stopped,   \* submissions that threw or died where they are
  epc,       \* where each erasure is
  ended,     \* history: the submissions that had ended when it began
  beside,    \* history: submissions let in beside another one to the same set
  crowded    \* history: two looks found no open set side by side

data == <<pool, sets, answers, profile, snapshots>>
looking == <<lpc, lpool, lgen, shown>>
submitting == <<spc, form, version, stopped>>
erasing == <<epc, ended>>
history == <<beside, crowded>>
fitVars == <<data, looking, submitting, erasing, history>>

FitInit ==
  /\ pool \in Pools
  /\ sets = <<>>
  /\ answers = {}
  /\ profile = NoRow
  /\ snapshots = {}
  /\ lpc = [l \in Looks |-> "list"]
  /\ lpool = [l \in Looks |-> NoPool]
  /\ lgen = [l \in Looks |-> 0]
  /\ shown = [l \in Looks |-> NoRow]
  /\ spc = [s \in Submits |-> "new"]
  /\ form = [s \in Submits |-> NoRow]
  /\ version = [s \in Submits |-> 0]
  /\ stopped = {}
  /\ epc = [e \in Erasures |-> "answers"]
  /\ ended = [e \in Erasures |-> {}]
  /\ beside = {}
  /\ crowded = FALSE

\* A write to a question: the sample that a seed gives may change with the questions
\* and with the order in which they are listed.
ChangePool ==
  /\ pool' \in Pools
  /\ UNCHANGED <<sets, answers, profile, snapshots, looking, submitting, erasing, history>>

-----------------------------------------------------------------------------
(* GetOrCreateQuestionSet. *)

OpenSets == {i \in DOMAIN sets : ~sets[i].done}

\* Without active questions the call throws.
ListActive(l) ==
  /\ lpc[l] = "list"
  /\ lpool' = [lpool EXCEPT ![l] = pool]
  /\ lpc' = [lpc EXCEPT ![l] = IF pool = NoPool THEN "done" ELSE "find"]
  /\ UNCHANGED <<data, lgen, shown, submitting, erasing, history>>

\* Slip: a set is created whether one is open or not.
FindOpen_Always(l) ==
  /\ lpc[l] = "find"
  /\ lpc' = [lpc EXCEPT ![l] = "count"]
  /\ crowded' = (crowded \/ \E k \in Looks \ {l} : lpc[k] \in {"count", "create"})
  /\ UNCHANGED <<data, lpool, lgen, shown, submitting, erasing, beside>>

\* The newest open set is shown, if there is one.
FindOpen(l) ==
  /\ lpc[l] = "find"
  /\ \/ \E i \in OpenSets :
          /\ \A j \in OpenSets : j <= i
          /\ shown' = [shown EXCEPT ![l] = [set |-> i, pool |-> lpool[l]]]
          /\ lpc' = [lpc EXCEPT ![l] = "done"]
          /\ UNCHANGED crowded
     \/ /\ OpenSets = {}
        /\ lpc' = [lpc EXCEPT ![l] = "count"]
        /\ crowded' = (crowded \/ \E k \in Looks \ {l} : lpc[k] \in {"count", "create"})
        /\ UNCHANGED shown
  /\ UNCHANGED <<data, lpool, lgen, submitting, erasing, beside>>

\* Slip: the generation is the number of sets that have answers.
CountSets_Answered(l) ==
  /\ lpc[l] = "count"
  /\ lgen' = [lgen EXCEPT ![l] = Cardinality({form[s].set : s \in answers}) + 1]
  /\ lpc' = [lpc EXCEPT ![l] = "create"]
  /\ UNCHANGED <<data, lpool, shown, submitting, erasing, history>>

CountSets(l) ==
  /\ lpc[l] = "count"
  /\ lgen' = [lgen EXCEPT ![l] = Len(sets) + 1]
  /\ lpc' = [lpc EXCEPT ![l] = "create"]
  /\ UNCHANGED <<data, lpool, shown, submitting, erasing, history>>

CreateSet(l) ==
  /\ lpc[l] = "create"
  /\ sets' = Append(sets, [gen |-> lgen[l], done |-> FALSE])
  /\ shown' = [shown EXCEPT ![l] = [set |-> Len(sets) + 1, pool |-> lpool[l]]]
  /\ lpc' = [lpc EXCEPT ![l] = "done"]
  /\ UNCHANGED <<pool, answers, profile, snapshots, lpool, lgen, submitting, erasing, history>>

LookError(l) ==
  /\ lpc[l] # "done"
  /\ FitFaults # {}
  /\ lpc' = [lpc EXCEPT ![l] = "done"]
  /\ UNCHANGED <<data, lpool, lgen, shown, submitting, erasing, history>>

-----------------------------------------------------------------------------
(* SubmitFitAnswers. *)

AtWork(s) == spc[s] \notin {"new", "done"} /\ s \notin stopped

At(s, where) == spc[s] = where /\ s \notin stopped

Goto(s, where) == spc' = [spc EXCEPT ![s] = where]

\* Slip: a completed set is not refused.
FindSet_Unchecked(s) ==
  /\ spc[s] = "new"
  /\ \E l \in Looks :
       /\ shown[l] # NoRow
       /\ form' = [form EXCEPT ![s] = shown[l]]
       /\ Goto(s, "match")
       /\ beside' = IF \E t \in Submits : AtWork(t) /\ form[t].set = shown[l].set
                      THEN beside \cup {s} ELSE beside
  /\ UNCHANGED <<data, looking, version, stopped, erasing, crowded>>

\* The user submits answers to what some look has shown.  A set that is completed by
\* now is refused.
FindSet(s) ==
  /\ spc[s] = "new"
  /\ \E l \in Looks :
       /\ shown[l] # NoRow
       /\ form' = [form EXCEPT ![s] = shown[l]]
       /\ LET open == ~sets[shown[l].set].done IN
            /\ Goto(s, IF open THEN "match" ELSE "done")
            /\ beside' = IF open /\ \E t \in Submits : AtWork(t) /\ form[t].set = shown[l].set
                           THEN beside \cup {s} ELSE beside
  /\ UNCHANGED <<data, looking, version, stopped, erasing, crowded>>

\* The answers must be to the questions that the seed gives now.
MatchSample(s) ==
  /\ At(s, "match")
  /\ Goto(s, IF form[s].pool = pool THEN "answers" ELSE "done")
  /\ UNCHANGED <<data, looking, form, version, stopped, erasing, history>>

\* All 25 rows in one transaction.
SaveAnswers(s) ==
  /\ At(s, "answers")
  /\ answers' = answers \cup {s}
  /\ Goto(s, "vector")
  /\ UNCHANGED <<pool, sets, profile, snapshots, looking, form, version, stopped, erasing, history>>

NextVersion == IF profile = NoRow THEN 1 ELSE profile.version + 1

\* Slip: the version is one more than what the last submission that returned was given.
UpsertVector_ReadFirst(s) ==
  /\ At(s, "vector")
  /\ LET v == Cardinality({t \in Submits : spc[t] = "done" /\ version[t] > 0}) + 1 IN
       /\ profile' = [vector |-> s, version |-> v]
       /\ version' = [version EXCEPT ![s] = v]
  /\ Goto(s, "snapshot")
  /\ UNCHANGED <<pool, sets, answers, snapshots, looking, form, stopped, erasing, history>>

\* One statement of the database: the row is created, or overwritten under the next
\* version.
UpsertVector(s) ==
  /\ At(s, "vector")
  /\ profile' = [vector |-> s, version |-> NextVersion]
  /\ version' = [version EXCEPT ![s] = NextVersion]
  /\ Goto(s, "snapshot")
  /\ UNCHANGED <<pool, sets, answers, snapshots, looking, form, stopped, erasing, history>>

\* A snapshot that cannot be appended is done without.
AppendSnapshot(s) ==
  /\ At(s, "snapshot")
  /\ \/ snapshots' = snapshots \cup {s}
     \/ "db" \in FitFaults /\ UNCHANGED snapshots
  /\ Goto(s, "complete")
  /\ UNCHANGED <<pool, sets, answers, profile, looking, form, version, stopped, erasing, history>>

\* The event that follows has one subscriber, which is for expiries.
MarkCompleted(s) ==
  /\ At(s, "complete")
  /\ sets' = [sets EXCEPT ![form[s].set].done = TRUE]
  /\ Goto(s, "done")
  /\ UNCHANGED <<pool, answers, profile, snapshots, looking, form, version, stopped, erasing, history>>

\* Slip: the vector is treated like the snapshot, and done without.
SubmitError_Logged(s) ==
  /\ AtWork(s)
  /\ "crash" \in FitFaults \/ ("db" \in FitFaults /\ spc[s] # "snapshot")
  /\ IF spc[s] = "vector"
       THEN Goto(s, "snapshot") /\ UNCHANGED stopped
       ELSE stopped' = stopped \cup {s} /\ UNCHANGED spc
  /\ UNCHANGED <<data, looking, form, version, erasing, history>>

\* Anything but a snapshot that fails ends the submission where it is.
SubmitError(s) ==
  /\ AtWork(s)
  /\ "crash" \in FitFaults \/ ("db" \in FitFaults /\ spc[s] # "snapshot")
  /\ stopped' = stopped \cup {s}
  /\ UNCHANGED <<data, looking, spc, form, version, erasing, history>>

-----------------------------------------------------------------------------
(* DeleteFitProfile. *)

\* Slip: the answers to the newest set are deleted.
DeleteAnswers_Newest(e) ==
  /\ epc[e] = "answers"
  /\ answers' = {s \in answers : form[s].set # Len(sets)}
  /\ epc' = [epc EXCEPT ![e] = "profile"]
  /\ ended' = [ended EXCEPT ![e] = {s \in Submits : spc[s] # "new" /\ ~AtWork(s)}]
  /\ UNCHANGED <<pool, sets, profile, snapshots, looking, submitting, history>>

\* The answers of all sets.  The snapshots stay.
DeleteAnswers(e) ==
  /\ epc[e] = "answers"
  /\ answers' = {}
  /\ epc' = [epc EXCEPT ![e] = "profile"]
  /\ ended' = [ended EXCEPT ![e] = {s \in Submits : spc[s] # "new" /\ ~AtWork(s)}]
  /\ UNCHANGED <<pool, sets, profile, snapshots, looking, submitting, history>>

FindProfile(e) ==
  /\ epc[e] = "profile"
  /\ epc' = [epc EXCEPT ![e] = IF profile = NoRow THEN "done" ELSE "vector"]
  /\ UNCHANGED <<data, looking, submitting, ended, history>>

\* Slip: the row goes altogether.
Anonymize_Delete(e) ==
  /\ epc[e] = "vector"
  /\ profile' = NoRow
  /\ epc' = [epc EXCEPT ![e] = "done"]
  /\ UNCHANGED <<pool, sets, answers, snapshots, looking, submitting, ended, history>>

\* The row and its version stay, without a vector.
Anonymize(e) ==
  /\ epc[e] = "vector"
  /\ profile' = [profile EXCEPT !.vector = NoRow]
  /\ epc' = [epc EXCEPT ![e] = "done"]
  /\ UNCHANGED <<pool, sets, answers, snapshots, looking, submitting, ended, history>>

EraseError(e) ==
  /\ epc[e] \notin {"done", "failed"}
  /\ FitFaults # {}
  /\ epc' = [epc EXCEPT ![e] = "failed"]
  /\ UNCHANGED <<data, looking, submitting, ended, history>>

-----------------------------------------------------------------------------
LookStep(l) == ListActive(l) \/ FindOpen(l) \/ CountSets(l) \/ CreateSet(l) \/ LookError(l)

SubmitStep(s) ==
  \/ FindSet(s) \/ MatchSample(s) \/ SaveAnswers(s) \/ UpsertVector(s)
  \/ AppendSnapshot(s) \/ MarkCompleted(s) \/ SubmitError(s)

EraseStep(e) == DeleteAnswers(e) \/ FindProfile(e) \/ Anonymize(e) \/ EraseError(e)

FitNext ==
  \/ ChangePool
  \/ \E l \in Looks : LookStep(l)
  \/ \E s \in Submits : SubmitStep(s)
  \/ \E e \in Erasures : EraseStep(e)

FitSpec == FitInit /\ [][FitNext]_fitVars

-----------------------------------------------------------------------------
FitTypeOK ==
  /\ pool \in Pools
  /\ sets \in Seq([gen : Nat, done : BOOLEAN])
  /\ answers \subseteq Submits /\ snapshots \subseteq Submits
  /\ profile \in Rows \cup {NoRow}
  /\ lpc \in [Looks -> {"list", "find", "count", "create", "done"}]
  /\ lpool \in [Looks -> Pools] /\ lgen \in [Looks -> Nat]
  /\ shown \in [Looks -> Shown \cup {NoRow}]
  /\ spc \in [Submits -> {"new", "match", "answers", "vector", "snapshot", "complete", "done"}]
  /\ form \in [Submits -> Shown \cup {NoRow}] /\ version \in [Submits -> Nat]
  /\ epc \in [Erasures -> {"answers", "profile", "vector", "done", "failed"}]
  /\ ended \in [Erasures -> SUBSET Submits]
  /\ stopped \subseteq Submits /\ beside \subseteq Submits /\ crowded \in BOOLEAN

Scored == {s \in Submits : version[s] > 0}

\* SubmitFitAnswers promises that the user can retry after a crash, without duplicate
\* vectors.  A set that is completed has been scored; and two submissions to one set
\* are stored and scored both only when the second was let in beside the first, or one
\* stopped half way: that one's answers, and its vector once it has one, are there twice
\* after the retry.
ScoredOnce ==
  /\ \A i \in DOMAIN sets : sets[i].done => \E s \in Scored : form[s].set = i
  /\ \A s, t \in answers \cup Scored :
       s # t /\ form[s].set = form[t].set => {s, t} \cap (beside \cup stopped) # {}

\* Concurrent submissions land on distinct versions, the newest vector under the newest
\* of them, and an erasure between two of them does not start the numbers again.
VersionsDistinct ==
  /\ \A s, t \in Scored : s # t => version[s] # version[t]
  /\ \A s \in Scored : profile # NoRow /\ version[s] <= profile.version
  /\ profile # NoRow /\ profile.vector # NoRow => version[profile.vector] = profile.version

\* Once an erasure has returned, there are no answers and no vector of the submissions
\* that had ended when it began, whichever others run beside it; those may store theirs
\* after it.  Their `snapshots' it does not touch: the rows of FitRemapHistory keep the
\* user's id and the vector, although DeleteFitProfile calls them anonymised.
ErasedStaysErased ==
  \A e \in Erasures : epc[e] = "done" =>
    /\ answers \cap ended[e] = {}
    /\ profile # NoRow => profile.vector \notin ended[e]

\* A user has one open set, and the sets have seeds of their own, so that a new one asks
\* other questions: unless two looks found none side by side.
OneOpenSet ==
  ~crowded =>
    /\ Cardinality(OpenSets) <= 1
    /\ \A i, j \in DOMAIN sets : sets[i].gen = sets[j].gen => i = j
=============================================================================
