----------------------- MODULE QualityRecompute_proofs -----------------------
(***************************************************************************)
(* Proofs about QualityRecompute: its types; that the fixed job id admits  *)
(* one grader at a time; and that, until a recompute is called for         *)
(* directly, the score never goes back and an accepted edit is scored.     *)
(***************************************************************************)
EXTENDS QualityRecompute, TLAPS

\* A worker is at work only while the job is active, and it is the only one.
GraderInv ==
  /\ \A w \in Workers : Working(w) => job.state = "active"
  /\ OneGrader

\* A computation has loaded the resume before it saves, and a job that is not
\* over has an attempt left.
LoadedInv ==
  /\ \A x \in Computers : comp[x].pc \in {"content", "save"} => comp[x].read \in Editions
  /\ job.state \in {"none", "delayed", "waiting", "active"} => job.tries < MaxAttempts

\* Until somebody calls directly, workers alone compute.
DirectInv == ~direct => \A c \in Callers : ~Working(c)

IInv == TypeOK /\ GraderInv /\ LoadedInv /\ DirectInv

-----------------------------------------------------------------------------
LEMMA InitIInv == Init => IInv
<1> SUFFICES ASSUME Init PROVE IInv
  OBVIOUS
<1>1. TypeOK
  <2>1. resume \in Editions /\ latest \in Scores \cup {NoRow}
    BY DEF Init, Editions, Scores
  <2>2. job \in [state : {"none", "delayed", "waiting", "active", "completed", "failed"},
                 runAi : BOOLEAN, tries : 0..MaxAttempts]
    BY RecomputeAssumption DEF Init, NoJob
  <2>3. comp \in [Computers -> [pc : {"idle", "load", "content", "save", "publish"},
                               runAi : BOOLEAN, read : Editions \cup {NoRow},
                               score : Nat \cup {NoScore}]]
    BY DEF Init, Idle
  <2>4. handler \in [Handlers -> {"idle", "remove", "addAi", "add"}]
    BY DEF Init
  <2> QED
    BY <2>1, <2>2, <2>3, <2>4 DEF Init, TypeOK
<1>2. GraderInv /\ LoadedInv
  BY RecomputeAssumption
     DEF Init, GraderInv, LoadedInv, OneGrader, Editions, NoJob, Idle, Working, Computers
<1>3. DirectInv
  BY DEF Init, DirectInv, Idle, Working, Computers
<1> QED
  BY <1>1, <1>2, <1>3 DEF IInv

LEMMA StepIInv == IInv /\ [Next]_vars => IInv'
<1> SUFFICES ASSUME IInv, [Next]_vars PROVE IInv'
  OBVIOUS
<1> USE RecomputeAssumption
    DEF IInv, GraderInv, LoadedInv, DirectInv, OneGrader, TypeOK, Editions, Scores, NoJob, Idle, Working, Computers
<1>1. ASSUME NEW kind \in EditKinds, NEW h \in Handlers, Edit(kind, h) PROVE IInv'
  BY <1>1 DEF Edit
<1>2. ASSUME NEW kind \in EditKinds, EditUnpublished(kind) PROVE IInv'
  BY <1>2 DEF EditUnpublished
<1>3. ASSUME NEW h \in Handlers, Remove(h) PROVE IInv'
  BY <1>3 DEF Remove
<1>4. ASSUME NEW h \in Handlers, RemoveError(h) PROVE IInv'
  BY <1>4 DEF RemoveError
<1>5. ASSUME NEW h \in Handlers, Enqueue(h) PROVE IInv'
  BY <1>5 DEF Enqueue
<1>6. ASSUME NEW h \in Handlers, EnqueueError(h) PROVE IInv'
  BY <1>6 DEF EnqueueError
<1>7. ASSUME DelayEnds PROVE IInv'
  BY <1>7 DEF DelayEnds
<1>8. ASSUME Forget PROVE IInv'
  BY <1>8 DEF Forget
<1>9. ASSUME Stalled PROVE IInv'
  BY <1>9 DEF Stalled
<1>10. ASSUME NEW w \in Workers, PickUp(w) PROVE IInv'
  BY <1>10 DEF PickUp
<1>11. ASSUME NEW w \in Workers, Crash(w) PROVE IInv'
  BY <1>11 DEF Crash
<1>12. ASSUME NEW c \in Callers, CallRecompute(c) PROVE IInv'
  <2>1. c \notin Workers /\ c \in Computers
    OBVIOUS
  <2> QED
    BY <1>12, <2>1 DEF CallRecompute
<1>13. ASSUME NEW x \in Computers, Load(x) PROVE IInv'
  BY <1>13 DEF Load
<1>14. ASSUME NEW x \in Computers, AnalyzeContent(x) PROVE IInv'
  BY <1>14 DEF AnalyzeContent
<1>15. ASSUME NEW x \in Computers, ReuseContent(x) PROVE IInv'
  BY <1>15 DEF ReuseContent
<1>16. ASSUME NEW x \in Computers, Save(x) PROVE IInv'
  BY <1>16 DEF Save
<1>17. ASSUME NEW x \in Computers, Finish(x) PROVE IInv'
  BY <1>17 DEF Finish
<1>18. ASSUME NEW x \in Computers, ComputeError(x) PROVE IInv'
  <2>1. CASE x \in Workers
    <3>1. job.tries \in Nat /\ job.tries < MaxAttempts
      BY <1>18, <2>1 DEF ComputeError
    <3>2. \E s \in {"failed", "delayed"} :
            /\ job' = [job EXCEPT !.state = s, !.tries = @ + 1]
            /\ s = "delayed" => job.tries + 1 < MaxAttempts
      <4>1. CASE job.tries + 1 >= MaxAttempts
        BY <1>18, <2>1, <4>1 DEF ComputeError
      <4>2. CASE ~(job.tries + 1 >= MaxAttempts)
        <5>1. job' = [job EXCEPT !.state = "delayed", !.tries = @ + 1]
          BY <1>18, <2>1, <4>2 DEF ComputeError
        <5> QED
          BY <5>1, <4>2, <3>1
      <4> QED
        BY <4>1, <4>2
    <3>3. /\ comp' = [comp EXCEPT ![x] = Idle]
          /\ due' \in {due, NoRow}
          /\ UNCHANGED <<resume, latest, handler, direct>>
      BY <1>18, <2>1 DEF ComputeError
    <3>5. job.tries + 1 \in 0..MaxAttempts
      BY <3>1
    <3>6. TypeOK' /\ LoadedInv' /\ DirectInv'
      BY <3>2, <3>3, <3>5
    <3>4. \A w \in Workers : ~Working(w)'
      BY <1>18, <2>1 DEF ComputeError
    <3> QED
      BY <3>6, <3>4
  <2>2. CASE x \notin Workers
    BY <1>18, <2>2 DEF ComputeError
  <2> QED
    BY <2>1, <2>2
<1>19. CASE UNCHANGED vars
  BY <1>19 DEF vars
<1> QED
  BY <1>1, <1>2, <1>3, <1>4, <1>5, <1>6, <1>7, <1>8, <1>9, <1>10, <1>11, <1>12, <1>13,
     <1>14, <1>15, <1>16, <1>17, <1>18, <1>19
     DEF Next, Handle, Compute

THEOREM Invariance == Spec => []IInv
BY InitIInv, StepIInv, PTL DEF Spec

\* The variables keep their types: a job is tried MaxAttempts times at most and
\* a score's AI half is an edition of the text or nothing.
THEOREM TypeCorrect == Spec => []TypeOK
<1>1. IInv => TypeOK
  BY DEF IInv
<1> QED
  BY <1>1, Invariance, PTL

\* However many events, workers, direct calls, crashes and retries there are, one
\* worker at most computes the score on behalf of the queue.
THEOREM GradersExclude == Spec => []OneGrader
<1>1. IInv => OneGrader
  BY DEF IInv, GraderInv
<1> QED
  BY <1>1, Invariance, PTL

-----------------------------------------------------------------------------
(* The score never goes back, until somebody calls for a recompute directly. *)

\* What was read is between what is saved and what there is; the AI half of what
\* is about to be saved is no older than the one it replaces.
ScoreInv ==
  /\ latest # NoRow =>
       /\ AtLeast(resume, latest)
       /\ latest.graded # NoScore => latest.graded <= latest.text
  /\ \A x \in Computers : comp[x].pc \in {"content", "save"} =>
       /\ AtLeast(resume, comp[x].read)
       /\ latest # NoRow => AtLeast(comp[x].read, latest)
  /\ \A x \in Computers : comp[x].pc = "save" /\ comp[x].score # NoScore =>
       /\ comp[x].score <= comp[x].read.text
       /\ latest # NoRow /\ latest.graded # NoScore => comp[x].score >= latest.graded

LEMMA InitScore == Init => ScoreInv
BY RecomputeAssumption DEF Init, ScoreInv, AtLeast, Idle, Computers

LEMMA StepScore ==
  ASSUME ~direct, ~direct', IInv, ScoreInv, [Next]_vars
  PROVE  ScoreInv'
<1> USE RecomputeAssumption DEF ScoreInv, AtLeast
<1>0. \A v, w \in Computers : Working(v) /\ Working(w) => v = w
  BY DEF IInv, GraderInv, DirectInv, OneGrader, Computers
<1>1. TypeOK /\ LoadedInv
  BY DEF IInv
<1>2. ASSUME NEW kind \in EditKinds, resume' = [resume EXCEPT ![kind] = @ + 1],
             UNCHANGED <<latest, comp>>
      PROVE  ScoreInv'
  <2>1. resume'.text \in Nat /\ resume'.rest \in Nat /\ resume' # NoRow
    BY <1>1, <1>2 DEF TypeOK, Editions
  <2>2. resume'.text >= resume.text /\ resume'.rest >= resume.rest
    BY <1>1, <1>2 DEF TypeOK, Editions
  <2>3. AtLeast(resume, latest) /\ latest # NoRow => AtLeast(resume', latest)
    BY <1>1, <2>1, <2>2 DEF TypeOK, Editions, Scores
  <2>4. \A x \in Computers :
          comp[x].pc \in {"content", "save"} => AtLeast(resume', comp[x].read)
    BY <1>1, <2>1, <2>2 DEF TypeOK, Editions, LoadedInv
  <2> QED
    BY <1>2, <2>3, <2>4
<1>3. ASSUME UNCHANGED <<resume, latest, comp>> PROVE ScoreInv'
  BY <1>3
<1>4. ASSUME NEW x \in Computers, UNCHANGED <<resume, latest>>,
             \/ comp' = [comp EXCEPT ![x] = Idle]
             \/ \E a \in BOOLEAN :
                  comp' = [comp EXCEPT ![x] = [Idle EXCEPT !.pc = "load", !.runAi = a]]
      PROVE  ScoreInv'
  <2>1. comp'[x].pc \in {"idle", "load"}
    <3> HIDE DEF ScoreInv, AtLeast
    <3>1. Idle.pc = "idle"
      BY DEF Idle
    <3>2. \A a \in BOOLEAN : [Idle EXCEPT !.pc = "load", !.runAi = a].pc = "load"
      BY DEF Idle
    <3>3. x \in DOMAIN comp
      BY <1>1 DEF TypeOK
    <3>4. CASE comp' = [comp EXCEPT ![x] = Idle]
      BY <3>1, <3>3, <3>4
    <3>5. ASSUME NEW a \in BOOLEAN,
                 comp' = [comp EXCEPT ![x] = [Idle EXCEPT !.pc = "load", !.runAi = a]]
          PROVE  comp'[x].pc = "load"
      BY <3>2, <3>3, <3>5
    <3> QED
      BY <1>4, <3>4, <3>5
  <2>2. \A y \in Computers : y # x => comp'[y] = comp[y]
    BY <1>1, <1>4 DEF TypeOK
  <2> QED
    BY <1>4, <2>1, <2>2
<1>5. ASSUME NEW x \in Computers, Load(x) PROVE ScoreInv'
  BY <1>1, <1>5 DEF Load, TypeOK, Editions
<1>6. ASSUME NEW x \in Computers, AnalyzeContent(x) PROVE ScoreInv'
  BY <1>1, <1>6 DEF AnalyzeContent, TypeOK, LoadedInv, Editions, Scores
<1>7. ASSUME NEW x \in Computers, ReuseContent(x) PROVE ScoreInv'
  BY <1>1, <1>7 DEF ReuseContent, TypeOK, LoadedInv, Editions, Scores
<1>8. ASSUME NEW x \in Computers, Save(x) PROVE ScoreInv'
  <2>1. latest' # NoRow /\ AtLeast(resume', latest')
    BY <1>1, <1>8 DEF Save, TypeOK, LoadedInv, Editions, Scores
  <2>2. latest'.graded # NoScore => latest'.graded <= latest'.text
    BY <1>1, <1>8 DEF Save, TypeOK, LoadedInv, Editions, Scores
  <2>3. \A y \in Computers : comp'[y].pc \notin {"content", "save"}
    BY <1>0, <1>1, <1>8 DEF Save, TypeOK, Working
  <2> QED
    BY <2>1, <2>2, <2>3
<1>10. ASSUME NEW h \in Handlers, Handle(h) PROVE ScoreInv'
  BY <1>3, <1>10 DEF Handle, Remove, RemoveError, Enqueue, EnqueueError
<1>11. ASSUME DelayEnds \/ Forget \/ Stalled PROVE ScoreInv'
  BY <1>3, <1>11 DEF DelayEnds, Forget, Stalled
<1>12. ASSUME NEW w \in Workers, PickUp(w) \/ Crash(w) PROVE ScoreInv'
  <2>1. w \in Computers /\ job.runAi \in BOOLEAN
    BY <1>1 DEF TypeOK, Computers
  <2>2. CASE PickUp(w)
    <3>1. comp' = [comp EXCEPT ![w] = [Idle EXCEPT !.pc = "load", !.runAi = job.runAi]]
      BY <2>2 DEF PickUp
    <3>2. UNCHANGED <<resume, latest>>
      BY <2>2 DEF PickUp
    <3> QED
      BY <1>4, <2>1, <3>1, <3>2
  <2>3. CASE Crash(w)
    BY <1>4, <2>1, <2>3 DEF Crash
  <2> QED
    BY <1>12, <2>2, <2>3
<1>13. ASSUME NEW x \in Computers, Finish(x) \/ ComputeError(x) PROVE ScoreInv'
  BY <1>4, <1>13 DEF Finish, ComputeError
<1>14. ASSUME NEW kind \in EditKinds, NEW h \in Handlers,
              EditUnpublished(kind) \/ Edit(kind, h)
       PROVE  ScoreInv'
  BY <1>2, <1>14 DEF EditUnpublished, Edit
<1>15. ASSUME NEW kind \in EditKinds, EditUnpublished(kind) PROVE ScoreInv'
  BY <1>2, <1>15 DEF EditUnpublished
<1>16. CASE UNCHANGED vars
  BY <1>3, <1>16 DEF vars
<1> QED
  BY <1>5, <1>6, <1>7, <1>8, <1>10, <1>11, <1>12, <1>13, <1>14, <1>15, <1>16
     DEF Next, Compute, CallRecompute

\* A direct call is not forgotten.
LEMMA DirectStays == IInv /\ [Next]_vars => (direct => direct')
  BY DEF Next, vars, Edit, EditUnpublished, Handle, Remove, RemoveError, Enqueue, EnqueueError,
     DelayEnds, Forget, Stalled, PickUp, Crash, CallRecompute, Compute, Load, AnalyzeContent,
     ReuseContent, Save, Finish, ComputeError

\* A reader never sees the score of an older edition after that of a newer one,
\* nor an AI half that grades an older text, while only the queue computes scores.
THEOREM ScoreMonotone == Spec => ScoreNeverGoesBack
<1> DEFINE S == ~direct => ScoreInv
           P == ~direct' /\ latest # NoRow /\ latest' # latest =>
                  /\ AtLeast(latest', latest)
                  /\ latest.graded # NoScore /\ latest'.graded # NoScore =>
                       latest'.graded >= latest.graded
<1>1. ASSUME S, IInv, Next PROVE P
  <2>1. CASE UNCHANGED latest
    BY <2>1
  <2>2. ASSUME NEW x \in Computers, Save(x) PROVE P
    BY <1>1, <2>2, RecomputeAssumption, DirectStays
       DEF Save, ScoreInv, AtLeast, IInv, TypeOK, LoadedInv, Editions, Scores
  <2>3. (\E x \in Computers : Save(x)) \/ UNCHANGED latest
    BY <1>1 DEF Next, Edit, EditUnpublished, Handle, Remove, RemoveError, Enqueue,
       EnqueueError, DelayEnds, Forget, Stalled, PickUp, Crash, CallRecompute, Compute,
       Load, AnalyzeContent, ReuseContent, Finish, ComputeError
  <2> QED
    BY <2>1, <2>2, <2>3
<1>2. S /\ IInv /\ [Next]_vars => [P]_vars
  BY <1>1 DEF vars
<1>3. S /\ IInv /\ [Next]_vars => S'
  BY StepScore, DirectStays
<1>4. Init => S
  BY InitScore
<1> QED
  BY <1>2, <1>3, <1>4, Invariance, PTL DEF Spec, ScoreNeverGoesBack

-----------------------------------------------------------------------------
(* What was accepted is scored. *)

\* The edition that is due is in the newest score, or a job that has not read an
\* older one is on its way, or a handler is just putting that job back.
Coming ==
  \/ AtLeast(latest, due)
  \/ job.state \in {"delayed", "waiting"}
  \/ /\ job.state = "active"
     /\ \A w \in Workers :
          \/ comp[w].pc \in {"idle", "load"}
          \/ comp[w].pc \in {"content", "save"} /\ AtLeast(comp[w].read, due)
  \/ job.state = "none" /\ \E h \in Handlers : handler[h] = "addAi"

DueInv == due # NoRow => AtLeast(resume, due) /\ Coming

LEMMA InitDue == Init => DueInv
BY DEF Init, DueInv

LEMMA StepDue ==
  ASSUME ~direct, ~direct', IInv, ScoreInv, DueInv, [Next]_vars
  PROVE  DueInv'
<1> USE RecomputeAssumption DEF DueInv, Coming, AtLeast
<1>0. /\ Workers \subseteq Computers
      /\ \A x \in Computers : Working(x) => x \in Workers
      /\ \A v, w \in Workers : Working(v) /\ Working(w) => v = w
      /\ \A w \in Workers : Working(w) => job.state = "active"
  BY DEF IInv, GraderInv, DirectInv, OneGrader, Computers
<1>1. TypeOK /\ LoadedInv
  BY DEF IInv
<1>2. ASSUME NEW kind \in EditKinds, EditUnpublished(kind) PROVE DueInv'
  BY <1>1, <1>2 DEF EditUnpublished, TypeOK, Editions
<1>3. ASSUME NEW kind \in EditKinds, NEW h \in Handlers, Edit(kind, h) PROVE DueInv'
  BY <1>1, <1>3 DEF Edit, TypeOK, Editions
<1>4. ASSUME NEW h \in Handlers, Remove(h) PROVE DueInv'
  BY <1>1, <1>4 DEF Remove, TypeOK, NoJob
<1>5. ASSUME NEW h \in Handlers, Enqueue(h) PROVE DueInv'
  <2>1. CASE Unread
    <3>1. due' = resume /\ resume' = resume /\ comp' = comp
      BY <1>5, <2>1 DEF Enqueue
    <3>2. AtLeast(resume', due')
      BY <1>1, <3>1 DEF TypeOK, Editions
    <3>3. CASE job.state = "none"
      BY <1>1, <1>5, <3>2, <3>3 DEF Enqueue
    <3>4. CASE job.state # "none"
      <4>1. job' = job
        BY <1>5, <3>4 DEF Enqueue
      <4> QED
        BY <2>1, <3>1, <3>2, <3>4, <4>1 DEF Unread
    <3> QED
      BY <3>3, <3>4
  <2>2. CASE ~Unread
    BY <1>1, <1>5, <2>2 DEF Enqueue, Unread, TypeOK
  <2> QED
    BY <2>1, <2>2
<1>6. ASSUME DelayEnds \/ Forget PROVE DueInv'
  BY <1>1, <1>6 DEF DelayEnds, Forget, TypeOK, NoJob
<1>7. ASSUME Stalled PROVE DueInv'
  BY <1>1, <1>7 DEF Stalled, TypeOK
<1>8. ASSUME NEW w \in Workers, PickUp(w) PROVE DueInv'
  <2>1. [Idle EXCEPT !.pc = "load", !.runAi = job.runAi].pc = "load"
    BY DEF Idle
  <2>2. \A v \in Workers : comp[v].pc = "idle"
    BY <1>0, <1>8 DEF PickUp, Working
  <2>3. \A v \in Workers : comp'[v].pc \in {"idle", "load"}
    BY <1>0, <1>1, <1>8, <2>1, <2>2 DEF PickUp, TypeOK
  <2>4. job'.state = "active"
    BY <1>1, <1>8 DEF PickUp, TypeOK
  <2>5. UNCHANGED <<resume, due>>
    BY <1>8 DEF PickUp
  <2> QED
    BY <2>3, <2>4, <2>5
<1>9. ASSUME NEW w \in Workers, Crash(w) PROVE DueInv'
  BY <1>1, <1>9 DEF Crash, TypeOK, Idle, Computers
<1>10. ASSUME NEW x \in Workers, Load(x) PROVE DueInv'
  BY <1>0, <1>1, <1>10 DEF Load, TypeOK, Editions, Working
<1>11. ASSUME NEW x \in Workers, AnalyzeContent(x) \/ ReuseContent(x) PROVE DueInv'
  BY <1>0, <1>1, <1>11 DEF AnalyzeContent, ReuseContent, TypeOK, Working
<1>12. ASSUME NEW x \in Workers, Save(x) PROVE DueInv'
  <2>1. job.state = "active" /\ Working(x)
    BY <1>0, <1>12 DEF Save, Working
  <2>2. due # NoRow => AtLeast(latest, due) \/ AtLeast(comp[x].read, due)
    BY <1>12, <2>1 DEF Save
  <2>3. latest # NoRow => AtLeast(comp[x].read, latest)
    BY <1>0, <1>12 DEF Save, ScoreInv
  <2>4. comp[x].read \in Editions
    BY <1>0, <1>1, <1>12 DEF Save, LoadedInv
  <2>5. due # NoRow => comp[x].read.text >= due.text /\ comp[x].read.rest >= due.rest
    BY <1>1, <2>2, <2>3, <2>4 DEF TypeOK, Editions, Scores
  <2>6. comp[x].score \in Nat \cup {NoScore}
    BY <1>0, <1>1 DEF TypeOK
  <2>7. latest' = [text |-> comp[x].read.text, rest |-> comp[x].read.rest,
                   graded |-> comp[x].score]
    BY <1>12 DEF Save
  <2>8. latest' # NoRow
    BY <2>4, <2>6, <2>7 DEF Editions
  <2>9. due # NoRow => AtLeast(latest', due)
    BY <2>5, <2>7, <2>8
  <2> QED
    BY <1>12, <2>9 DEF Save
<1>13. ASSUME NEW x \in Workers, Finish(x) PROVE DueInv'
  <2>1. job.state = "active" /\ Working(x)
    BY <1>0, <1>13 DEF Finish, Working
  <2> QED
    BY <1>13, <2>1 DEF Finish
<1>14. ASSUME NEW x \in Workers, ComputeError(x) PROVE DueInv'
  <2>1. CASE job.tries + 1 >= MaxAttempts
    BY <1>14, <2>1 DEF ComputeError
  <2>2. CASE ~(job.tries + 1 >= MaxAttempts)
    <3>1. job' = [job EXCEPT !.state = "delayed", !.tries = @ + 1]
      BY <1>14, <2>2 DEF ComputeError
    <3>2. job'.state = "delayed"
      BY <1>1, <3>1 DEF TypeOK
    <3> QED
      BY <1>14, <2>2, <3>2 DEF ComputeError
  <2> QED
    BY <2>1, <2>2
<1>15. ASSUME NEW h \in Handlers, RemoveError(h) PROVE DueInv'
  BY <1>1, <1>15 DEF RemoveError, TypeOK
<1>16. ASSUME NEW h \in Handlers, EnqueueError(h) PROVE DueInv'
  BY <1>1, <1>16 DEF EnqueueError, TypeOK
<1>17. ASSUME NEW x \in Computers, Compute(x) PROVE DueInv'
  <2>1. Working(x)
    BY <1>17 DEF Compute, Load, AnalyzeContent, ReuseContent, Save, Finish, ComputeError, Working
  <2>2. x \in Workers
    BY <1>0, <2>1
  <2> QED
    BY <1>10, <1>11, <1>12, <1>13, <1>14, <1>17, <2>2 DEF Compute
<1>18. CASE UNCHANGED vars
  BY <1>18 DEF vars
<1> QED
  BY <1>2, <1>3, <1>4, <1>5, <1>6, <1>7, <1>8, <1>9, <1>15, <1>16, <1>17, <1>18
     DEF Next, Handle, CallRecompute

\* An edit that the queue took, or that found a job which had yet to read the
\* resume, is in the score once everything has settled: the dance of remove and
\* add under one id loses nothing it accepted.
THEOREM AcceptedScored == Spec => []AcceptedIsScored
<1> DEFINE D == ~direct => ScoreInv /\ DueInv
<1>1. Init => D
  BY InitScore, InitDue
<1>2. D /\ IInv /\ [Next]_vars => D'
  BY StepScore, StepDue, DirectStays
<1>3. D /\ IInv => AcceptedIsScored
  BY DEF DueInv, Coming, AcceptedIsScored, Settled
<1> QED
  BY <1>1, <1>2, <1>3, Invariance, PTL DEF Spec
=============================================================================
