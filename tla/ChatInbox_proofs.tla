-------------------------- MODULE ChatInbox_proofs --------------------------
(***************************************************************************)
(* Proofs about ChatInbox, for any number of calls: the types, and with    *)
(* them what each of the four properties needs of its own.  The unread     *)
(* count is the hard one: what is in the cache and what is on its way      *)
(* there must be followed together.                                        *)
(***************************************************************************)
EXTENDS ChatInbox, FiniteSetTheorems, TLAPS

(* The two users have each other for a peer, and nobody else. *)
LEMMA PeerIsTheOther ==
  ASSUME NEW u \in Users
  PROVE /\ Peer[u] \in Users
        /\ \A v \in Users : v # u <=> v = Peer[u]
<1>1. PICK a, b \in Users : a # b /\ Users = {a, b}
  BY ChatInboxAssumption
<1>2. \E v \in Users : v # u
  BY <1>1
<1>3. Peer[u] \in Users /\ Peer[u] # u
  BY <1>2 DEF Peer
<1>. QED BY <1>1, <1>3

(* Unread counts are numbers. *)
LEMMA UnreadIsNat ==
  ASSUME TypeOK, NEW u \in Users
  PROVE Unread(u) \in Nat
<1>1. IsFiniteSet(UnreadOf(u))
  BY ChatInboxAssumption, FS_Subset DEF TypeOK, UnreadOf
<1>. QED BY <1>1, FS_CardinalityType DEF Unread

-----------------------------------------------------------------------------
(* Types. *)

\* Where a message is in its life tells whether it is stored, and answered.
Order ==
  \A s \in Sends :
    /\ pc[s] \in {"preview", "clear"} => s \in stored
    /\ s \in stored => pc[s] \in {"preview", "clear", "done"}
    /\ pc[s] # "done" => told[s] = "nothing"

Sound == TypeOK /\ Order

(* A step of a send keeps the types of the conversation's row and its messages. *)
LEMMA SendKeepsChat ==
  ASSUME Sound, NEW s \in Sends, SendStep(s)
  PROVE  /\ conv' \in BOOLEAN
         /\ stored' \subseteq Sends
         /\ latest' \in stored' \cup {None}
         /\ read' \subseteq stored'
         /\ preview' \in stored' \cup {None}
         /\ missed' \in BOOLEAN
         /\ UNCHANGED <<blockVars, who, read>>
<1> USE DEF Sound, TypeOK, Order
<1>1. CASE Check(s) \/ Privacy(s) \/ CreateError(s) \/ InvalidateUnread(s) \/ InvalidateError(s)
  BY <1>1 DEF Check, Privacy, CreateError, InvalidateUnread, InvalidateError, chatVars
<1>2. CASE Open(s)
  BY <1>2 DEF Open
<1>3. CASE Create(s)
  <2>1. missed' \in BOOLEAN
    BY <1>3 DEF Create
  <2> QED
    BY <1>3, <2>1 DEF Create
<1>4. CASE UpdateLastMessage(s)
  BY <1>4 DEF UpdateLastMessage
<1>5. CASE PreviewError(s)
  BY <1>5 DEF PreviewError
<1>6. CASE Crash(s)
  <2>1. missed' \in BOOLEAN
    BY <1>6 DEF Crash
  <2> QED
    BY <1>6, <2>1 DEF Crash
<1> QED
  BY <1>1, <1>2, <1>3, <1>4, <1>5, <1>6 DEF SendStep

(* And of the calls. *)
LEMMA SendKeepsCalls ==
  ASSUME Sound, NEW s \in Sends, SendStep(s)
  PROVE  /\ pc' \in [Calls -> PCs]
         /\ told' \in [Sends -> {"nothing", "sent", "failed", "refused"}]
         /\ \A c \in Calls \ {s} : pc'[c] = pc[c]
         /\ Order'
<1> USE DEF Sound, TypeOK, Order, PCs, Calls
<1>1. CASE Check(s) \/ Privacy(s) \/ CreateError(s)
  BY <1>1 DEF Check, Privacy, CreateError, Answer, Goto, chatVars
<1>2. CASE InvalidateUnread(s) \/ InvalidateError(s)
  BY <1>2 DEF InvalidateUnread, InvalidateError, Answer, Goto, chatVars
<1>3. CASE Open(s) \/ Create(s) \/ UpdateLastMessage(s)
  BY <1>3 DEF Open, Create, UpdateLastMessage, Goto
<1>4. CASE PreviewError(s) \/ Crash(s)
  BY <1>4 DEF PreviewError, Crash, Answer, Goto
<1> QED
  BY <1>1, <1>2, <1>3, <1>4 DEF SendStep

(* And of the counts. *)
LEMMA SendKeepsCounts ==
  ASSUME Sound, NEW s \in Sends, SendStep(s)
  PROVE  /\ cached' \in [Users -> Nat \cup {None}]
         /\ val' = val
         /\ stale' \subseteq Users
         /\ overtaken' \subseteq Counts
<1> USE DEF Sound, TypeOK, InFlight
<1>1. who[s] \in Users /\ Peer[who[s]] \in Users
  BY PeerIsTheOther DEF Calls
<1>2. CASE UNCHANGED countVars
  BY <1>2 DEF countVars
<1>3. CASE Delete(Peer[who[s]])
  BY <1>1, <1>3 DEF Delete
<1>4. CASE Miss(Peer[who[s]])
  BY <1>1, <1>4 DEF Miss
<1>5. UNCHANGED countVars \/ Delete(Peer[who[s]]) \/ Miss(Peer[who[s]])
  BY DEF SendStep, Check, Privacy, Open, Create, UpdateLastMessage, InvalidateUnread,
    CreateError, PreviewError, InvalidateError, Crash
<1> QED
  BY <1>2, <1>3, <1>4, <1>5

LEMMA CountKeepsSound ==
  ASSUME Sound, NEW c \in Counts, CountStep(c)
  PROVE  Sound'
<1> USE DEF Sound, TypeOK, Order, Calls, PCs
<1>1. who[c] \in Users /\ c \notin Sends
  BY ChatInboxAssumption DEF Disjoint
<1>2. UNCHANGED <<conv, stored, latest, read, preview, missed, blocks, crossed, who, told>>
  BY DEF CountStep, Get, Compute, Set, CountError, chatVars, blockVars
<1>3. pc' \in [Calls -> PCs] /\ \A s \in Sends : pc'[s] = pc[s]
  BY <1>1 DEF CountStep, Get, Compute, Set, CountError, Goto, Return
<1>4. val' \in [Counts -> Nat \cup {None}]
  BY <1>1, UnreadIsNat DEF CountStep, Get, Compute, Set, CountError, Return, countVars
<1>5. cached' \in [Users -> Nat \cup {None}]
  BY DEF CountStep, Get, Compute, Set, CountError, countVars
<1>6. stale' \subseteq Users /\ overtaken' \subseteq Counts
  BY <1>1 DEF CountStep, Get, Compute, Set, CountError, Return, countVars
<1>7. missed' \in BOOLEAN
  BY <1>2
<1> QED
  BY <1>2, <1>3, <1>4, <1>5, <1>6, <1>7

LEMMA MarkKeepsSound ==
  ASSUME Sound, NEW m \in Marks, MarkStep(m)
  PROVE  Sound'
<1> USE DEF Sound, TypeOK, Order, Calls, PCs
<1>1. who[m] \in Users /\ m \notin Sends
  BY ChatInboxAssumption DEF Disjoint
<1>2. UNCHANGED <<conv, stored, latest, preview, missed, blocks, crossed, who, told, val>>
  BY DEF MarkStep, MarkRead, InvalidateRead, MarkError, chatVars, blockVars, countVars,
    Delete, Miss
<1>3. pc' \in [Calls -> PCs] /\ \A s \in Sends : pc'[s] = pc[s]
  BY <1>1 DEF MarkStep, MarkRead, InvalidateRead, MarkError, Goto
<1>4. read' \subseteq stored'
  BY <1>2 DEF MarkStep, MarkRead, InvalidateRead, MarkError, chatVars, UnreadOf
<1>5. cached' \in [Users -> Nat \cup {None}]
  BY DEF MarkStep, MarkRead, InvalidateRead, MarkError, countVars, Delete, Miss
<1>6. stale' \subseteq Users /\ overtaken' \subseteq Counts
  BY <1>1 DEF MarkStep, MarkRead, InvalidateRead, MarkError, countVars, Delete, Miss, InFlight
<1>7. missed' \in BOOLEAN
  BY <1>2
<1> QED
  BY <1>2, <1>3, <1>4, <1>5, <1>6, <1>7

LEMMA GateKeepsSound ==
  ASSUME Sound, NEW g \in Gates, GateStep(g)
  PROVE  Sound'
<1> USE DEF Sound, TypeOK, Order, Calls, PCs
<1>1. who[g] \in Users /\ g \notin Sends
  BY ChatInboxAssumption DEF Disjoint
<1>2. UNCHANGED <<conv, stored, latest, read, preview, missed, cached, val, stale, overtaken, who, told>>
  BY DEF GateStep, Look, Block, Unblock, GateError, chatVars, countVars
<1>3. pc' \in [Calls -> PCs] /\ \A s \in Sends : pc'[s] = pc[s]
  BY <1>1 DEF GateStep, Look, Block, Unblock, GateError, Goto
<1>4. blocks' \subseteq Users /\ crossed' \subseteq Sends
  BY <1>1 DEF GateStep, Look, Block, Unblock, GateError, blockVars
<1>5. missed' \in BOOLEAN
  BY <1>2
<1> QED
  BY <1>2, <1>3, <1>4, <1>5

LEMMA ExpiryKeepsSound ==
  ASSUME Sound, NEW u \in Users, Expire(u)
  PROVE  Sound'
<1>1. missed' \in BOOLEAN
  BY DEF Expire, Sound, TypeOK, chatVars
<1>2. cached' \in [Users -> Nat \cup {None}]
  BY DEF Expire, Sound, TypeOK
<1>3. UNCHANGED <<conv, stored, latest, read, preview, blocks, crossed, val, stale, overtaken, pc, who, told>>
  BY DEF Expire, chatVars, blockVars
<1> QED
  BY <1>1, <1>2, <1>3 DEF Sound, TypeOK, Order

LEMMA SoundStep == Sound /\ [Next]_vars => Sound'
<1> SUFFICES ASSUME Sound, [Next]_vars PROVE Sound'
  OBVIOUS
<1>1. ASSUME NEW s \in Sends, SendStep(s) PROVE Sound'
  <2>1. UNCHANGED <<blocks, crossed, who>>
    BY <1>1, SendKeepsChat DEF blockVars
  <2>2. who' \in [Calls -> Users] /\ blocks' \subseteq Users /\ crossed' \subseteq Sends
    BY <2>1 DEF Sound, TypeOK
  <2>3. missed' \in BOOLEAN
    BY <1>1, SendKeepsChat
  <2>4. val' \in [Counts -> Nat \cup {None}]
    BY <1>1, SendKeepsCounts DEF Sound, TypeOK
  <2> QED
    BY <1>1, <2>2, <2>3, <2>4, SendKeepsChat, SendKeepsCalls, SendKeepsCounts DEF Sound, TypeOK
<1>2. CASE UNCHANGED vars
  <2>1. missed' \in BOOLEAN
    BY <1>2 DEF vars, chatVars, Sound, TypeOK
  <2> QED
    BY <1>2, <2>1 DEF vars, chatVars, blockVars, countVars, Sound, TypeOK, Order
<1> QED
  BY <1>1, <1>2, CountKeepsSound, MarkKeepsSound, GateKeepsSound, ExpiryKeepsSound DEF Next

LEMMA SoundInit == Init => Sound
<1> SUFFICES ASSUME Init PROVE Sound
  OBVIOUS
<1>1. missed \in BOOLEAN
  BY DEF Init
<1>2. pc \in [Calls -> PCs]
  BY DEF Init, PCs
<1> QED
  BY <1>1, <1>2 DEF Init, Sound, TypeOK, Order, Calls

THEOREM SoundCorrect == Spec => []Sound
BY SoundInit, SoundStep, PTL DEF Spec

(* The variables keep their types, and a preview or a read mark is always of a message  *)
(* that is stored: the code writes neither before the message.                          *)
THEOREM TypeCorrect == Spec => []TypeOK
<1>1. Sound => TypeOK
  BY DEF Sound
<1> QED
  BY <1>1, SoundCorrect, PTL

-----------------------------------------------------------------------------
(* Blocks. *)

\* A send on its way beside a block has been overtaken by it.
Admitted ==
  \A s \in Sends : pc[s] \in {"privacy", "open", "create"} /\ blocks # {} => s \in crossed

\* Of the calls, only sends and blocks have anything to do with it.
LEMMA AdmittedStep == Sound /\ Admitted /\ [Next]_vars => Admitted'
<1> SUFFICES ASSUME Sound, Admitted, [Next]_vars PROVE Admitted'
  OBVIOUS
<1>1. ASSUME NEW s \in Sends, SendStep(s) PROVE Admitted'
  <2>1. UNCHANGED <<blocks, crossed>> /\ \A t \in Sends \ {s} : pc'[t] = pc[t]
    BY <1>1, SendKeepsChat, SendKeepsCalls DEF blockVars, Calls
  <2>2. pc'[s] \in {"privacy", "open", "create"} /\ blocks # {} =>
           pc[s] \in {"privacy", "open", "create"}
    BY <1>1 DEF SendStep, Check, Privacy, Open, Create, UpdateLastMessage, InvalidateUnread,
      CreateError, PreviewError, InvalidateError, Crash, Goto, Answer, Sound, TypeOK, Calls
  <2> QED
    BY <2>1, <2>2 DEF Admitted
<1>2. ASSUME NEW g \in Gates, GateStep(g) PROVE Admitted'
  <2>1. \A s \in Sends : pc'[s] = pc[s]
    BY <1>2, ChatInboxAssumption
      DEF GateStep, Look, Block, Unblock, GateError, Goto, Disjoint, Sound, TypeOK, Calls
  <2> QED
    BY <1>2, <2>1 DEF GateStep, Look, Block, Unblock, GateError, Admitted, blockVars
<1>3. ASSUME NEW c \in Counts, CountStep(c) PROVE Admitted'
  BY <1>3, ChatInboxAssumption DEF CountStep, Get, Compute, Set, CountError, Goto, Return,
    Disjoint, Sound, TypeOK, Calls, Admitted, blockVars
<1>4. ASSUME NEW m \in Marks, MarkStep(m) PROVE Admitted'
  BY <1>4, ChatInboxAssumption DEF MarkStep, MarkRead, InvalidateRead, MarkError, Goto,
    Disjoint, Sound, TypeOK, Calls, Admitted, blockVars
<1>5. ASSUME NEW u \in Users, Expire(u) PROVE Admitted'
  BY <1>5 DEF Expire, Admitted, blockVars
<1>6. CASE UNCHANGED vars
  BY <1>6 DEF vars, Admitted, blockVars
<1> QED
  BY <1>1, <1>2, <1>3, <1>4, <1>5, <1>6 DEF Next

LEMMA StoredByCreate ==
  ASSUME Sound, [Next]_vars, NEW s \in Sends, s \in stored' \ stored
  PROVE  pc[s] = "create"
BY DEF Next, SendStep, Check, Privacy, Open, Create, UpdateLastMessage, InvalidateUnread,
  CreateError, PreviewError, InvalidateError, Crash, CountStep, Get, Compute, Set, CountError,
  MarkStep, MarkRead, InvalidateRead, MarkError, GateStep, Look, Block, Unblock, GateError,
  Expire, vars, chatVars

(* No message gets across a block, whoever set it, except from a send that had passed   *)
(* the check before.                                                                    *)
THEOREM BlockCorrect == Spec => NothingAcrossABlock
<1>1. Init => Admitted
  BY DEF Init, Admitted
<1>2. Sound /\ Admitted /\ [Next]_vars =>
        [\A s \in Sends \ crossed : s \in stored' \ stored => blocks = {}]_vars
  BY StoredByCreate DEF Admitted
<1> QED
  BY <1>1, <1>2, SoundCorrect, AdmittedStep, PTL DEF Spec, NothingAcrossABlock

-----------------------------------------------------------------------------
(* The preview. *)

\* One message at most is on its way to the preview, the last one.
OneAtPreview ==
  ~missed => /\ AtPreview \subseteq {latest}
             /\ AtPreview = {} => preview = latest

LEMMA PreviewStep == Sound /\ OneAtPreview /\ [Next]_vars => OneAtPreview'
<1> SUFFICES ASSUME Sound, OneAtPreview, [Next]_vars PROVE OneAtPreview'
  OBVIOUS
<1>1. CASE UNCHANGED <<missed, latest, preview>> /\ AtPreview' = AtPreview
  BY <1>1 DEF OneAtPreview
<1>2. ASSUME NEW s \in Sends, SendStep(s) PROVE OneAtPreview'
  <2>1. \A t \in Sends \ {s} : pc'[t] = pc[t]
    BY <1>2, SendKeepsCalls DEF Calls
  <2>2. pc \in [Calls -> PCs] /\ s \in Calls
    BY DEF Sound, TypeOK, Calls
  <2>3. CASE Check(s) \/ Privacy(s) \/ Open(s) \/ InvalidateUnread(s) \/ CreateError(s) \/ InvalidateError(s)
    <3>1. UNCHANGED <<missed, latest, preview>>
      BY <2>3 DEF Check, Privacy, Open, InvalidateUnread, CreateError, InvalidateError, chatVars
    <3>2. pc[s] # "preview" /\ pc'[s] # "preview"
      BY <2>2, <2>3 DEF Check, Privacy, Open, InvalidateUnread, CreateError, InvalidateError,
        Goto, Answer
    <3> QED
      BY <1>1, <2>1, <3>1, <3>2 DEF AtPreview
  <2>4. CASE Create(s)
    <3>1. pc'[s] = "preview" /\ latest' = s /\ missed' = (AtPreview # {})
      BY <2>2, <2>4 DEF Create, Goto
    <3> QED
      BY <2>1, <3>1 DEF AtPreview, OneAtPreview
  <2>5. CASE UpdateLastMessage(s)
    <3>1. pc[s] = "preview" /\ pc'[s] = "clear" /\ preview' = s /\ UNCHANGED <<missed, latest>>
      BY <2>2, <2>5 DEF UpdateLastMessage, Goto
    <3> QED
      BY <2>1, <3>1 DEF AtPreview, OneAtPreview
  <2>6. CASE PreviewError(s)
    BY <2>6 DEF PreviewError, OneAtPreview
  <2>7. CASE Crash(s)
    <3>1. pc'[s] = "done" /\ UNCHANGED <<latest, preview>>
      BY <2>2, <2>7 DEF Crash, Goto
    <3>2. missed' = (missed \/ pc[s] = "preview")
      BY <2>7 DEF Crash
    <3>3. CASE pc[s] = "preview"
      BY <3>2, <3>3 DEF OneAtPreview
    <3>4. CASE pc[s] # "preview"
      <4>1. AtPreview' = AtPreview
        BY <2>1, <3>1, <3>4 DEF AtPreview
      <4> QED
        BY <3>1, <3>2, <3>4, <4>1 DEF OneAtPreview
    <3> QED
      BY <3>3, <3>4
  <2> QED
    BY <1>2, <2>3, <2>4, <2>5, <2>6, <2>7 DEF SendStep
<1>3. ASSUME NEW c \in Counts, CountStep(c) PROVE OneAtPreview'
  <2>1. UNCHANGED <<missed, latest, preview>> /\ \A s \in Sends : pc'[s] = pc[s]
    BY <1>3, ChatInboxAssumption DEF CountStep, Get, Compute, Set, CountError, Goto, Return,
      Disjoint, Sound, TypeOK, Calls, chatVars
  <2> QED
    BY <1>1, <2>1 DEF AtPreview
<1>4. ASSUME NEW m \in Marks, MarkStep(m) PROVE OneAtPreview'
  <2>1. UNCHANGED <<missed, latest, preview>> /\ \A s \in Sends : pc'[s] = pc[s]
    BY <1>4, ChatInboxAssumption DEF MarkStep, MarkRead, InvalidateRead, MarkError, Goto,
      Disjoint, Sound, TypeOK, Calls, chatVars
  <2> QED
    BY <1>1, <2>1 DEF AtPreview
<1>5. ASSUME NEW g \in Gates, GateStep(g) PROVE OneAtPreview'
  <2>1. UNCHANGED <<missed, latest, preview>> /\ \A s \in Sends : pc'[s] = pc[s]
    BY <1>5, ChatInboxAssumption DEF GateStep, Look, Block, Unblock, GateError, Goto,
      Disjoint, Sound, TypeOK, Calls, chatVars
  <2> QED
    BY <1>1, <2>1 DEF AtPreview
<1>6. CASE UNCHANGED vars \/ \E u \in Users : Expire(u)
  <2>1. UNCHANGED <<missed, latest, preview, pc>>
    BY <1>6 DEF Expire, vars, chatVars
  <2> QED
    BY <1>1, <2>1 DEF AtPreview
<1> QED
  BY <1>2, <1>3, <1>4, <1>5, <1>6 DEF Next

(* The preview is the message created last whenever nobody is sending, once a message   *)
(* has gone through alone: a failed update is mended by the next one.                   *)
THEOREM PreviewCorrect == Spec => []PreviewIsLatest
<1>1. Init => OneAtPreview
  BY DEF Init, OneAtPreview, AtPreview, Calls
<1>2. OneAtPreview => PreviewIsLatest
  BY DEF OneAtPreview, PreviewIsLatest
<1> QED
  BY <1>1, <1>2, SoundCorrect, PreviewStep, PTL DEF Spec

-----------------------------------------------------------------------------
(* The unread count. *)

\* What a call has computed is right, or its key will be deleted after, as long as nobody
\* has deleted it since.
InFlightIsRight ==
  \A u \in Users : \A c \in InFlight(u) \ overtaken : val[c] = Unread(u) \/ ToBeCleared(u)

Counted == UnreadIsRight /\ InFlightIsRight

\* A step that changes no count and finishes no duty to delete.
LEMMA CountedWhenQuiet ==
  ASSUME Counted,
         \A u \in Users : Unread(u)' = Unread(u) \/ ToBeCleared(u)',
         \A u \in Users : ToBeCleared(u) => ToBeCleared(u)',
         UNCHANGED <<countVars, who>>,
         \A c \in Counts : pc'[c] = pc[c]
  PROVE  Counted'
BY DEF Counted, UnreadIsRight, InFlightIsRight, InFlight, countVars

\* A step that deletes one user's key, or fails to.
LEMMA CountedWhenCleared ==
  ASSUME Sound, Counted, NEW u \in Users, Delete(u) \/ Miss(u),
         \A v \in Users : Unread(v)' = Unread(v),
         \A v \in Users \ {u} : ToBeCleared(v) => ToBeCleared(v)',
         UNCHANGED who,
         \A c \in Counts : pc'[c] = pc[c]
  PROVE  Counted'
<1>1. UnreadIsRight'
  BY DEF Counted, UnreadIsRight, Delete, Miss, Sound, TypeOK
<1>2. InFlightIsRight'
  <2> SUFFICES ASSUME NEW v \in Users, NEW c \in (InFlight(v) \ overtaken)'
               PROVE  (val[c] = Unread(v) \/ ToBeCleared(v))'
    BY DEF InFlightIsRight
  <2>1. c \in InFlight(v) /\ val' = val /\ overtaken' = overtaken \cup InFlight(u)
    BY DEF InFlight, Delete, Miss
  <2>2. v # u /\ c \notin overtaken
    BY <2>1
  <2> QED
    BY <2>1, <2>2 DEF Counted, InFlightIsRight
<1> QED
  BY <1>1, <1>2 DEF Counted

LEMMA UnreadUnchanged ==
  ASSUME UNCHANGED <<stored, read, who>>
  PROVE  \A u \in Users : Unread(u)' = Unread(u)
BY DEF Unread, UnreadOf

LEMMA CountedAfterSend ==
  ASSUME Sound, Counted, NEW s \in Sends, SendStep(s)
  PROVE  Counted'
<1>1. pc \in [Calls -> PCs] /\ who \in [Calls -> Users] /\ s \in Calls /\ who[s] \in Users
  BY DEF Sound, TypeOK, Calls
<1>2. \A c \in Calls \ {s} : pc'[c] = pc[c]
  BY SendKeepsCalls
<1>3. \A c \in Counts \cup Marks : pc'[c] = pc[c]
  BY <1>2, ChatInboxAssumption DEF Disjoint, Calls
<1>4. UNCHANGED who
  BY SendKeepsChat
<1>5. Peer[who[s]] \in Users
  BY <1>1, PeerIsTheOther
<1>6. \A u \in Users \ {Peer[who[s]]} : ToBeCleared(u) => ToBeCleared(u)'
  BY <1>2, <1>3, <1>4 DEF ToBeCleared, Calls
<1>7. CASE Check(s) \/ Privacy(s) \/ Open(s) \/ CreateError(s)
  <2>1. UNCHANGED <<stored, read, countVars>> /\ pc[s] \notin {"preview", "clear"}
    BY <1>7 DEF Check, Privacy, Open, CreateError, chatVars
  <2>2. \A u \in Users : ToBeCleared(u) => ToBeCleared(u)'
    BY <2>1, <1>2, <1>3, <1>4 DEF ToBeCleared, Calls
  <2> QED
    BY <1>3, <1>4, <2>1, <2>2, UnreadUnchanged, CountedWhenQuiet
<1>8. CASE Create(s)
  <2>1. /\ UNCHANGED <<read, countVars>> /\ stored' = stored \cup {s}
        /\ pc[s] = "create" /\ pc'[s] = "preview"
    BY <1>1, <1>8 DEF Create, Goto
  <2>2. \A u \in Users : u = Peer[who[s]] => ToBeCleared(u)'
    BY <1>4, <2>1 DEF ToBeCleared
  <2>3. \A u \in Users \ {Peer[who[s]]} : UnreadOf(u)' = UnreadOf(u)
    BY <1>1, <1>4, <2>1, PeerIsTheOther DEF UnreadOf
  <2>4. \A u \in Users : Unread(u)' = Unread(u) \/ ToBeCleared(u)'
    BY <2>2, <2>3 DEF Unread
  <2>5. \A u \in Users : ToBeCleared(u) => ToBeCleared(u)'
    BY <1>6, <2>2
  <2> QED
    BY <1>3, <1>4, <2>1, <2>4, <2>5, CountedWhenQuiet
<1>9. CASE UpdateLastMessage(s) \/ (PreviewError(s) /\ s \notin Directs)
  <2>1. UNCHANGED <<stored, read, countVars>> /\ pc[s] = "preview" /\ pc'[s] = "clear"
    BY <1>1, <1>9 DEF UpdateLastMessage, PreviewError, Goto
  <2>2. \A u \in Users : ToBeCleared(u) => ToBeCleared(u)'
    BY <2>1, <1>2, <1>3, <1>4 DEF ToBeCleared, Calls
  <2> QED
    BY <1>3, <1>4, <2>1, <2>2, UnreadUnchanged, CountedWhenQuiet
<1>10. CASE InvalidateUnread(s) \/ InvalidateError(s) \/ (PreviewError(s) /\ s \in Directs)
  <2>1. UNCHANGED <<stored, read>> /\ (Delete(Peer[who[s]]) \/ Miss(Peer[who[s]]))
    BY <1>10 DEF InvalidateUnread, InvalidateError, PreviewError, chatVars
  <2> QED
    BY <1>3, <1>4, <1>5, <1>6, <2>1, UnreadUnchanged, CountedWhenCleared
<1>11. CASE Crash(s) /\ pc[s] \in {"preview", "clear"}
  <2>1. UNCHANGED <<stored, read>> /\ Miss(Peer[who[s]])
    BY <1>11 DEF Crash
  <2> QED
    BY <1>3, <1>4, <1>5, <1>6, <2>1, UnreadUnchanged, CountedWhenCleared
<1>12. CASE Crash(s) /\ pc[s] \notin {"preview", "clear"}
  <2>1. UNCHANGED <<stored, read, countVars>>
    BY <1>12 DEF Crash
  <2>2. \A u \in Users : ToBeCleared(u) => ToBeCleared(u)'
    BY <1>12, <1>2, <1>3, <1>4 DEF ToBeCleared, Calls
  <2> QED
    BY <1>3, <1>4, <2>1, <2>2, UnreadUnchanged, CountedWhenQuiet
<1> QED
  BY <1>7, <1>8, <1>9, <1>10, <1>11, <1>12 DEF SendStep

LEMMA CountedAfterMark ==
  ASSUME Sound, Counted, NEW m \in Marks, MarkStep(m)
  PROVE  Counted'
<1>1. pc \in [Calls -> PCs] /\ m \in Calls /\ who[m] \in Users
  BY DEF Sound, TypeOK, Calls
<1>2. UNCHANGED <<who, stored>>
  BY DEF MarkStep, MarkRead, InvalidateRead, MarkError, chatVars
<1>3. \A c \in Calls \ {m} : pc'[c] = pc[c]
  BY <1>1 DEF MarkStep, MarkRead, InvalidateRead, MarkError, Goto
<1>4. \A c \in Counts \cup Sends : pc'[c] = pc[c]
  BY <1>3, ChatInboxAssumption DEF Disjoint, Calls
<1>5. \A u \in Users \ {who[m]} : ToBeCleared(u) => ToBeCleared(u)'
  BY <1>2, <1>3, <1>4 DEF ToBeCleared, Calls
<1>6. CASE MarkRead(m)
  <2>1. UNCHANGED countVars /\ read' = read \cup UnreadOf(who[m]) /\ pc'[m] = "clear"
    BY <1>1, <1>6 DEF MarkRead, Goto
  <2>2. \A u \in Users : u = who[m] => ToBeCleared(u)'
    BY <1>2, <2>1 DEF ToBeCleared
  <2>3. \A u \in Users \ {who[m]} : UnreadOf(u)' = UnreadOf(u)
    <3> SUFFICES ASSUME NEW u \in Users \ {who[m]}
                 PROVE  UnreadOf(u)' = UnreadOf(u)
      OBVIOUS
    <3>1. \A s \in UnreadOf(who[m]) : who[s] = u
      <4> SUFFICES ASSUME NEW s \in UnreadOf(who[m]) PROVE who[s] = u
        OBVIOUS
      <4>1. who[s] \in Users /\ who[s] # who[m]
        BY DEF UnreadOf, Sound, TypeOK, Calls
      <4> QED
        BY <1>1, <4>1, PeerIsTheOther
    <3> QED
      BY <1>2, <2>1, <3>1 DEF UnreadOf
  <2>4. \A u \in Users : Unread(u)' = Unread(u) \/ ToBeCleared(u)'
    BY <2>2, <2>3 DEF Unread
  <2>5. \A u \in Users : ToBeCleared(u) => ToBeCleared(u)'
    BY <1>5, <2>2
  <2> QED
    BY <1>2, <1>4, <2>1, <2>4, <2>5, CountedWhenQuiet
<1>7. CASE InvalidateRead(m) \/ MarkError(m)
  <2>1. UNCHANGED read /\ (Delete(who[m]) \/ Miss(who[m]))
    BY <1>7 DEF InvalidateRead, MarkError, chatVars
  <2> QED
    BY <1>1, <1>2, <1>4, <1>5, <2>1, UnreadUnchanged, CountedWhenCleared
<1> QED
  BY <1>6, <1>7 DEF MarkStep

LEMMA CountedAfterCount ==
  ASSUME Sound, Counted, NEW c \in Counts, CountStep(c)
  PROVE  Counted'
<1>1. pc \in [Calls -> PCs] /\ c \in Calls /\ who[c] \in Users /\ val \in [Counts -> Nat \cup {None}]
      /\ cached \in [Users -> Nat \cup {None}]
  BY DEF Sound, TypeOK, Calls
<1>2. UNCHANGED <<who, stored, read>>
  BY DEF CountStep, Get, Compute, Set, CountError, chatVars
<1>3. \A d \in Calls \ {c} : pc'[d] = pc[d]
  BY <1>1 DEF CountStep, Get, Compute, Set, CountError, Goto, Return
<1>4. \A d \in Sends \cup Marks : pc'[d] = pc[d]
  BY <1>3, ChatInboxAssumption DEF Disjoint, Calls
<1>5. \A u \in Users : ToBeCleared(u)' = ToBeCleared(u) /\ Unread(u)' = Unread(u)
  BY <1>2, <1>4, UnreadUnchanged DEF ToBeCleared
<1>6. \A d \in Counts \ {c} : val'[d] = val[d] /\ (d \in overtaken' <=> d \in overtaken)
  BY <1>1 DEF CountStep, Get, Compute, Set, CountError, Return, countVars
<1>7. pc'[c] = "set" => val'[c] = Unread(who[c])
  BY <1>1 DEF CountStep, Get, Compute, Set, CountError, Goto, Return
<1>8. InFlightIsRight'
  <2> SUFFICES ASSUME NEW u \in Users, NEW d \in (InFlight(u) \ overtaken)'
               PROVE  (val[d] = Unread(u) \/ ToBeCleared(u))'
    BY DEF InFlightIsRight
  <2>1. CASE d = c
    BY <1>2, <1>5, <1>7, <2>1 DEF InFlight
  <2>2. CASE d # c
    <3>1. d \in InFlight(u) \ overtaken
      BY <1>2, <1>3, <1>6, <2>2 DEF InFlight, Calls
    <3> QED
      BY <1>5, <1>6, <2>2, <3>1 DEF Counted, InFlightIsRight, InFlight
  <2> QED
    BY <2>1, <2>2
<1>9. UnreadIsRight'
  <2>1. CASE UNCHANGED <<cached, stale>>
    BY <1>5, <2>1 DEF Counted, UnreadIsRight
  <2>2. CASE Set(c)
    <3>1. cached' = [cached EXCEPT ![who[c]] = val[c]] /\ pc[c] = "set"
      BY <2>2 DEF Set
    <3>2. \A u \in Users \ {who[c]} : u \in stale' <=> u \in stale
      BY <2>2 DEF Set
    <3>3. who[c] \notin stale' => c \in InFlight(who[c]) \ overtaken
      BY <2>2, <3>1 DEF Set, InFlight
    <3>4. who[c] \notin stale' => val[c] = Unread(who[c]) \/ ToBeCleared(who[c])
      BY <1>1, <3>3 DEF Counted, InFlightIsRight
    <3> QED
      BY <1>1, <1>5, <3>1, <3>2, <3>4 DEF Counted, UnreadIsRight
  <2> QED
    BY <2>1, <2>2 DEF CountStep, Get, Compute, CountError, countVars
<1> QED
  BY <1>8, <1>9 DEF Counted

LEMMA CountedStep == Sound /\ Counted /\ [Next]_vars => Counted'
<1> SUFFICES ASSUME Sound, Counted, [Next]_vars PROVE Counted'
  OBVIOUS
<1>1. ASSUME NEW g \in Gates, GateStep(g) PROVE Counted'
  <2>1. UNCHANGED <<stored, read, who, countVars>>
    BY <1>1 DEF GateStep, Look, Block, Unblock, GateError, chatVars
  <2>2. \A c \in Sends \cup Marks \cup Counts : pc'[c] = pc[c]
    BY <1>1, ChatInboxAssumption DEF GateStep, Look, Block, Unblock, GateError, Goto,
      Disjoint, Sound, TypeOK, Calls
  <2>3. \A u \in Users : ToBeCleared(u) => ToBeCleared(u)'
    BY <2>1, <2>2 DEF ToBeCleared
  <2> QED
    BY <2>1, <2>2, <2>3, UnreadUnchanged, CountedWhenQuiet
<1>2. ASSUME NEW u \in Users, Expire(u) PROVE Counted'
  <2>1. UNCHANGED <<stored, read, who, val, stale, overtaken, pc>>
        /\ cached' = [cached EXCEPT ![u] = None]
    BY <1>2 DEF Expire, chatVars
  <2>2. \A v \in Users : Unread(v)' = Unread(v) /\ ToBeCleared(v)' = ToBeCleared(v)
    BY <2>1, UnreadUnchanged DEF ToBeCleared
  <2>3. \A v \in Users : InFlight(v)' = InFlight(v)
    BY <2>1 DEF InFlight
  <2> QED
    BY <2>1, <2>2, <2>3 DEF Counted, UnreadIsRight, InFlightIsRight, Sound, TypeOK
<1>3. CASE UNCHANGED vars
  <2>1. UNCHANGED <<stored, read, who, pc, countVars>>
    BY <1>3 DEF vars, chatVars
  <2>2. \A u \in Users : ToBeCleared(u) => ToBeCleared(u)'
    BY <2>1 DEF ToBeCleared
  <2> QED
    BY <2>1, <2>2, UnreadUnchanged, CountedWhenQuiet
<1> QED
  BY <1>1, <1>2, <1>3, CountedAfterSend, CountedAfterMark, CountedAfterCount DEF Next

(* A wrong unread count never settles in the cache, but by a failed delete or by one    *)
(* that came before a count computed earlier was cached.                                *)
THEOREM UnreadCorrect == Spec => []UnreadIsRight
<1>1. Init => Counted
  BY DEF Init, Counted, UnreadIsRight, InFlightIsRight, InFlight, Calls
<1>2. Counted => UnreadIsRight
  BY DEF Counted
<1> QED
  BY <1>1, <1>2, SoundCorrect, CountedStep, PTL DEF Spec

-----------------------------------------------------------------------------
(* What the sender is told. *)

LEMMA FailedReplyStep == Sound /\ FailedReplyIsNotStored /\ [Next]_vars => FailedReplyIsNotStored'
<1> SUFFICES ASSUME Sound, FailedReplyIsNotStored, [Next]_vars PROVE FailedReplyIsNotStored'
  OBVIOUS
<1>1. ASSUME NEW s \in Sends, SendStep(s) PROVE FailedReplyIsNotStored'
  <2>1. \A t \in Sends \ {s} : told'[t] = told[t] /\ (t \in stored' <=> t \in stored)
    BY <1>1 DEF SendStep, Check, Privacy, Open, Create, UpdateLastMessage, InvalidateUnread,
      CreateError, PreviewError, InvalidateError, Crash, Answer, Sound, TypeOK, chatVars
  <2>2. s \in Replies /\ s \in stored' => told'[s] \notin {"failed", "refused"}
    BY <1>1, ChatInboxAssumption DEF SendStep, Check, Privacy, Open, Create, UpdateLastMessage,
      InvalidateUnread, CreateError, PreviewError, InvalidateError, Crash, Answer, Sound, TypeOK,
      Order, Disjoint, chatVars
  <2> QED
    BY <2>1, <2>2 DEF FailedReplyIsNotStored, Sends
<1>2. CASE UNCHANGED <<stored, told>>
  BY <1>2 DEF FailedReplyIsNotStored
<1> QED
  BY <1>1, <1>2 DEF Next, CountStep, Get, Compute, Set, CountError, MarkStep, MarkRead,
    InvalidateRead, MarkError, GateStep, Look, Block, Unblock, GateError, Expire, vars, chatVars

(* A sender of a reply who sees an error may send it again without sending it twice.    *)
THEOREM FailedReplyCorrect == Spec => []FailedReplyIsNotStored
<1>1. Init => FailedReplyIsNotStored
  BY DEF Init, FailedReplyIsNotStored
<1> QED
  BY <1>1, SoundCorrect, FailedReplyStep, PTL DEF Spec
=============================================================================
