------------------------------ MODULE ChatInbox ------------------------------
(***************************************************************************)
(* A conversation of two users: messages sent to a person or to the        *)
(* conversation, the preview of the last one that is kept in the           *)
(* conversation's row, the read marks, the blocks, and the unread count of *)
(* each user behind its cache of thirty seconds.                           *)
(*                                                                         *)
(* Every handler is a chain of awaited calls without a transaction, so     *)
(* that the steps of any two may fall in any order, and each may be the    *)
(* last.  A message is known by the call that sends it.                    *)
(***************************************************************************)
EXTENDS Naturals, FiniteSets

CONSTANTS
  Users,       \* the two of the conversation
  Directs,     \* calls of SendMessageUseCase: to a person
  Replies,     \* calls of SendMessageToConversationUseCase
  Counts,      \* calls of GetUnreadCountUseCase
  Marks,       \* calls of MarkConversationReadUseCase
  Gates,       \* calls of BlockUserUseCase or UnblockUserUseCase
  None,        \* no message, no count
  Faults       \* what may go wrong

FaultKinds == {"db", "cache", "crash"}

Sends == Directs \cup Replies
Calls == Sends \cup Counts \cup Marks \cup Gates

Disjoint(s, t) == s \cap t = {}

ASSUME ChatInboxAssumption ==
  /\ \E u, v \in Users : u # v /\ Users = {u, v}
  /\ Disjoint(Directs, Replies)
  /\ Disjoint(Sends, Counts) /\ Disjoint(Sends, Marks) /\ Disjoint(Sends, Gates)
  /\ Disjoint(Counts, Marks) /\ Disjoint(Counts, Gates) /\ Disjoint(Marks, Gates)
  /\ None \notin Sends \cup Nat
  /\ IsFiniteSet(Sends)
  /\ Faults \subseteq FaultKinds

VARIABLES
  conv,       \* the conversation's row exists
  stored,     \* the messages
  latest,     \* the one created last
  read,       \* the messages with isRead
  preview,    \* the row's last message
  blocks,     \* the users who have blocked the other
  cached,     \* the unread count of each user in the cache
  pc,         \* where each call is
  who,        \* the user of each call
  val,        \* the count that a GetUnreadCount call has computed
  told,       \* what the sender of each message was answered
  stale,      \* history: whose cached count nobody is about to delete any more
  overtaken,  \* history: the counts computed before a delete of their key, or a missed one
  missed,     \* history: a preview was not written, or two were being written at once
  crossed     \* history: the sends that were past their check when a block was set

chatVars == <<conv, stored, latest, read, preview, missed>>
blockVars == <<blocks, crossed>>
countVars == <<cached, val, stale, overtaken>>
vars == <<chatVars, blockVars, countVars, pc, who, told>>

PCs == {"idle", "privacy", "open", "create", "preview", "compute", "set", "clear", "block", "unblock", "done"}

TypeOK ==
  /\ conv \in BOOLEAN
  /\ stored \subseteq Sends
  /\ latest \in stored \cup {None}
  /\ read \subseteq stored
  /\ preview \in stored \cup {None}
  /\ blocks \subseteq Users
  /\ cached \in [Users -> Nat \cup {None}]
  /\ pc \in [Calls -> PCs]
  /\ who \in [Calls -> Users]
  /\ val \in [Counts -> Nat \cup {None}]
  /\ told \in [Sends -> {"nothing", "sent", "failed", "refused"}]
  /\ stale \subseteq Users
  /\ overtaken \subseteq Counts
  /\ missed \in BOOLEAN
  /\ crossed \subseteq Sends

Init ==
  /\ conv = FALSE
  /\ stored = {}
  /\ latest = None
  /\ read = {}
  /\ preview = None
  /\ blocks = {}
  /\ cached = [u \in Users |-> None]
  /\ pc = [c \in Calls |-> "idle"]
  /\ who \in [Calls -> Users]
  /\ val = [c \in Counts |-> None]
  /\ told = [s \in Sends |-> "nothing"]
  /\ stale = {}
  /\ overtaken = {}
  /\ missed = FALSE
  /\ crossed = {}

Peer == [u \in Users |-> CHOOSE v \in Users : v # u]

\* getUnreadCount: what the other has sent and the user has not read.
UnreadOf(u) == {s \in stored \ read : who[s] # u}
Unread(u) == Cardinality(UnreadOf(u))

Goto(c, where) == pc' = [pc EXCEPT ![c] = where]

\* The sender is answered, and the call over.
Answer(s, what) == Goto(s, "done") /\ told' = [told EXCEPT ![s] = what]

\* The computed counts of a user that are not cached yet.
InFlight(u) == {c \in Counts : who[c] = u /\ pc[c] = "set"}

\* The key is deleted.
Delete(u) ==
  /\ cached' = [cached EXCEPT ![u] = None]
  /\ stale' = stale \ {u}
  /\ overtaken' = overtaken \cup InFlight(u)
  /\ UNCHANGED val

\* The key should have been deleted, and will not be.
Miss(u) ==
  /\ stale' = stale \cup {u}
  /\ overtaken' = overtaken \cup InFlight(u)
  /\ UNCHANGED <<cached, val>>

AtPreview == {s \in Sends : pc[s] = "preview"}

-----------------------------------------------------------------------------
(* Sending. *)

\* Slip: only the sender's own block counts.
Check_OneWay(s) ==
  /\ pc[s] = "idle" /\ s \in Sends
  /\ IF (s \in Replies /\ ~conv) \/ who[s] \in blocks
       THEN Answer(s, "refused")
       ELSE Goto(s, IF s \in Directs THEN "privacy" ELSE "create") /\ UNCHANGED told
  /\ UNCHANGED <<chatVars, blockVars, countVars, who>>

\* Neither has blocked the other; a reply needs the conversation.
Check(s) ==
  /\ pc[s] = "idle" /\ s \in Sends
  /\ IF (s \in Replies /\ ~conv) \/ blocks # {}
       THEN Answer(s, "refused")
       ELSE Goto(s, IF s \in Directs THEN "privacy" ELSE "create") /\ UNCHANGED told
  /\ UNCHANGED <<chatVars, blockVars, countVars, who>>

\* Who may start a conversation with the recipient.
Privacy(s) ==
  /\ pc[s] = "privacy"
  /\ \/ Answer(s, "refused")
     \/ Goto(s, "open") /\ UNCHANGED told
  /\ UNCHANGED <<chatVars, blockVars, countVars, who>>

\* findOrCreate.
Open(s) ==
  /\ pc[s] = "open"
  /\ conv' = TRUE
  /\ Goto(s, "create")
  /\ UNCHANGED <<stored, latest, read, preview, missed, blockVars, countVars, who, told>>

Create(s) ==
  /\ pc[s] = "create"
  /\ stored' = stored \cup {s}
  /\ latest' = s
  /\ missed' = (AtPreview # {})
  /\ Goto(s, "preview")
  /\ UNCHANGED <<conv, read, preview, blockVars, countVars, who, told>>

\* Slip: the preview that is there is kept.
UpdateLastMessage_Keep(s) ==
  /\ pc[s] = "preview"
  /\ preview' = IF preview = None THEN s ELSE preview
  /\ Goto(s, "clear")
  /\ UNCHANGED <<conv, stored, latest, read, missed, blockVars, countVars, who, told>>

\* Whatever the row shows, the message is its last one now.
UpdateLastMessage(s) ==
  /\ pc[s] = "preview"
  /\ preview' = s
  /\ Goto(s, "clear")
  /\ UNCHANGED <<conv, stored, latest, read, missed, blockVars, countVars, who, told>>

\* Slip: the sender's own count is invalidated.
InvalidateUnread_Own(s) ==
  /\ pc[s] = "clear" /\ s \in Sends
  /\ Delete(who[s])
  /\ Answer(s, "sent")
  /\ UNCHANGED <<chatVars, blockVars, who>>

\* The recipient's count.
InvalidateUnread(s) ==
  /\ pc[s] = "clear" /\ s \in Sends
  /\ Delete(Peer[who[s]])
  /\ Answer(s, "sent")
  /\ UNCHANGED <<chatVars, blockVars, who>>

\* The database fails before there is a message.
CreateError(s) ==
  /\ pc[s] \in {"privacy", "open", "create"}
  /\ "db" \in Faults
  /\ Answer(s, "failed")
  /\ UNCHANGED <<chatVars, blockVars, countVars, who>>

\* Slip: the sender of a reply is told as well.
PreviewError_Bubbles(s) ==
  /\ pc[s] = "preview"
  /\ "db" \in Faults
  /\ missed' = TRUE
  /\ Answer(s, "failed")
  /\ Miss(Peer[who[s]])
  /\ UNCHANGED <<conv, stored, latest, read, preview, blockVars, who>>

\* The preview is not written.  A direct message fails, with the message stored and
\* nothing invalidated; a reply goes on.
PreviewError(s) ==
  /\ pc[s] = "preview"
  /\ "db" \in Faults
  /\ missed' = TRUE
  /\ IF s \in Directs
       THEN Answer(s, "failed") /\ Miss(Peer[who[s]])
       ELSE Goto(s, "clear") /\ UNCHANGED <<told, countVars>>
  /\ UNCHANGED <<conv, stored, latest, read, preview, blockVars, who>>

\* The cache fails: Promise.all throws, allSettled does not.
InvalidateError(s) ==
  /\ pc[s] = "clear" /\ s \in Sends
  /\ "cache" \in Faults
  /\ Miss(Peer[who[s]])
  /\ Answer(s, IF s \in Directs THEN "failed" ELSE "sent")
  /\ UNCHANGED <<chatVars, blockVars, who>>

-----------------------------------------------------------------------------
(* Reading. *)

\* getOrSet: the cached count, or a computed one.
Get(c) ==
  /\ pc[c] = "idle" /\ c \in Counts
  /\ cached[who[c]] = None
  /\ Goto(c, "compute")
  /\ UNCHANGED <<chatVars, blockVars, countVars, who, told>>

Compute(c) ==
  /\ pc[c] = "compute"
  /\ val' = [val EXCEPT ![c] = Unread(who[c])]
  /\ Goto(c, "set")
  /\ UNCHANGED <<chatVars, blockVars, cached, stale, overtaken, who, told>>

\* The call is over, and its local variable with it.
Return(c) ==
  /\ Goto(c, "idle")
  /\ val' = [val EXCEPT ![c] = None]
  /\ overtaken' = overtaken \ {c}

Set(c) ==
  /\ pc[c] = "set"
  /\ cached' = [cached EXCEPT ![who[c]] = val[c]]
  /\ stale' = IF c \in overtaken THEN stale \cup {who[c]} ELSE stale \ {who[c]}
  /\ Return(c)
  /\ UNCHANGED <<chatVars, blockVars, who, told>>

\* Computing or caching fails, or the pod dies.
CountError(c) ==
  /\ \/ pc[c] = "compute" /\ "db" \in Faults
     \/ pc[c] = "set" /\ "cache" \in Faults
     \/ pc[c] \in {"compute", "set"} /\ "crash" \in Faults
  /\ Return(c)
  /\ UNCHANGED <<chatVars, blockVars, cached, stale, who, told>>

\* markConversationAsRead: everything the other has sent.
MarkRead(m) ==
  /\ pc[m] = "idle" /\ m \in Marks
  /\ conv
  /\ read' = read \cup UnreadOf(who[m])
  /\ Goto(m, "clear")
  /\ UNCHANGED <<conv, stored, latest, preview, missed, blockVars, countVars, who, told>>

InvalidateRead(m) ==
  /\ pc[m] = "clear" /\ m \in Marks
  /\ Delete(who[m])
  /\ Goto(m, "idle")
  /\ UNCHANGED <<chatVars, blockVars, who, told>>

MarkError(m) ==
  /\ pc[m] = "clear" /\ m \in Marks
  /\ Faults \cap {"cache", "crash"} # {}
  /\ Miss(who[m])
  /\ Goto(m, "idle")
  /\ UNCHANGED <<chatVars, blockVars, who, told>>

-----------------------------------------------------------------------------
(* Blocking. *)

\* BlockUserUseCase, unless there is a block already, or UnblockUserUseCase if there is.
Look(g) ==
  /\ pc[g] = "idle" /\ g \in Gates
  /\ Goto(g, IF who[g] \in blocks THEN "unblock" ELSE "block")
  /\ UNCHANGED <<chatVars, blockVars, countVars, who, told>>

Block(g) ==
  /\ pc[g] = "block"
  /\ blocks' = blocks \cup {who[g]}
  /\ crossed' = crossed \cup {s \in Sends : pc[s] \in {"privacy", "open", "create"}}
  /\ Goto(g, "idle")
  /\ UNCHANGED <<chatVars, countVars, who, told>>

Unblock(g) ==
  /\ pc[g] = "unblock"
  /\ blocks' = blocks \ {who[g]}
  /\ Goto(g, "idle")
  /\ UNCHANGED <<chatVars, crossed, countVars, who, told>>

GateError(g) ==
  /\ pc[g] \in {"block", "unblock"}
  /\ Faults \cap {"db", "crash"} # {}
  /\ Goto(g, "idle")
  /\ UNCHANGED <<chatVars, blockVars, countVars, who, told>>

-----------------------------------------------------------------------------
(* The surroundings. *)

\* The pod of a send dies.
Crash(s) ==
  /\ pc[s] \in {"privacy", "open", "create", "preview", "clear"} /\ s \in Sends
  /\ "crash" \in Faults
  /\ Goto(s, "done")
  /\ missed' = (missed \/ pc[s] = "preview")
  /\ IF pc[s] \in {"preview", "clear"} THEN Miss(Peer[who[s]]) ELSE UNCHANGED countVars
  /\ UNCHANGED <<conv, stored, latest, read, preview, blockVars, who, told>>

\* The thirty seconds of a cached count.
Expire(u) ==
  /\ cached[u] # None
  /\ cached' = [cached EXCEPT ![u] = None]
  /\ UNCHANGED <<chatVars, blockVars, val, stale, overtaken, pc, who, told>>

SendStep(s) ==
  \/ Check(s) \/ Privacy(s) \/ Open(s) \/ Create(s) \/ UpdateLastMessage(s) \/ InvalidateUnread(s)
  \/ CreateError(s) \/ PreviewError(s) \/ InvalidateError(s) \/ Crash(s)

CountStep(c) == Get(c) \/ Compute(c) \/ Set(c) \/ CountError(c)

MarkStep(m) == MarkRead(m) \/ InvalidateRead(m) \/ MarkError(m)

GateStep(g) == Look(g) \/ Block(g) \/ Unblock(g) \/ GateError(g)

Next ==
  \/ \E s \in Sends : SendStep(s)
  \/ \E c \in Counts : CountStep(c)
  \/ \E m \in Marks : MarkStep(m)
  \/ \E g \in Gates : GateStep(g)
  \/ \E u \in Users : Expire(u)

Spec == Init /\ [][Next]_vars

-----------------------------------------------------------------------------
(* Properties. *)

\* Somebody has changed the user's count and is about to delete its key.
ToBeCleared(u) ==
  \/ \E s \in Sends : pc[s] \in {"preview", "clear"} /\ Peer[who[s]] = u
  \/ \E m \in Marks : pc[m] = "clear" /\ who[m] = u

\* A wrong unread count is in the cache only while the call that made it wrong has
\* still to delete it, unless that delete failed or came before a count that was
\* computed earlier was cached.
UnreadIsRight ==
  \A u \in Users \ stale : cached[u] \in {None, Unread(u)} \/ ToBeCleared(u)

\* When nobody is sending, the preview is the message created last, unless its update
\* failed ("recovers on next message") or two were on their way at once.
PreviewIsLatest == ~missed /\ AtPreview = {} => preview = latest

\* Nothing is sent between two users of whom one has blocked the other, unless the
\* send was past its check when the block was set.
NothingAcrossABlock ==
  [][\A s \in Sends \ crossed : s \in stored' \ stored => blocks = {}]_vars

\* A reply that is answered with an error was not sent: "we don't bubble the
\* lastMessage error up to the user".  A direct message may have been.
FailedReplyIsNotStored == \A s \in Replies \cap stored : told[s] \notin {"failed", "refused"}
=============================================================================
