--------------------------- MODULE SessionHistory ---------------------------
(***************************************************************************)
(* The messages of a session file and the conversation the model gets from *)
(* them.  A run appends the user's message, reads the history, and may     *)
(* await a summary of its older turns; a divider with the summary is then  *)
(* inserted at an index computed before.  External runtimes append their   *)
(* own messages at any time, and the late reply to another run may end a   *)
(* run that is still preparing, so that the next one prepares beside it.   *)
(*                                                                         *)
(* A timestamp is the number of its message, 1, 2, ...: the clock is taken *)
(* to move on between two writes of the file and never to be set back.     *)
(* Every list the code makes of messages is in the order of their times,   *)
(* so that a conversation is the set of their numbers; only the file, and  *)
(* a copy of it, are in an order of their own.                             *)
(***************************************************************************)
EXTENDS Naturals, Sequences, FiniteSets, SequencesExt

CONSTANTS
    Task,       \* tasks of runs
    KeepRecent, \* compaction.keep_recent
    MaxMessages,\* bound: messages of the session, dividers not counted
    MaxMarkers  \* bound: dividers

ASSUME KeepRecentAssumption == KeepRecent \in Nat \ {0}
ASSUME SizeAssumption == MaxMessages \in Nat /\ MaxMarkers \in Nat

VARIABLES
    messages, \* the file, in its order
    arrived,  \* how many messages there have been
    loop,     \* what each task does, what it has read, what the model has
    dropped   \* what was compacted away without a summary

historyVars == <<messages, arrived, loop, dropped>>

Spoken == {"user", "assistant", "tool_call"}
Number == 1 .. MaxMessages

(* tells: the messages the summary of a divider stands for.                *)
Entry == [role: Spoken \cup {"run_notice"}, time: Number]
Marker == [role: {"compaction"}, time: Number, id: 1 .. MaxMarkers, tells: SUBSET Number]

(* What the model gets: a summary and the messages said since, both by     *)
(* their numbers.  marker is the divider the summary is taken from, 0 for  *)
(* none.                                                                   *)
View == [marker: 0 .. MaxMarkers, tells: SUBSET Number, said: SUBSET Number]

(* since: how many messages there were when it read the file.              *)
Idle == [at |-> "idle"]
LoopState == [at: {"preparing", "turn"}, read: Seq(Entry \cup Marker), view: View,
              since: 0 .. MaxMessages, overtaken: BOOLEAN]

Dividers(s) == {p \in DOMAIN s : s[p].role = "compaction"}

HistoryTypeOK ==
    /\ messages \in Seq(Entry \cup Marker)
    /\ \A i, j \in DOMAIN messages : messages[i] = messages[j] => i = j
    /\ arrived \in 0 .. MaxMessages
    /\ arrived = Cardinality(DOMAIN messages \ Dividers(messages))
    /\ loop \in [Task -> {Idle} \cup LoopState]
    /\ dropped \subseteq Number

HistoryInit ==
    /\ messages = <<>> /\ arrived = 0
    /\ loop = [t \in Task |-> Idle]
    /\ dropped = {}

-----------------------------------------------------------------------------
(* append_message and insert_message_at, each one write of the file.       *)
Appended(role) == Append(messages, [role |-> role, time |-> arrived + 1])

AppendMessage(role) ==
    /\ arrived < MaxMessages
    /\ messages' = Appended(role)
    /\ arrived' = arrived + 1

InsertMessageAt(index, marker) ==
    /\ messages' = InsertAt(messages, index, marker)
    /\ UNCHANGED arrived

(* sorted(..., key = timestamp) keeps the order of equal ones: which of    *)
(* two places of a list comes first then.                                  *)
Before(s, p, q) == s[p].time < s[q].time \/ (s[p].time = s[q].time /\ p < q)

(* The latest divider, and the places that come after it: all of them if   *)
(* there is none.                                                          *)
LastDivider(s) == CHOOSE m \in Dividers(s) : \A d \in Dividers(s) : d = m \/ Before(s, d, m)
AfterLast(s)   == {p \in DOMAIN s : \A d \in Dividers(s) : Before(s, d, p)}

(* _stored_messages_to_llm: calls without the turn they belong to are left *)
(* out, where they come first after a divider.                             *)
Orphans(s) ==
    {p \in AfterLast(s) :
        /\ Dividers(s) # {}
        /\ \A q \in AfterLast(s) : q = p \/ Before(s, q, p) => s[q].role = "tool_call"}

Shown(s) == {p \in AfterLast(s) \ Orphans(s) : s[p].role \in Spoken}

ToLLM(s) ==
    [marker |-> IF Dividers(s) = {} THEN 0 ELSE s[LastDivider(s)].id,
     tells  |-> IF Dividers(s) = {} THEN {} ELSE s[LastDivider(s)].tells,
     said   |-> {s[p].time : p \in Shown(s)}]

Reload == ToLLM(messages)

(* The user turns after the latest divider, and the last k of some.        *)
Turns(s) == {s[p].time : p \in {q \in AfterLast(s) : s[q].role = "user"}}
KthLast(turns, k) == CHOOSE n \in turns : Cardinality({m \in turns : m >= n}) = k

(* _stored_compaction_span: the place where the kept turns begin, or the   *)
(* last one when there are not that many (never a divider: one has the     *)
(* time of a turn that comes after it).                                    *)
\* Mutant: one turn too many is kept.
SplitPlace_OneMore(s, keptTurns) ==
    IF Cardinality(Turns(s)) > keptTurns
    THEN CHOOSE p \in AfterLast(s) :
           s[p].role = "user" /\ s[p].time = KthLast(Turns(s), keptTurns + 1)
    ELSE CHOOSE p \in DOMAIN s : \A q \in DOMAIN s : q = p \/ Before(s, q, p)

SplitPlace(s, keptTurns) ==
    IF keptTurns > 0 /\ Cardinality(Turns(s)) >= keptTurns
    THEN CHOOSE p \in AfterLast(s) :
           s[p].role = "user" /\ s[p].time = KthLast(Turns(s), keptTurns)
    ELSE CHOOSE p \in DOMAIN s : \A q \in DOMAIN s : q = p \/ Before(s, q, p)

-----------------------------------------------------------------------------
(* Runs.                                                                   *)

Does(t, what) == loop' = [loop EXCEPT ![t] = what]

(* A thread has one live run; the task of one that was ended by a reply to *)
(* another run goes on.                                                    *)
MayBegin(t) == loop[t] = Idle /\ \A u \in Task : loop[u] # Idle => loop[u].overtaken

Reads(t, stored) ==
    Does(t, [at |-> "preparing", read |-> stored, view |-> ToLLM(stored),
             since |-> arrived', overtaken |-> FALSE])

RunBegins(t) ==
    /\ MayBegin(t)
    /\ AppendMessage("user")
    /\ Reads(t, messages')
    /\ UNCHANGED dropped

IsUser(s, p) == s[p].role = "user"

(* The request of an earlier run once more, with its run id: the message   *)
(* is known and not stored again.                                          *)
RunRepeats(t) ==
    /\ MayBegin(t)
    /\ \E p \in DOMAIN messages : IsUser(messages, p)
    /\ UNCHANGED <<messages, arrived, dropped>>
    /\ Reads(t, messages)

(* _recent_turn_split: how many turns are kept; 0 when nothing is old      *)
(* enough.  The summarizer always leaves one turn to summarize.            *)
TurnsKept(turns, summarizes) ==
    IF summarizes THEN IF turns <= 1 THEN 0
                       ELSE IF KeepRecent < turns THEN KeepRecent ELSE turns - 1
    ELSE IF KeepRecent < turns THEN KeepRecent ELSE 0

(* The user turns the compactor finds in the conversation it is given.     *)
TurnsInView(t) ==
    {n \in loop[t].view.said :
        \E p \in DOMAIN loop[t].read : IsUser(loop[t].read, p) /\ loop[t].read[p].time = n}

\* Mutant: the summary that was there is not summarized again.
CompactedView_Afresh(t, kept, marker, summarizes) ==
    LET view == loop[t].view
        split == KthLast(TurnsInView(t), kept)
    IN [marker |-> marker,
        tells |-> IF summarizes THEN {n \in view.said : n < split} ELSE {},
        said |-> {n \in view.said : n >= split}]

(* What is before the first kept turn is summarized, with the summary that *)
(* was there, or dropped.                                                  *)
CompactedView(t, kept, marker, summarizes) ==
    LET view == loop[t].view
        split == KthLast(TurnsInView(t), kept)
    IN [marker |-> marker,
        tells |-> IF summarizes THEN view.tells \cup {n \in view.said : n < split} ELSE {},
        said |-> {n \in view.said : n >= split}]

(* _build_compaction_marker: the divider has the time of the message it    *)
(* comes before.                                                           *)
\* Mutant: the divider has the time of its writing.
Divider_Untimed(marker, tells, target) ==
    [role |-> "compaction", time |-> arrived, id |-> marker, tells |-> tells]

Divider(marker, tells, target) ==
    [role |-> "compaction", time |-> target.time, id |-> marker, tells |-> tells]

(* The model's turns follow; a run that was overtaken hands its turn to    *)
(* the external runtime, and what comes of it is received.                 *)
Prepared(t, view) ==
    Does(t, IF loop[t].overtaken THEN Idle
            ELSE [loop[t] EXCEPT !.at = "turn", !.view = view, !.read = <<>>])

(* The summary is there, or the old turns are dropped: the divider goes    *)
(* into the file as it is now, at the place of its message in the file as  *)
(* it was read.                                                            *)
Compacts(t, summarizes) ==
    LET kept == TurnsKept(Cardinality(TurnsInView(t)), summarizes)
        index == SplitPlace(loop[t].read, kept)
        marker == Cardinality(Dividers(messages)) + 1
        view == CompactedView(t, kept, marker, summarizes) IN
    /\ loop[t].at = "preparing" /\ kept # 0 /\ marker <= MaxMarkers
    /\ InsertMessageAt(index, Divider(marker, view.tells, loop[t].read[index]))
    /\ Prepared(t, view)
    /\ dropped' = IF summarizes THEN dropped
                  ELSE dropped \cup loop[t].view.tells \cup (loop[t].view.said \ view.said)

(* No need to compact, or no summary was to be had.                        *)
KeepsHistory(t) ==
    /\ loop[t].at = "preparing"
    /\ Prepared(t, loop[t].view)
    /\ UNCHANGED <<messages, arrived, dropped>>

(* The record of a call is what the model gets of it.                      *)
ToolRecorded(t) ==
    /\ loop[t].at = "turn"
    /\ AppendMessage("tool_call")
    /\ Does(t, [loop[t] EXCEPT !.view.said = @ \cup {arrived'}])
    /\ UNCHANGED dropped

(* With an answer, with the notice that its turns are used up, or without  *)
(* a trace: failed, stopped, or ended by another run's reply.  The last of *)
(* these while it prepares is Overtaken.                                   *)
RunEnds(t) ==
    /\ loop[t] # Idle
    /\ \/ /\ loop[t].at = "turn" /\ ~loop[t].overtaken
          /\ \E role \in {"assistant", "run_notice"} : AppendMessage(role)
       \/ UNCHANGED <<messages, arrived>>
    /\ Does(t, Idle)
    /\ UNCHANGED dropped

Overtaken(t) ==
    /\ loop[t].at = "preparing" /\ ~loop[t].overtaken
    /\ Does(t, [loop[t] EXCEPT !.overtaken = TRUE])
    /\ UNCHANGED <<messages, arrived, dropped>>

(* receive_message, and the tool calls of an external runtime.  A message  *)
(* that is sent again is known by its id.                                  *)
ReceiveMessage ==
    /\ \E role \in {"tool_call", "assistant"} : AppendMessage(role)
    /\ UNCHANGED <<loop, dropped>>

HistoryNext ==
    \/ ReceiveMessage
    \/ \E t \in Task :
         \/ RunBegins(t) \/ RunRepeats(t) \/ KeepsHistory(t) \/ ToolRecorded(t)
         \/ RunEnds(t) \/ Overtaken(t)
         \/ \E summarizes \in BOOLEAN : Compacts(t, summarizes)

HistorySpec == HistoryInit /\ [][HistoryNext]_historyVars

-----------------------------------------------------------------------------
(* Compaction forgets nothing and repeats nothing: what was said is told   *)
(* by the summary or follows it word for word, each message once, unless   *)
(* it was dropped on purpose; whatever arrived, or was compacted, while    *)
(* the summary was awaited (_run_agent_loop, insert_message_at).           *)
NothingForgotten ==
    LET spoken == {p \in DOMAIN messages : messages[p].role \in Spoken} IN
    /\ {messages[p].time : p \in spoken} \subseteq Reload.tells \cup Reload.said \cup dropped
    /\ Reload.tells \cap Reload.said = {}
    /\ \A p, q \in Shown(messages) : messages[p].time = messages[q].time => p = q

(* The model works with the conversation that a reload of the session      *)
(* would give it, but for what other runtimes sent since the run began:    *)
(* the divider cuts the stored history where the compactor cut the live    *)
(* one (_stored_compaction_span, _stored_messages_to_llm).                 *)
LiveIsReload ==
    \A t \in Task : loop[t] # Idle =>
        LET view == loop[t].view IN
        Reload.marker = view.marker =>
            /\ Reload.tells = view.tells
            /\ {n \in Reload.said : n <= loop[t].since \/ n \in view.said} = view.said

(* Nor does the model lose anything while it works, whatever other runs    *)
(* compact beside it: what was said when its run read the session is told  *)
(* by the summary it got, follows it, or was dropped on purpose            *)
(* (_run_agent_loop, compact of both compactors).                          *)
LiveForgetsNothing ==
    \A t \in Task : loop[t] # Idle =>
        LET view == loop[t].view
            spoken == {p \in DOMAIN messages : messages[p].role \in Spoken} IN
        /\ \A p \in spoken : messages[p].time <= loop[t].since =>
              messages[p].time \in view.tells \cup view.said \cup dropped
        /\ view.tells \cap view.said = {}
=============================================================================
