----------------------------- MODULE AgentLoop -----------------------------
(***************************************************************************)
(* One Mode A run: AgentService.run and the context compaction.  The loop  *)
(* asks the model for a turn, runs the tools it called, and may ask for a  *)
(* summary of the older history before it goes on.  A run shares nothing   *)
(* with another one but the tables its tools work on (TicketFlows,         *)
(* UserAdmin); here a tool is only a name, and what matters is which turns *)
(* the model is shown, which of its calls are run, and what the caller is  *)
(* told.                                                                   *)
(***************************************************************************)
EXTENDS Integers, Sequences, FiniteSets

CONSTANTS Tools,              \* the tools but escalate_to_human
          MaxIterations,      \* MAX_ITERATIONS
          CompactionEnabled,  \* COMPACTION_ENABLED
          TurnThreshold,      \* COMPACTION_TURN_THRESHOLD
          KeepRecentPairs     \* COMPACTION_KEEP_RECENT_TURNS

ESCALATE == "escalate_to_human"

ASSUME AgentAssumption ==
    /\ ESCALATE \notin Tools
    /\ MaxIterations \in Nat \ {0}
    /\ TurnThreshold \in Nat \ {0}
    /\ KeepRecentPairs \in Nat \ {0}
    /\ CompactionEnabled \in BOOLEAN

VARIABLES pc,         \* "asking" or "summarizing" a model, "done" or "failed"
          messages,   \* the conversation the next request shows the model
          turns,      \* the log of the turns so far, part of the answer
          turnsSinceLastCompaction,
          answer,     \* what final_text is: the caller's view of how the run ended
          performed   \* history: the turns whose tools were run, in order

vars == <<pc, messages, turns, turnsSinceLastCompaction, answer, performed>>

\* A message: its role, what it is, the turns it tells of and the tool calls in it.
Message(role, kind, about, calls) ==
    [role |-> role, kind |-> kind, about |-> about, calls |-> calls]

Prompt == Message("user", "prompt", {}, {})
Acknowledgment == Message("user", "ack", {}, {})

\* A turn of the model: why it stopped and what it called.  A turn cut off by its token
\* limit may end in the middle of a call.
Replies == [stop_reason : {"tool_use"}, calls : SUBSET (Tools \cup {ESCALATE}) \ {{}}]
           \cup [stop_reason : {"end_turn"}, calls : {{}}]
           \cup [stop_reason : {"max_tokens"}, calls : SUBSET (Tools \cup {ESCALATE})]

Escalating(reply) == reply.stop_reason = "tool_use" /\ ESCALATE \in reply.calls
Acting(reply) == reply.stop_reason = "tool_use" /\ ESCALATE \notin reply.calls

Pairs(conversation) == (Len(conversation) - 1) \div 2

-----------------------------------------------------------------------------
(* compaction.ts *)

AtLeast(n, m) == IF n >= m THEN n ELSE m
AtMost(n, m) == IF n <= m THEN n ELSE m

\* Mutant: the transcript ends one pair too early.
SummarizedShort(conversation) ==
    LET cutoff == AtLeast(1, Len(conversation) - 2 * (KeepRecentPairs + 1))
    IN UNION {conversation[i].about : i \in 2 .. cutoff}

\* The messages a summary stands for: all after the first one that are not kept.
Summarized(conversation) ==
    LET cutoff == AtLeast(1, Len(conversation) - 2 * KeepRecentPairs)
    IN UNION {conversation[i].about : i \in 2 .. cutoff}

\* Mutant: the kept suffix starts one message early, with the results of a dropped turn.
compactMessagesOffByOne(conversation) ==
    LET keep == AtMost(KeepRecentPairs, Pairs(conversation))
    IN <<conversation[1],
         Message("assistant", "summary", Summarized(conversation), {}),
         Acknowledgment>>
       \o SubSeq(conversation, Len(conversation) - 2 * keep, Len(conversation))

\* The first message, the summary and an acknowledgment, then the most recent pairs.
compactMessages(conversation) ==
    LET keep == AtMost(KeepRecentPairs, Pairs(conversation))
    IN <<conversation[1],
         Message("assistant", "summary", Summarized(conversation), {}),
         Acknowledgment>>
       \o SubSeq(conversation, Len(conversation) - 2 * keep + 1, Len(conversation))

\* Mutant: the cooldown is one turn longer.
CompactionDueLate(turn, conversation, since, large) ==
    /\ CompactionEnabled
    /\ turn >= TurnThreshold \/ large
    /\ since > KeepRecentPairs
    /\ Pairs(conversation) - KeepRecentPairs > 0

\* Past a threshold of turns or of input tokens (large), not too soon after the last one,
\* and with something to summarise.
CompactionDue(turn, conversation, since, large) ==
    /\ CompactionEnabled
    /\ turn >= TurnThreshold \/ large
    /\ since >= KeepRecentPairs
    /\ Pairs(conversation) - KeepRecentPairs > 0

-----------------------------------------------------------------------------
(* AgentService.run *)

Init ==
    /\ pc = "asking"
    /\ messages = <<Prompt>>
    /\ turns = <<>>
    /\ turnsSinceLastCompaction = 0
    /\ answer = "none"
    /\ performed = <<>>

Turn == Len(turns) + 1

\* Every turn is logged and kept, whatever becomes of it.
LogTurn(reply) ==
    turns' = Append(turns, [stop_reason |-> reply.stop_reason, calls |-> reply.calls,
                            compaction |-> 0])
Said(reply) == Append(messages, Message("assistant", "reply", {Turn}, reply.calls))

End(how) == pc' = "done" /\ answer' = how
Throws == pc' = "failed" /\ UNCHANGED answer

Finishes(reply) ==
    /\ reply.stop_reason # "tool_use"
    /\ LogTurn(reply)
    /\ messages' = Said(reply)
    /\ End("final")
    /\ UNCHANGED <<turnsSinceLastCompaction, performed>>

\* Mutant: the other calls of the turn are run before the escalation is seen.
EscalatesAfterwards(reply) ==
    /\ Escalating(reply)
    /\ LogTurn(reply)
    /\ messages' = Said(reply)
    /\ performed' = Append(performed, Turn)
    /\ End("escalated")
    /\ UNCHANGED turnsSinceLastCompaction

\* escalate_to_human comes first: no other call of the turn is run.  It may name a ticket
\* that does not exist, and updateStatus throws.
Escalates(reply) ==
    /\ Escalating(reply)
    /\ LogTurn(reply)
    /\ messages' = Said(reply)
    /\ End("escalated") \/ Throws
    /\ UNCHANGED <<turnsSinceLastCompaction, performed>>

\* Mutant: the cap is one iteration late.
GoOnOnce(turn) ==
    \/ turn > MaxIterations /\ End("capped")
    \/ turn <= MaxIterations /\ pc' = "asking" /\ UNCHANGED answer

\* The end of an iteration: the cap ends the run without a final answer.
GoOn(turn) ==
    \/ turn = MaxIterations /\ End("capped")
    \/ turn # MaxIterations /\ pc' = "asking" /\ UNCHANGED answer

Acts(reply, large) ==
    LET heard == Append(Said(reply), Message("user", "results", {Turn}, reply.calls))
        since == turnsSinceLastCompaction + 1
    IN /\ Acting(reply)
       /\ LogTurn(reply)
       /\ messages' = heard
       /\ performed' = Append(performed, Turn)
       /\ turnsSinceLastCompaction' = since
       /\ \/ /\ CompactionDue(Turn, heard, since, large)
             /\ pc' = "summarizing" /\ UNCHANGED answer
          \/ ~ CompactionDue(Turn, heard, since, large) /\ GoOn(Turn)

\* The model's turn arrives.  Finishing or escalating, the size of the input is not read.
ModelReplies ==
    /\ pc = "asking"
    /\ \E reply \in Replies : \/ Finishes(reply) \/ Escalates(reply)
                              \/ \E large \in BOOLEAN : Acts(reply, large)

\* Mutant: the cooldown is not started again.
SummaryArrivesHot ==
    /\ pc = "summarizing"
    /\ messages' = compactMessages(messages)
    /\ turns' = [turns EXCEPT ![Len(turns)].compaction = Pairs(messages) - KeepRecentPairs]
    /\ GoOn(Len(turns))
    /\ UNCHANGED <<performed, turnsSinceLastCompaction>>

\* Mutant: the history is compacted while, not if, it is over the threshold.
SummaryArrivesAgain ==
    /\ pc = "summarizing"
    /\ messages' = compactMessages(messages)
    /\ turns' = [turns EXCEPT ![Len(turns)].compaction = 1]
    /\ turnsSinceLastCompaction' = 0
    /\ UNCHANGED <<pc, answer, performed>>

\* The summary arrives: the older history is replaced, and the iteration ends.
SummaryArrives ==
    /\ pc = "summarizing"
    /\ messages' = compactMessages(messages)
    /\ turns' = [turns EXCEPT ![Len(turns)].compaction = Pairs(messages) - KeepRecentPairs]
    /\ turnsSinceLastCompaction' = 0
    /\ GoOn(Len(turns))
    /\ UNCHANGED performed

\* Either call can throw: the run ends without an answer, what its tools did stays done.
CallFails ==
    /\ pc \in {"asking", "summarizing"}
    /\ Throws
    /\ UNCHANGED <<messages, turns, turnsSinceLastCompaction, performed>>

Next == ModelReplies \/ SummaryArrives \/ CallFails

Spec == Init /\ [][Next]_vars

\* A call to the model comes back: the Anthropic client waits at most its own time limit,
\* and then throws, which is CallFails.  That a call fails is never owed to anyone.
FairSpec == Spec /\ WF_vars(ModelReplies) /\ WF_vars(SummaryArrives)

-----------------------------------------------------------------------------
(* What a run promises *)

Messages == [role : {"user", "assistant"},
             kind : {"prompt", "reply", "results", "summary", "ack"},
             about : SUBSET (1 .. MaxIterations), calls : SUBSET (Tools \cup {ESCALATE})]

LoggedTurns == [stop_reason : {"tool_use", "end_turn", "max_tokens"},
                calls : SUBSET (Tools \cup {ESCALATE}), compaction : Nat]

\* Types, and the iteration cap.
AgentTypeOK ==
    /\ pc \in {"asking", "summarizing", "done", "failed"}
    /\ messages \in Seq(Messages)
    /\ turns \in Seq(LoggedTurns) /\ Len(turns) <= MaxIterations
    /\ turnsSinceLastCompaction \in 0 .. MaxIterations
    /\ answer \in {"none", "final", "escalated", "capped"}
    /\ performed \in Seq(1 .. MaxIterations)

\* The Messages API refuses a request whose roles do not alternate from a user's message
\* to a user's, or with a tool call that is not answered in the very next message
\* (compaction.ts:3-9, "preserve strict user/assistant role alternation").
RequestIsWellFormed ==
    pc = "asking" =>
      /\ Len(messages) % 2 = 1 /\ messages[1] = Prompt
      /\ \A i \in DOMAIN messages :
           messages[i].role = IF i % 2 = 1 THEN "user" ELSE "assistant"
      /\ \A i \in DOMAIN messages : messages[i].kind = "reply" =>
           messages[i + 1] = Message("user", "results", messages[i].about, messages[i].calls)
      /\ \A i \in DOMAIN messages : messages[i].kind = "results" =>
           messages[i - 1].kind = "reply" /\ messages[i - 1].about = messages[i].about

\* A compaction loses no turn: each is in the conversation, as it was or in a summary of
\* a summary, and the most recent COMPACTION_KEEP_RECENT_TURNS as they were.
NothingIsForgotten ==
    pc = "asking" =>
      \A n \in DOMAIN turns :
        \E i \in DOMAIN messages :
          /\ n \in messages[i].about
          /\ n > Len(turns) - KeepRecentPairs => messages[i].kind = "reply"

\* With compaction on, what a request shows the model stays bounded however long the run.
HistoryIsBounded ==
    CompactionEnabled /\ pc = "asking" =>
      Pairs(messages) <= AtLeast(TurnThreshold - 1, 2 * KeepRecentPairs)

\* README "if the model calls it alongside other tools in the same turn, those other tools
\* do not run": the tools that ran are those of the turns that only acted, once each and
\* in order, and the caller's answer follows from the last turn of the log.
AnswerFollowsFromLog ==
    /\ {performed[k] : k \in DOMAIN performed} = {n \in DOMAIN turns : Acting(turns[n])}
    /\ \A j, k \in DOMAIN performed : j < k => performed[j] < performed[k]
    /\ \A n \in DOMAIN turns : n < Len(turns) => Acting(turns[n])
    /\ pc = "done" =>
         /\ (answer = "escalated") <=> Escalating(turns[Len(turns)])
         /\ (answer = "capped") <=> Acting(turns[Len(turns)])
         /\ answer = "capped" => Len(turns) = MaxIterations

\* README "also the cooldown before another pass can fire": COMPACTION_KEEP_RECENT_TURNS
\* turns lie between two compactions.
CompactionsKeepApart ==
    \A m, n \in DOMAIN turns :
      m < n /\ turns[m].compaction > 0 /\ turns[n].compaction > 0 => n - m >= KeepRecentPairs

\* A run ends, with an answer or with an error, however the model behaves: neither tool
\* calls without end nor a history that stays over the threshold keep a caller waiting.
EveryRunEnds == <>(pc \in {"done", "failed"})
=============================================================================
