-------------------------- MODULE AgentLoopProofs --------------------------
(***************************************************************************)
(* For every cap, threshold and number of kept pairs: what a run sends to  *)
(* the model is well formed, whatever was compacted before, and with       *)
(* compaction on it stays bounded.  The conversation is well formed at     *)
(* every await; the bound needs to know that its length is the number of   *)
(* turns since the last compaction plus what that one left.                *)
(***************************************************************************)
EXTENDS AgentLoop, TLAPS

USE AgentAssumption

\* What RequestIsWellFormed says, with the roles of replies and results.
WellFormed(m) ==
    /\ m \in Seq(Messages) /\ Len(m) % 2 = 1 /\ m[1] = Prompt
    /\ \A i \in 1 .. Len(m) : m[i].role = IF i % 2 = 1 THEN "user" ELSE "assistant"
    /\ \A i \in 1 .. Len(m) : m[i].kind = "reply" =>
         /\ m[i].role = "assistant"
         /\ m[i + 1] = Message("user", "results", m[i].about, m[i].calls)
    /\ \A i \in 1 .. Len(m) : m[i].kind = "results" =>
         /\ m[i].role = "user"
         /\ m[i - 1].kind = "reply" /\ m[i - 1].about = m[i].about

Waiting == pc \in {"asking", "summarizing"}

LoopInv ==
    /\ AgentTypeOK
    /\ turnsSinceLastCompaction <= Len(turns)
    /\ pc = "asking" => Len(turns) < MaxIterations
    /\ Waiting => /\ WellFormed(messages)
                  /\ Pairs(messages) <= Len(turns)
                  /\ \/ Pairs(messages) = turnsSinceLastCompaction
                     \/ Pairs(messages) = 1 + KeepRecentPairs + turnsSinceLastCompaction
    /\ pc = "summarizing" => Pairs(messages) > KeepRecentPairs /\ Len(turns) > 0
    /\ pc = "asking" /\ CompactionEnabled =>
         \/ Len(turns) < TurnThreshold
         \/ turnsSinceLastCompaction < KeepRecentPairs
         \/ Pairs(messages) <= KeepRecentPairs

-----------------------------------------------------------------------------
(* The conversation *)

LEMMA Parity ==
    ASSUME NEW d \in Nat, NEW i \in Nat PROVE (2 * d + i) % 2 = i % 2
OBVIOUS

\* An odd length is a first message and whole pairs.
LEMMA PairsOfOdd ==
    ASSUME NEW m, Len(m) \in Nat, Len(m) % 2 = 1
    PROVE  Pairs(m) \in Nat /\ Len(m) = 2 * Pairs(m) + 1
BY DEF Pairs

\* A turn and its results extend a well-formed conversation by one pair.
LEMMA TurnExtends ==
    ASSUME NEW m, WellFormed(m), NEW about \in SUBSET (1 .. MaxIterations),
           NEW calls \in SUBSET (Tools \cup {ESCALATE}), NEW n,
           n = Append(Append(m, Message("assistant", "reply", about, calls)),
                      Message("user", "results", about, calls))
    PROVE  WellFormed(n) /\ Pairs(n) = Pairs(m) + 1
<1> DEFINE r == Message("assistant", "reply", about, calls)
           s == Message("user", "results", about, calls)
<1>1. /\ r \in Messages /\ r.role = "assistant" /\ r.kind = "reply"
      /\ r.about = about /\ r.calls = calls
      /\ s \in Messages /\ s.role = "user" /\ s.kind = "results" /\ s.about = about
  BY DEF Message, Messages
<1>2. s = Message("user", "results", r.about, r.calls)
  BY <1>1
<1> HIDE DEF r, s
<1>3. m \in Seq(Messages) /\ Len(m) \in Nat /\ Len(m) % 2 = 1 /\ Len(m) >= 1
  BY DEF WellFormed
<1>4. /\ n \in Seq(Messages) /\ Len(n) = Len(m) + 2
      /\ \A i \in 1 .. Len(m) : n[i] = m[i]
      /\ n[Len(m) + 1] = r /\ n[Len(m) + 2] = s
  BY <1>1, <1>3 DEF r, s
<1>5. Len(n) % 2 = 1 /\ n[1] = Prompt
  BY <1>3, <1>4 DEF WellFormed
<1>6. ASSUME NEW i \in 1 .. Len(n)
      PROVE  /\ n[i].role = IF i % 2 = 1 THEN "user" ELSE "assistant"
             /\ n[i].kind = "reply" =>
                  n[i].role = "assistant" /\ n[i + 1] = Message("user", "results", n[i].about, n[i].calls)
             /\ n[i].kind = "results" =>
                  n[i].role = "user" /\ n[i - 1].kind = "reply" /\ n[i - 1].about = n[i].about
  <2>1. CASE i = Len(m) + 1
    <3>1. i % 2 = 0 /\ i + 1 = Len(m) + 2
      BY <2>1, <1>3
    <3> QED BY <2>1, <3>1, <1>1, <1>2, <1>4
  <2>2. CASE i = Len(m) + 2
    <3>1. i % 2 = 1 /\ i - 1 = Len(m) + 1
      BY <2>2, <1>3
    <3> QED BY <2>2, <3>1, <1>1, <1>4
  <2>3. CASE i \in 1 .. Len(m)
    <3>1. n[i] = m[i] /\ m[i].role = IF i % 2 = 1 THEN "user" ELSE "assistant"
      BY <2>3, <1>4 DEF WellFormed
    <3>2. ASSUME n[i].kind = "reply"
          PROVE  n[i].role = "assistant" /\ n[i + 1] = Message("user", "results", n[i].about, n[i].calls)
      <4>1. m[i].role = "assistant" /\ m[i + 1] = Message("user", "results", m[i].about, m[i].calls)
        BY <2>3, <3>1, <3>2 DEF WellFormed
      <4>2. i # Len(m)
        BY <4>1, <3>1, <1>3
      <4>3. i + 1 \in 1 .. Len(m)
        BY <4>2, <2>3, <1>3
      <4> QED BY <4>1, <4>3, <3>1, <1>4
    <3>3. ASSUME n[i].kind = "results"
          PROVE  n[i].role = "user" /\ n[i - 1].kind = "reply" /\ n[i - 1].about = n[i].about
      <4>1. m[i].role = "user" /\ m[i - 1].kind = "reply" /\ m[i - 1].about = m[i].about
        BY <2>3, <3>1, <3>3 DEF WellFormed
      <4>2. i # 1
        BY <3>1, <3>3 DEF WellFormed, Prompt, Message
      <4>3. i - 1 \in 1 .. Len(m)
        BY <4>2, <2>3, <1>3
      <4> QED BY <4>1, <4>3, <3>1, <1>4
    <3> QED BY <3>1, <3>2, <3>3
  <2>4. Len(n) = Len(m) + 2
    BY <1>4
  <2>5. i \in 1 .. Len(m) \/ i = Len(m) + 1 \/ i = Len(m) + 2
    BY <2>4, <1>3
  <2> QED BY <2>1, <2>2, <2>3, <2>5
<1>7. WellFormed(n)
  BY <1>4, <1>5, <1>6 DEF WellFormed
<1>8. Pairs(n) = Pairs(m) + 1
  <2>1. Len(n) = Len(m) + 2 /\ Len(m) \in Nat
    BY <1>3, <1>4
  <2> QED BY <2>1 DEF Pairs
<1> QED BY <1>7, <1>8

\* What a summary stands for is a set of turns.
LEMMA SummaryAbout ==
    ASSUME NEW m \in Seq(Messages) PROVE Summarized(m) \in SUBSET (1 .. MaxIterations)
<1>1. \A i \in 1 .. Len(m) : m[i].about \in SUBSET (1 .. MaxIterations)
  <2>1. ASSUME NEW i \in 1 .. Len(m) PROVE m[i] \in Messages
    OBVIOUS
  <2>2. ASSUME NEW x \in Messages PROVE x.about \in SUBSET (1 .. MaxIterations)
    BY DEF Messages
  <2> QED BY <2>1, <2>2
<1>2. AtLeast(1, Len(m) - 2 * KeepRecentPairs) <= Len(m) \/ Len(m) = 0
  BY DEF AtLeast
<1>3. ASSUME NEW i \in 2 .. AtLeast(1, Len(m) - 2 * KeepRecentPairs) PROVE i \in 1 .. Len(m)
  BY <1>2 DEF AtLeast
<1> QED BY <1>1, <1>3 DEF Summarized

\* Three messages in front of a sequence shift it by three.
LEMMA ThreeInFront ==
    ASSUME NEW S, NEW a \in S, NEW b \in S, NEW c \in S, NEW t \in Seq(S), NEW n,
           n = <<a, b, c>> \o t
    PROVE  /\ n \in Seq(S) /\ Len(n) = Len(t) + 3
           /\ n[1] = a /\ n[2] = b /\ n[3] = c
           /\ \A i \in 4 .. Len(t) + 3 : n[i] = t[i - 3]
<1>1. <<a, b, c>> \in Seq(S) /\ Len(<<a, b, c>>) = 3
  OBVIOUS
<1>2. n \in Seq(S) /\ Len(n) = Len(t) + 3 /\ Len(t) \in Nat
  BY <1>1
<1>3. \A i \in 1 .. 3 : n[i] = <<a, b, c>>[i]
  BY <1>1
<1>4. \A i \in 4 .. Len(t) + 3 : n[i] = t[i - 3]
  BY <1>1
<1> QED BY <1>2, <1>3, <1>4

\* What a compaction leaves: the first message, the summary and its acknowledgment, and
\* the last KeepRecentPairs pairs as they were.
LEMMA CompactedContents ==
    ASSUME NEW m, WellFormed(m), Pairs(m) > KeepRecentPairs, NEW n, n = compactMessages(m)
    PROVE  /\ n \in Seq(Messages) /\ Len(n) = 2 * KeepRecentPairs + 3
           /\ n[1] = Prompt /\ n[2] = Message("assistant", "summary", Summarized(m), {})
           /\ n[3] = Acknowledgment
           /\ \A i \in 4 .. 2 * KeepRecentPairs + 3 :
                /\ 2 * (Pairs(m) - KeepRecentPairs - 1) + i \in 1 .. Len(m)
                /\ n[i] = m[2 * (Pairs(m) - KeepRecentPairs - 1) + i]
<1> DEFINE K == 2 * KeepRecentPairs
           sum == Message("assistant", "summary", Summarized(m), {})
           d == Pairs(m) - KeepRecentPairs - 1
           off == 2 * d
           tail == SubSeq(m, Len(m) - K + 1, Len(m))
<1>1. m \in Seq(Messages) /\ Len(m) \in Nat /\ Len(m) % 2 = 1 /\ Pairs(m) \in Nat
      /\ Len(m) = 2 * Pairs(m) + 1
  BY PairsOfOdd DEF WellFormed
<1>2. /\ K \in Nat /\ K >= 2 /\ d \in Nat /\ Len(m) = K + 3 + off
      /\ Len(m) - K + 1 \in 1 .. Len(m) /\ off \in Nat
  <2>1. KeepRecentPairs \in Nat /\ KeepRecentPairs >= 1 /\ d \in Nat
    BY <1>1
  <2>2. Len(m) = 2 * KeepRecentPairs + 3 + 2 * d
    BY <1>1
  <2> HIDE DEF d
  <2>3. K \in Nat /\ K >= 2 /\ off \in Nat /\ Len(m) = K + 3 + off
    BY <2>1, <2>2
  <2> HIDE DEF K, off
  <2>4. Len(m) - K + 1 \in 1 .. Len(m)
    BY <2>3
  <2> QED BY <2>1, <2>3, <2>4
<1>3. n = <<m[1], sum, Acknowledgment>> \o tail
  <2>1. AtMost(KeepRecentPairs, Pairs(m)) = KeepRecentPairs
    BY <1>1 DEF AtMost
  <2> QED BY <2>1 DEF compactMessages
<1>4. /\ sum \in Messages /\ sum.role = "assistant" /\ sum.kind = "summary"
      /\ Acknowledgment \in Messages /\ Acknowledgment.role = "user" /\ Acknowledgment.kind = "ack"
  BY <1>1, SummaryAbout DEF Message, Messages, Acknowledgment
<1> HIDE DEF sum
<1>5. /\ tail \in Seq(Messages) /\ Len(tail) = K
      /\ \A j \in 1 .. K : tail[j] = m[off + 3 + j]
  <2> HIDE DEF K, off
  <2>1. m \in Seq(Messages) /\ Len(m) \in Nat
    BY <1>1
  <2> DEFINE a == Len(m) - K + 1
  <2>2. a \in 1 .. Len(m) /\ Len(m) - a + 1 = K
    BY <1>2, <2>1
  <2>3. \A j \in 1 .. K : a + j - 1 = off + 3 + j /\ a + j - 1 \in 1 .. Len(m)
    BY <1>2, <2>1
  <2> HIDE DEF a
  <2>4. /\ SubSeq(m, a, Len(m)) \in Seq(Messages) /\ Len(SubSeq(m, a, Len(m))) = K
        /\ \A j \in 1 .. K : SubSeq(m, a, Len(m))[j] = m[a + j - 1]
    BY <2>1, <2>2
  <2>5. tail = SubSeq(m, a, Len(m))
    BY DEF a
  <2> QED BY <2>3, <2>4, <2>5
<1>6. m[1] \in Messages /\ m[1] = Prompt
  <2>1. m[1] = Prompt
    BY DEF WellFormed
  <2> QED BY <2>1 DEF Prompt, Message, Messages
<1> HIDE DEF tail, K, off, d
<1>7. /\ n \in Seq(Messages) /\ Len(n) = K + 3
      /\ n[1] = Prompt /\ n[2] = sum /\ n[3] = Acknowledgment
      /\ \A i \in 4 .. K + 3 : n[i] = tail[i - 3]
  <2>1. /\ n \in Seq(Messages) /\ Len(n) = Len(tail) + 3
        /\ n[1] = m[1] /\ n[2] = sum /\ n[3] = Acknowledgment
        /\ \A i \in 4 .. Len(tail) + 3 : n[i] = tail[i - 3]
    BY <1>3, <1>4, <1>5, <1>6, ThreeInFront
  <2> QED BY <2>1, <1>2, <1>5, <1>6
<1>8. \A i \in 4 .. K + 3 : n[i] = m[off + i] /\ off + i \in 1 .. Len(m)
  <2> TAKE i \in 4 .. K + 3
  <2>1. i - 3 \in 1 .. K /\ off + 3 + (i - 3) = off + i /\ off + i \in 1 .. Len(m) /\ i \in Nat
    BY <1>2
  <2> QED
    BY <1>5, <1>7, <2>1
<1> QED
  BY <1>7, <1>8 DEF K, off, d, sum

\* A compaction keeps the conversation well formed, and KeepRecentPairs + 1 pairs of it.
LEMMA CompactionKeeps ==
    ASSUME NEW m, WellFormed(m), Pairs(m) > KeepRecentPairs, NEW n, n = compactMessages(m)
    PROVE  WellFormed(n) /\ Pairs(n) = KeepRecentPairs + 1
<1> DEFINE K == 2 * KeepRecentPairs
           sum == Message("assistant", "summary", Summarized(m), {})
           d == Pairs(m) - KeepRecentPairs - 1
           off == 2 * d
<1>1. Pairs(m) \in Nat
  BY PairsOfOdd DEF WellFormed
<1>2. K \in Nat /\ K >= 2 /\ d \in Nat /\ off \in Nat
  BY <1>1
<1>3. /\ sum.role = "assistant" /\ sum.kind = "summary"
      /\ Acknowledgment.role = "user" /\ Acknowledgment.kind = "ack"
  BY DEF Message, Acknowledgment
<1>4. /\ n \in Seq(Messages) /\ Len(n) = K + 3
      /\ n[1] = Prompt /\ n[2] = sum /\ n[3] = Acknowledgment
      /\ \A i \in 4 .. K + 3 : n[i] = m[off + i] /\ off + i \in 1 .. Len(m)
  BY CompactedContents
<1> HIDE DEF sum, K, off, d
<1>5. \A i \in 4 .. K + 3 : n[i] = m[off + i] /\ off + i \in 1 .. Len(m)
                            /\ (off + i) % 2 = i % 2
  <2> TAKE i \in 4 .. K + 3
  <2>1. (off + i) % 2 = i % 2
    BY <1>2, Parity DEF off
  <2> QED
    BY <1>4, <2>1
<1>6. Len(n) % 2 = 1
  <2>1. Len(n) = 2 * KeepRecentPairs + 3
    BY <1>4 DEF K
  <2>2. (2 * KeepRecentPairs + 3) % 2 = 3 % 2
    BY Parity
  <2> QED BY <2>1, <2>2
<1>7. ASSUME NEW i \in 1 .. Len(n)
       PROVE  /\ n[i].role = IF i % 2 = 1 THEN "user" ELSE "assistant"
              /\ n[i].kind = "reply" =>
                   n[i].role = "assistant" /\ n[i + 1] = Message("user", "results", n[i].about, n[i].calls)
              /\ n[i].kind = "results" =>
                   n[i].role = "user" /\ n[i - 1].kind = "reply" /\ n[i - 1].about = n[i].about
  <2>1. CASE i = 1
    BY <2>1, <1>4 DEF Prompt, Message
  <2>2. CASE i = 2
    BY <2>2, <1>3, <1>4
  <2>3. CASE i = 3
    BY <2>3, <1>3, <1>4
  <2>4. CASE i \in 4 .. K + 3
    <3>1. n[i] = m[off + i] /\ off + i \in 1 .. Len(m) /\ (off + i) % 2 = i % 2
      BY <2>4, <1>5
    <3>2. n[i].role = IF i % 2 = 1 THEN "user" ELSE "assistant"
      BY <3>1 DEF WellFormed
    <3>3. ASSUME n[i].kind = "reply"
          PROVE  n[i].role = "assistant" /\ n[i + 1] = Message("user", "results", n[i].about, n[i].calls)
      <4>1. m[off + i].role = "assistant"
            /\ m[(off + i) + 1] = Message("user", "results", m[off + i].about, m[off + i].calls)
        BY <3>1, <3>3 DEF WellFormed
      <4>2. i # K + 3
        <5>1. (K + 3) % 2 = 1
          BY <1>4, <1>6
        <5> QED BY <5>1, <4>1, <3>1, <3>2
      <4>3. i + 1 \in 4 .. K + 3
        BY <4>2, <2>4, <1>2
      <4>4. n[i + 1] = m[off + (i + 1)] /\ off + (i + 1) = (off + i) + 1
        BY <4>3, <1>2, <1>5
      <4> QED BY <4>1, <4>4, <3>1
    <3>4. ASSUME n[i].kind = "results"
          PROVE  n[i].role = "user" /\ n[i - 1].kind = "reply" /\ n[i - 1].about = n[i].about
      <4>1. m[off + i].role = "user" /\ m[(off + i) - 1].kind = "reply"
            /\ m[(off + i) - 1].about = m[off + i].about
        BY <3>1, <3>4 DEF WellFormed
      <4>2. i # 4
        BY <4>1, <3>1, <3>2
      <4>3. i - 1 \in 4 .. K + 3
        BY <4>2, <2>4, <1>2
      <4>4. n[i - 1] = m[off + (i - 1)] /\ off + (i - 1) = (off + i) - 1
        BY <4>3, <1>2, <1>5
      <4> QED BY <4>1, <4>4, <3>1
    <3> QED BY <3>2, <3>3, <3>4
  <2> QED BY <2>1, <2>2, <2>3, <2>4, <1>2, <1>4
<1>8. WellFormed(n)
  BY <1>4, <1>6, <1>7 DEF WellFormed
<1>9. Pairs(n) = KeepRecentPairs + 1
  BY <1>4 DEF Pairs, K
<1> QED BY <1>8, <1>9

-----------------------------------------------------------------------------
(* The run *)

\* A turn in the log, and what it adds to the conversation.
LEMMA TurnLogged ==
    ASSUME LoopInv, pc = "asking", NEW reply \in Replies, LogTurn(reply)
    PROVE  /\ turns' \in Seq(LoggedTurns) /\ Len(turns') = Len(turns) + 1
           /\ Len(turns') <= MaxIterations /\ Turn \in 1 .. MaxIterations
           /\ reply.calls \in SUBSET (Tools \cup {ESCALATE})
           /\ Said(reply) \in Seq(Messages)
<1>1. turns \in Seq(LoggedTurns) /\ messages \in Seq(Messages) /\ Len(turns) < MaxIterations
  BY DEF LoopInv, AgentTypeOK
<1>2. Turn \in 1 .. MaxIterations
  BY <1>1 DEF Turn
<1>3. /\ reply.calls \in SUBSET (Tools \cup {ESCALATE})
      /\ reply.stop_reason \in {"tool_use", "end_turn", "max_tokens"}
  BY DEF Replies
<1>4. [stop_reason |-> reply.stop_reason, calls |-> reply.calls, compaction |-> 0] \in LoggedTurns
  BY <1>3 DEF LoggedTurns
<1>5. Message("assistant", "reply", {Turn}, reply.calls) \in Messages
  BY <1>2, <1>3 DEF Message, Messages
<1>6. turns' \in Seq(LoggedTurns) /\ Len(turns') = Len(turns) + 1
  BY <1>1, <1>4 DEF LogTurn
<1>7. Said(reply) \in Seq(Messages)
  BY <1>1, <1>5 DEF Said
<1> QED BY <1>1, <1>2, <1>3, <1>6, <1>7

LEMMA InitLoop == Init => LoopInv
<1> SUFFICES ASSUME Init PROVE LoopInv
  OBVIOUS
<1>1. Prompt \in Messages /\ Prompt.role = "user" /\ Prompt.kind = "prompt"
  BY DEF Prompt, Message, Messages
<1>2. messages = <<Prompt>> /\ messages \in Seq(Messages) /\ Len(messages) = 1
  BY <1>1 DEF Init
<1>3. WellFormed(messages)
  BY <1>1, <1>2 DEF WellFormed
<1>4. Pairs(messages) = 0
  BY <1>2 DEF Pairs
<1>5. turns = <<>> /\ turns \in Seq(LoggedTurns) /\ Len(turns) = 0
  BY DEF Init
<1>6. AgentTypeOK
  BY <1>2, <1>5 DEF Init, AgentTypeOK
<1> QED BY <1>3, <1>4, <1>5, <1>6 DEF Init, LoopInv, Waiting

\* A turn that ends the run.
LEMMA EndsKeepLoop ==
    ASSUME LoopInv, pc = "asking", NEW reply \in Replies, Finishes(reply) \/ Escalates(reply)
    PROVE  LoopInv'
<1>1. /\ LogTurn(reply) /\ messages' = Said(reply) /\ pc' \in {"done", "failed"}
      /\ answer' \in {"final", "escalated", answer}
      /\ UNCHANGED <<turnsSinceLastCompaction, performed>>
  BY DEF Finishes, Escalates, End, Throws
<1>2. /\ turns' \in Seq(LoggedTurns) /\ Len(turns') = Len(turns) + 1
      /\ Len(turns') <= MaxIterations /\ Said(reply) \in Seq(Messages)
  BY <1>1, TurnLogged
<1>3. /\ turns \in Seq(LoggedTurns) /\ turnsSinceLastCompaction \in 0 .. MaxIterations
      /\ turnsSinceLastCompaction <= Len(turns) /\ performed \in Seq(1 .. MaxIterations)
      /\ answer \in {"none", "final", "escalated", "capped"}
  BY DEF LoopInv, AgentTypeOK
<1>4. AgentTypeOK'
  BY <1>1, <1>2, <1>3 DEF AgentTypeOK
<1>5. Len(turns) \in Nat /\ (turnsSinceLastCompaction <= Len(turns))'
  BY <1>1, <1>2, <1>3
<1> QED BY <1>1, <1>4, <1>5 DEF LoopInv, Waiting

\* A turn that runs tools: one more pair, one more turn since the last compaction, and a
\* next request only if no compaction is due and the cap is not reached.
LEMMA ActsKeepsLoop ==
    ASSUME LoopInv, pc = "asking", NEW reply \in Replies, NEW large \in BOOLEAN,
           Acts(reply, large)
    PROVE  LoopInv'
<1> DEFINE heard == Append(Said(reply), Message("user", "results", {Turn}, reply.calls))
           since == turnsSinceLastCompaction + 1
<1>1. /\ LogTurn(reply) /\ messages' = heard /\ performed' = Append(performed, Turn)
      /\ turnsSinceLastCompaction' = since
      /\ \/ /\ CompactionDue(Turn, heard, since, large)
            /\ pc' = "summarizing" /\ UNCHANGED answer
         \/ ~ CompactionDue(Turn, heard, since, large) /\ GoOn(Turn)
  BY DEF Acts
<1>2. /\ turns' \in Seq(LoggedTurns) /\ Len(turns') = Len(turns) + 1
      /\ Len(turns') <= MaxIterations /\ Turn \in 1 .. MaxIterations
      /\ reply.calls \in SUBSET (Tools \cup {ESCALATE})
  BY <1>1, TurnLogged
<1>3. /\ turns \in Seq(LoggedTurns) /\ turnsSinceLastCompaction \in 0 .. MaxIterations
      /\ turnsSinceLastCompaction <= Len(turns) /\ performed \in Seq(1 .. MaxIterations)
      /\ answer \in {"none", "final", "escalated", "capped"}
      /\ WellFormed(messages) /\ Pairs(messages) <= Len(turns)
      /\ \/ Pairs(messages) = turnsSinceLastCompaction
         \/ Pairs(messages) = 1 + KeepRecentPairs + turnsSinceLastCompaction
  BY DEF LoopInv, AgentTypeOK, Waiting
<1>4. WellFormed(heard) /\ Pairs(heard) = Pairs(messages) + 1
  BY <1>2, <1>3, TurnExtends DEF Said
<1> HIDE DEF heard
<1>5. heard \in Seq(Messages)
  BY <1>4 DEF WellFormed
<1>6. performed' \in Seq(1 .. MaxIterations)
  BY <1>1, <1>2, <1>3
<1>7. /\ pc' \in {"asking", "summarizing", "done"}
      /\ answer' \in {"none", "final", "escalated", "capped"}
  BY <1>1, <1>3 DEF GoOn, End
<1>8. /\ Len(turns) \in Nat /\ since \in 0 .. MaxIterations /\ since <= Len(turns')
      /\ Turn = Len(turns')
  BY <1>2, <1>3 DEF Turn
<1>9. AgentTypeOK'
  BY <1>1, <1>2, <1>5, <1>6, <1>7, <1>8 DEF AgentTypeOK
<1>10. Pairs(messages') = Pairs(heard)
  BY <1>1 DEF Pairs
<1>11. /\ Pairs(messages') <= Len(turns')
       /\ \/ Pairs(messages') = since
          \/ Pairs(messages') = 1 + KeepRecentPairs + since
  <2>1. Pairs(messages) \in Nat
    BY <1>3, PairsOfOdd DEF WellFormed
  <2> QED BY <2>1, <1>2, <1>3, <1>4, <1>8, <1>10
<1>12. WellFormed(messages')
  BY <1>1, <1>4
<1>13. pc' = "summarizing" => Pairs(messages') > KeepRecentPairs /\ Len(turns') > 0
  <2>1. SUFFICES ASSUME pc' = "summarizing" PROVE Pairs(heard) > KeepRecentPairs
    BY <1>2, <1>8, <1>10
  <2>2. CompactionDue(Turn, heard, since, large)
    BY <1>1, <2>1 DEF GoOn, End
  <2>3. Pairs(heard) \in Nat
    BY <1>4, PairsOfOdd DEF WellFormed
  <2> QED BY <2>2, <2>3 DEF CompactionDue
<1>14. ASSUME pc' = "asking"
       PROVE  /\ Len(turns') < MaxIterations
              /\ CompactionEnabled => \/ Len(turns') < TurnThreshold
                                      \/ since < KeepRecentPairs
                                      \/ Pairs(messages') <= KeepRecentPairs
  <2>1. ~ CompactionDue(Turn, heard, since, large) /\ Turn # MaxIterations
    BY <1>1, <1>14 DEF GoOn, End
  <2>2. Pairs(heard) \in Nat
    BY <1>4, PairsOfOdd DEF WellFormed
  <2>3. CompactionEnabled => \/ Turn < TurnThreshold
                             \/ since < KeepRecentPairs
                             \/ Pairs(heard) <= KeepRecentPairs
    BY <2>1, <2>2, <1>2, <1>8 DEF CompactionDue
  <2> QED BY <2>1, <2>3, <1>2, <1>8, <1>10
<1> QED
  BY <1>1, <1>8, <1>9, <1>11, <1>12, <1>13, <1>14 DEF LoopInv, Waiting

\* The summary replaces the older history by one pair.
LEMMA SummaryKeepsLoop == LoopInv /\ SummaryArrives => LoopInv'
<1> SUFFICES ASSUME LoopInv, SummaryArrives PROVE LoopInv'
  OBVIOUS
<1>1. /\ pc = "summarizing" /\ messages' = compactMessages(messages)
      /\ turns' = [turns EXCEPT ![Len(turns)].compaction = Pairs(messages) - KeepRecentPairs]
      /\ turnsSinceLastCompaction' = 0 /\ GoOn(Len(turns)) /\ performed' = performed
  BY DEF SummaryArrives
<1>2. /\ turns \in Seq(LoggedTurns) /\ Len(turns) \in Nat /\ Len(turns) > 0
      /\ Len(turns) <= MaxIterations
      /\ performed \in Seq(1 .. MaxIterations)
      /\ answer \in {"none", "final", "escalated", "capped"}
      /\ WellFormed(messages) /\ Pairs(messages) <= Len(turns)
      /\ Pairs(messages) > KeepRecentPairs
  BY <1>1 DEF LoopInv, AgentTypeOK, Waiting
<1>3. WellFormed(messages') /\ Pairs(messages') = KeepRecentPairs + 1
  BY <1>1, <1>2, CompactionKeeps
<1>4. Pairs(messages) \in Nat
  BY <1>2, PairsOfOdd DEF WellFormed
<1>5. turns' \in Seq(LoggedTurns) /\ Len(turns') = Len(turns)
  <2> DEFINE last == Len(turns)
             t == [turns[last] EXCEPT !.compaction = Pairs(messages) - KeepRecentPairs]
  <2>1. turns[last] \in LoggedTurns
    BY <1>2
  <2>2. Pairs(messages) - KeepRecentPairs \in Nat
    BY <1>2, <1>4
  <2>3. t \in LoggedTurns
    BY <2>1, <2>2 DEF LoggedTurns
  <2>4. turns' = [turns EXCEPT ![last] = t]
    BY <1>1
  <2> HIDE DEF t
  <2> QED BY <1>2, <2>3, <2>4
<1>6. messages' \in Seq(Messages)
  BY <1>3 DEF WellFormed
<1>7. /\ pc' \in {"asking", "done"} /\ (pc' = "asking" => Len(turns) # MaxIterations)
      /\ answer' \in {"none", "final", "escalated", "capped"}
  BY <1>1, <1>2 DEF GoOn, End
<1>8. AgentTypeOK'
  BY <1>1, <1>2, <1>5, <1>6, <1>7 DEF AgentTypeOK
<1>9. Pairs(messages') <= Len(turns')
  BY <1>2, <1>3, <1>4, <1>5
<1> QED BY <1>1, <1>2, <1>3, <1>5, <1>7, <1>8, <1>9 DEF LoopInv, Waiting

LEMMA StepLoop == LoopInv /\ [Next]_vars => LoopInv'
<1> SUFFICES ASSUME LoopInv, [Next]_vars PROVE LoopInv'
  OBVIOUS
<1>1. CASE ModelReplies
  BY <1>1, EndsKeepLoop, ActsKeepsLoop DEF ModelReplies
<1>2. CASE SummaryArrives
  BY <1>2, SummaryKeepsLoop
<1>3. CASE CallFails
  BY <1>3 DEF CallFails, Throws, LoopInv, AgentTypeOK, Waiting
<1>4. CASE UNCHANGED vars
  BY <1>4 DEF vars, LoopInv, AgentTypeOK, Waiting
<1> QED BY <1>1, <1>2, <1>3, <1>4 DEF Next

\* The invariant of a run, at every await of it.
THEOREM LoopInvariant == Spec => []LoopInv
BY InitLoop, StepLoop, PTL DEF Spec

\* Types, and the iteration cap: no run asks the model more than MAX_ITERATIONS times.
THEOREM LoopTyped == Spec => []AgentTypeOK
<1>1. LoopInv => AgentTypeOK
  BY DEF LoopInv
<1> QED BY <1>1, LoopInvariant, PTL

\* Every request is one the Messages API accepts: whatever was compacted, roles alternate
\* and every tool call is answered in the next message.
THEOREM RequestsAreWellFormed == Spec => []RequestIsWellFormed
<1>1. LoopInv => RequestIsWellFormed
  BY DEF LoopInv, RequestIsWellFormed, Waiting, WellFormed
<1> QED BY <1>1, LoopInvariant, PTL

\* With compaction on, no request is longer than the threshold or twice the kept pairs.
THEOREM HistoriesAreBounded == Spec => []HistoryIsBounded
<1>1. ASSUME LoopInv, CompactionEnabled, pc = "asking"
      PROVE  Pairs(messages) <= AtLeast(TurnThreshold - 1, 2 * KeepRecentPairs)
  <2>1. /\ Len(turns) \in Nat /\ turnsSinceLastCompaction \in 0 .. MaxIterations
        /\ WellFormed(messages) /\ Pairs(messages) <= Len(turns)
        /\ \/ Pairs(messages) = turnsSinceLastCompaction
           \/ Pairs(messages) = 1 + KeepRecentPairs + turnsSinceLastCompaction
        /\ \/ Len(turns) < TurnThreshold
           \/ turnsSinceLastCompaction < KeepRecentPairs
           \/ Pairs(messages) <= KeepRecentPairs
    BY <1>1 DEF LoopInv, AgentTypeOK, Waiting
  <2>2. Pairs(messages) \in Nat
    BY <2>1, PairsOfOdd DEF WellFormed
  <2> QED BY <2>1, <2>2 DEF AtLeast
<1>2. LoopInv => HistoryIsBounded
  BY <1>1 DEF HistoryIsBounded
<1> QED BY <1>2, LoopInvariant, PTL

-----------------------------------------------------------------------------
(* The log, the tools that ran and the answer *)

\* The turns that acted are the first ones, all of them or all but the last, and the tools
\* that ran are theirs; a run that waits has only acting turns behind it.
LogInv ==
    /\ Len(performed) <= Len(turns)
    /\ \A k \in 1 .. Len(performed) : performed[k] = k /\ Acting(turns[k])
    /\ Len(turns) # Len(performed) =>
         /\ Len(turns) = Len(performed) + 1
         /\ ~ Acting(turns[Len(turns)])
         /\ ~ Waiting
    /\ pc = "done" =>
         /\ Len(turns) > 0
         /\ (answer = "escalated") <=> Escalating(turns[Len(turns)])
         /\ (answer = "capped") <=> Acting(turns[Len(turns)])
         /\ answer = "capped" => Len(turns) = MaxIterations
    /\ Waiting => answer = "none"

LEMMA InitLog == Init => LogInv
BY DEF Init, LogInv, Waiting

LEMMA StepLog ==
    ASSUME LoopInv, LogInv, [Next]_vars
    PROVE  LogInv'
<1>1. /\ turns \in Seq(LoggedTurns) /\ performed \in Seq(1 .. MaxIterations)
      /\ Len(turns) \in Nat /\ Len(performed) \in Nat
  BY DEF LoopInv, AgentTypeOK
<1>2. Waiting => Len(turns) = Len(performed)
  BY DEF LogInv
<1>3. ASSUME NEW reply \in Replies, pc = "asking", LogTurn(reply)
      PROVE  /\ Len(turns') = Len(turns) + 1
             /\ \A k \in 1 .. Len(turns) : turns'[k] = turns[k]
             /\ Acting(turns'[Len(turns')]) <=> Acting(reply)
             /\ Escalating(turns'[Len(turns')]) <=> Escalating(reply)
  <2> DEFINE t == [stop_reason |-> reply.stop_reason, calls |-> reply.calls, compaction |-> 0]
  <2>1. turns' = Append(turns, t)
    BY <1>3 DEF LogTurn
  <2>2. (Acting(t) <=> Acting(reply)) /\ (Escalating(t) <=> Escalating(reply))
    BY DEF Acting, Escalating
  <2> HIDE DEF t
  <2>3. /\ Len(turns') = Len(turns) + 1 /\ turns'[Len(turns) + 1] = t
        /\ \A k \in 1 .. Len(turns) : turns'[k] = turns[k]
    BY <1>1, <2>1
  <2> QED BY <2>2, <2>3
<1>4. ASSUME NEW reply \in Replies, pc = "asking", Finishes(reply) \/ Escalates(reply)
      PROVE  LogInv'
  <2>1. /\ LogTurn(reply) /\ performed' = performed /\ pc' \in {"done", "failed"}
        /\ ~ Acting(reply)
        /\ pc' = "done" => /\ (answer' = "escalated") <=> Escalating(reply)
                           /\ answer' # "capped"
    BY <1>4 DEF Finishes, Escalates, End, Throws, Acting, Escalating
  <2>2. Len(turns) = Len(performed)
    BY <1>2, <1>4 DEF Waiting
  <2> QED BY <1>1, <1>3, <1>4, <2>1, <2>2 DEF LogInv, Waiting
<1>5. ASSUME NEW reply \in Replies, NEW large, pc = "asking", Acts(reply, large)
      PROVE  LogInv'
  <2>1. /\ LogTurn(reply) /\ performed' = Append(performed, Turn) /\ Acting(reply)
        /\ ~ Escalating(reply)
        /\ \/ pc' \in {"asking", "summarizing"} /\ answer' = answer
           \/ pc' = "done" /\ answer' = "capped" /\ Turn = MaxIterations
    BY <1>5 DEF Acts, GoOn, End, Acting, Escalating
  <2>2. Len(turns) = Len(performed) /\ answer = "none"
    BY <1>2, <1>5 DEF Waiting, LogInv
  <2>3. Turn = Len(turns) + 1 /\ Turn \in 1 .. MaxIterations
    BY <1>5, <2>1, TurnLogged DEF Turn
  <2>4. /\ Len(performed') = Len(turns) + 1 /\ performed'[Len(turns) + 1] = Len(turns) + 1
        /\ \A k \in 1 .. Len(turns) : performed'[k] = performed[k]
    BY <1>1, <2>1, <2>2, <2>3
  <2>5. /\ Len(turns') = Len(turns) + 1 /\ Acting(turns'[Len(turns) + 1])
        /\ ~ Escalating(turns'[Len(turns) + 1])
        /\ \A k \in 1 .. Len(turns) : turns'[k] = turns[k]
    BY <1>3, <1>5, <2>1
  <2>6. \A k \in 1 .. Len(performed') : performed'[k] = k /\ Acting(turns'[k])
    <3>1. \A k \in 1 .. Len(turns) : performed[k] = k /\ Acting(turns[k])
      BY <2>2 DEF LogInv
    <3>2. \A k \in 1 .. Len(turns) : Acting(turns'[k])
      BY <2>5, <3>1
    <3>3. \A k \in 1 .. Len(turns) + 1 : k \in 1 .. Len(turns) \/ k = Len(turns) + 1
      BY <1>1
    <3> QED BY <2>4, <2>5, <3>1, <3>2, <3>3
  <2> QED BY <1>1, <2>1, <2>2, <2>3, <2>4, <2>5, <2>6 DEF LogInv, Waiting
<1>6. CASE SummaryArrives
  <2>1. /\ turns' = [turns EXCEPT ![Len(turns)].compaction = Pairs(messages) - KeepRecentPairs]
        /\ GoOn(Len(turns)) /\ performed' = performed /\ pc = "summarizing"
    BY <1>6 DEF SummaryArrives
  <2>2. Len(turns) = Len(performed) /\ Len(turns) > 0 /\ answer = "none"
    BY <1>2, <2>1 DEF LogInv, LoopInv, Waiting
  <2>3. ASSUME NEW k \in 1 .. Len(turns)
        PROVE  /\ Acting(turns'[k]) <=> Acting(turns[k])
               /\ Escalating(turns'[k]) <=> Escalating(turns[k])
    <3>1. turns[k] \in LoggedTurns
      BY <1>1
    <3>2. /\ turns'[k].stop_reason = turns[k].stop_reason
          /\ turns'[k].calls = turns[k].calls
      BY <1>1, <2>1, <3>1 DEF LoggedTurns
    <3> QED BY <3>2 DEF Acting, Escalating
  <2>4. Len(turns') = Len(turns)
    BY <1>1, <2>1
  <2>5. \A k \in 1 .. Len(turns) : performed[k] = k /\ Acting(turns[k]) /\ ~ Escalating(turns[k])
    BY <2>2 DEF LogInv, Acting, Escalating
  <2>6. \/ pc' = "asking" /\ answer' = answer
        \/ pc' = "done" /\ answer' = "capped" /\ Len(turns) = MaxIterations
    BY <2>1 DEF GoOn, End
  <2>7. \A k \in 1 .. Len(turns) : Acting(turns'[k]) /\ ~ Escalating(turns'[k])
    BY <2>3, <2>5
  <2>8. /\ Len(performed') = Len(turns')
        /\ \A k \in 1 .. Len(performed') : performed'[k] = k /\ Acting(turns'[k])
    BY <2>1, <2>2, <2>4, <2>5, <2>7
  <2>9. Len(turns') > 0 /\ Acting(turns'[Len(turns')]) /\ ~ Escalating(turns'[Len(turns')])
    BY <1>1, <2>2, <2>4, <2>7
  <2> QED BY <1>1, <2>2, <2>4, <2>6, <2>8, <2>9 DEF LogInv, Waiting
<1>7. CASE CallFails
  BY <1>7 DEF CallFails, Throws, LogInv, Waiting
<1>8. CASE UNCHANGED vars
  BY <1>8 DEF vars, LogInv, Waiting
<1> QED BY <1>4, <1>5, <1>6, <1>7, <1>8 DEF Next, ModelReplies

\* Only tools of turns that did not escalate ran, each turn's once and in order, and what
\* the caller is told follows from the last turn of the log.
THEOREM AnswersFollowFromLog == Spec => []AnswerFollowsFromLog
<1>1. LoopInv /\ LogInv => AnswerFollowsFromLog
  <2> SUFFICES ASSUME LoopInv, LogInv PROVE AnswerFollowsFromLog
    OBVIOUS
  <2> DEFINE T == Len(turns)
             P == Len(performed)
  <2>1. T \in Nat /\ P \in Nat /\ DOMAIN turns = 1 .. T /\ DOMAIN performed = 1 .. P
    BY DEF LoopInv, AgentTypeOK
  <2>2. /\ P <= T
        /\ \A k \in 1 .. P : performed[k] = k
        /\ \A k \in 1 .. P : Acting(turns[k])
        /\ T # P => T = P + 1 /\ ~ Acting(turns[T])
    BY DEF LogInv
  <2> HIDE DEF T, P
  <2>3. ASSUME NEW n \in 1 .. T, n \notin 1 .. P PROVE n = T /\ ~ Acting(turns[n])
    <3>1. T \in Nat /\ P \in Nat /\ P <= T /\ (T # P => T = P + 1)
      BY <2>1, <2>2
    <3>2. n = T /\ T # P
      BY <2>3, <3>1
    <3> QED BY <2>2, <3>2
  <2>4. {performed[k] : k \in DOMAIN performed} = {n \in DOMAIN turns : Acting(turns[n])}
    <3>1. {performed[k] : k \in 1 .. P} = 1 .. P
      BY <2>2
    <3>2. 1 .. P \subseteq 1 .. T
      BY <2>1, <2>2
    <3>3. {n \in 1 .. T : Acting(turns[n])} = 1 .. P
      BY <2>2, <2>3, <3>2
    <3> QED BY <2>1, <3>1, <3>3
  <2>5. \A j, k \in DOMAIN performed : j < k => performed[j] < performed[k]
    <3>1. \A j, k \in 1 .. P : j < k => performed[j] < performed[k]
      BY <2>2
    <3> QED BY <2>1, <3>1
  <2>6. \A n \in DOMAIN turns : n < T => Acting(turns[n])
    <3>1. \A n \in 1 .. T : n < T => n \in 1 .. P
      BY <2>1, <2>3
    <3> QED BY <2>1, <2>2, <3>1
  <2> QED BY <2>4, <2>5, <2>6 DEF LogInv, AnswerFollowsFromLog, T
<1> QED BY <1>1, InitLog, StepLog, LoopInvariant, PTL DEF Spec

-----------------------------------------------------------------------------
(* The cooldown *)

\* While the run waits, the turns since the last compaction are at most those counted.
CooldownInv ==
    /\ CompactionsKeepApart
    /\ Waiting => \A m \in 1 .. Len(turns) : turns[m].compaction > 0 =>
                    Len(turns) - m >= turnsSinceLastCompaction
    /\ pc = "summarizing" => /\ turnsSinceLastCompaction >= KeepRecentPairs
                             /\ turns[Len(turns)].compaction = 0

LEMMA InitCooldown == Init => CooldownInv
BY DEF Init, CooldownInv, CompactionsKeepApart, Waiting

\* A turn joins the log uncompacted.
LEMMA LogTurnCooldown ==
    ASSUME LoopInv, NEW reply, LogTurn(reply)
    PROVE  /\ Len(turns') = Len(turns) + 1 /\ turns'[Len(turns) + 1].compaction = 0
           /\ \A n \in 1 .. Len(turns) : turns'[n] = turns[n]
           /\ CompactionsKeepApart => CompactionsKeepApart'
<1> DEFINE t == [stop_reason |-> reply.stop_reason, calls |-> reply.calls, compaction |-> 0]
<1>1. turns' = Append(turns, t)
  BY DEF LogTurn
<1>2. turns \in Seq(LoggedTurns) /\ Len(turns) \in Nat
  BY DEF LoopInv, AgentTypeOK
<1>3. t.compaction = 0
  OBVIOUS
<1> HIDE DEF t
<1>4. /\ Len(turns') = Len(turns) + 1 /\ turns'[Len(turns) + 1] = t
      /\ DOMAIN turns = 1 .. Len(turns) /\ DOMAIN turns' = 1 .. Len(turns) + 1
      /\ \A n \in 1 .. Len(turns) : turns'[n] = turns[n]
  BY <1>1, <1>2
<1>5. \A n \in 1 .. Len(turns) + 1 : turns'[n].compaction > 0 => n \in 1 .. Len(turns)
  BY <1>2, <1>3, <1>4
<1>6. CompactionsKeepApart => CompactionsKeepApart'
  BY <1>4, <1>5 DEF CompactionsKeepApart
<1> QED BY <1>3, <1>4, <1>6

LEMMA StepCooldown ==
    ASSUME LoopInv, CooldownInv, [Next]_vars
    PROVE  CooldownInv'
<1>1. /\ turns \in Seq(LoggedTurns) /\ Len(turns) \in Nat
      /\ turnsSinceLastCompaction \in Nat
  BY DEF LoopInv, AgentTypeOK
<1>2. ASSUME NEW reply \in Replies, pc = "asking", Finishes(reply) \/ Escalates(reply)
      PROVE  CooldownInv'
  BY <1>2, LogTurnCooldown DEF Finishes, Escalates, End, Throws, CooldownInv, Waiting
<1>3. ASSUME NEW reply \in Replies, NEW large, pc = "asking", Acts(reply, large)
      PROVE  CooldownInv'
  <2> DEFINE heard == Append(Said(reply), Message("user", "results", {Turn}, reply.calls))
             since == turnsSinceLastCompaction + 1
  <2>1. /\ LogTurn(reply) /\ turnsSinceLastCompaction' = since
        /\ \/ pc' = "summarizing" /\ CompactionDue(Turn, heard, since, large)
           \/ pc' # "summarizing"
    BY <1>3 DEF Acts, GoOn, End
  <2>2. pc' = "summarizing" => since >= KeepRecentPairs
    BY <2>1 DEF CompactionDue
  <2> HIDE DEF heard
  <2>3. /\ Len(turns') = Len(turns) + 1 /\ turns'[Len(turns) + 1].compaction = 0
        /\ \A n \in 1 .. Len(turns) : turns'[n] = turns[n]
        /\ CompactionsKeepApart'
    BY <2>1, LogTurnCooldown DEF CooldownInv
  <2>4. ASSUME NEW m \in 1 .. Len(turns'), turns'[m].compaction > 0
        PROVE  Len(turns') - m >= since
    <3>1. m \in 1 .. Len(turns) /\ turns[m].compaction > 0
      BY <1>1, <2>3, <2>4
    <3>2. Len(turns) - m >= turnsSinceLastCompaction
      BY <1>3, <3>1 DEF CooldownInv, Waiting
    <3> QED BY <1>1, <2>3, <3>1, <3>2
  <2> QED BY <2>1, <2>2, <2>3, <2>4 DEF CooldownInv
<1>4. CASE SummaryArrives
  <2> DEFINE T == Len(turns)
  <2>1. /\ turns' = [turns EXCEPT ![T].compaction = Pairs(messages) - KeepRecentPairs]
        /\ turnsSinceLastCompaction' = 0 /\ pc = "summarizing" /\ pc' # "summarizing"
    BY <1>4 DEF SummaryArrives, GoOn, End
  <2>2. /\ Len(turns') = T /\ DOMAIN turns = 1 .. T /\ DOMAIN turns' = 1 .. T
        /\ \A n \in 1 .. T : n # T => turns'[n] = turns[n]
    BY <1>1, <2>1
  <2>3. \A m \in 1 .. T : m # T /\ turns'[m].compaction > 0 => T - m >= KeepRecentPairs
    BY <1>1, <2>1, <2>2 DEF CooldownInv, Waiting
  <2>4. ASSUME NEW m \in 1 .. T, NEW n \in 1 .. T, m < n, turns'[m].compaction > 0,
               turns'[n].compaction > 0
        PROVE  n - m >= KeepRecentPairs
    <3>1. CASE n = T
      <4>1. m # T
        BY <2>4, <3>1
      <4> QED BY <2>3, <2>4, <3>1, <4>1
    <3>2. CASE n # T
      <4>1. m # T /\ n \in 1 .. T /\ m \in 1 .. T /\ T \in Nat
        BY <1>1, <2>4, <3>2
      <4>2. turns[m].compaction > 0 /\ turns[n].compaction > 0
        BY <2>2, <2>4, <3>2, <4>1
      <4> QED BY <2>2, <2>4, <4>1, <4>2 DEF CooldownInv, CompactionsKeepApart
    <3> QED BY <3>1, <3>2
  <2>5. CompactionsKeepApart'
    BY <2>2, <2>4 DEF CompactionsKeepApart
  <2> QED BY <1>1, <2>1, <2>2, <2>5 DEF CooldownInv
<1>5. CASE CallFails
  BY <1>5 DEF CallFails, Throws, CooldownInv, CompactionsKeepApart, Waiting
<1>6. CASE UNCHANGED vars
  BY <1>6 DEF vars, CooldownInv, CompactionsKeepApart, Waiting
<1> QED BY <1>2, <1>3, <1>4, <1>5, <1>6 DEF Next, ModelReplies

\* Two compactions of a run are COMPACTION_KEEP_RECENT_TURNS turns apart, or more.
THEOREM CompactionsAreApart == Spec => []CompactionsKeepApart
<1>1. CooldownInv => CompactionsKeepApart
  BY DEF CooldownInv
<1> QED BY <1>1, InitCooldown, StepCooldown, LoopInvariant, PTL DEF Spec

-----------------------------------------------------------------------------
(* What the conversation remembers *)

\* The turn n of T, if it is among the raw ones the conversation m ends with, is the reply
\* at this place of m: the last reply is before the last results.
ReplyOf(m, T, n) == m[Len(m) - 1 - 2 * (T - n)]

\* Conversation m tells of turns 1 to T: the last raw ones as they were, at least
\* KeepRecentPairs of them, and any older one in the summary at its head.
Remembers(m, T, raw) ==
    /\ raw \in 0 .. T
    /\ raw >= KeepRecentPairs \/ raw = T
    /\ Pairs(m) = raw \/ Pairs(m) = raw + 1
    /\ raw < T => Pairs(m) = raw + 1
    /\ \A n \in T - raw + 1 .. T : ReplyOf(m, T, n).kind = "reply" /\ n \in ReplyOf(m, T, n).about
    /\ \A n \in 1 .. T - raw : n \in m[2].about

MemoryInv == Waiting => \E raw \in Nat : Remembers(messages, Len(turns), raw)

\* A new turn joins the raw ones.
LEMMA TurnRemembered ==
    ASSUME NEW m, WellFormed(m), NEW T \in Nat, NEW raw \in Nat, Remembers(m, T, raw),
           NEW calls \in SUBSET (Tools \cup {ESCALATE}), T + 1 \in 1 .. MaxIterations, NEW h,
           h = Append(Append(m, Message("assistant", "reply", {T + 1}, calls)),
                      Message("user", "results", {T + 1}, calls))
    PROVE  Remembers(h, T + 1, raw + 1)
<1> DEFINE r == Message("assistant", "reply", {T + 1}, calls)
           s == Message("user", "results", {T + 1}, calls)
           L == Len(m)
<1>1. /\ r \in Messages /\ r.kind = "reply" /\ r.about = {T + 1} /\ s \in Messages
  BY DEF Message, Messages
<1>2. m \in Seq(Messages) /\ L \in Nat /\ Pairs(m) \in Nat /\ L = 2 * Pairs(m) + 1
  BY PairsOfOdd DEF WellFormed
<1> HIDE DEF r, s
<1>3. /\ Len(h) = L + 2 /\ h[L + 1] = r
      /\ \A i \in 1 .. L : h[i] = m[i]
  BY <1>1, <1>2 DEF r, s
<1> HIDE DEF L
<1>4. Pairs(h) = Pairs(m) + 1
  BY <1>2, <1>3 DEF Pairs
<1>5. ASSUME NEW n \in (T + 1) - (raw + 1) + 1 .. T + 1
      PROVE  ReplyOf(h, T + 1, n).kind = "reply" /\ n \in ReplyOf(h, T + 1, n).about
  <2>1. CASE n = T + 1
    <3>1. ReplyOf(h, T + 1, n) = r
      BY <1>2, <1>3, <2>1 DEF ReplyOf
    <3> QED BY <1>1, <2>1, <3>1
  <2>2. CASE n # T + 1
    <3>1. n \in T - raw + 1 .. T
      BY <2>2
    <3>2. ReplyOf(m, T, n).kind = "reply" /\ n \in ReplyOf(m, T, n).about
      BY <3>1 DEF Remembers
    <3>3. raw <= Pairs(m)
      BY <1>2 DEF Remembers
    <3>4. Len(h) - 1 - 2 * (T + 1 - n) = L - 1 - 2 * (T - n) /\ L - 1 - 2 * (T - n) \in 1 .. L
      <4> DEFINE k == T - n
      <4>1. k \in Nat /\ k + 1 <= raw /\ T + 1 - n = k + 1 /\ T - n = k
        BY <3>1
      <4> HIDE DEF k
      <4>2. PICK P \in Nat : L = 2 * P + 1 /\ k + 1 <= P
        BY <1>2, <3>3, <4>1
      <4>3. L - 1 - 2 * k \in 1 .. L /\ (L + 2) - 1 - 2 * (k + 1) = L - 1 - 2 * k
        BY <4>1, <4>2
      <4> QED BY <1>3, <4>1, <4>3
    <3>5. ReplyOf(h, T + 1, n) = ReplyOf(m, T, n)
      BY <1>3, <3>4 DEF ReplyOf, L
    <3> QED BY <3>2, <3>5
  <2> QED BY <2>1, <2>2
<1>6. ASSUME NEW n \in 1 .. (T + 1) - (raw + 1) PROVE n \in h[2].about
  <2>1. n \in 1 .. T - raw /\ raw < T
    OBVIOUS
  <2>2. n \in m[2].about /\ Pairs(m) = raw + 1
    BY <2>1 DEF Remembers
  <2>3. 2 \in 1 .. L
    BY <1>2, <2>2
  <2> QED BY <1>3, <2>2, <2>3
<1>7. /\ raw + 1 \in 0 .. T + 1
      /\ raw + 1 >= KeepRecentPairs \/ raw + 1 = T + 1
      /\ Pairs(h) = raw + 1 \/ Pairs(h) = (raw + 1) + 1
      /\ raw + 1 < T + 1 => Pairs(h) = (raw + 1) + 1
  BY <1>2, <1>4 DEF Remembers
<1> QED BY <1>5, <1>6, <1>7 DEF Remembers

\* A compaction moves the older raw turns into the summary, and what was in a summary
\* before into the new one.
LEMMA CompactionRemembers ==
    ASSUME NEW m, WellFormed(m), Pairs(m) > KeepRecentPairs,
           NEW T \in Nat, NEW raw \in Nat, Remembers(m, T, raw),
           NEW c, c = compactMessages(m)
    PROVE  Remembers(c, T, KeepRecentPairs)
<1> DEFINE K == KeepRecentPairs
           P == Pairs(m)
           off == 2 * (P - K - 1)
<1>1. /\ P \in Nat /\ Len(m) = 2 * P + 1 /\ Len(m) \in Nat
      /\ K \in Nat /\ K >= 1 /\ P > K
  BY PairsOfOdd DEF WellFormed
<1>2. /\ raw \in 0 .. T /\ raw <= P /\ P <= raw + 1 /\ K <= raw
      /\ raw < T => P = raw + 1
  BY <1>1 DEF Remembers
<1>3. /\ Len(c) = 2 * K + 3 /\ c[2] = Message("assistant", "summary", Summarized(m), {})
      /\ \A i \in 4 .. 2 * K + 3 : c[i] = m[off + i]
  BY CompactedContents
<1>4. c[2].about = Summarized(m)
  BY <1>3 DEF Message
<1>5. ASSUME NEW i \in 2 .. Len(m) - 2 * K, NEW n \in m[i].about PROVE n \in c[2].about
  <2>1. AtLeast(1, Len(m) - 2 * KeepRecentPairs) = Len(m) - 2 * K
    BY <1>1 DEF AtLeast
  <2> QED BY <1>4, <1>5, <2>1 DEF Summarized
<1>6. Pairs(c) = K + 1
  BY CompactionKeeps
<1> HIDE DEF K, P
<1>7. ASSUME NEW n \in T - K + 1 .. T
      PROVE  ReplyOf(c, T, n).kind = "reply" /\ n \in ReplyOf(c, T, n).about
  <2>1. n \in T - raw + 1 .. T
    BY <1>1, <1>2
  <2> DEFINE i == Len(c) - 1 - 2 * (T - n)
  <2>2. i \in 4 .. 2 * K + 3 /\ off + i = Len(m) - 1 - 2 * (T - n)
    BY <1>1, <1>2, <1>3
  <2>3. ReplyOf(c, T, n) = ReplyOf(m, T, n)
    BY <1>3, <2>2 DEF ReplyOf
  <2> QED BY <2>1, <2>3 DEF Remembers
<1>8. ASSUME NEW n \in 1 .. T - K PROVE n \in c[2].about
  <2>1. CASE n <= T - raw
    <3>1. n \in 1 .. T - raw
      BY <1>1, <1>2, <2>1
    <3>2. n \in m[2].about
      BY <3>1 DEF Remembers
    <3>3. 2 \in 2 .. Len(m) - 2 * K
      BY <1>1
    <3> QED BY <1>5, <3>2, <3>3
  <2>2. CASE n > T - raw
    <3>1. n \in T - raw + 1 .. T
      BY <1>1, <1>2, <2>2
    <3>2. n \in ReplyOf(m, T, n).about
      BY <3>1 DEF Remembers
    <3> DEFINE i == Len(m) - 1 - 2 * (T - n)
    <3>3. i \in 2 .. Len(m) - 2 * K
      BY <1>1, <1>2, <2>2
    <3>4. n \in m[i].about
      BY <3>2 DEF ReplyOf
    <3> HIDE DEF i
    <3> QED BY <1>5, <3>3, <3>4
  <2> QED BY <1>1, <1>2, <2>1, <2>2
<1>9. K \in 0 .. T
  BY <1>1, <1>2
<1> QED BY <1>1, <1>6, <1>7, <1>8, <1>9 DEF Remembers, K

LEMMA InitMemory == Init => MemoryInv
<1> SUFFICES ASSUME Init PROVE MemoryInv
  OBVIOUS
<1>1. messages = <<Prompt>> /\ turns = <<>>
  BY DEF Init
<1>2. Pairs(<<Prompt>>) = 0
  BY DEF Pairs
<1>3. Remembers(<<Prompt>>, 0, 0)
  BY <1>2 DEF Remembers
<1> QED BY <1>1, <1>3 DEF MemoryInv

LEMMA StepMemory ==
    ASSUME LoopInv, MemoryInv, [Next]_vars
    PROVE  MemoryInv'
<1>1. turns \in Seq(LoggedTurns) /\ Len(turns) \in Nat /\ (Waiting => WellFormed(messages))
  BY DEF LoopInv, AgentTypeOK
<1>2. ASSUME NEW reply \in Replies, pc = "asking", Finishes(reply) \/ Escalates(reply)
      PROVE  MemoryInv'
  BY <1>2 DEF Finishes, Escalates, End, Throws, MemoryInv, Waiting
<1>3. ASSUME NEW reply \in Replies, NEW large, pc = "asking", Acts(reply, large)
      PROVE  MemoryInv'
  <2>1. /\ LogTurn(reply)
        /\ messages' = Append(Said(reply), Message("user", "results", {Turn}, reply.calls))
    BY <1>3 DEF Acts
  <2>2. /\ Len(turns') = Len(turns) + 1 /\ Turn \in 1 .. MaxIterations
        /\ reply.calls \in SUBSET (Tools \cup {ESCALATE}) /\ Turn = Len(turns) + 1
    BY <1>3, <2>1, TurnLogged DEF Turn
  <2>3. PICK raw \in Nat : Remembers(messages, Len(turns), raw)
    BY <1>3 DEF MemoryInv, Waiting
  <2>4. Remembers(messages', Len(turns) + 1, raw + 1)
    BY <1>1, <1>3, <2>1, <2>2, <2>3, TurnRemembered DEF Said, Waiting
  <2> QED BY <2>2, <2>4 DEF MemoryInv
<1>4. CASE SummaryArrives
  <2>1. /\ turns' = [turns EXCEPT ![Len(turns)].compaction = Pairs(messages) - KeepRecentPairs]
        /\ messages' = compactMessages(messages) /\ pc = "summarizing"
    BY <1>4 DEF SummaryArrives
  <2>2. Pairs(messages) > KeepRecentPairs /\ WellFormed(messages)
    BY <1>1, <2>1 DEF LoopInv, Waiting
  <2>3. PICK raw \in Nat : Remembers(messages, Len(turns), raw)
    BY <2>1 DEF MemoryInv, Waiting
  <2>4. Len(turns') = Len(turns)
    BY <1>1, <2>1
  <2>5. Remembers(messages', Len(turns), KeepRecentPairs)
    BY <1>1, <2>1, <2>2, <2>3, CompactionRemembers
  <2> QED BY <2>4, <2>5 DEF MemoryInv
<1>5. CASE CallFails
  BY <1>5 DEF CallFails, Throws, MemoryInv, Waiting
<1>6. CASE UNCHANGED vars
  BY <1>6 DEF vars, MemoryInv, Waiting
<1> QED BY <1>2, <1>3, <1>4, <1>5, <1>6 DEF Next, ModelReplies

\* Every turn so far is in what the next request shows the model, the most recent ones as
\* they were, through any number of compactions.
THEOREM TurnsAreRemembered == Spec => []NothingIsForgotten
<1>1. LoopInv /\ MemoryInv => NothingIsForgotten
  <2> SUFFICES ASSUME LoopInv, MemoryInv, pc = "asking", NEW n \in 1 .. Len(turns)
               PROVE  \E i \in 1 .. Len(messages) :
                        /\ n \in messages[i].about
                        /\ n > Len(turns) - KeepRecentPairs => messages[i].kind = "reply"
    <3>1. LoopInv => DOMAIN turns = 1 .. Len(turns) /\ DOMAIN messages = 1 .. Len(messages)
      BY DEF LoopInv, AgentTypeOK
    <3> QED BY <3>1 DEF NothingIsForgotten
  <2> DEFINE T == Len(turns)
             P == Pairs(messages)
  <2>1. PICK raw \in Nat : Remembers(messages, T, raw)
    BY DEF MemoryInv, Waiting
  <2>2. T \in Nat /\ P \in Nat /\ Len(messages) = 2 * P + 1
    <3>1. T \in Nat /\ WellFormed(messages)
      BY DEF LoopInv, AgentTypeOK, Waiting
    <3> QED BY <3>1, PairsOfOdd DEF WellFormed
  <2>3. /\ raw \in 0 .. T /\ raw <= P /\ (raw < T => P = raw + 1)
        /\ raw >= KeepRecentPairs \/ raw = T
    BY <2>1, <2>2 DEF Remembers
  <2> HIDE DEF T, P
  <2>4. CASE n <= T - raw
    <3>1. n \in 1 .. T - raw /\ raw < T /\ 2 \in 1 .. Len(messages)
          /\ ~ (n > T - KeepRecentPairs)
      BY <2>2, <2>3, <2>4 DEF T
    <3>2. n \in messages[2].about
      BY <2>1, <3>1 DEF Remembers
    <3> QED BY <3>1, <3>2 DEF T
  <2>5. CASE n > T - raw
    <3> DEFINE i == Len(messages) - 1 - 2 * (T - n)
    <3>1. n \in T - raw + 1 .. T /\ i \in 1 .. Len(messages)
      BY <2>2, <2>3, <2>5 DEF T
    <3>2. n \in messages[i].about /\ messages[i].kind = "reply"
      BY <2>1, <3>1 DEF Remembers, ReplyOf
    <3> HIDE DEF i
    <3> QED BY <3>1, <3>2
  <2> QED BY <2>2, <2>3, <2>4, <2>5 DEF T
<1> QED BY <1>1, InitMemory, StepMemory, LoopInvariant, PTL DEF Spec
=============================================================================
